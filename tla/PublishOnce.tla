---------------------------- MODULE PublishOnce ----------------------------
(***************************************************************************)
(* What a materializer promises of its paths: bytes appear at a path whole,  *)
(* by one operation, and are never replaced; an operation succeeds only when *)
(* its own bytes are at its path.                                            *)
(***************************************************************************)
CONSTANTS Ops, Paths, Path, Nothing, Foreign

VARIABLES published, succeeded

Init ==
    /\ published = [p \in Paths |-> Nothing]
    /\ succeeded = {}

Publish(o) ==
    /\ published[Path[o]] = Nothing
    /\ published' = [published EXCEPT ![Path[o]] = o]
    /\ UNCHANGED succeeded

Succeed(o) ==
    /\ published[Path[o]] = o
    /\ succeeded' = succeeded \union {o}
    /\ UNCHANGED published

(* Somebody else writes there first. *)
Squat(p) ==
    /\ published[p] = Nothing
    /\ published' = [published EXCEPT ![p] = Foreign]
    /\ UNCHANGED succeeded

Next ==
    \/ \E o \in Ops : Publish(o) \/ Succeed(o)
    \/ \E p \in Paths : Squat(p)

vars == <<published, succeeded>>

Spec == Init /\ [][Next]_vars
====
