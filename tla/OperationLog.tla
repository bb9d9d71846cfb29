---------------------------- MODULE OperationLog ----------------------------
(***************************************************************************)
(* What the worker's operation ledger promises: one durable record per     *)
(* operation id, which only moves along its lifecycle.  An operation is    *)
(* begun once, for one request; a restart may make it uncertain, never     *)
(* unknown again; it is finished at most once.  WorkerLedger implements    *)
(* this over a file that can be torn, a sidecar and a restarted process.   *)
(***************************************************************************)
CONSTANTS Ops, Digests, Null

VARIABLE log        \* the record of every operation id

OpenPhases == {"in_progress", "uncertain"}
FinalPhases == {"committed", "failed"}

Unknown == [phase |-> "unknown", digest |-> Null]

(***************************************************************************)
(* The records that may directly follow record r.                          *)
(***************************************************************************)
Successors(r) ==
    CASE r = Unknown -> [phase : {"in_progress"}, digest : Digests]
      [] r.phase = "in_progress" ->
            [phase : FinalPhases \union {"uncertain"}, digest : {r.digest}]
      [] r.phase = "uncertain" -> [phase : FinalPhases, digest : {r.digest}]
      [] OTHER -> {}

Init == log = [op \in Ops |-> Unknown]

Next ==
    \E op \in Ops : \E r \in Successors(log[op]) : log' = [log EXCEPT ![op] = r]

vars == log

Spec == Init /\ [][Next]_vars
=============================================================================
