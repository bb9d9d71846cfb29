---------------------------- MODULE Materializer ----------------------------
(***************************************************************************)
(* The filesystem materializer (artifacts/materializer.py): one call of      *)
(* materialize() takes the operation's and the target's lock, writes three   *)
(* durable manifests (operation, target, publish intent), stages the bytes,  *)
(* links them to the final path and unlinks the stage.  The process may die   *)
(* between any two of these, calls of other processes interleave, and a       *)
(* stranger may create the final path.                                       *)
(*                                                                         *)
(* An operation's request is fixed (its version row is immutable), so a       *)
(* manifest is told by the operation that wrote it; the identity of the       *)
(* target folds case and normal form, so aliases of a path are one path.      *)
(* A file being written is torn until it is fsynced.                         *)
(***************************************************************************)
EXTENDS Naturals, FiniteSets

CONSTANTS
    Procs, Ops, Paths, Path,      \* Path[o]: the target of operation o
    MaxCalls, MaxCrashes, MaxStrangers      \* bounds

None == "none"
Stranger == "stranger"

ASSUME MaterializerAssumption ==
    /\ Path \in [Ops -> Paths]
    /\ Ops \cap {None, Stranger} = {}
    /\ None \notin Procs

VARIABLES man, stage, final, lock, proc, ok, spent

vars == <<man, stage, final, lock, proc, ok, spent>>
disk == <<man, stage, final>>

Kinds == {"op", "target", "publish"}
LockKeys == ({"op"} \X Ops) \union ({"target"} \X Paths)
Keys == LockKeys \union ({"publish"} \X Ops)
Key(kind, o) == <<kind, IF kind = "target" THEN Path[o] ELSE o>>
NoManifest == [by |-> None, phase |-> None]
Idle == [pc |-> "idle", op |-> None, bytes |-> None, mid |-> FALSE, existed |-> {}]

Init ==
    /\ man = [k \in Keys |-> NoManifest]
    /\ stage = [o \in Ops |-> None]
    /\ final = [x \in Paths |-> None]
    /\ lock = [k \in LockKeys |-> None]
    /\ proc = [p \in Procs |-> Idle]
    /\ ok = {}
    /\ spent = [calls |-> 0, crashes |-> 0, strangers |-> 0]

(* A call that ends, however it does, gives its locks back. *)
Freed(p) == [k \in LockKeys |-> IF lock[k] = p THEN None ELSE lock[k]]

Return(p) ==
    /\ proc' = [proc EXCEPT ![p] = Idle]
    /\ lock' = Freed(p)

Raise(p) == Return(p) /\ UNCHANGED <<disk, ok, spent>>

Succeed(p) == Return(p) /\ ok' = ok \union {proc[p].op} /\ UNCHANGED spent

Goto(p, pc) == proc' = [proc EXCEPT ![p].pc = pc, ![p].mid = FALSE]

----------------------------------------------------------------------------

Call(p, o, bytes) ==
    /\ proc[p].pc = "idle"
    /\ spent.calls < MaxCalls
    /\ spent' = [spent EXCEPT !.calls = @ + 1]
    /\ proc' = [proc EXCEPT ![p] = [Idle EXCEPT !.pc = "locks", !.op = o, !.bytes = bytes]]
    /\ UNCHANGED <<disk, lock, ok>>

(* _open_lock: the operation's first, then the target's. *)
NextLock(p) == IF lock[Key("op", proc[p].op)] = p THEN "target" ELSE "op"

TakeLock(p) ==
    LET kind == NextLock(p)
        k == Key(kind, proc[p].op)
    IN  /\ proc[p].pc = "locks"
        /\ lock[k] = None
        /\ lock' = [lock EXCEPT ![k] = p]
        /\ IF kind = "target" THEN Goto(p, "op") ELSE UNCHANGED proc
        /\ UNCHANGED <<disk, ok, spent>>

After == [op |-> "target", target |-> "final", publish |-> "link"]

(* _ensure_manifest: what is found, then the temporary file, its link to the
   name, and the unlink of the temporary.                                    *)
Conflicts(m, o) == m.phase = "torn" \/ m.by \notin {None, o}

EnterManifest(p) ==
    LET kind == proc[p].pc
        o == proc[p].op
        m == man[Key(kind, o)]
    IN  /\ kind \in Kinds
        /\ ~proc[p].mid
        /\ IF Conflicts(m, o)
             THEN Raise(p)
             ELSE /\ proc' = [proc EXCEPT ![p].mid = m.phase # "done",
                                          ![p].pc = IF m.phase = "done" THEN After[kind] ELSE kind,
                                          ![p].existed = IF m.phase = None THEN @ ELSE @ \union {kind}]
                  /\ UNCHANGED <<disk, lock, ok, spent>>

Phases == [none |-> "torn", torn |-> "temp", temp |-> "both", both |-> "done"]

WriteManifest(p) ==
    LET kind == proc[p].pc
        k == Key(kind, proc[p].op)
    IN  /\ kind \in Kinds
        /\ proc[p].mid
        /\ man' = [man EXCEPT ![k] = [by |-> proc[p].op, phase |-> Phases[@.phase]]]
        /\ IF man'[k].phase = "done" THEN Goto(p, After[kind]) ELSE UNCHANGED proc
        /\ UNCHANGED <<stage, final, lock, ok, spent>>

(* _materialize_under_lock: an existing final is settled, a stage of this
   operation is verified, or the bytes are staged.                           *)
LookFinal(p) ==
    /\ proc[p].pc = "final"
    /\ Goto(p, IF final[Path[proc[p].op]] # None THEN "settle" ELSE "stage")
    /\ UNCHANGED <<disk, lock, ok, spent>>

KnownStage(p) ==
    stage[proc[p].op] = "good" /\ {"op", "target"} \subseteq proc[p].existed

FindStage(p) ==
    /\ proc[p].pc = "stage" /\ ~proc[p].mid
    /\ stage[proc[p].op] # None
    /\ IF KnownStage(p)
         THEN Goto(p, "publish") /\ UNCHANGED <<disk, lock, ok, spent>>
         ELSE Raise(p)

CreateStage(p) ==
    /\ proc[p].pc = "stage" /\ ~proc[p].mid
    /\ stage[proc[p].op] = None
    /\ IF proc[p].bytes = None
         THEN Raise(p)
         ELSE /\ stage' = [stage EXCEPT ![proc[p].op] = "torn"]
              /\ proc' = [proc EXCEPT ![p].mid = TRUE]
              /\ UNCHANGED <<man, final, lock, ok, spent>>

(* _write_stage: the stream's length and hash are checked before the fsync;
   wrong bytes take the stage with them.                                     *)
WriteStage(p) ==
    /\ proc[p].pc = "stage" /\ proc[p].mid
    /\ stage' = [stage EXCEPT ![proc[p].op] = IF proc[p].bytes = "good" THEN "good" ELSE None]
    /\ IF proc[p].bytes = "good"
         THEN Goto(p, "publish") /\ UNCHANGED lock
         ELSE Return(p)
    /\ UNCHANGED <<man, final, ok, spent>>

(* Mutant of LinkFinal: the stage is renamed over whatever is there. *)
LinkFinal_Replaces(p) ==
    /\ proc[p].pc = "link"
    /\ final' = [final EXCEPT ![Path[proc[p].op]] = proc[p].op]
    /\ Goto(p, "unlink")
    /\ UNCHANGED <<man, stage, lock, ok, spent>>

(* os.link never replaces: whoever is there first is settled. *)
LinkFinal(p) ==
    LET o == proc[p].op
    IN  /\ proc[p].pc = "link"
        /\ IF final[Path[o]] = None
             THEN /\ final' = [final EXCEPT ![Path[o]] = o]
                  /\ Goto(p, "unlink")
             ELSE Goto(p, "settle") /\ UNCHANGED final
        /\ UNCHANGED <<man, stage, lock, ok, spent>>

UnlinkStage(p) ==
    /\ proc[p].pc = "unlink"
    /\ stage' = [stage EXCEPT ![proc[p].op] = None]
    /\ Succeed(p)
    /\ UNCHANGED <<man, final>>

(* _settle_existing_final: only a final this operation is on record to have
   published: the manifests, and the stage's own inode while there is one.   *)
Owned(p) ==
    LET o == proc[p].op
    IN  /\ {"op", "target"} \subseteq proc[p].existed
        /\ \A kind \in Kinds : man[Key(kind, o)] = [by |-> o, phase |-> "done"]

Settle(p) ==
    LET o == proc[p].op
    IN  /\ proc[p].pc = "settle"
        /\ IF Owned(p) /\ final[Path[o]] = o
             THEN IF stage[o] # None
                    THEN Goto(p, "unlink") /\ UNCHANGED <<disk, lock, ok, spent>>
                    ELSE Succeed(p) /\ UNCHANGED disk
             ELSE Raise(p)

Step(p) ==
    \/ TakeLock(p)
    \/ EnterManifest(p)
    \/ WriteManifest(p)
    \/ LookFinal(p)
    \/ FindStage(p)
    \/ CreateStage(p)
    \/ WriteStage(p)
    \/ LinkFinal(p)
    \/ UnlinkStage(p)
    \/ Settle(p)

Crash(p) ==
    /\ proc[p].pc # "idle"
    /\ spent.crashes < MaxCrashes
    /\ spent' = [spent EXCEPT !.crashes = @ + 1]
    /\ Return(p)
    /\ UNCHANGED <<disk, ok>>

StrangerWrites(x) ==
    /\ final[x] = None
    /\ spent.strangers < MaxStrangers
    /\ spent' = [spent EXCEPT !.strangers = @ + 1]
    /\ final' = [final EXCEPT ![x] = Stranger]
    /\ UNCHANGED <<man, stage, lock, proc, ok>>

Next ==
    \/ \E p \in Procs :
        \/ \E o \in Ops, bytes \in {None, "good", "bad"} : Call(p, o, bytes)
        \/ Step(p)
        \/ Crash(p)
    \/ \E x \in Paths : StrangerWrites(x)

Spec == Init /\ [][Next]_vars

FairSpec == Spec /\ \A p \in Procs : WF_vars(Step(p))

----------------------------------------------------------------------------
(* Properties *)

(* Files are absent, torn or whole, and a lock is held by one call. *)
TypeOK ==
    /\ man \in [Keys -> [by : Ops \union {None}, phase : {None, "torn", "temp", "both", "done"}]]
    /\ stage \in [Ops -> {None, "torn", "good"}]
    /\ final \in [Paths -> Ops \union {None, Stranger}]
    /\ lock \in [LockKeys -> Procs \union {None}]
    /\ ok \subseteq Ops
    /\ \A p \in Procs : proc[p].pc \notin {"idle", "locks"} =>
            lock[Key("op", proc[p].op)] = p /\ lock[Key("target", proc[p].op)] = p

(* A path that was linked belongs to one operation, which left its three
   manifests whole: no crash publishes bytes nobody can account for.         *)
FinalOwned ==
    \A x \in Paths : final[x] \in Ops =>
        /\ Path[final[x]] = x
        /\ \A kind \in Kinds : man[Key(kind, final[x])] = [by |-> final[x], phase |-> "done"]

(* Once the publish intent is on disk the caller's bytes are not needed
   again: they are staged whole, or published.                               *)
IntentKeepsBytes ==
    \A o \in Ops : man[<<"publish", o>>].phase # None => stage[o] = "good" \/ final[Path[o]] = o

(* The materializer implements publish-once: final paths are written whole,
   once, and success means the operation's own bytes are there.              *)
Atomic == INSTANCE PublishOnce WITH
    published <- final, succeeded <- ok, Nothing <- None, Foreign <- Stranger

Publishes == Atomic!Spec

====
