---------------------------- MODULE InstallJournal ----------------------------
(***************************************************************************)
(* Install, upgrade, rollback, uninstall and recovery of the distribution  *)
(* (distribution/install.py) with the state safety gate of an upgrade      *)
(* (distribution/state_safety.py).  A command works below the distribution *)
(* root under one blocking lock; before anything else each holder of the   *)
(* lock recovers what an interrupted command left.  A command is a plan of *)
(* durable effects, carried out one at a time: the process may die between *)
(* any two of them, and an effect may raise.                               *)
(*                                                                         *)
(* Upgrade, rollback and uninstall work in two locked sections; the second *)
(* runs inside the lifecycle's quiescence, and takes the two locks in the  *)
(* opposite order of start and stop.  The journal's phase is written and   *)
(* never read by recovery, so it is left out.  A crash is the process's:   *)
(* what it wrote stays written.                                            *)
(***************************************************************************)
EXTENDS Integers, FiniteSets, Sequences, SequencesExt

CONSTANTS
    Procs,        \* processes that run commands
    Releases,     \* 1 .. n: bundles, ordered by release sequence
    Schema,       \* the Control schema each release knows
    Commands,     \* commands that are given, out of AllCommands
    MaxCommands,  \* bound: commands given
    MaxCrashes,   \* bound: processes that die
    MaxFaults     \* bound: effects and checks that raise

AllCommands == {"install", "upgrade", "rollback", "uninstall", "recover", "start", "stop",
                "proof"}

InstallAssumption ==
    /\ IsFiniteSet(Procs) /\ Releases = 1 .. Cardinality(Releases)
    /\ Schema \in [Releases -> Nat \ {0}] /\ Commands \subseteq AllCommands
    /\ MaxCommands \in Nat /\ MaxCrashes \in Nat /\ MaxFaults \in Nat

VARIABLES
    disk,     \* what is below the distribution root
    lock,     \* the process that holds the distribution lock
    quiet,    \* the process that holds the lifecycle lock
    product,  \* whether it runs, its database's schema, the schema its proof covers
    proc,     \* the processes
    faults    \* how often each bounded thing happened

vars == <<disk, lock, quiet, product, proc, faults>>

NoOne == "nobody"
NoTx == [op |-> "none", before |-> 0, after |-> 0, lkgBefore |-> 0, lkgAfter |-> 0,
         owned |-> FALSE]

(* names: what an uninstall moved into the trash.                          *)
NoTrash == [there |-> FALSE, names |-> {}]
Owned == {"bin", "snapshots", "versions", "lkg", "current"}

EmptyRoot == [root |-> FALSE, marker |-> FALSE, current |-> 0, lkg |-> 0, tx |-> NoTx,
              versions |-> {}, staging |-> FALSE, bin |-> FALSE, snaps |-> {},
              uninstall |-> FALSE, trash |-> NoTrash]

(* read: current and last known good as the first section saw them;        *)
(* todo: durable effects still to come; then: where the command goes next. *)
Resting == [cmd |-> "none", pc |-> "idle", v |-> 0, read |-> 0, readLkg |-> 0,
            created |-> FALSE, tx |-> NoTx, todo |-> <<>>, then |-> "none",
            recovered |-> "none"]

Init ==
    /\ disk = EmptyRoot /\ lock = NoOne /\ quiet = NoOne
    /\ product = [running |-> FALSE, db |-> 0, proof |-> 0]
    /\ proc = [p \in Procs |-> Resting]
    /\ faults = [command |-> 0, crash |-> 0, fault |-> 0]

Count(f, max) == faults[f] < max /\ faults' = [faults EXCEPT ![f] = @ + 1]

-----------------------------------------------------------------------------
(* Effects on the disk.                                                    *)

InRoot(d, name) == name \notin d.trash.names
Current(d) == IF InRoot(d, "current") THEN d.current ELSE 0
LastKnownGood(d) == IF InRoot(d, "lkg") THEN d.lkg ELSE 0
Installed(d) == IF InRoot(d, "versions") THEN d.versions ELSE {}

(* _verify_installed_version and _verify_pointer_generation.               *)
Verified(d, v) == v = 0 \/ v \in Installed(d)

MoveToTrash(d, name) == [d EXCEPT !.trash.names = @ \cup {name}]
Restore(d, name) == [d EXCEPT !.trash.names = @ \ {name}]

(* _finish_uninstall_locked removes the tree of the trash.                 *)
EmptyTrash(d) ==
    LET gone == d.trash.names
    IN  [d EXCEPT !.trash = NoTrash,
                  !.bin = @ /\ "bin" \notin gone,
                  !.snaps = IF "snapshots" \in gone THEN {} ELSE @,
                  !.versions = IF "versions" \in gone THEN {} ELSE @,
                  !.lkg = IF "lkg" \in gone THEN 0 ELSE @,
                  !.current = IF "current" \in gone THEN 0 ELSE @]

(* The journalled transaction t and release v give an effect its subject.  *)
Apply(d, e, t, v) ==
    CASE e = "stage"      -> [d EXCEPT !.staging = TRUE]
      [] e = "publish"    -> [d EXCEPT !.staging = FALSE, !.versions = @ \cup {v}]
      [] e = "unstage"    -> [d EXCEPT !.staging = FALSE]
      [] e = "discard"    -> [d EXCEPT !.versions = @ \ {v}]
      [] e = "launchers"  -> [d EXCEPT !.bin = TRUE]
      [] e = "journal"    -> [d EXCEPT !.tx = t]
      [] e = "snapshot"   -> [d EXCEPT !.snaps = @ \cup {t.before}]
      [] e = "lkg"        -> [d EXCEPT !.lkg = t.lkgAfter]
      [] e = "current"    -> [d EXCEPT !.current = t.after]
      [] e = "forget"     -> [d EXCEPT !.tx = NoTx]
      [] e = "oldCurrent" -> [d EXCEPT !.current = t.before]
      [] e = "oldLkg"     -> [d EXCEPT !.lkg = t.lkgBefore]
      [] e = "unsnap"     -> [d EXCEPT !.snaps = IF t.op = "upgrade" THEN @ \ {t.before} ELSE @]
      [] e = "uncandidate" -> [d EXCEPT !.versions =
                                  IF t.owned /\ t.after \notin {t.before, t.lkgBefore}
                                  THEN @ \ {t.after} ELSE @]
      [] e = "unlauncher" -> [d EXCEPT !.bin = @ /\ t.op # "install"]
      [] e = "ujournal"   -> [d EXCEPT !.uninstall = TRUE]
      [] e = "trash"      -> [d EXCEPT !.trash.there = TRUE]
      [] e = "moveBin"    -> MoveToTrash(d, "bin")
      [] e = "moveSnapshots" -> MoveToTrash(d, "snapshots")
      [] e = "moveVersions" -> MoveToTrash(d, "versions")
      [] e = "moveLkg"    -> MoveToTrash(d, "lkg")
      [] e = "moveCurrent" -> MoveToTrash(d, "current")
      [] e = "emptyTrash" -> EmptyTrash(d)
      [] e = "unmark"     -> [d EXCEPT !.marker = FALSE]
      [] e = "uforget"    -> [d EXCEPT !.uninstall = FALSE]
      [] e = "rmroot"     -> [d EXCEPT !.root = FALSE]
      [] e = "backLkg"    -> Restore(d, "lkg")
      [] e = "backBin"    -> Restore(d, "bin")
      [] e = "backSnapshots" -> Restore(d, "snapshots")
      [] e = "backVersions" -> Restore(d, "versions")
      [] e = "rmtrash"    -> [d EXCEPT !.trash = NoTrash]
      [] OTHER            -> d

(* The effects of each command, in the order of the code.                  *)
Stage == <<"stage", "publish">>

Publish == <<"lkg", "current", "forget">>
InstallPlan == <<"journal">> \o Stage \o <<"launchers">> \o Publish
UpgradePlan == <<"journal", "snapshot">> \o Publish
RollbackPlan == <<"journal">> \o Publish
FinishUninstall == <<"emptyTrash", "unmark", "uforget", "rmroot">>

UninstallPlan ==
    <<"ujournal", "trash", "moveBin", "moveSnapshots", "moveVersions", "moveLkg", "moveCurrent">>
    \o FinishUninstall

-----------------------------------------------------------------------------
(* Recovery (_recover_transaction_locked, _recover_uninstall_locked).      *)

AbortPlan == <<"oldCurrent", "oldLkg", "unsnap", "uncandidate", "unlauncher", "forget">>
CommitPlan == <<"lkg", "current", "forget">>
RestorePlan == <<"backLkg", "backBin", "backSnapshots", "backVersions", "rmtrash", "uforget">>

Pending(d) == d.tx # NoTx
UninstallPending(d) == d.uninstall \/ d.trash.there

(* Mutant of Outcome: an interrupted update is always rolled forward.      *)
Outcome_Forward(d) ==
    CASE Pending(d) -> "committed"
      [] ~Pending(d) /\ UninstallPending(d) -> "completed"
      [] OTHER -> "none"

(* What the holder of the lock finds, and what recovery will answer.       *)
Outcome(d) ==
    LET t == d.tx
        known == /\ Current(d) \in {t.before, t.after}
                 /\ LastKnownGood(d) \in {t.lkgBefore, t.lkgAfter}
    IN  CASE Pending(d) /\ UninstallPending(d) -> "manual"
          [] Pending(d) /\ ~UninstallPending(d) /\ Current(d) = t.before ->
               IF known /\ Verified(d, t.before) /\ Verified(d, t.lkgBefore)
               THEN "aborted" ELSE "manual"
          [] Pending(d) /\ ~UninstallPending(d) /\ Current(d) # t.before ->
               IF /\ known /\ Verified(d, t.after) /\ Verified(d, t.lkgAfter)
                  /\ t.op = "install" => d.bin
                  /\ t.op = "upgrade" => t.before \in d.snaps
               THEN "committed" ELSE "manual"
          [] ~Pending(d) /\ UninstallPending(d) /\ ~d.uninstall -> "manual"
          [] ~Pending(d) /\ d.uninstall /\ Current(d) # 0 ->
               IF Current(d) \in d.versions THEN "aborted" ELSE "manual"
          [] ~Pending(d) /\ d.uninstall /\ Current(d) = 0 -> "completed"
          [] OTHER -> "none"

RecoveryPlan(d) ==
    CASE Outcome(d) = "aborted" -> IF Pending(d) THEN AbortPlan ELSE RestorePlan
      [] Outcome(d) = "committed" -> CommitPlan
      [] Outcome(d) = "completed" -> FinishUninstall
      [] OTHER -> <<>>

-----------------------------------------------------------------------------
(* The processes.                                                          *)

Goes(p, pc) == proc' = [proc EXCEPT ![p].pc = pc]
Plans(p, plan, then) == proc' = [proc EXCEPT ![p].todo = plan, ![p].pc = "do", ![p].then = then]
Unlock(p) == lock' = IF lock = p THEN NoOne ELSE lock
Unquiet(p) == quiet' = IF quiet = p THEN NoOne ELSE quiet

Command(p, c, v) ==
    /\ proc[p].pc = "idle" /\ Count("command", MaxCommands)
    /\ proc' = [proc EXCEPT ![p] = [Resting EXCEPT !.cmd = c, !.v = v, !.pc = "lock1"]]
    /\ UNCHANGED <<disk, lock, quiet, product>>

(* _locked: the root and its marker, then recovery, then stale candidates. *)
Lock(p) ==
    /\ proc[p].pc \in {"lock1", "lock2", "lockD"} /\ lock = NoOne
    /\ \/ /\ proc[p].cmd = "recover" /\ ~disk.root
          /\ proc' = [proc EXCEPT ![p] = Resting] /\ UNCHANGED <<disk, lock>>
       \/ /\ proc[p].cmd # "recover" \/ disk.root
          /\ lock' = p
          /\ LET d == [disk EXCEPT !.root = TRUE, !.marker = @ \/ ~UninstallPending(disk)]
             IN  /\ disk' = d
                 /\ proc' = [proc EXCEPT ![p].recovered = Outcome(d), ![p].tx = d.tx,
                                ![p].todo = RecoveryPlan(d) \o <<"unstage">>, ![p].pc = "do",
                                ![p].then = CASE Outcome(d) = "manual" -> "failed"
                                              [] proc[p].pc = "lock1" -> "first"
                                              [] proc[p].pc = "lock2" -> "second"
                                              [] OTHER -> "drop"]
    /\ UNCHANGED <<quiet, product, faults>>

(* One durable effect.                                                     *)
Effect(p) ==
    /\ proc[p].pc = "do" /\ proc[p].todo # <<>>
    /\ disk' = Apply(disk, Head(proc[p].todo), proc[p].tx, proc[p].v)
    /\ proc' = [proc EXCEPT ![p].todo = Tail(@),
                    ![p].created = @ \/ (Head(proc[p].todo) = "publish" /\ proc[p].tx = NoTx)]
    /\ UNCHANGED <<lock, quiet, product, faults>>

PlanDone(p) ==
    /\ proc[p].pc = "do" /\ proc[p].todo = <<>> /\ Goes(p, proc[p].then)
    /\ UNCHANGED <<disk, lock, quiet, product, faults>>

(* An effect raises.  Inside a journalled update the transaction is        *)
(* recovered at once; staging cleans up after itself.                      *)
Raises(p) ==
    /\ proc[p].pc = "do" /\ proc[p].todo # <<>> /\ Count("fault", MaxFaults)
    /\ IF proc[p].then = "published" /\ Pending(disk) /\ Outcome(disk) # "manual"
       THEN proc' = [proc EXCEPT ![p].todo = RecoveryPlan(disk), ![p].tx = disk.tx,
                        ![p].then = "failed"] /\ disk' = disk
       ELSE /\ disk' = IF Head(proc[p].todo) = "publish" THEN [disk EXCEPT !.staging = FALSE]
                       ELSE disk
            /\ Goes(p, "failed")
    /\ UNCHANGED <<lock, quiet, product>>

(* The first locked section of each command.                               *)
Refused(p) == Goes(p, "failed")

FirstInstall(p) ==
    LET v == proc[p].v
    IN  CASE Current(disk) = v -> Goes(p, IF Verified(disk, v) THEN "published" ELSE "failed")
          [] Current(disk) \notin {0, v} -> Refused(p)
          [] OTHER ->
               IF disk.versions # {} \/ disk.bin \/ disk.snaps # {} \/ disk.lkg # 0
               THEN Refused(p)
               ELSE proc' = [proc EXCEPT ![p].todo = InstallPlan, ![p].pc = "do",
                                ![p].then = "published",
                                ![p].tx = [NoTx EXCEPT !.op = "install", !.after = v,
                                              !.lkgAfter = v, !.owned = TRUE]]

FirstUpgrade(p) ==
    LET v == proc[p].v
        seen == [proc EXCEPT ![p].read = Current(disk), ![p].tx = NoTx, ![p].pc = "do",
                     ![p].then = "quiesce",
                     ![p].todo = IF v \in Installed(disk) THEN <<>> ELSE Stage]
    IN  CASE Current(disk) = 0 \/ v < Current(disk) -> Refused(p)
          [] Current(disk) = v -> Goes(p, IF Verified(disk, v) THEN "published" ELSE "failed")
          [] OTHER -> IF Verified(disk, Current(disk)) THEN proc' = seen ELSE Refused(p)

FirstRollback(p) ==
    LET cur == Current(disk) lkg == LastKnownGood(disk)
    IN  CASE cur = 0 \/ lkg = 0 -> Refused(p)
          [] cur # 0 /\ lkg # 0 /\ proc[p].recovered = "committed"
               /\ proc[p].tx.op = "rollback" -> Goes(p, "published")
          [] OTHER -> IF cur # lkg /\ Verified(disk, cur) /\ Verified(disk, lkg)
                      THEN proc' = [proc EXCEPT ![p].read = cur, ![p].readLkg = lkg,
                                       ![p].tx = NoTx, ![p].pc = "quiesce"]
                      ELSE Refused(p)

FirstUninstall(p) ==
    IF Current(disk) # 0 /\ Verified(disk, Current(disk))
    THEN proc' = [proc EXCEPT ![p].read = Current(disk), ![p].tx = NoTx, ![p].pc = "quiesce"]
    ELSE Refused(p)

(* start, stop and record-proof hold the lock for their whole run.         *)
Bound(p) == Goes(p, IF Current(disk) # 0 /\ Verified(disk, Current(disk))
                    THEN "lifecycle" ELSE "failed")

First(p) ==
    /\ proc[p].pc = "first"
    /\ CASE proc[p].cmd = "install" -> FirstInstall(p)
         [] proc[p].cmd = "upgrade" -> FirstUpgrade(p)
         [] proc[p].cmd = "rollback" -> FirstRollback(p)
         [] proc[p].cmd = "uninstall" -> FirstUninstall(p)
         [] proc[p].cmd \in {"start", "stop", "proof"} -> Bound(p)
         [] OTHER -> Goes(p, "published")
    /\ UNCHANGED <<disk, lock, quiet, product, faults>>

(* lifecycle_quiescence: the distribution lock is free meanwhile.          *)
ReleaseFirst(p) ==
    /\ proc[p].pc = "quiesce" /\ lock = p /\ Unlock(p)
    /\ UNCHANGED <<disk, quiet, product, proc, faults>>

(* Refused while the product runs, and when another command keeps the      *)
(* lifecycle lock until the deadline.                                      *)
Quiesce(p) ==
    /\ proc[p].pc = "quiesce" /\ lock # p
    /\ \/ /\ quiet = NoOne /\ ~product.running
          /\ quiet' = p /\ Goes(p, "lock2") /\ UNCHANGED faults
       \/ /\ product.running \/ quiet # NoOne
          /\ Refused(p) /\ UNCHANGED <<quiet, faults>>
    /\ UNCHANGED <<disk, lock, product>>

(* BackupBackedSafetyPort.inspect_state: fresh, or covered by a proof and  *)
(* readable by the candidate.                                              *)
Authorized(v) ==
    product.db = 0 \/ (product.proof = product.db /\ product.db <= Schema[v])

(* rollback compares the database's schema with its target's.              *)
Readable(v) == product.db <= Schema[v]

(* The second section: everything is checked again, then the journal.      *)
Second(p) ==
    /\ proc[p].pc = "second"
    /\ LET r == proc[p].read v == proc[p].v
           tx == CASE proc[p].cmd = "upgrade" ->
                        [NoTx EXCEPT !.op = "upgrade", !.before = r, !.after = v,
                            !.lkgBefore = LastKnownGood(disk), !.lkgAfter = r,
                            !.owned = proc[p].created]
                   [] proc[p].cmd = "rollback" ->
                        [NoTx EXCEPT !.op = "rollback", !.before = r,
                            !.after = proc[p].readLkg, !.lkgBefore = proc[p].readLkg,
                            !.lkgAfter = r]
                   [] OTHER -> NoTx
           ok == /\ Current(disk) = r
                 /\ CASE proc[p].cmd = "upgrade" -> v \in Installed(disk) /\ Authorized(v)
                      [] proc[p].cmd = "rollback" ->
                           /\ LastKnownGood(disk) = proc[p].readLkg
                           /\ Verified(disk, proc[p].readLkg)
                           /\ Readable(proc[p].readLkg)
                      [] OTHER -> TRUE
       IN  IF ok THEN proc' = [proc EXCEPT ![p].tx = tx, ![p].pc = "do",
                                  ![p].then = "published",
                                  ![p].todo = CASE proc[p].cmd = "upgrade" -> UpgradePlan
                                                [] proc[p].cmd = "rollback" -> RollbackPlan
                                                [] OTHER -> UninstallPlan]
           ELSE Refused(p)
    /\ UNCHANGED <<disk, lock, quiet, product, faults>>

(* start, stop and record-proof take the lifecycle lock second, with a     *)
(* deadline; cortexd migrates its database when it comes up.               *)
Lifecycle(p) ==
    /\ proc[p].pc = "lifecycle" /\ quiet = NoOne
    /\ product' = CASE proc[p].cmd = "start" ->
                         LET known == Schema[Current(disk)]
                         IN  [product EXCEPT !.running = product.db <= known,
                                  !.db = IF product.db < known THEN known ELSE @]
                    [] proc[p].cmd = "stop" -> [product EXCEPT !.running = FALSE]
                    [] OTHER -> [product EXCEPT !.proof = IF product.running THEN @ ELSE product.db]
    /\ Goes(p, "published")
    /\ UNCHANGED <<disk, lock, quiet, faults>>

LifecycleTimesOut(p) ==
    /\ proc[p].pc = "lifecycle" /\ quiet # NoOne /\ Refused(p)
    /\ UNCHANGED <<disk, lock, quiet, product, faults>>

(* The command returns or raises, and gives its locks back.  An upgrade    *)
(* that raised removes the candidate it staged, in a section of its own.   *)
Return(p) ==
    /\ proc[p].pc \in {"published", "failed"}
    /\ Unlock(p) /\ Unquiet(p)
    /\ IF proc[p].pc = "failed" /\ proc[p].created
       THEN proc' = [proc EXCEPT ![p] = [Resting EXCEPT !.cmd = proc[p].cmd, !.v = proc[p].v,
                                                       !.pc = "lockD"]]
       ELSE proc' = [proc EXCEPT ![p] = Resting]
    /\ UNCHANGED <<disk, product, faults>>

(* _discard_unreferenced_candidate.                                        *)
Drop(p) ==
    /\ proc[p].pc = "drop"
    /\ Plans(p, IF proc[p].v \in {Current(disk), LastKnownGood(disk)} THEN <<>>
                ELSE <<"discard">>, "published")
    /\ UNCHANGED <<disk, lock, quiet, product, faults>>

Crash(p) ==
    /\ proc[p].pc # "idle" /\ Count("crash", MaxCrashes)
    /\ Unlock(p) /\ Unquiet(p)
    /\ proc' = [proc EXCEPT ![p] = Resting]
    /\ UNCHANGED <<disk, product>>

-----------------------------------------------------------------------------
Step(p) ==
    \/ Lock(p) \/ Effect(p) \/ PlanDone(p) \/ First(p) \/ ReleaseFirst(p) \/ Quiesce(p)
    \/ Second(p) \/ Lifecycle(p) \/ LifecycleTimesOut(p) \/ Return(p) \/ Drop(p)

Next ==
    \E p \in Procs :
       \/ Step(p) \/ Raises(p) \/ Crash(p)
       \/ \E c \in Commands, v \in Releases :
             /\ c \notin {"install", "upgrade"} => v = 1
             /\ Command(p, c, v)

Spec == Init /\ [][Next]_vars

(* The kernel hands a free lock to somebody who waits for it.              *)
Fairness == \A p \in Procs : WF_vars(Step(p)) /\ SF_vars(Lock(p))
FairSpec == Spec /\ Fairness

-----------------------------------------------------------------------------
Pcs == {"idle", "lock1", "lock2", "lockD", "do", "first", "quiesce", "second", "lifecycle",
        "drop", "published", "failed"}
Pointers == Releases \cup {0}

TypeOK ==
    /\ disk.root \in BOOLEAN /\ disk.marker \in BOOLEAN /\ disk.bin \in BOOLEAN
    /\ disk.current \in Pointers /\ disk.lkg \in Pointers
    /\ disk.versions \subseteq Releases /\ disk.snaps \subseteq Releases
    /\ disk.trash.names \subseteq Owned
    /\ lock \in Procs \cup {NoOne} /\ quiet \in Procs \cup {NoOne}
    /\ product.db \in Nat /\ product.running \in BOOLEAN
    /\ \A p \in Procs : proc[p].pc \in Pcs /\ proc[p].v \in Pointers

(* With no journal on disk, what the two pointers name is there with its   *)
(* launchers, whatever was interrupted, raised or raced before.            *)
PointersHold ==
    ~Pending(disk) /\ ~UninstallPending(disk) /\ disk.current # 0 =>
        disk.current \in disk.versions /\ disk.lkg \in disk.versions /\ disk.bin

(* No interruption leaves a disk that recovery refuses to touch.           *)
NeverManual == Outcome(disk) # "manual"

(* The database is newer than what current can read only below a release   *)
(* that an install put there, which asks no schema (both pointers name it), *)
(* and the product does not run then; an upgrade or a rollback never leads  *)
(* there, so a stopped product can be started again.                       *)
StateReadable ==
    Current(disk) # 0 /\ product.db > Schema[Current(disk)] =>
        disk.lkg = disk.current /\ ~product.running

(* current.json is switched only while the product is stopped.             *)
SwitchedWhileStopped ==
    Current(disk') # Current(disk) => ~product.running

(* A command that was given ends: start holds the distribution lock and    *)
(* waits for the lifecycle lock, upgrade the other way round.              *)
CommandsEnd == \A p \in Procs : proc[p].pc # "idle" ~> proc[p].pc = "idle"
=============================================================================
