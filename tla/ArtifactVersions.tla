-------------------------- MODULE ArtifactVersions --------------------------
(***************************************************************************)
(* Artifact versions in the control store (control/store.py, schema.py,      *)
(* artifacts/service.py, reader.py).  A live attempt requests a version; a   *)
(* worker claims its materialization, publishes the bytes outside any        *)
(* transaction and commits the version, which may advance the artifact's     *)
(* head; runs end and restart meanwhile.  Committed versions are frozen into *)
(* snapshots and read back.                                                  *)
(*                                                                         *)
(* The materializer is what PublishOnce promises and Materializer            *)
(* implements: a path is written once, by one version's operation.  A        *)
(* version's digest is its id.  The sources a version cites are those its    *)
(* run is bound to (SourceImports).                                          *)
(***************************************************************************)
EXTENDS Naturals, Sequences, FiniteSets

CONSTANTS
    Artifacts, Paths, Workers, Runs,
    MaxVersions, MaxAttempts, MaxEpoch, MaxHead, MaxFaults, MaxSnapshots   \* bounds

VARIABLES run, art, ver, disk, worker, snapshots, faults

vars == <<run, art, ver, disk, worker, snapshots, faults>>

None == "none"
Idle == [pc |-> "idle", on |-> 0, epoch |-> 0]

(* What the theorems assume of the constants: any number of versions, and no
   worker is named as the absence of one.                                   *)
ArtifactAssumption == MaxVersions \in Nat /\ None \notin Workers

(* The states of artifact_materialization_actions that belong to each state
   of its artifact_versions row.                                            *)
ActionStates == [pending |-> {"pending", "claimed"}, committed |-> {"completed"}, failed |-> {"failed"}]

Init ==
    /\ run = [r \in Runs |-> [active |-> TRUE, attempt |-> 1, retryable |-> TRUE]]
    /\ art = [a \in Artifacts |-> [rev |-> 0, head |-> 0, past |-> <<>>]]
    /\ ver = <<>>
    /\ disk = [x \in Paths |-> 0]
    /\ worker = [w \in Workers |-> Idle]
    /\ snapshots = {}
    /\ faults = 0

Ids == DOMAIN ver

(* _validate_artifact_run_attempt *)
OwnerActive(r, attempt) == run[r].active /\ run[r].attempt = attempt
Owned(v) == OwnerActive(ver[v].run, ver[v].attempt)

----------------------------------------------------------------------------
(* Versions and heads *)

(* _validate_artifact_parents *)
ParentsOk(parents) == \A v \in parents : ver[v].st = "committed"

(* The rows of a version and of its materialization action. *)
NewVersion(r, a, x, parents, advance) ==
    [art |-> a, path |-> x, run |-> r, attempt |-> run[r].attempt, parents |-> parents,
     st |-> "pending", act |-> "pending", owner |-> None, live |-> FALSE, epoch |-> 0,
     advance |-> advance, expected |-> IF advance THEN art[a].rev ELSE 0, base |-> art[a].head]

RequestVersion(r, a, x, parents, advance) ==
    /\ Len(ver) < MaxVersions
    /\ run[r].active
    /\ ParentsOk(parents)
    /\ ver' = Append(ver, NewVersion(r, a, x, parents, advance))
    /\ UNCHANGED <<run, art, disk, worker, snapshots, faults>>

Moved(a, v) == [art EXCEPT ![a] = [rev |-> @.rev + 1, head |-> v, past |-> Append(@.past, v)]]

(* advance_artifact_head: the trigger refuses the version that is the head. *)
AdvanceHead(r, v) ==
    LET a == ver[v].art
    IN  /\ run[r].active
        /\ ver[v].st = "committed"
        /\ art[a].head # v
        /\ art[a].rev < MaxHead
        /\ art' = Moved(a, v)
        /\ UNCHANGED <<run, ver, disk, worker, snapshots, faults>>

(* read_artifact_content_reference and the reader behind it: a committed
   version whose bytes have its digest.                                     *)
Readable(v) == ver[v].st = "committed" /\ disk[ver[v].path] = v

Freezable(vs) == vs # {} /\ \A v \in vs : ver[v].st = "committed"

CreateSnapshot(r, vs) ==
    /\ run[r].active
    /\ Freezable(vs)
    /\ Cardinality(snapshots) < MaxSnapshots
    /\ snapshots' = snapshots \union {vs}
    /\ UNCHANGED <<run, art, ver, disk, worker, faults>>

----------------------------------------------------------------------------
(* One delivery of ArtifactMaterializationService *)

Claimable(v) ==
    /\ ver[v].act = "pending" \/ (ver[v].act = "claimed" /\ ~ver[v].live)
    /\ ver[v].st = "pending"
    /\ Owned(v)

Claim(w, v) ==
    /\ worker[w].pc = "idle"
    /\ Claimable(v)
    /\ ver[v].epoch < MaxEpoch
    /\ ver' = [ver EXCEPT ![v].act = "claimed", ![v].owner = w, ![v].live = TRUE, ![v].epoch = @ + 1]
    /\ worker' = [worker EXCEPT ![w] = [pc |-> "publish", on |-> v, epoch |-> ver[v].epoch + 1]]
    /\ UNCHANGED <<run, art, disk, snapshots, faults>>

(* Mutant of Publish: the bytes replace whatever is at the path. *)
Publish_Replaces(w) ==
    /\ worker[w].pc = "publish"
    /\ disk' = [disk EXCEPT ![ver[worker[w].on].path] = worker[w].on]
    /\ worker' = [worker EXCEPT ![w].pc = "complete"]
    /\ UNCHANGED <<run, art, ver, snapshots, faults>>

(* The materializer, outside the store: another operation's path is refused. *)
Publish(w) ==
    LET v == worker[w].on
        x == ver[v].path
    IN  /\ worker[w].pc = "publish"
        /\ IF disk[x] \in {0, v}
             THEN /\ disk' = [disk EXCEPT ![x] = v]
                  /\ worker' = [worker EXCEPT ![w].pc = "complete"]
             ELSE /\ worker' = [worker EXCEPT ![w].pc = "fail"]
                  /\ UNCHANGED disk
        /\ UNCHANGED <<run, art, ver, snapshots, faults>>

(* _claim_fence_is_current *)
FenceCurrent(w) ==
    LET v == worker[w].on
    IN  ver[v].owner = w /\ ver[v].epoch = worker[w].epoch /\ ver[v].live

HeadUnmoved(v) == art[ver[v].art].rev = ver[v].expected

Commit(w) ==
    LET v == worker[w].on
    IN  /\ worker[w].pc = "complete"
        /\ FenceCurrent(w)
        /\ Owned(v)
        /\ ver' = [ver EXCEPT ![v].st = "committed", ![v].act = "completed", ![v].owner = None, ![v].live = FALSE]
        /\ art' = IF ver[v].advance /\ HeadUnmoved(v) THEN Moved(ver[v].art, v) ELSE art
        /\ worker' = [worker EXCEPT ![w] = Idle]
        /\ UNCHANGED <<run, disk, snapshots, faults>>

(* fail_artifact_materialization checks the claim only. *)
Fail(w) ==
    /\ worker[w].pc = "fail"
    /\ FenceCurrent(w)
    /\ ver' = [ver EXCEPT ![worker[w].on].st = "failed", ![worker[w].on].act = "failed",
                          ![worker[w].on].owner = None, ![worker[w].on].live = FALSE]
    /\ worker' = [worker EXCEPT ![w] = Idle]
    /\ UNCHANGED <<run, art, disk, snapshots, faults>>

(* A stale claim, or an owner that is gone: the store raises. *)
Refused(w) ==
    /\ worker[w].pc \in {"complete", "fail"}
    /\ ~FenceCurrent(w) \/ (worker[w].pc = "complete" /\ ~Owned(worker[w].on))
    /\ worker' = [worker EXCEPT ![w] = Idle]
    /\ UNCHANGED <<run, art, ver, disk, snapshots, faults>>

Deliver(w) == (\E v \in Ids : Claim(w, v)) \/ Publish(w) \/ Commit(w) \/ Fail(w) \/ Refused(w)

(* The materializer fails by itself, or the worker dies. *)
Fault(w) ==
    /\ worker[w].pc # "idle"
    /\ faults < MaxFaults
    /\ faults' = faults + 1
    /\ worker' = [worker EXCEPT ![w] = IF @.pc = "publish" THEN [@ EXCEPT !.pc = "fail"] ELSE Idle]
    /\ UNCHANGED <<run, art, ver, disk, snapshots>>

Held(v) == \E w \in Workers : worker[w].pc # "idle" /\ worker[w].on = v /\ FenceCurrent(w)

Expire(v) ==
    /\ ver[v].live
    /\ Held(v) => faults < MaxFaults
    /\ faults' = IF Held(v) THEN faults + 1 ELSE faults
    /\ ver' = [ver EXCEPT ![v].live = FALSE]
    /\ UNCHANGED <<run, art, disk, worker, snapshots>>

RetryMaterialization(v) ==
    /\ ver[v].act = "failed"
    /\ Owned(v)
    /\ faults < MaxFaults
    /\ faults' = faults + 1
    /\ ver' = [ver EXCEPT ![v].st = "pending", ![v].act = "pending"]
    /\ UNCHANGED <<run, art, disk, worker, snapshots>>

----------------------------------------------------------------------------
(* The run *)

(* Both fences, for a run and for an attempt of it: what is not committed
   fails, and its claim is void.                                            *)
Fence(vs) ==
    ver' = [v \in Ids |->
              IF v \in vs /\ ver[v].st = "pending"
                THEN [ver[v] EXCEPT !.st = "failed", !.act = "failed", !.owner = None, !.live = FALSE,
                                    !.epoch = @ + 1]
                ELSE ver[v]]

OfRun(r) == {v \in Ids : ver[v].run = r}
OfAttempt(r) == {v \in OfRun(r) : ver[v].attempt = run[r].attempt}

EndRun(r, retryable) ==
    /\ run[r].active
    /\ run' = [run EXCEPT ![r].active = FALSE, ![r].retryable = retryable]
    /\ Fence(OfRun(r))
    /\ UNCHANGED <<art, disk, worker, snapshots, faults>>

(* resume_run and retry_run: a new attempt supersedes the old one. *)
RestartRun(r) ==
    /\ run[r].active \/ run[r].retryable
    /\ run[r].attempt < MaxAttempts
    /\ run' = [run EXCEPT ![r].active = TRUE, ![r].attempt = @ + 1]
    /\ Fence(OfAttempt(r))
    /\ UNCHANGED <<art, disk, worker, snapshots, faults>>

----------------------------------------------------------------------------
(* What the schema's triggers let an update do; an update they refuse aborts
   the whole transaction.                                                   *)

VersionGuard(v) ==
    /\ <<ver[v].st, ver'[v].st>> \in {<<"pending", "committed">>, <<"pending", "failed">>, <<"failed", "pending">>}
    /\ \A f \in {"art", "path", "run", "attempt", "parents"} : ver'[v][f] = ver[v][f]

(* A completed action has passed through materialized in its transaction. *)
ActionGuard(v) ==
    \/ ver[v].act \in {"pending", "claimed"} /\ ver[v].st = "pending" /\ ver'[v].act \in {"claimed", "completed", "failed"}
    \/ ver[v].act = "failed" /\ ver[v].st = "failed" /\ ver'[v].act = "pending"

HeadGuard(a) ==
    /\ art'[a].rev = art[a].rev + 1
    /\ art'[a].head # art[a].head
    /\ ver'[art'[a].head].art = a /\ ver'[art'[a].head].st = "committed"

Next ==
    \/ \E r \in Runs :
        \/ \E a \in Artifacts, x \in Paths, parents \in SUBSET Ids, adv \in BOOLEAN :
                RequestVersion(r, a, x, parents, adv)
        \/ \E v \in Ids : AdvanceHead(r, v)
        \/ \E vs \in SUBSET Ids : CreateSnapshot(r, vs)
        \/ \E retryable \in BOOLEAN : EndRun(r, retryable)
        \/ RestartRun(r)
    \/ \E w \in Workers : Deliver(w) \/ Fault(w)
    \/ \E v \in Ids : Expire(v) \/ RetryMaterialization(v)

Spec == Init /\ [][Next]_vars

FairSpec ==
    /\ Spec
    /\ \A w \in Workers : WF_vars(Deliver(w))
    /\ WF_vars(\E v \in Ids : Expire(v))

----------------------------------------------------------------------------
(* Properties *)

(* A version and its action are in states that belong together, and only a
   claimed action has an owner.                                             *)
TypeOK ==
    /\ \A v \in Ids :
        /\ ver[v].art \in Artifacts /\ ver[v].path \in Paths /\ ver[v].run \in Runs
        /\ ver[v].act \in ActionStates[ver[v].st]
        /\ (ver[v].act = "claimed") = (ver[v].owner \in Workers)
        /\ ver[v].live => ver[v].act = "claimed"
    /\ \A a \in Artifacts : art[a].rev = Len(art[a].past) /\ art[a].head \in Ids \union {0}
    /\ disk \in [Paths -> 0..MaxVersions]
    /\ \A w \in Workers : worker[w].pc \in {"idle", "publish", "complete", "fail"}

(* Whatever is committed can be read: the reader finds its bytes, and no
   other's, at its path.                                                    *)
CommittedOnDisk == \A v \in Ids : ver[v].st = "committed" => Readable(v)

(* A head, a parent and a snapshot's member are committed versions, and a
   head is one of its artifact's.                                           *)
LineageCommitted ==
    /\ \A a \in Artifacts : art[a].head # 0 => ver[art[a].head].st = "committed" /\ ver[art[a].head].art = a
    /\ \A v \in Ids : ParentsOk(ver[v].parents)
    /\ \A vs \in snapshots : \A v \in vs : ver[v].st = "committed"

(* No version of a run that ended, or of an attempt that was superseded, is
   left pending: nobody would ever materialize it.                          *)
NoneStranded == \A v \in Ids : ver[v].st = "pending" => Owned(v)

(* A committed version never changes, and nothing is committed for a run that
   has ended or moved to another attempt.                                   *)
CommitsInTime ==
    \A v \in Ids :
     /\ ver[v].st = "committed" => ver'[v] = ver[v]
     /\ ver[v].st # "committed" /\ ver'[v].st = "committed" => Owned(v)

(* No update the store makes is refused by its schema: a transaction that
   claims, commits, fences or moves a head is never aborted half way.       *)
NeverAborted ==
    /\ \A v \in Ids : /\ ver'[v].st # ver[v].st => VersionGuard(v)
                      /\ ver'[v].act # ver[v].act => ActionGuard(v)
    /\ \A a \in Artifacts : art'[a] # art[a] => HeadGuard(a)

(* A commit that moves the head moves it from the very head its request saw,
   also when the head has been moved away and back in between.              *)
NoLostHead ==
    \A v \in Ids :
     LET a == ver[v].art
     IN  ver[v].st # "committed" /\ ver'[v].st = "committed" /\ art'[a] # art[a] =>
             art[a].head = ver[v].base /\ art[a].rev = ver[v].expected

(* Under workers that keep delivering, a requested version is settled. *)
VersionsSettle == \A i \in 1..MaxVersions : (i \in Ids /\ ver[i].st = "pending") ~> (i \in Ids /\ ver[i].st # "pending")
====
