------------------------------ MODULE Backup ------------------------------
(***************************************************************************)
(* The backup tool (cortex_platform/backup.py): an online run inventories  *)
(* the asset roots and the canonical databases, copies every database and  *)
(* the control store's transport key into a staged snapshot, seals it with *)
(* a manifest, archives the stage and the roots one restic snapshot at a   *)
(* time, checks the repository, removes the stage and writes a receipt.    *)
(* A drill restores a stage or a receipt into an empty target and verifies *)
(* it.  The product keeps running: databases and files change between any  *)
(* two steps, a run may be killed at any point, and two runs may have been *)
(* given the same snapshot id.                                             *)
(*                                                                         *)
(* Contents are versions: a database is 0 when it is missing, Unsound when *)
(* it fails the inspection, otherwise the number of its last commit; the   *)
(* sampled file of a root is NoRoot, NoFile or the number of its last      *)
(* edit.  A checksum is the version itself.                                *)
(***************************************************************************)
EXTENDS Integers, Sequences, FiniteSets

CONSTANTS
    Dbs,          \* the canonical databases, in the order of their specs
    Control,      \* the database whose transport key travels with it
    Assets,       \* the asset roots, in the order of the inventory
    Referenced,   \* the roots whose files research.db refers to
    Job,          \* runs of the tool
    Id,           \* snapshot ids
    Target,       \* restore targets
    MaxCommit,    \* bound: commits and edits of the running product
    MaxFault,     \* bound: damaged files, restic failures and kills
    Kinds         \* the commands: "snapshot" ends with the stage, "restic" archives it

Db == {Dbs[n] : n \in DOMAIN Dbs}
Asset == {Assets[n] : n \in DOMAIN Assets}

ConstantsAssumption ==
    /\ Control \in Db
    /\ Referenced \subseteq Asset
    /\ MaxCommit \in Nat /\ MaxFault \in Nat
    /\ Kinds \subseteq {"snapshot", "restic"}

Missing == 0
Unsound == -1
NoFile == 0
NoRoot == -1
Versions == Nat \cup {-1}

VARIABLES
    live,      \* what the product has on disk: databases, sampled files, the key
    stage,     \* the staging root: a directory per snapshot id
    repo,      \* the restic snapshots, in the order they were made
    receipt,   \* the receipt files
    job,       \* the runs
    target,    \* the restore targets with the drill that fills each
    spent      \* the budgets used

vars == <<live, stage, repo, receipt, job, target, spent>>

NoManifest == [sealed |-> FALSE, db |-> [d \in Db |-> Missing], key |-> FALSE]

\* No directory, and a directory that was just made (base is what the live
\* databases held at that moment: a ghost).
NoDir == [there |-> FALSE, by |-> "nobody", base |-> [d \in Db |-> Missing],
          db |-> [d \in Db |-> Missing], key |-> FALSE, manifest |-> NoManifest]

Dir(j) == [NoDir EXCEPT !.there = TRUE, !.by = j, !.base = live.db]

NoReceipt == [there |-> FALSE, by |-> "nobody", snaps |-> <<>>, samples |-> {},
              edited |-> FALSE]

NewJob == [pc |-> "idle", kind |-> "none", id |-> "none", i |-> 1,
           samples |-> {}, roots |-> {}, status |-> [d \in Db |-> Missing],
           snaps |-> <<>>, edited |-> FALSE]

EmptyTarget == [pc |-> "empty", kind |-> "none", id |-> "none", i |-> 1,
                stage |-> NoDir, file |-> [a \in Asset |-> NoFile],
                db |-> [d \in Db |-> Missing], key |-> FALSE]

Init ==
    /\ live \in [db : [Db -> {Missing, Unsound, 1}],
                 file : [Asset -> {NoRoot, 1}],
                 key : BOOLEAN]
    /\ stage = [i \in Id |-> NoDir]
    /\ repo = <<>>
    /\ receipt = [i \in Id |-> NoReceipt]
    /\ job = [j \in Job |-> NewJob]
    /\ target = [t \in Target |-> EmptyTarget]
    /\ spent = [commit |-> 0, fault |-> 0]

---------------------------------------------------------------------------
(* The product and the disk around the run *)

Running(j) == job[j].pc \notin {"idle", "refused", "failed", "killed", "staged", "done"}

Commit(d) ==
    /\ spent.commit < MaxCommit
    /\ live.db[d] # Unsound
    /\ live' = [live EXCEPT !.db[d] = @ + 1]
    /\ spent' = [spent EXCEPT !.commit = @ + 1]
    /\ UNCHANGED <<stage, repo, receipt, job, target>>

\* A root's file is edited or deleted; every run in progress notes it (ghost).
Edit(a) ==
    /\ spent.commit < MaxCommit
    /\ live.file[a] # NoRoot
    /\ \E v \in {NoFile, spent.commit + 2} :
          v # live.file[a] /\ live' = [live EXCEPT !.file[a] = v]
    /\ job' = [j \in Job |-> [job[j] EXCEPT !.edited = @ \/ Running(j)]]
    /\ spent' = [spent EXCEPT !.commit = @ + 1]
    /\ UNCHANGED <<stage, repo, receipt, target>>

\* The disk damages a live database, a staged copy or an archived one.
Damage ==
    /\ spent.fault < MaxFault
    /\ spent' = [spent EXCEPT !.fault = @ + 1]
    /\ \E d \in Db :
          \/ /\ live.db[d] > 0
             /\ live' = [live EXCEPT !.db[d] = Unsound]
             /\ UNCHANGED <<stage, repo>>
          \/ \E i \in Id : /\ stage[i].db[d] > 0
                           /\ stage' = [stage EXCEPT ![i].db[d] = Unsound]
                           /\ UNCHANGED <<live, repo>>
          \/ \E n \in DOMAIN repo : /\ repo[n].content.db[d] > 0
                                    /\ repo' = [repo EXCEPT ![n].content.db[d] = Unsound]
                                    /\ UNCHANGED <<live, stage>>
    /\ UNCHANGED <<receipt, job, target>>

---------------------------------------------------------------------------
(* Staging a snapshot *)

\* An exception inside the staging block removes the directory and is raised.
Abort(j) ==
    /\ stage' = [stage EXCEPT ![job[j].id] = NoDir]
    /\ job' = [job EXCEPT ![j].pc = "failed"]

Fail(j) ==
    /\ job' = [job EXCEPT ![j].pc = "failed"]
    /\ UNCHANGED stage

At(j, pc) == job[j].pc = pc

\* The step after element i of the sequence s: the next element, or the phase
\* that follows.
Advance(r, s, next) ==
    IF r.i < Len(s) THEN [r EXCEPT !.i = @ + 1] ELSE [r EXCEPT !.i = 1, !.pc = next]

\* The id is refused before the block that cleans up after itself.
Start(j) ==
    /\ At(j, "idle")
    /\ \E i \in Id, k \in Kinds :
          IF stage[i].there
          THEN job' = [job EXCEPT ![j] = [@ EXCEPT !.pc = "refused", !.id = i, !.kind = k]]
               /\ UNCHANGED stage
          ELSE /\ stage' = [stage EXCEPT ![i] = Dir(j)]
               /\ job' = [job EXCEPT ![j] = [@ EXCEPT !.pc = "sample", !.id = i, !.kind = k]]
    /\ UNCHANGED <<live, repo, receipt, target, spent>>

\* What hashing the file of a root adds to the samples of the inventory.
SampleOf(a) == IF live.file[a] > 0 THEN {<<a, live.file[a]>>} ELSE {}

SampleFiles(j) ==
    /\ At(j, "sample")
    /\ LET a == Assets[job[j].i] IN
       job' = [job EXCEPT ![j] = Advance(
                  [@ EXCEPT !.samples = @ \cup SampleOf(a),
                            !.roots = IF live.file[a] = NoRoot THEN @ ELSE @ \cup {a}],
                  Assets, "inspect")]
    /\ UNCHANGED <<live, stage, repo, receipt, target, spent>>

\* inspect_database: missing, unsound or sound.
Status(v) == IF v = Missing THEN "missing" ELSE IF v = Unsound THEN "invalid" ELSE "ok"

InspectDatabase(j) ==
    /\ At(j, "inspect")
    /\ LET d == Dbs[job[j].i] IN
       job' = [job EXCEPT ![j] = Advance([@ EXCEPT !.status[d] = live.db[d]], Dbs, "refer")]
    /\ UNCHANGED <<live, stage, repo, receipt, target, spent>>

\* The files research.db refers to are hashed again, after the databases: a
\* second sample of a path whose content has changed since is kept beside the
\* first.
Reference(j) ==
    /\ At(j, "refer")
    /\ job' = [job EXCEPT ![j].samples = @ \cup UNION {SampleOf(a) : a \in Referenced},
                          ![j].pc = "copy"]
    /\ UNCHANGED <<live, stage, repo, receipt, target, spent>>

\* backup_sqlite: the copy of one database, taken at once and inspected.
Copied(d) == Status(live.db[d]) = "ok"

\* Mutant of CopyDatabase: a database that fails its inspection is skipped like
\* a missing one.
CopyDatabase_SkipsInvalid(j) ==
    /\ At(j, "copy")
    /\ LET d == Dbs[job[j].i]
           then == job' = [job EXCEPT ![j] = Advance(@, Dbs, "key")]
       IN IF Status(job[j].status[d]) # "ok"
          THEN then /\ UNCHANGED stage
          ELSE IF Copied(d)
               THEN /\ stage' = [stage EXCEPT ![job[j].id].db[d] = live.db[d]]
                    /\ then
               ELSE Abort(j)
    /\ UNCHANGED <<live, repo, receipt, target, spent>>

CopyDatabase(j) ==
    /\ At(j, "copy")
    /\ LET d == Dbs[job[j].i]
           then == job' = [job EXCEPT ![j] = Advance(@, Dbs, "key")]
       IN CASE Status(job[j].status[d]) = "missing" -> then /\ UNCHANGED stage
            [] Status(job[j].status[d]) = "invalid" -> Abort(j)
            [] OTHER -> IF Copied(d)
                        THEN /\ stage' = [stage EXCEPT ![job[j].id].db[d] = live.db[d]]
                             /\ then
                        ELSE Abort(j)
    /\ UNCHANGED <<live, repo, receipt, target, spent>>

\* The key of a copied control store must be there to be copied.
CopyKey(j) ==
    /\ At(j, "key")
    /\ IF stage[job[j].id].db[Control] = Missing
       THEN job' = [job EXCEPT ![j].pc = "manifest"] /\ UNCHANGED stage
       ELSE IF live.key
            THEN /\ stage' = [stage EXCEPT ![job[j].id].key = TRUE]
                 /\ job' = [job EXCEPT ![j].pc = "manifest"]
            ELSE Abort(j)
    /\ UNCHANGED <<live, repo, receipt, target, spent>>

\* verify_staged_snapshot: every database the manifest names is there with its
\* checksum and sound, and a control store has its key.
Verified(s) ==
    /\ s.manifest.sealed
    /\ \A d \in Db : s.manifest.db[d] # Missing =>
          s.db[d] = s.manifest.db[d] /\ Status(s.db[d]) = "ok"
    /\ s.manifest.db[Control] # Missing => s.manifest.key
    /\ s.manifest.key => s.key

Sealed(s) == [s EXCEPT !.manifest = [sealed |-> TRUE, db |-> s.db, key |-> s.key]]

\* The manifest is the last file written; the stage it seals is verified.
WriteManifest(j) ==
    /\ At(j, "manifest")
    /\ LET s == Sealed(stage[job[j].id]) IN
       IF Verified(s)
       THEN /\ stage' = [stage EXCEPT ![job[j].id] = s]
            /\ job' = [job EXCEPT ![j].pc = IF job[j].kind = "restic" THEN "archive" ELSE "staged"]
       ELSE Abort(j)
    /\ UNCHANGED <<live, repo, receipt, target, spent>>

---------------------------------------------------------------------------
(* Archiving it *)

\* The stage first, then every root the inventory found, in its order.
Sources(j) == <<"stage">> \o SelectSeq(Assets, LAMBDA a : a \in job[j].roots)

Archived(j, s) ==
    [source |-> s,
     content |-> IF s = "stage" THEN stage[job[j].id] ELSE NoDir,
     file |-> IF s = "stage" THEN NoFile ELSE live.file[s]]

\* One restic backup.
Archive(j) ==
    /\ At(j, "archive")
    /\ repo' = Append(repo, Archived(j, Sources(j)[job[j].i]))
    /\ job' = [job EXCEPT ![j] = Advance([@ EXCEPT !.snaps = Append(@, Len(repo) + 1)],
                                         Sources(j), "check")]
    /\ UNCHANGED <<live, stage, receipt, target, spent>>

\* restic fails, times out, or ends without naming the snapshot it made.  The
\* stage stays.
ArchiveFails(j) ==
    /\ At(j, "archive") \/ At(j, "check")
    /\ spent.fault < MaxFault
    /\ \/ UNCHANGED repo
       \/ At(j, "archive") /\ repo' = Append(repo, Archived(j, Sources(j)[job[j].i]))
    /\ Fail(j)
    /\ spent' = [spent EXCEPT !.fault = @ + 1]
    /\ UNCHANGED <<live, receipt, target>>

\* restic check reads the structure of the repository, not the data.
Check(j) ==
    /\ At(j, "check")
    /\ job' = [job EXCEPT ![j].pc = "cleanup"]
    /\ UNCHANGED <<live, stage, repo, receipt, target, spent>>

\* The receipt must not exist yet; the stage is removed, or what an error leaves
\* of it stays.
RemoveStage(j) ==
    /\ At(j, "cleanup")
    /\ LET i == job[j].id IN
       IF receipt[i].there
       THEN Fail(j)
       ELSE /\ \E left \in {NoDir, stage[i], [stage[i] EXCEPT !.manifest = NoManifest]} :
                  stage' = [stage EXCEPT ![i] = left]
            /\ job' = [job EXCEPT ![j].pc = "receipt"]
    /\ UNCHANGED <<live, repo, receipt, target, spent>>

WriteReceipt(j) ==
    /\ At(j, "receipt")
    /\ receipt' = [receipt EXCEPT ![job[j].id] =
                      [there |-> TRUE, by |-> j, snaps |-> job[j].snaps,
                       samples |-> job[j].samples, edited |-> job[j].edited]]
    /\ job' = [job EXCEPT ![j].pc = "done"]
    /\ UNCHANGED <<live, stage, repo, target, spent>>

\* The run is killed: nothing cleans up.
Kill(j) ==
    /\ Running(j)
    /\ spent.fault < MaxFault
    /\ job' = [job EXCEPT ![j].pc = "killed"]
    /\ spent' = [spent EXCEPT !.fault = @ + 1]
    /\ UNCHANGED <<live, stage, repo, receipt, target>>

---------------------------------------------------------------------------
(* Restore drills *)

Drill(t, pc) == target[t].pc = pc

\* A drill of a stage or of a receipt starts in an empty target only, so a
\* target a failed drill has filled is not used again.
DrillStart(t) ==
    /\ Drill(t, "empty")
    /\ \E i \in Id :
          \/ /\ stage[i].there
             /\ IF Verified(stage[i])
                THEN target' = [target EXCEPT ![t] =
                        [@ EXCEPT !.pc = "copy", !.kind = "stage", !.id = i, !.stage = stage[i]]]
                ELSE target' = [target EXCEPT ![t].pc = "unverified", ![t].kind = "stage", ![t].id = i]
          \/ /\ receipt[i].there
             /\ target' = [target EXCEPT ![t] =
                    [@ EXCEPT !.pc = "fetch", !.kind = "restic", !.id = i]]
    /\ UNCHANGED <<live, stage, repo, receipt, job, spent>>

\* restic restores the receipt's snapshots one after the other.
Fetched(r, x) ==
    IF x.source = "stage" THEN [r EXCEPT !.stage = x.content]
                          ELSE [r EXCEPT !.file[x.source] = x.file]

DrillFetch(t) ==
    /\ Drill(t, "fetch")
    /\ LET snaps == receipt[target[t].id].snaps IN
       target' = [target EXCEPT ![t] =
                     Advance(Fetched(@, repo[snaps[target[t].i]]), snaps, "verify")]
    /\ UNCHANGED <<live, stage, repo, receipt, job, spent>>

DrillVerify(t) ==
    /\ Drill(t, "verify")
    /\ target' = [target EXCEPT ![t].pc = IF Verified(target[t].stage) THEN "copy" ELSE "unverified"]
    /\ UNCHANGED <<live, stage, repo, receipt, job, spent>>

\* Every database and the key are copied and compared with the manifest; the
\* drill of a stage reports then, the drill of a receipt after its samples.
DrillCopy(t) ==
    /\ Drill(t, "copy")
    /\ LET s == target[t].stage
           now == IF target[t].kind = "stage" THEN stage[target[t].id] ELSE s
           same == /\ \A d \in Db : s.manifest.db[d] # Missing => now.db[d] = s.manifest.db[d]
                   /\ s.manifest.key => now.key
       IN target' = [target EXCEPT ![t] =
             IF same
             THEN [@ EXCEPT !.db = [d \in Db |-> IF s.manifest.db[d] = Missing THEN Missing
                                                 ELSE now.db[d]],
                            !.key = s.manifest.key,
                            !.pc = IF target[t].kind = "stage" THEN "restored" ELSE "samples"]
             ELSE [@ EXCEPT !.pc = "unverified"]]
    /\ UNCHANGED <<live, stage, repo, receipt, job, spent>>

DrillSamples(t) ==
    /\ Drill(t, "samples")
    /\ LET bad == \E x \in receipt[target[t].id].samples : target[t].file[x[1]] # x[2] IN
       target' = [target EXCEPT ![t].pc = IF bad THEN "mismatch" ELSE "restored"]
    /\ UNCHANGED <<live, stage, repo, receipt, job, spent>>

Next ==
    \/ \E d \in Db : Commit(d)
    \/ \E a \in Asset : Edit(a)
    \/ Damage
    \/ \E j \in Job :
          \/ Start(j) \/ SampleFiles(j) \/ InspectDatabase(j) \/ Reference(j)
          \/ CopyDatabase(j) \/ CopyKey(j) \/ WriteManifest(j)
          \/ Archive(j) \/ ArchiveFails(j) \/ Check(j) \/ RemoveStage(j) \/ WriteReceipt(j)
          \/ Kill(j)
    \/ \E t \in Target :
          \/ DrillStart(t) \/ DrillFetch(t) \/ DrillVerify(t) \/ DrillCopy(t) \/ DrillSamples(t)

Spec == Init /\ [][Next]_vars

---------------------------------------------------------------------------
(* Properties *)

Stages == [there : BOOLEAN, by : Job \cup {"nobody"}, base : [Db -> Versions],
           db : [Db -> Versions], key : BOOLEAN,
           manifest : [sealed : BOOLEAN, db : [Db -> Versions], key : BOOLEAN]]

Samples == SUBSET (Asset \X (Nat \ {0}))

\* The directories, the archive, the receipts, the runs and the targets keep
\* their shape; only a receipt and a run name restic snapshots, and only ones
\* that exist.
TypeOK ==
    /\ live \in [db : [Db -> Versions], file : [Asset -> Versions], key : BOOLEAN]
    /\ stage \in [Id -> Stages]
    /\ \A n \in DOMAIN repo : repo[n].source \in Asset \cup {"stage"} /\ repo[n].content \in Stages
    /\ \A i \in Id : /\ receipt[i].samples \in Samples
                     /\ \A n \in DOMAIN receipt[i].snaps : receipt[i].snaps[n] \in DOMAIN repo
    /\ \A j \in Job : /\ job[j].samples \in Samples /\ job[j].roots \subseteq Asset
                      /\ \A n \in DOMAIN job[j].snaps : job[j].snaps[n] \in DOMAIN repo
    /\ \A t \in Target : target[t].stage \in Stages /\ target[t].db \in [Db -> Versions]

\* What a drill calls restored holds every database that was sound when the run
\* started, at that version or a later one and never a damaged copy, and the
\* transport key beside a restored control store: whatever was committed,
\* damaged or killed in between (create_staged_snapshot, verify_staged_snapshot,
\* restore_staged_snapshot).
RestoredIsCurrent ==
    \A t \in Target : Drill(t, "restored") =>
        /\ \A d \in Db : /\ target[t].db[d] # Unsound
                         /\ target[t].db[d] >= target[t].stage.base[d]
        /\ target[t].db[Control] > 0 => target[t].key

\* A receipt names the run's own archive: the verified stage that run made and
\* one snapshot of every root that exists, so a later run of the same id never
\* stands for it (create_restic_backup).
ReceiptNamesRun ==
    \A i \in Id : receipt[i].there =>
        LET snaps == receipt[i].snaps
            made(s) == \E n \in DOMAIN snaps : repo[snaps[n]].source = s
        IN /\ repo[snaps[1]].source = "stage"
           /\ repo[snaps[1]].content.by = receipt[i].by
           /\ repo[snaps[1]].content.manifest.sealed
           /\ \A a \in Asset : live.file[a] # NoRoot => made(a)

\* A drill that fails on its samples tells of files that changed while the run
\* was taking them, never of a run that lost them: without an edit during the
\* run the archived file is the sampled one (_sample_files,
\* _research_reference_inventory, restore_restic_backup).
MismatchMeansEdited ==
    \A t \in Target : Drill(t, "mismatch") => receipt[target[t].id].edited

\* While a run works in its stage the directory is the one it made: a second
\* run of the same id is refused before it can remove or refill it.
StageIsOwn ==
    \A j \in Job : Running(j) /\ job[j].pc # "receipt" =>
        stage[job[j].id].there /\ stage[job[j].id].by = j

\* A sealed stage disappears only after it and every root were archived: no
\* failure or kill of restic costs the only copy (create_restic_backup).
SealedIsArchived ==
    \A i \in Id : stage[i].manifest.sealed /\ stage[i] # stage'[i]
                  /\ ~stage'[i].manifest.sealed =>
       \E n \in DOMAIN repo : /\ repo[n].source = "stage"
                              /\ repo[n].content.by = stage[i].by
                              /\ \A a \in Asset : live.file[a] # NoRoot =>
                                    \E m \in DOMAIN repo : m > n /\ repo[m].source = a
===========================================================================
