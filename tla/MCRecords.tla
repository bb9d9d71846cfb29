------------------------------ MODULE MCRecords -------------------------------
(*****************************************************************************)
(* What the product keeps, on small instances: the effects of a workflow     *)
(* (WorkflowEffects), published files (Materializer), versions of an         *)
(* artifact (ArtifactVersions), backups (Backup) and the proof an upgrade    *)
(* asks of them (BackupProof). A behaviour picks one part and moves only     *)
(* that one. The module extends Materializer: the part "publish" is that      *)
(* module itself, with the constants of Records.cfg, two processes that      *)
(* publish to one path.                                                      *)
(*****************************************************************************)
EXTENDS Materializer, Sequences, TLC

CONSTANTS
    w1, w2, p1, p2, p3, o1, o2, x1, x2, x3, a1, r1, i1, i2, i3, c1, c2

\* Stages cut from GOLDEN_RESEARCH_WORKFLOW: create_successor alone;
\* import_sources, two mutations of one stage; resolve_sources, a runtime
\* stage and a publication.
OneMutation == <<[effect |-> "mutation", keys |-> {"successor"}]>>
TwoMutations == <<[effect |-> "mutation", keys |-> {"imported", "reused"}]>>
RunPublish ==
    <<[effect |-> "control", keys |-> {}],
      [effect |-> "runtime", keys |-> {"training"}],
      [effect |-> "artifact", keys |-> {"living"}]>>

\* Two operations that claim one target path, as two versions of an artifact
\* with the same relative path do.
SamePath == (o1 :> x1) @@ (o2 :> x1)

VARIABLE part      \* the component, and the instance of it, that runs
VARIABLES          \* WorkflowEffects
    workflowRun, wf, workflowStage, eff, done, calls, raced, absent, work,
    workflowSpent
VARIABLES          \* ArtifactVersions
    artifactRun, art, ver, artifactDisk, worker, snapshots, faults
VARIABLES          \* Backup
    live, backupStage, repo, receipt, job, target, backupSpent
VARIABLES          \* BackupProof
    db, daemon, sets, proofRun, proofLock, code, up, look, gone, proofSpent

\* Two mutations, deliveries that are lost, a restart.
Redelivery == INSTANCE WorkflowEffects WITH
    Workers <- {w1}, Graph <- TwoMutations, MaxDeliveries <- 2,
    MaxAttempts <- 1, MaxPauses <- 1, MaxRetries <- 0, MaxSlow <- 1,
    MaxLosses <- 2, MaxCrashes <- 1, run <- workflowRun,
    stage <- workflowStage, spent <- workflowSpent

\* Two coordinators at one mutation.
Races == INSTANCE WorkflowEffects WITH
    Workers <- {w1, w2}, Graph <- OneMutation, MaxDeliveries <- 2,
    MaxAttempts <- 1, MaxPauses <- 1, MaxRetries <- 0, MaxSlow <- 1,
    MaxLosses <- 1, MaxCrashes <- 1, run <- workflowRun,
    stage <- workflowStage, spent <- workflowSpent

\* A workflow that is paused and retried.
Attempts == INSTANCE WorkflowEffects WITH
    Workers <- {w1, w2}, Graph <- RunPublish, MaxDeliveries <- 1,
    MaxAttempts <- 2, MaxPauses <- 1, MaxRetries <- 1, MaxSlow <- 0,
    MaxLosses <- 1, MaxCrashes <- 0, run <- workflowRun,
    stage <- workflowStage, spent <- workflowSpent

\* Two workers and the claims of two versions.
Claims == INSTANCE ArtifactVersions WITH
    Artifacts <- {a1}, Paths <- {x1, x2}, Workers <- {w1, w2}, Runs <- {r1},
    MaxVersions <- 2, MaxAttempts <- 2, MaxEpoch <- 3, MaxHead <- 2,
    MaxFaults <- 1, MaxSnapshots <- 1, run <- artifactRun,
    disk <- artifactDisk

\* Three versions and the head they replace.
Heads == INSTANCE ArtifactVersions WITH
    Artifacts <- {a1}, Paths <- {x1, x2, x3}, Workers <- {w1}, Runs <- {r1},
    MaxVersions <- 3, MaxAttempts <- 1, MaxEpoch <- 1, MaxHead <- 3,
    MaxFaults <- 0, MaxSnapshots <- 0, run <- artifactRun,
    disk <- artifactDisk

\* Two stores and two asset roots, backed up and restored.
Drills == INSTANCE Backup WITH
    Dbs <- <<"control", "research">>, Control <- "control",
    Assets <- <<"readings", "product">>, Referenced <- {"readings"},
    Job <- {"j1"}, Id <- {"s1"}, Target <- {"t1"}, MaxCommit <- 1,
    MaxFault <- 1, Kinds <- {"snapshot", "restic"}, stage <- backupStage,
    spent <- backupSpent

\* Two jobs that run at once.
Backups == INSTANCE Backup WITH
    Dbs <- <<"control">>, Control <- "control", Assets <- <<"readings">>,
    Referenced <- {"readings"}, Job <- {"j1", "j2"}, Id <- {"s1"},
    Target <- {"t1"}, MaxCommit <- 1, MaxFault <- 0, Kinds <- {"restic"},
    stage <- backupStage, spent <- backupSpent

\* Two record-proof commands that keep one set, one of them killed.
Proofs == INSTANCE BackupProof WITH
    Root <- {r1}, Path <- {p1, p2, p3}, Missing <- {p2}, Unsafe <- {p3},
    Id <- {i1, i2}, Run <- {c1, c2}, Keep <- 1, MaxBegun <- 2, MaxWrite <- 1,
    MaxRev <- 0, MaxSchema <- 2, MaxKill <- 1, run <- proofRun,
    lock <- proofLock, spent <- proofSpent

\* Roots that are registered and moved under a command, an upgrade.
Upgrades == INSTANCE BackupProof WITH
    Root <- {r1}, Path <- {p1, p2}, Missing <- {p2}, Unsafe <- {},
    Id <- {i1, i2}, Run <- {c1}, Keep <- 2, MaxBegun <- 2, MaxWrite <- 2,
    MaxRev <- 1, MaxSchema <- 2, MaxKill <- 0, run <- proofRun,
    lock <- proofLock, spent <- proofSpent

-------------------------------------------------------------------------------
workflowVars ==
    <<workflowRun, wf, workflowStage, eff, done, calls, raced, absent, work,
      workflowSpent>>
artifactVars ==
    <<artifactRun, art, ver, artifactDisk, worker, snapshots, faults>>
backupVars ==
    <<live, backupStage, repo, receipt, job, target, backupSpent>>
proofVars ==
    <<db, daemon, sets, proofRun, proofLock, code, up, look, gone, proofSpent>>
recordVars ==
    <<part, workflowVars, vars, artifactVars, backupVars, proofVars>>

Parts == {"redelivery", "races", "attempts", "publish", "claims", "heads",
          "drills", "backups", "proofs", "upgrades"}

\* A component that does not run rests in its first state.
RecordsInit ==
    /\ part \in Parts
    /\ CASE part = "races" -> Races!Init
         [] part = "attempts" -> Attempts!Init
         [] OTHER -> Redelivery!Init
    /\ Init
    /\ CASE part = "heads" -> Heads!Init
         [] OTHER -> Claims!Init
    /\ CASE part = "backups" -> Backups!Init
         [] OTHER -> Drills!Init
    /\ part \notin {"drills", "backups"} => live = [db |-> [x \in {"control", "research"} |-> 1], file |-> [x \in {"readings", "product"} |-> 1], key |-> TRUE]
    /\ CASE part = "upgrades" -> Upgrades!Init
         [] OTHER -> Proofs!Init

OnlyWorkflow ==
    UNCHANGED <<part, vars, artifactVars, backupVars, proofVars>>
OnlyPublish ==
    UNCHANGED <<part, workflowVars, artifactVars, backupVars, proofVars>>
OnlyArtifact ==
    UNCHANGED <<part, workflowVars, vars, backupVars, proofVars>>
OnlyBackup ==
    UNCHANGED <<part, workflowVars, vars, artifactVars, proofVars>>
OnlyProof ==
    UNCHANGED <<part, workflowVars, vars, artifactVars, backupVars>>

RecordsNext ==
    \/ part = "redelivery" /\ Redelivery!Next /\ OnlyWorkflow
    \/ part = "races" /\ Races!Next /\ OnlyWorkflow
    \/ part = "attempts" /\ Attempts!Next /\ OnlyWorkflow
    \/ part = "publish" /\ Next /\ OnlyPublish
    \/ part = "claims" /\ Claims!Next /\ OnlyArtifact
    \/ part = "heads" /\ Heads!Next /\ OnlyArtifact
    \/ part = "drills" /\ Drills!Next /\ OnlyBackup
    \/ part = "backups" /\ Backups!Next /\ OnlyBackup
    \/ part = "proofs" /\ Proofs!Next /\ OnlyProof
    \/ part = "upgrades" /\ Upgrades!Next /\ OnlyProof

RecordsSpec == RecordsInit /\ [][RecordsNext]_recordVars

\* The assumptions of the modules on their constants hold of the instances.
ASSUME InstancesAssumption ==
    /\ Redelivery!WorkflowAssumption
    /\ Races!WorkflowAssumption
    /\ Attempts!WorkflowAssumption
    /\ Claims!ArtifactAssumption
    /\ Heads!ArtifactAssumption
    /\ Drills!ConstantsAssumption
    /\ Backups!ConstantsAssumption
    /\ Proofs!ConstantsAssumption
    /\ Upgrades!ConstantsAssumption

-------------------------------------------------------------------------------
(* Properties.  Publishes is Materializer's own; the others are stated of the *)
(* parts they are about.                                                     *)

\* An effect whose outcome is unknown is not delivered again before it was
\* queried, except where another coordinator claimed it and let it expire
\* between the look and the claim; its deliveries stay within their limit, and
\* a stage completes only on the attempt that carried it out (workflow effects:
\* classify, begin_delivery).
NoBlindRedelivery ==
    /\ part = "redelivery" => /\ Redelivery!TypeOK
                              /\ Redelivery!NoBlindRedelivery
                              /\ Redelivery!DeliveriesBounded
    /\ part = "races" => /\ Races!NoBlindRedelivery
                          /\ Races!DeliveriesBounded
    /\ part = "attempts" => Attempts!StageSound

\* A committed version has its bytes on disk and a committed parent, and no
\* version is stranded by a lost claim; a final file belongs to the intent
\* that published it and an intent keeps its bytes (artifact versions:
\* freeze, claim, commit; the materializer).
CommittedOnDisk ==
    /\ part = "claims" => /\ Claims!TypeOK
                          /\ Claims!CommittedOnDisk
                          /\ Claims!LineageCommitted
                          /\ Claims!NoneStranded
    /\ part = "heads" => Heads!LineageCommitted
    /\ part = "publish" => /\ TypeOK
                           /\ FinalOwned
                           /\ IntentKeepsBytes

\* A drill that says the archive restores compared it with what the sources are
\* now; a mismatch means that somebody edited, a receipt names its own run, a
\* stage belongs to one process; the newest proof has its set on disk unless
\* the recorder was lost with its answer or an earlier command pruned late, and
\* what a command that was not killed leaves is described by a row (backup.py,
\* record_backup_proof, prune_backup_sets).
BackupsHold ==
    /\ part = "drills" => /\ Drills!TypeOK
                          /\ Drills!RestoredIsCurrent
                          /\ Drills!MismatchMeansEdited
    /\ part = "backups" => /\ Backups!ReceiptNamesRun
                           /\ Backups!StageIsOwn
    /\ part = "proofs" => /\ Proofs!TypeOK
                          /\ Proofs!NewestHasSet
                          /\ Proofs!FailureLeavesNoSet
                          /\ Proofs!RecordedCopiesAgree
    /\ part = "upgrades" => /\ Upgrades!NewestHasSet
                            /\ Upgrades!FailureLeavesNoSet
                            /\ Upgrades!RecordedCopiesAgree

\* What one record vouches for is not undone beneath it: a pause defers every
\* later stage, a version is committed under its lease and never aborted once
\* its bytes are out, the head moves only from the version it was built on, a
\* sealed backup is archived, a proof holds every commit made before its
\* command began and the revisions it found at its first look, and an upgrade
\* rests on such a proof (begin_stage, commit, seal, record_backup_proof,
\* require_state_ready).
RecordsOnlyGrow ==
    [][/\ part = "redelivery" => Redelivery!PauseDefers
       /\ part = "attempts" => Attempts!PauseDefers
       /\ part = "claims" => /\ Claims!CommitsInTime
                             /\ Claims!NeverAborted
       /\ part = "heads" => Heads!NoLostHead
       /\ part = "drills" => Drills!SealedIsArchived
       /\ part = "proofs" => /\ Proofs!ProofIsWhole
                             /\ Proofs!MeasuredIsCurrent
       /\ part = "upgrades" => /\ Upgrades!UpgradeRests
                               /\ Upgrades!ProofIsWhole
                               /\ Upgrades!MeasuredIsCurrent]_recordVars
===============================================================================
