------------------------------ MODULE MCLibrary -------------------------------
(*****************************************************************************)
(* How sources enter the library, on small instances: the drain of the       *)
(* captures (CaptureDrain), the imports that runs wait for (SourceImports)   *)
(* and the readings (Readings). A behaviour picks one part and moves only    *)
(* that one.                                                                 *)
(*****************************************************************************)
EXTENDS Naturals

VARIABLE part      \* the component, and the instance of it, that runs
VARIABLES          \* CaptureDrain
    cap, eff, carrier, copy, adopted, gate, sched, captureChild, orphan,
    captureWorker, past, captureSpent
VARIABLES          \* SourceImports
    run, intent, src, act, waiter, binding, alias, manifests, adapter,
    sourceWorker, outside, failures
VARIABLES          \* Readings
    corpus, lib, dev, row, stage, ctl, readingChild, readingSpent, touched,
    moved

\* Two captures of one paper, a crash, a closed gate.
Inbox == INSTANCE CaptureDrain WITH
    Captures <- {"c1", "c2"}, Papers <- {"p1"}, NotArxiv <- "not arXiv",
    Foreign <- FALSE, MaxReopens <- 1, MaxCrashes <- 1, MaxGates <- 1,
    MaxEdits <- 0, child <- captureChild, worker <- captureWorker,
    spent <- captureSpent

\* A capture whose carrier another writer made first.
Carrier == INSTANCE CaptureDrain WITH
    Captures <- {"c1"}, Papers <- {"p1"}, NotArxiv <- "not arXiv",
    Foreign <- TRUE, MaxReopens <- 2, MaxCrashes <- 2, MaxGates <- 2,
    MaxEdits <- 2, child <- captureChild, worker <- captureWorker,
    spent <- captureSpent

\* Two runs that wait for one source, two dispatchers.
Waiters == INSTANCE SourceImports WITH
    Runs <- {"r1", "r2"}, Works <- {"w1"}, Refs <- {"x1"},
    Workers <- {"d1", "d2"}, MaxIntents <- 2, MaxAttempts <- 2, MaxEpoch <- 3,
    MaxOutside <- 0, MaxFailures <- 1, worker <- sourceWorker

\* Two works that turn out to be one directory, or the other way round.
Conflicts == INSTANCE SourceImports WITH
    Runs <- {"r1"}, Works <- {"w1", "w2"}, Refs <- {"x1", "x2"},
    Workers <- {"d1"}, MaxIntents <- 2, MaxAttempts <- 1, MaxEpoch <- 2,
    MaxOutside <- 1, MaxFailures <- 0, worker <- sourceWorker

\* A reading that its reader edits.
Edits == INSTANCE Readings WITH
    MaxVersion <- 2, MaxUser <- 1, MaxCrash <- 0, MaxKill <- 0,
    MaxReboot <- 0, MaxRetry <- 1, child <- readingChild,
    spent <- readingSpent

\* A reading over the daemon's crash and its child's death.
Kills == INSTANCE Readings WITH
    MaxVersion <- 2, MaxUser <- 1, MaxCrash <- 1, MaxKill <- 1,
    MaxReboot <- 0, MaxRetry <- 0, child <- readingChild,
    spent <- readingSpent

\* A reading over a reboot that renumbers its device.
Reboots == INSTANCE Readings WITH
    MaxVersion <- 2, MaxUser <- 1, MaxCrash <- 0, MaxKill <- 0,
    MaxReboot <- 1, MaxRetry <- 0, child <- readingChild,
    spent <- readingSpent

-------------------------------------------------------------------------------
captureVars ==
    <<cap, eff, carrier, copy, adopted, gate, sched, captureChild, orphan,
      captureWorker, past, captureSpent>>
sourceVars ==
    <<run, intent, src, act, waiter, binding, alias, manifests, adapter,
      sourceWorker, outside, failures>>
readingVars ==
    <<corpus, lib, dev, row, stage, ctl, readingChild, readingSpent, touched,
      moved>>
vars == <<part, captureVars, sourceVars, readingVars>>

Parts == {"inbox", "carrier", "waiters", "conflicts", "edits", "kills",
          "reboots"}

\* A component that does not run rests in its first state.
Init ==
    /\ part \in Parts
    /\ CASE part = "carrier" -> Carrier!Init
         [] OTHER -> Inbox!Init
    /\ CASE part = "conflicts" -> Conflicts!Init
         [] OTHER -> Waiters!Init
    /\ CASE part = "kills" -> Kills!Init
         [] part = "reboots" -> Reboots!Init
         [] OTHER -> Edits!Init

OnlyCapture ==
    UNCHANGED <<part, sourceVars, readingVars>>
OnlySource ==
    UNCHANGED <<part, captureVars, readingVars>>
OnlyReading ==
    UNCHANGED <<part, captureVars, sourceVars>>

Next ==
    \/ part = "inbox" /\ Inbox!Next /\ OnlyCapture
    \/ part = "carrier" /\ Carrier!Next /\ OnlyCapture
    \/ part = "waiters" /\ Waiters!Next /\ OnlySource
    \/ part = "conflicts" /\ Conflicts!Next /\ OnlySource
    \/ part = "edits" /\ Edits!Next /\ OnlyReading
    \/ part = "kills" /\ Kills!Next /\ OnlyReading
    \/ part = "reboots" /\ Reboots!Next /\ OnlyReading

Spec == Init /\ [][Next]_vars

\* The assumptions of the modules on their constants hold of the instances.
ASSUME InstancesAssumption ==
    /\ Edits!ConstantsAssumption
    /\ Kills!ConstantsAssumption
    /\ Reboots!ConstantsAssumption

-------------------------------------------------------------------------------
(* Properties.  Each is stated of the parts it is about.                     *)

\* A paper reported published is in the library as its manifest says, apart
\* from notes and the owner's changes; a child that runs carries out the
\* task of the journal, and a renumbered device alone is no conflict.
ContentIsKept ==
    /\ part = "edits" => /\ Edits!TypeOK
                         /\ Edits!PublishedIsWhole
    /\ part = "kills" => /\ Kills!PublishedIsWhole
                         /\ Kills!WriterFollowsJournal
    /\ part = "reboots" => /\ Reboots!PublishedIsWhole
                           /\ Reboots!RenumberingIsHarmless

\* A run that waits for an import is live and the import can still happen; a
\* current claim serves a run that still waits, a pending source decision
\* parks its run, and a run is bound only to a readable source that its own
\* resolved decision chose. An ingest child of a capture is launched again
\* only after the operator reopened it and the copy did not hold the paper
\* ("Nothing is ever retried"), and a consumed capture has a completed
\* effect, a directory and a committed source.
DoneOnce ==
    /\ part = "waiters" => /\ Waiters!TypeOK
                           /\ Waiters!WaiterSound
                           /\ Waiters!ClaimServesWaiter
                           /\ Waiters!ParkedOnIntent
    /\ part = "conflicts" => /\ Conflicts!ReadySound
                             /\ Conflicts!BindingSound
    /\ part = "inbox" => /\ Inbox!TypeOK
                         /\ Inbox!NoSilentRetry
                         /\ Inbox!ConsumedIsAdopted
    /\ part = "carrier" => /\ Carrier!NoSilentRetry
                           /\ Carrier!ConsumedIsAdopted

\* What the owner wrote, and notes whoever wrote them, are changed by nobody
\* else; nothing is written into a directory not known to be this paper's;
\* and a run that was told to stop is bound to nothing more ("Existing notes
\* and manually modified files are preserved").
OwnerWins ==
    [][/\ part = "edits" => /\ Edits!EditsAreKept
                            /\ Edits!StrangersAreLeft
       /\ part = "waiters" => Waiters!NoLateBinding]_vars
===============================================================================
