------------------------------- MODULE MCFlows --------------------------------
(*****************************************************************************)
(* What has to happen in the end to something that entered the system, on    *)
(* small instances: a committed event is answered (TransportDrain), a closed *)
(* window lets its lanes go (TransportWindow), an update is handled          *)
(* (InboundCommands), a version is materialised or fails (ArtifactVersions), *)
(* a run's wait for a source ends (SourceImports), a note settles            *)
(* (XhsPipeline), a reading's publication comes to rest (Readings) and a     *)
(* workflow blocks or ends (WorkflowEffects). A behaviour picks one part and *)
(* moves only that one.                                                      *)
(*****************************************************************************)
EXTENDS Integers

CONSTANTS
    Nil

OneChat == [m \in {1, 2} |-> "chat1"]

\* retrieve_lineage, await_lineage_decision and a runtime stage
QueryDecideRun ==
    <<[effect |-> "query", keys |-> {"lineage"}],
      [effect |-> "decision", keys |-> {}],
      [effect |-> "runtime", keys |-> {"evidence"}]>>

VARIABLE part      \* the component, and the instance of it, that runs
VARIABLES          \* TransportDrain
    committed, drainRow, order, frozenFor, drainRun, recipient, known, cursor,
    retry, pass, gone, died, drainFaults, storeErrors
VARIABLES          \* TransportWindow
    open, opened, audit, approved, windowWorker, orphans, windowThread,
    outcomes, sup, close, turn, windowFailures, lateJoins, closeErrors, kills
VARIABLES          \* InboundCommands
    kind, sent, confirmed, poller, cur, inboundThread, inboundRun,
    inboundDone, asked, token, frozen, receipt, links, inboundFaults
VARIABLES          \* ArtifactVersions
    versionRun, art, ver, versionDisk, versionWorker, snapshots, versionFaults
VARIABLES          \* SourceImports
    sourceRun, intent, src, act, waiter, binding, alias, manifests, adapter,
    sourceWorker, outside, sourceFailures
VARIABLES          \* XhsPipeline
    db, staged, noteDisk, noteWorker, noteSpent
VARIABLES          \* Readings
    corpus, lib, dev, readingRow, readingStage, ctl, child, readingSpent,
    touched, moved
VARIABLES          \* WorkflowEffects
    flowRun, wf, flowStage, eff, flowDone, calls, raced, absent, work,
    flowSpent

\* Two events for one chat and two failed sends.
Drain == INSTANCE TransportDrain WITH
    Events <- {1, 2}, Replies <- {}, Digests <- {}, Chats <- {"chat1"},
    KnownAtStart <- {"chat1"}, EventChat <- OneChat, RetryLimit <- 1,
    PendingLimit <- 2, MaxFaults <- 2, MaxStoreErrors <- 1, None <- Nil,
    row <- drainRow, run <- drainRun, faults <- drainFaults

\* Two windows, a restart and two pollers that fail; nobody closes a window
\* through the API.
Window == INSTANCE TransportWindow WITH
    MaxWindows <- 2, Threads <- {1, 2}, MaxCloses <- 0, MaxRestarts <- 1,
    MaxFailures <- 1, MaxLateJoins <- 0, MaxCloseErrors <- 0, MaxKills <- 0,
    worker <- windowWorker, thread <- windowThread, failures <- windowFailures

\* Two updates over a crash and replies that cannot be frozen.
Inbound == INSTANCE InboundCommands WITH
    Updates <- {1, 2}, Kinds <- {"message", "open"}, Runs <- {1, 2},
    MaxStrikes <- 2, MaxFreezeFaults <- 2, MaxFaults <- 0, MaxLimited <- 0,
    MaxOutside <- 0, MaxRestarts <- 0, MaxCrashes <- 1,
    thread <- inboundThread, run <- inboundRun, done <- inboundDone,
    faults <- inboundFaults

\* One version of an artifact and two workers.
Version == INSTANCE ArtifactVersions WITH
    Artifacts <- {"a1"}, Paths <- {"x1"}, Workers <- {"w1", "w2"},
    Runs <- {"r1"}, MaxVersions <- 1, MaxAttempts <- 2, MaxEpoch <- 6,
    MaxHead <- 1, MaxFaults <- 1, MaxSnapshots <- 0, run <- versionRun,
    disk <- versionDisk, worker <- versionWorker, faults <- versionFaults

\* Two runs that wait for one source and an import that fails.
Source == INSTANCE SourceImports WITH
    Runs <- {"r1", "r2"}, Works <- {"w1"}, Refs <- {"x1"},
    Workers <- {"disp1"}, MaxIntents <- 2, MaxAttempts <- 1, MaxEpoch <- 6,
    MaxOutside <- 0, MaxFailures <- 1, run <- sourceRun,
    worker <- sourceWorker, failures <- sourceFailures

\* One note over a crash and an expired link.
Note == INSTANCE XhsPipeline WITH
    Workers <- {"w1"}, Notes <- {"n1"}, Ordinals <- {1}, Texts <- {"t1"},
    Links <- {"l1"}, Failures <- {"transient", "url_expired"},
    Videos <- FALSE, Stalls <- FALSE, MaxRetries <- 0, MaxPages <- 1,
    MaxScans <- 1, MaxVersions <- 2, MaxCrashes <- 1, MaxEdits <- 0,
    MaxReleases <- 1, disk <- noteDisk, worker <- noteWorker,
    spent <- noteSpent

\* A reading that its owner edits, over a crash of the daemon and a killed
\* child.
Reading == INSTANCE Readings WITH
    MaxVersion <- 1, MaxUser <- 1, MaxCrash <- 1, MaxKill <- 1,
    MaxReboot <- 0, MaxRetry <- 0, row <- readingRow, stage <- readingStage,
    spent <- readingSpent

\* Three stages over a pause, lost replies and a crash.
Flow == INSTANCE WorkflowEffects WITH
    Workers <- {"w1"}, Graph <- QueryDecideRun, MaxDeliveries <- 2,
    MaxAttempts <- 2, MaxPauses <- 1, MaxRetries <- 0, MaxSlow <- 0,
    MaxLosses <- 1, MaxCrashes <- 1, run <- flowRun, stage <- flowStage,
    done <- flowDone, spent <- flowSpent

-------------------------------------------------------------------------------
drainVars ==
    <<committed, drainRow, order, frozenFor, drainRun, recipient, known,
      cursor, retry, pass, gone, died, drainFaults, storeErrors>>
windowVars ==
    <<open, opened, audit, approved, windowWorker, orphans, windowThread,
      outcomes, sup, close, turn, windowFailures, lateJoins, closeErrors,
      kills>>
inboundVars ==
    <<kind, sent, confirmed, poller, cur, inboundThread, inboundRun,
      inboundDone, asked, token, frozen, receipt, links, inboundFaults>>
versionVars ==
    <<versionRun, art, ver, versionDisk, versionWorker, snapshots,
      versionFaults>>
sourceVars ==
    <<sourceRun, intent, src, act, waiter, binding, alias, manifests, adapter,
      sourceWorker, outside, sourceFailures>>
noteVars ==
    <<db, staged, noteDisk, noteWorker, noteSpent>>
readingVars ==
    <<corpus, lib, dev, readingRow, readingStage, ctl, child, readingSpent,
      touched, moved>>
flowVars ==
    <<flowRun, wf, flowStage, eff, flowDone, calls, raced, absent, work,
      flowSpent>>
vars == <<part, drainVars, windowVars, inboundVars, versionVars, sourceVars,
          noteVars, readingVars, flowVars>>

Parts == {"drain", "window", "inbound", "version", "source", "note",
          "reading", "flow"}

\* A component that does not run rests in its first state.
Init ==
    /\ part \in Parts
    /\ Drain!Init
    /\ Window!Init
    /\ Inbound!Init
    /\ part \notin {"inbound"} => kind = [u \in {1, 2} |-> "message"]
    /\ Version!Init
    /\ Source!Init
    /\ Note!Init
    /\ Reading!Init
    /\ Flow!Init

OnlyDrain ==
    UNCHANGED <<part, windowVars, inboundVars, versionVars, sourceVars,
                noteVars, readingVars, flowVars>>
OnlyWindow ==
    UNCHANGED <<part, drainVars, inboundVars, versionVars, sourceVars,
                noteVars, readingVars, flowVars>>
OnlyInbound ==
    UNCHANGED <<part, drainVars, windowVars, versionVars, sourceVars,
                noteVars, readingVars, flowVars>>
OnlyVersion ==
    UNCHANGED <<part, drainVars, windowVars, inboundVars, sourceVars,
                noteVars, readingVars, flowVars>>
OnlySource ==
    UNCHANGED <<part, drainVars, windowVars, inboundVars, versionVars,
                noteVars, readingVars, flowVars>>
OnlyNote ==
    UNCHANGED <<part, drainVars, windowVars, inboundVars, versionVars,
                sourceVars, readingVars, flowVars>>
OnlyReading ==
    UNCHANGED <<part, drainVars, windowVars, inboundVars, versionVars,
                sourceVars, noteVars, flowVars>>
OnlyFlow ==
    UNCHANGED <<part, drainVars, windowVars, inboundVars, versionVars,
                sourceVars, noteVars, readingVars>>

OnDrain == part = "drain" /\ OnlyDrain
OnWindow == part = "window" /\ OnlyWindow
OnInbound == part = "inbound" /\ OnlyInbound
OnVersion == part = "version" /\ OnlyVersion
OnSource == part = "source" /\ OnlySource
OnNote == part = "note" /\ OnlyNote
OnReading == part = "reading" /\ OnlyReading
OnFlow == part = "flow" /\ OnlyFlow

Next ==
    \/ OnDrain /\ Drain!Next
    \/ OnWindow /\ Window!Next
    \/ OnInbound /\ Inbound!Next
    \/ OnVersion /\ Version!Next
    \/ OnSource /\ Source!Next
    \/ OnNote /\ Note!Next
    \/ OnReading /\ Reading!Next
    \/ OnFlow /\ Flow!Next

Spec == Init /\ [][Next]_vars

\* The fairness of the modules' own FairSpecs: every loop and every thread of
\* the part that runs goes on.
Weak1 ==
    \/ OnDrain /\ Drain!StartPass
    \/ OnWindow /\ Window!Tick
    \/ OnInbound /\ Inbound!Poll
    \/ OnVersion /\ Version!Deliver("w1")
    \/ OnSource /\ Source!Dispatch("disp1")
    \/ OnNote /\ Note!Unit("w1")
    \/ OnReading /\ Reading!ServiceStep
    \/ OnFlow /\ Flow!Step("w1")
Weak2 ==
    \/ OnDrain /\ Drain!PassStep
    \/ OnWindow /\ Window!TurnLaunches
    \/ OnInbound /\ Inbound!Handler
    \/ OnVersion /\ Version!Deliver("w2")
    \/ OnSource /\ Source!Expire("w1")
    \/ OnReading /\ Reading!Restart
    \/ OnFlow /\ Flow!Expire(<<1, "lineage", 0>>)
Weak3 ==
    \/ OnWindow /\ Window!CloseRequest
    \/ OnInbound /\ poller.pc = "failed" /\ Inbound!ReplacePoller
    \/ OnVersion /\ \E v \in Version!Ids : Version!Expire(v)
    \/ OnSource /\ Source!RetryImport("w1")
    \/ OnReading /\ Reading!ChildStep(1)
    \/ OnFlow /\ Flow!Expire(<<3, "evidence", 1>>)
Weak4 ==
    \/ OnWindow /\ Window!PollerLooks(1)
    \/ OnReading /\ Reading!ChildStep(2)
    \/ OnFlow /\ Flow!Expire(<<3, "evidence", 2>>)
Weak5 ==
    \/ OnWindow /\ Window!PollerLooks(2)
Weak6 ==
    \/ OnWindow /\ Window!PollerLaunches(1)
Weak7 ==
    \/ OnWindow /\ Window!PollerLaunches(2)
Strong1 ==
    \/ OnDrain /\ Drain!Due
    \/ OnWindow /\ Window!TickChanges
    \/ OnFlow /\ Flow!Begin("w1") /\ work'["w1"].pc = "classify"
Strong2 ==
    \/ OnWindow /\ Window!TickReleases
    \/ OnFlow /\ Flow!Begin("w1") /\ work'["w1"].pc = "prepare"
Strong3 ==
    \/ OnWindow /\ Window!TickEnters
Strong4 ==
    \/ OnWindow /\ Window!CloseReleases

Fairness ==
    /\ WF_vars(Weak1)
    /\ WF_vars(Weak2)
    /\ WF_vars(Weak3)
    /\ WF_vars(Weak4)
    /\ WF_vars(Weak5)
    /\ WF_vars(Weak6)
    /\ WF_vars(Weak7)
    /\ SF_vars(Strong1)
    /\ SF_vars(Strong2)
    /\ SF_vars(Strong3)
    /\ SF_vars(Strong4)

FairSpec == Spec /\ Fairness

\* The assumptions of the modules on their constants hold of the instances.
ASSUME InstancesAssumption ==
    /\ Drain!DrainAssumption
    /\ Window!WindowAssumption
    /\ Inbound!InboundAssumption
    /\ Version!ArtifactAssumption
    /\ Reading!ConstantsAssumption
    /\ Flow!WorkflowAssumption

-------------------------------------------------------------------------------
(* Properties.  Each is stated of the parts it is about.                     *)

\* What entered the system is finished in the end: an event is answered, a
\* window that was seen is released and keeps a poller meanwhile, every
\* update is handled, versions settle, waits for an import end, a note
\* settles, the publication of a reading comes to rest, and a workflow
\* reaches its block or its end.
ComesToAnEnd ==
    /\ part = "drain" => Drain!EventAnswered
    /\ part = "window" => /\ Window!SeenWindowReleased
                          /\ Window!PollerKept
    /\ part = "inbound" => Inbound!EveryUpdateHandled
    /\ part = "version" => Version!VersionsSettle
    /\ part = "source" => Source!WaitsEnd
    /\ part = "note" => Note!NoteSettles
    /\ part = "reading" => Reading!ComesToRest
    /\ part = "flow" => Flow!ReachesBlock
===============================================================================
