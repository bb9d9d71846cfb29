----------------------------- MODULE MCTransports -----------------------------
(*****************************************************************************)
(* The transports on small instances: message delivery, the drain, the       *)
(* transport window, inbound commands, and the web shell that reads the same *)
(* threads. The components share none of the state modelled here, so a       *)
(* behaviour picks one part and moves only that one: TLC explores the sum of *)
(* their states, not the product. The module extends TransportDelivery: the  *)
(* part "retries" is that module itself, with the constants of Transports.cfg: *)
(* a two-chunk message, two daemons, a fault and an operator's retry.        *)
(*****************************************************************************)
EXTENDS TransportDelivery

CONSTANTS
    c1, c2, l1, l2, reply

\* TransportDrain: whose chat each event and reply belongs to.
TwoChats == [m \in {1, 2, reply} |-> IF m = 2 THEN "b" ELSE "a"]
NoChat == <<>>

\* ShellThreads: the project of each thread.
TwoProjects == [t \in {"t1", "t2", "t3"} |-> IF t = "t3" THEN "w2" ELSE "w1"]
OneProject == [t \in {"t1", "t2"} |-> "w1"]

VARIABLE part      \* the component, and the instance of it, that runs
VARIABLES          \* the other instances of TransportDelivery
    otherParent, otherChunk, otherLegacy, otherWorker, otherWindow,
    otherOpened, otherWire, otherPosted, otherOldPosted, otherGranted,
    otherRetried, otherSeen, otherFaults
VARIABLES          \* TransportDrain
    committed, row, order, frozenFor, drainRun, recipient, known, cursor,
    retry, pass, gone, died, drainFaults, storeErrors
VARIABLES          \* TransportWindow
    open, windowOpened, audit, approved, windowWorker, orphans, windowThread,
    outcomes, sup, close, turn, failures, lateJoins, closeErrors, kills
VARIABLES          \* InboundCommands
    kind, sent, confirmed, poller, cur, inboundThread, inboundRun, done,
    asked, token, frozen, receipt, links, inboundFaults
VARIABLES          \* ShellThreads
    ctl, shell, calls, spent

\* A reply sent while windows open and close.
Windows == INSTANCE TransportDelivery WITH
    Events <- {}, Replies <- {"r1"}, ChunkWorkers <- {c1, c2},
    LegacyWorkers <- {}, NChunks <- 1, MaxWindows <- 3, MaxFaults <- 1,
    MaxRetries <- 1, parent <- otherParent, chunk <- otherChunk,
    legacy <- otherLegacy, worker <- otherWorker, window <- otherWindow,
    opened <- otherOpened, wire <- otherWire, posted <- otherPosted,
    oldPosted <- otherOldPosted, granted <- otherGranted,
    retried <- otherRetried, seen <- otherSeen, faults <- otherFaults

\* Daemons of the chunk ledger and of the older, whole-message one.
Ledgers == INSTANCE TransportDelivery WITH
    Events <- {"e1"}, Replies <- {}, ChunkWorkers <- {c1, c2},
    LegacyWorkers <- {l1, l2}, NChunks <- 1, MaxWindows <- 1, MaxFaults <- 2,
    MaxRetries <- 0, parent <- otherParent, chunk <- otherChunk,
    legacy <- otherLegacy, worker <- otherWorker, window <- otherWindow,
    opened <- otherOpened, wire <- otherWire, posted <- otherPosted,
    oldPosted <- otherOldPosted, granted <- otherGranted,
    retried <- otherRetried, seen <- otherSeen, faults <- otherFaults

\* Two events and a reply, a retry set of one, a pass that dies.
Pass == INSTANCE TransportDrain WITH
    Events <- {1, 2}, Replies <- {reply}, Digests <- {}, Chats <- {"a", "b"},
    KnownAtStart <- {"a"}, EventChat <- TwoChats, RetryLimit <- 1,
    PendingLimit <- 2, MaxFaults <- 2, MaxStoreErrors <- 1, None <- Nil,
    run <- drainRun, faults <- drainFaults

\* Two digests whose recipient may be rebound.
Digested == INSTANCE TransportDrain WITH
    Events <- {}, Replies <- {}, Digests <- {"d1", "d2"}, Chats <- {"a", "b"},
    KnownAtStart <- {"a"}, EventChat <- NoChat, RetryLimit <- 1,
    PendingLimit <- 2, MaxFaults <- 4, MaxStoreErrors <- 0, None <- Nil,
    run <- drainRun, faults <- drainFaults

\* Two windows, a close request, a poller that is joined late, a death.
Close == INSTANCE TransportWindow WITH
    MaxWindows <- 2, Threads <- {1, 2}, MaxCloses <- 1, MaxRestarts <- 1,
    MaxFailures <- 0, MaxLateJoins <- 1, MaxCloseErrors <- 0, MaxKills <- 1,
    opened <- windowOpened, worker <- windowWorker, thread <- windowThread

\* Two windows and a backend whose close may raise.
Poller == INSTANCE TransportWindow WITH
    MaxWindows <- 2, Threads <- {1, 2}, MaxCloses <- 0, MaxRestarts <- 1,
    MaxFailures <- 1, MaxLateJoins <- 0, MaxCloseErrors <- 1, MaxKills <- 1,
    opened <- windowOpened, worker <- windowWorker, thread <- windowThread

\* Two updates that change runs, redelivered over a crash.
Commands == INSTANCE InboundCommands WITH
    Updates <- {1, 2}, Kinds <- {"message", "run", "button", "decision"},
    Runs <- {1, 2}, MaxStrikes <- 2, MaxFreezeFaults <- 1, MaxFaults <- 0,
    MaxLimited <- 0, MaxOutside <- 1, MaxRestarts <- 1, MaxCrashes <- 1,
    thread <- inboundThread, run <- inboundRun, faults <- inboundFaults

\* Two updates whose replies carry links or answers.
Replied == INSTANCE InboundCommands WITH
    Updates <- {1, 2}, Kinds <- {"message", "idea", "status", "open"},
    Runs <- {1, 2}, MaxStrikes <- 2, MaxFreezeFaults <- 1, MaxFaults <- 1,
    MaxLimited <- 1, MaxOutside <- 0, MaxRestarts <- 1, MaxCrashes <- 1,
    thread <- inboundThread, run <- inboundRun, faults <- inboundFaults

\* A reader of two threads.
Reading == INSTANCE ShellThreads WITH
    Workspace <- {"w1"}, Thread <- {"t1", "t2"}, Owner <- OneProject,
    Existing <- {"t1", "t2"}, Gestures <- {"select", "history", "refresh"},
    MaxGesture <- 3, FirstRuns <- 2, MaxRun <- 2, MaxEnd <- 2, MaxFail <- 1

\* Every gesture, over two projects.
Gestured == INSTANCE ShellThreads WITH
    Workspace <- {"w1", "w2"}, Thread <- {"t1", "t2", "t3"},
    Owner <- TwoProjects, Existing <- {"t1", "t3"}, Gestures <- {"select",
    "project", "open", "history", "older", "refresh", "run", "action",
    "decide", "create", "archive", "send"}, MaxGesture <- 2, FirstRuns <- 1,
    MaxRun <- 1, MaxEnd <- 1, MaxFail <- 0

-------------------------------------------------------------------------------
otherVars ==
    <<otherParent, otherChunk, otherLegacy, otherWorker, otherWindow,
      otherOpened, otherWire, otherPosted, otherOldPosted, otherGranted,
      otherRetried, otherSeen, otherFaults>>
drainVars ==
    <<committed, row, order, frozenFor, drainRun, recipient, known, cursor,
      retry, pass, gone, died, drainFaults, storeErrors>>
windowVars ==
    <<open, windowOpened, audit, approved, windowWorker, orphans,
      windowThread, outcomes, sup, close, turn, failures, lateJoins,
      closeErrors, kills>>
inboundVars ==
    <<kind, sent, confirmed, poller, cur, inboundThread, inboundRun, done,
      asked, token, frozen, receipt, links, inboundFaults>>
shellVars ==
    <<ctl, shell, calls, spent>>
partsVars ==
    <<part, vars, otherVars, drainVars, windowVars, inboundVars, shellVars>>

Parts == {"retries", "windows", "ledgers", "pass", "digests", "close",
          "poller", "commands", "replies", "reading", "gestures"}

\* A component that does not run rests in its first state.
PartsInit ==
    /\ part \in Parts
    /\ Init
    /\ CASE part = "windows" -> Windows!Init
         [] OTHER -> Ledgers!Init
    /\ CASE part = "digests" -> Digested!Init
         [] OTHER -> Pass!Init
    /\ part \notin {"pass", "digests"} => recipient = "a"
    /\ CASE part = "poller" -> Poller!Init
         [] OTHER -> Close!Init
    /\ CASE part = "replies" -> Replied!Init
         [] OTHER -> Commands!Init
    /\ part \notin {"commands", "replies"} => kind = [u \in {1, 2} |-> "message"]
    /\ CASE part = "gestures" -> Gestured!Init
         [] OTHER -> Reading!Init
    /\ part \notin {"reading", "gestures"} => \A c \in calls : c.pref = Reading!None

OnlyDelivery ==
    UNCHANGED <<part, otherVars, drainVars, windowVars, inboundVars, shellVars>>
OnlyOther ==
    UNCHANGED <<part, vars, drainVars, windowVars, inboundVars, shellVars>>
OnlyDrain ==
    UNCHANGED <<part, vars, otherVars, windowVars, inboundVars, shellVars>>
OnlyWindow ==
    UNCHANGED <<part, vars, otherVars, drainVars, inboundVars, shellVars>>
OnlyInbound ==
    UNCHANGED <<part, vars, otherVars, drainVars, windowVars, shellVars>>
OnlyShell ==
    UNCHANGED <<part, vars, otherVars, drainVars, windowVars, inboundVars>>

PartsNext ==
    \/ part = "retries" /\ Next /\ OnlyDelivery
    \/ part = "windows" /\ Windows!Next /\ OnlyOther
    \/ part = "ledgers" /\ Ledgers!Next /\ OnlyOther
    \/ part = "pass" /\ Pass!Next /\ OnlyDrain
    \/ part = "digests" /\ Digested!Next /\ OnlyDrain
    \/ part = "close" /\ Close!Next /\ OnlyWindow
    \/ part = "poller" /\ Poller!Next /\ OnlyWindow
    \/ part = "commands" /\ Commands!Next /\ OnlyInbound
    \/ part = "replies" /\ Replied!Next /\ OnlyInbound
    \/ part = "reading" /\ Reading!Next /\ OnlyShell
    \/ part = "gestures" /\ Gestured!Next /\ OnlyShell

PartsSpec == PartsInit /\ [][PartsNext]_partsVars

\* The assumptions of the modules on their constants hold of the instances.
ASSUME InstancesAssumption ==
    /\ DeliveryAssumption
    /\ Windows!DeliveryAssumption
    /\ Ledgers!DeliveryAssumption
    /\ Pass!DrainAssumption
    /\ Digested!DrainAssumption
    /\ Close!WindowAssumption
    /\ Poller!WindowAssumption
    /\ Commands!InboundAssumption
    /\ Replied!InboundAssumption
    /\ Reading!ConstantsAssumption
    /\ Gestured!ConstantsAssumption

-------------------------------------------------------------------------------
(* Properties.  NoBlindResend and ImplementsDelivery are TransportDelivery's *)
(* own; the others are stated of the parts they are about.                   *)

\* What is owed to a chat is kept until it is out: the drain's cursor only
\* passes an event that is in the ledger, held for the next pass, given up
\* for a reason the drain counts, or was in the hands of a pass that a store
\* error killed; a digest is frozen for one chat and reported as what became
\* of it; a message goes out through one ledger, its chunks in order, each
\* under the window it names (drain.py: "a pass that dies must not lose the
\* row"; ports.py claim, complete).
NothingLost ==
    /\ part = "pass" => /\ Pass!TypeOK
                        /\ Pass!NothingLost
    /\ part = "digests" => /\ Digested!DigestOneRecipient
                           /\ Digested!DigestHonest
    /\ part = "retries" => TypeOK /\ InOrder
    /\ part = "windows" => /\ Windows!WindowAttribution
                           /\ Windows!NoBlindResend
    /\ part = "ledgers" => Ledgers!OneLedger

\* At most one poller is inside the loop, none for a window the supervisor
\* has left, and the audit row of a closed window means that no process
\* holds its token. However often an update is delivered, its command takes
\* effect at most once on each thing it can change; once it has its receipt
\* the reply it is owed is Control's, with a live link, and the provider is
\* told to forget it only then (managed_worker.py, handle_update,
\* record_transport_command, worker_rpc.py).
InboundOnce ==
    /\ part = "close" => /\ Close!TypeOK
                         /\ Close!ClosedMeansReleased
    /\ part = "poller" => Poller!OnePoller
    /\ part = "commands" => /\ Commands!TypeOK
                            /\ Commands!AppliedOnce
    /\ part = "replies" => /\ Replied!ReceiptOwnsReply
                           /\ Replied!LinkLive
                           /\ Replied!ConfirmedOwned

\* While a thread stays open, what is on screen is never replaced by an
\* older read of it, and after every step the messages, the runs and the
\* projection on screen are the open thread's, however reloads, events and
\* commands overlap (the selection generation of loadThread), but for what
\* the answers put there that take no generation: a message sent or a run
\* commanded from a thread that was left, and the detail loadWorkspace
\* leaves. A settled chunk never changes again, whoever answers late.
ScreenMovesForward ==
    [][/\ part = "reading" => /\ Reading!TypeOK'
                              /\ Reading!ScreenMovesForward
                              /\ Reading!MessagesAreOpen'
                              /\ Reading!RunsAreOpen'
       /\ part = "gestures" => /\ Gestured!ScreenMovesForward
                               /\ Gestured!MessagesAreOpen'
                               /\ Gestured!RunsAreOpen'
       /\ part = "retries" => SettledIsFinal]_partsVars
===============================================================================
