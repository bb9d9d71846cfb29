------------------------------- MODULE MCTurns --------------------------------
(*****************************************************************************)
(* A turn from its message to its answer, on small instances: the daemon's   *)
(* queue of threads that owe a turn (TurnQueue), the turn inside the runtime *)
(* (HermesTurn) and the commands that recover a run after a restart          *)
(* (RecoveryCommands). A behaviour picks one part and moves only that one.   *)
(*****************************************************************************)
EXTENDS Naturals, TLC

CONSTANTS
    Nil, c1, c2, t1, t2, tm, r1, r2, r3, re

TwoRuns == <<"r1", "r2">>
CancelAnywhere == {"load", "reserve", "precancel", "start", "loop"}

\* The two runs every instance of the queue has are interchangeable.
Symmetry == Permutations({r1, r2})

VARIABLE part      \* the component, and the instance of it, that runs
VARIABLES          \* RecoveryCommands
    recoveryRun, att, cmds, pass, spent
VARIABLES          \* TurnQueue
    queueRun, gate, worker, window, queue, queued, followups, putting, swept,
    redrive, stalling, deferred, recovery, gateSeen, loop, owed, lost, left,
    spare, asks, flips, errors, crashes
VARIABLES          \* HermesTurn
    a, n, th, q, dec, cache, call, calls, events, returned, faults

\* Two runs, two daemons' deaths, a pass that may be slow.
Recovery == INSTANCE RecoveryCommands WITH
    Run <- TwoRuns, MaxAttempt <- 2, MaxOp <- 1, MaxCrash <- 2, MaxSlow <- 1,
    Passes <- 2, PromptRestart <- TRUE, run <- recoveryRun

\* A user's thread beside the engine's, a gate that moves, a restart.
Queues == INSTANCE TurnQueue WITH
    Threads <- {t1, tm}, Machine <- {tm}, Transport <- {t1, tm},
    Runs <- {r1, r2, re}, Engine <- re, None <- Nil, QUEUE_LIMIT <- 2,
    RECOVERY_ATTEMPTS <- 1, MaxAsks <- 2, MaxFlips <- 1, MaxErrors <- 0,
    MaxCrashes <- 1, run <- queueRun

\* A full queue, and runs that are cancelled while they wait.
Limits == INSTANCE TurnQueue WITH
    Threads <- {t1, t2}, Machine <- {}, Transport <- {t1},
    Runs <- {r1, r2, r3}, Engine <- Nil, None <- Nil, QUEUE_LIMIT <- 1,
    RECOVERY_ATTEMPTS <- 1, MaxAsks <- 2, MaxFlips <- 1, MaxErrors <- 0,
    MaxCrashes <- 0, run <- queueRun

\* A store that fails once, a gate that moves twice, a restart.
Errors == INSTANCE TurnQueue WITH
    Threads <- {t1}, Machine <- {}, Transport <- {}, Runs <- {r1, r2},
    Engine <- Nil, None <- Nil, QUEUE_LIMIT <- 1, RECOVERY_ATTEMPTS <- 1,
    MaxAsks <- 2, MaxFlips <- 1, MaxErrors <- 1, MaxCrashes <- 1,
    run <- queueRun

\* Two answers to one decision, redelivered.
Decides == INSTANCE HermesTurn WITH
    Callers <- {c1, c2}, Ops <- {"yes", "no"}, MaxEpoch <- 2, MaxFaults <- 1,
    MaxEmits <- 1, MaxCalls <- 2, CancelPoints <- {}

\* A cancel beside the answers, at every point of the turn.
Cancels == INSTANCE HermesTurn WITH
    Callers <- {c1, c2}, Ops <- {"cancel", "yes", "no"}, MaxEpoch <- 1,
    MaxFaults <- 1, MaxEmits <- 1, MaxCalls <- 2,
    CancelPoints <- CancelAnywhere

\* A steering note that is sent again.
Steers == INSTANCE HermesTurn WITH
    Callers <- {c1, c2}, Ops <- {"steer"}, MaxEpoch <- 2, MaxFaults <- 1,
    MaxEmits <- 1, MaxCalls <- 3, CancelPoints <- {}

-------------------------------------------------------------------------------
recoveryVars ==
    <<recoveryRun, att, cmds, pass, spent>>
queueVars ==
    <<queueRun, gate, worker, window, queue, queued, followups, putting,
      swept, redrive, stalling, deferred, recovery, gateSeen, loop, owed,
      lost, left, spare, asks, flips, errors, crashes>>
hermesVars ==
    <<a, n, th, q, dec, cache, call, calls, events, returned, faults>>
vars == <<part, recoveryVars, queueVars, hermesVars>>

Parts == {"recovery", "queues", "limits", "errors", "decides", "cancels",
          "steers"}

\* A component that does not run rests in its first state.
Init ==
    /\ part \in Parts
    /\ Recovery!Init
    /\ CASE part = "limits" -> Limits!Init
         [] part = "errors" -> Errors!Init
         [] OTHER -> Queues!Init
    /\ part \notin {"queues", "limits", "errors"} => gate /\ worker /\ window
    /\ CASE part = "cancels" -> Cancels!Init
         [] part = "steers" -> Steers!Init
         [] OTHER -> Decides!Init

OnlyRecovery ==
    UNCHANGED <<part, queueVars, hermesVars>>
OnlyQueue ==
    UNCHANGED <<part, recoveryVars, hermesVars>>
OnlyHermes ==
    UNCHANGED <<part, recoveryVars, queueVars>>

Next ==
    \/ part = "recovery" /\ Recovery!Next /\ OnlyRecovery
    \/ part = "queues" /\ Queues!Next /\ OnlyQueue
    \/ part = "limits" /\ Limits!Next /\ OnlyQueue
    \/ part = "errors" /\ Errors!Next /\ OnlyQueue
    \/ part = "decides" /\ Decides!Next /\ OnlyHermes
    \/ part = "cancels" /\ Cancels!Next /\ OnlyHermes
    \/ part = "steers" /\ Steers!Next /\ OnlyHermes

Spec == Init /\ [][Next]_vars

\* The assumptions of the modules on their constants hold of the instances.
ASSUME InstancesAssumption ==
    /\ Recovery!ConstantsAssumption
    /\ Queues!ConstantsAssumption
    /\ Limits!ConstantsAssumption
    /\ Errors!ConstantsAssumption

-------------------------------------------------------------------------------
(* Properties.  Each is stated of the parts it is about.                     *)

\* What a recovery command says of its attempt stays true, whatever passes
\* were aborted, repeated or killed: an attempt recorded as closed is not
\* the open attempt of its run, one left to the dispatcher had not been
\* bound when it was looked at, and an attempt never has two open commands
\* (schedule_runtime_recovery, recover_startup).
RecoveryIsTrue ==
    part = "recovery" => /\ Recovery!TypeOK
                         /\ Recovery!OutcomeIsTrue
                         /\ Recovery!OneOpenCommand

\* A message that submit took is held by the queue or by a turn that will
\* submit it again; a thread waits at most once, a refused run is remembered
\* as long as it stands, and the re-drive never opens a run nobody asked for
\* (submit, record, redrive_refused).
MessageHeld ==
    /\ part = "queues" => /\ Queues!TypeOK
                          /\ Queues!QueueOnce
                          /\ Queues!MessageHeld
                          /\ Queues!StandingIsKnown
                          /\ Queues!RunsAreAsked
    /\ part = "limits" => /\ Limits!QueueOnce
                          /\ Limits!MessageHeld
                          /\ Limits!StandingIsKnown
                          /\ Limits!RunsAreAsked
    /\ part = "errors" => /\ Errors!QueueOnce
                          /\ Errors!MessageHeld
                          /\ Errors!StandingIsKnown
                          /\ Errors!RunsAreAsked

\* What a call of the Hermes adapter was told is what happens: an accepted
\* decision is what the agent acts on and the cause of one event, every
\* later query of a taken operation says so, an accepted cancel is not
\* answered by a completed turn and frees the attempt, and a steering
\* operation reaches the agent once unless its outcome was unknown.
AnswersAreTrue ==
    /\ part = "decides" => /\ Decides!TypeOK
                           /\ Decides!AcceptedApplies
                           /\ Decides!QueryTruthful
                           /\ Decides!CauseOnce
    /\ part = "cancels" => /\ Cancels!AcceptedApplies
                           /\ Cancels!CancelWins
                           /\ Cancels!OwnershipReleased
    /\ part = "steers" => Steers!SteerOnce

\* Recovery never ends a run whose turn still executes, nor a retried run on
\* what it found out about an earlier attempt; and a cancel accepted before
\* the conversation starts prevents it; the queue neither drives nor ends
\* the engine's run (recover_startup, bind, run_for).
TurnsAreSpared ==
    [][/\ part = "recovery" => Recovery!LiveTurnIsKept
       /\ part = "cancels" => Cancels!CancelPrevents
       /\ part = "queues" => Queues!EngineUntouched]_vars
===============================================================================
