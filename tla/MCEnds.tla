-------------------------------- MODULE MCEnds --------------------------------
(*****************************************************************************)
(* What somebody asked for ends, on small instances: a stop of a run         *)
(* (RunLifecycle), the cancellation of a turn (HermesTurn), a daemon's start *)
(* (DaemonLifecycle), an install or upgrade (InstallJournal), a rollback of  *)
(* the private access (AccessServe) and the loading of an opened thread      *)
(* (ShellThreads). A behaviour picks one part and moves only that one.       *)
(*****************************************************************************)
EXTENDS Integers

CONSTANTS
    Nil

TwoReleases == <<1, 2>>
OneProject == [t \in {"t1", "t2"} |-> "w1"]

VARIABLE part      \* the component, and the instance of it, that runs
VARIABLES          \* RunLifecycle
    active, run, att, stopDec, act, rel, pins, disp, fresh, stalling,
    recovering, due, crashes
VARIABLES          \* HermesTurn
    a, n, th, q, turnDec, cache, call, turnCalls, events, returned, turnFaults
VARIABLES          \* DaemonLifecycle
    daemon, meta, startLock, cmd, startSpent
VARIABLES          \* InstallJournal
    disk, installLock, quiet, product, proc, installFaults
VARIABLES          \* AccessServe
    serve, log, serveLock, p, raced
VARIABLES          \* ShellThreads
    ctl, shell, shellCalls, shellSpent

\* One run, two operator actions, a daemon that keeps running.
Stop == INSTANCE RunLifecycle WITH
    Runs <- {"r1"}, Actions <- {"x1", "x2"}, Dispatchers <- {"w1"},
    MaxAttempts <- 1, MaxDecisions <- 2, MaxCrashes <- 0,
    RuntimeCheckpoints <- FALSE, None <- Nil, dec <- stopDec

\* One turn that is canceled at any point, with an approval under way.
Turn == INSTANCE HermesTurn WITH
    Callers <- {"c1"}, Ops <- {"cancel", "yes"}, MaxEpoch <- 1,
    MaxFaults <- 0, MaxEmits <- 1, MaxCalls <- 1, CancelPoints <- {"load",
    "reserve", "precancel", "start", "loop"}, dec <- turnDec,
    calls <- turnCalls, faults <- turnFaults

\* Two starts and a daemon started by hand compete for one port.
Start == INSTANCE DaemonLifecycle WITH
    Inst <- {"d1", "d2", "d3"}, Port <- {"p1"}, Starter <- {"a", "b"},
    Stopper <- {}, Viewer <- {}, Limit <- 2, MaxDirect <- 1, MaxFault <- 0,
    MaxDeadline <- 0, MaxCorrupt <- 0, spent <- startSpent

\* Two processes run three commands.
Install == INSTANCE InstallJournal WITH
    Procs <- {"p1", "p2"}, Releases <- {1, 2}, Schema <- TwoReleases,
    Commands <- {"install", "upgrade", "start", "recover"}, MaxCommands <- 3,
    MaxCrashes <- 0, MaxFaults <- 0, lock <- installLock,
    faults <- installFaults

\* Applies and rollbacks of one endpoint from two state directories.
Serve == INSTANCE AccessServe WITH
    Procs <- {"p1"}, Dirs <- {"dir1", "dir2"}, Configs <- {"c1"},
    lock <- serveLock

\* A reader that moves between two threads.
Shell == INSTANCE ShellThreads WITH
    Workspace <- {"w1"}, Thread <- {"t1", "t2"}, Owner <- OneProject,
    Existing <- {"t1", "t2"}, Gestures <- {"select", "history", "refresh"},
    MaxGesture <- 2, FirstRuns <- 2, MaxRun <- 2, MaxEnd <- 2, MaxFail <- 0,
    calls <- shellCalls, spent <- shellSpent

-------------------------------------------------------------------------------
stopVars ==
    <<active, run, att, stopDec, act, rel, pins, disp, fresh, stalling,
      recovering, due, crashes>>
turnVars ==
    <<a, n, th, q, turnDec, cache, call, turnCalls, events, returned,
      turnFaults>>
startVars ==
    <<daemon, meta, startLock, cmd, startSpent>>
installVars ==
    <<disk, installLock, quiet, product, proc, installFaults>>
serveVars ==
    <<serve, log, serveLock, p, raced>>
shellVars ==
    <<ctl, shell, shellCalls, shellSpent>>
vars == <<part, stopVars, turnVars, startVars, installVars, serveVars,
          shellVars>>

Parts == {"stop", "turn", "start", "install", "serve", "shell"}

\* A component that does not run rests in its first state.
Init ==
    /\ part \in Parts
    /\ Stop!Init
    /\ Turn!Init
    /\ Start!Init
    /\ Install!Init
    /\ Serve!Init
    /\ Shell!Init
    /\ part \notin {"shell"} => \A c \in shellCalls : c.pref = Shell!None

OnlyStop ==
    UNCHANGED <<part, turnVars, startVars, installVars, serveVars, shellVars>>
OnlyTurn ==
    UNCHANGED <<part, stopVars, startVars, installVars, serveVars, shellVars>>
OnlyStart ==
    UNCHANGED <<part, stopVars, turnVars, installVars, serveVars, shellVars>>
OnlyInstall ==
    UNCHANGED <<part, stopVars, turnVars, startVars, serveVars, shellVars>>
OnlyServe ==
    UNCHANGED <<part, stopVars, turnVars, startVars, installVars, shellVars>>
OnlyShell ==
    UNCHANGED <<part, stopVars, turnVars, startVars, installVars, serveVars>>

OnStop == part = "stop" /\ OnlyStop
OnTurn == part = "turn" /\ OnlyTurn
OnStart == part = "start" /\ OnlyStart
OnInstall == part = "install" /\ OnlyInstall
OnServe == part = "serve" /\ OnlyServe
OnShell == part = "shell" /\ OnlyShell

Next ==
    \/ OnStop /\ Stop!Next
    \/ OnTurn /\ Turn!Next
    \/ OnStart /\ Start!Next
    \/ OnInstall /\ Install!Next
    \/ OnServe /\ Serve!Next
    \/ OnShell /\ Shell!Next

Spec == Init /\ [][Next]_vars

\* The fairness of the modules' own specifications: every process of the part
\* that runs goes on, and whoever waits for a lock or for a tool that works
\* gets it.
Weak1 ==
    \/ OnStop /\ (Stop!start_attempt("w1") \/ Stop!fail_after_binding("w1"))
    \/ OnTurn /\ Turn!Generator
    \/ OnStart /\ Start!DaemonStep("d1")
    \/ OnInstall /\ Install!Step("p1")
    \/ OnServe /\ Serve!Runs("p1")
    \/ OnShell /\ Shell!Landing
Weak2 ==
    \/ OnStop /\ Stop!turn_timeout("w1")
    \/ OnTurn /\ Turn!Interrupt
    \/ OnStart /\ Start!DaemonStep("d2")
    \/ OnInstall /\ Install!Step("p2")
    \/ OnShell /\ Shell!onEvents
Weak3 ==
    \/ OnStop /\ Stop!end_timed_out("w1")
    \/ OnTurn /\ Turn!Agent
    \/ OnStart /\ Start!DaemonStep("d3")
Weak4 ==
    \/ OnStop /\ Stop!recover_manual("r1")
    \/ OnTurn /\ Turn!Return
Weak5 ==
    \/ OnTurn /\ Turn!Claim
Weak6 ==
    \/ OnTurn /\ Turn!Hop("c1")
Weak7 ==
    \/ OnTurn /\ Turn!Record("c1")
Strong1 ==
    \/ OnStop /\ Stop!sweep_stalled("r1")
    \/ OnStart /\ Start!CommandStep("a")
    \/ OnInstall /\ Install!Lock("p1")
    \/ OnServe /\ Serve!RollbackDecide("p1")
Strong2 ==
    \/ OnStart /\ Start!CommandStep("b")
    \/ OnInstall /\ Install!Lock("p2")
    \/ OnServe /\ Serve!OffWorks("p1")
Strong3 ==
    \/ OnServe /\ Serve!BeginRollback("p1", "dir1", "c1")
Strong4 ==
    \/ OnServe /\ Serve!BeginRollback("p1", "dir2", "c1")
Strong5 ==
    \/ OnServe /\ Serve!Sees("p1", "dir1")
Strong6 ==
    \/ OnServe /\ Serve!Sees("p1", "dir2")

Fairness ==
    /\ WF_vars(Weak1)
    /\ WF_vars(Weak2)
    /\ WF_vars(Weak3)
    /\ WF_vars(Weak4)
    /\ WF_vars(Weak5)
    /\ WF_vars(Weak6)
    /\ WF_vars(Weak7)
    /\ SF_vars(Strong1)
    /\ SF_vars(Strong2)
    /\ SF_vars(Strong3)
    /\ SF_vars(Strong4)
    /\ SF_vars(Strong5)
    /\ SF_vars(Strong6)

FairSpec == Spec /\ Fairness

\* The assumptions of the modules on their constants hold of the instances.
ASSUME InstancesAssumption ==
    /\ Start!ConstantsAssumption
    /\ Install!InstallAssumption
    /\ Shell!ConstantsAssumption

-------------------------------------------------------------------------------
(* Properties.  Each is stated of the parts it is about.                     *)

\* What somebody asked for ends: a stop converges, a cancelled turn ends, a
\* spawned daemon is ready or gone, an installer command returns, a rollback
\* reaches its gateway, and an open thread loads.
ComesToAnEnd ==
    /\ part = "stop" => Stop!StopConverges
    /\ part = "turn" => Turn!CancelEnds
    /\ part = "start" => Start!SpawnedEnds
    /\ part = "install" => Install!CommandsEnd
    /\ part = "serve" => Serve!RollbackReaches
    /\ part = "shell" => Shell!OpenThreadLoads
===============================================================================
