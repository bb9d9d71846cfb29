------------------------------ MODULE MCServices ------------------------------
(*****************************************************************************)
(* The installed product on small instances: its supervised services         *)
(* (ProductLifecycle), the journal of an installation (InstallJournal), the  *)
(* Control daemon (DaemonLifecycle) and private access (AccessService,       *)
(* AccessServe). A behaviour picks one part and moves only that one.         *)
(*****************************************************************************)
EXTENDS Naturals, Sequences

CONSTANTS
    g1, g2, p1, p2, d1, d2, c1, c2

\* InstallJournal: the Control schema of each release.
TwoReleases == <<1, 2>>
ThreeReleases == <<1, 1, 2>>

VARIABLE part      \* the component, and the instance of it, that runs
VARIABLES          \* ProductLifecycle
    sup, child, lifetime, socket, productMeta, record, productCmd,
    productFaults
VARIABLES          \* InstallJournal
    disk, installLock, quiet, product, proc, installFaults
VARIABLES          \* DaemonLifecycle
    daemon, daemonMeta, startLock, daemonCmd, spent
VARIABLES          \* AccessService
    d, todo, publishes, crashes
VARIABLES          \* AccessServe
    serve, log, serveLock, p, raced

\* Start, stop and restart by the operator, over two generations.
Commanded == INSTANCE ProductLifecycle WITH
    Runs <- {1, 2}, Generations <- {g1, g2}, FixedPort <- TRUE,
    ByService <- FALSE, MaxKills <- 1, MaxDeaths <- 1, MaxTimeouts <- 1,
    MaxAborts <- 0, MaxCommands <- 3, meta <- productMeta, cmd <- productCmd,
    faults <- productFaults

\* The same product under a service manager.
Serviced == INSTANCE ProductLifecycle WITH
    Runs <- {1, 2}, Generations <- {g1}, FixedPort <- FALSE,
    ByService <- TRUE, MaxKills <- 1, MaxDeaths <- 1, MaxTimeouts <- 1,
    MaxAborts <- 1, MaxCommands <- 2, meta <- productMeta, cmd <- productCmd,
    faults <- productFaults

\* Two installers, a crash and a fault.
Crashes == INSTANCE InstallJournal WITH
    Procs <- {p1, p2}, Releases <- {1, 2}, Schema <- TwoReleases,
    Commands <- {"install", "upgrade", "rollback", "uninstall", "recover"},
    MaxCommands <- 4, MaxCrashes <- 1, MaxFaults <- 1, lock <- installLock,
    faults <- installFaults

\* Three releases, two of them with one schema.
Upgrades == INSTANCE InstallJournal WITH
    Procs <- {p1, p2}, Releases <- {1, 2, 3}, Schema <- ThreeReleases,
    Commands <- {"install", "upgrade", "rollback"}, MaxCommands <- 4,
    MaxCrashes <- 1, MaxFaults <- 1, lock <- installLock,
    faults <- installFaults

\* Upgrades and uninstalls beside a product that is started and stopped.
Stated == INSTANCE InstallJournal WITH
    Procs <- {p1, p2}, Releases <- {1, 2}, Schema <- TwoReleases,
    Commands <- {"install", "upgrade", "rollback", "uninstall", "start",
    "stop", "proof"}, MaxCommands <- 6, MaxCrashes <- 1, MaxFaults <- 0,
    lock <- installLock, faults <- installFaults

\* A start beside a daemon that was started directly.
Races == INSTANCE DaemonLifecycle WITH
    Inst <- {"d1", "d2", "d3"}, Port <- {"p1", "p2"}, Starter <- {"a"},
    Stopper <- {}, Viewer <- {"v"}, Limit <- 2, MaxDirect <- 1, MaxFault <- 1,
    MaxDeadline <- 1, MaxCorrupt <- 0, meta <- daemonMeta, cmd <- daemonCmd

\* Two stops and three daemons.
Stops == INSTANCE DaemonLifecycle WITH
    Inst <- {"d1", "d2", "d3"}, Port <- {"p1"}, Starter <- {},
    Stopper <- {"s", "t"}, Viewer <- {}, Limit <- 1, MaxDirect <- 3,
    MaxFault <- 1, MaxDeadline <- 0, MaxCorrupt <- 1, meta <- daemonMeta,
    cmd <- daemonCmd

\* Three versions of the access service, two crashes.
Access == INSTANCE AccessService WITH
    Versions <- {1, 2, 3}, MaxOps <- 5, MaxCrashes <- 2

\* Two commands, two state directories, two configurations.
Served == INSTANCE AccessServe WITH
    Procs <- {p1, p2}, Dirs <- {d1, d2}, Configs <- {c1, c2},
    lock <- serveLock

-------------------------------------------------------------------------------
productVars ==
    <<sup, child, lifetime, socket, productMeta, record, productCmd,
      productFaults>>
installVars ==
    <<disk, installLock, quiet, product, proc, installFaults>>
daemonVars ==
    <<daemon, daemonMeta, startLock, daemonCmd, spent>>
accessVars ==
    <<d, todo, publishes, crashes>>
serveVars ==
    <<serve, log, serveLock, p, raced>>
vars == <<part, productVars, installVars, daemonVars, accessVars, serveVars>>

Parts == {"commands", "service", "crashes", "upgrades", "state", "races",
          "stops", "access", "serve"}

\* A component that does not run rests in its first state.
Init ==
    /\ part \in Parts
    /\ CASE part = "service" -> Serviced!Init
         [] OTHER -> Commanded!Init
    /\ CASE part = "upgrades" -> Upgrades!Init
         [] part = "state" -> Stated!Init
         [] OTHER -> Crashes!Init
    /\ CASE part = "stops" -> Stops!Init
         [] OTHER -> Races!Init
    /\ Access!Init
    /\ Served!Init

OnlyProduct ==
    UNCHANGED <<part, installVars, daemonVars, accessVars, serveVars>>
OnlyInstall ==
    UNCHANGED <<part, productVars, daemonVars, accessVars, serveVars>>
OnlyDaemon ==
    UNCHANGED <<part, productVars, installVars, accessVars, serveVars>>
OnlyAccess ==
    UNCHANGED <<part, productVars, installVars, daemonVars, serveVars>>
OnlyServe ==
    UNCHANGED <<part, productVars, installVars, daemonVars, accessVars>>

Next ==
    \/ part = "commands" /\ Commanded!Next /\ OnlyProduct
    \/ part = "service" /\ Serviced!Next /\ OnlyProduct
    \/ part = "crashes" /\ Crashes!Next /\ OnlyInstall
    \/ part = "upgrades" /\ Upgrades!Next /\ OnlyInstall
    \/ part = "state" /\ Stated!Next /\ OnlyInstall
    \/ part = "races" /\ Races!Next /\ OnlyDaemon
    \/ part = "stops" /\ Stops!Next /\ OnlyDaemon
    \/ part = "access" /\ Access!Next /\ OnlyAccess
    \/ part = "serve" /\ Served!Next /\ OnlyServe

Spec == Init /\ [][Next]_vars

\* The assumptions of the modules on their constants hold of the instances.
ASSUME InstancesAssumption ==
    /\ Commanded!LifecycleAssumption
    /\ Serviced!LifecycleAssumption
    /\ Crashes!InstallAssumption
    /\ Upgrades!InstallAssumption
    /\ Stated!InstallAssumption
    /\ Races!ConstantsAssumption
    /\ Stops!ConstantsAssumption
    /\ Access!VersionsAssumption

-------------------------------------------------------------------------------
(* Properties.  Each is stated of the parts it is about.                     *)


\* With no journal on disk, what the pointers of an installation name is
\* there with its launchers, no interruption leaves a disk that recovery
\* refuses, the database is newer than current can read only below a release
\* an install put there unasked, and no product runs on it; the access
\* configuration can always be uninstalled and installed again, and whatever
\* gateway is served has an open log that can revoke it, whatever was
\* interrupted, raised or raced before.
PointersHold ==
    /\ part = "crashes" => /\ Crashes!TypeOK
                           /\ Crashes!PointersHold
                           /\ Crashes!NeverManual
    /\ part = "upgrades" => Upgrades!PointersHold
    /\ part = "state" => Stated!StateReadable
    /\ part = "access" => /\ Access!TypeOK
                          /\ Access!PointersSound
                          /\ Access!HistoryStays
                          /\ Access!Reinstalls
    /\ part = "serve" => /\ Served!TypeOK
                         /\ Served!Revocable

\* A transaction of the private access is closed only as a whole and nothing
\* is deleted by it; an installation is switched only while its product is
\* stopped; foreign Serve configuration is changed only by the operator, or
\* once by a command that had read the status before it was put there, and a
\* log closes only when its gateway is gone; and the record of a product's
\* run is removed only when none of its processes is left.
AllOrNothing ==
    [][/\ part = "access" => /\ Access!NothingLost
                             /\ Access!AllOrNothing
                             /\ Access!UninstallWhole
       /\ part = "state" => Stated!SwitchedWhileStopped
       /\ part = "serve" => /\ Served!ForeignUntouched
                            /\ Served!ClosedIsGone
       /\ part = "commands" => Commanded!RecordOutlivesRun]_vars
===============================================================================
