------------------------------ MODULE MCRuntime -------------------------------
(*****************************************************************************)
(* The runtime behind a turn, on small instances: the worker's ledger of     *)
(* operations (WorkerLedger), the daemon's channel to its managed worker     *)
(* (ManagedChannel) and the updater of the runtime's releases                *)
(* (RuntimeUpdater). A behaviour picks one part and moves only that one.     *)
(* The module extends WorkerLedger: the part "restarts" is that module       *)
(* itself, with the constants of Runtime.cfg: a turn and a probe, two        *)
(* payloads, two worker processes and two kills.                             *)
(*****************************************************************************)
EXTENDS WorkerLedger, TLC

CONSTANTS
    Nil, o1, o2, d1, w1, w2, a1, a2, r1, r2, r3, s1, s2, i1, i2

Symmetry == Permutations({w1, w2})

\* Releases r1 and r2 share an interpreter archive or have one each, r2 and
\* r3 share an artifact; the second catalog withdraws r1.
TwoSlots == [r \in {r1, r2, r3} |-> IF r = r1 THEN s1 ELSE s2]
TwoInterps == [r \in {r1, r2, r3} |-> IF r = r3 THEN i2 ELSE i1]
OneInterpEach == [r \in {r1, r2} |-> IF r = r1 THEN i1 ELSE i2]
InOrder == [r \in {r1, r2, r3} |-> IF r = r1 THEN 1 ELSE IF r = r2 THEN 2 ELSE 3]
OneCatalog == {[seq |-> 1, certifies |-> {r1, r2}]}
TwoCatalogs == {[seq |-> 1, certifies |-> {r1, r2, r3}],
                [seq |-> 2, certifies |-> {r2, r3}]}

VARIABLE part      \* the component, and the instance of it, that runs
VARIABLES          \* ManagedChannel
    sup, wire, w, slot, run, exec, deliver, action, applied, spent
VARIABLES          \* RuntimeUpdater
    d, todo, approved, vetted, budget

\* Two turns, two worker processes, a kill, a power loss, a failed write.
Faults == INSTANCE WorkerLedger WITH
    Turns <- {o1, o2}, ProbeIds <- {}, Digests <- {d1},
    MaxKills <- 1, MaxPowerLosses <- 1, MaxErrors <- 1

\* One operation asked with two payloads, under every fault.
Payloads == INSTANCE WorkerLedger WITH
    Turns <- {o1}, ProbeIds <- {}, MaxKills <- 2, MaxPowerLosses <- 1, MaxErrors <- 1

\* Two attempts, a cancel that overtakes its turn, answers that are late.
Late == INSTANCE ManagedChannel WITH
    Attempt <- {a1, a2}, Target <- a1, Kind <- "cancel", MaxEpoch <- 1,
    Asks <- FALSE, MaxBeat <- 0, MaxTimeout <- 1,
    MaxDeath <- 0, MaxBroken <- 1, Budget <- 1, Memory <- 4

\* A worker that dies twice under two attempts.
Deaths == INSTANCE ManagedChannel WITH
    Attempt <- {a1, a2}, Target <- a1, Kind <- "cancel", MaxEpoch <- 1,
    Asks <- FALSE, MaxBeat <- 1, MaxTimeout <- 0,
    MaxDeath <- 2, MaxBroken <- 0, Budget <- 1, Memory <- 4

\* A decision delivered over a worker that dies.
Decides == INSTANCE ManagedChannel WITH
    Attempt <- {a1}, Target <- a1, Kind <- "resolve", MaxEpoch <- 2,
    Asks <- TRUE, MaxBeat <- 0, MaxTimeout <- 1,
    MaxDeath <- 1, MaxBroken <- 0, Budget <- 1, Memory <- 4

\* Two releases and a crash inside any command.
Crashes == INSTANCE RuntimeUpdater WITH
    Releases <- {r1, r2}, Slots <- {s1, s2}, Interps <- {i1, i2},
    Attempts <- {a1}, SlotOf <- TwoSlots, InterpOf <- OneInterpEach,
    SeqOf <- InOrder, Catalogs <- OneCatalog, MaxGens <- 3, MaxCrashes <- 1,
    MaxDecisions <- 2, MaxCommands <- 5

\* Two releases, as many commands as a rollback takes.
Rollbacks == INSTANCE RuntimeUpdater WITH
    Releases <- {r1, r2}, Slots <- {s1, s2}, Interps <- {i1, i2},
    Attempts <- {a1}, SlotOf <- TwoSlots, InterpOf <- OneInterpEach,
    SeqOf <- InOrder, Catalogs <- OneCatalog, MaxGens <- 2, MaxCrashes <- 0,
    MaxDecisions <- 3, MaxCommands <- 7

\* Releases that share a tree, and a catalog that withdraws one.
Shared == INSTANCE RuntimeUpdater WITH
    Releases <- {r1, r2, r3}, Slots <- {s1, s2}, Interps <- {i1, i2},
    Attempts <- {a1}, SlotOf <- TwoSlots, InterpOf <- TwoInterps,
    SeqOf <- InOrder, Catalogs <- TwoCatalogs, MaxGens <- 2, MaxCrashes <- 1,
    MaxDecisions <- 2, MaxCommands <- 3

-------------------------------------------------------------------------------
channelVars ==
    <<sup, wire, w, slot, run, exec, deliver, action, applied, spent>>
updaterVars ==
    <<d, todo, approved, vetted, budget>>
partsVars == <<part, vars, channelVars, updaterVars>>

Parts == {"faults", "payloads", "restarts", "late", "deaths", "decides",
          "crashes", "rollbacks", "shared"}

\* A component that does not run rests in its first state.
PartsInit ==
    /\ part \in Parts
    /\ CASE part = "payloads" -> Payloads!Init
         [] part = "restarts" -> Init
         [] OTHER -> Faults!Init
    /\ CASE part = "deaths" -> Deaths!Init
         [] part = "decides" -> Decides!Init
         [] OTHER -> Late!Init
    /\ CASE part = "rollbacks" -> Rollbacks!Init
         [] part = "shared" -> Shared!Init
         [] OTHER -> Crashes!Init

OnlyLedger ==
    UNCHANGED <<part, channelVars, updaterVars>>
OnlyChannel ==
    UNCHANGED <<part, vars, updaterVars>>
OnlyUpdater ==
    UNCHANGED <<part, vars, channelVars>>

PartsNext ==
    \/ part = "faults" /\ Faults!Next /\ OnlyLedger
    \/ part = "payloads" /\ Payloads!Next /\ OnlyLedger
    \/ part = "restarts" /\ Next /\ OnlyLedger
    \/ part = "late" /\ Late!Next /\ OnlyChannel
    \/ part = "deaths" /\ Deaths!Next /\ OnlyChannel
    \/ part = "decides" /\ Decides!Next /\ OnlyChannel
    \/ part = "crashes" /\ Crashes!Next /\ OnlyUpdater
    \/ part = "rollbacks" /\ Rollbacks!Next /\ OnlyUpdater
    \/ part = "shared" /\ Shared!Next /\ OnlyUpdater

PartsSpec == PartsInit /\ [][PartsNext]_partsVars

\* The assumptions of the modules on their constants hold of the instances.
ASSUME InstancesAssumption ==
    /\ LedgerAssumption
    /\ Faults!LedgerAssumption
    /\ Payloads!LedgerAssumption
    /\ Late!ConstantsAssumption
    /\ Deaths!ConstantsAssumption
    /\ Decides!ConstantsAssumption
    /\ Crashes!UpdaterAssumption
    /\ Rollbacks!UpdaterAssumption
    /\ Shared!UpdaterAssumption

-------------------------------------------------------------------------------
(* Properties.  RunOnce, LedgerAnswers and ImplementsLog are WorkerLedger's  *)
(* own; the others are stated of the parts they are about.                   *)

\* A channel fails only because its worker is gone, never because of a late
\* reply or event; nobody is left waiting by a channel that failed or was
\* replaced; a turn nobody follows any more has a cancel on its way, an
\* early cancel holds, and an action answered accepted reached the worker
\* and is remembered (_route_reply, _fail, release_attempt,
\* _perform_action).
ChannelServes ==
    /\ part = "late" => /\ Late!TypeOK
                        /\ Late!HealthyChannelServes
                        /\ Late!EarlyCancelHolds
                        /\ Late!NoOrphanTurn
    /\ part = "deaths" => /\ Deaths!NoOrphanTurn
                          /\ Deaths!NoStrandedWaiter
                          /\ Deaths!LaunchesAreLimited
    /\ part = "decides" => /\ Decides!AcceptedReached
                           /\ Decides!AcceptedIsKept

\* At every moment, in the middle of any command and after any crash, what
\* the active and last-known-good pointers and the attempts' pins name is
\* there to run, and the operator's repair can make an approved release
\* active again (updater: activate, rollback, prune).
PointersResolve ==
    /\ part = "crashes" => /\ Crashes!TypeOK
                           /\ Crashes!PointersResolve
                           /\ Crashes!Repairable
    /\ part = "rollbacks" => /\ Rollbacks!PointersResolve
                             /\ Rollbacks!Repairable
    /\ part = "shared" => /\ Shared!PointersResolve
                          /\ Shared!Repairable

\* No command makes a release run that was not approved when it was opened,
\* and an interrupted activation leaves its journal until recovery has
\* restored the very pointer that was active before it (activate, rollback,
\* recover).
ApprovedOnly ==
    [][/\ part = "crashes" => /\ Crashes!ApprovedOnly
                              /\ Crashes!RecoversExactly
       /\ part = "rollbacks" => /\ Rollbacks!ApprovedOnly
                                /\ Rollbacks!RecoversExactly]_partsVars
===============================================================================
