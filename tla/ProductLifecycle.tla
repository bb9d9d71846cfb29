--------------------------- MODULE ProductLifecycle ---------------------------
(***************************************************************************)
(* Start, status, stop and quiescence of the installed product             *)
(* (distribution/lifecycle.py).  A foreground supervisor holds a lifetime  *)
(* lock, owns a shutdown socket and two children (cortexd and the Web      *)
(* adapter) and writes lifecycle.json once both are ready; the commands of *)
(* cortex-dist are serialised by another lock, which the supervisor never  *)
(* takes.  A supervisor is spawned by `start`, or by the service manager   *)
(* from the staged definition, behind the commands' backs.                 *)
(*                                                                         *)
(* A run is a supervisor with its fresh claim; a claim (pid, start token   *)
(* and marker) names one process, so a run id stands for its claims.       *)
(***************************************************************************)
EXTENDS Integers, FiniteSets, FiniteSetsExt

CONSTANTS
    Runs,          \* 1 .. n: supervisors that may be spawned
    Generations,   \* installed generations that issue commands
    FixedPort,     \* whether the Web listener has a configured port
    ByService,     \* whether the service manager starts supervisors
    MaxKills,      \* bound: supervisors killed outright
    MaxDeaths,     \* bound: children that die by themselves
    MaxTimeouts,   \* bound: startups and cleanups that take too long
    MaxAborts,     \* bound: commands whose process is killed
    MaxCommands    \* bound: commands given

LifecycleAssumption ==
    /\ Runs = 1 .. Cardinality(Runs) /\ IsFiniteSet(Generations) /\ Generations # {}
    /\ FixedPort \in BOOLEAN /\ ByService \in BOOLEAN /\ MaxKills \in Nat
    /\ MaxDeaths \in Nat /\ MaxTimeouts \in Nat /\ MaxAborts \in Nat
    /\ MaxCommands \in Nat

VARIABLES
    sup,       \* the supervisor of each run
    child,     \* its children
    lifetime,  \* holder of .supervisor.lock, 0: free
    socket,    \* the run whose shutdown socket is at the path, 0: none
    meta,      \* the run cortexd.json names, 0: absent
    record,    \* the run lifecycle.json names, 0: absent
    cmd,       \* the command that holds .lifecycle.lock
    faults     \* how often each bounded thing happened

vars == <<sup, child, lifetime, socket, meta, record, cmd, faults>>

Roles == {"control", "web"}
Kinds == {"start", "stop", "status", "probe", "quiesce"}

(* dying: sent SIGKILL and not seen to exit within the budget.             *)
ChildStates == {"none", "starting", "ready", "dying", "gone"}

(* dirty: a cleanup step of the supervisor failed; killed: its process was *)
(* killed outright, for the properties.                                    *)
Unborn == [pc |-> "unborn", gen |-> "none", stop |-> FALSE, dirty |-> FALSE,
           killed |-> FALSE]

(* old: the record the command read; new: the run a start spawned.         *)
Idle == [kind |-> "none", gen |-> "none", pc |-> "idle", old |-> 0, new |-> 0]

Init ==
    /\ sup = [s \in Runs |-> Unborn]
    /\ child = [s \in Runs |-> [r \in Roles |-> "none"]]
    /\ lifetime = 0 /\ socket = 0 /\ meta = 0 /\ record = 0
    /\ cmd = Idle
    /\ faults = [kill |-> 0, death |-> 0, timeout |-> 0, abort |-> 0, command |-> 0]

Count(f, max) == faults[f] < max /\ faults' = [faults EXCEPT ![f] = @ + 1]

(* _identity_matches: the process the claim names still exists.            *)
Exists(s, r) == child[s][r] \in {"starting", "ready", "dying"}
Live(s) == sup[s].pc \notin {"unborn", "dead"}

(* _require_free_web_port: somebody listens on the configured port.        *)
PortTaken == FixedPort /\ \E s \in Runs : Exists(s, "web")

Healthy(s, r) == child[s][r] = "ready"

StatusFor(s, g) ==
    CASE sup[s].gen # g \/ ~Live(s) -> "stale"
      [] sup[s].gen = g /\ Live(s) /\ ~(\A r \in Roles : Healthy(s, r)) -> "unhealthy"
      [] OTHER -> "running"

-----------------------------------------------------------------------------
(* The supervisor (_foreground_run).                                       *)

At(s, pc) == sup[s].pc = pc
Go(s, pc) == sup' = [sup EXCEPT ![s].pc = pc]

Acquire(s) ==
    /\ At(s, "lock") /\ lifetime = 0
    /\ lifetime' = s /\ Go(s, "listen")
    /\ UNCHANGED <<child, socket, meta, record, cmd, faults>>

(* Nobody released the lifetime lock in time, or SIGTERM came before the   *)
(* handlers were installed: nothing to clean.                              *)
LockTimesOut(s) ==
    /\ At(s, "lock")
    /\ sup[s].stop \/ lifetime # 0
    /\ Go(s, "dead")
    /\ UNCHANGED <<child, lifetime, socket, meta, record, cmd, faults>>

(* A socket left at the path is unlinked, whoever left it.                 *)
OpenListener(s) ==
    /\ At(s, "listen")
    /\ socket' = s /\ Go(s, "control")
    /\ child' = [child EXCEPT ![s]["control"] = "starting"]
    /\ UNCHANGED <<lifetime, meta, record, cmd, faults>>

(* cortexd holds a lifetime lock of its own and exits if another one has   *)
(* it (DaemonLifecycle); it publishes its metadata when it listens.  The   *)
(* adapter prints its readiness line.                                      *)
OtherControl(s, states) == \E t \in Runs \ {s} : child[t]["control"] \in states

BecomesReady(s, r) ==
    /\ child[s][r] = "starting"
    /\ r = "control" => ~OtherControl(s, {"ready"})
    /\ child' = [child EXCEPT ![s][r] = "ready"]
    /\ meta' = IF r = "control" THEN s ELSE meta
    /\ UNCHANGED <<sup, lifetime, socket, record, cmd, faults>>

SpawnWeb(s) ==
    /\ At(s, "control") /\ ~sup[s].stop /\ ~PortTaken
    /\ meta = s /\ Healthy(s, "control")
    /\ child' = [child EXCEPT ![s]["web"] = "starting"] /\ Go(s, "web")
    /\ UNCHANGED <<lifetime, socket, meta, record, cmd, faults>>

(* The record is written after both children proved to be ready.           *)
WriteRecord(s) ==
    /\ At(s, "web") /\ ~sup[s].stop /\ Healthy(s, "web")
    /\ record' = s /\ Go(s, "serving")
    /\ UNCHANGED <<child, lifetime, socket, meta, cmd, faults>>

(* Cancelled, a child exited, the port is taken, or the deadline passed.   *)
StartupFails(s) ==
    /\ sup[s].pc \in {"listen", "control", "web"}
    /\ \/ /\ sup[s].stop \/ \E r \in Roles : child[s][r] = "gone"
          /\ UNCHANGED faults
       \/ At(s, "control") /\ PortTaken /\ UNCHANGED faults
       \/ Count("timeout", MaxTimeouts)
    /\ Go(s, "stopWeb")
    /\ UNCHANGED <<child, lifetime, socket, meta, record, cmd>>

LeaveLoop(s) ==
    /\ At(s, "serving")
    /\ sup[s].stop \/ \E r \in Roles : child[s][r] = "gone"
    /\ Go(s, "stopWeb")
    /\ UNCHANGED <<child, lifetime, socket, meta, record, cmd, faults>>

(* _terminate_spawned: SIGTERM, then SIGKILL; the exit may come too late.  *)
Terminate(s, r, next) ==
    \/ /\ child' = [child EXCEPT ![s][r] = IF @ = "none" THEN @ ELSE "gone"]
       /\ Go(s, next) /\ UNCHANGED faults
    \/ /\ Exists(s, r) /\ Count("timeout", MaxTimeouts)
       /\ child' = [child EXCEPT ![s][r] = "dying"]
       /\ sup' = [sup EXCEPT ![s].pc = next, ![s].dirty = TRUE]

StopWeb(s) ==
    /\ At(s, "stopWeb") /\ Terminate(s, "web", "stopControl")
    /\ UNCHANGED <<lifetime, socket, meta, record, cmd>>

StopControl(s) ==
    /\ At(s, "stopControl") /\ Terminate(s, "control", "unmeta")
    /\ UNCHANGED <<lifetime, socket, meta, record, cmd>>

(* _remove_matching_control_metadata: under the metadata lock.             *)
RemoveMeta(s) == meta' = IF meta = s THEN 0 ELSE meta

(* Only a cleanup without errors removes the metadata.                     *)
ForgetControl(s) ==
    /\ At(s, "unmeta") /\ Go(s, "release")
    /\ IF sup[s].dirty \/ child[s]["control"] = "none" THEN UNCHANGED meta ELSE RemoveMeta(s)
    /\ UNCHANGED <<child, lifetime, socket, record, cmd, faults>>

(* The socket is unlinked if it is its own; the record stays.              *)
Release(s) ==
    /\ At(s, "release") /\ Go(s, "dead")
    /\ socket' = IF socket = s THEN 0 ELSE socket
    /\ lifetime' = 0
    /\ UNCHANGED <<child, meta, record, cmd, faults>>

(* Faults: a supervisor killed outright releases its lock and nothing      *)
(* else; a child that dies, a cortexd that finds another one, a killed     *)
(* child that finally exits.                                               *)
KillSupervisor(s) ==
    /\ Live(s) /\ Count("kill", MaxKills)
    /\ sup' = [sup EXCEPT ![s].pc = "dead", ![s].killed = TRUE]
    /\ lifetime' = IF lifetime = s THEN 0 ELSE lifetime
    /\ UNCHANGED <<child, socket, meta, record, cmd>>

ChildDies(s, r) ==
    /\ Exists(s, r)
    /\ \/ child[s][r] = "dying" /\ UNCHANGED faults
       \/ /\ child[s][r] = "starting" /\ r = "control"
          /\ OtherControl(s, {"ready", "dying"}) /\ UNCHANGED faults
       \/ child[s][r] # "dying" /\ Count("death", MaxDeaths)
    /\ child' = [child EXCEPT ![s][r] = "gone"]
    /\ UNCHANGED <<sup, lifetime, socket, meta, record, cmd>>

Spawn(s, g) ==
    /\ sup[s] = Unborn /\ \A t \in Runs : t < s => sup[t] # Unborn
    /\ sup' = [sup EXCEPT ![s] = [Unborn EXCEPT !.pc = "lock", !.gen = g]]

(* _service_entry: the staged definition takes no lifecycle lock.          *)
ServiceStarts(g) ==
    /\ ByService /\ \E s \in Runs : Spawn(s, g)
    /\ UNCHANGED <<child, lifetime, socket, meta, record, cmd, faults>>

-----------------------------------------------------------------------------
(* The commands, one at a time under .lifecycle.lock.                      *)

Doing(pc) == cmd.pc = pc
Then(pc) == cmd' = [cmd EXCEPT !.pc = pc]
Done == cmd' = Idle
OnlyCmd == UNCHANGED <<sup, child, lifetime, socket, meta, record, faults>>

Command(k, g) ==
    /\ Doing("idle") /\ Count("command", MaxCommands)
    /\ cmd' = [Idle EXCEPT !.kind = k, !.gen = g, !.pc = "read"]
    /\ UNCHANGED <<sup, child, lifetime, socket, meta, record>>

(* What each command does with the record it reads.                        *)
Read ==
    /\ Doing("read") /\ OnlyCmd
    /\ cmd' = [cmd EXCEPT !.old = record,
         !.pc = CASE record = 0 /\ cmd.kind = "start" -> "spawn"
                  [] record = 0 /\ cmd.kind = "quiesce" -> "quiet"
                  [] record = 0 /\ cmd.kind \notin {"start", "quiesce"} -> "stopped"
                  [] record # 0 /\ cmd.kind = "quiesce" -> "raised"
                  [] OTHER -> "look"]

(* Another generation's record is never touched; a running product is      *)
(* answered by start; anything else is stopped.                            *)
Look ==
    /\ Doing("look") /\ OnlyCmd
    /\ LET status == StatusFor(cmd.old, cmd.gen)
       IN  Then(CASE cmd.kind = "status" -> status
                   [] cmd.kind = "probe" ->
                        IF status = "running" THEN "request" ELSE "unhealthy"
                   [] cmd.kind \in {"start", "stop"} /\ sup[cmd.old].gen # cmd.gen -> "raised"
                   [] cmd.kind = "start" /\ status = "running" -> "running"
                   [] OTHER -> IF Live(cmd.old) THEN "ask" ELSE "children")

(* probe_local_front_door: the record and the claims again after the       *)
(* request.                                                                *)
Probe ==
    /\ Doing("request") /\ OnlyCmd
    /\ Then(IF record # 0 /\ record = cmd.old /\ StatusFor(cmd.old, cmd.gen) = "running"
             THEN "healthy" ELSE "unhealthy")

(* _request_supervisor_shutdown meets _accept_shutdown_request: the claim  *)
(* must be the listener's.  Only a supervisor in its loop accepts.         *)
Ask ==
    /\ Doing("ask") /\ socket = cmd.old /\ At(cmd.old, "serving")
    /\ sup' = [sup EXCEPT ![cmd.old].stop = TRUE]
    /\ \/ Then("exit") /\ UNCHANGED faults
       \/ Then("raised") /\ Count("timeout", MaxTimeouts)   \* the answer came too late
    /\ UNCHANGED <<child, lifetime, socket, meta, record>>

(* The supervisor left its loop, or has no socket any more: refused.       *)
AskRefused ==
    /\ Doing("ask") /\ OnlyCmd
    /\ socket # cmd.old \/ ~At(cmd.old, "serving")
    /\ Then("raised")

WaitExit ==
    /\ Doing("exit") /\ ~Live(cmd.old) /\ Then("children") /\ OnlyCmd

CheckChildren ==
    /\ Doing("children") /\ OnlyCmd
    /\ Then(IF \E r \in Roles : Exists(cmd.old, r) THEN "raised" ELSE "unmeta")

Unmeta ==
    /\ Doing("unmeta") /\ RemoveMeta(cmd.old) /\ Then("match")
    /\ UNCHANGED <<sup, child, lifetime, socket, record, faults>>

(* _remove_matching_record: read and compare, then unlink the path.        *)
AfterStop == IF cmd.kind = "start" /\ cmd.new = 0 THEN "spawn"
             ELSE IF cmd.new # 0 THEN "raised" ELSE "stopped"

Match ==
    /\ Doing("match") /\ OnlyCmd
    /\ Then(IF record = cmd.old THEN "unlink" ELSE AfterStop)

Unlink ==
    /\ Doing("unlink") /\ record' = 0 /\ Then(AfterStop)
    /\ UNCHANGED <<sup, child, lifetime, socket, meta, faults>>

(* start: the fixed port must be free, then the supervisor is spawned with *)
(* a fresh claim; opening its log or the spawn itself may fail.            *)
StartSpawns ==
    /\ Doing("spawn")
    /\ \/ Then("raised") /\ UNCHANGED sup
       \/ /\ ~PortTaken
          /\ \E s \in Runs : Spawn(s, cmd.gen) /\ cmd' = [cmd EXCEPT !.pc = "wait", !.new = s]
    /\ UNCHANGED <<child, lifetime, socket, meta, record, faults>>

WaitReady ==
    /\ Doing("wait") /\ OnlyCmd
    /\ record = cmd.new /\ StatusFor(cmd.new, cmd.gen) = "running" /\ Then("running")

(* The supervisor exited, or the deadline passed: SIGTERM.                 *)
StartFails ==
    /\ Doing("wait")
    /\ sup' = [sup EXCEPT ![cmd.new].stop = Live(cmd.new)]
    /\ Then("terminate")
    /\ UNCHANGED <<child, lifetime, socket, meta, record, faults>>

(* _cleanup_failed_start: once the supervisor is gone (SIGKILL after half  *)
(* the budget), only a record of its own makes it look for children.       *)
CleanStart ==
    /\ Doing("terminate") /\ ~Live(cmd.new) /\ OnlyCmd
    /\ IF record = cmd.new THEN cmd' = [cmd EXCEPT !.pc = "children", !.old = cmd.new]
       ELSE Then("raised")

Escalate ==
    /\ Doing("terminate") /\ KillSupervisor(cmd.new)

(* A deadline of the command passes while it waits on the supervisor.      *)
CommandTimesOut ==
    /\ cmd.pc \in {"exit", "children", "unmeta", "match"}
    /\ Then("raised") /\ OnlyCmd

(* The command's own process is killed: its lock goes, the rest stays.     *)
Abort ==
    /\ cmd.pc # "idle" /\ Count("abort", MaxAborts) /\ Done
    /\ UNCHANGED <<sup, child, lifetime, socket, meta, record>>

(* The answer, and the lock released; quiescence ends when its holder is   *)
(* through.                                                                *)
Answers == {"stopped", "raised", "running", "stale", "unhealthy", "healthy", "quiet"}

Answer ==
    /\ cmd.pc \in Answers /\ Done /\ OnlyCmd

-----------------------------------------------------------------------------
Supervisor(s) ==
    \/ Acquire(s) \/ LockTimesOut(s) \/ OpenListener(s) \/ SpawnWeb(s) \/ WriteRecord(s)
    \/ StartupFails(s) \/ LeaveLoop(s) \/ StopWeb(s) \/ StopControl(s)
    \/ ForgetControl(s) \/ Release(s)

Steps ==
    \/ Read \/ Look \/ Probe \/ Ask \/ AskRefused \/ WaitExit \/ CheckChildren \/ Unmeta
    \/ Match \/ Unlink \/ StartSpawns \/ WaitReady \/ StartFails \/ CleanStart
    \/ CommandTimesOut \/ Answer

Next ==
    \/ \E s \in Runs :
          \/ Supervisor(s) \/ KillSupervisor(s)
          \/ \E r \in Roles : BecomesReady(s, r) \/ ChildDies(s, r)
    \/ \E g \in Generations : ServiceStarts(g) \/ \E k \in Kinds : Command(k, g)
    \/ Steps \/ Escalate \/ Abort

Spec == Init /\ [][Next]_vars

(* A process that can step does, and a deadline passes; a child that starts becomes ready or      *)
(* dies, and a killed one exits.                                           *)
Fairness ==
    /\ \A s \in Runs :
          /\ WF_vars(Acquire(s)) /\ WF_vars(OpenListener(s)) /\ WF_vars(SpawnWeb(s))
          /\ WF_vars(WriteRecord(s)) /\ WF_vars(StartupFails(s)) /\ WF_vars(LeaveLoop(s))
          /\ WF_vars(LockTimesOut(s)) /\ WF_vars(StopWeb(s)) /\ WF_vars(StopControl(s))
          /\ WF_vars(ForgetControl(s)) /\ WF_vars(Release(s))
          /\ \A r \in Roles : WF_vars(BecomesReady(s, r)) /\ WF_vars(ChildDies(s, r))
    /\ WF_vars(Steps)

FairSpec == Spec /\ Fairness

-----------------------------------------------------------------------------
TypeOK ==
    /\ sup \in [Runs -> [pc : {"unborn", "lock", "listen", "control", "web", "serving",
                               "stopWeb", "stopControl", "unmeta", "release", "dead"},
                         gen : Generations \cup {"none"}, stop : BOOLEAN, dirty : BOOLEAN,
                         killed : BOOLEAN]]
    /\ child \in [Runs -> [Roles -> ChildStates]]
    /\ lifetime \in Runs \cup {0} /\ socket \in Runs \cup {0}
    /\ meta \in Runs \cup {0} /\ record \in Runs \cup {0}
    /\ cmd \in [kind : Kinds \cup {"none"}, gen : Generations \cup {"none"},
                pc : {"idle", "read", "look", "request", "ask", "exit", "children", "unmeta",
                      "match", "unlink", "spawn", "wait", "terminate"} \cup Answers,
                old : Runs \cup {0}, new : Runs \cup {0}]
    /\ DOMAIN faults = {"kill", "death", "timeout", "abort", "command"}

Working(s) == \E r \in Roles : child[s][r] \in {"starting", "ready"}

(* A supervisor that is killed outright leaves its children behind, and    *)
(* nobody waits for them: the two properties are about the others.         *)
Supervised(s) == Working(s) /\ ~sup[s].killed

(* A product that is answered to be stopped, or whose quiescence is held,  *)
(* has no cortexd and no Web adapter at work, whatever failed before       *)
(* (lifecycle_quiescence, status, stop).                                   *)
StoppedMeansDown ==
    cmd.pc \in {"stopped", "quiet"} => \A s \in Runs : ~Supervised(s)

(* The children of two supervisors are never at work at once: the          *)
(* lifetime lock outlives the children (_foreground_run).                  *)
OneProduct == \A s, t \in Runs : Supervised(s) /\ Supervised(t) => s = t

(* A serving supervisor's cortexd keeps its metadata: no cleanup of an     *)
(* older run removes it (_remove_matching_control_metadata).               *)
ServingHasMeta ==
    \A s \in Runs : At(s, "serving") /\ child[s]["control"] = "ready" => meta = s

(* The record of a run is removed only when none of its processes is left. *)
RecordOutlivesRun ==
    record # 0 /\ record' # record
       => ~Live(record) /\ \A r \in Roles : ~Exists(record, r)

CommandsEnd == cmd.pc # "idle" ~> cmd.pc = "idle"
=============================================================================
