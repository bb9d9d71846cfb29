-------------------------- MODULE DaemonLifecycle --------------------------
(***************************************************************************)
(* The life of cortexd (product/daemon.py) and the commands that start,    *)
(* stop and look at it (product/lifecycle.py).  A daemon owns a lifetime   *)
(* lock from before it opens the store until it exits, publishes a         *)
(* metadata file with its instance, process and port, and answers health   *)
(* and shutdown requests on that port.  The commands trust no process id:  *)
(* they read the file, compare the process identity, ask the port who it   *)
(* is, and remove the file only while it still names the instance they     *)
(* judged.  Reads and removals of the file happen under its lock and are   *)
(* single steps; everything between them interleaves.                      *)
(***************************************************************************)
EXTENDS Naturals, FiniteSets

CONSTANTS
    Inst,        \* instance ids, each used by one daemon
    Port,        \* the ports the kernel gives out
    Starter,     \* runs of the start command
    Stopper,     \* runs of the stop command
    Viewer,      \* runs of the status command
    Limit,       \* rounds before a status settles (8 in the code)
    MaxDirect,   \* bound: daemons started without the start command
    MaxFault,    \* bound: kills, lost answers, failures to start, signals
    MaxDeadline, \* bound: deadlines of commands that pass
    MaxCorrupt   \* bound: damage to the metadata file

Cmd == Starter \cup Stopper \cup Viewer

ConstantsAssumption ==
    /\ Limit \in Nat \ {0}
    /\ {MaxDirect, MaxFault, MaxDeadline, MaxCorrupt} \subseteq Nat

None == "none"
Bad == "bad"

VARIABLES
    daemon,     \* the daemon of every instance
    meta,       \* the metadata file: an instance, None or Bad
    startLock,  \* the holder of the start lock
    cmd,        \* the commands
    spent       \* the budgets used

vars == <<daemon, meta, startLock, cmd, spent>>

NewDaemon == [pc |-> "none", port |-> None, stop |-> FALSE, asked |-> {}, why |-> "none"]

NewCmd == [pc |-> "idle", m |-> None, now |-> None, ret |-> "none", n |-> 0, stale |-> FALSE,
           child |-> None, out |-> "none"]

Init ==
    /\ daemon = [i \in Inst |-> NewDaemon]
    /\ meta = None
    /\ startLock = None
    /\ cmd = [c \in Cmd |-> NewCmd]
    /\ spent = [direct |-> 0, fault |-> 0, deadline |-> 0, corrupt |-> 0]

Spend(what, bound) ==
    /\ spent[what] < bound
    /\ spent' = [spent EXCEPT ![what] = @ + 1]

---------------------------------------------------------------------------
(* The daemon *)

Alive(i) == daemon[i].pc \notin {"none", "dead"}

\* The lifetime lock is the kernel's: a daemon that dies gives it back.
Owns(i) == daemon[i].pc \in {"locked", "built", "published", "serving", "stopping", "closed", "cleaned"}

Listening(i) == daemon[i].pc \in {"built", "published", "serving", "stopping"}

To(i, pc) == daemon' = [daemon EXCEPT ![i].pc = pc]

Die(i, why) == daemon' = [daemon EXCEPT ![i].pc = "dead", ![i].why = why]

\* cortexd run by hand: it chooses its own instance id and executes itself.
Direct(i) ==
    /\ daemon[i].pc = "none"
    /\ To(i, "booting")
    /\ Spend("direct", MaxDirect)
    /\ UNCHANGED <<meta, startLock, cmd>>


\* The lock is not waited for: a daemon that finds it taken exits.
TakeLifetime(i) ==
    /\ daemon[i].pc = "booting"
    /\ IF \E x \in Inst : Owns(x) THEN Die(i, "busy") ELSE To(i, "locked")
    /\ UNCHANGED <<meta, startLock, cmd, spent>>

\* The store, the worker, the adapters, the API and the server, which binds its
\* port; or an exception, after which everything is put back.
Build(i) ==
    /\ daemon[i].pc = "locked"
    /\ \/ /\ \E p \in Port : /\ ~\E x \in Inst : Listening(x) /\ daemon[x].port = p
                             /\ daemon' = [daemon EXCEPT ![i].pc = "built", ![i].port = p]
          /\ UNCHANGED spent
       \/ /\ daemon' = [daemon EXCEPT ![i].pc = "closed", ![i].why = "failed"]
          /\ Spend("fault", MaxFault)
    /\ UNCHANGED <<meta, startLock, cmd>>

WriteMetadata(i) ==
    /\ daemon[i].pc = "built"
    /\ To(i, "published")
    /\ meta' = i
    /\ UNCHANGED <<startLock, cmd, spent>>

\* Schedules, readings, recovery of interrupted turns, the window supervisor,
\* then the signal handlers and the request loop.
StartServices(i) ==
    /\ daemon[i].pc = "published"
    /\ To(i, "serving")
    /\ UNCHANGED <<meta, startLock, cmd, spent>>

\* The loop ends with the stop event; the services and the server are closed.
LeaveLoop(i) ==
    /\ daemon[i].pc = "serving" /\ daemon[i].stop
    /\ To(i, "stopping")
    /\ UNCHANGED <<meta, startLock, cmd, spent>>

CloseServices(i) ==
    /\ daemon[i].pc = "stopping"
    /\ To(i, "closed")
    /\ UNCHANGED <<meta, startLock, cmd, spent>>

\* _remove_matching_metadata: the file goes only while it names this instance.
Without(i) == IF meta = i THEN None ELSE meta

RemoveOwnMetadata(i) ==
    /\ daemon[i].pc = "closed"
    /\ To(i, "cleaned")
    /\ meta' = Without(i)
    /\ UNCHANGED <<startLock, cmd, spent>>

ReleaseLifetime(i) ==
    /\ daemon[i].pc = "cleaned"
    /\ Die(i, IF daemon[i].why = "none" THEN "done" ELSE daemon[i].why)
    /\ UNCHANGED <<meta, startLock, cmd, spent>>

\* SIGTERM: before the handlers are installed, and after they are put back, it
\* ends the process where it is.
Signaled(i) ==
    CASE daemon[i].pc = "serving" -> daemon' = [daemon EXCEPT ![i].stop = TRUE]
      [] daemon[i].pc \in {"stopping", "closed", "dead"} -> UNCHANGED daemon
      [] OTHER -> Die(i, "killed")

Terminate(i) ==
    /\ Alive(i)
    /\ Signaled(i)
    /\ Spend("fault", MaxFault)
    /\ UNCHANGED <<meta, startLock, cmd>>

Crash(i) ==
    /\ Alive(i)
    /\ Die(i, "killed")
    /\ Spend("fault", MaxFault)
    /\ UNCHANGED <<meta, startLock, cmd>>

Corrupt ==
    /\ meta \notin {None, Bad}
    /\ meta' = Bad
    /\ Spend("corrupt", MaxCorrupt)
    /\ UNCHANGED <<daemon, startLock, cmd>>

---------------------------------------------------------------------------
(* What a command can find out *)

At(c, pc) == cmd[c].pc = pc

\* The process of the metadata: same pid, same start, instance in its command.
IdentityMatches(m) == Alive(m)

\* Who answers on the port of m, if its request loop runs.
Answers(m) == {x \in Inst : daemon[x].pc = "serving" /\ daemon[x].port = daemon[m].port}

\* A health answer counts when it names the instance; it may also be lost.
Ready(m) == m \in Answers(m)

\* The daemon obeys a shutdown request that carries its own instance and token.
Obeys(x, m) == x = m

Close(c, out) ==
    /\ cmd' = [cmd EXCEPT ![c].pc = "done", ![c].out = out]
    /\ startLock' = IF startLock = c THEN None ELSE startLock

Goto(c, pc) ==
    /\ cmd' = [cmd EXCEPT ![c].pc = pc]
    /\ UNCHANGED startLock

---------------------------------------------------------------------------
(* daemon_status, called by the status command and three times by start *)

\* What the caller does with the state that comes back.
Returns(c, state) ==
    CASE cmd[c].ret = "view" -> Close(c, state)
      [] state = "running" -> Close(c, "running")
      [] cmd[c].ret = "first" /\ state = "unhealthy" -> Close(c, "failed")
      [] cmd[c].ret = "first" -> Goto(c, "spawn")
      [] OTHER -> Goto(c, "wait")

View(c) ==
    /\ c \in Viewer /\ At(c, "idle")
    /\ cmd' = [cmd EXCEPT ![c].pc = "load", ![c].ret = "view"]
    /\ UNCHANGED <<daemon, meta, startLock, spent>>

\* _load_metadata with the removal of a file that cannot be read.
LoadStatus(c) ==
    /\ At(c, "load")
    /\ CASE meta = None -> /\ Returns(c, IF cmd[c].stale THEN "stale" ELSE "stopped")
                           /\ UNCHANGED meta
         [] meta = Bad -> Returns(c, "stale") /\ meta' = None
         [] OTHER -> /\ cmd' = [cmd EXCEPT ![c].pc = "identity", ![c].m = meta]
                     /\ UNCHANGED <<startLock, meta>>
    /\ UNCHANGED <<daemon, spent>>

StatusIdentity(c) ==
    /\ At(c, "identity")
    /\ IF IdentityMatches(cmd[c].m) THEN Goto(c, "health")
       ELSE IF cmd[c].n >= Limit THEN Returns(c, "stale")
       ELSE Goto(c, "unlink")
    /\ UNCHANGED <<daemon, meta, spent>>

StatusHealth(c) ==
    /\ At(c, "health")
    /\ \/ Returns(c, IF Ready(cmd[c].m) THEN "running" ELSE "unhealthy") /\ UNCHANGED spent
       \/ Ready(cmd[c].m) /\ Returns(c, "unhealthy") /\ Spend("fault", MaxFault)
    /\ UNCHANGED <<daemon, meta>>

StatusUnlink(c) ==
    /\ At(c, "unlink")
    /\ meta' = Without(cmd[c].m)
    /\ cmd' = [cmd EXCEPT ![c].pc = "load", ![c].n = @ + 1, ![c].stale = TRUE]
    /\ UNCHANGED <<daemon, startLock, spent>>

---------------------------------------------------------------------------
(* start_daemon *)

Asks(c, ret) == cmd' = [cmd EXCEPT ![c] = [@ EXCEPT !.pc = "load", !.ret = ret, !.n = 0, !.stale = FALSE]]

LockStart(c) ==
    /\ c \in Starter /\ At(c, "idle")
    /\ startLock = None
    /\ startLock' = c
    /\ Asks(c, "first")
    /\ UNCHANGED <<daemon, meta, spent>>

Spawn(c) ==
    /\ At(c, "spawn")
    /\ \E i \in Inst :
          /\ daemon[i].pc = "none"
          /\ To(i, "booting")
          /\ cmd' = [cmd EXCEPT ![c].pc = "wait", ![c].child = i]
    /\ UNCHANGED <<meta, startLock, spent>>

\* A child that has exited may have lost to another daemon; one that lives is
\* ready when the file names it and it answers.
WaitReady(c) ==
    /\ At(c, "wait")
    /\ ~Alive(cmd[c].child) \/ meta = cmd[c].child
    /\ Asks(c, "again")
    /\ UNCHANGED <<daemon, meta, startLock, spent>>

\* The deadline: the child is terminated, killed if it does not end, and its
\* file removed.
StartDeadline(c) ==
    /\ At(c, "wait")
    /\ Signaled(cmd[c].child)
    /\ Goto(c, "reap")
    /\ Spend("deadline", MaxDeadline)
    /\ UNCHANGED meta

Reap(c) ==
    /\ At(c, "reap")
    /\ IF Alive(cmd[c].child) THEN Die(cmd[c].child, "killed") ELSE UNCHANGED daemon
    /\ Goto(c, "discard")
    /\ UNCHANGED <<meta, spent>>

Discard(c) ==
    /\ At(c, "discard")
    /\ meta' = Without(cmd[c].child)
    /\ Close(c, "failed")
    /\ UNCHANGED <<daemon, spent>>

---------------------------------------------------------------------------
(* stop_daemon *)

StopLoad(c) ==
    /\ c \in Stopper /\ At(c, "idle")
    /\ IF meta \in {None, Bad}
       THEN Close(c, "stopped") /\ meta' = None
       ELSE /\ cmd' = [cmd EXCEPT ![c].pc = "judge", ![c].m = meta]
            /\ UNCHANGED <<meta, startLock>>
    /\ UNCHANGED <<daemon, spent>>

\* A process that is gone leaves a file to remove; one that does not answer as
\* itself is only watched.
StopIdentity(c) ==
    /\ At(c, "judge")
    /\ IF IdentityMatches(cmd[c].m)
       THEN Goto(c, "greet") /\ UNCHANGED meta
       ELSE Goto(c, "observe") /\ meta' = Without(cmd[c].m)
    /\ UNCHANGED <<daemon, spent>>

StopHealth(c) ==
    /\ At(c, "greet")
    /\ \/ Goto(c, IF Ready(cmd[c].m) THEN "ask" ELSE "observe") /\ UNCHANGED spent
       \/ Ready(cmd[c].m) /\ Goto(c, "observe") /\ Spend("fault", MaxFault)
    /\ UNCHANGED <<daemon, meta>>

\* The request reaches whoever answers on the port now; its answer may be lost.
RequestShutdown(c) ==
    /\ At(c, "ask")
    /\ LET m == cmd[c].m
           obeying == {x \in Answers(m) : Obeys(x, m)}
       IN /\ daemon' = [x \in Inst |-> IF x \in obeying
                           THEN [daemon[x] EXCEPT !.stop = TRUE, !.asked = @ \cup {m}]
                           ELSE daemon[x]]
          /\ \/ Goto(c, IF obeying # {} THEN "confirm" ELSE "observe") /\ UNCHANGED spent
             \/ obeying # {} /\ Goto(c, "observe") /\ Spend("fault", MaxFault)
    /\ UNCHANGED meta

\* The file is read until it is gone, names another instance or outlives its
\* process.
StopConfirm(c) ==
    /\ At(c, "confirm")
    /\ LET m == cmd[c].m IN
       CASE meta = None -> Goto(c, "leave") /\ UNCHANGED meta
         [] meta = Bad -> Close(c, "failed") /\ UNCHANGED meta
         [] meta \in Inst \ {m} -> Goto(c, "observe") /\ UNCHANGED meta
         [] OTHER -> /\ ~IdentityMatches(m)
                     /\ Goto(c, "observe")
                     /\ meta' = Without(m)
    /\ UNCHANGED <<daemon, spent>>

\* _observe_stop_transition: nothing is controlled any more.  A replacement is
\* judged and confirmed before its status is the answer.
Observe(c) ==
    /\ At(c, "observe")
    /\ meta # cmd[c].m
    /\ CASE meta = None -> Goto(c, "leave")
         [] meta = Bad -> Close(c, "stale")
         [] OTHER -> /\ cmd' = [cmd EXCEPT ![c].pc = "replaced", ![c].now = meta]
                     /\ UNCHANGED startLock
    /\ UNCHANGED <<daemon, meta, spent>>

Judged(m) == IF ~IdentityMatches(m) THEN "stale" ELSE IF Ready(m) THEN "running" ELSE "unhealthy"

ObserveReplacement(c) ==
    /\ At(c, "replaced")
    /\ CASE meta = None -> Goto(c, "leave")
         [] meta = Bad -> Close(c, "stale")
         [] meta = cmd[c].now \/ cmd[c].n + 1 >= Limit -> Close(c, Judged(meta))
         [] OTHER -> /\ cmd' = [cmd EXCEPT ![c].pc = "observe", ![c].n = @ + 1]
                     /\ UNCHANGED startLock
    /\ UNCHANGED <<daemon, meta, spent>>

\* _wait_for_expected_exit.
StopExit(c) ==
    /\ At(c, "leave")
    /\ ~IdentityMatches(cmd[c].m)
    /\ Close(c, "stopped")
    /\ UNCHANGED <<daemon, meta, spent>>

StopDeadline(c) ==
    /\ cmd[c].pc \in {"confirm", "observe", "leave"}
    /\ Close(c, "failed")
    /\ Spend("deadline", MaxDeadline)
    /\ UNCHANGED <<daemon, meta>>

---------------------------------------------------------------------------

DaemonStep(i) ==
    \/ TakeLifetime(i) \/ Build(i) \/ WriteMetadata(i) \/ StartServices(i)
    \/ LeaveLoop(i) \/ CloseServices(i) \/ RemoveOwnMetadata(i) \/ ReleaseLifetime(i)

CommandStep(c) ==
    \/ View(c) \/ LoadStatus(c) \/ StatusIdentity(c) \/ StatusHealth(c) \/ StatusUnlink(c)
    \/ LockStart(c) \/ Spawn(c) \/ WaitReady(c) \/ Reap(c) \/ Discard(c)
    \/ StopLoad(c) \/ StopIdentity(c) \/ StopHealth(c) \/ RequestShutdown(c)
    \/ StopConfirm(c) \/ Observe(c) \/ ObserveReplacement(c) \/ StopExit(c)

Next ==
    \/ \E i \in Inst : DaemonStep(i) \/ Direct(i) \/ Terminate(i) \/ Crash(i)
    \/ \E c \in Cmd : CommandStep(c) \/ StartDeadline(c) \/ StopDeadline(c)
    \/ Corrupt

Spec == Init /\ [][Next]_vars

\* Processes are scheduled; the start lock is granted to whoever waits for it.
FairSpec ==
    /\ Spec
    /\ \A i \in Inst : WF_vars(DaemonStep(i))
    /\ \A c \in Cmd : SF_vars(CommandStep(c))

---------------------------------------------------------------------------
(* Properties *)

\* Daemons and commands keep their shape, and only a start command that is not
\* finished holds the start lock.
TypeOK ==
    /\ meta \in Inst \cup {None, Bad}
    /\ \A i \in Inst :
          /\ daemon[i].pc \in {"none", "booting", "locked", "built", "published", "serving",
                               "stopping", "closed", "cleaned", "dead"}
          /\ daemon[i].port \in Port \cup {None}
    /\ \A c \in Cmd : cmd[c].m \in Inst \cup {None} /\ cmd[c].child \in Inst \cup {None}
    /\ startLock \in Starter \cup {None}
    /\ startLock # None => cmd[startLock].pc \notin {"idle", "done"}

\* A daemon that has published itself can be found until it stops: the file
\* names it, whatever commands judge, remove and replace meanwhile, and so no
\* second daemon serves beside it (acquire_daemon_lifetime_lock,
\* _remove_matching_metadata).
ServingIsPublished ==
    spent.corrupt = 0 =>
        \A i \in Inst : daemon[i].pc \in {"published", "serving"} => meta = i

\* A daemon is only shut down by a stop command that read its own metadata,
\* never by one that meets it on the port of a dead one (do_POST).
StopIsNamed ==
    \A i \in Inst : daemon[i].asked \subseteq {i}

\* stop_daemon says stopped of the instance it read only when that process has
\* ended and given its lifetime lock back.
StoppedIsGone ==
    \A c \in Stopper : cmd[c].out = "stopped" /\ cmd[c].m # None => ~Alive(cmd[c].m)

\* A start that fails leaves nothing of its own: its child has ended and the
\* metadata does not name it (_start_daemon_unlocked).
FailedStartIsClean ==
    \A c \in Starter : cmd[c].out = "failed" /\ cmd[c].child # None =>
        ~Alive(cmd[c].child) /\ meta # cmd[c].child

\* A start that has spawned its child ends with a running daemon, its own or the
\* one that child lost to, when every process keeps its time (start_daemon).
SpawnedEnds ==
    \A c \in Starter : (cmd[c].child # None) ~> (cmd[c].out = "running")
===========================================================================
