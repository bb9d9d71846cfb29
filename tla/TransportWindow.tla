--------------------------- MODULE TransportWindow ---------------------------
(***************************************************************************)
(* A transport window: the durable decisions an operator's CLI writes      *)
(* (control/store.py), and the daemon that follows them                    *)
(* (transports/managed_worker.py): the supervisor's tick, the inbound      *)
(* poller threads (worker_rpc.py), and the one managed worker process, in  *)
(* whose environment the bot token is bound when the gate is open at       *)
(* launch.  Turns share the worker and need no window.                     *)
(*                                                                         *)
(* The supervisor's lock is held in every state of `sup.pc' but "idle",    *)
(* except while the close-window request has it; the worker's lock is held *)
(* by whoever is between the launch policy of acquire() and the launch.    *)
(***************************************************************************)
EXTENDS Naturals, FiniteSets, FiniteSetsExt

CONSTANTS
    MaxWindows,     \* bound: windows opened
    Threads,        \* poller thread objects; a finished one is used again
    MaxCloses,      \* bound: close-window requests
    MaxRestarts,    \* MAX_POLLER_RESTARTS
    MaxFailures,    \* bound: pollers that fail, workers that crash
    MaxLateJoins,   \* bound: joins that time out before the thread ends
    MaxCloseErrors, \* bound: backend.close() calls that raise
    MaxKills        \* bound: deaths of the daemon

WindowAssumption ==
    /\ MaxWindows \in Nat \ {0} /\ MaxRestarts \in Nat /\ MaxFailures \in Nat
    /\ MaxLateJoins \in Nat /\ MaxCloseErrors \in Nat /\ MaxKills \in Nat
    /\ MaxCloses \in Nat
    /\ IsFiniteSet(Threads) /\ Threads \subseteq Nat \ {0}

VARIABLES
    open,       \* the window in force, 0 for none
    opened,     \* windows opened so far: their ids are 1 .. opened
    audit,      \* what the audit says of each window's end
    approved,   \* the active release is approved
    worker,     \* ManagedTransportWorker
    orphans,    \* windows whose token an unowned process still holds
    thread,     \* the poller threads
    outcomes,   \* the last outcome a poller thread reported
    sup,        \* TransportWindowSupervisor
    close,      \* the close-window request in progress
    turn,       \* a turn asking for the backend
    failures, lateJoins, closeErrors, kills

gate == <<open, opened, audit, approved>>
bounds == <<failures, lateJoins, closeErrors, kills>>
vars == <<open, opened, audit, approved, worker, orphans, thread, outcomes, sup,
          close, turn, failures, lateJoins, closeErrors, kills>>

Windows == 1 .. MaxWindows

(* own: _backend is set; flag: _launched_windowed; alive: the process runs *)
(* with the token of window `token' (0: none); proof: _last_release; lock: *)
(* who is inside acquire().                                                *)
Free == <<"free", 0>>
Turn == <<"turn", 0>>
Who(t) == <<"poller", t>>

NoWorker == [own |-> FALSE, flag |-> FALSE, alive |-> FALSE, token |-> 0,
             proof |-> "none", lock |-> Free]
Unwatched == [pc |-> "idle", seen |-> 0, win |-> 0, poller |-> 0, restarts |-> 0]
NoClose == [pc |-> "idle", win |-> 0, proof |-> "none", asked |-> 0]

Init ==
    /\ open = 0 /\ opened = 0 /\ approved = TRUE
    /\ audit = [w \in Windows |-> "none"]
    /\ worker = NoWorker /\ orphans = {}
    /\ thread = [t \in Threads |-> "none"]
    /\ outcomes = "none"
    /\ sup = Unwatched /\ close = NoClose /\ turn = "idle"
    /\ failures = 0 /\ lateJoins = 0 /\ closeErrors = 0 /\ kills = 0

-----------------------------------------------------------------------------
(* The durable decisions, written by a CLI in another process.             *)

(* enable_transport_activation: the new decision supersedes the last.      *)
EnableWindow ==
    /\ opened < MaxWindows
    /\ opened' = opened + 1 /\ open' = opened + 1
    /\ UNCHANGED <<audit, approved, worker, orphans, thread, outcomes, sup, close,
                   turn, bounds>>

(* disable_transport_activation, or the stored expiry passes.              *)
EndWindow ==
    /\ open # 0 /\ open' = 0
    /\ UNCHANGED <<opened, audit, approved, worker, orphans, thread, outcomes, sup,
                   close, turn, bounds>>

(* The operator revokes the release, or approves it again.                 *)
Reapprove ==
    /\ failures < MaxFailures /\ failures' = failures + 1
    /\ approved' = ~approved
    /\ UNCHANGED <<open, opened, audit, worker, orphans, thread, outcomes, sup, close,
                   turn, lateJoins, closeErrors, kills>>

-----------------------------------------------------------------------------
(* The managed worker.                                                     *)

WorkerFree == worker.lock = Free

(* The proofs a release can return.                                        *)
Nothing == "nothing_held_the_token"
Released == "released"

(* _release_locked.  Without an owned backend the remembered proof, or the *)
(* one that nothing was launched, is returned.  A worker launched outside  *)
(* a window is closed before it is disowned; any other is disowned before  *)
(* it is closed, so a close() that raises leaves a process nothing owns.   *)
ReleasedWorker(w, tokenHoldersOnly) ==
    LET kept == IF w.proof = "none" THEN Nothing ELSE w.proof
    IN  [w EXCEPT !.own = FALSE, !.alive = FALSE, !.token = 0,
            !.proof = IF ~w.own \/ (tokenHoldersOnly /\ ~w.flag) THEN kept ELSE Released]

CloseRaised(w, tokenHoldersOnly) ==
    IF tokenHoldersOnly /\ ~w.flag THEN w
    ELSE [w EXCEPT !.own = FALSE, !.alive = FALSE, !.token = 0]

CanRaise(w) == w.own /\ w.alive /\ closeErrors < MaxCloseErrors

(* What a raising close leaves running without an owner.                   *)
Orphaned(w, tokenHoldersOnly) ==
    IF (tokenHoldersOnly /\ ~w.flag) \/ w.token = 0 THEN orphans
    ELSE orphans \union {w.token}

ReleaseRaises(tokenHoldersOnly) ==
    /\ CanRaise(worker) /\ closeErrors' = closeErrors + 1
    /\ worker' = CloseRaised(worker, tokenHoldersOnly)
    /\ orphans' = Orphaned(worker, tokenHoldersOnly)

(* A worker that holds no token is not the one a window's frame needs.     *)
Tokenless == worker.own /\ ~worker.flag

(* acquire(), up to the creation of the backend: gate, approval, and the   *)
(* closing of a worker that holds no token when a frame needs one.         *)
LaunchPolicy(who, required) ==
    /\ WorkerFree
    /\ required => open # 0
    /\ approved
    /\ LET base == IF required /\ Tokenless
                   THEN [ReleasedWorker(worker, FALSE) EXCEPT !.proof = "none"]
                   ELSE worker
       IN  worker' = IF base.own THEN [base EXCEPT !.lock = who]
                     ELSE [base EXCEPT !.own = TRUE, !.flag = (open # 0), !.lock = who]
    /\ UNCHANGED <<orphans, closeErrors>>

(* acquire() ends without a worker: a revoked release closes the worker    *)
(* and refuses, or a close it makes raises.                                *)
AcquireFails(required) ==
    /\ WorkerFree
    /\ required => open # 0
    /\ \/ ~approved /\ worker' = ReleasedWorker(worker, FALSE)
          /\ UNCHANGED <<orphans, closeErrors>>
       \/ (~approved \/ (required /\ Tokenless)) /\ ReleaseRaises(FALSE)

(* backend.worker(): a process that is not running is launched with the    *)
(* environment of the gate as it is now (_environment).                    *)
Launch(who) ==
    /\ worker.lock = who
    /\ worker' = [worker EXCEPT !.lock = Free, !.alive = TRUE,
                     !.token = IF worker.alive THEN @ ELSE open]
    /\ UNCHANGED <<orphans, closeErrors>>

TurnAcquires ==
    /\ turn = "idle"
    /\ \/ LaunchPolicy(Turn, FALSE) /\ turn' = "launch"
       \/ AcquireFails(FALSE) /\ UNCHANGED turn
    /\ UNCHANGED <<gate, thread, outcomes, sup, close, failures, lateJoins, kills>>

TurnLaunches ==
    /\ turn = "launch" /\ Launch(Turn) /\ turn' = "idle"
    /\ UNCHANGED <<gate, thread, outcomes, sup, close, failures, lateJoins, kills>>

(* The worker process dies; the backend object stays and relaunches it.    *)
WorkerCrashes ==
    /\ worker.alive /\ failures < MaxFailures
    /\ failures' = failures + 1
    /\ worker' = [worker EXCEPT !.alive = FALSE, !.token = 0]
    /\ UNCHANGED <<gate, orphans, thread, outcomes, sup, close, turn, lateJoins,
                   closeErrors, kills>>

-----------------------------------------------------------------------------
(* The inbound poller (TelegramInboundPoller.run).                         *)

EndThread(t, outcome) ==
    /\ thread' = [thread EXCEPT ![t] = "done"]
    /\ outcomes' = outcome

(* One iteration: asked to stop, gate closed, or a poll frame through the  *)
(* worker.                                                                 *)
PollerLooks(t) ==
    /\ \/ thread[t] = "stopping" /\ EndThread(t, "stopped")
       \/ thread[t] = "running" /\ open = 0 /\ EndThread(t, "gate_closed")
    /\ UNCHANGED <<gate, worker, orphans, sup, close, turn, bounds>>

PollerAcquires(t) ==
    /\ thread[t] = "running"
    /\ \/ LaunchPolicy(Who(t), TRUE) /\ thread' = [thread EXCEPT ![t] = "launch"]
       \/ AcquireFails(TRUE) /\ UNCHANGED thread
    /\ UNCHANGED <<gate, outcomes, sup, close, turn, failures, lateJoins, kills>>

(* The stop event may be set while the frame is under way.                 *)
PollerLaunches(t) ==
    /\ thread[t] \in {"launch", "launch_stopping"}
    /\ Launch(Who(t))
    /\ thread' = [thread EXCEPT ![t] =
                    IF @ = "launch" THEN "running" ELSE "stopping"]
    /\ UNCHANGED <<gate, outcomes, sup, close, turn, failures, lateJoins, kills>>

(* Too many consecutive failures (a refused release is one).               *)
PollerFails(t) ==
    /\ thread[t] \in {"running", "stopping"} /\ failures < MaxFailures
    /\ failures' = failures + 1
    /\ EndThread(t, "failed")
    /\ UNCHANGED <<gate, worker, orphans, sup, close, turn, lateJoins, closeErrors,
                   kills>>

-----------------------------------------------------------------------------
(* The supervisor's tick (reconcile) and the close-window request.         *)

SupLocked == sup.pc \notin {"idle", "read"} \/ close.pc = "join"

StopThread(t) ==
    thread' = [thread EXCEPT ![t] = CASE @ = "running" -> "stopping"
                                      [] @ = "launch" -> "launch_stopping"
                                      [] OTHER -> @]

FreeThread(t) == t = Min({u \in Threads : thread[u] \in {"none", "done"}})

Ended(t) == t = 0 \/ (t # 0 /\ thread[t] = "done")

(* The decision is read before the lock is taken.                          *)
TickReads ==
    /\ sup.pc = "idle"
    /\ sup' = [sup EXCEPT !.pc = "read", !.seen = open]
    /\ UNCHANGED <<gate, worker, orphans, thread, outcomes, close, turn, bounds>>

(* The window changed: the old poller is told to stop, or there was none.  *)
TickChanges ==
    /\ sup.pc = "read" /\ ~SupLocked
    /\ sup.seen # sup.win
    /\ IF sup.win # 0 /\ sup.poller # 0
       THEN StopThread(sup.poller) ELSE UNCHANGED thread
    /\ sup' = [sup EXCEPT !.pc = IF sup.win # 0 THEN "join" ELSE "enter"]
    /\ UNCHANGED <<gate, worker, orphans, outcomes, close, turn, bounds>>

TickJoins ==
    /\ sup.pc = "join"
    /\ \/ Ended(sup.poller) /\ UNCHANGED lateJoins
       \/ ~Ended(sup.poller) /\ lateJoins < MaxLateJoins /\ lateJoins' = lateJoins + 1
    /\ sup' = [sup EXCEPT !.pc = IF sup.seen = 0 THEN "release" ELSE "enter",
                          !.poller = 0]
    /\ UNCHANGED <<gate, worker, orphans, thread, outcomes, close, turn, failures,
                   closeErrors, kills>>

(* _release_worker_locked: a release that raises is swallowed.             *)
TickReleases ==
    /\ sup.pc = "release" /\ WorkerFree
    /\ \/ /\ worker' = ReleasedWorker(worker, TRUE)
          /\ UNCHANGED <<orphans, closeErrors>>
       \/ ReleaseRaises(TRUE)
    /\ sup' = [sup EXCEPT !.pc = "enter"]
    /\ UNCHANGED <<gate, thread, outcomes, close, turn, failures, lateJoins, kills>>

(* The new state: for a window, begin_window closes a worker without the   *)
(* token, the old proof is forgotten, and a poller is started; a close     *)
(* that raises ends the tick with the window already noted.                *)
TickEnters ==
    /\ sup.pc = "enter"
    /\ \/ /\ sup.seen = 0
          /\ sup' = [sup EXCEPT !.pc = "idle", !.win = 0, !.restarts = 0]
          /\ UNCHANGED <<worker, orphans, thread, closeErrors>>
       \/ /\ sup.seen # 0 /\ WorkerFree
          /\ worker' = [(IF Tokenless THEN ReleasedWorker(worker, FALSE) ELSE worker)
                           EXCEPT !.proof = "none"]
          /\ \E t \in Threads :
                /\ FreeThread(t)
                /\ thread' = [thread EXCEPT ![t] = "running"]
                /\ sup' = [sup EXCEPT !.pc = "idle", !.win = sup.seen, !.restarts = 0,
                                      !.poller = t]
          /\ UNCHANGED <<orphans, closeErrors>>
       \/ /\ sup.seen # 0 /\ WorkerFree /\ Tokenless
          /\ ReleaseRaises(FALSE)
          /\ sup' = [sup EXCEPT !.pc = "idle", !.win = sup.seen, !.restarts = 0]
          /\ UNCHANGED thread
    /\ UNCHANGED <<gate, outcomes, close, turn, failures, lateJoins, kills>>

(* Whether an ended poller is one to start again (_recover_poller_locked). *)
NeedsRestart ==
    /\ Ended(sup.poller)
    /\ outcomes \notin {"stopped", "gate_closed", "none"}
    /\ sup.restarts < MaxRestarts

TickRecovers ==
    /\ sup.pc = "read" /\ ~SupLocked
    /\ sup.seen = sup.win
    /\ IF sup.seen # 0 /\ NeedsRestart
       THEN \E t \in Threads :
               /\ FreeThread(t)
               /\ thread' = [thread EXCEPT ![t] = "running"]
               /\ sup' = [sup EXCEPT !.pc = "idle", !.restarts = @ + 1, !.poller = t]
       ELSE sup' = [sup EXCEPT !.pc = "idle"] /\ UNCHANGED thread
    /\ UNCHANGED <<gate, worker, orphans, outcomes, close, turn, bounds>>

(* close_window: every refusal comes first; then the poller is stopped.    *)
CloseStarts(w) ==
    /\ close.pc = "idle" /\ w <= opened /\ close.asked < MaxCloses
    /\ open = 0
    /\ close' = [pc |-> "stop", win |-> w, proof |-> "none", asked |-> close.asked + 1]
    /\ UNCHANGED <<gate, worker, orphans, thread, outcomes, sup, turn, bounds>>

CloseStops ==
    /\ close.pc = "stop" /\ ~SupLocked
    /\ IF sup.poller # 0 THEN StopThread(sup.poller) ELSE UNCHANGED thread
    /\ close' = [close EXCEPT !.pc = "join"]
    /\ UNCHANGED <<gate, worker, orphans, outcomes, sup, turn, bounds>>

CloseJoins ==
    /\ close.pc = "join"
    /\ \/ Ended(sup.poller) /\ UNCHANGED lateJoins
       \/ ~Ended(sup.poller) /\ lateJoins < MaxLateJoins /\ lateJoins' = lateJoins + 1
    /\ sup' = [sup EXCEPT !.poller = 0, !.win = IF @ = close.win THEN 0 ELSE @]
    /\ close' = [close EXCEPT !.pc = "release"]
    /\ UNCHANGED <<gate, worker, orphans, thread, outcomes, turn, failures, closeErrors,
                   kills>>

CloseReleases ==
    /\ close.pc = "release" /\ WorkerFree
    /\ \/ /\ worker' = ReleasedWorker(worker, TRUE)
          /\ close' = [close EXCEPT !.pc = "record", !.proof = worker'.proof]
          /\ UNCHANGED <<orphans, closeErrors>>
       \/ /\ ReleaseRaises(TRUE)
          /\ close' = [NoClose EXCEPT !.asked = close.asked]
    /\ UNCHANGED <<gate, thread, outcomes, sup, turn, failures, lateJoins, kills>>

(* record_transport_window_closed, refused while this window is in force.  *)
CloseRecords ==
    /\ close.pc = "record"
    /\ audit' = IF open = close.win THEN audit
                ELSE [audit EXCEPT ![close.win] = close.proof]
    /\ close' = [NoClose EXCEPT !.asked = close.asked]
    /\ UNCHANGED <<open, opened, approved, worker, orphans, thread, outcomes, sup, turn,
                   bounds>>

(* The daemon dies and a new one starts: every window without an audit row *)
(* is aborted, and one still in force is disabled first.  Worker processes *)
(* end when their daemon does.                                             *)
Restart ==
    /\ kills < MaxKills /\ kills' = kills + 1
    /\ audit' = [w \in Windows |-> IF w <= opened /\ audit[w] = "none"
                                   THEN "aborted" ELSE audit[w]]
    /\ open' = IF open # 0 /\ audit[open] = "none" THEN 0 ELSE open
    /\ worker' = NoWorker /\ orphans' = {}
    /\ thread' = [t \in Threads |-> "none"]
    /\ outcomes' = "none"
    /\ sup' = Unwatched
    /\ close' = [NoClose EXCEPT !.asked = close.asked] /\ turn' = "idle"
    /\ UNCHANGED <<opened, approved, failures, lateJoins, closeErrors>>

Tick ==
    TickReads \/ TickChanges \/ TickJoins \/ TickReleases \/ TickEnters \/ TickRecovers

Poller(t) == PollerLooks(t) \/ PollerAcquires(t) \/ PollerLaunches(t)

CloseRequest == CloseStops \/ CloseJoins \/ CloseReleases \/ CloseRecords

Next ==
    \/ EnableWindow \/ EndWindow \/ Reapprove
    \/ TurnAcquires \/ TurnLaunches \/ WorkerCrashes
    \/ \E t \in Threads : Poller(t) \/ PollerFails(t)
    \/ Tick \/ CloseRequest \/ Restart
    \/ \E w \in Windows : CloseStarts(w)

Spec == Init /\ [][Next]_vars

(* The watch loop ticks every second, threads run, and an API request that *)
(* was started is finished.                                                *)
FairSpec ==
    /\ Spec
    /\ WF_vars(Tick) /\ SF_vars(TickChanges) /\ SF_vars(TickReleases)
    /\ SF_vars(TickEnters)
    /\ WF_vars(TurnLaunches) /\ WF_vars(CloseRequest) /\ SF_vars(CloseReleases)
    /\ \A t \in Threads : WF_vars(PollerLooks(t)) /\ WF_vars(PollerLaunches(t))

-----------------------------------------------------------------------------
(* Properties.                                                             *)

TypeOK ==
    /\ open \in 0 .. opened /\ opened \in 0 .. MaxWindows
    /\ audit \in [Windows -> {"none", "aborted", Nothing, Released}]
    /\ worker.token \in 0 .. MaxWindows /\ orphans \subseteq Windows
    /\ worker.alive => worker.own
    /\ \A t \in Threads : thread[t] \in
          {"none", "running", "stopping", "launch", "launch_stopping", "done"}
    /\ sup.restarts \in 0 .. MaxRestarts

(* The windows whose token some process still holds.                       *)
Holders == orphans \union (IF worker.alive /\ worker.token # 0 THEN {worker.token} ELSE {})

(* The audit row of a closed window is evidence: whatever proof it records *)
(* (both kinds say the poller is stopped), no process holds that window's  *)
(* token any more (managed_worker.py release, _release_locked).            *)
ClosedMeansReleased ==
    \A w \in Windows : audit[w] \in {Nothing, Released} => w \notin Holders

(* At most one poller thread is inside the loop, and none serves a window  *)
(* that the supervisor has left.                                           *)
OnePoller ==
    \A t, u \in Threads :
        thread[t] \in {"running", "launch"} /\ thread[u] \in {"running", "launch"}
        => t = u /\ t = sup.poller

(* A window the supervisor was serving ends: the worker it leaves behind   *)
(* gives up that window's token, unless a new window is in force.          *)
SeenWindowReleased ==
    \A w \in Windows :
        (sup.win = w /\ open # w) ~> (w \notin Holders \/ open # 0)

(* "A window that is still in force must still have a poller"              *)
(* (_recover_poller_locked), until the restarts of the window are used up. *)
PollerKept ==
    (open # 0) ~>
        \/ open = 0 \/ sup.restarts = MaxRestarts
        \/ sup.poller # 0 /\ (sup.poller # 0 => thread[sup.poller] # "done")
=============================================================================
