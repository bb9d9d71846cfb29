----------------------------- MODULE TurnQueue -----------------------------
(***************************************************************************)
(* The in-memory half of the inbound turn bridge (transports/bridge.py):   *)
(* the bounded queue and the two sets that guard it, filled by the         *)
(* Telegram poller and the API's threads; the loop that serves one turn at *)
(* a time; the start sweep, the re-drive of runs a worker refused, the     *)
(* sweep of stalled runs and the deferral of interrupted ones; and a crash *)
(* that forgets all of it while the store keeps the runs.                  *)
(*                                                                         *)
(* What a dispatched turn does to its run is RunLifecycle's subject: here  *)
(* a turn reserves its run, binds it and ends it or leaves it parked.  A   *)
(* step is one lock section, one store transaction or one queue operation. *)
(***************************************************************************)
EXTENDS Naturals, Sequences, FiniteSets

CONSTANTS
    Threads,        \* conversation threads and the engine's
    Machine,        \* the threads the research engine owns
    Transport,      \* the threads a transport can deliver to
    Runs,           \* run ids
    Engine,         \* the engine's own run, or None
    None,
    QUEUE_LIMIT,
    RECOVERY_ATTEMPTS,
    MaxAsks,        \* bound: messages and runs the operator asks for
    MaxFlips,       \* bound: changes of the gate, the worker and the window
    MaxErrors,      \* bound: store errors
    MaxCrashes      \* bound: crashes of the daemon

ConstantsAssumption ==
    /\ Machine \subseteq Threads /\ Transport \subseteq Threads
    /\ Engine \in Runs \cup {None} /\ None \notin Runs \cup Threads
    /\ (Engine # None) => Machine # {}
    /\ QUEUE_LIMIT \in Nat \ {0} /\ RECOVERY_ATTEMPTS \in Nat
    /\ MaxAsks \in Nat /\ MaxFlips \in Nat /\ MaxErrors \in Nat /\ MaxCrashes \in Nat

VARIABLES
    run,        \* runs and their active attempt
    gate,       \* runtime_activation: dispatch is enabled
    worker,     \* the managed worker would be acquired now
    window,     \* the transport window is open
    queue,      \* _queue: threads and, for a handover, the run named
    queued,     \* _queued
    followups,  \* _followups
    putting,    \* items entered in _queued and not yet put
    swept,      \* _swept
    redrive,    \* _redrive (its thread is the run's)
    stalling,   \* _stalling
    deferred,   \* _deferred
    recovery,   \* _recovery: state, and the budget spent
    gateSeen,   \* _gate_seen
    loop,       \* the daemon's start and the loop thread
    owed,       \* threads with a message neither taken up nor refused
    lost,       \* history: runs whose only note the bridge dropped
    left,       \* history: threads whose put was refused under a follow-up
    spare,      \* history: runs ended while their thread waited for a turn
    asks, flips, errors, crashes

mem == <<queue, queued, followups, putting, swept, redrive, stalling,
         deferred, recovery, gateSeen>>
env == <<gate, worker, window, flips>>
hist == <<lost, left, spare>>
vars == <<run, mem, env, loop, owed, hist, asks, errors, crashes>>

-----------------------------------------------------------------------------
(******************************* The store *********************************)

\* cancel_requested and resuming are stalled here; completed, failed and
\* canceled are done, but for a failure the bridge itself deferred.
States == {"none", "queued", "running", "parked", "stalled", "deferred",
           "done"}

OPEN_STATES == {"queued", "running", "parked", "stalled"}

Row(s, t) == [st |-> s, thr |-> t, bound |-> FALSE, lease |-> "none"]

\* threads.active_run_id
Active(t) == {r \in Runs : run[r].thr = t /\ run[r].st \in OPEN_STATES}

\* A run row that create_run or retry_run may open on the thread.
Free(r, t) == \/ run[r].st = "none"
              \/ run[r].st \in {"done", "deferred"} /\ run[r].thr = t

Set(r, s) == run' = [run EXCEPT ![r].st = s]

\* fail_unbound_run, apply_runtime_transition to a terminal.
Ended(r) == [run[r] EXCEPT !.st = "done", !.lease = "none"]

\* The run being dispatched is in _driving.
Driving(r) == loop.pc \in {"reserved", "driving"} /\ loop.run = r

\* The attempt is not bound, and no live lease reserves it.
Undriven(r) ==
    /\ run[r].thr \notin Machine /\ ~Driving(r)
    /\ ~run[r].bound /\ run[r].lease # "live"

\* The store could not answer.
StoreError == errors < MaxErrors /\ errors' = errors + 1

-----------------------------------------------------------------------------
(****************************** The queue **********************************)

NoItem == <<None, None>>

\* The lock section of _enqueue: a thread already queued is a follow-up for a
\* submitter and nothing for a sweep.
Enter(t, r, followup) ==
    IF t \in queued
    THEN /\ followups' = IF followup THEN followups \cup {t} ELSE followups
         /\ UNCHANGED <<queued, putting>>
    ELSE /\ queued' = queued \cup {t}
         /\ putting' = putting \cup {<<t, r>>}
         /\ UNCHANGED followups

\* The run's thread waits for a turn, or the re-drive remembers the run.
Held(r) == \/ run[r].thr \in queued \/ r \in redrive
           \/ loop.pc = "again" /\ loop.thr = run[r].thr

\* The queued runs that nothing in the bridge's memory leads to.
Unheld == {r \in Runs : run[r].st = "queued" /\ ~Held(r)}

\* put_nowait.  A full queue refuses the item, and the caller is told; the
\* loop, which submits a follow-up again, does not look at the answer.
Put(p) ==
    /\ p \in putting
    /\ putting' = putting \ {p}
    /\ IF Len(queue) < QUEUE_LIMIT
       THEN /\ queue' = Append(queue, p)
            /\ swept' = IF p[2] # None THEN swept \cup {p[2]} ELSE swept
            /\ UNCHANGED <<queued, owed, lost, left>>
       ELSE LET t == p[1]
                \* a message that was taken has lost the turn that carried it
                taken == t \in followups \/ (loop.pc = "again" /\ loop.put = p)
            IN  /\ queued' = queued \ {t}
                /\ owed' = IF taken THEN owed ELSE owed \ {t}
                /\ left' = IF taken THEN left \cup (owed \cap {t}) ELSE left
                /\ lost' = lost \cup {r \in Active(t) \ redrive : run[r].st = "queued"}
                /\ UNCHANGED <<queue, swept>>
    /\ UNCHANGED <<run, env, followups, redrive, stalling, deferred, recovery,
                   gateSeen, loop, spare, asks, errors, crashes>>

-----------------------------------------------------------------------------
(****************************** Operators **********************************)

Up == loop.pc # "down"

Asked == asks < MaxAsks /\ asks' = asks + 1

\* The Telegram adapter appends the message and calls its turn sink.
submit(t) ==
    /\ Up /\ t \in Transport /\ Asked
    /\ owed' = owed \cup {t}
    /\ Enter(t, None, TRUE)
    /\ UNCHANGED <<run, env, queue, swept, redrive, stalling, deferred,
                   recovery, gateSeen, loop, errors, crashes, hist>>

\* A message through the API joins a run in flight; on any other thread it is
\* only stored.
drive_followup(t) ==
    /\ Up /\ gate /\ t \notin Machine /\ Asked
    /\ \E r \in Active(t) : run[r].st \in {"queued", "running"}
    /\ owed' = owed \cup {t}
    /\ Enter(t, None, TRUE)
    /\ UNCHANGED <<run, env, queue, swept, redrive, stalling, deferred,
                   recovery, gateSeen, loop, errors, crashes, hist>>

\* No run is created that this daemon could not drive.
turn_refusal(t) == ~gate \/ t \in Machine

\* The run is committed; its thread is handed to the bridge.
drive(t) == Enter(t, None, TRUE)

\* The API creates or retries a run and hands its thread over.
create_run(t, r) ==
    /\ Up /\ ~turn_refusal(t) /\ Asked
    /\ Active(t) = {} /\ Free(r, t)
    /\ run' = [run EXCEPT ![r] = Row("queued", t)]
    /\ drive(t)
    /\ UNCHANGED <<env, queue, swept, redrive, stalling, deferred, recovery,
                   gateSeen, loop, owed, errors, crashes, hist>>

\* The thread was submitted as a thread, and no turn has read its run yet.
Waiting(t) ==
    \/ <<t, None>> \in putting \/ t \in followups
    \/ \E i \in 1..Len(queue) : queue[i] = <<t, None>>
    \/ loop.pc \in {"turn", "for", "again"} /\ loop.thr = t

\* The API cancels a run: what nothing reserved is canceled in the request,
\* what is parked or reserved owes a terminal.  _forget follows.  A cancel of
\* the turn in the loop's hands is RunLifecycle's.
cancel(r) ==
    /\ Up /\ run[r].thr \notin Machine /\ ~Driving(r)
    /\ run[r].st \in {"queued", "parked"}
    /\ spare' = IF Waiting(run[r].thr) THEN spare \cup {r} ELSE spare
    /\ run' = [run EXCEPT ![r] =
                 IF Undriven(r) THEN Ended(r) ELSE [@ EXCEPT !.st = "stalled"]]
    /\ redrive' = redrive \ {r}
    /\ UNCHANGED <<env, queue, queued, followups, putting, swept, stalling,
                   deferred, recovery, gateSeen, loop, owed, lost, left, asks,
                   errors, crashes>>

\* The run of the thread whose turn the closed gate has just refused.
RefusedNow == IF loop.pc = "record" /\ loop.why = "gate" THEN Active(loop.thr) ELSE {}

\* The operator closes or opens the dispatch gate, withdraws or restores what
\* the worker needs, and closes or opens the transport window.
Flip ==
    /\ flips < MaxFlips /\ flips' = flips + 1
    /\ \/ /\ gate' = ~gate
          \* opened again before the loop has seen it closed
          /\ lost' = IF gate \/ gateSeen = "closed" THEN lost
                     ELSE lost \cup Unheld \cup RefusedNow
          /\ UNCHANGED <<worker, window>>
       \/ worker' = ~worker /\ UNCHANGED <<gate, window, lost>>
       \/ window' = ~window /\ UNCHANGED <<gate, worker, lost>>
    /\ UNCHANGED <<run, mem, loop, owed, left, spare, asks, errors, crashes>>

LeaseExpires(r) ==
    /\ run[r].lease = "live" /\ ~Driving(r)
    /\ run' = [run EXCEPT ![r].lease = "expired"]
    /\ UNCHANGED <<mem, env, loop, owed, asks, errors, crashes, hist>>

-----------------------------------------------------------------------------
(******************************** The loop *********************************)

\* The loop's own put is over.
PutDone == loop.put \notin putting

Goto(pc) == loop' = [loop EXCEPT !.pc = pc, !.put = NoItem]

GateWord == IF gate THEN "open" ELSE "closed"

\* list_recoverable_runs(conversations_only)
Recoverable == {r \in Runs : /\ run[r].thr \notin Machine
                             /\ run[r].st \in {"queued", "running", "stalled"}}

\* The cadence tick: the gate's open edge sweeps once.
Tick ==
    /\ loop.pc = "tick"
    /\ \/ /\ StoreError
          /\ loop' = [loop EXCEPT !.pc = "redrive", !.todo = redrive]
          /\ UNCHANGED <<swept, gateSeen>>
       \/ /\ gate /\ gateSeen = "closed"
          /\ swept' = {} /\ gateSeen' = "open"
          /\ loop' = [loop EXCEPT !.pc = "sweep", !.todo = Recoverable,
                                  !.next = "redrive"]
          /\ UNCHANGED errors
       \/ /\ ~(gate /\ gateSeen = "closed")
          /\ gateSeen' = GateWord
          /\ loop' = [loop EXCEPT !.pc = "redrive", !.todo = redrive]
          /\ UNCHANGED <<swept, errors>>
    /\ UNCHANGED <<run, queue, queued, followups, putting, redrive, stalling,
                   deferred, recovery, env, owed, asks, crashes, hist>>

\* The tick's timer has not elapsed.
NoTick ==
    /\ loop.pc = "tick" /\ Goto("recover")
    /\ UNCHANGED <<run, mem, env, owed, asks, errors, crashes, hist>>

\* A bound run past the floor that no turn drives.
stale_converging(r) == run[r].bound /\ ~Driving(r)

\* converge_stalled: that, or a cancellation that nothing ever bound.
converge_stalled(r) ==
    run' = IF stale_converging(r) \/ Undriven(r)
           THEN [run EXCEPT ![r] = Ended(r)] ELSE run

\* One run of _sweep_undriven.
sweep_undriven(r) ==
    /\ loop.pc = "sweep" /\ PutDone /\ r \in loop.todo
    /\ IF run[r].st = "queued" /\ r \notin swept /\ Undriven(r)
       THEN /\ Enter(run[r].thr, r, FALSE)
            /\ loop' = [loop EXCEPT !.todo = @ \ {r},
                                    !.put = <<run[r].thr, r>>]
            /\ UNCHANGED run
       ELSE /\ loop' = [loop EXCEPT !.todo = @ \ {r}]
            /\ IF run[r].st = "stalled" THEN converge_stalled(r)
               ELSE UNCHANGED run
            /\ UNCHANGED <<queued, followups, putting>>
    \* a run under the lease of a dead dispatch is passed over
    /\ lost' = IF run[r].st = "queued" /\ r \notin swept
               THEN IF Undriven(r) THEN lost \ {r} ELSE lost \cup {r} ELSE lost
    /\ UNCHANGED <<queue, swept, redrive, stalling, deferred, recovery,
                   gateSeen, env, owed, left, spare, asks, errors, crashes>>

SweepDone ==
    /\ loop.pc = "sweep" /\ PutDone /\ loop.todo = {}
    /\ loop' = [loop EXCEPT !.pc = loop.next, !.put = NoItem,
                  !.todo = IF loop.next = "redrive" THEN redrive ELSE {}]
    /\ UNCHANGED <<run, mem, env, owed, asks, errors, crashes, hist>>

\* One run of _redrive_refused: read again, and handed over by its id.
redrive_refused(r) ==
    /\ loop.pc = "redrive" /\ PutDone /\ r \in loop.todo
    /\ \/ /\ \/ StoreError /\ lost' = lost \cup {r}
             \/ run[r].st # "queued" /\ UNCHANGED <<errors, lost>>
          /\ redrive' = redrive \ {r}
          /\ loop' = [loop EXCEPT !.todo = @ \ {r}]
          /\ UNCHANGED <<queued, followups, putting>>
       \/ /\ run[r].st = "queued" /\ r \in Active(run[r].thr)
          /\ Enter(run[r].thr, r, FALSE)
          /\ loop' = [loop EXCEPT !.todo = @ \ {r},
                                  !.put = <<run[r].thr, r>>]
          /\ UNCHANGED <<redrive, errors, lost>>
    /\ UNCHANGED <<run, queue, swept, stalling, deferred, recovery, gateSeen,
                   env, owed, left, spare, asks, crashes>>

RedriveDone ==
    /\ loop.pc = "redrive" /\ PutDone /\ loop.todo = {}
    /\ loop' = [loop EXCEPT !.pc = "stalled", !.todo = stalling,
                            !.put = NoItem]
    /\ UNCHANGED <<run, mem, env, owed, asks, errors, crashes, hist>>

\* One run of _sweep_stalled: only a terminal leaves the watch list.
sweep_stalled(r) ==
    /\ loop.pc = "stalled" /\ r \in loop.todo
    /\ stalling' = IF run[r].st \in {"done", "deferred"} THEN stalling \ {r}
                   ELSE stalling
    /\ IF run[r].st = "stalled" THEN converge_stalled(r) ELSE UNCHANGED run
    /\ loop' = [loop EXCEPT !.todo = @ \ {r}]
    /\ UNCHANGED <<queue, queued, followups, putting, swept, redrive, deferred,
                   recovery, gateSeen, env, owed, asks, errors, crashes, hist>>

StalledDone ==
    /\ loop.pc = "stalled" /\ loop.todo = {} /\ Goto("recover")
    /\ UNCHANGED <<run, mem, env, owed, asks, errors, crashes, hist>>

-----------------------------------------------------------------------------
(******************************* Recovery **********************************)

\* recover() is called by the daemon before the loop starts, and by the loop
\* until it is recorded converged: without end while it waits on the operator,
\* RECOVERY_ATTEMPTS times otherwise.
recover ==
    /\ \/ loop.pc = "start" /\ UNCHANGED recovery
       \/ /\ loop.pc = "recover"
          /\ \/ recovery.st \in {"deferred", "refused"} /\ UNCHANGED recovery
             \/ /\ recovery.st = "failed"
                /\ recovery.attempts < RECOVERY_ATTEMPTS
                /\ recovery' = [recovery EXCEPT !.attempts = @ + 1]
    /\ \/ /\ StoreError
          /\ loop' = [loop EXCEPT !.pc = "sweep", !.todo = {},
                                  !.next = "factory"]
          /\ lost' = lost \cup Unheld
          /\ UNCHANGED swept
       \/ /\ loop' = [loop EXCEPT !.pc = "sweep", !.todo = Recoverable,
                                  !.next = "factory"]
          /\ swept' = swept \cap Recoverable
          /\ UNCHANGED <<errors, lost>>
    /\ UNCHANGED <<run, queue, queued, followups, putting, redrive, stalling,
                   deferred, gateSeen, env, owed, left, spare, asks, crashes>>

NoRecovery ==
    /\ loop.pc = "recover" /\ Goto("get")
    /\ UNCHANGED <<run, mem, env, owed, asks, errors, crashes, hist>>

\* The daemon starts the loop after its own recover(); the loop reads the gate
\* first.
AfterRecovery == IF loop.started THEN "get" ELSE "serve"

Serve ==
    /\ loop.pc = "serve"
    /\ gateSeen' = GateWord
    /\ loop' = [loop EXCEPT !.pc = "tick", !.started = TRUE]
    /\ UNCHANGED <<run, queue, queued, followups, putting, swept, redrive,
                   stalling, deferred, recovery, env, owed, asks, errors,
                   crashes, hist>>

\* The window is shut: each interrupted bound attempt is ended typed and
\* remembered.
defer_recoverable ==
    LET interrupted == {r \in Recoverable : run[r].st = "running"} IN
    /\ loop.pc = "factory" /\ ~window
    /\ run' = [r \in Runs |-> IF r \in interrupted
                              THEN [Ended(r) EXCEPT !.st = "deferred"]
                              ELSE run[r]]
    /\ deferred' = deferred \cup interrupted
    /\ recovery' = [recovery EXCEPT
                      !.st = IF deferred' = {} THEN "converged" ELSE "deferred"]
    /\ Goto(AfterRecovery)
    /\ UNCHANGED <<queue, queued, followups, putting, swept, redrive, stalling,
                   gateSeen, env, owed, asks, errors, crashes, hist>>

\* The worker is refused, or recover_startup raises.
RecoveryFails ==
    /\ loop.pc = "factory" /\ window
    /\ \/ /\ ~worker /\ UNCHANGED errors
          /\ recovery' = [recovery EXCEPT !.st = "refused"]
       \/ worker /\ StoreError /\ recovery' = [recovery EXCEPT !.st = "failed"]
    /\ Goto(AfterRecovery)
    /\ UNCHANGED <<run, queue, queued, followups, putting, swept, redrive,
                   stalling, deferred, gateSeen, env, owed, asks, crashes, hist>>

\* recover_startup ends the bound attempts no worker executes.  An unbound one
\* is found dispatchable and left as it is.
recover_startup ==
    /\ loop.pc = "factory" /\ window /\ worker
    /\ run' = [r \in Runs |->
                 IF /\ r \in Recoverable
                    /\ run[r].bound \/ run[r].st = "stalled"
                 THEN Ended(r) ELSE run[r]]
    /\ loop' = [loop EXCEPT !.pc = "resume", !.todo = deferred]
    /\ UNCHANGED <<mem, env, owed, asks, errors, crashes, hist>>

\* One run of _resume_deferred: forgotten, retried if it can be, submitted.
resume_deferred(r) ==
    /\ loop.pc = "resume" /\ PutDone /\ r \in loop.todo
    /\ deferred' = deferred \ {r}
    /\ \/ /\ run[r].st = "deferred" /\ Active(run[r].thr) = {}
          /\ run' = [run EXCEPT ![r] = Row("queued", run[r].thr)]
          /\ Enter(run[r].thr, None, TRUE)
          /\ loop' = [loop EXCEPT !.todo = @ \ {r},
                                  !.put = <<run[r].thr, None>>]
          /\ UNCHANGED errors
       \/ /\ \/ run[r].st # "deferred" /\ UNCHANGED errors
             \/ Active(run[r].thr) # {} /\ UNCHANGED errors
             \/ StoreError
          /\ run' = IF run[r].st = "deferred" THEN [run EXCEPT ![r].st = "done"]
                    ELSE run
          /\ loop' = [loop EXCEPT !.todo = @ \ {r}]
          /\ UNCHANGED <<queued, followups, putting>>
    /\ UNCHANGED <<queue, swept, redrive, stalling, recovery, gateSeen, env,
                   owed, asks, crashes, hist>>

ResumeDone ==
    /\ loop.pc = "resume" /\ PutDone /\ loop.todo = {}
    /\ recovery' = [recovery EXCEPT !.st = "converged"]
    /\ Goto(AfterRecovery)
    /\ UNCHANGED <<run, queue, queued, followups, putting, swept, redrive,
                   stalling, deferred, gateSeen, env, owed, asks, errors,
                   crashes, hist>>

-----------------------------------------------------------------------------
(******************************** A turn ***********************************)

Get ==
    /\ loop.pc = "get"
    /\ IF queue = <<>> THEN Goto("tick") /\ UNCHANGED <<queue, owed, left>>
       ELSE /\ queue' = Tail(queue)
            /\ owed' = owed \ {Head(queue)[1]}
            /\ left' = left \ {Head(queue)[1]}
            /\ loop' = [loop EXCEPT !.pc = "turn", !.put = NoItem,
                          !.thr = Head(queue)[1], !.exp = Head(queue)[2]]
    /\ UNCHANGED <<run, queued, followups, putting, swept, redrive, stalling,
                   deferred, recovery, gateSeen, env, lost, spare, asks, errors,
                   crashes>>

\* The turn's TurnOutcome: its run if it names one, and who refused it.
Outcome(r, why) == loop' = [loop EXCEPT !.pc = "record", !.run = r, !.why = why]

\* _run_turn asks the gate first.  Closed, it names the thread's undriven run
\* and ends it where nothing could deliver the ending.
refuse_undriven ==
    LET named == {r \in Active(loop.thr) :
                    run[r].st = "queued" /\ Undriven(r)} IN
    /\ loop.pc = "turn" /\ ~gate
    /\ IF named = {} THEN Outcome(None, "gate") /\ UNCHANGED <<run, spare>>
       ELSE \E r \in named :
              /\ Outcome(r, "gate")
              /\ IF loop.thr \in Transport THEN UNCHANGED <<run, spare>>
                 ELSE /\ run' = [run EXCEPT ![r] = Ended(r)]
                      /\ spare' = IF loop.thr \in followups THEN spare \cup {r}
                                  ELSE spare
    /\ UNCHANGED <<mem, env, owed, lost, left, asks, errors, crashes>>

GateOpen ==
    /\ loop.pc = "turn" /\ gate
    /\ loop' = [loop EXCEPT !.pc = "for"]
    /\ UNCHANGED <<run, mem, env, owed, asks, errors, crashes, hist>>

\* A store error in the gate's read or in _run_for ends the turn unnamed.
TurnError ==
    /\ loop.pc \in {"turn", "for"} /\ StoreError
    /\ Outcome(None, IF loop.pc = "for" THEN "worker" ELSE "failed")
    /\ lost' = lost \cup {r \in Active(loop.thr) : run[r].st = "queued"}
    /\ UNCHANGED <<run, mem, env, owed, left, spare, asks, crashes>>

\* A run a message may end: bound, unreserved, and stuck.  A handover is not
\* the operator writing.
Abandonable(r) ==
    /\ loop.exp = None /\ run[r].st \in {"parked", "stalled"}
    /\ run[r].bound /\ run[r].lease = "none"

\* The active run is driven only if it is the one a handover names and a
\* conversation's.
run_for ==
    LET a == Active(loop.thr) IN
    /\ loop.pc = "for"
    /\ \/ /\ \/ loop.exp # None /\ loop.exp \notin a
             \/ loop.thr \in Machine
          /\ Outcome(None, "other") /\ UNCHANGED run
       \/ /\ loop.exp = None /\ a = {} /\ loop.thr \notin Machine
          /\ \E r \in Runs :
                /\ run[r].st = "none"
                /\ run' = [run EXCEPT ![r] = Row("queued", loop.thr)]
                /\ loop' = [loop EXCEPT !.pc = "acquire", !.run = r]
       \/ /\ loop.thr \notin Machine
          /\ \E r \in a :
                /\ loop.exp \in {None, r} /\ run[r].st = "queued"
                /\ loop' = [loop EXCEPT !.pc = "acquire", !.run = r]
          /\ UNCHANGED run
       \/ /\ loop.thr \notin Machine
          /\ \E r \in a :
                /\ loop.exp \in {None, r} /\ run[r].st # "queued"
                /\ ~Abandonable(r)
                /\ Outcome(r, "other")
          /\ UNCHANGED run
    /\ UNCHANGED <<mem, env, owed, asks, errors, crashes, hist>>

\* A message to a thread whose bound run nothing will move ends that run, and
\* asks again.
abandon(r) ==
    /\ loop.pc = "for" /\ r \in Active(loop.thr) /\ Abandonable(r)
    /\ run' = [run EXCEPT ![r] = Ended(r)]
    /\ UNCHANGED <<loop, mem, env, owed, asks, errors, crashes, hist>>

\* The orchestrator is built over the worker, or the worker refuses.
Acquire ==
    /\ loop.pc = "acquire"
    /\ IF ~worker THEN Outcome(loop.run, "worker") /\ UNCHANGED run
       ELSE IF run[loop.run].st = "queued"
       THEN /\ run' = [run EXCEPT ![loop.run].lease = "live"]
            /\ loop' = [loop EXCEPT !.pc = "reserved"]
       ELSE Outcome(loop.run, "other") /\ UNCHANGED run
    /\ UNCHANGED <<mem, env, owed, asks, errors, crashes, hist>>

\* The dispatch binds the attempt, which drops the lease.
Bind ==
    /\ loop.pc = "reserved"
    /\ run' = [run EXCEPT ![loop.run].st = "running", ![loop.run].bound = TRUE,
                          ![loop.run].lease = "none"]
    /\ loop' = [loop EXCEPT !.pc = "driving"]
    /\ UNCHANGED <<mem, env, owed, asks, errors, crashes, hist>>

\* The turn ends its run, or gives up waiting on its decision.
EndTurn ==
    /\ loop.pc = "driving"
    /\ \E s \in {"done", "parked"} : Set(loop.run, s)
    /\ Outcome(loop.run, "other")
    /\ UNCHANGED <<mem, env, owed, asks, errors, crashes, hist>>

\* Mutant of record: a run the worker refused is not remembered.
record_NoRedrive ==
    /\ loop.pc = "record"
    /\ queued' = queued \ {loop.thr} /\ followups' = followups \ {loop.thr}
    /\ loop' = [loop EXCEPT !.run = None, !.exp = None, !.why = "none",
                  !.pc = IF loop.thr \in followups THEN "again" ELSE "tick"]
    /\ UNCHANGED <<run, queue, putting, swept, redrive, stalling, deferred,
                   recovery, gateSeen, env, owed, asks, errors, crashes, hist>>

\* The lock section after a turn.
record ==
    LET r == loop.run
        again == IF r # None /\ loop.why = "worker" THEN redrive \cup {r}
                 ELSE redrive \ {r} IN
    /\ loop.pc = "record"
    /\ stalling' = IF r # None THEN stalling \cup {r} ELSE stalling
    /\ queued' = queued \ {loop.thr}
    /\ followups' = followups \ {loop.thr}
    /\ swept' = IF loop.why = "worker" THEN swept \ {r} ELSE swept
    \* any other run of the thread is stale
    /\ redrive' = {x \in again : run[x].thr = loop.thr => x = r}
    /\ loop' = [loop EXCEPT !.run = None, !.exp = None, !.why = "none",
                  !.pc = IF loop.thr \in followups THEN "again" ELSE "tick"]
    /\ lost' = lost \ redrive'
    /\ UNCHANGED <<run, queue, putting, deferred, recovery, gateSeen, env,
                   owed, left, spare, asks, errors, crashes>>

\* A follow-up is submitted as a message is.
Again ==
    /\ loop.pc = "again" /\ loop.put = NoItem
    /\ Enter(loop.thr, None, TRUE)
    /\ loop' = [loop EXCEPT !.put = <<loop.thr, None>>]
    /\ UNCHANGED <<run, queue, swept, redrive, stalling, deferred, recovery,
                   gateSeen, env, owed, asks, errors, crashes, hist>>

AgainDone ==
    /\ loop.pc = "again" /\ loop.put # NoItem /\ PutDone
    /\ loop' = [loop EXCEPT !.pc = "tick", !.put = NoItem, !.thr = None]
    /\ UNCHANGED <<run, mem, env, owed, asks, errors, crashes, hist>>

-----------------------------------------------------------------------------
(************************** Crash and restart ******************************)

Start == [pc |-> "start", started |-> FALSE, thr |-> None, exp |-> None,
          run |-> None, why |-> "none", todo |-> {}, next |-> "none",
          put |-> NoItem]

Fresh ==
    /\ queue' = <<>> /\ queued' = {} /\ followups' = {} /\ putting' = {}
    /\ swept' = {} /\ redrive' = {} /\ stalling' = {} /\ deferred' = {}
    /\ recovery' = [st |-> "not_attempted", attempts |-> 0]
    /\ gateSeen' = "unknown"

\* The store keeps the runs.  A message no run was opened for is not asked
\* for again: the operator's next one is.
Crash ==
    /\ Up /\ crashes < MaxCrashes /\ crashes' = crashes + 1
    /\ loop' = [Start EXCEPT !.pc = "down"] /\ Fresh
    /\ owed' = {} /\ lost' = {} /\ left' = {}
    /\ run' = [r \in Runs |-> IF run[r].st = "deferred"
                              THEN [run[r] EXCEPT !.st = "done"] ELSE run[r]]
    /\ UNCHANGED <<env, spare, asks, errors>>

Restart ==
    /\ loop.pc = "down"
    /\ loop' = Start
    /\ UNCHANGED <<run, mem, env, owed, asks, errors, crashes, hist>>

-----------------------------------------------------------------------------
Init ==
    /\ run = [r \in Runs |->
                IF r = Engine THEN Row("queued", CHOOSE t \in Machine : TRUE)
                ELSE Row("none", None)]
    /\ gate \in BOOLEAN /\ worker \in BOOLEAN /\ window \in BOOLEAN
    /\ queue = <<>> /\ queued = {} /\ followups = {} /\ putting = {}
    /\ swept = {} /\ redrive = {} /\ stalling = {} /\ deferred = {}
    /\ recovery = [st |-> "not_attempted", attempts |-> 0]
    /\ gateSeen = "unknown" /\ loop = Start /\ owed = {}
    /\ lost = {} /\ left = {} /\ spare = {}
    /\ asks = 0 /\ flips = 0 /\ errors = 0 /\ crashes = 0

Operator ==
    \/ \E t \in Threads : \/ submit(t) \/ drive_followup(t)
                           \/ \E r \in Runs : create_run(t, r)
    \/ \E r \in Runs : cancel(r)
    \/ Flip

Loop ==
    \/ Tick \/ NoTick \/ SweepDone \/ RedriveDone \/ StalledDone
    \/ recover \/ NoRecovery \/ Serve \/ defer_recoverable
    \/ RecoveryFails \/ recover_startup \/ ResumeDone
    \/ Get \/ refuse_undriven \/ GateOpen \/ TurnError \/ run_for
    \/ Acquire \/ Bind \/ EndTurn \/ record \/ Again \/ AgainDone
    \/ \E r \in Runs : \/ sweep_undriven(r) \/ redrive_refused(r)
                        \/ sweep_stalled(r) \/ resume_deferred(r)
                        \/ abandon(r)

Next ==
    \/ Operator \/ Loop
    \/ \E p \in putting : Put(p)
    \/ \E r \in Runs : LeaseExpires(r)
    \/ Crash \/ Restart

Spec == Init /\ [][Next]_vars

\* The threads run, the loop's timers elapse, a lease ends, and a supervisor
\* starts the daemon again.
FairSpec ==
    /\ Spec
    /\ WF_vars(Loop)
    /\ \A p \in Threads \X (Runs \cup {None}) : WF_vars(Put(p))
    /\ SF_vars(Tick) /\ SF_vars(recover)
    /\ WF_vars(\E r \in Runs : LeaseExpires(r)) /\ WF_vars(Restart)

-----------------------------------------------------------------------------
(****************************** Properties *********************************)

Items == Runs \cup {None}

TypeOK ==
    /\ run \in [Runs -> [st : States, thr : Threads \cup {None},
                         bound : BOOLEAN, lease : {"none", "live", "expired"}]]
    /\ \A i \in 1..Len(queue) : queue[i] \in Threads \X Items
    /\ Len(queue) =< QUEUE_LIMIT
    /\ putting \subseteq Threads \X Items
    /\ queued \subseteq Threads /\ followups \subseteq Threads
    /\ swept \cup redrive \cup stalling \cup deferred \cup lost \cup spare
         \subseteq Runs
    /\ owed \cup left \subseteq Threads
    \* a thread has one open run
    /\ \A t \in Threads : Cardinality(Active(t)) =< 1

\* The thread the loop is serving.
Serving == IF loop.pc \in {"turn", "for", "acquire", "reserved", "driving",
                           "record"} THEN {loop.thr} ELSE {}

\* A thread is queued, being put, or served at most once, and _queued names
\* exactly those: two turns over one history never wait together.
QueueOnce ==
    LET waiting == {i \in 1..Len(queue) : TRUE} IN
    /\ queued = {queue[i][1] : i \in waiting} \cup {p[1] : p \in putting}
                 \cup Serving
    /\ Cardinality(queued) = Len(queue) + Cardinality(putting)
                              + Cardinality(Serving)

\* A message that submit took -- queued, or remembered as a follow-up -- is
\* held by the queue or by a turn that will submit it again, or had joined a
\* turn that the full queue then turned away: nobody is told, and it waits for
\* the next message of its thread (_enqueue; the loop's own submit).
MessageHeld ==
    \A t \in owed : \/ t \in queued
                    \/ loop.pc = "again" /\ loop.thr = t
                    \/ t \in left

\* No turn is started that nobody asked for: the re-drive and the sweeps,
\* tick after tick, never open a run.  Only where a run is ended while its
\* thread waits for another turn, by a cancel or by the closed gate, does that
\* turn open another one over the same message.
RunsAreAsked ==
    Cardinality({r \in Runs \ {Engine} : run[r].st # "none"})
        =< asks + Cardinality(spare)

\* The engine's run is neither driven nor ended from here.
EngineUntouched ==
    Engine # None => run'[Engine] = run[Engine]

\* A run the bridge refused to drive stays in its memory while it stands:
\* every queued conversation run is in the queue, in a turn, in the re-drive,
\* or waits for the gate or for recovery.  The notes are lost by five events
\* only, which put a run into lost: a full queue, a store error in its turn, in
\* its re-drive or in the start sweep, the lease of a dead dispatch, and a gate
\* that closes and opens between two looks; a restart forgets no run.
StandingIsKnown ==
    \A r \in Runs :
       (/\ run[r].st = "queued" /\ run[r].thr \notin Machine
        /\ loop.started /\ recovery.st = "converged")
       => \/ Held(r)
          \/ r \in loop.todo /\ loop.pc = "sweep"
          \/ gateSeen = "closed" \/ ~gate
          \/ r \in lost
=============================================================================
