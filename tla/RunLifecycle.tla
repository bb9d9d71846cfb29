---------------------------- MODULE RunLifecycle ----------------------------
(***************************************************************************)
(* The lifecycle of the runs of one conversation thread: the Control       *)
(* store's tables, the operator's commands on them, the orchestrator's     *)
(* dispatch of an attempt to the agent runtime, the turn bridge's rescues, *)
(* and a crash and restart of the daemon.                                  *)
(*                                                                         *)
(* Each store operation is one SQLite transaction                          *)
(* (control/store.py, _transaction), hence one step.  A dispatch           *)
(* (orchestration/service.py) is a coroutine that reads, awaits and writes *)
(* again; it is one step per transaction or await.  Threads do not share   *)
(* any of this state, so one thread is modelled.                           *)
(*                                                                         *)
(* Revisions.  Every command carries the revision of the row it read and   *)
(* is refused if the row moved.  A command whose caller reads and writes   *)
(* with nothing in between is one step; the one write that uses a          *)
(* revision read before an await is pin_attempt_runtime, and `fresh'       *)
(* holds the dispatchers for which the run row has not moved since.        *)
(***************************************************************************)
EXTENDS Naturals

CONSTANTS
    Runs,               \* run ids of the thread
    Actions,            \* runtime action ids
    Dispatchers,        \* concurrent dispatch() calls
    MaxAttempts,        \* bound: attempts created
    MaxDecisions,       \* bound: decisions pending on one attempt
    MaxCrashes,         \* bound: daemon crashes
    RuntimeCheckpoints, \* whether the runtime commits checkpoints and pauses
    None

ASSUME ConstantsAssumption ==
    /\ MaxAttempts \in Nat /\ MaxDecisions \in Nat /\ MaxCrashes \in Nat
    /\ RuntimeCheckpoints \in BOOLEAN
    /\ None \notin Runs /\ None \notin Dispatchers

VARIABLES
    active,     \* threads.active_run_id
    run,        \* runs: state and active_attempt_id
    att,        \* attempts
    dec,        \* pending decisions of each attempt
    act,        \* runtime_actions
    rel,        \* runtime_pin_releases, one row per attempt
    pins,       \* attempts holding an updater pin (runtime_update/service.py)
    disp,       \* the dispatch() calls in progress
    fresh,      \* dispatchers whose reserved revision is still current
    stalling,   \* the bridge's _stalling set
    recovering, \* runs the current recovery pass has still to converge
    due,        \* the last recovery pass has not been recorded converged
    crashes

vars == <<active, run, att, dec, act, rel, pins, disp, fresh, stalling,
          recovering, due, crashes>>

store == <<active, run, att, dec, act, rel>>

-----------------------------------------------------------------------------
Attempts == 1..MaxAttempts

TERMINAL_RUN_STATES == {"completed", "failed", "canceled"}

DISPATCHABLE_RUN_STATES == {"queued", "retrying", "resuming"}

\* What a state becomes when no terminal event ever comes for it.
STALLED_TERMINALS ==
    [s \in {"cancel_requested", "pause_requested", "resuming"} |->
        IF s = "resuming" THEN "failed" ELSE "canceled"]

STALLED_STATES == DOMAIN STALLED_TERMINALS

CONVERGING_STATES == {"cancel_requested", "pause_requested"}

RunStates == {"absent", "queued", "starting", "running",
              "waiting_for_decision", "pause_requested", "paused", "resuming",
              "cancel_requested", "retrying", "failed", "completed",
              "canceled"}

RUN_TRANSITIONS ==
    [s \in RunStates |->
        CASE s = "queued"   -> {"starting", "cancel_requested", "failed"}
          [] s = "starting" -> {"running", "cancel_requested", "failed"}
          [] s = "running"  -> {"waiting_for_decision", "pause_requested",
                                "cancel_requested", "completed", "failed"}
          [] s = "waiting_for_decision" ->
                               {"resuming", "cancel_requested", "failed"}
          [] s = "pause_requested" ->
                               {"paused", "canceled", "cancel_requested",
                                "failed"}
          [] s = "paused"   -> {"cancel_requested"}
          [] s = "resuming" -> {"starting", "running", "cancel_requested",
                                "failed"}
          [] s = "cancel_requested" -> {"canceled", "failed"}
          [] s = "retrying" -> {"starting", "cancel_requested", "failed"}
          [] OTHER          -> {}]

Kinds == {"resolve", "pause", "cancel"}

\* The run state in which an action of each kind is deliverable.
ActionState ==
    [k \in Kinds |-> CASE k = "resolve" -> "resuming"
                       [] k = "pause"   -> "pause_requested"
                       [] OTHER         -> "cancel_requested"]

AttemptRecords ==
    [run      : Runs \cup {None},        \* run_id
     state    : RunStates,
     bound    : BOOLEAN,                 \* runtime_binding_id is set
     identity : BOOLEAN,                 \* exact release identity recorded
     owner    : Dispatchers \cup {None}, \* dispatch_owner
     leased   : BOOLEAN,                 \* dispatch_expires_at is ahead
     ckpt     : BOOLEAN,                 \* checkpoint_uri is set
     lineage  : SUBSET Attempts,         \* source_attempt_id, transitively
     srcCkpt  : BOOLEAN]                 \* source_checkpoint_uri is set

NewAttempt(r, s, sources, sourceCkpt) ==
    [run |-> r, state |-> s, bound |-> FALSE, identity |-> FALSE,
     owner |-> None, leased |-> FALSE, ckpt |-> FALSE, lineage |-> sources,
     srcCkpt |-> sourceCkpt]

\* out: outcome_state, with "claimed" for ready under an unexpired claim and
\* "reconcile" only under an unexpired one.  acc: the runtime accepted the
\* operation; exact: it did so under the current claim epoch.
ActionRecords ==
    {rec \in [st    : {"absent", "pending", "acked", "failed"},
              kind  : Kinds,
              att   : 0..MaxAttempts,
              out   : {"ready", "claimed", "outcome_unknown", "reconcile"},
              acc   : BOOLEAN,
              exact : BOOLEAN] : rec.st # "absent" => rec.att \in Attempts}

NewAction(kind, a) ==
    [st |-> "pending", kind |-> kind, att |-> a, out |-> "ready",
     acc |-> FALSE, exact |-> FALSE]

NoAction == [st |-> "absent", kind |-> "cancel", att |-> 0, out |-> "ready",
             acc |-> FALSE, exact |-> FALSE]

ReleaseStates == {"none", "pending", "claimed", "failed", "acked"}

\* Where a dispatch() call stands: between two of its awaits or transactions.
Phases == {"idle", "reserved", "pinned", "bound", "execute", "stream",
           "parked", "timedout"}

Idle == [pc |-> "idle", run |-> None, att |-> 0]

-----------------------------------------------------------------------------
(***************************** Reading the store ***************************)

IsActive(r, a) == run[r].active = a /\ a \in Attempts

Driven(r) == \E w \in Dispatchers : disp[w].run = r

\* The id the next inserted attempt row gets.
IsNextAttempt(a) ==
    /\ a \in Attempts /\ att[a].state = "absent"
    /\ \A b \in Attempts : b < a => att[b].state # "absent"

IsPausedSource(s) == att[s].state = "paused" /\ att[s].ckpt

HasPausedSource(a) == \E s \in att[a].lineage : IsPausedSource(s)

\* The nearest paused ancestor: a lineage only grows towards larger ids.
paused_source_attempt(s, a) ==
    /\ s \in att[a].lineage /\ IsPausedSource(s)
    /\ \A t \in att[a].lineage : IsPausedSource(t) => t <= s

Unreserved(a) == att[a].owner = None \/ ~att[a].leased

\* Mutant: the identity is validated, the transition table is not.
CanTransition_AnyTarget(r, a, s, t) == IsActive(r, a) /\ att[a].bound

\* validate_runtime_identity and the transition table.
CanTransition(r, a, s, t) ==
    /\ IsActive(r, a) /\ att[a].bound
    /\ t \in RUN_TRANSITIONS[s]

Pending(x, a) == act[x].st = "pending" /\ act[x].att = a

(************************ Pieces of store transactions *********************)

\* A written run row has a new revision.
Bump(r) == fresh' = {w \in fresh : disp[w].run # r}

fail_pending_runtime_actions(A, a) ==
    [x \in Actions |->
        IF A[x].st = "pending" /\ A[x].att = a
        THEN [A[x] EXCEPT !.st = "failed", !.out = "ready"]
        ELSE A[x]]

\* Mutant: an attempt that was never bound owes nothing.
insert_pin_release_OnlyBound(R, a) ==
    IF att[a].bound /\ R[a] = "none" THEN [R EXCEPT ![a] = "pending"] ELSE R

insert_pin_release(R, a) ==
    IF att[a].identity /\ R[a] = "none" THEN [R EXCEPT ![a] = "pending"] ELSE R

\* At most one ancestor is the paused source.
insert_paused_source_releases(R, a) ==
    [s \in Attempts |->
        IF paused_source_attempt(s, a) THEN insert_pin_release(R, s)[s]
        ELSE R[s]]

ClearActive(r) == active' = IF active = r THEN None ELSE active

\* Mutant: a run that ends leaves its decisions pending.
transition_run_KeepsDecisions(r, t, A) ==
    LET a == run[r].active IN
    /\ run' = [run EXCEPT ![r].state = t]
    /\ att' = [att EXCEPT ![a].state = t]
    /\ act' = IF t \in TERMINAL_RUN_STATES \cup {"paused"}
              THEN fail_pending_runtime_actions(A, a) ELSE A
    /\ IF t \in TERMINAL_RUN_STATES
       THEN ClearActive(r) /\ rel' = insert_pin_release(rel, a)
       ELSE UNCHANGED <<active, rel>>
    /\ Bump(r)
    /\ UNCHANGED dec

\* transition_run to a runtime-reported state t; A is the action table after
\* confirm_runtime_resume_from_event.
transition_run(r, t, A) ==
    LET a == run[r].active IN
    /\ run' = [run EXCEPT ![r].state = t]
    /\ att' = [att EXCEPT ![a].state = t]
    /\ act' = IF t \in TERMINAL_RUN_STATES \cup {"paused"}
              THEN fail_pending_runtime_actions(A, a) ELSE A
    /\ IF t \in TERMINAL_RUN_STATES
       THEN /\ ClearActive(r)
            /\ dec' = [b \in Attempts |-> IF att[b].run = r THEN 0 ELSE dec[b]]
            /\ rel' = insert_pin_release(rel, a)
       ELSE UNCHANGED <<active, dec, rel>>
    /\ Bump(r)

fail_unbound_run(r) ==
    LET a == run[r].active IN
    /\ att' = [att EXCEPT ![a].state = "failed", ![a].owner = None,
                          ![a].leased = FALSE]
    /\ \/ /\ run[r].state = "cancel_requested"
          /\ run' = [run EXCEPT ![r].state = "canceled"]
          /\ act' = fail_pending_runtime_actions(act, a)
          /\ ClearActive(r)
          /\ rel' = insert_paused_source_releases(insert_pin_release(rel, a), a)
       \/ /\ run[r].state # "cancel_requested"
          /\ \E s \in Attempts :
                /\ paused_source_attempt(s, a)
                /\ run' = [run EXCEPT ![r] = [state |-> "paused", active |-> s]]
          /\ rel' = insert_pin_release(rel, a)
          /\ UNCHANGED <<active, act>>
       \/ /\ run[r].state # "cancel_requested" /\ ~HasPausedSource(a)
          /\ run' = [run EXCEPT ![r].state = "failed"]
          /\ act' = fail_pending_runtime_actions(act, a)
          /\ ClearActive(r)
          /\ rel' = insert_pin_release(rel, a)
    /\ Bump(r)
    /\ UNCHANGED dec

\* The refusals of fail_unbound_run for a caller that read attempt a.
CanFailUnbound(r, a) ==
    /\ IsActive(r, a) /\ ~att[a].bound
    /\ run[r].state \in DISPATCHABLE_RUN_STATES \cup {"cancel_requested"}

-----------------------------------------------------------------------------
(*************************** Operator commands *****************************)

local == <<pins, disp, stalling, recovering, due, crashes>>

\* Mutant: the thread's active run is not looked at.
create_run_Unchecked(r) ==
    /\ run[r].state = "absent"
    /\ \E a \in Attempts :
          /\ IsNextAttempt(a)
          /\ run' = [run EXCEPT ![r] = [state |-> "queued", active |-> a]]
          /\ att' = [att EXCEPT ![a] = NewAttempt(r, "queued", {}, FALSE)]
    /\ active' = r
    /\ UNCHANGED <<dec, act, rel, fresh, local>>

create_run(r) ==
    /\ run[r].state = "absent"
    /\ active # None => run[active].state \in TERMINAL_RUN_STATES
    /\ \E a \in Attempts :
          /\ IsNextAttempt(a)
          /\ run' = [run EXCEPT ![r] = [state |-> "queued", active |-> a]]
          /\ att' = [att EXCEPT ![a] = NewAttempt(r, "queued", {}, FALSE)]
    /\ active' = r
    /\ UNCHANGED <<dec, act, rel, fresh, local>>

\* A settled action row is never read again, so the model reuses its id: two
\* ids are enough for any number of actions while one at most is pending.
FreeAction(x) == act[x].st # "pending"

\* An action row is inserted only for a bound attempt.
insert_control_runtime_action(A, a, kind) ==
    IF att[a].bound
    THEN \E x \in Actions : /\ FreeAction(x)
                            /\ act' = [A EXCEPT ![x] = NewAction(kind, a)]
    ELSE act' = A

request_pause(r) ==
    LET a == run[r].active IN
    /\ "pause_requested" \in RUN_TRANSITIONS[run[r].state]
    /\ run' = [run EXCEPT ![r].state = "pause_requested"]
    /\ att' = [att EXCEPT ![a].state = "pause_requested"]
    /\ insert_control_runtime_action(act, a, "pause")
    /\ Bump(r)
    /\ UNCHANGED <<active, dec, rel, local>>

\* Mutant: the cancel leaves an earlier pause or answer queued.
request_cancel_KeepsActions(r) ==
    LET a == run[r].active IN
    /\ "cancel_requested" \in RUN_TRANSITIONS[run[r].state]
    /\ run' = [run EXCEPT ![r].state = "cancel_requested"]
    /\ att' = [att EXCEPT ![a].state = "cancel_requested"]
    /\ insert_control_runtime_action(act, a, "cancel")
    /\ Bump(r)
    /\ UNCHANGED <<active, dec, rel, local>>

request_cancel(r) ==
    LET a == run[r].active IN
    /\ "cancel_requested" \in RUN_TRANSITIONS[run[r].state]
    /\ run' = [run EXCEPT ![r].state = "cancel_requested"]
    /\ att' = [att EXCEPT ![a].state = "cancel_requested"]
    /\ insert_control_runtime_action(fail_pending_runtime_actions(act, a), a,
                                     "cancel")
    /\ Bump(r)
    /\ UNCHANGED <<active, dec, rel, local>>

\* The control API's second transaction after a cancel; the Telegram command
\* has none, and a crash may fall between the two.
converge_cancellation(r) ==
    /\ run[r].state = "cancel_requested"
    /\ CanFailUnbound(r, run[r].active)
    /\ att[run[r].active].owner = None
    /\ fail_unbound_run(r)
    /\ UNCHANGED local

\* Mutant: an answered decision can be answered again.
resolve_decision_Twice(r, a) ==
    /\ att[a].run = r
    /\ run[r].state = "waiting_for_decision"
    /\ att[a].bound
    /\ dec' = [dec EXCEPT ![a] = @ - 1]
    /\ run' = [run EXCEPT ![r].state = "resuming"]
    /\ att' = [att EXCEPT ![a].state = "resuming"]
    /\ \E x \in Actions : /\ FreeAction(x)
                          /\ act' = [act EXCEPT ![x] = NewAction("resolve", a)]
    /\ Bump(r)
    /\ UNCHANGED <<active, rel, local>>

\* The decision is named by the attempt that asked it: the command does not
\* compare that attempt with the run's active one.
resolve_decision(r, a) ==
    /\ att[a].run = r /\ dec[a] > 0
    /\ run[r].state = "waiting_for_decision"
    /\ att[a].bound
    /\ dec' = [dec EXCEPT ![a] = @ - 1]
    /\ run' = [run EXCEPT ![r].state = "resuming"]
    /\ att' = [att EXCEPT ![a].state = "resuming"]
    /\ \E x \in Actions : /\ FreeAction(x)
                          /\ act' = [act EXCEPT ![x] = NewAction("resolve", a)]
    /\ Bump(r)
    /\ UNCHANGED <<active, rel, local>>

restart_attempt(r, source, target) ==
    LET p == run[r].active IN
    /\ run[r].state = source
    /\ active \in {None, r}
    /\ source = "paused" => att[p].ckpt
    /\ \E a \in Attempts :
          /\ IsNextAttempt(a)
          /\ run' = [run EXCEPT ![r] = [state |-> target, active |-> a]]
          /\ att' = [att EXCEPT ![a] =
                        NewAttempt(r, target, att[p].lineage \cup {p},
                                   att[p].ckpt \/ att[p].srcCkpt)]
    /\ act' = fail_pending_runtime_actions(act, p)
    /\ active' = r
    /\ Bump(r)
    /\ UNCHANGED <<dec, rel, local>>

resume_run(r) == restart_attempt(r, "paused", "resuming")

retry_run(r) == restart_attempt(r, "failed", "retrying")

-----------------------------------------------------------------------------
(******************* dispatch(): before the attempt is bound ****************)

\* checkpoint_source_pin: the paused source's updater pin must be held.
CheckpointSourceHeld(a) ==
    att[a].srcCkpt =>
        \E s \in Attempts : paused_source_attempt(s, a) /\ s \in pins

\* From the dispatchable read to the committed reservation; a call refused
\* here returns and leaves no trace.
reserve_attempt_dispatch(w, r) ==
    LET a == run[r].active IN
    /\ disp[w].pc = "idle" /\ recovering = {}
    /\ active = r /\ run[r].state \in DISPATCHABLE_RUN_STATES
    /\ a \in Attempts /\ CheckpointSourceHeld(a)
    /\ ~att[a].bound /\ Unreserved(a)
    /\ att' = [att EXCEPT ![a].owner = w, ![a].leased = TRUE,
                          ![a].identity = TRUE]
    /\ disp' = [disp EXCEPT ![w] = [pc |-> "reserved", run |-> r, att |-> a]]
    /\ fresh' = {v \in fresh : disp[v].run # r} \cup {w}
    /\ UNCHANGED <<active, run, dec, act, rel, pins, stalling, recovering,
                   due, crashes>>

pin_attempt(w) ==
    /\ disp[w].pc = "reserved"
    /\ pins' = pins \cup {disp[w].att}
    /\ disp' = [disp EXCEPT ![w].pc = "pinned"]
    /\ UNCHANGED <<store, fresh, stalling, recovering, due, crashes>>

\* Mutant: the loop forgets the run whose turn ended.
EndTurn_Forgets(w) ==
    /\ disp' = [disp EXCEPT ![w] = Idle]
    /\ UNCHANGED <<pins, stalling, recovering, due, crashes>>

\* The turn is over: the loop owes the run a terminal state.
EndTurn(w) ==
    /\ disp' = [disp EXCEPT ![w] = Idle]
    /\ stalling' = stalling \cup {disp[w].run}
    /\ UNCHANGED <<pins, recovering, due, crashes>>

\* converge_unbound_cancellation after an await, or any exception before the
\* binding: both write fail_unbound_run under this call's ownership.
fail_before_binding(w) ==
    LET r == disp[w].run   a == disp[w].att IN
    /\ disp[w].pc \in {"reserved", "pinned"}
    /\ IF CanFailUnbound(r, a) /\ att[a].owner = w
       THEN fail_unbound_run(r)
       ELSE UNCHANGED <<store, fresh>>
    /\ EndTurn(w)

\* Mutant: the compare-and-swap on owner, binding and revision is lost.
pin_attempt_runtime_Unfenced(w) ==
    LET r == disp[w].run   a == disp[w].att IN
    /\ disp[w].pc = "pinned"
    /\ IsActive(r, a)
    /\ att' = [att EXCEPT ![a].bound = TRUE, ![a].owner = None,
                          ![a].leased = FALSE]
    /\ rel' = insert_paused_source_releases(rel, a)
    /\ disp' = [disp EXCEPT ![w].pc = "bound"]
    /\ Bump(r)
    /\ UNCHANGED <<active, run, dec, act, pins, stalling, recovering, due,
                   crashes>>

pin_attempt_runtime(w) ==
    LET r == disp[w].run   a == disp[w].att IN
    /\ disp[w].pc = "pinned"
    /\ w \in fresh
    /\ IsActive(r, a) /\ ~att[a].bound
    /\ att[a].owner = w /\ att[a].leased
    /\ att' = [att EXCEPT ![a].bound = TRUE, ![a].owner = None,
                          ![a].leased = FALSE]
    /\ rel' = insert_paused_source_releases(rel, a)
    /\ disp' = [disp EXCEPT ![w].pc = "bound"]
    /\ Bump(r)
    /\ UNCHANGED <<active, run, dec, act, pins, stalling, recovering, due,
                   crashes>>

-----------------------------------------------------------------------------
(******************* dispatch(): from the binding to its end ****************)

Goto(w, pc) ==
    /\ disp' = [disp EXCEPT ![w].pc = pc]
    /\ UNCHANGED <<pins, stalling, recovering, due, crashes>>

\* The transition to "starting" carries no runtime event, so it needs no
\* confirmation of a resume.
start_attempt(w) ==
    LET r == disp[w].run IN
    /\ disp[w].pc = "bound"
    /\ CanTransition(r, disp[w].att, run[r].state, "starting")
    /\ transition_run(r, "starting", act)
    /\ Goto(w, "execute")

\* The except arm of dispatch() for a bound attempt: the stream raised, ended
\* without a terminal event, or carried an event the store refused.  A
\* stopped research turn ends canceled.
fail_after_binding(w) ==
    LET r == disp[w].run   a == disp[w].att IN
    /\ disp[w].pc \in {"bound", "execute", "stream", "parked"}
    /\ \/ \E t \in {"failed"} \cup
                   (IF run[r].state \in CONVERGING_STATES THEN {"canceled"}
                    ELSE {}) :
             CanTransition(r, a, run[r].state, t) /\ transition_run(r, t, act)
       \/ /\ ~CanTransition(r, a, run[r].state, "failed")
          /\ UNCHANGED <<store, fresh>>
    /\ EndTurn(w)

\* The run state a durable event of the attempt meets and the action table it
\* leaves, once the store has looked for a resume the event confirms: in
\* "resuming" it must be caused by the one pending decision.resolve, as
\* delivered under the current claim epoch, or the event is refused.
confirm_runtime_resume_from_event(r, a) ==
    {<<run[r].state, act>> : n \in IF run[r].state = "resuming" THEN {} ELSE {0}}
    \cup
    {<<"running", [act EXCEPT ![x].st = "acked", ![x].out = "ready"]>> :
        x \in {x \in Actions :
                 /\ run[r].state = "resuming"
                 /\ Pending(x, a) /\ act[x].kind = "resolve" /\ act[x].exact
                 /\ \A y \in Actions :
                       Pending(y, a) /\ act[y].kind = "resolve" => y = x}}

event_started(w) ==
    LET r == disp[w].run   a == disp[w].att IN
    /\ disp[w].pc = "execute"
    /\ \/ /\ run[r].state = "cancel_requested"
          /\ CanTransition(r, a, run[r].state, "canceled")
          /\ transition_run(r, "canceled", act)
          /\ EndTurn(w)
       \/ /\ run[r].state # "resuming"
          /\ CanTransition(r, a, run[r].state, "running")
          /\ transition_run(r, "running", act)
          /\ Goto(w, "stream")

\* record_runtime_observation, and append_runtime_message alike: the event is
\* recorded, and in "resuming" its one effect on the rows below is the resume
\* it confirms.
record_runtime_observation(r, a) ==
    /\ IsActive(r, a) /\ att[a].bound
    /\ \E c \in confirm_runtime_resume_from_event(r, a) :
          /\ run' = [run EXCEPT ![r].state = c[1]]
          /\ att' = [att EXCEPT ![a].state = c[1]]
          /\ act' = c[2]
    /\ Bump(r)
    /\ UNCHANGED <<active, dec, rel>>

\* A tool, message or rebound event.  In "running" it is only recorded and in
\* a converging state discarded.
event_progress(w) ==
    /\ disp[w].pc = "stream" /\ run[disp[w].run].state = "resuming"
    /\ record_runtime_observation(disp[w].run, disp[w].att)
    /\ UNCHANGED local

create_decision(r, a) ==
    /\ IsActive(r, a) /\ att[a].bound
    /\ dec[a] < MaxDecisions
    /\ \E c \in confirm_runtime_resume_from_event(r, a) :
          c[1] = "running" /\ act' = c[2]
    /\ run' = [run EXCEPT ![r].state = "waiting_for_decision"]
    /\ att' = [att EXCEPT ![a].state = "waiting_for_decision"]
    /\ dec' = [dec EXCEPT ![a] = @ + 1]
    /\ Bump(r)
    /\ UNCHANGED <<active, rel>>

\* A question of the worker, or the converging arm that ends the run instead.
event_decision(w) ==
    LET r == disp[w].run   a == disp[w].att IN
    /\ disp[w].pc = "stream"
    /\ \/ /\ run[r].state \in CONVERGING_STATES
          /\ CanTransition(r, a, run[r].state, "canceled")
          /\ transition_run(r, "canceled", act)
          /\ EndTurn(w)
       \/ create_decision(r, a) /\ Goto(w, "parked")

\* The worker's last word, e, and the state it takes the run to: a stop the
\* operator asked for wins over the worker's outcome.
TerminalTarget(s, e) == IF s \in CONVERGING_STATES THEN "canceled" ELSE e

event_terminal(w, e) ==
    LET r == disp[w].run   a == disp[w].att IN
    /\ disp[w].pc \in {"execute", "stream", "parked"}
    /\ e = "completed" => disp[w].pc = "stream"
    /\ \E c \in confirm_runtime_resume_from_event(r, a) :
          LET t == TerminalTarget(c[1], e) IN
          /\ CanTransition(r, a, c[1], t)
          /\ transition_run(r, t, c[2])
    /\ EndTurn(w)

\* The stream of a parked attempt ends with its decision unanswered.
stream_ends_parked(w) ==
    /\ disp[w].pc = "parked"
    /\ run[disp[w].run].state = "waiting_for_decision"
    /\ EndTurn(w)
    /\ UNCHANGED <<store, fresh>>

commit_checkpoint(w) ==
    LET r == disp[w].run   a == disp[w].att IN
    /\ RuntimeCheckpoints /\ disp[w].pc = "stream"
    /\ run[r].state \in {"running", "pause_requested"}
    /\ IsActive(r, a) /\ att[a].bound /\ ~att[a].ckpt
    /\ att' = [att EXCEPT ![a].ckpt = TRUE]
    /\ Bump(r)
    /\ UNCHANGED <<active, run, dec, act, rel, local>>

event_paused(w) ==
    LET r == disp[w].run   a == disp[w].att IN
    /\ RuntimeCheckpoints /\ disp[w].pc = "stream"
    /\ CanTransition(r, a, run[r].state, "paused") /\ att[a].ckpt
    /\ transition_run(r, "paused", act)
    /\ EndTurn(w)

-----------------------------------------------------------------------------
(**************************** The turn bridge ******************************)

\* end_converging on a bound attempt.
end_converging(r) ==
    LET s == run[r].state   a == run[r].active IN
    /\ s \in STALLED_STATES
    /\ CanTransition(r, a, s, STALLED_TERMINALS[s])
    /\ transition_run(r, STALLED_TERMINALS[s], act)

\* The hold for an answer expired, or the loop gave up on a quiet run: the
\* dispatch is cancelled and its except arm does not run.
end_quiet_after_control(w) ==
    LET r == disp[w].run IN
    /\ disp[w].pc \in {"pinned", "execute", "stream", "parked"}
    /\ \/ run[r].state = "waiting_for_decision" /\ UNCHANGED <<store, fresh>>
       \/ end_converging(r)
       \/ /\ run[r].state \in STALLED_STATES
          /\ ~att[run[r].active].bound
          /\ UNCHANGED <<store, fresh>>
    /\ EndTurn(w)

turn_timeout(w) ==
    /\ disp[w].pc \in {"pinned", "execute", "stream", "parked"}
    /\ Goto(w, "timedout")
    /\ UNCHANGED <<store, fresh>>

end_timed_out(w) ==
    LET r == disp[w].run   a == run[r].active IN
    /\ disp[w].pc = "timedout"
    /\ IF run[r].state \in {"running", "starting"} /\ att[a].bound
       THEN transition_run(r, "failed", act)
       ELSE UNCHANGED <<store, fresh>>
    /\ EndTurn(w)

\* The operator writes again on a thread whose run nothing will move.
abandon(r) ==
    LET s == run[r].state   a == run[r].active IN
    /\ active = r /\ ~Driven(r) /\ recovering = {}
    /\ \/ /\ s \in {"cancel_requested", "resuming"}
          /\ att[a].owner = None /\ end_converging(r)
          /\ UNCHANGED stalling
       \/ /\ s = "waiting_for_decision" /\ att[a].owner = None
          /\ CanTransition(r, a, s, "failed")
          /\ transition_run(r, "failed", act)
          /\ UNCHANGED stalling
       \/ \* turn_in_flight: remembered for the sweep
          /\ s \notin DISPATCHABLE_RUN_STATES \cup {"absent"}
          /\ r \notin stalling
          /\ stalling' = stalling \cup {r}
          /\ UNCHANGED <<store, fresh>>
    /\ UNCHANGED <<pins, disp, recovering, due, crashes>>

\* converge_stalled: nobody drives the run.
converge_stalled(r) ==
    LET a == run[r].active IN
    /\ ~Driven(r)
    /\ \/ /\ run[r].state = "cancel_requested"
          /\ CanFailUnbound(r, a) /\ Unreserved(a)
          /\ fail_unbound_run(r)
       \/ end_converging(r)

\* A candidate leaves the set when, and only when, it is terminal.
sweep_stalled(r) ==
    /\ r \in stalling /\ recovering = {}
    /\ \/ /\ run[r].state \in TERMINAL_RUN_STATES
          /\ stalling' = stalling \ {r}
          /\ UNCHANGED <<store, fresh>>
       \/ /\ run[r].state \in STALLED_STATES
          /\ converge_stalled(r)
          /\ UNCHANGED stalling
    /\ UNCHANGED <<pins, disp, recovering, due, crashes>>

\* The dispatch gate is shut and nothing could deliver the ending.
refuse_undriven(r) ==
    LET a == run[r].active IN
    /\ active = r /\ ~Driven(r) /\ recovering = {}
    /\ run[r].state \in DISPATCHABLE_RUN_STATES
    /\ CanFailUnbound(r, a) /\ Unreserved(a)
    /\ fail_unbound_run(r)
    /\ UNCHANGED local

-----------------------------------------------------------------------------
(************************ Runtime action delivery **************************)

Act(x, f, v) == act' = [act EXCEPT ![x][f] = v]

RunOf(x) == att[act[x].att].run

\* The live stream of the action's attempt, if there is one.
Live(x) == {w \in Dispatchers : /\ disp[w].att = act[x].att
                                /\ disp[w].pc \in {"bound", "execute",
                                                   "stream", "parked"}}

\* The turn loop offers what list_pending_runtime_actions returns.
claim_runtime_action(x) ==
    /\ act[x].st = "pending" /\ act[x].out = "ready"
    /\ IsActive(RunOf(x), act[x].att)
    /\ run[RunOf(x)].state = ActionState[act[x].kind]
    /\ Live(x) # {}
    /\ act' = [act EXCEPT ![x].out = "claimed", ![x].exact = FALSE]
    /\ UNCHANGED <<active, run, att, dec, rel, fresh, local>>

\* The runtime applies the operation once; a repeat is answered from its
\* outcome cache and keeps the epoch of the first delivery.  An answer
\* unparks the stream.
runtime_accepts(x) ==
    /\ act[x].st = "pending" /\ act[x].out = "claimed"
    /\ act' = [act EXCEPT ![x].acc = TRUE, ![x].exact = ~act[x].acc]
    /\ \E w \in Live(x) :
          /\ disp[w].pc \in {"stream", "parked"}
          /\ act[x].kind = "resolve" => disp[w].pc = "parked"
          /\ disp' = [disp EXCEPT ![w].pc =
                         IF act[x].kind = "resolve" THEN "stream" ELSE @]
    /\ UNCHANGED <<active, run, att, dec, rel, fresh, pins, stalling,
                   recovering, due, crashes>>

Claimed(x) == act[x].st = "pending" /\ act[x].out \in {"claimed", "reconcile"}

SettleAction(x, st, t) ==
    /\ act' = [act EXCEPT ![x].st = st, ![x].out = "ready"]
    /\ run' = [run EXCEPT ![RunOf(x)].state = t]
    /\ Bump(RunOf(x))
    /\ UNCHANGED <<active, dec, local>>

acknowledge_runtime_action(x) ==
    LET r == RunOf(x)   a == act[x].att
        resumed == act[x].kind = "resolve" /\ run[r].state = "resuming" IN
    /\ Claimed(x) /\ act[x].acc
    /\ IsActive(r, a) /\ att[a].bound
    /\ SettleAction(x, "acked", IF resumed THEN "running" ELSE run[r].state)
    /\ att' = IF resumed THEN [att EXCEPT ![a].state = "running"] ELSE att
    /\ UNCHANGED rel

\* Mutant: a refused pause resumes the run row and not its attempt's.
reject_runtime_action_RunOnly(x) ==
    LET r == RunOf(x)
        back == act[x].kind = "pause" /\ run[r].state = "pause_requested" IN
    /\ Claimed(x) /\ (act[x].out = "claimed" => ~act[x].acc)
    /\ SettleAction(x, "failed", IF back THEN "running" ELSE run[r].state)
    /\ UNCHANGED <<att, rel>>

\* A known refusal: of the delivery, or found by the reconciliation.
reject_runtime_action(x) ==
    LET r == RunOf(x)   a == act[x].att
        back == act[x].kind = "pause" /\ run[r].state = "pause_requested" IN
    /\ Claimed(x) /\ (act[x].out = "claimed" => ~act[x].acc)
    /\ SettleAction(x, "failed", IF back THEN "running" ELSE run[r].state)
    /\ att' = IF back THEN [att EXCEPT ![a].state = "running"] ELSE att
    /\ UNCHANGED rel

\* The answer could not be prepared: the runtime was never called.
fail_runtime_action(x) ==
    LET r == RunOf(x)   a == act[x].att IN
    /\ act[x].st = "pending" /\ act[x].out = "claimed" /\ ~act[x].acc
    /\ act[x].kind = "resolve"
    /\ act' = [act EXCEPT ![x].st = "failed", ![x].out = "ready"]
    /\ run' = [run EXCEPT ![r].state = "failed"]
    /\ att' = [att EXCEPT ![a].state = "failed"]
    /\ ClearActive(r)
    /\ rel' = insert_pin_release(rel, a)
    /\ Bump(r)
    /\ UNCHANGED <<dec, local>>

\* The actions that leave the row pending: an unknown answer, and what a
\* reconciliation concludes when the runtime did not apply the operation or
\* cannot say.
mark_runtime_action_outcome_unknown(x) ==
    /\ act[x].st = "pending" /\ act[x].out = "claimed"
    /\ Act(x, "out", "outcome_unknown") /\ Bump(RunOf(x))
    /\ UNCHANGED <<active, run, att, dec, rel, local>>

claim_runtime_action_reconciliation(x) ==
    /\ act[x].st = "pending" /\ act[x].out = "outcome_unknown"
    /\ recovering # {}
    /\ act' = [act EXCEPT ![x].out = "reconcile", ![x].exact = FALSE]
    /\ UNCHANGED <<active, run, att, dec, rel, fresh, local>>

retry_runtime_action_delivery(x) ==
    /\ act[x].st = "pending" /\ act[x].out = "reconcile" /\ ~act[x].acc
    /\ Act(x, "out", "ready") /\ Bump(RunOf(x))
    /\ UNCHANGED <<active, run, att, dec, rel, local>>

defer_runtime_action_reconciliation(x) ==
    /\ act[x].st = "pending" /\ act[x].out = "reconcile"
    /\ Act(x, "out", "outcome_unknown") /\ Bump(RunOf(x))
    /\ UNCHANGED <<active, run, att, dec, rel, local>>

-----------------------------------------------------------------------------
(***************************** Pin releases ********************************)

CanReleasePin(a) ==
    LET r == att[a].run IN
    \/ run[r].state \in TERMINAL_RUN_STATES
    \/ /\ run[r].active # a
       /\ att[a].state \in TERMINAL_RUN_STATES \cup {"paused"}

claim_pin_release(a) ==
    /\ rel[a] = "pending" /\ CanReleasePin(a)
    /\ rel' = [rel EXCEPT ![a] = "claimed"]
    /\ UNCHANGED <<active, run, att, dec, act, fresh, local>>

finish_attempt(a) ==
    /\ rel[a] = "claimed" /\ a \in pins
    /\ pins' = pins \ {a}
    /\ UNCHANGED <<store, fresh, disp, stalling, recovering, due, crashes>>

SettleRelease(a, s) ==
    /\ rel' = [rel EXCEPT ![a] = s]
    /\ Bump(att[a].run)
    /\ UNCHANGED <<active, run, att, dec, act, local>>

acknowledge_pin_release(a) ==
    rel[a] = "claimed" /\ a \notin pins /\ SettleRelease(a, "acked")

\* finish_attempt raised, or four acknowledgements lost their revision.
fail_pin_release(a) == rel[a] = "claimed" /\ SettleRelease(a, "failed")

retry_pin_release(a) == rel[a] = "failed" /\ SettleRelease(a, "pending")

-----------------------------------------------------------------------------
(************************ Leases, crash and restart ************************)

\* An expired claim is no fence: its holder is refused, the row is offered
\* again.
WithoutClaims(A) ==
    [x \in Actions |-> [A[x] EXCEPT !.out =
        IF @ = "claimed" THEN "ready"
        ELSE IF @ = "reconcile" THEN "outcome_unknown" ELSE @]]

claim_expires(x) ==
    /\ Claimed(x)
    /\ act' = [act EXCEPT ![x] = WithoutClaims(act)[x]]
    /\ UNCHANGED <<active, run, att, dec, rel, fresh, local>>

release_claim_expires(a) ==
    /\ rel[a] = "claimed"
    /\ rel' = [rel EXCEPT ![a] = "pending"]
    /\ UNCHANGED <<active, run, att, dec, act, fresh, local>>

dispatch_lease_expires(a) ==
    /\ att[a].leased
    /\ att' = [att EXCEPT ![a].leased = FALSE]
    /\ UNCHANGED <<active, run, dec, act, rel, fresh, local>>

\* The daemon dies and is started again.  What it held in memory is gone; the
\* leases it held run out on their own, and as an unexpired one only refuses
\* others, expiring them here loses no behaviour.
crash ==
    /\ crashes < MaxCrashes
    /\ crashes' = crashes + 1
    /\ disp' = [w \in Dispatchers |-> Idle]
    /\ fresh' = {} /\ stalling' = {} /\ recovering' = {} /\ due' = TRUE
    /\ att' = [a \in Attempts |-> [att[a] EXCEPT !.leased = FALSE]]
    /\ act' = WithoutClaims(act)
    /\ rel' = [a \in Attempts |->
                  IF rel[a] = "claimed" THEN "pending" ELSE rel[a]]
    /\ UNCHANGED <<active, run, dec, pins>>

\* list_recoverable_runs: a parked run waits for its operator.
Recoverable(r) ==
    run[r].state \notin TERMINAL_RUN_STATES \cup
                        {"absent", "paused", "waiting_for_decision"}

\* A recovery pass begins, between two turns.  It is repeated until one is
\* recorded converged, which a refused or deferred pass is not.
recover ==
    /\ due /\ recovering = {}
    /\ \A w \in Dispatchers : disp[w].pc = "idle"
    /\ recovering' = {r \in Runs : Recoverable(r)}
    /\ due' \in BOOLEAN
    /\ UNCHANGED <<store, fresh, pins, disp, stalling, crashes>>

Recovered(r) ==
    /\ r \in recovering
    /\ recovering' = recovering \ {r}
    /\ UNCHANGED <<disp, stalling, due, crashes>>

\* The sweep that opens a pass: what is older than the floor needs no worker.
recover_sweep(r) ==
    Recovered(r) /\ converge_stalled(r) /\ UNCHANGED pins

\* recover_startup on an unbound attempt: a cancel converges, the owner it
\* presents being the one on the row; anything else is left dispatchable with
\* the pin its identity promises.
recover_unbound(r) ==
    LET a == run[r].active IN
    /\ Recovered(r) /\ a \in Attempts /\ ~att[a].bound
    /\ \/ /\ run[r].state = "cancel_requested" /\ CanFailUnbound(r, a)
          /\ fail_unbound_run(r) /\ UNCHANGED pins
       \/ /\ run[r].state \notin TERMINAL_RUN_STATES \cup {"cancel_requested"}
          /\ pins' = IF att[a].identity THEN pins \cup {a} ELSE pins
          /\ UNCHANGED <<store, fresh>>

\* recover_startup on a bound attempt the runtime no longer executes, found
\* through the attempt's own pin.  A stopped research turn ends canceled.
recover_bound_inactive(r) ==
    LET a == run[r].active IN
    /\ Recovered(r) /\ a \in pins
    /\ \E t \in {"failed"} \cup
                 (IF run[r].state \in CONVERGING_STATES THEN {"canceled"}
                  ELSE {}) :
          CanTransition(r, a, run[r].state, t) /\ transition_run(r, t, act)
    /\ UNCHANGED pins

\* The dispatch gate is closed: an interrupted attempt is ended typed.
defer_recoverable(r) ==
    LET a == run[r].active IN
    /\ Recovered(r)
    /\ run[r].state \in {"running", "starting"}
    /\ CanTransition(r, a, run[r].state, "failed")
    /\ transition_run(r, "failed", act)
    /\ UNCHANGED pins

\* Active, unreachable or unverified: left to the operator.
recover_manual(r) == Recovered(r) /\ UNCHANGED <<store, fresh, pins>>

-----------------------------------------------------------------------------
Init ==
    /\ active = None
    /\ run = [r \in Runs |-> [state |-> "absent", active |-> 0]]
    /\ att = [a \in Attempts |-> NewAttempt(None, "absent", {}, FALSE)]
    /\ dec = [a \in Attempts |-> 0]
    /\ act = [x \in Actions |-> NoAction]
    /\ rel = [a \in Attempts |-> "none"]
    /\ pins = {} /\ fresh = {} /\ stalling = {} /\ recovering = {}
    /\ due = TRUE
    /\ disp = [w \in Dispatchers |-> Idle]
    /\ crashes = 0

Operator ==
    \E r \in Runs :
       \/ create_run(r) \/ request_pause(r) \/ request_cancel(r)
       \/ converge_cancellation(r) \/ resume_run(r) \/ retry_run(r)
       \/ \E a \in Attempts : resolve_decision(r, a)

Dispatch(w) ==
    \/ \E r \in Runs : reserve_attempt_dispatch(w, r)
    \/ pin_attempt(w) \/ fail_before_binding(w) \/ pin_attempt_runtime(w)
    \/ start_attempt(w) \/ fail_after_binding(w) \/ event_started(w)
    \/ event_progress(w) \/ event_decision(w) \/ stream_ends_parked(w)
    \/ \E e \in TERMINAL_RUN_STATES : event_terminal(w, e)
    \/ commit_checkpoint(w) \/ event_paused(w)
    \/ end_quiet_after_control(w) \/ turn_timeout(w) \/ end_timed_out(w)

Bridge == \E r \in Runs : abandon(r) \/ sweep_stalled(r) \/ refuse_undriven(r)

deliver_runtime_action(x) ==
    \/ claim_runtime_action(x) \/ runtime_accepts(x)
    \/ acknowledge_runtime_action(x) \/ reject_runtime_action(x)
    \/ fail_runtime_action(x) \/ mark_runtime_action_outcome_unknown(x)

\* It ends with an acknowledgement, a refusal, or one of these.
reconcile_runtime_action(x) ==
    \/ claim_runtime_action_reconciliation(x)
    \/ retry_runtime_action_delivery(x)
    \/ defer_runtime_action_reconciliation(x)

deliver_pending_pin_releases(a) ==
    \/ claim_pin_release(a) \/ finish_attempt(a)
    \/ acknowledge_pin_release(a) \/ fail_pin_release(a)

Delivery ==
    \E x \in Actions : \/ deliver_runtime_action(x)
                       \/ reconcile_runtime_action(x) \/ claim_expires(x)

Pins ==
    \E a \in Attempts :
       \/ deliver_pending_pin_releases(a) \/ retry_pin_release(a)
       \/ release_claim_expires(a) \/ dispatch_lease_expires(a)

Recovery ==
    \/ crash \/ recover
    \/ \E r \in Runs : \/ recover_sweep(r) \/ recover_unbound(r)
                        \/ recover_bound_inactive(r) \/ defer_recoverable(r)
                        \/ recover_manual(r)

Next ==
    \/ Operator \/ Bridge \/ Delivery \/ Pins \/ Recovery
    \/ \E w \in Dispatchers : Dispatch(w)

Spec == Init /\ [][Next]_vars

\* What the daemon's loop keeps doing: a dispatch that is not waiting goes on,
\* a turn has a deadline, a recovery pass gets to its end, and the stalled
\* sweep runs at its cadence between turns and passes, past every floor.
Fairness ==
    /\ \A w \in Dispatchers :
          /\ WF_vars(start_attempt(w) \/ fail_after_binding(w))
          /\ WF_vars(turn_timeout(w))
          /\ WF_vars(end_timed_out(w))
    /\ \A r \in Runs : WF_vars(recover_manual(r)) /\ SF_vars(sweep_stalled(r))

FairSpec == Spec /\ Fairness

-----------------------------------------------------------------------------
(******************************* Properties ********************************)

\* The tables and the daemon's memory keep their shapes.
TypeOK ==
    /\ active \in Runs \cup {None}
    /\ run \in [Runs -> [state : RunStates, active : 0..MaxAttempts]]
    /\ att \in [Attempts -> AttemptRecords]
    /\ dec \in [Attempts -> 0..MaxDecisions]
    /\ act \in [Actions -> ActionRecords]
    /\ rel \in [Attempts -> ReleaseStates]
    /\ pins \subseteq Attempts
    /\ disp \in [Dispatchers -> [pc : Phases, run : Runs \cup {None},
                                 att : 0..MaxAttempts]]
    /\ fresh \subseteq Dispatchers
    /\ stalling \subseteq Runs /\ recovering \subseteq Runs
    /\ due \in BOOLEAN
    /\ crashes \in 0..MaxCrashes

\* docs/specs/product-boundaries.md: a thread has at most one active logical
\* run.  The thread's active_run_id is exactly the run that has not ended.
OneActiveRun ==
    \A r \in Runs :
       active = r <=> run[r].state \notin TERMINAL_RUN_STATES \cup {"absent"}

\* The run row and the row of its active attempt agree, but for the attempt
\* whose dispatch failed before binding and whose run ended canceled.
AttemptTracksRun ==
    \A r \in Runs : run[r].state # "absent" =>
       LET a == run[r].active IN
       /\ a \in Attempts /\ att[a].run = r
       /\ \/ att[a].state = run[r].state
          \/ run[r].state = "canceled" /\ att[a].state = "failed" /\ ~att[a].bound

\* A queued operator action is for the run's active, bound attempt, is the
\* only one, and finds the run in the state in which it is deliverable: no
\* race of commands, events and sweeps leaves an action that nothing will
\* ever deliver or settle.
ActionMatchesState ==
    \A x \in Actions : act[x].st = "pending" =>
       /\ IsActive(RunOf(x), act[x].att) /\ att[act[x].att].bound
       /\ run[RunOf(x)].state = ActionState[act[x].kind]
       /\ \A y \in Actions : act[y].st = "pending" => y = x

\* A pending decision belongs to the active attempt of a run that is waiting
\* for it or being canceled, and a waiting run has exactly one.
DecisionOwned ==
    /\ \A a \in Attempts : dec[a] > 0 =>
          /\ IsActive(att[a].run, a)
          /\ run[att[a].run].state \in {"waiting_for_decision",
                                        "cancel_requested"}
    /\ \A r \in Runs : run[r].state = "waiting_for_decision" =>
          dec[run[r].active] = 1

\* A bound attempt that has not ended holds its updater pin: the release it
\* runs on is not retired under it.  A checkpoint that was once resumed may
\* have lost its own when its run comes back to it (PausedHoldsPin).
Checkpointed(a) == att[a].ckpt /\ att[a].state \in {"paused", "cancel_requested"}

BoundIsPinned ==
    \A r \in Runs :
       LET a == run[r].active IN
       (/\ run[r].state \notin TERMINAL_RUN_STATES \cup {"absent"}
        /\ att[a].bound /\ ~Checkpointed(a)) => a \in pins

\* No pin is lost: whoever holds one can still bind, or is bound and has not
\* ended, or a release row owes it back.
PinIsOwed ==
    \A a \in pins :
       \/ rel[a] \in {"pending", "claimed", "failed"}
       \/ /\ IsActive(att[a].run, a)
          /\ run[att[a].run].state \notin TERMINAL_RUN_STATES
       \/ att[a].state = "paused"

\* docs/specs/product-boundaries.md: a model call that may have run is never
\* repeated.  Two dispatches never hold the same bound attempt, whatever
\* leases expired and commands interleaved.
Executing(w) == disp[w].pc \in {"bound", "execute", "stream", "parked"}

AtMostOneDriver ==
    \A v, w \in Dispatchers :
       Executing(v) /\ Executing(w) /\ disp[v].att = disp[w].att => v = w

\* Runtime results are applied only to the owning attempt: a step changes the
\* durable facts of no attempt that was superseded before it.
SupersededFrozen ==
    [][\A a \in Attempts :
          (att[a].run # None /\ run[att[a].run].active # a) =>
              att'[a] = [att[a] EXCEPT !.leased = att'[a].leased]
              \/ run'[att[a].run].active = a]_vars

\* Nothing that arrives late revives an attempt that has ended: no event, no
\* operator action, no sweep and no recovery.
EndedStaysEnded ==
    [][\A a \in Attempts : att[a].state \in TERMINAL_RUN_STATES =>
          att'[a].state = att[a].state]_vars

\* Under a daemon that keeps running, a stop or an answer on a bound attempt
\* never wedges the thread: the run leaves the state, through the worker or
\* through the sweep.
StopConverges ==
    \A r \in Runs :
       (run[r].state \in STALLED_STATES /\ att[run[r].active].bound)
           ~> run[r].state \notin STALLED_STATES

\* transports/bridge.py, STALLED_TERMINALS: "telling them a turn they stopped
\* had failed, with a Retry button, is the dishonesty this family exists to
\* remove".  A run the operator stopped does not end failed.
StoppedNeverFails ==
    [][\A r \in Runs : run[r].state = "cancel_requested" =>
          run'[r].state # "failed"]_vars

\* A paused run can be resumed: the pin of the attempt that holds its
\* checkpoint, which every dispatch of a resume demands
\* ("checkpoint_source_pin_missing"), is still there.
PausedHoldsPin ==
    \A r \in Runs : run[r].state = "paused" => run[r].active \in pins
=============================================================================
