--------------------------- MODULE ManagedChannel ---------------------------
(***************************************************************************)
(* The channel between the daemon and its managed worker                   *)
(* (runtime_update/supervisor.py, WorkerSupervisorV2) and the backend that *)
(* launches the worker, runs turns over it and delivers actions to them    *)
(* (runtime/managed_hermes.py).                                            *)
(*                                                                         *)
(* The threads of the daemon (one per run, one per delivery of an action)  *)
(* write requests to the worker's stdin and wait, each for its own bound;  *)
(* one reader thread takes every frame the worker writes and hands replies *)
(* to waiters and events to the inbox of their turn.  The worker           *)
(* (serve.py, turn.py) answers requests in order, while the thread of its  *)
(* one open turn emits events.  It keeps to the protocol; it may die.      *)
(*                                                                         *)
(* An attempt runs one turn, so it stands for its operation id and no      *)
(* operation is met twice (WorkerLedger has the worker's duplicates).  The *)
(* deliveries are those of one action on the attempt Target; a delivery is *)
(* its epoch.  Everything happens within one relaunch window.              *)
(***************************************************************************)
EXTENDS Integers, Sequences, FiniteSets

CONSTANTS
    Attempt,      \* attempts, one turn each
    Target,       \* the attempt the action is about
    Kind,         \* the action: "cancel" or "resolve"
    MaxEpoch,     \* bound: deliveries of the action
    Asks,         \* turns ask for a decision
    MaxBeat,      \* bound: heartbeats
    MaxTimeout,   \* bound: requests that time out and turns that fall silent
    MaxDeath,     \* bound: deaths of a worker
    MaxBroken,    \* bound: launches that fail
    Budget,       \* MAX_CHANNEL_RELAUNCHES
    Memory        \* LATE_FRAME_MEMORY

ConstantsAssumption ==
    /\ Target \in Attempt
    /\ Kind \in {"cancel", "resolve"}
    /\ Asks \in BOOLEAN
    /\ {MaxEpoch, MaxBeat, MaxTimeout, MaxDeath, MaxBroken} \subseteq Nat
    /\ {Budget, Memory} \subseteq Nat \ {0}

Delivery == 1..MaxEpoch
Caller == Attempt \cup Delivery

VARIABLES
    sup,       \* the supervisor the backend holds
    wire,      \* the two pipes of its process
    w,         \* the worker process
    slot,      \* what each caller's request has come to
    run,       \* the run threads
    exec,      \* the backend's executions
    deliver,   \* the threads that deliver the action
    action,    \* the remembered outcome of the action
    applied,   \* attempts the worker has applied the action to
    spent      \* budgets used

vars == <<sup, wire, w, slot, run, exec, deliver, action, applied, spent>>

None == "none"

\* A new supervisor.  A run thread keeps the inbox it reads.
NewSup(n, inbox) == [n |-> n, held |-> TRUE, failed |-> FALSE, pend |-> {},
                     late |-> <<>>, turns |-> {}, retired |-> <<>>,
                     expect |-> [a \in Attempt |-> 0], inbox |-> inbox]
NoSup(n, inbox) == [NewSup(n, inbox) EXCEPT !.held = FALSE]

EmptyWire == [in |-> <<>>, out |-> <<>>]

\* A fresh process; the operations its ledger holds outlive it.
NewWorker(up, ledger) ==
    [up |-> up, turn |-> None, st |-> "none", canceled |-> FALSE,
     asked |-> FALSE, choice |-> FALSE, seq |-> 0, ledger |-> ledger]

NoExec == [open |-> FALSE, op |-> FALSE, cancel |-> FALSE]

NoAction == [epoch |-> 0, status |-> None]

Init ==
    /\ sup = NoSup(0, [a \in Attempt |-> <<>>])
    /\ wire = EmptyWire
    /\ w = NewWorker(FALSE, {})
    /\ slot = [c \in Caller |-> None]
    /\ run = [a \in Attempt |-> [pc |-> "idle", sup |-> 0, res |-> None]]
    /\ exec = [a \in Attempt |-> NoExec]
    /\ deliver = [d \in Delivery |-> [pc |-> "idle", sup |-> 0, status |-> None, early |-> FALSE,
                                      beside |-> {}]]
    /\ action = NoAction
    /\ applied = {}
    /\ spent = [beat |-> 0, timeout |-> 0, death |-> 0, broken |-> 0,
                relaunch |-> 0, launch |-> 0]

-----------------------------------------------------------------------------
(* The channel *)

\* A request; its tag tells the requests of one caller apart.
Request(c, m, a, tag) == [by |-> c, method |-> m, op |-> a, tag |-> tag]
Reply(r, v) == [kind |-> "reply", req |-> r, val |-> v, op |-> None, seq |-> 0]
Event(a, n, v) == [kind |-> "event", req |-> None, val |-> v, op |-> a, seq |-> n]

\* The supervisor a caller holds still takes requests.
Alive(n) == sup.held /\ sup.n = n /\ w.up
Takes(n) == Alive(n) /\ ~sup.failed

\* A bounded memory, oldest first.
Remembering(memory, x) ==
    LET s == Append(SelectSeq(memory, LAMBDA y : y # x), x)
    IN  IF Len(s) > Memory THEN Tail(s) ELSE s

Remembered(memory, x) == \E n \in DOMAIN memory : memory[n] = x

\* request(): the waiter is registered before the frame is written.
Send(c, r) ==
    /\ sup' = [sup EXCEPT !.pend = @ \cup {r}]
    /\ wire' = [wire EXCEPT !.in = Append(@, r)]
    /\ slot' = [slot EXCEPT ![c] = "waiting"]

\* _fail: the reason is sticky and every waiter is released.
Failed(s) == [s EXCEPT !.failed = TRUE, !.pend = {}]
Released == [c \in Caller |-> IF \E r \in sup.pend : r.by = c THEN "crashed" ELSE slot[c]]

\* A reply nobody waits for is dropped if it is a late one; any other ends the
\* channel.
RouteReply(f) ==
    IF f.req \in sup.pend
    THEN /\ sup' = [sup EXCEPT !.pend = @ \ {f.req}]
         /\ slot' = [slot EXCEPT ![f.req.by] = f.val]
    ELSE IF Remembered(sup.late, f.req)
    THEN /\ sup' = [sup EXCEPT !.late = SelectSeq(@, LAMBDA y : y # f.req)]
         /\ UNCHANGED slot
    ELSE /\ sup' = Failed(sup)
         /\ slot' = Released

\* An event of a closed turn is dropped; an event that is not its turn's next
\* one, or of no turn, ends the channel.
RouteEvent(f) ==
    IF f.op \in sup.turns /\ f.seq = sup.expect[f.op]
    THEN /\ sup' = [sup EXCEPT !.expect[f.op] = @ + 1,
                               !.inbox[f.op] = Append(@, f.val)]
         /\ UNCHANGED slot
    ELSE IF f.op \notin sup.turns /\ Remembered(sup.retired, f.op)
    THEN UNCHANGED <<sup, slot>>
    ELSE /\ sup' = Failed(sup)
         /\ slot' = Released

\* The reader takes the next frame.
ReadFrame ==
    /\ sup.held /\ ~sup.failed
    /\ wire.out # <<>>
    /\ LET f == Head(wire.out)
       IN  IF f.kind = "reply" THEN RouteReply(f) ELSE RouteEvent(f)
    /\ wire' = [wire EXCEPT !.out = Tail(@)]
    /\ UNCHANGED <<w, run, exec, deliver, action, applied, spent>>

\* The stream has ended.
ReadEnd ==
    /\ sup.held /\ ~sup.failed
    /\ ~w.up /\ wire.out = <<>>
    /\ sup' = Failed(sup)
    /\ slot' = Released
    /\ UNCHANGED <<wire, w, run, exec, deliver, action, applied, spent>>

\* The request a caller is waiting for.
Outstanding(c) ==
    IF c \in Delivery THEN Request(c, Kind, Target, "action")
    ELSE CASE run[c].pc = "wait" -> Request(c, "begin", c, "begin")
           [] run[c].pc = "abandoned" -> Request(c, "cancel", c, "abandon")
           [] run[c].pc = "stopped" -> Request(c, "cancel", c, "stop")

SupOf(c) == IF c \in Delivery THEN deliver[c].sup ELSE run[c].sup

\* Mutant of TimesOut: the request is not remembered.
TimesOut_Forgets(c) ==
    /\ slot[c] \notin {None, "timeout", "crashed"}
    /\ sup.n = SupOf(c)
    /\ spent.timeout < MaxTimeout
    /\ sup' = [sup EXCEPT !.pend = @ \ {Outstanding(c)}]
    /\ slot' = [slot EXCEPT ![c] = IF w.up THEN "timeout" ELSE "crashed"]
    /\ spent' = [spent EXCEPT !.timeout = @ + 1]
    /\ UNCHANGED <<wire, w, run, exec, deliver, action, applied>>

\* A wait runs out.  The reply may be handed over before the waiter gets the
\* lock: it is a time-out all the same.  With the process gone it is a crash.
TimesOut(c) ==
    /\ slot[c] \notin {None, "timeout", "crashed"}
    /\ sup.n = SupOf(c)
    /\ spent.timeout < MaxTimeout
    /\ sup' = [sup EXCEPT !.pend = @ \ {Outstanding(c)},
                          !.late = Remembering(@, Outstanding(c))]
    /\ slot' = [slot EXCEPT ![c] = IF w.up THEN "timeout" ELSE "crashed"]
    /\ spent' = [spent EXCEPT !.timeout = @ + 1]
    /\ UNCHANGED <<wire, w, run, exec, deliver, action, applied>>

\* close_turn, as an effect on the supervisor.
Closed(s, a) ==
    IF a \in s.turns
    THEN [s EXCEPT !.turns = @ \ {a}, !.retired = Remembering(@, a)]
    ELSE s

-----------------------------------------------------------------------------
(* The worker *)

\* What the request loop makes of a request: the worker after it and the reply.
Handled(r) ==
    CASE r.method = "begin" ->
            IF w.turn # None /\ w.st # "done"
            THEN [w |-> w, val |-> "conflict"]
            ELSE [w |-> [NewWorker(TRUE, w.ledger \cup {r.op})
                            EXCEPT !.turn = r.op, !.st = "run"],
                  val |-> "ok"]
      [] w.turn # r.op -> [w |-> w, val |-> "unknown"]
      [] r.method = "cancel" -> [w |-> [w EXCEPT !.canceled = TRUE], val |-> "ok"]
      [] r.method = "resolve" ->
            IF w.asked THEN [w |-> [w EXCEPT !.choice = TRUE], val |-> "ok"]
                       ELSE [w |-> w, val |-> "undelivered"]

HandleRequest ==
    /\ w.up /\ wire.in # <<>>
    /\ LET r == Head(wire.in)
           h == Handled(r)
       IN  /\ w' = h.w
           /\ wire' = [wire EXCEPT !.in = Tail(@), !.out = Append(@, Reply(r, h.val))]
           /\ applied' = IF h.val = "ok" /\ r.method # "begin" /\ r.by \in Delivery
                         THEN applied \cup {r.op} ELSE applied
    /\ UNCHANGED <<sup, slot, run, exec, deliver, action, spent>>

\* An event takes its number where it is written.
Emit(v) == wire' = [wire EXCEPT !.out = Append(@, Event(w.turn, w.seq, v))]

Beat ==
    /\ w.up /\ w.st \in {"run", "parked"}
    /\ spent.beat < MaxBeat
    /\ Emit("beat")
    /\ w' = [w EXCEPT !.seq = @ + 1]
    /\ spent' = [spent EXCEPT !.beat = @ + 1]
    /\ UNCHANGED <<sup, slot, run, exec, deliver, action, applied>>

AskDecision ==
    /\ w.up /\ w.st = "run" /\ Asks
    /\ Emit("decision")
    /\ w' = [w EXCEPT !.st = "parked", !.asked = TRUE, !.seq = @ + 1]
    /\ UNCHANGED <<sup, slot, run, exec, deliver, action, applied, spent>>

\* The runner has returned: the turn's result is fixed.
Conclude ==
    /\ w.up
    /\ \/ w.st = "run" /\ (Asks => w.canceled)
       \/ w.st = "parked" /\ (w.choice \/ w.canceled)
    /\ w' = [w EXCEPT !.st = IF w.canceled THEN "canceled" ELSE "concluded"]
    /\ UNCHANGED <<sup, wire, slot, run, exec, deliver, action, applied, spent>>

Finish ==
    /\ w.up /\ w.st \in {"concluded", "canceled"}
    /\ Emit(IF w.st = "canceled" THEN "canceled" ELSE "finish")
    /\ w' = [w EXCEPT !.st = "done", !.seq = @ + 1]
    /\ UNCHANGED <<sup, slot, run, exec, deliver, action, applied, spent>>

Die ==
    /\ w.up
    /\ spent.death < MaxDeath
    /\ w' = NewWorker(FALSE, w.ledger)
    /\ wire' = [wire EXCEPT !.in = <<>>]
    /\ spent' = [spent EXCEPT !.death = @ + 1]
    /\ UNCHANGED <<sup, slot, run, exec, deliver, action, applied>>

-----------------------------------------------------------------------------
(* The backend: launches *)

Serving == sup.held /\ w.up /\ ~sup.failed

BudgetSpent == spent.relaunch >= Budget

\* _launch, under the backend's lock: a serving supervisor is handed back, any
\* other is closed first; a launch costs a relaunch only if there was one.
Launched(ok) ==
    \/ /\ Serving /\ ok
       /\ UNCHANGED <<sup, wire, w, slot, spent>>
    \/ /\ ~Serving
       /\ wire' = EmptyWire
       /\ slot' = Released
       /\ LET counted == [spent EXCEPT !.relaunch = @ + (IF sup.held THEN 1 ELSE 0),
                                       !.launch = @ + 1]
          IN  \/ /\ BudgetSpent /\ ~ok
                 /\ sup' = NoSup(sup.n, sup.inbox)
                 /\ w' = NewWorker(FALSE, w.ledger)
                 /\ UNCHANGED spent
              \/ /\ ~BudgetSpent /\ ok
                 /\ sup' = NewSup(sup.n + 1, sup.inbox)
                 /\ w' = NewWorker(TRUE, w.ledger)
                 /\ spent' = counted
              \/ /\ ~BudgetSpent /\ ~ok
                 /\ spent.broken < MaxBroken
                 /\ sup' = NoSup(sup.n, sup.inbox)
                 /\ w' = NewWorker(FALSE, w.ledger)
                 /\ spent' = [counted EXCEPT !.broken = @ + 1]

-----------------------------------------------------------------------------
(* The backend: runs *)

Goes(a, pc) == run' = [run EXCEPT ![a].pc = pc]
Ends(a, res, pc) == run' = [run EXCEPT ![a].pc = pc,
                                       ![a].res = IF @ = None THEN res ELSE @]
Taken(c) == slot' = [slot EXCEPT ![c] = None]

Reserve(a) ==
    /\ run[a].pc = "idle"
    /\ exec' = [exec EXCEPT ![a] = [NoExec EXCEPT !.open = TRUE]]
    /\ Goes(a, "entry")
    /\ UNCHANGED <<sup, wire, w, slot, deliver, action, applied, spent>>

\* run() entered, and the same look again right before the turn is opened.
Entry(a) ==
    /\ run[a].pc = "entry"
    /\ IF exec[a].cancel
       THEN exec' = [exec EXCEPT ![a] = NoExec] /\ Ends(a, "canceled", "release")
       ELSE UNCHANGED exec /\ Goes(a, "launch")
    /\ UNCHANGED <<sup, wire, w, slot, deliver, action, applied, spent>>

LaunchRun(a) ==
    /\ run[a].pc = "launch"
    /\ \E ok \in BOOLEAN :
          /\ Launched(ok)
          /\ IF ok THEN run' = [run EXCEPT ![a].pc = "check", ![a].sup = sup'.n]
                   ELSE Ends(a, "unavailable", "release")
    /\ UNCHANGED <<exec, deliver, action, applied>>

Check(a) ==
    /\ run[a].pc = "check"
    /\ IF ~exec[a].open \/ exec[a].cancel
       THEN exec' = [exec EXCEPT ![a] = NoExec] /\ Ends(a, "canceled", "release")
       ELSE exec' = [exec EXCEPT ![a].op = TRUE] /\ Goes(a, "begin")
    /\ UNCHANGED <<sup, wire, w, slot, deliver, action, applied, spent>>

\* begin_turn: the inbox is registered before the request is written.
BeginTurn(a) ==
    /\ run[a].pc = "begin"
    /\ IF Takes(run[a].sup)
       THEN /\ sup' = [sup EXCEPT !.turns = @ \cup {a},
                                  !.pend = @ \cup {Request(a, "begin", a, "begin")}]
            /\ wire' = [wire EXCEPT !.in = Append(@, Request(a, "begin", a, "begin"))]
            /\ slot' = [slot EXCEPT ![a] = "waiting"]
            /\ Goes(a, "wait")
            /\ UNCHANGED exec
       ELSE /\ exec' = [exec EXCEPT ![a] = IF Alive(run[a].sup) THEN @ ELSE NoExec]
            /\ Ends(a, "unavailable", "release")
            /\ UNCHANGED <<sup, wire, slot>>
    /\ UNCHANGED <<w, deliver, action, applied, spent>>

AwaitBegin(a) ==
    /\ run[a].pc = "wait" /\ slot[a] \notin {None, "waiting"}
    /\ Taken(a)
    /\ IF slot[a] = "ok" THEN Goes(a, "events")
       ELSE Ends(a, IF slot[a] = "crashed" THEN "crashed" ELSE "unavailable", "abandon")
    /\ UNCHANGED <<sup, wire, w, exec, deliver, action, applied, spent>>

\* turn_events: the last event closes the turn.
TakeEvent(a) ==
    /\ run[a].pc = "events" /\ sup.inbox[a] # <<>>
    /\ LET v == Head(sup.inbox[a])
           s == [sup EXCEPT !.inbox[a] = Tail(@)]
       IN  IF v \in {"finish", "canceled"}
           THEN /\ sup' = Closed(s, a)
                /\ exec' = [exec EXCEPT ![a] = NoExec]
                /\ Ends(a, v, "release")
           ELSE sup' = s /\ UNCHANGED <<exec, run>>
    /\ UNCHANGED <<wire, w, slot, deliver, action, applied, spent>>

\* The channel is closed, or silent for longer than the bound.
TurnUncertain(a) ==
    /\ run[a].pc = "events"
    /\ sup.inbox[a] = <<>>
    /\ \/ /\ sup.n # run[a].sup \/ ~sup.held \/ sup.failed
          /\ UNCHANGED spent
       \/ /\ sup.n = run[a].sup /\ sup.held /\ ~sup.failed
          /\ spent.timeout < MaxTimeout
          /\ spent' = [spent EXCEPT !.timeout = @ + 1]
    /\ Ends(a, "uncertain", "abandon")
    /\ UNCHANGED <<sup, wire, w, slot, exec, deliver, action, applied>>

\* _abandon_turn: the worker is told to stop before the inbox disappears.
Abandon(a) ==
    /\ run[a].pc = "abandon"
    /\ IF Takes(run[a].sup) /\ a \in sup.turns
       THEN Send(a, Request(a, "cancel", a, "abandon")) /\ Goes(a, "abandoned")
       ELSE /\ sup' = IF sup.n = run[a].sup THEN Closed(sup, a) ELSE sup
            /\ Goes(a, "unwind")
            /\ UNCHANGED <<wire, slot>>
    /\ UNCHANGED <<w, exec, deliver, action, applied, spent>>

Abandoned(a) ==
    /\ run[a].pc = "abandoned" /\ slot[a] \notin {None, "waiting"}
    /\ Taken(a)
    /\ sup' = IF sup.n = run[a].sup THEN Closed(sup, a) ELSE sup
    /\ Goes(a, "unwind")
    /\ UNCHANGED <<wire, w, exec, deliver, action, applied, spent>>

\* run() leaves: the execution of an uncertain turn, or of one whose worker died
\* at the start, is dropped; that of a turn the worker refused or did not accept
\* in time is left to the release.
Unwind(a) ==
    /\ run[a].pc = "unwind"
    /\ exec' = [exec EXCEPT ![a] = IF run[a].res \in {"uncertain", "crashed"} THEN NoExec ELSE @]
    /\ Goes(a, "release")
    /\ UNCHANGED <<sup, wire, w, slot, deliver, action, applied, spent>>

\* release_attempt: a turn that was opened is canceled, over whatever worker
\* is serving by then.
Release(a) ==
    /\ run[a].pc = "release"
    /\ exec' = [exec EXCEPT ![a] = NoExec]
    /\ IF exec[a].open /\ exec[a].op
       THEN \E ok \in BOOLEAN :
               /\ Launched(ok)
               /\ run' = [run EXCEPT ![a].pc = IF ok THEN "stop" ELSE "done",
                                     ![a].sup = sup'.n]
       ELSE Goes(a, "done") /\ UNCHANGED <<sup, wire, w, slot, spent>>
    /\ UNCHANGED <<deliver, action, applied>>

StopTurn(a) ==
    /\ run[a].pc = "stop"
    /\ IF Takes(run[a].sup)
       THEN Send(a, Request(a, "cancel", a, "stop")) /\ Goes(a, "stopped")
       ELSE Goes(a, "done") /\ UNCHANGED <<sup, wire, slot>>
    /\ UNCHANGED <<w, exec, deliver, action, applied, spent>>

Stopped(a) ==
    /\ run[a].pc = "stopped" /\ slot[a] \notin {None, "waiting"}
    /\ Taken(a)
    /\ Goes(a, "done")
    /\ UNCHANGED <<sup, wire, w, exec, deliver, action, applied, spent>>

-----------------------------------------------------------------------------
(* The backend: deliveries of the action *)

Outcome(d, status, pc) ==
    deliver' = [deliver EXCEPT ![d].status = status, ![d].pc = pc]

\* The guard lets the delivery through; beside it, those that it let through
\* before and that have not been remembered yet.
Admitted(d) ==
    deliver' = [deliver EXCEPT ![d].pc = "effect",
                    ![d].beside = {e \in Delivery : deliver[e].pc \notin {"idle", "done"}}]

\* _perform_action: what the remembered outcome says.  The lock is not held
\* over the effect, and the threads of two deliveries come in any order.
Guard(d) ==
    /\ deliver[d].pc = "idle"
    /\ CASE action = NoAction -> Admitted(d)
         [] action # NoAction /\ d < action.epoch -> Outcome(d, "rejected", "done")
         [] action # NoAction /\ d >= action.epoch /\ action.status = "accepted" ->
               Outcome(d, "deduplicated", "done")
         [] OTHER -> Admitted(d)
    /\ UNCHANGED <<sup, wire, w, slot, run, exec, action, applied, spent>>

\* cancel and resolve_decision: an attempt that has no turn yet takes the
\* cancel as an intent and refuses the decision.
Effect(d) ==
    /\ deliver[d].pc = "effect"
    /\ \/ /\ exec[Target].open /\ exec[Target].op
          /\ Outcome(d, None, "launch")
          /\ UNCHANGED exec
       \/ /\ exec[Target].open /\ ~exec[Target].op /\ Kind = "cancel"
          /\ exec' = [exec EXCEPT ![Target].cancel = TRUE]
          /\ deliver' = [deliver EXCEPT ![d].status = "accepted", ![d].early = TRUE,
                                        ![d].pc = "remember"]
       \/ /\ ~exec[Target].open \/ (~exec[Target].op /\ Kind = "resolve")
          /\ Outcome(d, "rejected", "remember")
          /\ UNCHANGED exec
    /\ UNCHANGED <<sup, wire, w, slot, run, action, applied, spent>>

LaunchAction(d) ==
    /\ deliver[d].pc = "launch"
    /\ \E ok \in BOOLEAN :
          /\ Launched(ok)
          /\ deliver' = [deliver EXCEPT ![d].pc = IF ok THEN "send" ELSE "remember",
                                        ![d].status = IF ok THEN None ELSE "unknown",
                                        ![d].sup = sup'.n]
    /\ UNCHANGED <<run, exec, action, applied>>

\* A cancel that meets a broken channel is unknown; so is a decision that
\* meets a dead worker, while a protocol error refuses it.
Broken == IF Kind = "cancel" THEN "unknown" ELSE "rejected"

SendAction(d) ==
    /\ deliver[d].pc = "send"
    /\ IF Takes(deliver[d].sup)
       THEN Send(d, Request(d, Kind, Target, "action")) /\ Outcome(d, None, "wait")
       ELSE /\ Outcome(d, IF Alive(deliver[d].sup) THEN Broken ELSE "unknown", "remember")
            /\ UNCHANGED <<sup, wire, slot>>
    /\ UNCHANGED <<w, run, exec, action, applied, spent>>

StatusOf(v) ==
    CASE v = "ok" -> "accepted"
      [] v = "undelivered" -> "rejected"
      [] v = "crashed" -> "unknown"
      [] v \in {"unknown", "timeout"} -> Broken

AwaitAction(d) ==
    /\ deliver[d].pc = "wait" /\ slot[d] \notin {None, "waiting"}
    /\ Taken(d)
    /\ Outcome(d, StatusOf(slot[d]), "remember")
    /\ UNCHANGED <<sup, wire, w, run, exec, action, applied, spent>>

Remember(d) ==
    /\ deliver[d].pc = "remember"
    /\ action' = [epoch |-> d, status |-> deliver[d].status]
    /\ Outcome(d, deliver[d].status, "done")
    /\ UNCHANGED <<sup, wire, w, slot, run, exec, applied, spent>>

-----------------------------------------------------------------------------
RunStep(a) ==
    \/ Reserve(a) \/ Entry(a) \/ LaunchRun(a) \/ Check(a) \/ BeginTurn(a)
    \/ AwaitBegin(a) \/ TakeEvent(a) \/ TurnUncertain(a) \/ Abandon(a)
    \/ Abandoned(a) \/ Unwind(a) \/ Release(a) \/ StopTurn(a) \/ Stopped(a)

DeliveryStep(d) ==
    \/ Guard(d) \/ Effect(d) \/ LaunchAction(d) \/ SendAction(d)
    \/ AwaitAction(d) \/ Remember(d)

WorkerStep == HandleRequest \/ AskDecision \/ Conclude \/ Finish

Next ==
    \/ ReadFrame \/ ReadEnd
    \/ WorkerStep \/ Beat \/ Die
    \/ \E c \in Caller : TimesOut(c)
    \/ \E a \in Attempt : RunStep(a)
    \/ \E d \in Delivery : DeliveryStep(d)

Spec == Init /\ [][Next]_vars

\* Every thread runs on; a worker may die or be slow, and never has to.
Fairness ==
    /\ WF_vars(ReadFrame) /\ WF_vars(ReadEnd) /\ WF_vars(WorkerStep)
    /\ \A a \in Attempt : WF_vars(RunStep(a))
    /\ \A d \in Delivery : WF_vars(DeliveryStep(d))

FairSpec == Spec /\ Fairness

-----------------------------------------------------------------------------
(* Properties *)

RunPcs == {"idle", "entry", "launch", "check", "begin", "wait", "events", "abandon",
           "abandoned", "unwind", "release", "stop", "stopped", "done"}

\* Types; a caller has a request out exactly while it waits for one.
TypeOK ==
    /\ \A a \in Attempt : run[a].pc \in RunPcs
    /\ \A a \in Attempt : slot[a] # None <=> run[a].pc \in {"wait", "abandoned", "stopped"}
    /\ \A d \in Delivery : slot[d] # None <=> deliver[d].pc = "wait"
    /\ sup.turns \subseteq Attempt /\ Len(sup.late) <= Memory
    /\ w.st \in {"none", "run", "parked", "concluded", "canceled", "done"}
    /\ applied \subseteq Attempt

InFlight(r) ==
    \/ \E n \in DOMAIN wire.in : wire.in[n] = r
    \/ \E n \in DOMAIN wire.out : wire.out[n].kind = "reply" /\ wire.out[n].req = r

\* A channel fails only because its worker is gone: replies that come after
\* their bound and events of turns that were closed do not end it
\* (_route_reply, _route_event, LATE_FRAME_MEMORY).
HealthyChannelServes == sup.held /\ sup.failed => ~w.up

\* No caller is left waiting by a channel that has failed or was replaced, and
\* over a live one whatever it waits for is still on its way (_fail, close).
NoStrandedWaiter ==
    \A c \in Caller : slot[c] = "waiting" =>
        /\ sup.held /\ sup.n = SupOf(c) /\ ~sup.failed
        /\ w.up => InFlight(Outstanding(c))

\* A cancel accepted before the turn was opened holds: the worker never gets
\* the turn (cancel on a reserved attempt, the two checks of run).
EarlyCancelHolds ==
    (\E d \in Delivery : deliver[d].early) =>
        /\ Target \notin w.ledger
        /\ \A n \in DOMAIN wire.in : wire.in[n].method = "begin" => wire.in[n].op # Target

TurnLive(a) ==
    \/ w.turn = a /\ w.st \in {"run", "parked"} /\ ~w.canceled
    \/ \E n \in DOMAIN wire.in : wire.in[n].method = "begin" /\ wire.in[n].op = a

\* A turn nobody follows any more is being stopped: once run and release are
\* over, a turn that is open, or may still be opened, has a cancel on its way
\* (_abandon_turn, release_attempt).
NoOrphanTurn ==
    \A a \in Attempt : run[a].pc = "done" /\ w.up /\ TurnLive(a) =>
        \E n \in DOMAIN wire.in : wire.in[n].method = "cancel" /\ wire.in[n].op = a

\* An accepted action that was not an early cancel was applied by the worker
\* (cancel, resolve_decision: delivered means delivered).
AcceptedReached ==
    \A d \in Delivery : deliver[d].status = "accepted" /\ ~deliver[d].early => Target \in applied

\* Once a delivery was answered accepted, the backend remembers the action as
\* accepted, unless another one had passed the guard beside it and was
\* remembered last (_perform_action, _remember, query_action_outcome).
AcceptedIsKept ==
    \A d \in Delivery :
        deliver[d].pc = "done" /\ deliver[d].status = "accepted" =>
            \/ action.status = "accepted"
            \/ d \in deliver[action.epoch].beside \/ action.epoch \in deliver[d].beside

\* A window sees at most one launch more than the budget of relaunches
\* (MAX_CHANNEL_RELAUNCHES, "a launch storm whenever the failure source is
\* persistent").
LaunchesAreLimited == spent.launch <= Budget + 1
=============================================================================
