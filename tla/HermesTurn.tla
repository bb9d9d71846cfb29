---------------------------- MODULE HermesTurn -----------------------------
(***************************************************************************)
(* One turn of the in-process runtime (cortex_platform/runtime/hermes.py):   *)
(* the adapter's execute generator on the event loop, the agent's thread     *)
(* that it starts, the approval the agent waits for, and the cancel, steer   *)
(* and decision calls that come meanwhile, each a coroutine that hops to a   *)
(* thread for the backend's part.  Sections under a lock are one step; what  *)
(* happens between two of them interleaves.                                  *)
(*                                                                         *)
(* The agent is external: it may ask for one approval, emits events, and     *)
(* returns.  Texts, tools, sessions and digests are abstracted away.         *)
(***************************************************************************)
EXTENDS Naturals, Sequences, FiniteSets

CONSTANTS
    Callers,            \* concurrent control and decision calls
    Ops,                \* adapter operation ids, among "cancel", "steer", "yes", "again", "no"
    MaxEpoch, MaxFaults, MaxEmits, MaxCalls,        \* bounds
    CancelPoints        \* where the consumer's task may be canceled

VARIABLES
    a,          \* the adapter's execution
    n,          \* the backend's execution, its pending decision and its operations
    th,         \* the agent's thread
    q,          \* the queue from the thread to the generator
    dec,        \* the adapter's tables of the decision, and its claim task
    cache,      \* the adapter's action outcomes
    call,       \* the calls under way
    calls,      \* how many there were
    events,     \* the durable events the generator yielded, with their cause
    returned,   \* the operations some call was told it took
    faults

vars == <<a, n, th, q, dec, cache, call, calls, events, returned, faults>>

None == "none"
Kind(op) == CASE op = "cancel" -> "cancel" [] op = "steer" -> "steer" [] OTHER -> "resolve"
Choice(op) == IF op = "no" THEN "deny" ELSE "once"
Took == {"accepted", "deduplicated"}

NoOutcome == [epoch |-> 0, out |-> None]
NoCall == [pc |-> None, op |-> None, epoch |-> 0, backend |-> FALSE, out |-> None]
NoClaim == [op |-> None, epoch |-> 0, pc |-> None, out |-> None]
NoTurn == [pc |-> None, token |-> FALSE, cancel |-> FALSE, backend |-> FALSE, cause |-> None, last |-> None,
           on |-> None, closed |-> FALSE]
NoExecution == [st |-> None, cancel |-> FALSE, agent |-> FALSE]

Init ==
    /\ a = NoTurn
    /\ n = [x |-> NoExecution, pend |-> None, res |-> None, owed |-> FALSE,
            ops |-> [o \in Ops |-> NoOutcome], interrupted |-> FALSE, steered |-> 0]
    /\ th = [pc |-> None, did |-> None, asked |-> FALSE, result |-> None, late |-> FALSE, emits |-> 0]
    /\ q = <<>>
    /\ dec = [known |-> FALSE, intent |-> None, success |-> None, claim |-> NoClaim]
    /\ cache = [o \in Ops |-> NoOutcome]
    /\ call = [c \in Callers |-> NoCall]
    /\ calls = 0
    /\ events = <<>>
    /\ returned = {}
    /\ faults = 0

----------------------------------------------------------------------------
(* execute: the generator *)

Execute ==
    /\ a.pc = None
    /\ a' = [a EXCEPT !.pc = "load"]
    /\ UNCHANGED <<n, th, q, dec, cache, call, calls, events, returned, faults>>

LoadBackend ==
    /\ a.pc = "load"
    /\ a' = [a EXCEPT !.pc = "reserve"]
    /\ UNCHANGED <<n, th, q, dec, cache, call, calls, events, returned, faults>>

(* reserve_attempt runs in a thread while the generator awaits it. *)
Reserve ==
    /\ a.pc = "reserve"
    /\ n.x.st = None
    /\ n' = [n EXCEPT !.x.st = "reserved"]
    /\ a' = [a EXCEPT !.pc = "reserved"]
    /\ UNCHANGED <<th, q, dec, cache, call, calls, events, returned, faults>>

Bind ==
    /\ a.pc = "reserved"
    /\ a' = [a EXCEPT !.token = TRUE, !.backend = TRUE, !.pc = IF a.cancel THEN "precancel" ELSE "start"]
    /\ UNCHANGED <<n, th, q, dec, cache, call, calls, events, returned, faults>>

(* _deny_pending_locked *)
Deny(x) == IF x.pend = "open" THEN [x EXCEPT !.pend = "deny"] ELSE x

(* cancel's effect in the backend; a registered agent is interrupted next,
   outside of that lock, and what follows waits for it.                     *)
Flag(x) == Deny([x EXCEPT !.x.cancel = TRUE, !.owed = x.x.agent])

Interrupt ==
    /\ n.owed
    /\ n' = [n EXCEPT !.owed = FALSE, !.interrupted = TRUE]
    /\ UNCHANGED <<a, th, q, dec, cache, call, calls, events, returned, faults>>

PreCancel ==
    /\ a.pc = "precancel"
    /\ ~n.owed
    /\ n' = IF n.x.st = None THEN n ELSE Flag(n)
    /\ a' = [a EXCEPT !.pc = "start"]
    /\ UNCHANGED <<th, q, dec, cache, call, calls, events, returned, faults>>

(* _take_event_causation: the claim that is under way is waited for, then the
   cause is taken.                                                          *)
ClaimId == IF dec.claim.pc = None THEN None ELSE dec.claim.op

Gather ==
    /\ a.on = None
    /\ a.pc = "start" \/ (a.pc = "loop" /\ q # <<>>)
    /\ a' = [a EXCEPT !.on = IF ClaimId = None THEN "nothing" ELSE ClaimId]
    /\ UNCHANGED <<n, th, q, dec, cache, call, calls, events, returned, faults>>

Gathered == a.on # None /\ a.on # ClaimId

Yielded(kind, cause) == events' = Append(events, [kind |-> kind, cause |-> cause])

Started ==
    /\ a.pc = "start"
    /\ Gathered
    /\ Yielded("started", a.cause)
    /\ a' = [a EXCEPT !.pc = "spawn", !.cause = None, !.on = None]
    /\ UNCHANGED <<n, th, q, dec, cache, call, calls, returned, faults>>

Spawn ==
    /\ a.pc = "spawn"
    /\ a' = [a EXCEPT !.pc = "loop"]
    /\ th' = [th EXCEPT !.pc = "begin"]
    /\ UNCHANGED <<n, q, dec, cache, call, calls, events, returned, faults>>

(* A signal of the queue: the decision is known before it is published. *)
Register_ ==
    /\ a.pc = "loop"
    /\ q # <<>> /\ Head(q) = "ask" /\ ~dec.known
    /\ dec' = [dec EXCEPT !.known = TRUE]
    /\ UNCHANGED <<a, n, th, q, cache, call, calls, events, returned, faults>>

Take ==
    /\ a.pc = "loop"
    /\ Gathered
    /\ Head(q) = "tool" \/ (Head(q) = "ask" /\ dec.known)
    /\ Yielded(Head(q), a.cause)
    /\ a' = [a EXCEPT !.cause = None, !.on = None]
    /\ q' = Tail(q)
    /\ UNCHANGED <<n, th, dec, cache, call, calls, returned, faults>>

TakeResult ==
    /\ a.pc = "loop"
    /\ Gathered
    /\ Head(q) = "result"
    /\ q' = Tail(q)
    /\ a' = [a EXCEPT !.pc = "release", !.last = a.cause, !.cause = None, !.on = None]
    /\ UNCHANGED <<n, th, dec, cache, call, calls, events, returned, faults>>

(* release_attempt *)
ReleaseAttempt(x) ==
    IF x.x.st = "started" THEN Flag(x) ELSE [x EXCEPT !.x = NoExecution]

(* release_ownership after the result, then the terminal event *)
Release ==
    /\ a.pc = "release"
    /\ th.pc = "gone"
    /\ n' = IF a.token THEN ReleaseAttempt(n) ELSE n
    /\ Yielded(th.result, a.last)
    /\ a' = [a EXCEPT !.pc = "done", !.token = FALSE]
    /\ UNCHANGED <<th, q, dec, cache, call, calls, returned, faults>>

(* The consumer closes the generator at an event, or its task is canceled
   where the generator awaits: the finally clause.                          *)
Closable == {"spawn"} \union (IF a.pc = "loop" /\ events # <<>> THEN {"loop"} ELSE {})

Close ==
    /\ a.pc \in Closable \union CancelPoints
    /\ a' = [a EXCEPT !.pc = "cleanup", !.closed = TRUE]
    /\ UNCHANGED <<n, th, q, dec, cache, call, calls, events, returned, faults>>

(* release_ownership with cancel_running: cancel, then wait for the thread *)
Cleanup ==
    /\ a.pc = "cleanup"
    /\ ~n.owed
    /\ n' = IF a.token /\ th.pc \notin {None, "gone"} /\ n.x.st # None THEN Flag(n) ELSE n
    /\ a' = [a EXCEPT !.pc = "join"]
    /\ UNCHANGED <<th, q, dec, cache, call, calls, events, returned, faults>>

Join ==
    /\ a.pc = "join"
    /\ ~n.owed
    /\ th.pc \in {None, "gone"}
    /\ n' = IF a.token /\ n.x.st # None THEN ReleaseAttempt(n) ELSE n
    /\ a' = [a EXCEPT !.pc = "done", !.token = FALSE]
    /\ UNCHANGED <<th, q, dec, cache, call, calls, events, returned, faults>>

Generator ==
    Execute \/ LoadBackend \/ Reserve \/ Bind \/ PreCancel \/ Started \/ Spawn \/ Gather \/ Register_
    \/ Take \/ TakeResult \/ Release \/ Cleanup \/ Join

----------------------------------------------------------------------------
(* run: the agent's thread *)

Thread(pc) == th' = [th EXCEPT !.pc = pc]
Goes == UNCHANGED <<a, dec, cache, call, calls, events, returned, faults>>

Begin ==
    /\ th.pc = "begin"
    /\ IF n.x.cancel
         THEN /\ n' = [n EXCEPT !.x = NoExecution]
              /\ th' = [th EXCEPT !.pc = "answer", !.result = "canceled"]
         ELSE n' = [n EXCEPT !.x.st = "started"] /\ Thread("session")
    /\ UNCHANGED q /\ Goes

(* load_session may raise; then the flag is looked at again. *)
LoadSession ==
    /\ th.pc = "session"
    /\ \/ th' = [th EXCEPT !.pc = "finish", !.result = "failed"]
       \/ th' = IF n.x.cancel THEN [th EXCEPT !.pc = "finish", !.result = "canceled"] ELSE [th EXCEPT !.pc = "construct"]
    /\ UNCHANGED <<n, q>> /\ Goes

(* The agent is constructed and registered under the lock. *)
Register ==
    /\ th.pc = "construct"
    /\ n' = [n EXCEPT !.x.agent = TRUE]
    /\ th' = IF n.x.cancel THEN [th EXCEPT !.pc = "finish", !.result = "canceled"] ELSE [th EXCEPT !.pc = "callback"]
    /\ UNCHANGED q /\ Goes

InstallCallback ==
    /\ th.pc = "callback"
    /\ th' = IF n.x.cancel THEN [th EXCEPT !.pc = "finish", !.result = "canceled"]
                           ELSE [th EXCEPT !.pc = "talk"]
    /\ UNCHANGED <<n, q>> /\ Goes

Emit ==
    /\ th.pc = "talk"
    /\ th.emits < MaxEmits
    /\ q' = Append(q, "tool")
    /\ th' = [th EXCEPT !.emits = @ + 1]
    /\ UNCHANGED n /\ Goes

(* approval: the pending decision is registered unless the turn is canceled. *)
Ask ==
    /\ th.pc = "talk" /\ ~th.asked
    /\ IF n.x.cancel
         THEN th' = [th EXCEPT !.asked = TRUE, !.did = "deny"] /\ UNCHANGED <<n, q>>
         ELSE /\ n' = [n EXCEPT !.pend = "open"]
              /\ th' = [th EXCEPT !.asked = TRUE, !.pc = "emit"]
              /\ UNCHANGED q
    /\ Goes

Publish ==
    /\ th.pc = "emit"
    /\ q' = Append(q, "ask")
    /\ Thread("wait")
    /\ UNCHANGED n /\ Goes

Answered ==
    /\ th.pc = "wait"
    /\ n.pend \in {"deny", "once"}
    /\ n' = [n EXCEPT !.pend = None, !.res = n.pend]
    /\ th' = [th EXCEPT !.pc = "talk", !.did = n.pend]
    /\ UNCHANGED q /\ Goes

Canceled == "cancel" \in returned

(* The conversation raises, or it returns and the interrupt is looked at. *)
Return ==
    /\ th.pc = "talk"
    /\ \/ th' = [th EXCEPT !.pc = "finish", !.result = "failed", !.late = Canceled]
       \/ th' = [th EXCEPT !.pc = "finish", !.result = IF n.interrupted THEN "canceled" ELSE "completed", !.late = Canceled]
    /\ UNCHANGED <<n, q>> /\ Goes

(* _finish_execution *)
Finish ==
    /\ th.pc = "finish"
    /\ n' = [Deny(n) EXCEPT !.x = NoExecution, !.res = None]
    /\ Thread("answer")
    /\ UNCHANGED q /\ Goes

Answer ==
    /\ th.pc = "answer"
    /\ q' = Append(q, "result")
    /\ Thread("gone")
    /\ UNCHANGED n /\ Goes

Agent == Begin \/ LoadSession \/ Register \/ InstallCallback \/ Emit \/ Ask \/ Publish \/ Answered \/ Return \/ Finish \/ Answer

----------------------------------------------------------------------------
(* The tables of outcomes *)

(* _cached_action_outcome, and its twin at the top of _perform_action *)
Cached(table, op, epoch) ==
    CASE table[op].epoch = 0 -> None
      [] epoch < table[op].epoch -> "rejected"
      [] table[op].out \in Took -> "deduplicated"
      [] epoch = table[op].epoch -> table[op].out
      [] OTHER -> None

Remember(table, op, epoch, out) == [table EXCEPT ![op] = [epoch |-> epoch, out |-> out]]

(* The effects of cancel, steer and resolve_decision under the backend's lock:
   the state they leave, and whether they took.                             *)
Effect(op) ==
    CASE Kind(op) = "cancel" -> IF n.x.st = None THEN <<n, FALSE>> ELSE <<Flag(n), TRUE>>
      [] Kind(op) = "steer" -> IF n.x.st # None /\ ~n.x.cancel /\ n.x.agent
                                 THEN <<[n EXCEPT !.steered = @ + 1], TRUE>> ELSE <<n, FALSE>>
      [] n.res # None -> <<n, n.res = Choice(op)>>
      [] n.pend = "open" -> <<[n EXCEPT !.pend = Choice(op)], TRUE>>
      [] OTHER -> <<n, n.pend = Choice(op)>>

(* _perform_action *)
Perform(op, epoch) ==
    LET c == Cached(n.ops, op, epoch)
        e == Effect(op)
        out == IF e[2] THEN "accepted" ELSE "rejected"
    IN  IF c # None THEN <<n, c>>
        ELSE <<[e[1] EXCEPT !.ops = Remember(@, op, epoch, out)], out>>

----------------------------------------------------------------------------
(* request_control and resolve_decision: one call *)

Return_(c, op, out) ==
    /\ call' = [call EXCEPT ![c] = NoCall]
    /\ returned' = IF out \in Took THEN returned \union {op} ELSE returned

Calls == UNCHANGED <<th, q, events, calls>>
Enters == calls < MaxCalls /\ calls' = calls + 1 /\ UNCHANGED <<th, q, events>>

(* The product delivers an operation once per epoch. *)
Fresh(op, epoch) == \A c \in Callers : call[c].op # op \/ call[c].epoch # epoch

(* The part before the first await of a cancel or a steer *)
Control(c, op, epoch) ==
    LET hit == Cached(cache, op, epoch)
        out == IF hit # None THEN hit
               ELSE IF a.pc \in {None, "done"} THEN "rejected"
               ELSE IF ~a.backend THEN (IF op = "cancel" THEN "accepted" ELSE "rejected")
               ELSE None
    IN  /\ call[c].pc = None
        /\ Kind(op) # "resolve"
        /\ Fresh(op, epoch)
        /\ a' = IF op = "cancel" /\ hit = None /\ a.pc \notin {None, "done"} THEN [a EXCEPT !.cancel = TRUE] ELSE a
        /\ IF out # None
             THEN /\ cache' = IF hit # None THEN cache ELSE Remember(cache, op, epoch, out)
                  /\ Return_(c, op, out)
             ELSE /\ call' = [call EXCEPT ![c] = [pc |-> "hop", op |-> op, epoch |-> epoch, backend |-> TRUE, out |-> None]]
                  /\ UNCHANGED <<cache, returned>>
        /\ UNCHANGED <<n, dec, faults>> /\ Enters

(* The backend's part in its thread; it may raise, with or without effect. *)
Hop(c) ==
    LET op == call[c].op
        r == Perform(op, call[c].epoch)
    IN  /\ call[c].pc = "hop"
        /\ ~n.owed
        /\ \/ /\ n' = r[1]
              /\ call' = [call EXCEPT ![c].pc = "record", ![c].out = r[2]]
              /\ UNCHANGED faults
           \/ /\ faults < MaxFaults
              /\ faults' = faults + 1
              /\ n' \in {n, [Effect(op)[1] EXCEPT !.owed = FALSE]}
              /\ call' = [call EXCEPT ![c].pc = "record", ![c].out = "unknown"]
        /\ UNCHANGED <<a, dec, cache, returned>> /\ Calls

Record(c) ==
    /\ call[c].pc = "record"
    /\ ~n.owed
    /\ cache' = Remember(cache, call[c].op, call[c].epoch, call[c].out)
    /\ Return_(c, call[c].op, call[c].out)
    /\ UNCHANGED <<a, n, dec, faults>> /\ Calls

(* resolve_decision up to its await: the first caller with a choice owns the
   claim and starts its task, later ones wait for the same answer.          *)
Resolve(c, op, epoch) ==
    LET hit == Cached(cache, op, epoch)
        out == IF hit # None THEN hit
               ELSE IF ~dec.known \/ dec.intent \notin {None, Choice(op)} THEN "rejected"
               ELSE IF dec.success # None THEN "deduplicated"
               ELSE None
    IN  /\ call[c].pc = None
        /\ Kind(op) = "resolve"
        /\ Fresh(op, epoch)
        /\ IF out # None
             THEN /\ cache' = IF hit # None THEN cache ELSE Remember(cache, op, epoch, out)
                  /\ Return_(c, op, out)
                  /\ UNCHANGED dec
             ELSE /\ call' = [call EXCEPT ![c] = [pc |-> IF dec.claim.pc = None THEN "own" ELSE "share",
                                                  op |-> op, epoch |-> epoch, backend |-> TRUE, out |-> None]]
                  /\ dec' = IF dec.claim.pc # None THEN dec
                            ELSE [dec EXCEPT !.intent = Choice(op),
                                             !.claim = [op |-> op, epoch |-> epoch, pc |-> "hop", out |-> None]]
                  /\ UNCHANGED <<cache, returned>>
        /\ UNCHANGED <<a, n, faults>> /\ Enters

(* _complete_decision_claim: the backend's part *)
ClaimHop ==
    LET op == dec.claim.op
        r == Perform(op, dec.claim.epoch)
    IN  /\ dec.claim.pc = "hop"
        /\ ~n.owed
        /\ \/ /\ n' = r[1]
              /\ dec' = [dec EXCEPT !.claim.pc = "cause", !.claim.out = r[2]]
              /\ UNCHANGED faults
           \/ /\ faults < MaxFaults
              /\ faults' = faults + 1
              /\ n' \in {n, [Effect(op)[1] EXCEPT !.owed = FALSE]}
              /\ dec' = [dec EXCEPT !.claim.pc = "cause", !.claim.out = "unknown"]
        /\ UNCHANGED <<a, cache, call, returned>> /\ Calls

ClaimCause ==
    /\ dec.claim.pc = "cause"
    /\ a' = IF dec.claim.out \in Took /\ a.pc \notin {None, "done"} THEN [a EXCEPT !.cause = dec.claim.op] ELSE a
    /\ dec' = [dec EXCEPT !.claim.pc = "end"]
    /\ UNCHANGED <<n, cache, call, returned, faults>> /\ Calls

(* Mutant of ClaimEnd: the outcome of the owner is not the one remembered. *)
ClaimEnd_Unknown ==
    LET waiting == {c \in Callers : call[c].pc \in {"own", "share"}}
    IN  /\ dec.claim.pc = "end"
        /\ dec' = [dec EXCEPT !.claim = NoClaim]
        /\ cache' = Remember(cache, dec.claim.op, dec.claim.epoch, "unknown")
        /\ call' = [c \in Callers |-> IF c \in waiting THEN NoCall ELSE call[c]]
        /\ returned' = IF dec.claim.out \in Took THEN returned \union {call[c].op : c \in waiting} ELSE returned
        /\ UNCHANGED <<a, n, faults>> /\ Calls

(* The claim is dropped and everybody who waited has the answer. *)
ClaimEnd ==
    LET waiting == {c \in Callers : call[c].pc \in {"own", "share"}}
        Got(c) == IF call[c].pc = "share" /\ dec.claim.out \in Took THEN "deduplicated" ELSE dec.claim.out
    IN  /\ dec.claim.pc = "end"
        /\ dec' = [dec EXCEPT !.claim = NoClaim, !.success = IF dec.claim.out \in Took THEN Choice(dec.claim.op) ELSE @]
        /\ cache' = [o \in Ops |->
                        IF o = dec.claim.op THEN [epoch |-> dec.claim.epoch, out |-> dec.claim.out]
                        ELSE LET s == {c \in waiting : call[c].op = o /\ Got(c) = "deduplicated"}
                             IN  IF s = {} THEN cache[o] ELSE [epoch |-> call[CHOOSE c \in s : TRUE].epoch, out |-> "deduplicated"]]
        /\ call' = [c \in Callers |-> IF c \in waiting THEN NoCall ELSE call[c]]
        /\ returned' = returned \union {call[c].op : c \in {w \in waiting : Got(w) \in Took}}
        /\ UNCHANGED <<a, n, faults>> /\ Calls

(* query_action_outcome: the adapter's table first, the backend's otherwise *)
Query(op, epoch) ==
    LET t == IF cache[op].epoch # 0 THEN cache[op] ELSE n.ops[op]
    IN  IF t.epoch = 0 THEN "unknown" ELSE IF epoch < t.epoch THEN "rejected" ELSE t.out

Call(c) ==
    \/ \E op \in Ops, e \in 1..MaxEpoch : Control(c, op, e) \/ Resolve(c, op, e)
    \/ Hop(c) \/ Record(c)

Claim == ClaimHop \/ ClaimCause \/ ClaimEnd

Done == a.pc = "done" /\ UNCHANGED vars

Next == Generator \/ Interrupt \/ Close \/ Agent \/ Claim \/ (\E c \in Callers : Call(c)) \/ Done

Spec == Init /\ [][Next]_vars

(* The event loop, the threads and the consumer go on. *)
LiveSpec ==
    /\ Spec
    /\ WF_vars(Generator) /\ WF_vars(Interrupt) /\ WF_vars(Agent) /\ WF_vars(Return) /\ WF_vars(Claim)
    /\ \A c \in Callers : WF_vars(Hop(c)) /\ WF_vars(Record(c))

----------------------------------------------------------------------------
(* Properties *)

(* The backend's execution is started exactly while its thread is in it, and
   the adapter holds a token only for one it reserved.                      *)
TypeOK ==
    /\ n.pend \in {None, "open", "deny", "once"}
    /\ th.pc \in {"session", "construct", "callback", "talk", "emit", "wait", "finish"} <=> n.x.st = "started"
    /\ a.token => a.pc \notin {None, "load", "reserve"}

(* A decision call that was told its choice was taken, also by a cache or by
   the call it joined, is what the agent acts on.                           *)
AcceptedApplies ==
    \A op \in Ops : Kind(op) = "resolve" /\ op \in returned => Choice(op) \in {n.pend, th.did}

(* A cancel that was accepted before the conversation returned is not answered
   by a completed turn.                                                     *)
CancelWins == th.late => th.result # "completed"

(* A cancel that was accepted before the conversation starts prevents it. *)
CancelPrevents ==
    th.pc = "callback" /\ th'.pc = "talk" => ~Canceled

(* One steering operation reaches the agent once, unless a call's outcome was
   unknown and the operation delivered again.                               *)
SteerOnce == n.steered <= 1 + faults

(* An accepted decision is the cause of at most one event, and of one at least
   when the turn is streamed to its end.                                    *)
CauseOnce ==
    /\ \A op \in Ops : Cardinality({i \in 1..Len(events) : events[i].cause = op}) <= 1
    /\ a.pc = "done" /\ ~a.closed => a.cause = None

(* When the generator is done, however it ended, the attempt is free in the
   backend: it can be executed again.                                       *)
OwnershipReleased == a.pc = "done" => n.x.st = None

(* A turn that was canceled or closed ends, also while its agent waits for an
   approval.                                                                *)
CancelEnds == (a.closed \/ (Canceled /\ a.pc # None)) ~> a.pc = "done"

(* An operation some call was told it took is reported as taken by every
   later query: the product never delivers it again.                        *)
QueryTruthful == \A op \in returned : Query(op, MaxEpoch) \in Took
====
