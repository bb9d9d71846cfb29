--------------------------- MODULE InboundCommands ---------------------------
(***************************************************************************)
(* Inbound Telegram updates, from the provider's queue to a committed      *)
(* command and an owned reply: the poller's offset and batches             *)
(* (transports/worker_rpc.py), TelegramAdapter.handle_update               *)
(* (transports/telegram.py) and the store commands it makes, each its own  *)
(* transaction with an idempotency receipt (control/store.py).             *)
(*                                                                         *)
(* The provider keeps every update until a poll's offset passes it, so an  *)
(* update may be handled again: after a handler failure, by the next       *)
(* poller, and by the next daemon.                                         *)
(***************************************************************************)
EXTENDS Integers, FiniteSets, FiniteSetsExt

CONSTANTS
    Updates,         \* 1 .. n: update ids
    Kinds,           \* what an update may be, out of AllKinds
    Runs,            \* run ids, positive
    MaxStrikes,      \* MAX_CONSECUTIVE_FAILURES
    MaxFreezeFaults, \* bound: freezes that fail
    MaxFaults,       \* bound: other unexpected errors inside the handler
    MaxLimited,      \* bound: updates the rate limiter refuses
    MaxOutside,      \* bound: steps of the web client and the runtime
    MaxRestarts,     \* bound: pollers replaced
    MaxCrashes       \* bound: deaths of the daemon

(* message: plain text, /capture, /research, /chat; idea: a command whose  *)
(* receipt needs no revision (/idea, /research-item); run: /cancel and the *)
(* other run commands; button: a run action of a callback; decision: a     *)
(* decision resolved by a callback.                                        *)
AllKinds == {"message", "idea", "status", "open", "run", "button", "decision"}

InboundAssumption ==
    /\ Updates = 1 .. Cardinality(Updates) /\ Kinds \subseteq AllKinds
    /\ IsFiniteSet(Runs) /\ Runs \subseteq Nat \ {0}
    /\ MaxStrikes \in Nat \ {0} /\ MaxFreezeFaults \in Nat /\ MaxFaults \in Nat
    /\ MaxLimited \in Nat /\ MaxOutside \in Nat /\ MaxRestarts \in Nat
    /\ MaxCrashes \in Nat

VARIABLES
    kind,       \* what each update is
    sent,       \* updates the provider holds: 1 .. sent
    confirmed,  \* updates below are forgotten by the provider
    poller,     \* the polling thread
    cur,        \* the update in handle_update
    thread,     \* the bound thread: revision, active run (0: none)
    run,        \* the runs
    done,       \* idempotency receipts of the store: target and revision
    asked,      \* updates whose turn was asked for
    token,      \* the callback capabilities
    frozen,     \* the reply Control owns for each update
    receipt,    \* transport command receipts
    links,      \* deep-link tokens: minted, and those registered
    faults      \* how often each bounded thing happened; the updates an error
                \* or the rate limiter dropped, for the properties

vars == <<kind, sent, confirmed, poller, cur, thread, run, done, asked, token, frozen,
          receipt, links, faults>>
control == <<thread, run, done, token>>

Callbacks == {"button", "decision"}
NoReply == [text |-> "none", link |-> 0]
Idle == [u |-> 0, pc |-> "idle", target |-> 0, rev |-> 0, tries |-> 0, text |-> "none",
         link |-> 0]
NewPoller == [pc |-> "poll", offset |-> 0, batch |-> {}, strikes |-> 0]

Init ==
    /\ kind \in [Updates -> Kinds]
    /\ sent = 0 /\ confirmed = 1
    /\ poller = NewPoller /\ cur = Idle
    /\ thread = [rev |-> 0, active |-> Min(Runs)]
    /\ run = [r \in Runs |-> [state |-> IF r = Min(Runs) THEN "active" ELSE "unborn",
                              rev |-> 0]]
    /\ done = [u \in Updates |-> {}] /\ asked = {}
    /\ token = [k \in Callbacks |-> [by |-> 0, expired |-> FALSE]]
    /\ frozen = [u \in Updates |-> NoReply] /\ receipt = {}
    /\ links = [minted |-> 0, registered |-> {}]
    /\ faults = [freeze |-> 0, other |-> 0, limited |-> 0, outside |-> 0, restarts |-> 0,
                 crashes |-> 0, dropped |-> {}]

Count(f, max) == faults[f] < max /\ faults' = [faults EXCEPT ![f] = @ + 1]

-----------------------------------------------------------------------------
(* The provider, and everybody else who writes the thread and its run.     *)

Send ==
    /\ sent + 1 \in Updates /\ sent' = sent + 1
    /\ UNCHANGED <<kind, confirmed, poller, cur, control, asked, frozen, receipt, links,
                   faults>>

WebAppends ==
    /\ Count("outside", MaxOutside)
    /\ thread' = [thread EXCEPT !.rev = @ + 1]
    /\ UNCHANGED <<kind, sent, confirmed, poller, cur, run, done, asked, token, frozen,
                   receipt, links>>

RunEnds ==
    /\ thread.active # 0 /\ Count("outside", MaxOutside)
    /\ run' = [run EXCEPT ![thread.active] = [state |-> "ended", rev |-> @.rev + 1]]
    /\ thread' = [rev |-> thread.rev + 1, active |-> 0]
    /\ UNCHANGED <<kind, sent, confirmed, poller, cur, done, asked, token, frozen, receipt,
                   links>>

RunStarts ==
    /\ thread.active = 0 /\ Count("outside", MaxOutside)
    /\ \E r \in Runs :
          /\ run[r].state = "unborn"
          /\ run' = [run EXCEPT ![r].state = "active"]
          /\ thread' = [rev |-> thread.rev + 1, active |-> r]
    /\ UNCHANGED <<kind, sent, confirmed, poller, cur, done, asked, token, frozen, receipt,
                   links>>

TokenExpires ==
    /\ Count("outside", MaxOutside)
    /\ \E k \in Callbacks \intersect Kinds :
          ~token[k].expired /\ token' = [token EXCEPT ![k].expired = TRUE]
    /\ UNCHANGED <<kind, sent, confirmed, poller, cur, thread, run, done, asked, frozen,
                   receipt, links>>

-----------------------------------------------------------------------------
(* The poller (TelegramInboundPoller.run).                                 *)

(* A poll's offset confirms what it passes; the rest comes back.           *)
Poll ==
    /\ poller.pc = "poll" /\ cur = Idle
    /\ LET from == IF poller.offset > confirmed THEN poller.offset ELSE confirmed
           batch == from .. sent
       IN  /\ batch # {} \/ from # confirmed
           /\ confirmed' = from
           /\ poller' = [poller EXCEPT !.batch = batch,
                             !.pc = IF batch = {} THEN "poll" ELSE "batch"]
    /\ UNCHANGED <<kind, sent, cur, control, asked, frozen, receipt, links, faults>>

(* The update is handled: only now does the offset advance.                *)
Handled(u) ==
    poller' = [poller EXCEPT !.offset = u + 1, !.batch = @ \ {u},
                  !.pc = IF poller.batch = {u} THEN "poll" ELSE "batch",
                  !.strikes = IF poller.batch = {u} THEN 0 ELSE @]

(* Control does not own the reply: the batch is interrupted and retried.   *)
Interrupted ==
    poller' = [poller EXCEPT !.batch = {}, !.strikes = @ + 1,
                  !.pc = IF poller.strikes + 1 >= MaxStrikes THEN "failed" ELSE "poll"]

(* A poller that failed, or whose window changed, is replaced: the offset  *)
(* is in memory only.                                                      *)
ReplacePoller ==
    /\ cur = Idle
    /\ \/ poller.pc = "failed" /\ UNCHANGED faults
       \/ poller.pc # "failed" /\ Count("restarts", MaxRestarts)
    /\ poller' = NewPoller
    /\ UNCHANGED <<kind, sent, confirmed, cur, control, asked, frozen, receipt, links>>

-----------------------------------------------------------------------------
(* TelegramAdapter.handle_update, one step per transaction it makes.       *)

(* The sender's window is full: a refusal that is never answered.          *)
RateLimited(u) ==
    /\ faults.limited < MaxLimited
    /\ faults' = [faults EXCEPT !.limited = @ + 1, !.dropped = @ \union {u}]

Take ==
    /\ poller.pc = "batch" /\ cur = Idle
    /\ LET u == Min(poller.batch)
       IN  \/ u \in receipt /\ Handled(u) /\ UNCHANGED <<cur, faults>>
           \/ /\ u \notin receipt
              /\ cur' = [Idle EXCEPT !.u = u, !.pc = "read"]
              /\ UNCHANGED <<poller, faults>>
           \/ /\ u \notin receipt
              /\ RateLimited(u) /\ Handled(u) /\ UNCHANGED cur
    /\ UNCHANGED <<kind, sent, confirmed, control, asked, frozen, receipt, links>>

Is(k) == cur.u # 0 /\ kind[cur.u] = k

Answer(text) == cur' = [cur EXCEPT !.pc = "freeze", !.text = text]

(* The capability is in date and not another update's (resolve).           *)
Claimable(k) == ~token[k].expired /\ token[k].by \in {0, cur.u}

(* What the handler reads before its command: the thread's revision, the   *)
(* active run and its revision, or the claim of a callback's capability.   *)
Read ==
    /\ cur.pc = "read"
    /\ \/ Is("message") /\ cur' = [cur EXCEPT !.pc = "apply", !.rev = thread.rev]
          /\ UNCHANGED token
       \/ /\ Is("run") /\ UNCHANGED token
          /\ IF thread.active = 0 THEN Answer("refused")
             ELSE cur' = [cur EXCEPT !.pc = "apply", !.target = thread.active,
                              !.rev = run[thread.active].rev]
       \/ /\ \E k \in Callbacks : Is(k)
          /\ LET k == kind[cur.u]
             IN  IF ~Claimable(k)
                 THEN Answer("refused") /\ UNCHANGED token
                 ELSE /\ token' = [token EXCEPT ![k].by = cur.u]
                      /\ cur' = [cur EXCEPT !.pc = "apply"]
       \/ /\ \E k \in {"idea", "status", "open"} : Is(k)
          /\ cur' = [cur EXCEPT !.pc = "apply"] /\ UNCHANGED token
    /\ UNCHANGED <<kind, sent, confirmed, poller, thread, run, done, asked, frozen, receipt,
                   links, faults>>

(* The receipts the store has for this update and this target.             *)
Receipts(target) == {d \in done[cur.u] : d.target = target}

Commit(target, rev) ==
    done' = [done EXCEPT ![cur.u] = @ \union {[target |-> target, rev |-> rev]}]

(* Mutant of Append: the receipt of an earlier delivery is not looked up.  *)
Append_NoReceipt ==
    /\ cur.pc = "apply" /\ Is("message") /\ thread.rev = cur.rev
    /\ Commit(0, cur.rev) /\ thread' = [thread EXCEPT !.rev = @ + 1]
    /\ cur' = [cur EXCEPT !.pc = "ask"]
    /\ UNCHANGED <<kind, sent, confirmed, poller, run, asked, token, frozen, receipt, links,
                   faults>>

(* append_message: the receipt is compared with a request that names the   *)
(* thread's revision; a lost race is tried again, three times.             *)
Append ==
    /\ cur.pc = "apply" /\ Is("message")
    /\ \/ /\ Receipts(0) # {} /\ [target |-> 0, rev |-> cur.rev] \notin Receipts(0)
          /\ Answer("conflict") /\ UNCHANGED <<thread, done>>
       \/ /\ [target |-> 0, rev |-> cur.rev] \in Receipts(0)
          /\ Answer("ok") /\ UNCHANGED <<thread, done>>
       \/ /\ Receipts(0) = {} /\ thread.rev # cur.rev
          /\ IF cur.tries < 2 THEN cur' = [cur EXCEPT !.pc = "read", !.tries = @ + 1]
             ELSE Answer("revision")
          /\ UNCHANGED <<thread, done>>
       \/ /\ Receipts(0) = {} /\ thread.rev = cur.rev
          /\ Commit(0, cur.rev) /\ thread' = [thread EXCEPT !.rev = @ + 1]
          /\ cur' = [cur EXCEPT !.pc = "ask"]
    /\ UNCHANGED <<kind, sent, confirmed, poller, run, asked, token, frozen, receipt, links,
                   faults>>

(* The turn is asked for after the append committed.                       *)
Ask ==
    /\ cur.pc = "ask" /\ asked' = asked \union {cur.u} /\ Answer("ok")
    /\ UNCHANGED <<kind, sent, confirmed, poller, control, frozen, receipt, links, faults>>

(* create_fragment, select_research_item: the request names no revision.   *)
Save ==
    /\ cur.pc = "apply" /\ Is("idea")
    /\ IF Receipts(0) # {} THEN UNCHANGED done ELSE Commit(0, 0)
    /\ Answer("ok")
    /\ UNCHANGED <<kind, sent, confirmed, poller, thread, run, asked, token, frozen, receipt,
                   links, faults>>

Status ==
    /\ cur.pc = "apply" /\ Is("status") /\ Answer("ok")
    /\ UNCHANGED <<kind, sent, confirmed, poller, control, asked, frozen, receipt, links,
                   faults>>

(* /open prepares a link token; only the freeze registers it.              *)
Open ==
    /\ cur.pc = "apply" /\ Is("open")
    /\ links' = [links EXCEPT !.minted = @ + 1]
    /\ cur' = [cur EXCEPT !.pc = "freeze", !.text = "ok", !.link = links.minted + 1]
    /\ UNCHANGED <<kind, sent, confirmed, poller, control, asked, frozen, receipt, faults>>

(* transition_run, resume_run, retry_run on the run that was read.         *)
RunCommand ==
    /\ cur.pc = "apply" /\ Is("run")
    /\ LET r == cur.target
       IN  \/ /\ Receipts(r) # {} /\ [target |-> r, rev |-> cur.rev] \notin Receipts(r)
              /\ Answer("conflict") /\ UNCHANGED <<run, done>>
           \/ /\ Receipts(r) = {} /\ run[r].rev # cur.rev
              /\ Answer("revision") /\ UNCHANGED <<run, done>>
           \/ /\ Receipts(r) = {} /\ run[r].rev = cur.rev /\ run[r].state # "active"
              /\ Answer("refused") /\ UNCHANGED <<run, done>>
           \/ /\ Receipts(r) = {} /\ run[r].rev = cur.rev /\ run[r].state = "active"
              /\ run' = [run EXCEPT ![r] = [state |-> "asked", rev |-> @.rev + 1]]
              /\ Commit(r, cur.rev) /\ Answer("ok")
    /\ UNCHANGED <<kind, sent, confirmed, poller, thread, asked, token, frozen, receipt,
                   links, faults>>

(* A callback's run action: the revision in the capability is compared     *)
(* before the command is made.                                             *)
ButtonAction ==
    /\ cur.pc = "apply" /\ Is("button")
    /\ LET r == Min(Runs)
       IN  IF run[r].rev # 0 \/ run[r].state # "active"
           THEN Answer("revision") /\ UNCHANGED <<run, done>>
           ELSE /\ run' = [run EXCEPT ![r] = [state |-> "asked", rev |-> @.rev + 1]]
                /\ Commit(r, 0) /\ Answer("ok")
    /\ UNCHANGED <<kind, sent, confirmed, poller, thread, asked, token, frozen, receipt,
                   links, faults>>

(* resolve_decision: the receipt first, under the capability's revision.   *)
ResolveDecision ==
    /\ cur.pc = "apply" /\ Is("decision")
    /\ IF Receipts(0) # {} THEN Answer("ok") /\ UNCHANGED done
       ELSE IF \E u \in Updates : kind[u] = "decision" /\ done[u] # {}
            THEN Answer("revision") /\ UNCHANGED done
            ELSE Commit(0, 0) /\ Answer("ok")
    /\ UNCHANGED <<kind, sent, confirmed, poller, thread, run, asked, token, frozen, receipt,
                   links, faults>>

(* An unexpected error anywhere in the handler: a result without a reply,  *)
(* which the poller counts as handled.                                     *)
HandlerFails ==
    /\ cur.pc \in {"read", "apply", "record"} /\ faults.other < MaxFaults
    /\ faults' = [faults EXCEPT !.other = @ + 1, !.dropped = @ \union {cur.u}]
    /\ Handled(cur.u) /\ cur' = Idle
    /\ UNCHANGED <<kind, sent, confirmed, control, asked, frozen, receipt, links>>

(* Whether the result is one the chat is owed (_CommandReply.deliverable). *)
Deliverable == ~(cur.text = "ok" /\ Is("message"))

(* The reply becomes Control's; a copy that is already frozen wins.        *)
Owned(reply) == IF frozen[cur.u] = NoReply THEN reply ELSE frozen[cur.u]

Freeze ==
    /\ cur.pc = "freeze"
    /\ \/ /\ IF Deliverable
             THEN /\ frozen' = [frozen EXCEPT ![cur.u] =
                                   Owned([text |-> cur.text, link |-> cur.link])]
                  /\ links' = IF frozen[cur.u] = NoReply
                              THEN [links EXCEPT !.registered = @ \union {cur.link}]
                              ELSE links
             ELSE UNCHANGED <<frozen, links>>
          /\ cur' = [cur EXCEPT !.pc = IF cur.text = "ok" THEN "record" ELSE "handled"]
          /\ UNCHANGED <<poller, faults>>
       \/ /\ Deliverable /\ Count("freeze", MaxFreezeFaults)
          /\ Interrupted /\ cur' = Idle /\ UNCHANGED <<frozen, links>>
    /\ UNCHANGED <<kind, sent, confirmed, control, asked, receipt>>

(* Only now: once recorded, the update replays this result for ever.       *)
Record ==
    /\ cur.pc = "record"
    /\ receipt' = receipt \union {cur.u}
    /\ cur' = [cur EXCEPT !.pc = "handled"]
    /\ UNCHANGED <<kind, sent, confirmed, poller, control, asked, frozen, links, faults>>

Return ==
    /\ cur.pc = "handled" /\ Handled(cur.u) /\ cur' = Idle
    /\ UNCHANGED <<kind, sent, confirmed, control, asked, frozen, receipt, links, faults>>

Crash ==
    /\ Count("crashes", MaxCrashes)
    /\ poller' = NewPoller /\ cur' = Idle
    /\ UNCHANGED <<kind, sent, confirmed, control, asked, frozen, receipt, links>>

Handler ==
    \/ Take \/ Read \/ Append \/ Ask \/ Save \/ Status \/ Open \/ RunCommand
    \/ ButtonAction \/ ResolveDecision \/ Freeze \/ Record \/ Return

Outside == WebAppends \/ RunEnds \/ RunStarts \/ TokenExpires

Next == Send \/ Outside \/ Poll \/ ReplacePoller \/ Handler \/ HandlerFails \/ Crash

Spec == Init /\ [][Next]_vars

(* The polling thread runs, and the supervisor replaces a failed poller.   *)
FairSpec ==
    Spec /\ WF_vars(Poll) /\ WF_vars(Handler)
         /\ WF_vars(poller.pc = "failed" /\ ReplacePoller)

-----------------------------------------------------------------------------
(* Properties.                                                             *)

Texts == {"ok", "refused", "conflict", "revision"}

TypeOK ==
    /\ sent \in 0 .. Cardinality(Updates) /\ confirmed \in 1 .. sent + 1
    /\ poller.offset \in 0 .. sent + 1 /\ poller.batch \subseteq Updates
    /\ poller.strikes \in 0 .. MaxStrikes
    /\ cur.u \in {0} \union Updates /\ cur.tries \in 0 .. 2
    /\ \A u \in Updates : frozen[u].text \in Texts \union {"none"}
    /\ receipt \subseteq Updates /\ asked \subseteq Updates /\ faults.dropped \subseteq Updates

(* However often an update is handled, its command takes effect at most    *)
(* once on each thing it can change (append_message, transition_run,       *)
(* create_fragment, resolve_decision and their receipts).                  *)
AppliedOnce ==
    \A u \in Updates : \A d, e \in done[u] : d.target = e.target => d = e

(* Once an update has its receipt, the handler never runs for it again, so *)
(* the reply it is owed is Control's by then (handle_update,               *)
(* record_transport_command), and it is the reply of what was done.        *)
ReceiptOwnsReply ==
    \A u \in receipt : kind[u] # "message" => frozen[u].text # "none"

(* The link in the reply that will be sent is a registered capability:     *)
(* a token re-minted by a redelivery never replaces it                     *)
(* (_already_frozen).                                                      *)
LinkLive ==
    \A u \in Updates : frozen[u].link # 0 => frozen[u].link \in links.registered

(* "Do not confirm an update until Control owns its reply" (worker_rpc.py):*)
(* what the provider has been told to forget was captured, has its reply   *)
(* frozen, or is one that the rate limiter or an unexpected error in the   *)
(* handler dropped: those the poller counts as handled.                    *)
ConfirmedOwned ==
    \A u \in Updates :
        u < confirmed => \/ frozen[u].text # "none" \/ u \in receipt
                         \/ u \in faults.dropped

(* Every update the provider accepted is handled: the provider is told to  *)
(* forget it, whatever failed on the way.                                  *)
EveryUpdateHandled == \A u \in Updates : (sent >= u) ~> (confirmed > u)
=============================================================================
