---------------------------- MODULE TransportDrain ----------------------------
(***************************************************************************)
(* The drain pass of the daemon (transports/drain.py): once per tick of an *)
(* open window it resumes what the ledger still owes, retries what earlier *)
(* passes held back, delivers the events committed since its cursor, and   *)
(* sends the weekly digests.  A pass is one thread; between its items      *)
(* events are committed, replies frozen, chats learned and bindings        *)
(* changed.  What one delivery does is the business of TransportDelivery:  *)
(* here it is the state the ledger row is left in.  Replies and digests    *)
(* have no event row; a digest's work source is its run.                   *)
(***************************************************************************)
EXTENDS Naturals, Sequences, SequencesExt

CONSTANTS
    Events,         \* 1 .. n: notification events in commit order
    Replies,        \* command replies
    Digests,        \* completed fallback runs
    Chats,          \* chats a binding can name
    KnownAtStart,   \* private chats of the allowlisted operators
    EventChat,      \* the chat an event's or a reply's thread is bound to
    RetryLimit,     \* RETRY_LIMIT
    PendingLimit,   \* PENDING_LIMIT
    MaxFaults,      \* bound: refusals, passed deadlines, restarts
    MaxStoreErrors, \* bound: store errors that are not NotFound
    None

DrainAssumption ==
    /\ Events \subseteq Nat /\ KnownAtStart \subseteq Chats
    /\ RetryLimit \in Nat \ {0} /\ PendingLimit \in Nat \ {0}
    /\ MaxFaults \in Nat /\ MaxStoreErrors \in Nat
    /\ EventChat \in [Events \union Replies -> Chats]

VARIABLES
    committed,  \* how many events are committed
    row,        \* ledger state of every message, "none" if never frozen
    order,      \* frozen messages, oldest first
    frozenFor,  \* the chats a digest was frozen for
    run,        \* digest_state and digest_reason of every fallback run
    recipient,  \* the one bound operator chat, or why there is none
    known,      \* DestinationDirectory: chats this process can name
    cursor,     \* high-water mark over the events
    retry,      \* _retry: held events, oldest first
    pass,       \* the pass under way
    gone,       \* events the drain gave up, by the reason it counts
    died,       \* history: events that were in the hands of a pass that died
    faults, storeErrors

ledger == <<row, order, frozenFor>>
memory == <<known, cursor, retry, pass>>
vars == <<committed, row, order, frozenFor, run, recipient, known, cursor,
          retry, pass, gone, died, faults, storeErrors>>

Messages == Events \union Replies \union Digests
NoPass == [pc |-> "idle", todo |-> <<>>, skip |-> {}, known |-> {}, late |-> FALSE]
Final == {"delivered", "manual_required", "failed"}
Reasons == {"undeliverable", "refused", "dropped", "behind_head"}

Init ==
    /\ committed = 0
    /\ row = [m \in Messages |-> "none"]
    /\ order = <<>>
    /\ frozenFor = [d \in Digests |-> {}]
    /\ run = [d \in Digests |-> [state |-> "pending", reason |-> None]]
    /\ recipient \in Chats
    /\ known = KnownAtStart
    /\ cursor = 0 /\ retry = <<>> /\ pass = NoPass
    /\ gone = [r \in Reasons |-> {}] /\ died = {}
    /\ faults = 0 /\ storeErrors = 0

Fault == faults < MaxFaults /\ faults' = faults + 1

-----------------------------------------------------------------------------
(* Helpers of a pass.                                                      *)

Goto(pc, todo) == pass' = [pass EXCEPT !.pc = pc, !.todo = todo]
Continue == pass' = [pass EXCEPT !.todo = Tail(@)]
Working(pc) == pass.pc = pc /\ pass.todo # <<>>

Held(seq) == {seq[k].e : k \in DOMAIN seq}

(* _remember into the retry set r: at the limit the oldest is dropped.     *)
Remember(r, e, deferred) ==
    IF e \in Held(r) THEN r
    ELSE Append(IF Len(r) >= RetryLimit THEN Tail(r) ELSE r,
                [e |-> e, deferred |-> deferred])

Dropped(r, e) ==
    IF e \notin Held(r) /\ Len(r) >= RetryLimit THEN {Head(r).e} ELSE {}

(* The rows of the ledger a delivery of message m may leave behind, with   *)
(* whether the adapter calls the result retryable, and whether it names a  *)
(* delay.  Only a refusal proven before any send is retryable.             *)
Outcomes(m) ==
    IF row[m] \in {"none", "pending"}
    THEN {[row |-> "delivered", retryable |-> FALSE, deferred |-> FALSE],
          [row |-> "manual_required", retryable |-> FALSE, deferred |-> FALSE],
          [row |-> "failed", retryable |-> FALSE, deferred |-> FALSE],
          [row |-> row[m], retryable |-> FALSE, deferred |-> FALSE]}
         \union [row : {"pending", row[m]}, retryable : {TRUE}, deferred : BOOLEAN]
    ELSE {[row |-> row[m], retryable |-> FALSE, deferred |-> FALSE]}

(* deliver_event, deliver_command_reply.                                   *)
Deliver(m, o) ==
    /\ o \in Outcomes(m)
    /\ IF o.row = "delivered" \/ row[m] \in Final THEN UNCHANGED faults ELSE Fault
    /\ row' = [row EXCEPT ![m] = o.row]
    /\ order' = IF row[m] = "none" /\ o.row # "none" THEN Append(order, m) ELSE order

-----------------------------------------------------------------------------
(* The pass.                                                               *)

(* pending_transport_deliveries: the oldest pending projections.           *)
PendingRows ==
    LET owed == SelectSeq(order, LAMBDA m : row[m] = "pending")
    IN  SubSeq(owed, 1, IF Len(owed) < PendingLimit THEN Len(owed) ELSE PendingLimit)

(* drain: one directory snapshot and one deadline for the whole pass.      *)
StartPass ==
    /\ pass.pc = "idle"
    /\ pass' = [NoPass EXCEPT !.pc = "resume", !.known = known, !.todo = PendingRows]
    /\ UNCHANGED <<committed, ledger, run, recipient, known, cursor, retry,
                   gone, died, faults, storeErrors>>

(* The deadline passes; it is only looked at between items.                *)
Late ==
    /\ pass.pc # "idle" /\ ~pass.late
    /\ Fault
    /\ pass' = [pass EXCEPT !.late = TRUE]
    /\ UNCHANGED <<committed, ledger, run, recipient, known, cursor, retry,
                   gone, died, storeErrors>>

(* _resume: digests belong to their own pass, and a row whose chat this    *)
(* process cannot name waits.                                              *)
Resume ==
    LET m == Head(pass.todo)
    IN  /\ Working("resume") /\ ~pass.late
        /\ IF m \in Digests \/ (m \notin Digests /\ EventChat[m] \notin pass.known)
           THEN Continue /\ UNCHANGED <<ledger, faults>>
           ELSE /\ \E o \in Outcomes(m) : Deliver(m, o)
                /\ pass' = [pass EXCEPT !.todo = Tail(@), !.skip = @ \union {m}]
                /\ UNCHANGED frozenFor
        /\ UNCHANGED <<committed, run, recipient, known, cursor, retry, gone,
                       died, storeErrors>>

(* _advance begins: the held events are taken out of the retry set.        *)
TakeHeld ==
    /\ pass.pc = "resume" /\ (pass.todo = <<>> \/ pass.late)
    /\ Goto("retry", retry) /\ retry' = <<>>
    /\ UNCHANGED <<committed, ledger, run, recipient, known, cursor, gone,
                   died, faults, storeErrors>>

(* _consider with the run at hand: an event of an unbound thread is        *)
(* counted; a delivery that raises or is retryable is held back.           *)
Consider(e, r) ==
    IF EventChat[e] \notin pass.known
    THEN /\ gone' = [gone EXCEPT !["undeliverable"] = @ \union {e}]
         /\ retry' = r
         /\ UNCHANGED <<ledger, faults>>
    ELSE /\ \/ \E o \in Outcomes(e) :
                 /\ Deliver(e, o)
                 /\ retry' = IF o.retryable THEN Remember(r, e, o.deferred) ELSE r
                 /\ gone' = [gone EXCEPT
                      !["dropped"] = IF o.retryable THEN @ \union Dropped(r, e) ELSE @,
                      !["refused"] = IF o.row = "none" /\ ~o.retryable
                                     THEN @ \union {e} ELSE @]
            \/ /\ Fault                     \* deliver_event raised
               /\ retry' = Remember(r, e, FALSE)
               /\ gone' = [gone EXCEPT !["dropped"] = @ \union Dropped(r, e)]
               /\ UNCHANGED <<row, order>>
         /\ UNCHANGED frozenFor

(* One held event: skipped when this pass resumed it, kept while Control   *)
(* defers it, put back with all after it once the deadline has passed.     *)
RetryHeld ==
    LET held == Head(pass.todo)
    IN  /\ Working("retry")
        /\ \/ /\ held.e \in pass.skip
              /\ Continue /\ UNCHANGED <<retry, gone, ledger, faults>>
           \/ /\ held.e \notin pass.skip /\ held.deferred
              /\ retry' = Remember(retry, held.e, TRUE)
              /\ gone' = [gone EXCEPT !["dropped"] = @ \union Dropped(retry, held.e)]
              /\ Continue /\ UNCHANGED <<ledger, faults>>
           \/ /\ held.e \notin pass.skip /\ ~held.deferred /\ ~pass.late
              /\ Consider(held.e, retry)
              /\ Continue
        /\ UNCHANGED <<committed, run, recipient, known, cursor, died, storeErrors>>

(* Mutant of PutBack: a pass out of time forgets what it had not reached.  *)
PutBack_Forgets ==
    /\ Working("retry") /\ pass.late
    /\ Goto("digests", <<>>)
    /\ UNCHANGED <<committed, ledger, run, recipient, known, cursor, retry, gone,
                   died, faults, storeErrors>>

PutBack ==
    /\ Working("retry") /\ pass.late
    /\ Head(pass.todo).e \notin pass.skip /\ ~Head(pass.todo).deferred
    /\ retry' = FoldSeq(LAMBDA h, r : Remember(r, h.e, h.deferred), retry,
                        Reverse(pass.todo))
    /\ Goto("digests", <<>>)
    /\ UNCHANGED <<committed, ledger, run, recipient, known, cursor, gone, died, faults,
                   storeErrors>>

ListNew ==
    /\ pass.pc = "retry" /\ pass.todo = <<>>
    /\ Goto("new", [k \in 1 .. (committed - cursor) |-> cursor + k])
    /\ UNCHANGED <<committed, ledger, run, recipient, known, cursor, retry, gone,
                   died, faults, storeErrors>>

(* A new event: the cursor is past it before anything else happens.        *)
ReadNew ==
    /\ Working("new") /\ ~pass.late
    /\ cursor' = Head(pass.todo)
    /\ Consider(Head(pass.todo), retry)
    /\ Continue
    /\ UNCHANGED <<committed, run, recipient, known, died, storeErrors>>

(* A read of the store raises anything but NotFound -- the event or its    *)
(* run, or the rows or events listed -- outside the `try' of the delivery: *)
(* the pass dies, and with it what it had taken out of the retry set and   *)
(* the new event its cursor had just passed.                               *)
StoreError ==
    /\ storeErrors < MaxStoreErrors
    /\ storeErrors' = storeErrors + 1
    /\ \/ /\ Working("retry") /\ ~pass.late
          /\ Head(pass.todo).e \notin pass.skip /\ ~Head(pass.todo).deferred
          /\ died' = died \union (Held(pass.todo) \ pass.skip)
          /\ UNCHANGED cursor
       \/ /\ pass.pc = "resume" \/ (pass.pc = "retry" /\ pass.todo = <<>>)
          /\ UNCHANGED <<cursor, died>>
       \/ /\ Working("new") /\ ~pass.late
          /\ cursor' = Head(pass.todo)
          /\ died' = died \union {Head(pass.todo)}
    /\ pass' = NoPass
    /\ UNCHANGED <<committed, ledger, run, recipient, known, retry, gone, faults>>

-----------------------------------------------------------------------------
(* The weekly digests.                                                     *)

ListDigests ==
    /\ \/ pass.pc = "new" /\ (pass.todo = <<>> \/ pass.late)
       \/ pass.pc = "digests"
    /\ LET owed == {d \in Digests : run[d].state = "pending"}
       IN  IF pass.late THEN pass' = NoPass ELSE Goto("digest", SetToSeq(owed))
    /\ UNCHANGED <<committed, ledger, run, recipient, known, cursor, retry, gone,
                   died, faults, storeErrors>>

SetDigest(d, state, reason) ==
    run' = [run EXCEPT ![d] = [state |-> state, reason |-> reason]]

(* _settle_xhs_digest: what a final ledger state makes of the run.         *)
Settled(state) ==
    CASE state = "delivered" -> [state |-> "sent", reason |-> None]
      [] state = "manual_required" -> [state |-> "blocked", reason |-> "outcome_unknown"]
      [] state = "failed" -> [state |-> "blocked", reason |-> "delivery_rejected"]
      [] OTHER -> [state |-> "pending", reason |-> None]

(* A digest that was frozen before: the ledger decides, and it goes to the *)
(* chat it was frozen for or waits.                                        *)
ResumeDigest ==
    LET d == Head(pass.todo)
    IN  /\ Working("digest") /\ ~pass.late
        /\ frozenFor[d] # {}
        /\ IF row[d] \in Final \/ ~(frozenFor[d] \subseteq pass.known)
           THEN /\ run' = [run EXCEPT ![d] =
                      IF row[d] \in Final THEN Settled(row[d])
                      ELSE [state |-> "pending", reason |-> "recipient_unavailable"]]
                /\ UNCHANGED <<ledger, faults>>
           ELSE \E o \in Outcomes(d) :
                   /\ Deliver(d, o)
                   /\ run' = [run EXCEPT ![d] = Settled(o.row)]
                   /\ UNCHANGED frozenFor
        /\ Continue
        /\ UNCHANGED <<committed, recipient, known, cursor, retry, gone, died, storeErrors>>

(* deliver_xhs_digest: frozen for the recipient bound now, then sent.      *)
DeliverDigest(d) ==
    /\ recipient \in Chats
    /\ \E o \in Outcomes(d) :
          /\ Deliver(d, o)
          /\ frozenFor' = [frozenFor EXCEPT ![d] =
                             IF o.row = "none" THEN @ ELSE @ \union {recipient}]
          /\ run' = [run EXCEPT ![d] = Settled(o.row)]

(* A digest never frozen: nothing left to say, no single recipient, or     *)
(* frozen for the recipient bound now and sent.                            *)
FreezeDigest ==
    LET d == Head(pass.todo)
    IN  /\ Working("digest") /\ ~pass.late
        /\ frozenFor[d] = {}
        /\ \/ /\ Fault /\ SetDigest(d, "suppressed", None)
              /\ UNCHANGED ledger
           \/ /\ recipient \notin Chats
              /\ SetDigest(d, "pending", recipient)
              /\ UNCHANGED <<ledger, faults>>
           \/ DeliverDigest(d)
        /\ Continue
        /\ UNCHANGED <<committed, recipient, known, cursor, retry, gone, died, storeErrors>>

EndPass ==
    /\ pass.pc = "digest" /\ (pass.todo = <<>> \/ pass.late)
    /\ pass' = NoPass
    /\ UNCHANGED <<committed, ledger, run, recipient, known, cursor, retry, gone,
                   died, faults, storeErrors>>

(* gate_closed: outside a window the owed digests say why they wait.       *)
GateClosed ==
    /\ pass.pc = "idle"
    /\ run' = [d \in Digests |-> IF run[d].state = "pending"
                  THEN [state |-> "pending", reason |-> "transport_disabled"] ELSE run[d]]
    /\ run' # run
    /\ Fault
    /\ UNCHANGED <<committed, ledger, recipient, memory, gone, died, storeErrors>>

-----------------------------------------------------------------------------
(* The world around the pass.                                              *)

Commit ==
    /\ committed + 1 \in Events
    /\ committed' = committed + 1
    /\ UNCHANGED <<ledger, run, recipient, memory, gone, died, faults, storeErrors>>

FreezeReply(m) ==
    /\ m \in Replies /\ row[m] = "none"
    /\ row' = [row EXCEPT ![m] = "pending"]
    /\ order' = Append(order, m)
    /\ UNCHANGED <<committed, frozenFor, run, recipient, memory, gone, died, faults, storeErrors>>

(* learning_update_handler: an accepted update names its chat.             *)
Learn(c) ==
    /\ c \notin known
    /\ known' = known \union {c}
    /\ UNCHANGED <<committed, ledger, run, recipient, cursor, retry, pass, gone,
                   died, faults, storeErrors>>

Rebind(c) ==
    /\ c # recipient
    /\ Fault
    /\ recipient' = c
    /\ UNCHANGED <<committed, ledger, run, memory, gone, died, storeErrors>>

(* A wait Control asked for ends.                                          *)
Due ==
    /\ \E k \in DOMAIN retry :
          retry[k].deferred /\ retry' = [retry EXCEPT ![k].deferred = FALSE]
    /\ UNCHANGED <<committed, ledger, run, recipient, known, cursor, pass, gone,
                   died, faults, storeErrors>>

(* The operator resolves an unknown outcome with `retry'.                  *)
OperatorRetry(m) ==
    /\ row[m] = "manual_required"
    /\ Fault
    /\ row' = [row EXCEPT ![m] = "pending"]
    /\ UNCHANGED <<committed, order, frozenFor, run, recipient, memory, gone, died, storeErrors>>

(* A new daemon starts its cursor at the head: what was committed and      *)
(* never frozen is behind it.                                              *)
Restart ==
    /\ Fault
    /\ cursor' = committed /\ retry' = <<>> /\ pass' = NoPass
    /\ known' = KnownAtStart
    /\ gone' = [gone EXCEPT !["behind_head"] =
                  @ \union {e \in Events : e <= committed /\ row[e] = "none"}]
    /\ UNCHANGED <<committed, ledger, run, recipient, died, storeErrors>>

PassStep ==
    \/ Resume \/ TakeHeld \/ RetryHeld \/ PutBack \/ ListNew \/ ReadNew
    \/ ListDigests \/ ResumeDigest \/ FreezeDigest \/ EndPass

Next ==
    \/ StartPass \/ PassStep \/ Late \/ StoreError \/ GateClosed
    \/ Commit \/ Due \/ Restart
    \/ \E m \in Messages : FreezeReply(m) \/ OperatorRetry(m)
    \/ \E c \in Chats : Learn(c)
    \/ \E c \in Chats \union {"recipient_ambiguous"} : Rebind(c)

Spec == Init /\ [][Next]_vars

(* The window stays open long enough: the tick keeps starting passes and a *)
(* started pass goes on; a wait ends, whatever pass looks at it meanwhile. *)
FairSpec ==
    Spec /\ WF_vars(StartPass) /\ WF_vars(PassStep) /\ SF_vars(Due)

-----------------------------------------------------------------------------
(* Properties.                                                             *)

TypeOK ==
    /\ row \in [Messages -> {"none", "pending"} \union Final]
    /\ \A k \in DOMAIN retry : retry[k].e \in Events
    /\ Len(retry) <= RetryLimit
    /\ cursor \in 0 .. committed
    /\ \A d \in Digests : run[d].state \in {"pending", "sent", "blocked", "suppressed"}

(* Events a pass has taken out of the retry set and not reached.           *)
InHand == IF pass.pc = "retry" THEN Held(pass.todo) ELSE {}

(* The cursor only passes an event that is in the ledger, held for the     *)
(* next pass, or given up for a reason the drain counts: "a pass that dies *)
(* must not lose the row" (drain.py).  That holds of a delivery that       *)
(* raises; a store error kills the pass outside that `try', and loses the  *)
(* one event it was reading and those it held, and no other.               *)
NothingLost ==
    \A e \in Events :
        e <= cursor =>
            \/ row[e] # "none"
            \/ e \in Held(retry) \union InHand
            \/ \E r \in Reasons : e \in gone[r]
            \/ e \in died

(* A digest is frozen for one chat only, however the binding changes.      *)
DigestOneRecipient ==
    \A d \in Digests : \A a, b \in frozenFor[d] : a = b

(* A run never says `sent' of a digest that was not delivered, and         *)
(* `suppressed' only of one that was never frozen.                         *)
DigestHonest ==
    \A d \in Digests :
        /\ run[d].state = "sent" => row[d] = "delivered"
        /\ run[d].state = "suppressed" => frozenFor[d] = {}

(* Every committed event is eventually answered: settled in the ledger or  *)
(* given up for a counted reason; but for what a pass that died held.      *)
EventAnswered ==
    \A e \in Events :
        (committed >= e) ~> (\/ row[e] \in Final
                             \/ \E r \in Reasons : e \in gone[r]
                             \/ e \in died)
=============================================================================
