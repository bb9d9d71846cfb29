-------------------------- MODULE TransportDelivery --------------------------
(***************************************************************************)
(* The outbound delivery ledger (control/transport_store.py) and the       *)
(* workers that drive it (transports/telegram.py over ports.py and         *)
(* hermes.py).  A message is frozen as a projection with a row per chunk;  *)
(* a worker claims a chunk under a lease, is permitted one send, and       *)
(* settles the row with what the provider answered.  A worker is a daemon  *)
(* instance: its id is never reused, so one that dies leaves its claims    *)
(* behind.  Deployments without the chunk client send through the older,   *)
(* whole-message ledger (`legacy').                                        *)
(***************************************************************************)
EXTENDS Naturals, FiniteSets

CONSTANTS
    Events,         \* messages of committed run events: frozen by the worker
    Replies,        \* command replies and digests: frozen before they are sent
    ChunkWorkers,   \* daemon instances with the chunk client
    LegacyWorkers,  \* daemon instances without it
    NChunks,        \* chunks of every message
    MaxWindows,     \* bound: transport windows, the first one open
    MaxFaults,      \* bound: refusals, outages, deaths and late leases
    MaxRetries,     \* bound: times the operator asks for a chunk again
    Nil

DeliveryAssumption ==
    /\ NChunks \in Nat \ {0}
    /\ MaxWindows \in Nat \ {0} /\ MaxFaults \in Nat /\ MaxRetries \in Nat
    /\ Events \cap Replies = {} /\ ChunkWorkers \cap LegacyWorkers = {}
    /\ Nil \notin ChunkWorkers \union LegacyWorkers \union Events \union Replies

VARIABLES
    parent,     \* transport_delivery_projections.state, "none" if no row
    chunk,      \* transport_delivery_chunks
    legacy,     \* transport_deliveries
    worker,     \* the sending thread of each daemon
    window,     \* the transport window in force, 0 for none
    opened,     \* windows opened so far
    wire,       \* frames whose sender no longer waits for an answer
    posted,     \* how often each chunk was posted to the chat
    oldPosted,  \* messages of which the older ledger posted something
    granted,    \* the window in force at the last permit of each chunk
    retried,    \* how often the operator asked for a chunk again
    seen,       \* the revision the operator last saw a stranded chunk at
    faults

ledger == <<parent, chunk>>
chat == <<wire, posted, oldPosted>>
gate == <<window, opened>>
operator == <<retried, seen>>
vars == <<parent, chunk, legacy, worker, window, opened, wire, posted,
          oldPosted, granted, retried, seen, faults>>

Messages == Events \union Replies
Workers == ChunkWorkers \union LegacyWorkers
Chunks == 1 .. NChunks

ChunkStates == {"pending", "claimed", "sending_unknown", "delivered", "failed"}
ParentStates == {"none", "pending", "manual_required", "delivered", "failed"}
Answers == {"accepted", "rate_limited", "retryable_before_send", "rejected",
            "refused_before_send", "gate_closed", "unknown"}

FreshRow == [state |-> "pending", owner |-> Nil, epoch |-> 0, rev |-> 0,
             live |-> FALSE, deferred |-> FALSE, window |-> 0]
NoDelivery == [state |-> "none", owner |-> Nil, epoch |-> 0, live |-> FALSE]
Idle == [pc |-> "idle", m |-> Nil, i |-> 0, epoch |-> 0, rev |-> 0,
         window |-> 0, answer |-> Nil]
Dead == [Idle EXCEPT !.pc = "dead"]

Init ==
    /\ parent = [m \in Messages |-> "none"]
    /\ chunk = [m \in Messages |-> [i \in Chunks |-> FreshRow]]
    /\ legacy = [m \in Messages |-> NoDelivery]
    /\ worker = [w \in Workers |-> Idle]
    /\ window = 1 /\ opened = 1
    /\ wire = [m \in Messages |-> [i \in Chunks |-> 0]]
    /\ posted = wire /\ granted = wire /\ retried = wire /\ seen = wire
    /\ oldPosted = {}
    /\ faults = 0

Fault == faults < MaxFaults /\ faults' = faults + 1

-----------------------------------------------------------------------------
(* The ledger's operations.                                                *)

(* _refresh_transport_delivery_parent: what the rows say of the message.   *)
ParentOf(rows) ==
    LET states == {rows[i].state : i \in Chunks}
    IN  CASE states = {"delivered"} -> "delivered"
          [] "sending_unknown" \in states -> "manual_required"
          [] "failed" \in states /\ "sending_unknown" \notin states -> "failed"
          [] OTHER -> "pending"

(* Every mutation of a row refreshes the parent in the same transaction.   *)
PutRow(m, i, row) ==
    /\ chunk' = [chunk EXCEPT ![m][i] = row]
    /\ parent' = [parent EXCEPT ![m] = ParentOf([chunk[m] EXCEPT ![i] = row])]

(* _require_transport_chunk_fence, with what worker w remembers.           *)
Fence(row, w, source) ==
    /\ row.state = source
    /\ row.owner = w
    /\ row.epoch = worker[w].epoch
    /\ row.rev = worker[w].rev

(* Mutant of ClaimStatus: a send of unknown outcome can be claimed again.  *)
ClaimStatus_Resends(m, i) ==
    LET row == chunk[m][i]
    IN  CASE row.state \in {"delivered", "failed"} -> row.state
          [] \E j \in Chunks : j < i /\ chunk[m][j].state # "delivered" -> "chunk_order"
          [] row.state = "claimed" /\ row.live -> "claimed"
          [] row.state = "pending" /\ row.deferred -> "deferred"
          [] OTHER -> "claimable"

(* What claim_transport_delivery_chunk answers.  A chunk_order refusal is  *)
(* an exception.                                                           *)
ClaimStatus(m, i) ==
    LET row == chunk[m][i]
    IN  CASE row.state \in {"sending_unknown", "delivered", "failed"} -> row.state
          [] \E j \in Chunks : j < i /\ chunk[m][j].state # "delivered" -> "chunk_order"
          [] row.state = "claimed" /\ row.live -> "claimed"
          [] row.state = "pending" /\ row.deferred -> "deferred"
          [] OTHER -> "claimable"

ClaimedRow(row, w) ==
    [row EXCEPT !.state = "claimed", !.rev = @ + 1, !.owner = w,
                !.epoch = @ + 1, !.live = TRUE, !.deferred = FALSE]

(* begin_transport_delivery_chunk_send, permitted.                         *)
SendingRow(row) ==
    [row EXCEPT !.state = "sending_unknown", !.rev = @ + 1, !.live = FALSE]

(* complete_transport_delivery_chunk: the window is COALESCEd.             *)
DeliveredRow(row, authorizing) ==
    [row EXCEPT !.state = "delivered", !.rev = @ + 1, !.owner = Nil,
                !.window = IF authorizing = 0 THEN @ ELSE authorizing]

ReleasedRow(row, deferred) ==
    [row EXCEPT !.state = "pending", !.rev = @ + 1, !.owner = Nil,
                !.live = FALSE, !.deferred = deferred]

(* _fail_transport_delivery_chunk_row.                                     *)
FailedRow(row) ==
    [row EXCEPT !.state = "failed", !.rev = @ + 1, !.owner = Nil,
                !.live = FALSE, !.deferred = FALSE]

-----------------------------------------------------------------------------
(* A worker delivering one message (_deliver_frozen_event,                 *)
(* deliver_command_reply).                                                 *)

At(w, pc) == worker[w].pc = pc
Goto(w, pc) == worker' = [worker EXCEPT ![w].pc = pc]
Stop(w) == worker' = [worker EXCEPT ![w] = Idle]
Row(w) == chunk[worker[w].m][worker[w].i]

(* One claim, and what the chunk loop does with its answer.  `next' is     *)
(* where a worker that owns the claim goes on.                             *)
ClaimChunk(w, m, i, next) ==
    LET status == ClaimStatus(m, i)
        row == IF status = "claimable" THEN ClaimedRow(chunk[m][i], w)
               ELSE chunk[m][i]
        holding == [pc |-> next, m |-> m, i |-> i, epoch |-> row.epoch,
                    rev |-> row.rev, window |-> 0, answer |-> Nil]
    IN  /\ IF status = "claimable" THEN PutRow(m, i, row) ELSE UNCHANGED ledger
        /\ worker' = [worker EXCEPT ![w] =
              CASE status = "delivered" /\ i < NChunks -> [holding EXCEPT !.pc = "next"]
                [] status \in {"claimable", "claimed"} /\ row.owner = w -> holding
                [] OTHER -> Idle]

(* The drain enters a message: chunk 0 is claimed before anything else.    *)
(* An event that was never frozen is frozen by this worker.                *)
StartDelivery(w, m) ==
    /\ w \in ChunkWorkers /\ At(w, "idle")
    /\ IF parent[m] = "none"
       THEN /\ m \in Events
            /\ worker' = [worker EXCEPT ![w] = [Idle EXCEPT !.pc = "freeze", !.m = m]]
            /\ UNCHANGED ledger
       ELSE ClaimChunk(w, m, 1, "verify")
    /\ UNCHANGED <<legacy, gate, chat, granted, operator, faults>>

(* Replaying the freeze (an event) or matching the destination (a reply)   *)
(* may refuse: a claim this worker took is given back.                     *)
VerifyFrozen(w) ==
    /\ At(w, "verify")
    /\ \/ Goto(w, "observe") /\ UNCHANGED <<ledger, faults>>
       \/ /\ Fault /\ Stop(w)
          /\ IF Fence(Row(w), w, "claimed") /\ Row(w).live
             THEN PutRow(worker[w].m, worker[w].i, ReleasedRow(Row(w), FALSE))
             ELSE UNCHANGED ledger
    /\ UNCHANGED <<legacy, gate, chat, granted, operator>>

(* freeze_transport_delivery_projection.  A row of the older ledger ends   *)
(* it; another worker's freeze is replayed (or its drift is), unless the   *)
(* request hash differs.                                                   *)
FreezeProjection(m) ==
    IF parent[m] = "none" /\ legacy[m].state = "none"
    THEN /\ parent' = [parent EXCEPT ![m] = "pending"]
         /\ UNCHANGED chunk
    ELSE UNCHANGED ledger

FreezeEvent(w) ==
    LET m == worker[w].m
    IN  /\ At(w, "freeze")
        /\ FreezeProjection(m)
        /\ \/ /\ legacy[m].state = "none"
              /\ worker' = [worker EXCEPT ![w].pc = "next", ![w].i = 0]
              /\ UNCHANGED faults
           \/ /\ legacy[m].state # "none" /\ Stop(w)
              /\ UNCHANGED faults
           \/ /\ legacy[m].state = "none" /\ parent[m] # "none"
              /\ Stop(w) /\ Fault
        /\ UNCHANGED <<legacy, gate, chat, granted, operator>>

(* _freeze_reply_projection, deliver_xhs_digest: an earlier freeze wins.   *)
FreezeReply(m) ==
    /\ m \in Replies
    /\ parent[m] = "none"
    /\ FreezeProjection(m)
    /\ UNCHANGED <<legacy, worker, gate, chat, granted, operator, faults>>

ClaimNext(w) ==
    /\ At(w, "next")
    /\ ClaimChunk(w, worker[w].m, worker[w].i + 1, "observe")
    /\ UNCHANGED <<legacy, gate, chat, granted, operator, faults>>

(* The client's capability digest: unreadable or different, the claim is   *)
(* released (under its lease) and nothing is sent.                         *)
ObserveCapability(w) ==
    /\ At(w, "observe")
    /\ \/ Goto(w, "begin") /\ UNCHANGED <<ledger, faults>>
       \/ /\ Fault /\ Stop(w)
          /\ IF Fence(Row(w), w, "claimed") /\ Row(w).live
             THEN PutRow(worker[w].m, worker[w].i, ReleasedRow(Row(w), FALSE))
             ELSE UNCHANGED ledger
    /\ UNCHANGED <<legacy, gate, chat, granted, operator>>

(* begin_transport_delivery_chunk_send: refused when the claim is stale,   *)
(* failed when a capability of the chunk expires before the send would     *)
(* time out; else the row is sending_unknown from here on, and the permit  *)
(* names the window in force.                                              *)
BeginSend(w) ==
    LET m == worker[w].m  i == worker[w].i  row == Row(w)
    IN  /\ At(w, "begin")
        /\ \/ /\ ~(Fence(row, w, "claimed") /\ row.live)
              /\ Stop(w)
              /\ UNCHANGED <<ledger, granted, faults>>
           \/ /\ Fence(row, w, "claimed") /\ row.live
              /\ Fault /\ PutRow(m, i, FailedRow(row)) /\ Stop(w)
              /\ UNCHANGED granted
           \/ /\ Fence(row, w, "claimed") /\ row.live
              /\ PutRow(m, i, SendingRow(row))
              /\ worker' = [worker EXCEPT ![w].pc = "send",
                               ![w].rev = row.rev + 1, ![w].window = window]
              /\ granted' = [granted EXCEPT ![m][i] = window]
              /\ UNCHANGED faults
        /\ UNCHANGED <<legacy, gate, chat, operator>>

(* send_chunk: the permit is consumed and one frame is handed to the       *)
(* worker process, unless the gate has closed since.  Only an accepted     *)
(* frame is known to be posted; an unknown outcome leaves the frame on the *)
(* wire.                                                                   *)
SendChunk(w) ==
    LET m == worker[w].m  i == worker[w].i
    IN  /\ At(w, "send")
        /\ \E a \in Answers :
              /\ (a = "gate_closed") = (window = 0)
              /\ worker' = [worker EXCEPT ![w].pc = "settle", ![w].answer = a]
              /\ posted' = IF a = "accepted"
                           THEN [posted EXCEPT ![m][i] = @ + 1] ELSE posted
              /\ wire' = IF a = "unknown"
                         THEN [wire EXCEPT ![m][i] = @ + 1] ELSE wire
              /\ IF a \in {"accepted", "gate_closed"} THEN UNCHANGED faults ELSE Fault
        /\ UNCHANGED <<ledger, legacy, gate, oldPosted, granted, operator>>

(* What the answer does to the row.                                        *)
SettledRow(row, permit) ==
    CASE permit.answer = "accepted" -> DeliveredRow(row, permit.window)
      [] permit.answer \in {"retryable_before_send", "refused_before_send"} ->
            ReleasedRow(row, FALSE)
      [] permit.answer = "rate_limited" -> ReleasedRow(row, TRUE)
      [] permit.answer = "rejected" -> FailedRow(row)

(* Mutant of SettleChunk: an unknown outcome gives the chunk back.         *)
SettleChunk_GivesBack(w) ==
    LET p == worker[w]
    IN  /\ At(w, "settle")
        /\ IF Fence(Row(w), w, "sending_unknown")
           THEN PutRow(p.m, p.i, IF p.answer \in {"unknown", "gate_closed"}
                                 THEN ReleasedRow(Row(w), FALSE)
                                 ELSE SettledRow(Row(w), p))
           ELSE UNCHANGED ledger
        /\ Stop(w)
        /\ UNCHANGED <<legacy, gate, chat, granted, operator, faults>>

(* complete, release or fail.  An unknown outcome settles nothing, nor     *)
(* does the gate's refusal, which the client reports as an unknown outcome; *)
(* an operator who resolved the row first makes the fence refuse.          *)
SettleChunk(w) ==
    LET p == worker[w]
        fenced == p.answer \notin {"unknown", "gate_closed"} /\ Fence(Row(w), w, "sending_unknown")
    IN  /\ At(w, "settle")
        /\ IF fenced THEN PutRow(p.m, p.i, SettledRow(Row(w), p))
                     ELSE UNCHANGED ledger
        /\ IF fenced /\ p.answer = "accepted" /\ p.i < NChunks
           THEN worker' = [worker EXCEPT ![w] =
                              [Idle EXCEPT !.pc = "next", !.m = p.m, !.i = p.i]]
           ELSE Stop(w)
        /\ UNCHANGED <<legacy, gate, chat, granted, operator, faults>>

-----------------------------------------------------------------------------
(* The older ledger: one claim, all chunks, one completion.                *)

ReserveDelivery(w, m) ==
    /\ w \in LegacyWorkers /\ m \in Events /\ At(w, "idle")
    /\ parent[m] = "none"
    /\ legacy[m].state # "delivered"
    /\ ~(legacy[m].state = "claimed" /\ legacy[m].live)
    /\ legacy' = [legacy EXCEPT ![m] =
                    [state |-> "claimed", owner |-> w, epoch |-> @.epoch + 1,
                     live |-> TRUE]]
    /\ worker' = [worker EXCEPT ![w] = [Idle EXCEPT !.pc = "old_send", !.m = m,
                                           !.epoch = legacy[m].epoch + 1]]
    /\ UNCHANGED <<ledger, gate, chat, granted, operator, faults>>

(* Some or all chunks are written before the client answers or raises.     *)
SendWhole(w) ==
    /\ At(w, "old_send")
    /\ \/ /\ oldPosted' = oldPosted \union {worker[w].m}
          /\ Goto(w, "old_done") /\ UNCHANGED faults
       \/ /\ Fault /\ Goto(w, "old_release")
          /\ oldPosted' \in {oldPosted, oldPosted \union {worker[w].m}}
    /\ UNCHANGED <<ledger, legacy, gate, wire, posted, granted, operator>>

OldFence(w) ==
    /\ legacy[worker[w].m].state = "claimed"
    /\ legacy[worker[w].m].owner = w
    /\ legacy[worker[w].m].epoch = worker[w].epoch

(* complete_transport_delivery needs the lease; without it the claim is    *)
(* released, which only needs the epoch.                                   *)
CompleteDelivery(w) ==
    LET m == worker[w].m
    IN  /\ At(w, "old_done")
        /\ IF OldFence(w) /\ legacy[m].live
           THEN /\ legacy' = [legacy EXCEPT ![m].state = "delivered",
                                 ![m].owner = Nil, ![m].live = FALSE]
                /\ Stop(w)
           ELSE Goto(w, "old_release") /\ UNCHANGED legacy
        /\ UNCHANGED <<ledger, gate, chat, granted, operator, faults>>

ReleaseDelivery(w) ==
    /\ At(w, "old_release")
    /\ legacy' = IF OldFence(w)
                 THEN [legacy EXCEPT ![worker[w].m].state = "pending",
                          ![worker[w].m].owner = Nil, ![worker[w].m].live = FALSE]
                 ELSE legacy
    /\ Stop(w)
    /\ UNCHANGED <<ledger, gate, chat, granted, operator, faults>>

-----------------------------------------------------------------------------
(* The operator, the gate, the wire, time and death.                       *)

OperatorLooks(m, i) ==
    /\ chunk[m][i].state = "sending_unknown"
    /\ seen[m][i] # chunk[m][i].rev
    /\ seen' = [seen EXCEPT ![m][i] = chunk[m][i].rev]
    /\ UNCHANGED <<ledger, legacy, worker, gate, chat, granted, retried, faults>>

(* resolve_transport_delivery_chunk_sending_unknown with the revision the  *)
(* operator saw.  A repeated request returns its recorded answer.          *)
ResolveUnknown(m, i, resolution) ==
    LET row == chunk[m][i]
    IN  /\ row.state = "sending_unknown"
        /\ row.rev = seen[m][i]
        /\ IF resolution = "assume_delivered"
           THEN /\ PutRow(m, i, DeliveredRow(row, 0))
                /\ UNCHANGED retried
           ELSE /\ retried[m][i] < MaxRetries
                /\ PutRow(m, i, ReleasedRow(row, row.deferred))
                /\ retried' = [retried EXCEPT ![m][i] = @ + 1]
        /\ UNCHANGED <<legacy, worker, gate, chat, granted, seen, faults>>

OpenWindow ==
    /\ opened < MaxWindows
    /\ opened' = opened + 1 /\ window' = opened + 1
    /\ UNCHANGED <<ledger, legacy, worker, chat, granted, operator, faults>>

CloseWindow ==
    /\ window # 0 /\ window' = 0
    /\ UNCHANGED <<ledger, legacy, worker, opened, chat, granted, operator, faults>>

(* A frame nobody waits for is posted after all, or is lost.               *)
LateFrame(m, i) ==
    /\ wire[m][i] > 0
    /\ wire' = [wire EXCEPT ![m][i] = @ - 1]
    /\ posted' \in {posted, [posted EXCEPT ![m][i] = @ + 1]}
    /\ UNCHANGED <<ledger, legacy, worker, gate, oldPosted, granted, operator, faults>>

(* A lease runs out: on a dead worker's claim, or (a fault) under a live   *)
(* worker that is late.                                                    *)
ExpireLease(m) ==
    /\ \/ \E i \in Chunks :
            /\ chunk[m][i].live
            /\ IF At(chunk[m][i].owner, "dead") THEN UNCHANGED faults ELSE Fault
            /\ chunk' = [chunk EXCEPT ![m][i].live = FALSE]
            /\ UNCHANGED legacy
       \/ /\ legacy[m].live
          /\ IF At(legacy[m].owner, "dead") THEN UNCHANGED faults ELSE Fault
          /\ legacy' = [legacy EXCEPT ![m].live = FALSE]
          /\ UNCHANGED chunk
    /\ UNCHANGED <<parent, worker, gate, chat, granted, operator>>

EndDeferral(m, i) ==
    /\ chunk[m][i].deferred
    /\ chunk' = [chunk EXCEPT ![m][i].deferred = FALSE]
    /\ UNCHANGED <<parent, legacy, worker, gate, chat, granted, operator, faults>>

(* The daemon dies: its claims stay, a permit it held may have been used.  *)
Die(w) ==
    /\ worker[w].pc # "dead"
    /\ Fault
    /\ worker' = [worker EXCEPT ![w] = Dead]
    /\ wire' = IF At(w, "send")
               THEN [wire EXCEPT ![worker[w].m][worker[w].i] = @ + 1] ELSE wire
    /\ UNCHANGED <<ledger, legacy, gate, posted, oldPosted, granted, operator>>

-----------------------------------------------------------------------------
Step(w) ==
    \/ \E m \in Messages : StartDelivery(w, m) \/ ReserveDelivery(w, m)
    \/ VerifyFrozen(w) \/ FreezeEvent(w) \/ ClaimNext(w) \/ ObserveCapability(w)
    \/ BeginSend(w) \/ SendChunk(w) \/ SettleChunk(w)
    \/ SendWhole(w) \/ CompleteDelivery(w) \/ ReleaseDelivery(w)

Next ==
    \/ \E w \in Workers : Step(w) \/ Die(w)
    \/ \E m \in Messages : FreezeReply(m) \/ ExpireLease(m)
    \/ \E m \in Messages, i \in Chunks :
          \/ OperatorLooks(m, i) \/ LateFrame(m, i) \/ EndDeferral(m, i)
          \/ \E r \in {"assume_delivered", "retry"} : ResolveUnknown(m, i, r)
    \/ OpenWindow \/ CloseWindow

Spec == Init /\ [][Next]_vars

-----------------------------------------------------------------------------
(***************************************************************************)
(* Fairness: a daemon whose drain loop runs takes its next step, and every *)
(* pass meets every message the ledger still owes (drain.py resumes the    *)
(* pending rows before anything else); leases of the dead run out and a    *)
(* rate limit ends.                                                        *)
(***************************************************************************)
Fairness ==
    /\ \A w \in Workers :
          /\ WF_vars(VerifyFrozen(w) \/ FreezeEvent(w) \/ ClaimNext(w)
                       \/ ObserveCapability(w) \/ BeginSend(w) \/ SendChunk(w)
                       \/ SettleChunk(w))
          /\ \A m \in Messages : SF_vars(parent[m] = "pending" /\ StartDelivery(w, m))
    /\ \A m \in Messages : WF_vars(ExpireLease(m))
    /\ \A m \in Messages, i \in Chunks : WF_vars(EndDeferral(m, i))

FairSpec == Spec /\ Fairness

-----------------------------------------------------------------------------
(* Properties.                                                             *)

Rows == [state : ChunkStates, owner : Workers \union {Nil}, epoch : Nat,
         rev : Nat, live : BOOLEAN, deferred : BOOLEAN, window : 0 .. MaxWindows]

TypeOK ==
    /\ parent \in [Messages -> ParentStates]
    /\ chunk \in [Messages -> [Chunks -> Rows]]
    /\ \A m \in Messages : legacy[m].state \in {"none", "pending", "claimed", "delivered"}
    /\ \A w \in Workers :
          /\ worker[w].i \in 0 .. NChunks
          /\ worker[w].answer \in Answers \union {Nil}
    /\ window \in 0 .. MaxWindows /\ faults \in 0 .. MaxFaults
    /\ oldPosted \subseteq Events

(* Permits of chunk i whose frame has not been handed over yet.            *)
Permits(m, i) ==
    Cardinality({w \in Workers : /\ At(w, "send")
                                 /\ worker[w].m = m /\ worker[w].i = i})

(* No chunk is posted twice unless the operator asked for it again: not    *)
(* after a crash, a lapsed lease, a refusal, a lost answer or a second     *)
(* daemon (telegram.py _send_frozen_chunks, P5-01).                        *)
NoBlindResend ==
    \A m \in Messages, i \in Chunks :
        posted[m][i] + wire[m][i] + Permits(m, i) <= 1 + retried[m][i]

(* A chunk can be on its way to the chat only when everything in front of  *)
(* it is delivered (the chunk_order refusal of the claim).                 *)
InOrder ==
    \A m \in Messages, i \in Chunks : \A j \in Chunks :
        /\ j < i
        /\ posted[m][i] + wire[m][i] + Permits(m, i) > 0
        => chunk[m][j].state = "delivered"

(* A delivered chunk names the window that permitted its send, whatever    *)
(* happened to the gate before the receipt (ports.py complete, AMD-5).     *)
WindowAttribution ==
    \A m \in Messages, i \in Chunks :
        chunk[m][i].window # 0 => chunk[m][i].window = granted[m][i]

(* A message goes out through one ledger only, whichever deployment's      *)
(* daemon met it first and whatever that daemon left unfinished.           *)
OneLedger ==
    \A m \in oldPosted : \A i \in Chunks : posted[m][i] + wire[m][i] = 0

(* What is settled stays settled: neither a delivered or failed chunk nor  *)
(* its message ever changes state again, whoever answers late.             *)
SettledIsFinal ==
     \A m \in Messages :
       /\ parent[m] \in {"delivered", "failed"} => parent'[m] = parent[m]
       /\ \A i \in Chunks : chunk[m][i].state \in {"delivered", "failed"}
             => chunk'[m][i].state = chunk[m][i].state 

(* The ledger implements the promise of module Delivery.                   *)
Owed == INSTANCE Delivery WITH
    st <- [m \in Messages |-> [i \in Chunks |->
             CASE chunk[m][i].state = "sending_unknown" -> "maybe"
               [] chunk[m][i].state = "delivered" -> "done"
               [] chunk[m][i].state = "failed" -> "refused"
               [] OTHER -> "owed"]],
    sent <- posted, again <- retried

ImplementsDelivery == Owed!Spec
=============================================================================
