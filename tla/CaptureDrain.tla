---------------------------- MODULE CaptureDrain ----------------------------
(***************************************************************************)
(* The capture inbox and the tick that drains it (control/store.py,         *)
(* engine/capture_consumer.py, port.py, supervisor.py, child.py,            *)
(* schedules.py).  An operator captures a paper and approves it; the one    *)
(* tick thread of cortexd claims it, opens a carrier run with one durable   *)
(* effect, runs the engine in a child process over a copied research.db,    *)
(* adopts what the child wrote, and settles effect, carrier and capture in   *)
(* separate transactions.  Nothing may be ingested twice unasked: a second   *)
(* ingest can mint a second directory for the same paper.                    *)
(*                                                                         *)
(* Abstracted: a payload is the arXiv paper it names or NotArxiv; refusal    *)
(* categories are one value; a lease is live or expired.  cortexd may die    *)
(* between any two steps, leaving its child to run on as an orphan.          *)
(***************************************************************************)
EXTENDS Naturals, FiniteSets

CONSTANTS
    Captures, Papers, NotArxiv,
    Foreign,         \* BOOLEAN: another actor may own the carrier's thread or run
    MaxReopens, MaxCrashes, MaxGates, MaxEdits   \* bounds

VARIABLES cap, eff, carrier, copy, adopted, gate, sched, child, orphan, worker, past, spent

vars == <<cap, eff, carrier, copy, adopted, gate, sched, child, orphan, worker, past, spent>>

None == "none"
Open == {"pending", "approved", "claimed", "uncertain"}
NoKid == [op |-> None, on |-> None, phase |-> None, said |-> None]
Idle == [pc |-> "idle", on |-> None, epoch |-> 0, listed |-> None]

Init ==
    /\ cap = [c \in Captures |-> [state |-> None, payload |-> None, epoch |-> 0, lease |-> None]]
    /\ eff = [c \in Captures |-> [state |-> None, lease |-> None]]
    /\ \E t \in {"none", "foreign"}, r \in {"none", "foreign"} :
        /\ ~Foreign => t = None /\ r = None
        /\ r = "foreign" => t = None
        /\ carrier = [c \in Captures |->
                        [thread |-> IF r = "foreign" THEN "own" ELSE t, run |-> r, stage |-> None]]
    /\ copy = [dirs |-> [p \in Papers |-> 0], wal |-> FALSE]
    /\ adopted = {}
    /\ gate = TRUE
    /\ sched = [enabled |-> TRUE, due |-> TRUE, rev |-> 0]
    /\ child = NoKid
    /\ orphan = NoKid
    /\ worker = Idle
    /\ past = [c \in Captures |-> [reopens |-> 0, launches |-> 0, absences |-> 0]]
    /\ spent = [crashes |-> 0, gates |-> 0]

----------------------------------------------------------------------------
(* The operator: captures, decisions, the activation window, the schedule *)

(* create_capture: only an open capture of the same payload blocks.  Kept
   in the order of the ids, as list_pending_captures returns the oldest.  *)
CreateCapture(c, p) ==
    /\ cap[c].state = None
    /\ \A d \in Captures : cap[d].payload = p => cap[d].state \notin Open
    /\ cap' = [cap EXCEPT ![c].state = "pending", ![c].payload = p]
    /\ UNCHANGED <<eff, carrier, copy, adopted, gate, sched, child, orphan, worker, past, spent>>

ApproveCapture(c) ==
    /\ cap[c].state = "pending"
    /\ cap' = [cap EXCEPT ![c].state = "approved"]
    /\ UNCHANGED <<eff, carrier, copy, adopted, gate, sched, child, orphan, worker, past, spent>>

(* dismiss_capture: not a claimed row, whose consumer may be ingesting. *)
Dismissable == {"pending", "approved", "uncertain"}

DismissCapture(c) ==
    /\ cap[c].state \in Dismissable
    /\ cap' = [cap EXCEPT ![c].state = "dismissed"]
    /\ UNCHANGED <<eff, carrier, copy, adopted, gate, sched, child, orphan, worker, past, spent>>

(* reopen_capture: the acknowledged second authorisation; the epoch stays. *)
ReopenCapture(c) ==
    /\ cap[c].state = "uncertain"
    /\ past[c].reopens < MaxReopens
    /\ cap' = [cap EXCEPT ![c].state = "approved", ![c].lease = None]
    /\ past' = [past EXCEPT ![c].reopens = @ + 1]
    /\ UNCHANGED <<eff, carrier, copy, adopted, gate, sched, child, orphan, worker, spent>>

(* The activation window closes or opens, at any moment. *)
FlipGate ==
    /\ spent.gates < MaxGates
    /\ gate' = ~gate
    /\ spent' = [spent EXCEPT !.gates = @ + 1]
    /\ UNCHANGED <<cap, eff, carrier, copy, adopted, sched, child, orphan, worker, past>>

(* set_research_schedule_enabled *)
SetEnabled ==
    /\ sched.rev < MaxEdits
    /\ sched' = [sched EXCEPT !.enabled = ~@, !.rev = @ + 1]
    /\ UNCHANGED <<cap, eff, carrier, copy, adopted, gate, child, orphan, worker, past, spent>>

(* The foreign run the operator started on the capture's thread ends. *)
EndForeignRun(c) ==
    /\ carrier[c].run = "foreign"
    /\ carrier' = [carrier EXCEPT ![c].run = None]
    /\ UNCHANGED <<cap, eff, copy, adopted, gate, sched, child, orphan, worker, past, spent>>

----------------------------------------------------------------------------
(* Time *)

ExpireCaptureLease(c) ==
    /\ cap[c].state = "claimed" /\ cap[c].lease = "live"
    /\ cap' = [cap EXCEPT ![c].lease = "expired"]
    /\ UNCHANGED <<eff, carrier, copy, adopted, gate, sched, child, orphan, worker, past, spent>>

ExpireEffectLease(c) ==
    /\ eff[c].lease = "live"
    /\ eff' = [eff EXCEPT ![c].lease = "expired"]
    /\ UNCHANGED <<cap, carrier, copy, adopted, gate, sched, child, orphan, worker, past, spent>>

Due ==
    /\ ~sched.due
    /\ sched' = [sched EXCEPT !.due = TRUE]
    /\ UNCHANGED <<cap, eff, carrier, copy, adopted, gate, child, orphan, worker, past, spent>>

----------------------------------------------------------------------------
(* The tick, up to the claim *)

(* _sweep_expired_captures: a lost claim is never handed out again. *)
Swept(caps) ==
    [c \in Captures |->
        IF caps[c].state = "claimed" /\ caps[c].lease = "expired"
        THEN [caps[c] EXCEPT !.state = "uncertain", !.lease = None] ELSE caps[c]]

(* list_pending_captures *)
Pending(caps) == {c \in Captures : caps[c].state = "approved"}

(* record_research_schedule_outcome, under the revision that was listed: a
   row the operator moved meanwhile keeps its due time, and the tick fails.
   Of the row's revisions only the operator's are counted. *)
Recorded == IF worker.listed = sched.rev
            THEN [sched EXCEPT !.due = FALSE] ELSE sched

(* ResearchScheduleTick.run and run_once: the gate before anything else. *)
Tick ==
    /\ worker.pc = "idle" /\ sched.enabled /\ sched.due /\ gate
    /\ cap' = Swept(cap)
    /\ IF Pending(cap') = {}
       THEN /\ sched' = [sched EXCEPT !.due = FALSE]
            /\ UNCHANGED worker
       ELSE /\ \E c \in Pending(cap') :
                   worker' = [pc |-> "claim", on |-> c, epoch |-> 0, listed |-> sched.rev]
            /\ UNCHANGED sched
    /\ UNCHANGED <<eff, carrier, copy, adopted, gate, child, orphan, past, spent>>

(* The tick ends; an exception that escapes run_once ends it as well, and
   leaves the capture as it is. *)
EndTick == worker' = Idle /\ sched' = Recorded

Goto(pc) == worker' = [worker EXCEPT !.pc = pc] /\ UNCHANGED sched

(* claim_capture: refused when the row left "approved" since it was listed. *)
ClaimCapture ==
    /\ worker.pc = "claim"
    /\ LET c == worker.on
           now == Swept(cap) IN
       IF now[c].state = "approved"
       THEN /\ cap' = [now EXCEPT ![c].state = "claimed", ![c].lease = "live", ![c].epoch = @ + 1]
            /\ worker' = [worker EXCEPT !.pc = "resume", !.epoch = cap[c].epoch + 1]
            /\ UNCHANGED sched
       ELSE EndTick /\ UNCHANGED cap
    /\ UNCHANGED <<eff, carrier, copy, adopted, gate, child, orphan, past, spent>>

(* complete_capture: fenced by the claim's epoch, whatever its lease. *)
Complete(outcome) ==
    LET c == worker.on IN
    /\ cap' = IF cap[c].state = "claimed" /\ cap[c].epoch = worker.epoch
              THEN [cap EXCEPT ![c].state = outcome, ![c].lease = None] ELSE cap
    /\ EndTick

----------------------------------------------------------------------------
(* The carrier *)

(* _existing_effect and _carrier, one transaction a step: the thread, the
   run with its sealed workflow, the active stage, the effect. *)
Carry ==
    /\ worker.pc = "resume"
    /\ LET c == worker.on
           here == carrier[c] IN
       \/ /\ eff[c].state # None
          /\ Goto("consume")
          /\ UNCHANGED <<cap, eff, carrier>>
       \/ /\ here.thread = "foreign" \/ (here.thread = "own" /\ here.run = "foreign")
          /\ eff[c].state = None
          /\ Complete("uncertain")
          /\ UNCHANGED <<eff, carrier>>
       \/ /\ eff[c].state = None /\ here.thread = None
          /\ carrier' = [carrier EXCEPT ![c].thread = "own"]
          /\ UNCHANGED <<cap, eff, worker, sched>>
       \/ /\ eff[c].state = None /\ here.thread = "own" /\ here.run = None
          /\ carrier' = [carrier EXCEPT ![c].run = "open", ![c].stage = "ready"]
          /\ UNCHANGED <<cap, eff, worker, sched>>
       \/ /\ eff[c].state = None /\ here.run = "open" /\ here.stage = "ready"
          /\ carrier' = [carrier EXCEPT ![c].stage = "active"]
          /\ UNCHANGED <<cap, eff, worker, sched>>
       \/ /\ eff[c].state = None /\ here.run = "open" /\ here.stage = "active"
          /\ eff' = [eff EXCEPT ![c].state = "pending"]
          /\ UNCHANGED <<cap, carrier, worker, sched>>
    /\ UNCHANGED <<copy, adopted, gate, child, orphan, past, spent>>

(* _consume: what the effect found asks for.  A completed one is replayed
   into the capture once a source carries its directory; one that is neither
   settled nor unknown is dispatched, and a claim the store refuses leaves
   the capture to its lease. *)
Consume ==
    /\ worker.pc = "consume"
    /\ LET c == worker.on
           now == eff[c].state IN
       \/ /\ now = "completed"
          /\ Complete(IF cap[c].payload \in adopted THEN "consumed" ELSE "uncertain")
       \/ now = "failed" /\ Complete("failed")
       \/ now \in {"outcome_unknown", "reconciling"} /\ Goto("heal") /\ UNCHANGED cap
       \/ now \in {"pending", "claimed"} /\ Goto("dispatch") /\ UNCHANGED cap
       \/ now = "manual_required" /\ EndTick /\ UNCHANGED cap
    /\ UNCHANGED <<eff, carrier, copy, adopted, gate, child, orphan, past, spent>>

----------------------------------------------------------------------------
(* Children *)

(* ResearchEffectSupervisor.run: the gate is asked again for every child. *)
Spawn(op, next) ==
    /\ child' = [op |-> op, on |-> worker.on, phase |-> "start", said |-> None]
    /\ Goto(next)

PaperOf(kid) == cap[kid.on].payload

(* ingest_arxiv: a paper already in the corpus is answered from there, and
   one that is not is written in two steps, the write-ahead log still full. *)
IngestStep(kid, next, copied) ==
    \/ /\ kid.phase = "start"
       /\ next = IF copy.dirs[PaperOf(kid)] > 0 THEN [kid EXCEPT !.phase = "ready"]
                 ELSE [kid EXCEPT !.phase = "fetched"]
       /\ copied = copy
    \/ /\ kid.phase = "fetched"
       /\ next = [kid EXCEPT !.phase = "ready"]
       /\ copied = [dirs |-> [copy.dirs EXCEPT ![PaperOf(kid)] = @ + 1], wal |-> TRUE]

(* child.run: the completion protocol, in order.  A handler that fails is
   refused at any point, the log is truncated whatever happened, and a
   success that does not pass the protocol is an unknown outcome. *)
ExitStep(kid, next, copied) ==
    \/ /\ kid.phase = "ready" \/ (kid.op # "ingest" /\ kid.phase = "start")
       /\ kid.op = "reconcile" => PaperOf(kid) \in Papers
       /\ next = [kid EXCEPT !.phase = "exited", !.said = "ok"]
       /\ copied = [copy EXCEPT !.wal = FALSE]
    \/ /\ kid.phase \in {"start", "fetched", "ready"}
       /\ next \in {[kid EXCEPT !.phase = "exited", !.said = s] : s \in {"refused", "unknown"}}
       /\ copied = [copy EXCEPT !.wal = FALSE]

(* _judge on a kill, a timeout or a lost reply: no result was read. *)
KillStep(kid, next, copied) ==
    /\ kid.phase \in {"start", "fetched", "ready"}
    /\ next = [kid EXCEPT !.phase = "exited", !.said = "unknown"]
    /\ copied = copy

ChildRuns ==
    /\ child.op # None /\ child.phase # "exited"
    /\ \E next \in [op : {child.op}, on : {child.on}, phase : {"fetched", "ready", "exited"},
                    said : {None, "ok", "refused", "unknown"}] :
       \E d \in {copy, [copy EXCEPT !.wal = FALSE]}
                 \cup {[dirs |-> [copy.dirs EXCEPT ![p] = @ + 1], wal |-> TRUE] : p \in Papers} :
        /\ \/ child.op = "ingest" /\ IngestStep(child, next, d)
           \/ ExitStep(child, next, d)
           \/ KillStep(child, next, d)
        /\ child' = next /\ copy' = d
    /\ UNCHANGED <<cap, eff, carrier, adopted, gate, sched, orphan, worker, past, spent>>

(* The child of a dead cortexd: its answer goes nowhere. *)
OrphanRuns ==
    /\ orphan.op # None
    /\ \E next \in [op : {orphan.op}, on : {orphan.on}, phase : {"fetched", "ready", "exited"},
                    said : {None, "ok", "refused", "unknown"}] :
       \E d \in {copy, [copy EXCEPT !.wal = FALSE]}
                 \cup {[dirs |-> [copy.dirs EXCEPT ![p] = @ + 1], wal |-> TRUE] : p \in Papers} :
        /\ \/ orphan.op = "ingest" /\ IngestStep(orphan, next, d)
           \/ ExitStep(orphan, next, d)
           \/ KillStep(orphan, next, d)
        /\ orphan' = IF next.phase = "exited" THEN NoKid ELSE next
        /\ copy' = d
    /\ UNCHANGED <<cap, eff, carrier, adopted, gate, sched, child, worker, past, spent>>

(* _adopt: the manifest over the ingested directories, and its sources. *)
Adopted(p) == adopted \cup {p}

----------------------------------------------------------------------------
(* The known-unknown: heal, reconcile *)

(* heal: a checkpoint child, whose answer nobody reads.  A window that
   closed since the claim is a permanent rejection here as everywhere. *)
Heal ==
    /\ worker.pc = "heal"
    /\ \/ gate /\ Spawn("checkpoint", "healed") /\ UNCHANGED cap
       \/ ~gate /\ Complete("failed") /\ UNCHANGED child
    /\ UNCHANGED <<eff, carrier, copy, adopted, gate, orphan, past, spent>>

(* claim_workflow_effect_reconciliation: a live reconciliation is refused. *)
ClaimReconciliation ==
    /\ worker.pc = "healed" /\ child.phase = "exited"
    /\ child' = NoKid
    /\ LET c == worker.on IN
       IF eff[c].state = "outcome_unknown" \/ eff[c].lease = "expired"
       THEN eff' = [eff EXCEPT ![c] = [state |-> "reconciling", lease |-> "live"]] /\ Goto("ask")
       ELSE EndTick /\ UNCHANGED eff
    /\ UNCHANGED <<cap, carrier, copy, adopted, gate, orphan, past, spent>>

AskCopy ==
    /\ worker.pc = "ask"
    /\ \/ gate /\ Spawn("reconcile", "asked") /\ UNCHANGED cap
       \/ ~gate /\ Complete("failed") /\ UNCHANGED child
    /\ UNCHANGED <<eff, carrier, copy, adopted, gate, orphan, past, spent>>

(* reconcile_effect and complete_workflow_effect_reconciliation: an answer
   that is not ok is manual, an absence puts the effect back, a directory is
   adopted first.  A claim that expired meanwhile settles nothing. *)
Reconciled ==
    /\ worker.pc = "asked" /\ child.phase = "exited"
    /\ child' = NoKid
    /\ LET c == worker.on
           p == cap[c].payload
           settle(s) == eff' = [eff EXCEPT ![c] = [state |-> s, lease |-> None]] IN
       \/ /\ child.said = "ok" /\ copy.dirs[p] > 0
          /\ \/ /\ copy.wal                     \* the reader refuses an open log
                /\ Complete("uncertain")
                /\ UNCHANGED <<eff, adopted, past>>
             \/ /\ ~copy.wal
                /\ adopted' = Adopted(p)
                /\ IF eff[c].lease = "live" THEN settle("completed") /\ Goto("consume")
                                            ELSE EndTick /\ UNCHANGED eff
                /\ UNCHANGED <<cap, past>>
             \/ /\ ~copy.wal                    \* the manifest is refused
                /\ Complete("failed")
                /\ UNCHANGED <<eff, adopted, past>>
       \/ /\ eff[c].lease = "live" /\ child.said = "ok" /\ copy.dirs[p] = 0
          /\ settle("pending") /\ Goto("dispatch")
          /\ past' = [past EXCEPT ![c].absences = @ + 1]
          /\ UNCHANGED <<cap, adopted>>
       \/ /\ eff[c].lease = "live" /\ child.said # "ok"
          /\ settle("manual_required") /\ Complete("uncertain")
          /\ UNCHANGED <<adopted, past>>
       \/ /\ eff[c].lease = "expired" /\ (child.said = "ok" => copy.dirs[p] = 0)
          /\ EndTick
          /\ UNCHANGED <<cap, eff, adopted, past>>
    /\ UNCHANGED <<carrier, copy, gate, orphan, spent>>

----------------------------------------------------------------------------
(* The dispatch *)

(* claim_workflow_effect: an expired claim of a mutation is not taken over
   but marked unknown, and the capture goes back to the operator. *)
ClaimEffect ==
    /\ worker.pc = "dispatch"
    /\ LET c == worker.on IN
       \/ /\ eff[c].state = "pending" /\ carrier[c].run = "open"
          /\ eff' = [eff EXCEPT ![c] = [state |-> "claimed", lease |-> "live"]]
          /\ Goto("import") /\ UNCHANGED cap
       \/ /\ eff[c].state = "claimed" /\ eff[c].lease = "expired"
          /\ eff' = [eff EXCEPT ![c] = [state |-> "outcome_unknown", lease |-> None]]
          /\ Complete("uncertain")
       \/ /\ \/ eff[c].state = "claimed" /\ eff[c].lease = "live"
             \/ eff[c].state = "pending" /\ carrier[c].run # "open"
          /\ EndTick /\ UNCHANGED <<cap, eff>>
    /\ UNCHANGED <<carrier, copy, adopted, gate, child, orphan, past, spent>>

(* reject_workflow_effect with _settle_workflow_failure: the effect, its
   stage and the carrier run fail together, if the claim is still live. *)
Reject(c) ==
    IF eff[c].lease = "live"
    THEN /\ eff' = [eff EXCEPT ![c] = [state |-> "failed", lease |-> None]]
         /\ carrier' = [carrier EXCEPT ![c].run = "ended", ![c].stage = "failed"]
         /\ Goto("failing") /\ UNCHANGED cap
    ELSE EndTick /\ UNCHANGED <<cap, eff, carrier>>

Failing ==
    /\ worker.pc = "failing"
    /\ Complete("failed")
    /\ UNCHANGED <<eff, carrier, copy, adopted, gate, child, orphan, past, spent>>

(* import_source up to the child: only arXiv payloads, only with the gate. *)
Import ==
    /\ worker.pc = "import"
    /\ LET c == worker.on IN
       \/ /\ cap[c].payload \in Papers /\ gate
          /\ Spawn("ingest", "await")
          /\ past' = [past EXCEPT ![c].launches = @ + 1]
          /\ UNCHANGED <<cap, eff, carrier>>
       \/ /\ cap[c].payload \notin Papers \/ ~gate
          /\ Reject(c)
          /\ UNCHANGED <<child, past>>
    /\ UNCHANGED <<copy, adopted, gate, orphan, spent>>

(* mark_workflow_effect_outcome_unknown: whatever the lease. *)
MarkUnknown(c) ==
    /\ eff' = [eff EXCEPT ![c] = [state |-> "outcome_unknown", lease |-> None]]
    /\ Complete("uncertain")
    /\ UNCHANGED carrier

(* The rest of import_source: judge the child, read the copy, commit the
   manifest (a refused one rejects the effect). *)
Adopt ==
    /\ worker.pc = "await" /\ child.phase = "exited"
    /\ child' = NoKid
    /\ LET c == worker.on IN
       \/ child.said = "refused" /\ Reject(c) /\ UNCHANGED adopted
       \/ /\ child.said = "unknown" \/ (child.said = "ok" /\ copy.wal)
          /\ MarkUnknown(c) /\ UNCHANGED adopted
       \/ /\ child.said = "ok" /\ ~copy.wal
          /\ \/ adopted' = Adopted(cap[c].payload) /\ Goto("complete")
                /\ UNCHANGED <<cap, eff, carrier>>
             \/ Reject(c) /\ UNCHANGED adopted
    /\ UNCHANGED <<copy, gate, orphan, past, spent>>

(* complete_workflow_effect: only under a live lease. *)
CompleteEffect ==
    /\ worker.pc = "complete"
    /\ LET c == worker.on IN
       IF eff[c].lease = "live"
       THEN eff' = [eff EXCEPT ![c] = [state |-> "completed", lease |-> None]] /\ Goto("settle")
       ELSE EndTick /\ UNCHANGED eff
    /\ UNCHANGED <<cap, carrier, copy, adopted, gate, child, orphan, past, spent>>

(* _settle and _close_run: the stage, then the run. *)
Settle ==
    /\ worker.pc = "settle"
    /\ LET c == worker.on IN
       IF carrier[c].stage = "active"
       THEN carrier' = [carrier EXCEPT ![c].stage = "completed"] /\ UNCHANGED <<worker, sched>>
       ELSE carrier' = [carrier EXCEPT ![c].run = "ended"] /\ Goto("finish")
    /\ UNCHANGED <<cap, eff, copy, adopted, gate, child, orphan, past, spent>>

Finish ==
    /\ worker.pc = "finish"
    /\ Complete("consumed")
    /\ UNCHANGED <<eff, carrier, copy, adopted, gate, child, orphan, past, spent>>

(* cortexd dies; its child dies with it or runs on. *)
Crash ==
    /\ spent.crashes < MaxCrashes /\ worker.pc # "idle"
    /\ spent' = [spent EXCEPT !.crashes = @ + 1]
    /\ worker' = Idle
    /\ child' = NoKid
    /\ orphan' \in {orphan} \cup (IF orphan = NoKid /\ child.phase # "exited" THEN {child} ELSE {})
    /\ UNCHANGED <<cap, eff, carrier, copy, adopted, gate, sched, past>>

----------------------------------------------------------------------------
Operator ==
    \/ \E c \in Captures : \/ \E p \in Papers \cup {NotArxiv} : CreateCapture(c, p)
                           \/ ApproveCapture(c) \/ DismissCapture(c) \/ ReopenCapture(c)
                           \/ EndForeignRun(c)
    \/ FlipGate \/ SetEnabled

Time == Due \/ \E c \in Captures : ExpireCaptureLease(c) \/ ExpireEffectLease(c)

Work == \/ Tick \/ ClaimCapture \/ Carry \/ Consume \/ Heal \/ ClaimReconciliation
        \/ AskCopy \/ Reconciled \/ ClaimEffect \/ Import \/ Adopt \/ CompleteEffect
        \/ Settle \/ Finish \/ Failing

Next == Operator \/ Time \/ Work \/ ChildRuns \/ OrphanRuns \/ Crash

Spec == Init /\ [][Next]_vars

(* The tick thread runs while cortexd does, a child ends or is killed at its
   hard timeout, leases and due times pass, the operator opens the window and
   enables the schedule again. *)
FairSpec ==
    /\ Spec
    /\ WF_vars(Work) /\ WF_vars(ChildRuns) /\ WF_vars(Due)
    /\ \A c \in Captures : WF_vars(ExpireCaptureLease(c))
    /\ WF_vars(~gate /\ FlipGate) /\ WF_vars(~sched.enabled /\ SetEnabled)

----------------------------------------------------------------------------
Kid == [op : {None, "ingest", "reconcile", "checkpoint"}, on : Captures \cup {None},
        phase : {None, "start", "fetched", "ready", "exited"},
        said : {None, "ok", "refused", "unknown"}]

(* The shape of the state; a lease belongs to a claimed row only. *)
TypeOK ==
    /\ \A c \in Captures :
        /\ cap[c].state \in Open \cup {None, "consumed", "failed", "dismissed"}
        /\ cap[c].payload \in Papers \cup {NotArxiv, None}
        /\ (cap[c].lease # None) <=> (cap[c].state = "claimed")
        /\ (eff[c].lease # None) <=> (eff[c].state \in {"claimed", "reconciling"})
        /\ carrier[c].run = "open" => carrier[c].stage \in {"ready", "active", "completed"}
    /\ copy.dirs \in [Papers -> Nat] /\ adopted \subseteq Papers
    /\ child \in Kid /\ orphan \in Kid

(* "Nothing is ever retried": an ingest child of a capture is launched again
   only after the operator reopened it and the copy, asked since the last
   launch, did not hold the paper. *)
NoSilentRetry ==
    \A c \in Captures : /\ past[c].launches <= 1 + past[c].reopens
                        /\ past[c].launches <= 1 + past[c].absences

(* A consumed capture has a completed effect, a directory of its paper in
   the copy and a committed source: the three transactions that say so
   (adoption, effect, capture) never disagree in that direction. *)
ConsumedIsAdopted ==
    \A c \in Captures :
        /\ eff[c].state = "completed" => cap[c].payload \in adopted
        /\ cap[c].state = "consumed" => /\ eff[c].state = "completed"
                                        /\ copy.dirs[cap[c].payload] > 0
=============================================================================
