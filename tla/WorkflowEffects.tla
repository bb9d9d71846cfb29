-------------------------- MODULE WorkflowEffects --------------------------
(***************************************************************************)
(* Durable workflow effects (control/store.py, workflows/coordinator.py,    *)
(* workflows/golden.py).  A run owns one sealed workflow: stages in order,  *)
(* each with the effects it requires.  A coordinator activates the current  *)
(* stage, plans its effects, claims them under a lease, calls an adapter    *)
(* outside any transaction, records the answer under the claim's epoch,     *)
(* reconciles what it cannot know, and completes a satisfied stage.  Runtime *)
(* and artifact effects belong to one attempt of the run; resuming or        *)
(* retrying the run starts another.                                          *)
(*                                                                         *)
(* Several coordinators may work on one workflow; each may die between any   *)
(* two steps.  A lease is live or expired.  Requests, receipts, references    *)
(* and checkpoints are their identity: a result belongs to the effect that    *)
(* asked.  Run states are those the workflow tells apart.                     *)
(***************************************************************************)
EXTENDS Naturals, Sequences, FiniteSets

CONSTANTS
    Workers,         \* coordinators
    Graph,           \* sequence of [effect, keys]: the sealed definition
    MaxDeliveries,   \* max_mutation_deliveries
    MaxAttempts, MaxPauses, MaxRetries, MaxSlow, MaxLosses, MaxCrashes   \* bounds

GraphAssumption ==
    /\ Graph \in Seq([effect : {"control", "decision", "query", "mutation", "runtime",
                                "artifact", "snapshot"},
                      keys : SUBSET STRING])
    /\ Len(Graph) > 0

MaxDeliveriesAssumption == MaxDeliveries \in Nat \ {0}

VARIABLES
    run,      \* [state, attempt, decided]
    wf,       \* [state, cur, rev]
    stage,    \* stage -> [state, by]: by is the attempt that completed it
    eff,      \* effect -> its command row
    done,     \* effects the adapters have performed
    calls,    \* effect -> deliveries handed to its adapter
    raced,    \* history: those of a claim of another coordinator, found expired
    absent,   \* effect -> reconciliations answered not_found
    work,     \* worker -> what its thread is doing
    spent     \* budgets used

vars == <<run, wf, stage, eff, done, calls, raced, absent, work, spent>>

None == "none"

\* What the module asks of its constants.
WorkflowAssumption ==
    /\ GraphAssumption /\ MaxDeliveriesAssumption
    /\ MaxAttempts \in Nat \ {0}
    /\ None \notin Workers

Stages == 1..Len(Graph)
AttemptBound == {"runtime", "artifact", "snapshot"}
Bound(s) == Graph[s].effect \in AttemptBound
Effects == UNION {{<<s, k, a>> : k \in Graph[s].keys, a \in IF Bound(s) THEN 1..MaxAttempts ELSE {0}}
                  : s \in Stages}
Mutation(e) == Graph[e[1]].effect # "query"

(* _WORKFLOW_FENCED_RUN_STATES *)
Fenced == {"cancel_requested", "canceled", "completed", "failed"}
RunOpen == run.state \notin Fenced

NoEffect == [st |-> None, owner |-> None, lease |-> None, epoch |-> 0, sends |-> 0, why |-> None]
(* The store raised InvalidTransition. *)
Raised == [NoEffect EXCEPT !.st = "raised"]
Idle == [pc |-> "idle", att |-> 0, rev |-> 0, todo |-> {}, on |-> <<>>, epoch |-> 0, said |-> None]

(* install_workflow *)
Init ==
    /\ run = [state |-> "running", attempt |-> 1, decided |-> {}]
    /\ wf = [state |-> "running", cur |-> 1, rev |-> 0]
    /\ stage = [s \in Stages |-> [state |-> IF s = 1 THEN "ready" ELSE "pending", by |-> 0]]
    /\ eff = [e \in Effects |-> NoEffect]
    /\ done = {}
    /\ calls = [e \in Effects |-> 0] /\ raced = [e \in Effects |-> 0]
    /\ absent = [e \in Effects |-> 0]
    /\ work = [w \in Workers |-> Idle]
    /\ spent = [pauses |-> 0, retries |-> 0, slow |-> 0, losses |-> 0, crashes |-> 0]

----------------------------------------------------------------------------
(* The run, as its other owners move it *)

Rest == UNCHANGED <<wf, stage, eff, done, calls, raced, absent, work>>

Pause ==
    /\ run.state = "running" /\ spent.pauses < MaxPauses
    /\ run' = [run EXCEPT !.state = "paused"]
    /\ spent' = [spent EXCEPT !.pauses = @ + 1]
    /\ Rest

(* _restart_attempt: the run moves on under a new attempt whose source is the
   old one.  resume_run takes a paused run, retry_run a failed one. *)
Restart(from) ==
    /\ run.state = from /\ run.attempt < MaxAttempts
    /\ run' = [run EXCEPT !.state = "running", !.attempt = @ + 1]
    /\ Rest

ResumeRun == Restart("paused") /\ UNCHANGED spent

RetryRun ==
    /\ spent.retries < MaxRetries
    /\ Restart("failed")
    /\ spent' = [spent EXCEPT !.retries = @ + 1]

(* The runtime fails the run, or the operator cancels it (_RUN_TRANSITIONS). *)
Fence ==
    /\ run.state \in {"running", "paused", "waiting"} /\ spent.pauses < MaxPauses
    /\ \E s \in {"failed", "cancel_requested"} :
        /\ run.state = "paused" => s = "cancel_requested"
        /\ run' = [run EXCEPT !.state = s]
    /\ spent' = [spent EXCEPT !.pauses = @ + 1]
    /\ Rest

(* resolve_decision on the decision the current stage waits for *)
Resolve ==
    /\ run.state = "waiting" /\ stage[wf.cur].state = "waiting"
    /\ run' = [run EXCEPT !.state = "running", !.decided = @ \cup {wf.cur}]
    /\ stage' = [stage EXCEPT ![wf.cur].state = "active"]
    /\ wf' = [wf EXCEPT !.state = "running", !.rev = @ + 1]
    /\ UNCHANGED <<eff, done, calls, raced, absent, work, spent>>

(* The clock: a lease nobody serves runs out; one whose holder is still
   working runs out when the holder is slow. *)
Holds(w, e) == work[w].on = e /\ work[w].epoch = eff[e].epoch

Expire(e) ==
    /\ eff[e].lease = "live"
    /\ eff' = [eff EXCEPT ![e].lease = "expired"]
    /\ IF \E w \in Workers : Holds(w, e)
       THEN /\ spent.slow < MaxSlow
            /\ spent' = [spent EXCEPT !.slow = @ + 1]
       ELSE UNCHANGED spent
    /\ UNCHANGED <<run, wf, stage, done, calls, raced, absent, work>>

----------------------------------------------------------------------------
(* A coordinator's thread *)

Goto(w, pc) == work' = [work EXCEPT ![w].pc = pc]
(* The call raises to its caller, or returns at a block. *)
End(w) == work' = [work EXCEPT ![w] = Idle]
(* The next classified effect of recover. *)
Continue(w) == work' = [work EXCEPT ![w].pc = "recover", ![w].on = <<>>, ![w].epoch = 0, ![w].said = None]

Crash(w) ==
    /\ work[w].pc # "idle" /\ spent.crashes < MaxCrashes
    /\ End(w)
    /\ spent' = [spent EXCEPT !.crashes = @ + 1]
    /\ UNCHANGED <<run, wf, stage, eff, done, calls, raced, absent>>

ManualRequired == \E e \in Effects : eff[e].st = "manual_required"

(* GoldenWorkflowFacade.advance_until_blocked and recover: not over a block. *)
Begin(w) ==
    /\ work[w].pc = "idle"
    /\ run.state = "running" /\ ~ManualRequired /\ wf.state \notin {"completed", "failed"}
    /\ \E pc \in {"prepare", "classify"} :
        work' = [work EXCEPT ![w] = [Idle EXCEPT !.pc = pc, !.att = run.attempt, !.rev = wf.rev]]
    /\ UNCHANGED <<run, wf, stage, eff, done, calls, raced, absent, spent>>

OfAttempt(s, a) == {e \in Effects : e[1] = s /\ e[3] = (IF Bound(s) THEN a ELSE 0)}

(* _publication_members: the snapshot is made of the versions that the active
   attempt published in the stage before. *)
Members(s, a) == \A e \in OfAttempt(s - 1, a) : eff[e].st = "completed"

(* prepare_stage up to the plan: activate_workflow_stage for a ready stage. *)
Prepare(w) ==
    /\ work[w].pc = "prepare"
    /\ LET s == wf.cur
           current == /\ wf.state # "completed" /\ work[w].rev = wf.rev
                      /\ Graph[s].effect = "snapshot" => Members(s, work[w].att)
       IN  CASE current /\ stage[s].state = "ready" /\ RunOpen ->
                    /\ stage' = [stage EXCEPT ![s].state = "active"]
                    /\ wf' = [wf EXCEPT !.state = "running", !.rev = @ + 1]
                    /\ work' = [work EXCEPT ![w].pc = "plan", ![w].rev = wf.rev + 1]
             [] current /\ stage[s].state = "active" -> Goto(w, "plan") /\ UNCHANGED <<wf, stage>>
             [] OTHER -> End(w) /\ UNCHANGED <<wf, stage>>
    /\ UNCHANGED <<run, eff, done, calls, raced, absent, spent>>

(* create_workflow_decision; an existing decision is replayed. *)
CreateDecision(w) ==
    /\ work[w].pc = "plan" /\ Graph[wf.cur].effect = "decision"
    /\ IF wf.cur \in run.decided
       THEN Goto(w, "classify") /\ UNCHANGED <<run, wf, stage>>
       ELSE /\ End(w)
            /\ IF RunOpen /\ wf.rev = work[w].rev /\ stage[wf.cur].state = "active"
               THEN /\ run' = [run EXCEPT !.state = "waiting"]
                    /\ stage' = [stage EXCEPT ![wf.cur].state = "waiting"]
                    /\ wf' = [wf EXCEPT !.state = "waiting", !.rev = @ + 1]
               ELSE UNCHANGED <<run, wf, stage>>
    /\ UNCHANGED <<eff, done, calls, raced, absent, spent>>

----------------------------------------------------------------------------
(* Planning effects *)

Superseded(e) == eff[e].st = "failed" /\ eff[e].why = "superseded"
Settled(e) == eff[e].st = "completed" \/ Superseded(e)

(* supersede_workflow_attempt_effect for the attempt the caller read: what
   becomes of the effect, or Raised. *)
Supersede(e, att) ==
    IF ~RunOpen \/ run.attempt # att THEN Raised
    ELSE CASE Settled(e) -> eff[e]
           [] eff[e].st = "pending" -> [eff[e] EXCEPT !.st = "failed", !.why = "superseded"]
           [] OTHER -> Raised

OldEffects(s, a) == {e \in Effects : e[1] = s /\ Bound(s) /\ e[3] # a /\ eff[e].st # None}

(* create_workflow_effect for the planned request *)
Creatable(w, s) ==
    /\ Bound(s) => work[w].att = run.attempt
    /\ work[w].rev = wf.rev /\ RunOpen /\ stage[s].state = "active"

(* The effect loop of prepare_stage, one transaction at a time: old attempts'
   effects are superseded before the attempt's own are created. *)
Plan(w) ==
    /\ work[w].pc = "plan" /\ Graph[wf.cur].effect # "decision"
    /\ LET s == wf.cur
           a == work[w].att
           old == {e \in OldEffects(s, a) : ~Settled(e)}
           new == {e \in OfAttempt(s, a) : eff[e].st = None}
       IN  CASE old # {} ->
                    LET e == CHOOSE x \in old : TRUE
                        to == Supersede(e, a)
                    IN  IF to = Raised THEN End(w) /\ UNCHANGED eff
                        ELSE eff' = [eff EXCEPT ![e] = to] /\ UNCHANGED work
             [] old = {} /\ new # {} ->
                    LET e == CHOOSE x \in new : TRUE
                    IN  IF Creatable(w, s)
                        THEN eff' = [eff EXCEPT ![e] = [NoEffect EXCEPT !.st = "pending"]] /\ UNCHANGED work
                        ELSE End(w) /\ UNCHANGED eff
             [] OTHER -> Goto(w, "classify") /\ UNCHANGED eff
    /\ UNCHANGED <<run, wf, stage, done, calls, raced, absent, spent>>

----------------------------------------------------------------------------
(* recover: the effects, read and classified, then each in turn *)

(* Mutant of Classify: an expired mutation is pending again. *)
Classify_Again(e) ==
    LET expired == eff[e].st = "claimed" /\ eff[e].lease = "expired"
    IN  CASE eff[e].st = "pending" \/ expired -> IF RunOpen THEN "pending" ELSE "fenced"
          [] eff[e].st \in {"outcome_unknown", "reconciling"} -> "unknown"
          [] eff[e].st = "failed" /\ ~Superseded(e) -> "failed"
          [] OTHER -> "nothing"

(* classify_workflow_recovery *)
Classify(e) ==
    LET expired == eff[e].st = "claimed" /\ eff[e].lease = "expired"
    IN  CASE eff[e].st = "pending" \/ (expired /\ ~Mutation(e)) -> IF RunOpen THEN "pending" ELSE "fenced"
          [] (expired /\ Mutation(e)) \/ eff[e].st \in {"outcome_unknown", "reconciling"} -> "unknown"
          [] eff[e].st = "failed" /\ ~Superseded(e) -> "failed"
          [] OTHER -> "nothing"

Stale(e) == Bound(e[1]) /\ e[3] # run.attempt

(* recover reads three times.  list_workflow_effects: what exists, and what
   has failed for good. *)
Recover(w) ==
    /\ work[w].pc = "classify"
    /\ work' = [work EXCEPT ![w].pc = "sort",
           ![w].todo = {<<e, IF Classify(e) = "failed" THEN "failed" ELSE "listed">> :
                          e \in {x \in Effects : eff[x].st # None}}]
    /\ UNCHANGED <<run, wf, stage, eff, done, calls, raced, absent, spent>>

(* classify_workflow_recovery.  An expired mutation is remembered as such:
   _reconcile normalises it first. *)
Class(e) ==
    IF Classify(e) # "unknown" THEN Classify(e)
    ELSE IF eff[e].st = "claimed" THEN "normalise" ELSE "reconcile"

Sort(w) ==
    /\ work[w].pc = "sort"
    /\ LET listed == {e \in Effects : <<e, "listed">> \in work[w].todo}
       IN  work' = [work EXCEPT ![w].pc = "read",
              ![w].todo = {t \in @ : t[2] = "failed"} \cup
                  {<<e, Class(e)>> : e \in {x \in listed : Class(x) \in {"pending", "normalise", "reconcile"}}}]
    /\ UNCHANGED <<run, wf, stage, eff, done, calls, raced, absent, spent>>

(* get_run: pending work of an old attempt is superseded, the attempt's own
   waits while the run is paused. *)
ReadRun(w) ==
    /\ work[w].pc = "read"
    /\ LET stale(t) == t[2] = "pending" /\ Stale(t[1])
           waits(t) == t[2] = "pending" /\ ~Stale(t[1]) /\ run.state = "paused" /\ Bound(t[1][1])
       IN  work' = [work EXCEPT ![w].pc = "recover", ![w].att = run.attempt,
              ![w].todo = {<<t[1], "supersede">> : t \in {u \in @ : stale(u)}}
                          \cup {t \in @ : ~stale(t) /\ ~waits(t)}]
    /\ UNCHANGED <<run, wf, stage, eff, done, calls, raced, absent, spent>>

(* Pending work of old attempts goes first. *)
Turn(w) ==
    LET first == {t \in work[w].todo : t[2] = "supersede"}
    IN  IF first # {} THEN first ELSE work[w].todo

Took(w, t) == [work[w] EXCEPT !.todo = @ \ {t}]

RecoverSupersede(w, e) ==
    /\ work[w].pc = "recover" /\ <<e, "supersede">> \in Turn(w)
    /\ LET to == Supersede(e, work[w].att) IN
       IF to = Raised THEN End(w) /\ UNCHANGED eff
       ELSE /\ eff' = [eff EXCEPT ![e] = to]
            /\ work' = [work EXCEPT ![w] = Took(w, <<e, "supersede">>)]
    /\ UNCHANGED <<run, wf, stage, done, calls, raced, absent, spent>>

Claimed(w, e, st) == [eff[e] EXCEPT !.st = st, !.owner = w, !.lease = "live", !.epoch = @ + 1]

Unclaimed(e, st) == [eff[e] EXCEPT !.st = st, !.owner = None, !.lease = None]

(* claim_workflow_effect: the row it leaves, or Raised.  An expired
   claim of a mutation comes back as outcome_unknown, owned by nobody. *)
ClaimEffect(w, e) ==
    LET expired == eff[e].st = "claimed" /\ eff[e].lease = "expired"
    IN  CASE expired /\ Mutation(e) -> Unclaimed(e, "outcome_unknown")
          [] RunOpen /\ (eff[e].st = "pending" \/ (expired /\ ~Mutation(e))) ->
                [Claimed(w, e, "claimed") EXCEPT !.sends = IF Mutation(e) THEN @ + 1 ELSE @]
          [] OTHER -> Raised

(* _dispatch up to the adapter: a claim that raises was lost to another
   coordinator or to the fence; any row that comes back is delivered, also one
   that another coordinator claimed meanwhile and let expire. *)
Dispatch(w, e) ==
    /\ work[w].pc = "recover" /\ <<e, "pending">> \in Turn(w)
    /\ LET row == ClaimEffect(w, e)
           mine == Took(w, <<e, "pending">>)
       IN  IF row = Raised
           THEN work' = [work EXCEPT ![w] = mine] /\ UNCHANGED <<eff, calls, raced>>
           ELSE /\ eff' = [eff EXCEPT ![e] = row]
                /\ work' = [work EXCEPT ![w] = [mine EXCEPT !.pc = "call", !.on = e, !.epoch = row.epoch]]
                /\ calls' = [calls EXCEPT ![e] = @ + 1]
                /\ raced' = [raced EXCEPT ![e] =
                     IF row.st = "outcome_unknown" /\ eff[e].owner # w THEN @ + 1 ELSE @]
    /\ UNCHANGED <<run, wf, stage, done, absent, spent>>

(* The adapter: it performs the operation once, by its identity, or it
   refuses; its reply may be lost either way. *)
Call(w) ==
    /\ work[w].pc = "call"
    /\ LET e == work[w].on IN
          \/ /\ done' = done \cup {e}
             /\ work' = [work EXCEPT ![w].pc = "reply", ![w].said = "ok"]
             /\ UNCHANGED spent
          \/ /\ spent.losses < MaxLosses
             /\ done' \in {done, done \cup {e}}
             /\ work' = [work EXCEPT ![w].pc = "reply", ![w].said = "unknown"]
             /\ spent' = [spent EXCEPT !.losses = @ + 1]
          \/ /\ spent.losses < MaxLosses /\ e \notin done
             /\ work' = [work EXCEPT ![w].pc = "reply", ![w].said = "rejected"]
             /\ spent' = [spent EXCEPT !.losses = @ + 1]
             /\ UNCHANGED done
    /\ UNCHANGED <<run, wf, stage, eff, calls, raced, absent>>

(* _expect_workflow_effect_claim *)
Fits(w, e, st) == eff[e].st = st /\ eff[e].owner = w /\ eff[e].epoch = work[w].epoch
FitsLive(w, e, st) == Fits(w, e, st) /\ eff[e].lease = "live"

----------------------------------------------------------------------------
(* Recording answers *)

(* _settle_workflow_failure: stage, workflow and run fail together. *)
SettleFailure(s) ==
    /\ stage' = [stage EXCEPT ![s].state = "failed"]
    /\ wf' = [wf EXCEPT !.state = "failed", !.rev = @ + 1]
    /\ run' = [run EXCEPT !.state = "failed"]

(* reject_workflow_effect: over a fenced run only the effect fails, over a
   paused one the rest is deferred. *)
Reject(w, e, st) ==
    /\ FitsLive(w, e, st)
    /\ RunOpen => stage[e[1]].state \in {"active", "waiting"}
    /\ eff' = [eff EXCEPT ![e] = [Unclaimed(e, "failed") EXCEPT !.why = "rejected"]]
    /\ IF ~RunOpen \/ run.state = "paused" THEN UNCHANGED <<run, wf, stage>> ELSE SettleFailure(e[1])

Rejectable(w, e, st) == FitsLive(w, e, st) /\ (RunOpen => stage[e[1]].state \in {"active", "waiting"})

(* The end of _dispatch: complete_workflow_effect, reject_workflow_effect or
   mark_workflow_effect_outcome_unknown; a lost claim raises. *)
Reply(w) ==
    /\ work[w].pc = "reply"
    /\ LET e == work[w].on IN
       CASE work[w].said = "ok" /\ FitsLive(w, e, "claimed") ->
                eff' = [eff EXCEPT ![e] = Unclaimed(e, "completed")] /\ Continue(w) /\ UNCHANGED <<run, wf, stage>>
         [] work[w].said = "rejected" /\ Rejectable(w, e, "claimed") ->
                Reject(w, e, "claimed") /\ Continue(w)
         [] work[w].said = "unknown" /\ ~Mutation(e) -> Continue(w) /\ UNCHANGED <<eff, run, wf, stage>>
         [] work[w].said = "unknown" /\ Mutation(e) /\ Fits(w, e, "claimed") ->
                eff' = [eff EXCEPT ![e] = Unclaimed(e, "outcome_unknown")] /\ Continue(w) /\ UNCHANGED <<run, wf, stage>>
         [] OTHER -> End(w) /\ UNCHANGED <<eff, run, wf, stage>>
    /\ UNCHANGED <<done, calls, raced, absent, spent>>

(* The head of _reconcile for an expired claim: claim_workflow_effect is meant
   to normalise it, and does claim an effect that meanwhile is pending again. *)
Normalise(w, e) ==
    /\ work[w].pc = "recover" /\ <<e, "normalise">> \in Turn(w)
    /\ LET row == ClaimEffect(w, e)
           t == <<e, "normalise">>
       IN  IF row = Raised THEN work' = [work EXCEPT ![w] = Took(w, t)] /\ UNCHANGED eff
           ELSE /\ eff' = [eff EXCEPT ![e] = row]
                /\ work' = [work EXCEPT ![w] =
                     IF row.st = "outcome_unknown" THEN [Took(w, t) EXCEPT !.todo = @ \cup {<<e, "reconcile">>}]
                     ELSE Took(w, t)]
    /\ UNCHANGED <<run, wf, stage, done, calls, raced, absent, spent>>

(* claim_workflow_effect_reconciliation; a lost claim is progress. *)
ClaimReconciliation(w, e) ==
    /\ work[w].pc = "recover" /\ <<e, "reconcile">> \in Turn(w)
    /\ LET mine == Took(w, <<e, "reconcile">>) IN
       IF eff[e].st = "outcome_unknown" \/ (eff[e].st = "reconciling" /\ eff[e].lease = "expired")
       THEN /\ eff' = [eff EXCEPT ![e] = Claimed(w, e, "reconciling")]
            /\ work' = [work EXCEPT ![w] = [mine EXCEPT !.pc = "ask", !.on = e, !.epoch = eff[e].epoch + 1]]
       ELSE work' = [work EXCEPT ![w] = mine] /\ UNCHANGED eff
    /\ UNCHANGED <<run, wf, stage, done, calls, raced, absent, spent>>

(* The adapter's reconcile_effect *)
Ask(w) ==
    /\ work[w].pc = "ask"
    /\ LET e == work[w].on IN
       \/ /\ work' = [work EXCEPT ![w].pc = "answer", ![w].said = IF e \in done THEN "committed" ELSE "not_found"]
          /\ absent' = [absent EXCEPT ![e] = IF e \in done THEN @ ELSE @ + 1]
          /\ UNCHANGED spent
       \/ /\ spent.losses < MaxLosses
          /\ work' = [work EXCEPT ![w].pc = "answer", ![w].said = "unknown"]
          /\ spent' = [spent EXCEPT !.losses = @ + 1]
          /\ UNCHANGED absent
    /\ UNCHANGED <<run, wf, stage, eff, done, calls, raced>>

(* dispatch_attempt_count >= max_mutation_deliveries *)
Exhausted(e) == eff[e].sends >= MaxDeliveries

(* complete_workflow_effect_reconciliation, or the redelivery_exhausted
   rejection. *)
Answer(w) ==
    /\ work[w].pc = "answer"
    /\ LET e == work[w].on
           to(st) == eff' = [eff EXCEPT ![e] = Unclaimed(e, st)] /\ Continue(w) /\ UNCHANGED <<run, wf, stage>>
       IN  CASE ~FitsLive(w, e, "reconciling") -> End(w) /\ UNCHANGED <<eff, run, wf, stage>>
             [] work[w].said = "committed" /\ FitsLive(w, e, "reconciling") -> to("completed")
             [] work[w].said = "unknown" /\ FitsLive(w, e, "reconciling") -> to("manual_required")
             [] work[w].said = "not_found" /\ FitsLive(w, e, "reconciling") /\ ~Exhausted(e) -> to("pending")
             [] work[w].said = "not_found" /\ Exhausted(e) /\ Rejectable(w, e, "reconciling") ->
                    Reject(w, e, "reconciling") /\ Continue(w)
             [] OTHER -> End(w) /\ UNCHANGED <<eff, run, wf, stage>>
    /\ UNCHANGED <<done, calls, raced, absent, spent>>

(* settle_workflow_effect_failure: a failure deferred while paused. *)
SettleDeferred(w, e) ==
    /\ work[w].pc = "recover" /\ <<e, "failed">> \in Turn(w)
    /\ CASE run.state = "paused" \/ ~RunOpen \/ stage[e[1]].state = "failed" ->
                work' = [work EXCEPT ![w] = Took(w, <<e, "failed">>)] /\ UNCHANGED <<run, wf, stage>>
         [] RunOpen /\ run.state # "paused" /\ stage[e[1]].state \in {"active", "waiting"} ->
                work' = [work EXCEPT ![w] = Took(w, <<e, "failed">>)] /\ SettleFailure(e[1])
         [] OTHER -> End(w) /\ UNCHANGED <<run, wf, stage>>
    /\ UNCHANGED <<eff, done, calls, raced, absent, spent>>

----------------------------------------------------------------------------
(* Completing the stage *)

Started(s) == {e \in Effects : e[1] = s /\ eff[e].st # None}
(* The effects that answer for stage s: the active attempt's, if it has any. *)
Answerable(s) ==
    LET own == {e \in Started(s) : Bound(s) /\ e[3] = run.attempt}
    IN  IF own # {} THEN own ELSE Started(s)

AllCompleted(s, es) ==
    /\ \A e \in es : eff[e].st = "completed"
    /\ Graph[s].keys \subseteq {e[2] : e \in es}

(* _finish_satisfied_stage, up to the store: it looks again. *)
Finish(w) ==
    /\ work[w].pc = "recover" /\ work[w].todo = {}
    /\ LET s == wf.cur
           ready == /\ RunOpen /\ wf.state # "completed" /\ stage[s].state = "active"
                    /\ Bound(s) => \E e \in Started(s) : e[3] = run.attempt
                    /\ AllCompleted(s, Answerable(s))
       IN  IF ready THEN work' = [work EXCEPT ![w].pc = "commit", ![w].rev = wf.rev] ELSE End(w)
    /\ UNCHANGED <<run, wf, stage, eff, done, calls, raced, absent, spent>>

(* complete_workflow_stage's conditions: every effect that answers is completed
   with a result of the active attempt, and nothing of an old attempt is open. *)
Completable(s) ==
    /\ RunOpen /\ stage[s].state = "active"
    /\ \A e \in Started(s) \ Answerable(s) : Settled(e)
    /\ AllCompleted(s, Answerable(s))
    /\ Bound(s) => \A e \in Answerable(s) : e[3] = run.attempt
    /\ Graph[s].effect = "decision" => s \in run.decided

Commit(w) ==
    /\ work[w].pc = "commit"
    /\ LET s == wf.cur IN
       IF wf.rev = work[w].rev /\ Completable(s)
       THEN /\ stage' = [t \in Stages |->
                           CASE t = s -> [state |-> "completed", by |-> run.attempt]
                             [] t = s + 1 -> [stage[t] EXCEPT !.state = "ready"]
                             [] OTHER -> stage[t]]
            /\ wf' = IF s = Len(Graph) THEN [wf EXCEPT !.state = "completed", !.rev = @ + 1]
                     ELSE [state |-> "running", cur |-> s + 1, rev |-> wf.rev + 1]
       ELSE UNCHANGED <<stage, wf>>
    /\ End(w)
    /\ UNCHANGED <<run, eff, done, calls, raced, absent, spent>>

Step(w) ==
    \/ Begin(w) \/ Prepare(w) \/ CreateDecision(w) \/ Plan(w)
    \/ Recover(w) \/ Sort(w) \/ ReadRun(w)
    \/ \E e \in Effects :
        \/ RecoverSupersede(w, e) \/ Dispatch(w, e) \/ Normalise(w, e)
        \/ ClaimReconciliation(w, e) \/ SettleDeferred(w, e)
    \/ Call(w) \/ Reply(w) \/ Ask(w) \/ Answer(w) \/ Finish(w) \/ Commit(w)

Next ==
    \/ Pause \/ ResumeRun \/ RetryRun \/ Fence \/ Resolve
    \/ \E e \in Effects : Expire(e)
    \/ \E w \in Workers : Step(w) \/ Crash(w)

Spec == Init /\ [][Next]_vars

(* cortexd keeps driving an open workflow and leases run out.  Nothing is
   assumed of the operator: a run that waits for a decision, or is paused, may
   wait for ever. *)
FairSpec ==
    /\ Spec
    /\ \A w \in Workers : WF_vars(Step(w))
    /\ \A w \in Workers : SF_vars(Begin(w) /\ work'[w].pc = "classify") /\ SF_vars(Begin(w) /\ work'[w].pc = "prepare")
    /\ \A e \in Effects : WF_vars(Expire(e))

----------------------------------------------------------------------------
(* Properties *)

(* Every row, lease and thread is well formed: only a claimed or reconciling
   effect has an owner and a lease. *)
TypeOK ==
    /\ run.state \in {"running", "paused", "waiting"} \cup Fenced
    /\ run.attempt \in 1..MaxAttempts /\ run.decided \subseteq Stages
    /\ wf.state \in {"running", "waiting", "completed", "failed"} /\ wf.cur \in Stages
    /\ \A s \in Stages : stage[s].state \in {"pending", "ready", "active", "waiting", "completed", "failed"}
    /\ \A e \in Effects :
        /\ eff[e].st \in {None, "pending", "claimed", "outcome_unknown", "reconciling", "completed",
                          "failed", "manual_required"}
        /\ (eff[e].st \in {"claimed", "reconciling"}) = (eff[e].owner \in Workers)
        /\ (eff[e].owner \in Workers) = (eff[e].lease \in {"live", "expired"})
    /\ done \subseteq Effects
    /\ \A w \in Workers : work[w].pc \in {"idle", "prepare", "plan", "classify", "sort", "read", "recover",
                                          "call", "reply", "ask", "answer", "commit"}

(* No mutation is dispatched more than max_mutation_deliveries times, however
   often it is lost, reconciled and reclaimed. *)
DeliveriesBounded == \A e \in Effects : eff[e].sends <= MaxDeliveries

(* A mutation is delivered again only after its adapter was asked and said it
   knows nothing of it, for every delivery (ports.py: "Query a stable operation
   before any uncertain effect is redelivered"), however many coordinators
   contend.  Only the delivery of a row that another coordinator claimed, and
   let expire, after this one had found it pending is not counted. *)
NoBlindRedelivery ==
    \A e \in Effects : Mutation(e) => calls[e] <= absent[e] + 1 + raced[e]

(* A completed stage stands on completed effects, performed, of the attempt
   that completed it, and leaves nothing of an older attempt in the air. *)
StageSound ==
    \A s \in Stages : stage[s].state = "completed" =>
        /\ \A e \in OfAttempt(s, stage[s].by) : eff[e].st = "completed" /\ e \in done
        /\ \A e \in Started(s) : Settled(e)
        /\ Graph[s].effect = "decision" => s \in run.decided

(* While a run is paused none of its work fails it: a rejection waits for the
   run to be resumed. *)
PauseDefers ==
    run.state = "paused" /\ run'.state = "failed" => UNCHANGED eff

(* The workflow stops for its operator or its end, and nothing else. *)
Blocked ==
    \/ wf.state \in {"completed", "failed"}
    \/ run.state \in {"paused", "waiting"} \cup Fenced
    \/ ManualRequired

(* A coordinator that keeps advancing reaches the end of the workflow or a
   block that somebody else must lift (golden.py: "Advance from durable
   Control state until external input is required"); a deferred failure ends
   the run. *)
ReachesBlock == <>[]Blocked
=============================================================================
