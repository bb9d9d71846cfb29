------------------------- MODULE RunLifecycleProofs -------------------------
(***************************************************************************)
(* Theorems about RunLifecycle, for every set of runs, actions and         *)
(* dispatchers and every bound. The first half proves the types, the       *)
(* binding and the one driver, by the inductive invariant Inv, one step    *)
(* for each action of Next; the second half, how the store's tables agree. *)
(***************************************************************************)
EXTENDS RunLifecycle, TLAPS

StoreType ==
    /\ active \in Runs \cup {None}
    /\ run \in [Runs -> [state : RunStates, active : 0..MaxAttempts]]
    /\ att \in [Attempts -> AttemptRecords]
    /\ dec \in [Attempts -> 0..MaxDecisions]
    /\ act \in [Actions -> ActionRecords]
    /\ rel \in [Attempts -> ReleaseStates]
    /\ fresh \subseteq Dispatchers

LocalType ==
    /\ pins \subseteq Attempts
    /\ disp \in [Dispatchers -> [pc : Phases, run : Runs \cup {None},
                                 att : 0..MaxAttempts]]
    /\ stalling \subseteq Runs /\ recovering \subseteq Runs
    /\ due \in BOOLEAN
    /\ crashes \in 0..MaxCrashes

\* A run that exists has an attempt, the run of an attempt exists, and only
\* an attempt that exists is bound.
RunHasAttempt ==
    \A r \in Runs :
       /\ run[r].state # "absent" => run[r].active \in Attempts
       /\ run[r].active \in Attempts => att[run[r].active].state # "absent"

AttemptHasRun ==
    \A a \in Attempts : att[a].run \in Runs =>
        run[att[a].run].state # "absent"

BoundExists == \A a \in Attempts : att[a].bound => att[a].state # "absent"

StoreInv ==
    StoreType /\ OneActiveRun /\ RunHasAttempt /\ AttemptHasRun /\ BoundExists

\* A dispatch in progress has a run and an attempt, bound once it executes.
DispatchHasRun ==
    \A w \in Dispatchers : disp[w].pc # "idle" =>
        disp[w].run \in Runs /\ disp[w].att \in Attempts

ExecutingIsBound ==
    \A w \in Dispatchers : Executing(w) => att[disp[w].att].bound

DispatchInv == DispatchHasRun /\ ExecutingIsBound /\ AtMostOneDriver

Inv == StoreInv /\ LocalType /\ DispatchInv

BoundKept == \A a \in Attempts : att[a].bound => att'[a].bound

-----------------------------------------------------------------------------
\* An edge of the transition table leaves a run that has not ended, and never
\* leads to a run that does not exist.
LEMMA TransitionEdges ==
    \A s \in RunStates : \A t \in RUN_TRANSITIONS[s] :
        /\ s \notin TERMINAL_RUN_STATES \cup {"absent"}
        /\ t \in RunStates \ {"absent"}
BY DEF RUN_TRANSITIONS, RunStates, TERMINAL_RUN_STATES

LEMMA FailPendingType ==
    ASSUME NEW A \in [Actions -> ActionRecords], NEW a
    PROVE  fail_pending_runtime_actions(A, a) \in [Actions -> ActionRecords]
BY DEF fail_pending_runtime_actions, ActionRecords

LEMMA PinReleaseType ==
    ASSUME NEW R \in [Attempts -> ReleaseStates], NEW a
    PROVE  insert_pin_release(R, a) \in [Attempts -> ReleaseStates]
BY DEF insert_pin_release, ReleaseStates

LEMMA SourceReleasesType ==
    ASSUME NEW R \in [Attempts -> ReleaseStates], NEW a
    PROVE  insert_paused_source_releases(R, a) \in [Attempts -> ReleaseStates]
BY PinReleaseType DEF insert_paused_source_releases

\* The updates of an attempt row that the actions make.
LEMMA AttemptUpdates ==
    ASSUME NEW rec \in AttemptRecords
    PROVE  /\ \A t \in RunStates : [rec EXCEPT !.state = t] \in AttemptRecords
           /\ \A b \in BOOLEAN : [rec EXCEPT !.leased = b] \in AttemptRecords
           /\ [rec EXCEPT !.ckpt = TRUE] \in AttemptRecords
           /\ \A t \in RunStates :
                 [rec EXCEPT !.state = t, !.owner = None, !.leased = FALSE]
                    \in AttemptRecords
           /\ \A w \in Dispatchers :
                 [rec EXCEPT !.owner = w, !.leased = TRUE, !.identity = TRUE]
                    \in AttemptRecords
           /\ [rec EXCEPT !.bound = TRUE, !.owner = None, !.leased = FALSE]
                 \in AttemptRecords
<1>1. \A t \in RunStates : [rec EXCEPT !.state = t] \in AttemptRecords
  BY DEF AttemptRecords
<1>2. \A b \in BOOLEAN : [rec EXCEPT !.leased = b] \in AttemptRecords
  BY DEF AttemptRecords
<1>3. [rec EXCEPT !.ckpt = TRUE] \in AttemptRecords
  BY DEF AttemptRecords
<1>4. \A t \in RunStates :
         [rec EXCEPT !.state = t, !.owner = None, !.leased = FALSE]
            \in AttemptRecords
  BY DEF AttemptRecords
<1>5. \A w \in Dispatchers :
         [rec EXCEPT !.owner = w, !.leased = TRUE, !.identity = TRUE]
            \in AttemptRecords
  BY DEF AttemptRecords
<1>6. [rec EXCEPT !.bound = TRUE, !.owner = None, !.leased = FALSE]
         \in AttemptRecords
  BY DEF AttemptRecords
<1> QED  BY <1>1, <1>2, <1>3, <1>4, <1>5, <1>6

\* The updates of an action row that the actions make.
LEMMA ActionUpdates ==
    ASSUME NEW rec \in ActionRecords
    PROVE  /\ rec.st = "pending" => \A s \in {"acked", "failed"} :
                 [rec EXCEPT !.st = s, !.out = "ready"] \in ActionRecords
           /\ \A o \in {"ready", "claimed", "outcome_unknown", "reconcile"} :
                 /\ [rec EXCEPT !.out = o] \in ActionRecords
                 /\ [rec EXCEPT !.out = o, !.exact = FALSE] \in ActionRecords
           /\ \A b \in BOOLEAN :
                 [rec EXCEPT !.acc = TRUE, !.exact = b] \in ActionRecords
<1>1. ASSUME rec.st = "pending", NEW s \in {"acked", "failed"}
      PROVE  [rec EXCEPT !.st = s, !.out = "ready"] \in ActionRecords
  BY <1>1 DEF ActionRecords
<1>2. ASSUME NEW o \in {"ready", "claimed", "outcome_unknown", "reconcile"}
      PROVE  /\ [rec EXCEPT !.out = o] \in ActionRecords
             /\ [rec EXCEPT !.out = o, !.exact = FALSE] \in ActionRecords
  <2>1. [rec EXCEPT !.out = o] \in ActionRecords
    BY DEF ActionRecords
  <2>2. [rec EXCEPT !.out = o, !.exact = FALSE] \in ActionRecords
    BY DEF ActionRecords
  <2> QED  BY <2>1, <2>2
<1>3. ASSUME NEW b \in BOOLEAN
      PROVE  [rec EXCEPT !.acc = TRUE, !.exact = b] \in ActionRecords
  BY DEF ActionRecords
<1> QED  BY <1>1, <1>2, <1>3

LEMMA WithoutClaimsType ==
    ASSUME NEW A \in [Actions -> ActionRecords]
    PROVE  WithoutClaims(A) \in [Actions -> ActionRecords]
<1> SUFFICES ASSUME NEW x \in Actions
             PROVE  [A[x] EXCEPT !.out =
                        IF A[x].out = "claimed" THEN "ready"
                        ELSE IF A[x].out = "reconcile" THEN "outcome_unknown"
                        ELSE A[x].out] \in ActionRecords
  BY DEF WithoutClaims
<1> DEFINE o == IF A[x].out = "claimed" THEN "ready"
                ELSE IF A[x].out = "reconcile" THEN "outcome_unknown"
                ELSE A[x].out
<1>1. A[x] \in ActionRecords
  OBVIOUS
<1>2. o \in {"ready", "claimed", "outcome_unknown", "reconcile"}
  BY <1>1 DEF ActionRecords
<1> HIDE DEF o
<1>3. [A[x] EXCEPT !.out = o] \in ActionRecords
  BY <1>1, <1>2, ActionUpdates
<1> QED  BY <1>3 DEF o

\* transition_run on a run that has not ended keeps the store's invariant.
LEMMA TransitionRun ==
    ASSUME StoreInv, NEW r \in Runs, NEW t \in RunStates \ {"absent"},
           NEW A \in [Actions -> ActionRecords],
           run[r].state \notin TERMINAL_RUN_STATES \cup {"absent"},
           transition_run(r, t, A)
    PROVE  StoreInv' /\ BoundKept
<1> DEFINE a == run[r].active
<1>1. a \in Attempts /\ active = r
  BY DEF StoreInv, RunHasAttempt, OneActiveRun
<1>2. run' = [run EXCEPT ![r].state = t] /\ att' = [att EXCEPT ![a].state = t]
  BY DEF transition_run
<1>3. active' = IF t \in TERMINAL_RUN_STATES THEN None ELSE active
  BY <1>1 DEF transition_run, ClearActive
<1>4. StoreType'
  <2>1. active' \in Runs \cup {None}
    BY <1>3 DEF StoreInv, StoreType
  <2>2. run' \in [Runs -> [state : RunStates, active : 0..MaxAttempts]]
    BY <1>2 DEF StoreInv, StoreType
  <2>3. att' \in [Attempts -> AttemptRecords]
    <3>1. att[a] \in AttemptRecords
      BY <1>1 DEF StoreInv, StoreType
    <3>2. [att[a] EXCEPT !.state = t] \in AttemptRecords
      BY <3>1, AttemptUpdates
    <3> QED  BY <1>2, <3>2 DEF StoreInv, StoreType
  <2>4. dec' \in [Attempts -> 0..MaxDecisions]
    BY ConstantsAssumption DEF StoreInv, StoreType, transition_run
  <2>5. act' \in [Actions -> ActionRecords]
    BY FailPendingType DEF transition_run
  <2>6. rel' \in [Attempts -> ReleaseStates]
    BY PinReleaseType DEF StoreInv, StoreType, transition_run
  <2>7. fresh' \subseteq Dispatchers
    BY DEF StoreInv, StoreType, transition_run, Bump
  <2> QED  BY <2>1, <2>2, <2>3, <2>4, <2>5, <2>6, <2>7 DEF StoreType
<1>5. OneActiveRun'
  BY <1>1, <1>2, <1>3, ConstantsAssumption
     DEF OneActiveRun, StoreInv, StoreType, TERMINAL_RUN_STATES
<1>6. \A b \in Attempts : /\ att'[b].run = att[b].run
                          /\ att'[b].bound = att[b].bound
                          /\ att'[b].state \in {att[b].state, t}
  <2>1. \A b \in Attempts : att[b] \in AttemptRecords
    BY DEF StoreInv, StoreType
  <2> QED  BY <1>1, <1>2, <2>1 DEF AttemptRecords, StoreInv, StoreType
<1>7. \A q \in Runs : /\ run'[q].active = run[q].active
                      /\ run[q].state # "absent" <=> run'[q].state # "absent"
  BY <1>2 DEF StoreInv, StoreType
<1>8. RunHasAttempt'
  BY <1>6, <1>7 DEF RunHasAttempt, StoreInv
<1>9. AttemptHasRun' /\ BoundExists' /\ BoundKept
  BY <1>6, <1>7 DEF AttemptHasRun, BoundExists, BoundKept, StoreInv
<1> QED  BY <1>4, <1>5, <1>8, <1>9 DEF StoreInv

\* fail_unbound_run on the active attempt of a run that has not ended keeps
\* the store's invariant.
LEMMA FailUnboundRun ==
    ASSUME StoreInv, NEW r \in Runs, CanFailUnbound(r, run[r].active),
           fail_unbound_run(r)
    PROVE  StoreInv' /\ BoundKept
<1> DEFINE a == run[r].active
<1>1. /\ a \in Attempts /\ active = r /\ ~att[a].bound
      /\ run[r].state \notin TERMINAL_RUN_STATES \cup {"absent"}
  BY DEF StoreInv, OneActiveRun, CanFailUnbound, IsActive,
         DISPATCHABLE_RUN_STATES, TERMINAL_RUN_STATES
<1>2. att' = [att EXCEPT ![a].state = "failed", ![a].owner = None,
                         ![a].leased = FALSE]
  BY DEF fail_unbound_run
<1>3. \/ /\ \E s \in {"canceled", "failed"} : run' = [run EXCEPT ![r].state = s]
         /\ active' = None
      \/ /\ \E s \in Attempts :
                /\ att[s].state # "absent"
                /\ run' = [run EXCEPT ![r] = [state |-> "paused", active |-> s]]
         /\ active' = active
  BY <1>1 DEF fail_unbound_run, ClearActive, paused_source_attempt,
              IsPausedSource
<1>4. att' \in [Attempts -> AttemptRecords]
  <2>1. att[a] \in AttemptRecords
    BY <1>1 DEF StoreInv, StoreType
  <2>2. [att[a] EXCEPT !.state = "failed", !.owner = None, !.leased = FALSE]
           \in AttemptRecords
    BY <2>1, AttemptUpdates DEF RunStates
  <2> QED  BY <1>2, <2>2 DEF StoreInv, StoreType
<1>5. run' \in [Runs -> [state : RunStates, active : 0..MaxAttempts]]
  <2>1. \A s \in Attempts : s \in 0..MaxAttempts
    BY ConstantsAssumption DEF Attempts
  <2>2. {"canceled", "failed", "paused"} \subseteq RunStates
    BY DEF RunStates
  <2>3. run \in [Runs -> [state : RunStates, active : 0..MaxAttempts]]
    BY DEF StoreInv, StoreType
  <2>4. ASSUME NEW s \in {"canceled", "failed"}, run' = [run EXCEPT ![r].state = s]
        PROVE  run' \in [Runs -> [state : RunStates, active : 0..MaxAttempts]]
    BY <2>2, <2>3, <2>4
  <2>5. ASSUME NEW s \in Attempts,
               run' = [run EXCEPT ![r] = [state |-> "paused", active |-> s]]
        PROVE  run' \in [Runs -> [state : RunStates, active : 0..MaxAttempts]]
    BY <2>1, <2>2, <2>3, <2>5
  <2> QED  BY <1>3, <2>4, <2>5
<1>6. StoreType'
  <2>1. act' \in [Actions -> ActionRecords]
    BY FailPendingType DEF fail_unbound_run, StoreInv, StoreType
  <2>2. rel' \in [Attempts -> ReleaseStates]
    BY PinReleaseType, SourceReleasesType
       DEF fail_unbound_run, StoreInv, StoreType
  <2>3. fresh' \subseteq Dispatchers /\ dec' = dec
    BY DEF fail_unbound_run, Bump, StoreInv, StoreType
  <2>4. active' \in Runs \cup {None}
    BY <1>3 DEF StoreInv, StoreType
  <2> QED  BY <1>4, <1>5, <2>1, <2>2, <2>3, <2>4 DEF StoreInv, StoreType
<1>7. OneActiveRun'
  BY <1>1, <1>3, ConstantsAssumption
     DEF OneActiveRun, StoreInv, StoreType, TERMINAL_RUN_STATES
<1>8. \A b \in Attempts : /\ att'[b].run = att[b].run
                          /\ att'[b].bound = att[b].bound
                          /\ att'[b].state \in {att[b].state, "failed"}
  <2>1. \A b \in Attempts : att[b] \in AttemptRecords
    BY DEF StoreInv, StoreType
  <2> QED  BY <1>1, <1>2, <2>1 DEF AttemptRecords, StoreInv, StoreType
<1>9. RunHasAttempt'
  <2> SUFFICES ASSUME NEW q \in Runs
               PROVE  /\ run'[q].state # "absent" => run'[q].active \in Attempts
                      /\ run'[q].active \in Attempts =>
                            att'[run'[q].active].state # "absent"
    BY DEF RunHasAttempt
  <2>1. \/ /\ run'[q].active = run[q].active
           /\ run'[q].state # "absent" <=> run[q].state # "absent"
        \/ run'[q].active \in Attempts /\ att[run'[q].active].state # "absent"
    BY <1>1, <1>3 DEF StoreInv, StoreType
  <2> QED  BY <1>8, <2>1 DEF RunHasAttempt, StoreInv
<1>10. AttemptHasRun' /\ BoundExists' /\ BoundKept
  <2>1. \A q \in Runs : run[q].state # "absent" => run'[q].state # "absent"
    BY <1>1, <1>3 DEF StoreInv, StoreType
  <2> QED  BY <1>8, <2>1 DEF AttemptHasRun, BoundExists, BoundKept, StoreInv
<1> QED  BY <1>6, <1>7, <1>9, <1>10 DEF StoreInv

\* A step that leaves the store alone.
LEMMA StoreUnchanged ==
    ASSUME StoreInv, UNCHANGED <<store, fresh>>
    PROVE  StoreInv' /\ BoundKept
BY DEF StoreInv, StoreType, OneActiveRun, RunHasAttempt, AttemptHasRun,
       BoundExists, BoundKept, store, IsActive

LEMMA NewRecords ==
    /\ \A r \in Runs, s \in RunStates, L \in SUBSET Attempts, c \in BOOLEAN :
          NewAttempt(r, s, L, c) \in AttemptRecords
    /\ \A k \in Kinds, a \in Attempts : NewAction(k, a) \in ActionRecords
<1>1. ASSUME NEW r \in Runs, NEW s \in RunStates, NEW L \in SUBSET Attempts,
             NEW c \in BOOLEAN
      PROVE  NewAttempt(r, s, L, c) \in AttemptRecords
  BY DEF NewAttempt, AttemptRecords
<1>2. ASSUME NEW k \in Kinds, NEW a \in Attempts
      PROVE  NewAction(k, a) \in ActionRecords
  BY ConstantsAssumption DEF NewAction, ActionRecords, Attempts
<1> QED  BY <1>1, <1>2

\* A run and an attempt move together to a state that does not end the run.
LEMMA StateWrite ==
    ASSUME StoreInv, NEW r \in Runs, NEW a \in Attempts,
           NEW t \in RunStates \ (TERMINAL_RUN_STATES \cup {"absent"}),
           run[r].state \notin TERMINAL_RUN_STATES \cup {"absent"},
           run' = [run EXCEPT ![r].state = t],
           att' = [att EXCEPT ![a].state = t],
           act' \in [Actions -> ActionRecords],
           dec' \in [Attempts -> 0..MaxDecisions],
           Bump(r), UNCHANGED <<active, rel>>
    PROVE  StoreInv' /\ BoundKept
<1>1. \A b \in Attempts : att[b] \in AttemptRecords
  BY DEF StoreInv, StoreType
<1>2. att' \in [Attempts -> AttemptRecords]
  <2>1. [att[a] EXCEPT !.state = t] \in AttemptRecords
    BY <1>1, AttemptUpdates
  <2> QED  BY <2>1 DEF StoreInv, StoreType
<1>3. StoreType'
  BY <1>2 DEF StoreInv, StoreType, Bump
<1>4. \A b \in Attempts : /\ att'[b].run = att[b].run
                          /\ att'[b].bound = att[b].bound
                          /\ att'[b].state \in {att[b].state, t}
  BY <1>1 DEF AttemptRecords, StoreInv, StoreType
<1>5. OneActiveRun'
  BY DEF OneActiveRun, StoreInv, StoreType
<1>6. RunHasAttempt'
  <2>1. \A q \in Runs : /\ run'[q].active = run[q].active
                        /\ run[q].state # "absent" <=> run'[q].state # "absent"
    BY DEF StoreInv, StoreType
  <2> QED  BY <1>4, <2>1 DEF RunHasAttempt, StoreInv
<1>7. AttemptHasRun' /\ BoundExists' /\ BoundKept
  BY <1>4 DEF AttemptHasRun, BoundExists, BoundKept, StoreInv, StoreType
<1> QED  BY <1>3, <1>5, <1>6, <1>7 DEF StoreInv

\* A new attempt row takes an unused id, and its run points at it.
LEMMA NewAttemptWrite ==
    ASSUME StoreInv, NEW r \in Runs, NEW a \in Attempts, IsNextAttempt(a),
           active \in {None, r},
           NEW t \in RunStates \ (TERMINAL_RUN_STATES \cup {"absent"}),
           NEW rec \in AttemptRecords, rec.run = r, ~rec.bound,
           rec.state = t,
           run' = [run EXCEPT ![r] = [state |-> t, active |-> a]],
           att' = [att EXCEPT ![a] = rec],
           act' \in [Actions -> ActionRecords],
           active' = r, fresh' \subseteq Dispatchers, UNCHANGED <<dec, rel>>
    PROVE  StoreInv' /\ BoundKept
<1>1. ~att[a].bound
  BY DEF IsNextAttempt, StoreInv, BoundExists
<1>2. StoreType'
  BY ConstantsAssumption DEF StoreInv, StoreType, Attempts
<1>3. OneActiveRun'
  BY ConstantsAssumption DEF OneActiveRun, StoreInv, StoreType
<1>4. RunHasAttempt'
  BY DEF RunHasAttempt, StoreInv, StoreType
<1>5. AttemptHasRun' /\ BoundExists' /\ BoundKept
  BY <1>1 DEF AttemptHasRun, BoundExists, BoundKept, StoreInv, StoreType
<1> QED  BY <1>2, <1>3, <1>4, <1>5 DEF StoreInv

\* The operator's commands.
LEMMA OperatorKeepsStore ==
    ASSUME Inv, NEW r \in Runs,
           \/ create_run(r) \/ request_pause(r) \/ request_cancel(r)
           \/ converge_cancellation(r) \/ resume_run(r) \/ retry_run(r)
           \/ \E a \in Attempts : resolve_decision(r, a)
    PROVE  StoreInv' /\ BoundKept /\ UNCHANGED local
<1> USE DEF Inv
<1>0. /\ StoreInv /\ run[r].state \in RunStates
      /\ act \in [Actions -> ActionRecords]
      /\ run[r].state # "absent" => run[r].active \in Attempts
  BY DEF StoreInv, StoreType, RunHasAttempt
<1>1. CASE create_run(r)
  <2>1. active \in {None, r}
    BY <1>1 DEF create_run, StoreInv, OneActiveRun, StoreType,
                TERMINAL_RUN_STATES
  <2>2. PICK a \in Attempts :
           /\ IsNextAttempt(a)
           /\ run' = [run EXCEPT ![r] = [state |-> "queued", active |-> a]]
           /\ att' = [att EXCEPT ![a] = NewAttempt(r, "queued", {}, FALSE)]
    BY <1>1 DEF create_run
  <2>3. NewAttempt(r, "queued", {}, FALSE) \in AttemptRecords
    BY NewRecords DEF RunStates
  <2>4. /\ NewAttempt(r, "queued", {}, FALSE).run = r
        /\ ~NewAttempt(r, "queued", {}, FALSE).bound
        /\ NewAttempt(r, "queued", {}, FALSE).state = "queued"
    BY DEF NewAttempt
  <2>5. "queued" \in RunStates \ (TERMINAL_RUN_STATES \cup {"absent"})
    BY DEF RunStates, TERMINAL_RUN_STATES
  <2>6. /\ active' = r /\ UNCHANGED <<dec, act, rel, local>>
        /\ fresh' \subseteq Dispatchers
    BY <1>0, <1>1 DEF create_run, StoreInv, StoreType
  <2> QED  BY <1>0, <2>1, <2>2, <2>3, <2>4, <2>5, <2>6, NewAttemptWrite
<1>2. ASSUME NEW t \in RunStates \ (TERMINAL_RUN_STATES \cup {"absent"}),
             NEW k \in Kinds, NEW A \in [Actions -> ActionRecords],
             t \in RUN_TRANSITIONS[run[r].state],
             run' = [run EXCEPT ![r].state = t],
             att' = [att EXCEPT ![run[r].active].state = t],
             insert_control_runtime_action(A, run[r].active, k),
             Bump(r), UNCHANGED <<active, dec, rel, local>>
      PROVE  StoreInv' /\ BoundKept /\ UNCHANGED local
  <2>1. /\ run[r].state \notin TERMINAL_RUN_STATES \cup {"absent"}
        /\ run[r].active \in Attempts
    BY <1>0, <1>2, TransitionEdges
  <2>3. act' \in [Actions -> ActionRecords]
    BY <1>2, <2>1, NewRecords DEF insert_control_runtime_action
  <2> QED  BY <1>0, <1>2, <2>1, <2>3, StateWrite DEF StoreInv, StoreType
<1>3. CASE request_pause(r)
  <2>1. "pause_requested" \in RunStates \ (TERMINAL_RUN_STATES \cup {"absent"})
        /\ "pause" \in Kinds
    BY DEF RunStates, TERMINAL_RUN_STATES, Kinds
  <2> QED  BY <1>0, <1>2, <1>3, <2>1 DEF request_pause
<1>4. CASE request_cancel(r)
  <2>1. "cancel_requested" \in RunStates \ (TERMINAL_RUN_STATES \cup {"absent"})
        /\ "cancel" \in Kinds
    BY DEF RunStates, TERMINAL_RUN_STATES, Kinds
  <2>2. fail_pending_runtime_actions(act, run[r].active)
           \in [Actions -> ActionRecords]
    BY <1>0, FailPendingType
  <2> QED  BY <1>0, <1>2, <1>4, <2>1, <2>2 DEF request_cancel
<1>5. CASE converge_cancellation(r)
  BY <1>0, <1>5, FailUnboundRun DEF converge_cancellation
<1>6. ASSUME NEW source \in {"paused", "failed"},
             NEW target \in {"resuming", "retrying"},
             restart_attempt(r, source, target)
      PROVE  StoreInv' /\ BoundKept /\ UNCHANGED local
  <2> DEFINE p == run[r].active
             L == att[p].lineage \cup {p}
             c == att[p].ckpt \/ att[p].srcCkpt
  <2>1. p \in Attempts /\ active \in {None, r}
    BY <1>0, <1>6 DEF restart_attempt
  <2>2. PICK a \in Attempts :
           /\ IsNextAttempt(a)
           /\ run' = [run EXCEPT ![r] = [state |-> target, active |-> a]]
           /\ att' = [att EXCEPT ![a] = NewAttempt(r, target, L, c)]
    BY <1>6 DEF restart_attempt
  <2>3. L \in SUBSET Attempts /\ c \in BOOLEAN
    BY <2>1 DEF StoreInv, StoreType, AttemptRecords
  <2>4. target \in RunStates \ (TERMINAL_RUN_STATES \cup {"absent"})
    BY DEF RunStates, TERMINAL_RUN_STATES
  <2>5. NewAttempt(r, target, L, c) \in AttemptRecords
    BY <2>3, <2>4, NewRecords
  <2>6. /\ NewAttempt(r, target, L, c).run = r
        /\ ~NewAttempt(r, target, L, c).bound
        /\ NewAttempt(r, target, L, c).state = target
    BY DEF NewAttempt
  <2>7. /\ active' = r /\ UNCHANGED <<dec, rel, local>>
        /\ act' \in [Actions -> ActionRecords] /\ fresh' \subseteq Dispatchers
    BY <1>0, <1>6, FailPendingType DEF restart_attempt, Bump, StoreInv, StoreType
  <2> HIDE DEF L, c
  <2> QED  BY <1>0, <2>1, <2>2, <2>4, <2>5, <2>6, <2>7, NewAttemptWrite
<1>7. CASE resume_run(r) \/ retry_run(r)
  BY <1>6, <1>7 DEF resume_run, retry_run
<1>8. ASSUME NEW a \in Attempts, resolve_decision(r, a)
      PROVE  StoreInv' /\ BoundKept /\ UNCHANGED local
  <2>1. /\ "resuming" \in RunStates \ (TERMINAL_RUN_STATES \cup {"absent"})
        /\ run[r].state \notin TERMINAL_RUN_STATES \cup {"absent"}
        /\ "resolve" \in Kinds
    BY <1>8 DEF RunStates, TERMINAL_RUN_STATES, Kinds, resolve_decision
  <2>2. act' \in [Actions -> ActionRecords]
    <3>1. NewAction("resolve", a) \in ActionRecords
      BY <2>1, NewRecords, ConstantsAssumption DEF Attempts
    <3> QED  BY <1>0, <1>8, <3>1 DEF resolve_decision
  <2>3. dec' \in [Attempts -> 0..MaxDecisions]
    BY <1>8, ConstantsAssumption DEF resolve_decision, StoreInv, StoreType
  <2> QED  BY <1>0, <1>8, <2>1, <2>2, <2>3, StateWrite DEF resolve_decision
<1> QED  BY <1>1, <1>3, <1>4, <1>5, <1>7, <1>8

-----------------------------------------------------------------------------
ExecutingPhases == {"bound", "execute", "stream", "parked"}

\* A dispatch call moves: it may go on executing the attempt it executes, and
\* may not begin to.
LEMMA DispatchMove ==
    ASSUME Inv, BoundKept, NEW w \in Dispatchers,
           NEW d \in [pc : Phases, run : Runs \cup {None}, att : 0..MaxAttempts],
           disp' = [disp EXCEPT ![w] = d],
           d.pc # "idle" => d.run \in Runs /\ d.att \in Attempts,
           d.pc \in ExecutingPhases => Executing(w) /\ d.att = disp[w].att
    PROVE  /\ DispatchInv'
           /\ disp' \in [Dispatchers -> [pc : Phases, run : Runs \cup {None},
                                         att : 0..MaxAttempts]]
<1>1. disp' \in [Dispatchers -> [pc : Phases, run : Runs \cup {None},
                                 att : 0..MaxAttempts]]
  BY DEF Inv, LocalType
<1>2. \A v \in Dispatchers : disp'[v] = IF v = w THEN d ELSE disp[v]
  BY DEF Inv, LocalType
<1>3. DispatchHasRun'
  BY <1>2 DEF DispatchHasRun, Inv, DispatchInv
<1>4. \A v \in Dispatchers : Executing(v)' =>
         Executing(v) /\ disp'[v].att = disp[v].att
  BY <1>2 DEF Executing, ExecutingPhases
<1>5. ExecutingIsBound'
  <2> SUFFICES ASSUME NEW v \in Dispatchers, Executing(v)'
               PROVE  att'[disp'[v].att].bound
    BY DEF ExecutingIsBound
  <2>1. Executing(v) /\ disp'[v].att = disp[v].att
    BY <1>4
  <2>2. disp[v].att \in Attempts /\ att[disp[v].att].bound
    BY <2>1 DEF Inv, DispatchInv, ExecutingIsBound, DispatchHasRun, Executing
  <2> QED  BY <2>1, <2>2 DEF BoundKept
<1>6. AtMostOneDriver'
  <2> SUFFICES ASSUME NEW u \in Dispatchers, NEW v \in Dispatchers,
                      Executing(u)', Executing(v)', disp'[u].att = disp'[v].att
               PROVE  u = v
    BY DEF AtMostOneDriver
  <2> QED  BY <1>4 DEF AtMostOneDriver, Inv, DispatchInv
<1> QED  BY <1>1, <1>3, <1>5, <1>6 DEF DispatchInv

LEMMA EndTurnKeeps ==
    ASSUME Inv, BoundKept, NEW w \in Dispatchers, disp[w].pc # "idle", EndTurn(w)
    PROVE  LocalType' /\ DispatchInv'
<1>1. /\ Idle \in [pc : Phases, run : Runs \cup {None}, att : 0..MaxAttempts]
      /\ Idle.pc = "idle"
  BY ConstantsAssumption DEF Idle, Phases
<1>2. disp' = [disp EXCEPT ![w] = Idle]
  BY DEF EndTurn
<1>3. Idle.pc \notin ExecutingPhases
  BY <1>1 DEF ExecutingPhases
<1> HIDE DEF Idle
<1>4. /\ DispatchInv'
      /\ disp' \in [Dispatchers -> [pc : Phases, run : Runs \cup {None},
                                    att : 0..MaxAttempts]]
  BY <1>1, <1>2, <1>3, DispatchMove
<1>5. disp[w].run \in Runs
  BY DEF Inv, DispatchInv, DispatchHasRun
<1> QED  BY <1>4, <1>5 DEF EndTurn, LocalType, Inv

LEMMA GotoKeeps ==
    ASSUME Inv, BoundKept, NEW w \in Dispatchers, disp[w].pc # "idle",
           NEW pc \in Phases \ {"idle"},
           pc \in ExecutingPhases => Executing(w), Goto(w, pc)
    PROVE  LocalType' /\ DispatchInv'
<1> DEFINE d == [disp[w] EXCEPT !.pc = pc]
<1>1. /\ d \in [pc : Phases, run : Runs \cup {None}, att : 0..MaxAttempts]
      /\ d.run = disp[w].run /\ d.att = disp[w].att /\ d.pc = pc
  BY DEF Inv, LocalType
<1>2. disp' = [disp EXCEPT ![w] = d]
  BY DEF Goto
<1>3. disp[w].run \in Runs /\ disp[w].att \in Attempts
  BY DEF Inv, DispatchInv, DispatchHasRun
<1> HIDE DEF d
<1>4. /\ DispatchInv'
      /\ disp' \in [Dispatchers -> [pc : Phases, run : Runs \cup {None},
                                    att : 0..MaxAttempts]]
  BY <1>1, <1>2, <1>3, DispatchMove
<1> QED  BY <1>4 DEF Goto, LocalType, Inv

\* A step that leaves the dispatch calls alone.
LEMMA DispUnchanged ==
    ASSUME Inv, BoundKept, UNCHANGED disp
    PROVE  DispatchInv'
<1>3. DispatchHasRun' /\ AtMostOneDriver'
  BY DEF Inv, DispatchInv, DispatchHasRun, AtMostOneDriver, Executing
<1>4. ExecutingIsBound'
  BY DEF Inv, DispatchInv, ExecutingIsBound, DispatchHasRun, Executing, BoundKept
<1> QED  BY <1>3, <1>4 DEF DispatchInv

LEMMA LocalUnchanged ==
    ASSUME Inv, BoundKept, UNCHANGED local
    PROVE  LocalType' /\ DispatchInv'
<1>1. DispatchInv'
  BY DispUnchanged DEF local
<1>2. LocalType'
  BY DEF Inv, LocalType, local
<1> QED  BY <1>1, <1>2

-----------------------------------------------------------------------------
\* What an event of a resumed attempt meets: the state it is applied in and
\* the actions it leaves.
LEMMA ConfirmedResume ==
    ASSUME StoreInv, NEW r \in Runs, NEW a,
           NEW c \in confirm_runtime_resume_from_event(r, a)
    PROVE  /\ c[1] = IF run[r].state = "resuming" THEN "running"
                     ELSE run[r].state
           /\ c[2] \in [Actions -> ActionRecords]
<1>1. act \in [Actions -> ActionRecords]
  BY DEF StoreInv, StoreType
<1>2. CASE c \in {<<run[r].state, act>> :
                     n \in IF run[r].state = "resuming" THEN {} ELSE {0}}
  BY <1>1, <1>2
<1>3. ASSUME NEW x \in Actions, run[r].state = "resuming", Pending(x, a),
             c = <<"running", [act EXCEPT ![x].st = "acked", ![x].out = "ready"]>>
      PROVE  /\ c[1] = "running"
             /\ c[2] \in [Actions -> ActionRecords]
  <2>1. [act[x] EXCEPT !.st = "acked", !.out = "ready"] \in ActionRecords
    BY <1>1, <1>3, ActionUpdates DEF Pending
  <2> QED  BY <1>1, <1>3, <2>1
<1> QED  BY <1>2, <1>3 DEF confirm_runtime_resume_from_event

\* A guarded transition_run, of the run's own state or of the confirmed one.
LEMMA GuardedTransition ==
    ASSUME StoreInv, NEW r \in Runs, NEW a, NEW s \in RunStates, NEW t,
           NEW A \in [Actions -> ActionRecords],
           s = run[r].state \/ (s = "running" /\ run[r].state = "resuming"),
           CanTransition(r, a, s, t), transition_run(r, t, A)
    PROVE  StoreInv' /\ BoundKept
<1>1. /\ s \notin TERMINAL_RUN_STATES \cup {"absent"}
      /\ t \in RunStates \ {"absent"}
  BY TransitionEdges DEF CanTransition
<1>2. run[r].state \notin TERMINAL_RUN_STATES \cup {"absent"}
  BY <1>1 DEF TERMINAL_RUN_STATES
<1> QED  BY <1>1, <1>2, TransitionRun

\* The dispatch call, up to the binding.
LEMMA DispatchBeforeBinding ==
    ASSUME Inv, NEW w \in Dispatchers,
           \/ \E r \in Runs : reserve_attempt_dispatch(w, r)
           \/ pin_attempt(w) \/ fail_before_binding(w) \/ pin_attempt_runtime(w)
    PROVE  Inv' /\ BoundKept
<1>0. StoreInv /\ StoreType /\ LocalType
  BY DEF Inv, StoreInv
<1>1. ASSUME NEW r \in Runs, reserve_attempt_dispatch(w, r)
      PROVE  Inv' /\ BoundKept
  <2> DEFINE a == run[r].active
             d == [pc |-> "reserved", run |-> r, att |-> a]
  <2>1. /\ a \in Attempts
        /\ att' = [att EXCEPT ![a].owner = w, ![a].leased = TRUE,
                              ![a].identity = TRUE]
        /\ disp' = [disp EXCEPT ![w] = d]
        /\ fresh' \subseteq Dispatchers
        /\ UNCHANGED <<active, run, dec, act, rel, pins, stalling, recovering,
                       due, crashes>>
    BY <1>0, <1>1 DEF reserve_attempt_dispatch, StoreType
  <2>2. \A b \in Attempts : att[b] \in AttemptRecords
    BY <1>0 DEF StoreType
  <2>3. att' \in [Attempts -> AttemptRecords]
    <3>1. [att[a] EXCEPT !.owner = w, !.leased = TRUE, !.identity = TRUE]
             \in AttemptRecords
      BY <2>1, <2>2, AttemptUpdates
    <3> QED  BY <1>0, <2>1, <3>1 DEF StoreType
  <2>4. \A b \in Attempts : /\ att'[b].run = att[b].run
                            /\ att'[b].bound = att[b].bound
                            /\ att'[b].state = att[b].state
    BY <1>0, <2>1, <2>2 DEF AttemptRecords, StoreType
  <2>5. StoreInv' /\ BoundKept
    <3>1. StoreType'
      BY <1>0, <2>1, <2>3 DEF StoreType
    <3>2. OneActiveRun' /\ RunHasAttempt'
      BY <1>0, <2>1, <2>4 DEF StoreInv, OneActiveRun, RunHasAttempt
    <3>3. AttemptHasRun' /\ BoundExists' /\ BoundKept
      BY <1>0, <2>1, <2>4 DEF StoreInv, AttemptHasRun, BoundExists, BoundKept
    <3> QED  BY <3>1, <3>2, <3>3 DEF StoreInv
  <2>6. /\ d \in [pc : Phases, run : Runs \cup {None}, att : 0..MaxAttempts]
        /\ d.run \in Runs /\ d.att \in Attempts /\ d.pc \notin ExecutingPhases
    BY <2>1, ConstantsAssumption DEF Phases, Attempts, ExecutingPhases
  <2>7. disp' = [disp EXCEPT ![w] = d]
    BY <2>1
  <2> HIDE DEF d
  <2>8. /\ DispatchInv'
        /\ disp' \in [Dispatchers -> [pc : Phases, run : Runs \cup {None},
                                      att : 0..MaxAttempts]]
    BY <2>5, <2>6, <2>7, DispatchMove
  <2> QED  BY <1>0, <2>1, <2>5, <2>8 DEF Inv, LocalType
<1>2. CASE pin_attempt(w)
  <2>1. StoreInv' /\ BoundKept
    BY <1>0, <1>2, StoreUnchanged DEF pin_attempt
  <2> DEFINE d == [disp[w] EXCEPT !.pc = "pinned"]
  <2>2. disp[w].run \in Runs /\ disp[w].att \in Attempts
    BY <1>2 DEF pin_attempt, Inv, DispatchInv, DispatchHasRun
  <2>3. /\ d \in [pc : Phases, run : Runs \cup {None}, att : 0..MaxAttempts]
        /\ d.run \in Runs /\ d.att \in Attempts /\ d.pc \notin ExecutingPhases
    BY <1>0, <2>2 DEF LocalType, Phases, ExecutingPhases
  <2>4. disp' = [disp EXCEPT ![w] = d]
    BY <1>2 DEF pin_attempt
  <2> HIDE DEF d
  <2>5. /\ DispatchInv'
        /\ disp' \in [Dispatchers -> [pc : Phases, run : Runs \cup {None},
                                      att : 0..MaxAttempts]]
    BY <2>1, <2>3, <2>4, DispatchMove
  <2> QED  BY <1>0, <1>2, <2>1, <2>2, <2>5 DEF pin_attempt, Inv, LocalType
<1>3. CASE fail_before_binding(w)
  <2>1. disp[w].pc # "idle" /\ disp[w].run \in Runs
    BY <1>3 DEF fail_before_binding, Inv, DispatchInv, DispatchHasRun
  <2>2. StoreInv' /\ BoundKept
    <3>1. CASE UNCHANGED <<store, fresh>>
      BY <1>0, <3>1, StoreUnchanged
    <3>2. CASE /\ CanFailUnbound(disp[w].run, disp[w].att)
               /\ fail_unbound_run(disp[w].run)
      <4>1. CanFailUnbound(disp[w].run, run[disp[w].run].active)
        BY <3>2 DEF CanFailUnbound, IsActive
      <4> QED  BY <1>0, <2>1, <3>2, <4>1, FailUnboundRun
    <3> QED  BY <1>3, <3>1, <3>2 DEF fail_before_binding
  <2> QED  BY <1>3, <2>1, <2>2, EndTurnKeeps DEF fail_before_binding, Inv
<1>4. CASE pin_attempt_runtime(w)
  <2> DEFINE a == disp[w].att
  <2>1. /\ disp[w].pc = "pinned" /\ a \in Attempts /\ disp[w].run \in Runs
        /\ ~att[a].bound /\ IsActive(disp[w].run, a)
        /\ att' = [att EXCEPT ![a].bound = TRUE, ![a].owner = None,
                              ![a].leased = FALSE]
        /\ rel' = insert_paused_source_releases(rel, a)
        /\ disp' = [disp EXCEPT ![w].pc = "bound"]
        /\ fresh' \subseteq Dispatchers
        /\ UNCHANGED <<active, run, dec, act, pins, stalling, recovering,
                       due, crashes>>
    BY <1>0, <1>4 DEF pin_attempt_runtime, Bump, IsActive, StoreType, Inv,
       DispatchInv, DispatchHasRun
  <2>2. \A b \in Attempts : att[b] \in AttemptRecords
    BY <1>0 DEF StoreType
  <2>3. StoreType'
    <3>1. [att[a] EXCEPT !.bound = TRUE, !.owner = None, !.leased = FALSE]
             \in AttemptRecords
      BY <2>1, <2>2, AttemptUpdates
    <3>2. att' \in [Attempts -> AttemptRecords]
      BY <1>0, <2>1, <3>1 DEF StoreType
    <3>3. rel' \in [Attempts -> ReleaseStates]
      BY <1>0, <2>1, SourceReleasesType DEF StoreType
    <3> QED  BY <1>0, <2>1, <3>2, <3>3 DEF StoreType
  <2>4. /\ att'[a].bound
        /\ \A b \in Attempts : /\ att'[b].run = att[b].run
                               /\ b # a => att'[b].bound = att[b].bound
                               /\ att'[b].state = att[b].state
    <3>1. DOMAIN att = Attempts
      BY <1>0 DEF StoreType
    <3>2. \A b \in Attempts : b # a => att'[b] = att[b]
      BY <2>1, <3>1
    <3>3. att'[a] = [att[a] EXCEPT !.bound = TRUE, !.owner = None,
                                   !.leased = FALSE]
      BY <2>1, <3>1
    <3>4. /\ att'[a].bound
          /\ att'[a].run = att[a].run /\ att'[a].state = att[a].state
      <4>1. att[a] \in AttemptRecords
        BY <2>1, <2>2
      <4> HIDE DEF a
      <4>2. att'[a].bound = TRUE
        BY <3>3, <4>1 DEF AttemptRecords
      <4>3. att'[a].run = att[a].run /\ att'[a].state = att[a].state
        BY <3>3, <4>1 DEF AttemptRecords
      <4> QED  BY <4>2, <4>3
    <3> QED  BY <3>2, <3>4
  <2>5. att[a].state # "absent"
    BY <1>0, <2>1 DEF StoreInv, RunHasAttempt, IsActive
  <2>6. StoreInv' /\ BoundKept
    <3> HIDE DEF a
    <3>0. run' = run /\ active' = active /\ a \in Attempts
      BY <2>1
    <3>1. OneActiveRun' /\ RunHasAttempt'
      BY <1>0, <2>4, <3>0 DEF StoreInv, OneActiveRun, RunHasAttempt
    <3>2. AttemptHasRun' /\ BoundExists' /\ BoundKept
      BY <1>0, <2>4, <2>5, <3>0
         DEF StoreInv, AttemptHasRun, BoundExists, BoundKept
    <3> QED  BY <2>3, <3>1, <3>2 DEF StoreInv
  <2>7. \A v \in Dispatchers :
           /\ disp'[v].run = disp[v].run /\ disp'[v].att = disp[v].att
           /\ v # w => disp'[v].pc = disp[v].pc
    BY <1>0, <2>1 DEF LocalType
  <2>8. LocalType'
    BY <1>0, <2>1 DEF LocalType, Phases
  <2>9. \A v \in Dispatchers : Executing(v) => disp[v].att # a
    BY <2>1 DEF Inv, DispatchInv, ExecutingIsBound
  <2>10. DispatchHasRun'
    BY <2>1, <2>7 DEF DispatchHasRun, Inv, DispatchInv
  <2>11. ExecutingIsBound'
    <3> SUFFICES ASSUME NEW v \in Dispatchers, Executing(v)'
                 PROVE  att'[disp'[v].att].bound
      BY DEF ExecutingIsBound
    <3>1. CASE v = w
      BY <2>4, <2>7, <3>1
    <3>2. CASE v # w
      <4>1. Executing(v) /\ disp'[v].att = disp[v].att
        BY <2>7, <3>2 DEF Executing
      <4>2. disp[v].att \in Attempts /\ att[disp[v].att].bound
        BY <4>1 DEF Inv, DispatchInv, ExecutingIsBound, DispatchHasRun, Executing
      <4> QED  BY <2>6, <4>1, <4>2 DEF BoundKept
    <3> QED  BY <3>1, <3>2
  <2>12. AtMostOneDriver'
    BY <2>7, <2>9 DEF AtMostOneDriver, Executing, Inv, DispatchInv
  <2> QED  BY <2>6, <2>8, <2>10, <2>11, <2>12 DEF Inv, DispatchInv
<1> QED  BY <1>1, <1>2, <1>3, <1>4

\* A turn that ends with a guarded transition, or with none.
LEMMA TurnEnds ==
    ASSUME Inv, NEW w \in Dispatchers, disp[w].pc # "idle", EndTurn(w),
           StoreInv' /\ BoundKept
    PROVE  Inv' /\ BoundKept
BY EndTurnKeeps DEF Inv

LEMMA TurnGoesOn ==
    ASSUME Inv, NEW w \in Dispatchers, disp[w].pc # "idle",
           NEW pc \in Phases \ {"idle"},
           pc \in ExecutingPhases => Executing(w), Goto(w, pc),
           StoreInv' /\ BoundKept
    PROVE  Inv' /\ BoundKept
BY GotoKeeps DEF Inv

\* The bridge's writer for a stalled run.
LEMMA EndConverging ==
    ASSUME StoreInv, NEW r \in Runs, end_converging(r)
    PROVE  StoreInv' /\ BoundKept
<1>1. act \in [Actions -> ActionRecords] /\ run[r].state \in RunStates
  BY DEF StoreInv, StoreType
<1> QED  BY <1>1, GuardedTransition DEF end_converging

\* The dispatch call, from the binding to its end.
LEMMA DispatchAfterBinding ==
    ASSUME Inv, NEW w \in Dispatchers,
           \/ start_attempt(w) \/ fail_after_binding(w) \/ event_started(w)
           \/ event_progress(w) \/ event_decision(w) \/ stream_ends_parked(w)
           \/ \E e \in TERMINAL_RUN_STATES : event_terminal(w, e)
           \/ commit_checkpoint(w) \/ event_paused(w)
           \/ end_quiet_after_control(w) \/ turn_timeout(w) \/ end_timed_out(w)
    PROVE  Inv' /\ BoundKept
<1> DEFINE r == disp[w].run
           a == disp[w].att
<1>0. /\ StoreInv /\ StoreType /\ act \in [Actions -> ActionRecords]
      /\ disp[w].pc # "idle" => r \in Runs /\ a \in Attempts
      /\ \A q \in Runs : run[q].state \in RunStates
  BY DEF Inv, StoreInv, StoreType, DispatchInv, DispatchHasRun
<1>p. /\ {"execute", "stream", "parked", "timedout"} \subseteq Phases \ {"idle"}
      /\ "timedout" \notin ExecutingPhases
  BY DEF Phases, ExecutingPhases
<1>g. ASSUME NEW t, r \in Runs, CanTransition(r, a, run[r].state, t),
             transition_run(r, t, act)
      PROVE  StoreInv' /\ BoundKept
  BY <1>0, <1>g, GuardedTransition
<1> HIDE DEF r, a
<1>1. CASE start_attempt(w)
  <2>1. disp[w].pc # "idle" /\ Executing(w)
    BY <1>1 DEF start_attempt, Executing
  <2>2. StoreInv' /\ BoundKept
    BY <1>0, <1>1, <1>g, <2>1 DEF start_attempt, r, a
  <2> QED  BY <1>1, <1>p, <2>1, <2>2, TurnGoesOn DEF start_attempt
<1>2. CASE fail_after_binding(w)
  <2>1. disp[w].pc # "idle"
    BY <1>2 DEF fail_after_binding
  <2>2. StoreInv' /\ BoundKept
    BY <1>0, <1>2, <1>g, <2>1, StoreUnchanged DEF fail_after_binding, r, a
  <2> QED  BY <1>2, <2>1, <2>2, TurnEnds DEF fail_after_binding
<1>3. CASE event_started(w)
  <2>1. disp[w].pc # "idle" /\ Executing(w)
    BY <1>3 DEF event_started, Executing
  <2>2. StoreInv' /\ BoundKept
    BY <1>0, <1>3, <1>g, <2>1 DEF event_started, r, a
  <2> QED  BY <1>3, <1>p, <2>1, <2>2, TurnEnds, TurnGoesOn DEF event_started
<1>4. CASE event_progress(w)
  <2>1. /\ disp[w].pc # "idle" /\ run[r].state = "resuming"
        /\ UNCHANGED <<active, dec, rel, local>> /\ Bump(r)
    BY <1>4 DEF event_progress, record_runtime_observation, r
  <2>2. PICK c \in confirm_runtime_resume_from_event(r, a) :
           /\ run' = [run EXCEPT ![r].state = c[1]]
           /\ att' = [att EXCEPT ![a].state = c[1]]
           /\ act' = c[2]
    BY <1>4 DEF event_progress, record_runtime_observation, r, a
  <2>3. c[1] = "running" /\ c[2] \in [Actions -> ActionRecords]
    BY <1>0, <2>1, ConfirmedResume
  <2>4. /\ "running" \in RunStates \ (TERMINAL_RUN_STATES \cup {"absent"})
        /\ run[r].state \notin TERMINAL_RUN_STATES \cup {"absent"}
    BY <2>1 DEF RunStates, TERMINAL_RUN_STATES
  <2>5. dec' \in [Attempts -> 0..MaxDecisions]
    BY <1>0, <2>1 DEF StoreType
  <2>6. /\ act' \in [Actions -> ActionRecords]
        /\ run' = [run EXCEPT ![r].state = "running"]
        /\ att' = [att EXCEPT ![a].state = "running"]
    BY <2>2, <2>3
  <2>7. StoreInv' /\ BoundKept
    BY <1>0, <2>1, <2>4, <2>5, <2>6, StateWrite
  <2> QED  BY <2>1, <2>7, LocalUnchanged DEF Inv
<1>5. CASE event_decision(w)
  <2>1. disp[w].pc # "idle" /\ Executing(w)
    BY <1>5 DEF event_decision, Executing
  <2>2. CASE /\ run[r].state \in CONVERGING_STATES
             /\ transition_run(r, "canceled", act) /\ EndTurn(w)
    <3>1. /\ "canceled" \in RunStates \ {"absent"}
          /\ run[r].state \notin TERMINAL_RUN_STATES \cup {"absent"}
      BY <2>2 DEF RunStates, TERMINAL_RUN_STATES, CONVERGING_STATES
    <3>2. StoreInv' /\ BoundKept
      BY <1>0, <2>1, <2>2, <3>1, TransitionRun
    <3> QED  BY <2>1, <2>2, <3>2, TurnEnds
  <2>3. CASE /\ dec[a] < MaxDecisions
             /\ \E c \in confirm_runtime_resume_from_event(r, a) :
                   c[1] = "running" /\ act' = c[2]
             /\ run' = [run EXCEPT ![r].state = "waiting_for_decision"]
             /\ att' = [att EXCEPT ![a].state = "waiting_for_decision"]
             /\ dec' = [dec EXCEPT ![a] = @ + 1]
             /\ Bump(r) /\ UNCHANGED <<active, rel>> /\ Goto(w, "parked")
    <3>1. PICK c \in confirm_runtime_resume_from_event(r, a) :
             c[1] = "running" /\ act' = c[2]
      BY <2>3
    <3>2. /\ c[2] \in [Actions -> ActionRecords]
          /\ run[r].state \in {"running", "resuming"}
      BY <1>0, <2>1, <3>1, ConfirmedResume
    <3>3. /\ "waiting_for_decision"
                \in RunStates \ (TERMINAL_RUN_STATES \cup {"absent"})
          /\ run[r].state \notin TERMINAL_RUN_STATES \cup {"absent"}
      BY <3>2 DEF RunStates, TERMINAL_RUN_STATES
    <3>4. dec' \in [Attempts -> 0..MaxDecisions]
      BY <1>0, <2>1, <2>3, ConstantsAssumption DEF StoreType
    <3>5. StoreInv' /\ BoundKept
      BY <1>0, <2>1, <2>3, <3>1, <3>2, <3>3, <3>4, StateWrite
    <3> QED  BY <1>p, <2>1, <2>3, <3>5, TurnGoesOn
  <2> QED  BY <1>5, <2>2, <2>3 DEF event_decision, create_decision, r, a
<1>6. CASE stream_ends_parked(w)
  <2>1. disp[w].pc # "idle" /\ StoreInv' /\ BoundKept
    BY <1>0, <1>6, StoreUnchanged DEF stream_ends_parked
  <2> QED  BY <1>6, <2>1, TurnEnds DEF stream_ends_parked
<1>7. ASSUME NEW e \in TERMINAL_RUN_STATES, event_terminal(w, e)
      PROVE  Inv' /\ BoundKept
  <2>1. disp[w].pc # "idle" /\ EndTurn(w)
    BY <1>7 DEF event_terminal
  <2>2. PICK c \in confirm_runtime_resume_from_event(r, a) :
           /\ CanTransition(r, a, c[1], TerminalTarget(c[1], e))
           /\ transition_run(r, TerminalTarget(c[1], e), c[2])
    BY <1>7 DEF event_terminal, r, a
  <2>3. /\ c[1] = IF run[r].state = "resuming" THEN "running" ELSE run[r].state
        /\ c[2] \in [Actions -> ActionRecords]
    BY <1>0, <2>1, ConfirmedResume
  <2>4. c[1] \in RunStates
    BY <1>0, <2>1, <2>3 DEF RunStates
  <2>5. StoreInv' /\ BoundKept
    BY <1>0, <2>1, <2>2, <2>3, <2>4, GuardedTransition
  <2> QED  BY <2>1, <2>5, TurnEnds
<1>8. CASE commit_checkpoint(w)
  <2>1. /\ a \in Attempts /\ att' = [att EXCEPT ![a].ckpt = TRUE]
        /\ UNCHANGED <<active, run, dec, act, rel, local>>
        /\ fresh' \subseteq Dispatchers
    BY <1>0, <1>8 DEF commit_checkpoint, Bump, StoreType, r, a
  <2>2. \A b \in Attempts : att[b] \in AttemptRecords
    BY <1>0 DEF StoreType
  <2>3. att' \in [Attempts -> AttemptRecords]
    <3>1. [att[a] EXCEPT !.ckpt = TRUE] \in AttemptRecords
      BY <2>1, <2>2, AttemptUpdates
    <3> QED  BY <1>0, <2>1, <3>1 DEF StoreType
  <2>4. \A b \in Attempts : /\ att'[b].run = att[b].run
                            /\ att'[b].bound = att[b].bound
                            /\ att'[b].state = att[b].state
    BY <1>0, <2>1, <2>2 DEF AttemptRecords, StoreType
  <2>5. StoreInv' /\ BoundKept
    <3>1. StoreType'
      BY <1>0, <2>1, <2>3 DEF StoreType
    <3>2. OneActiveRun' /\ RunHasAttempt'
      BY <1>0, <2>1, <2>4 DEF StoreInv, OneActiveRun, RunHasAttempt
    <3>3. AttemptHasRun' /\ BoundExists' /\ BoundKept
      BY <1>0, <2>1, <2>4 DEF StoreInv, AttemptHasRun, BoundExists, BoundKept
    <3> QED  BY <3>1, <3>2, <3>3 DEF StoreInv
  <2> QED  BY <2>1, <2>5, LocalUnchanged DEF Inv
<1>9. CASE event_paused(w)
  <2>1. disp[w].pc # "idle"
    BY <1>9 DEF event_paused
  <2>2. StoreInv' /\ BoundKept
    BY <1>0, <1>9, <1>g, <2>1 DEF event_paused, r, a
  <2> QED  BY <1>9, <2>1, <2>2, TurnEnds DEF event_paused
<1>10. CASE end_quiet_after_control(w)
  <2>1. disp[w].pc # "idle"
    BY <1>10 DEF end_quiet_after_control
  <2>2. StoreInv' /\ BoundKept
    BY <1>0, <1>10, <2>1, StoreUnchanged, EndConverging
       DEF end_quiet_after_control, r
  <2> QED  BY <1>10, <2>1, <2>2, TurnEnds DEF end_quiet_after_control
<1>11. CASE turn_timeout(w)
  <2>1. disp[w].pc # "idle" /\ StoreInv' /\ BoundKept
    BY <1>0, <1>11, StoreUnchanged DEF turn_timeout
  <2> QED  BY <1>11, <1>p, <2>1, TurnGoesOn DEF turn_timeout
<1>12. CASE end_timed_out(w)
  <2>1. disp[w].pc # "idle"
    BY <1>12 DEF end_timed_out
  <2>2. StoreInv' /\ BoundKept
    <3>1. CASE run[r].state \in {"running", "starting"} /\ transition_run(r, "failed", act)
      <4>1. /\ "failed" \in RunStates \ {"absent"}
            /\ run[r].state \notin TERMINAL_RUN_STATES \cup {"absent"}
        BY <3>1 DEF RunStates, TERMINAL_RUN_STATES
      <4> QED  BY <1>0, <2>1, <3>1, <4>1, TransitionRun
    <3>2. CASE UNCHANGED <<store, fresh>>
      BY <1>0, <3>2, StoreUnchanged
    <3> QED  BY <1>12, <3>1, <3>2 DEF end_timed_out, r
  <2> QED  BY <1>12, <2>1, <2>2, TurnEnds DEF end_timed_out
<1> QED  BY <1>1, <1>2, <1>3, <1>4, <1>5, <1>6, <1>7, <1>8, <1>9, <1>10,
            <1>11, <1>12

-----------------------------------------------------------------------------
\* Rows that keep their run, attempt and binding, whatever else they change.
LEMMA RowsWrite ==
    ASSUME StoreInv, StoreType', OneActiveRun',
           \A q \in Runs : /\ run'[q].active = run[q].active
                           /\ run'[q].state = "absent" <=> run[q].state = "absent",
           \A b \in Attempts :
              /\ att'[b].run = att[b].run /\ att'[b].bound = att[b].bound
              /\ att[b].state # "absent" => att'[b].state # "absent"
    PROVE  StoreInv' /\ BoundKept
<1>1. RunHasAttempt'
  BY DEF StoreInv, RunHasAttempt
<1>2. AttemptHasRun' /\ BoundExists' /\ BoundKept
  BY DEF StoreInv, AttemptHasRun, BoundExists, BoundKept
<1> QED  BY <1>1, <1>2 DEF StoreInv

\* A step that writes only the action and release tables.
LEMMA QueueWrite ==
    ASSUME StoreInv, UNCHANGED <<active, run, att, dec>>,
           act' \in [Actions -> ActionRecords],
           rel' \in [Attempts -> ReleaseStates], fresh' \subseteq Dispatchers
    PROVE  StoreInv' /\ BoundKept
<1>1. StoreType' /\ OneActiveRun'
  BY DEF StoreInv, StoreType, OneActiveRun
<1> QED  BY <1>1, RowsWrite

\* The bridge between two turns.
LEMMA ConvergeStalled ==
    ASSUME StoreInv, NEW r \in Runs, converge_stalled(r)
    PROVE  StoreInv' /\ BoundKept
BY FailUnboundRun, EndConverging DEF converge_stalled

LEMMA BridgeKeeps ==
    ASSUME Inv, NEW r \in Runs,
           abandon(r) \/ sweep_stalled(r) \/ refuse_undriven(r)
    PROVE  Inv' /\ BoundKept
<1>0. /\ StoreInv /\ act \in [Actions -> ActionRecords]
      /\ run[r].state \in RunStates
  BY DEF Inv, StoreInv, StoreType
<1>1. CASE abandon(r)
  <2>1. StoreInv' /\ BoundKept
    <3>1. CASE end_converging(r)
      BY <1>0, <3>1, EndConverging
    <3>2. CASE /\ CanTransition(r, run[r].active, run[r].state, "failed")
               /\ transition_run(r, "failed", act)
      BY <1>0, <3>2, GuardedTransition
    <3>3. CASE UNCHANGED <<store, fresh>>
      BY <1>0, <3>3, StoreUnchanged
    <3> QED  BY <1>1, <3>1, <3>2, <3>3 DEF abandon
  <2>2. LocalType'
    BY <1>1 DEF abandon, Inv, LocalType
  <2> QED  BY <1>1, <2>1, <2>2, DispUnchanged DEF abandon, Inv
<1>2. CASE sweep_stalled(r)
  <2>1. StoreInv' /\ BoundKept
    BY <1>0, <1>2, StoreUnchanged, ConvergeStalled DEF sweep_stalled
  <2>2. LocalType'
    BY <1>2 DEF sweep_stalled, Inv, LocalType
  <2> QED  BY <1>2, <2>1, <2>2, DispUnchanged DEF sweep_stalled, Inv
<1>3. CASE refuse_undriven(r)
  <2>1. StoreInv' /\ BoundKept
    BY <1>0, <1>3, FailUnboundRun DEF refuse_undriven
  <2> QED  BY <1>3, <2>1, LocalUnchanged DEF refuse_undriven, Inv
<1> QED  BY <1>1, <1>2, <1>3

-----------------------------------------------------------------------------
\* A queued action's attempt exists; the rows an answer or a refusal of it
\* brings back to "running".
LEMMA BackToRunning ==
    ASSUME StoreInv, NEW x \in Actions, act[x].st = "pending",
           NEW st \in {"acked", "failed"}, NEW back \in BOOLEAN,
           back => run[RunOf(x)].state \in {"resuming", "pause_requested"},
           SettleAction(x, st, IF back THEN "running" ELSE run[RunOf(x)].state),
           att' = IF back THEN [att EXCEPT ![act[x].att].state = "running"]
                  ELSE att,
           UNCHANGED rel
    PROVE  StoreInv' /\ BoundKept
<1> DEFINE r == RunOf(x)
           a == act[x].att
           s == IF back THEN "running" ELSE run[r].state
<1>0. /\ StoreType /\ act[x] \in ActionRecords /\ a \in Attempts
      /\ \A b \in Attempts : att[b] \in AttemptRecords
  BY DEF StoreInv, StoreType, ActionRecords
<1>1. /\ act' = [act EXCEPT ![x].st = st, ![x].out = "ready"]
      /\ run' = [run EXCEPT ![r].state = s]
      /\ Bump(r) /\ UNCHANGED <<active, dec>>
  BY DEF SettleAction
<1>2. act' \in [Actions -> ActionRecords]
  <2>1. [act[x] EXCEPT !.st = st, !.out = "ready"] \in ActionRecords
    BY <1>0, ActionUpdates
  <2> QED  BY <1>0, <1>1, <2>1 DEF StoreType
<1>3. att' \in [Attempts -> AttemptRecords]
  <2>1. [att[a] EXCEPT !.state = "running"] \in AttemptRecords
    BY <1>0, AttemptUpdates DEF RunStates
  <2> QED  BY <1>0, <2>1 DEF StoreType
<1>4. \A b \in Attempts :
         /\ att'[b].run = att[b].run /\ att'[b].bound = att[b].bound
         /\ att[b].state # "absent" => att'[b].state # "absent"
  BY <1>0 DEF AttemptRecords, StoreType
<1>5. \A q \in Runs :
         /\ run'[q] = IF q = r THEN [run[q] EXCEPT !.state = s] ELSE run[q]
         /\ run[q] \in [state : RunStates, active : 0..MaxAttempts]
  BY <1>0, <1>1 DEF StoreType
<1>6. \A q \in Runs :
         /\ run'[q].active = run[q].active
         /\ \/ run'[q].state = run[q].state
            \/ /\ run[q].state \in {"resuming", "pause_requested"}
               /\ run'[q].state = "running"
  BY <1>5
<1>7. StoreType'
  <2>1. run' \in [Runs -> [state : RunStates, active : 0..MaxAttempts]]
    <3>1. DOMAIN run = Runs
      BY <1>0 DEF StoreType
    <3>2. \A q \in Runs : run'[q] \in [state : RunStates, active : 0..MaxAttempts]
      <4>1. CASE back
        BY <1>5, <4>1 DEF RunStates
      <4>2. CASE ~back
        BY <1>5, <4>2
      <4> QED  BY <4>1, <4>2
    <3> HIDE DEF s
    <3>3. run' = [q \in Runs |-> run'[q]]
      BY <1>1, <3>1
    <3> QED  BY <3>2, <3>3
  <2> QED  BY <1>0, <1>1, <1>2, <1>3, <2>1 DEF StoreType, Bump
<1>8. OneActiveRun'
  BY <1>1, <1>6 DEF StoreInv, OneActiveRun, TERMINAL_RUN_STATES
<1>9. \A q \in Runs : run'[q].state = "absent" <=> run[q].state = "absent"
  BY <1>6
<1> HIDE DEF r, a, s
<1> QED  BY <1>4, <1>6, <1>7, <1>8, <1>9, RowsWrite

\* An answer that could not be prepared ends the run of its attempt.
LEMMA FailRuntimeAction ==
    ASSUME StoreInv, NEW x \in Actions, fail_runtime_action(x)
    PROVE  StoreInv' /\ BoundKept
<1> DEFINE r == RunOf(x)
           a == act[x].att
<1>0. /\ StoreType /\ act[x] \in ActionRecords /\ a \in Attempts
      /\ act[x].st = "pending"
      /\ \A b \in Attempts : att[b] \in AttemptRecords
  BY DEF StoreInv, StoreType, ActionRecords, fail_runtime_action
<1>1. /\ act' = [act EXCEPT ![x].st = "failed", ![x].out = "ready"]
      /\ run' = [run EXCEPT ![r].state = "failed"]
      /\ att' = [att EXCEPT ![a].state = "failed"]
      /\ ClearActive(r) /\ rel' = insert_pin_release(rel, a)
      /\ Bump(r) /\ UNCHANGED dec
  BY DEF fail_runtime_action
<1>2. r \in Runs => run[r].state # "absent"
  BY <1>0 DEF StoreInv, AttemptHasRun, RunOf
<1> HIDE DEF r
<1>3. act' \in [Actions -> ActionRecords]
  <2>1. [act[x] EXCEPT !.st = "failed", !.out = "ready"] \in ActionRecords
    BY <1>0, ActionUpdates
  <2> QED  BY <1>0, <1>1, <2>1 DEF StoreType
<1>4. att' \in [Attempts -> AttemptRecords]
  <2>1. [att[a] EXCEPT !.state = "failed"] \in AttemptRecords
    BY <1>0, AttemptUpdates DEF RunStates
  <2> QED  BY <1>0, <1>1, <2>1 DEF StoreType
<1>5. \A b \in Attempts :
         /\ att'[b].run = att[b].run /\ att'[b].bound = att[b].bound
         /\ att[b].state # "absent" => att'[b].state # "absent"
  BY <1>0, <1>1 DEF AttemptRecords, StoreType
<1>6. \A q \in Runs :
         /\ run'[q] = IF q = r THEN [run[q] EXCEPT !.state = "failed"] ELSE run[q]
         /\ run[q] \in [state : RunStates, active : 0..MaxAttempts]
  BY <1>0, <1>1 DEF StoreType
<1>7. /\ \A q \in Runs :
            /\ run'[q].active = run[q].active
            /\ run'[q].state = IF q = r THEN "failed" ELSE run[q].state
      /\ active' = IF active = r THEN None ELSE active
  BY <1>1, <1>6 DEF ClearActive
<1>8. StoreType'
  <2>1. run' \in [Runs -> [state : RunStates, active : 0..MaxAttempts]]
    BY <1>0, <1>1 DEF StoreType, RunStates
  <2>2. active' \in Runs \cup {None}
    BY <1>0, <1>7 DEF StoreType
  <2>3. rel' \in [Attempts -> ReleaseStates]
    BY <1>0, <1>1, PinReleaseType DEF StoreType
  <2> QED  BY <1>0, <1>1, <1>3, <1>4, <2>1, <2>2, <2>3 DEF StoreType, Bump
<1>9. OneActiveRun'
  BY <1>7, ConstantsAssumption DEF StoreInv, OneActiveRun, TERMINAL_RUN_STATES
<1>10. \A q \in Runs : run'[q].state = "absent" <=> run[q].state = "absent"
  BY <1>2, <1>7
<1> QED  BY <1>5, <1>7, <1>8, <1>9, <1>10, RowsWrite

\* Delivery of the operator's actions to the runtime.
LEMMA DeliveryKeeps ==
    ASSUME Inv, NEW x \in Actions,
           \/ claim_runtime_action(x) \/ runtime_accepts(x)
           \/ acknowledge_runtime_action(x) \/ reject_runtime_action(x)
           \/ fail_runtime_action(x) \/ mark_runtime_action_outcome_unknown(x)
           \/ claim_runtime_action_reconciliation(x)
           \/ retry_runtime_action_delivery(x)
           \/ defer_runtime_action_reconciliation(x) \/ claim_expires(x)
    PROVE  Inv' /\ BoundKept
<1>0. /\ StoreInv /\ StoreType /\ LocalType /\ act[x] \in ActionRecords
      /\ act \in [Actions -> ActionRecords]
      /\ rel \in [Attempts -> ReleaseStates] /\ fresh \subseteq Dispatchers
  BY DEF Inv, StoreInv, StoreType
<1>1. ASSUME NEW rec \in ActionRecords, act' = [act EXCEPT ![x] = rec],
             fresh' \subseteq fresh, UNCHANGED <<active, run, att, dec, rel>>
      PROVE  StoreInv' /\ BoundKept
  BY <1>0, <1>1, QueueWrite
<1>2. ASSUME StoreInv' /\ BoundKept, UNCHANGED local
      PROVE  Inv' /\ BoundKept
  BY <1>2, LocalUnchanged DEF Inv
<1>3. CASE claim_runtime_action(x) \/ claim_runtime_action_reconciliation(x)
  <2>1. PICK o \in {"claimed", "reconcile"} :
           act' = [act EXCEPT ![x] = [act[x] EXCEPT !.out = o, !.exact = FALSE]]
    BY <1>3 DEF claim_runtime_action, claim_runtime_action_reconciliation
  <2>2. [act[x] EXCEPT !.out = o, !.exact = FALSE] \in ActionRecords
    BY <1>0, ActionUpdates
  <2>3. UNCHANGED <<active, run, att, dec, rel, fresh, local>>
    BY <1>3 DEF claim_runtime_action, claim_runtime_action_reconciliation
  <2> QED  BY <1>1, <1>2, <2>1, <2>2, <2>3
<1>4. CASE \/ mark_runtime_action_outcome_unknown(x)
           \/ retry_runtime_action_delivery(x)
           \/ defer_runtime_action_reconciliation(x)
  <2>1. PICK o \in {"outcome_unknown", "ready"} :
           act' = [act EXCEPT ![x] = [act[x] EXCEPT !.out = o]]
    BY <1>4 DEF mark_runtime_action_outcome_unknown, Act,
                retry_runtime_action_delivery, defer_runtime_action_reconciliation
  <2>2. [act[x] EXCEPT !.out = o] \in ActionRecords
    BY <1>0, ActionUpdates
  <2>3. /\ UNCHANGED <<active, run, att, dec, rel, local>>
        /\ fresh' \subseteq fresh
    BY <1>4 DEF mark_runtime_action_outcome_unknown, Bump,
                retry_runtime_action_delivery, defer_runtime_action_reconciliation
  <2> QED  BY <1>1, <1>2, <2>1, <2>2, <2>3
<1>5. CASE claim_expires(x)
  <2>1. WithoutClaims(act)[x] \in ActionRecords
    BY <1>0, WithoutClaimsType
  <2> QED  BY <1>1, <1>2, <1>5, <2>1 DEF claim_expires
<1>6. CASE runtime_accepts(x)
  <2>1. act' = [act EXCEPT ![x] = [act[x] EXCEPT !.acc = TRUE, !.exact = ~act[x].acc]]
    BY <1>6 DEF runtime_accepts
  <2>2. [act[x] EXCEPT !.acc = TRUE, !.exact = ~act[x].acc] \in ActionRecords
    BY <1>0, ActionUpdates
  <2>3. UNCHANGED <<active, run, att, dec, rel, fresh, pins, stalling,
                    recovering, due, crashes>>
    BY <1>6 DEF runtime_accepts
  <2>4. StoreInv' /\ BoundKept
    BY <1>1, <2>1, <2>2, <2>3
  <2>5. PICK w \in Dispatchers :
           /\ disp[w].pc \in {"stream", "parked"}
           /\ \E pc \in {"stream", "parked"} : disp' = [disp EXCEPT ![w].pc = pc]
    BY <1>6 DEF runtime_accepts, Live
  <2>6. PICK pc \in {"stream", "parked"} : disp' = [disp EXCEPT ![w].pc = pc]
    BY <2>5
  <2>7. Executing(w) /\ disp[w].pc # "idle" /\ pc \in Phases \ {"idle"}
    BY <2>5 DEF Executing, Phases
  <2>8. Goto(w, pc)
    BY <2>3, <2>6 DEF Goto
  <2> QED  BY <2>4, <2>7, <2>8, TurnGoesOn
<1>7. CASE acknowledge_runtime_action(x)
  <2> DEFINE back == act[x].kind = "resolve" /\ run[RunOf(x)].state = "resuming"
  <2>1. StoreInv' /\ BoundKept
    BY <1>0, <1>7, BackToRunning DEF acknowledge_runtime_action, Claimed
  <2> QED  BY <1>2, <1>7, <2>1 DEF acknowledge_runtime_action, SettleAction
<1>8. CASE reject_runtime_action(x)
  <2>1. StoreInv' /\ BoundKept
    BY <1>0, <1>8, BackToRunning DEF reject_runtime_action, Claimed
  <2> QED  BY <1>2, <1>8, <2>1 DEF reject_runtime_action, SettleAction
<1>9. CASE fail_runtime_action(x)
  BY <1>0, <1>2, <1>9, FailRuntimeAction DEF fail_runtime_action
<1> QED  BY <1>3, <1>4, <1>5, <1>6, <1>7, <1>8, <1>9

-----------------------------------------------------------------------------
\* Leases that run out, of one attempt or of all.
LEMMA LeasesExpire ==
    ASSUME StoreInv, NEW E \in SUBSET Attempts,
           att' = [a \in Attempts |-> IF a \in E
                                     THEN [att[a] EXCEPT !.leased = FALSE]
                                     ELSE att[a]],
           act' \in [Actions -> ActionRecords],
           rel' \in [Attempts -> ReleaseStates], fresh' \subseteq Dispatchers,
           UNCHANGED <<active, run, dec>>
    PROVE  StoreInv' /\ BoundKept
<1>1. \A b \in Attempts : att[b] \in AttemptRecords
  BY DEF StoreInv, StoreType
<1>2. att' \in [Attempts -> AttemptRecords]
  <2>1. \A b \in Attempts : [att[b] EXCEPT !.leased = FALSE] \in AttemptRecords
    BY <1>1, AttemptUpdates
  <2> QED  BY <1>1, <2>1
<1>3. \A b \in Attempts : /\ att'[b].run = att[b].run
                          /\ att'[b].bound = att[b].bound
                          /\ att'[b].state = att[b].state
  BY <1>1 DEF AttemptRecords
<1>4. StoreType' /\ OneActiveRun'
  BY <1>2 DEF StoreInv, StoreType, OneActiveRun
<1> QED  BY <1>3, <1>4, RowsWrite

\* The updater pins that ended attempts give back.
LEMMA PinsKeep ==
    ASSUME Inv, NEW a \in Attempts,
           \/ claim_pin_release(a) \/ finish_attempt(a)
           \/ acknowledge_pin_release(a) \/ fail_pin_release(a)
           \/ retry_pin_release(a) \/ release_claim_expires(a)
           \/ dispatch_lease_expires(a)
    PROVE  Inv' /\ BoundKept
<1>0. /\ StoreInv /\ StoreType /\ LocalType
      /\ act \in [Actions -> ActionRecords]
      /\ rel \in [Attempts -> ReleaseStates] /\ fresh \subseteq Dispatchers
  BY DEF Inv, StoreInv, StoreType
<1>1. CASE \/ claim_pin_release(a) \/ acknowledge_pin_release(a)
           \/ fail_pin_release(a) \/ retry_pin_release(a)
           \/ release_claim_expires(a)
  <2>1. PICK s \in {"pending", "claimed", "acked", "failed"} :
           rel' = [rel EXCEPT ![a] = s]
    BY <1>1 DEF claim_pin_release, acknowledge_pin_release, fail_pin_release,
                retry_pin_release, release_claim_expires, SettleRelease
  <2>2. rel' \in [Attempts -> ReleaseStates]
    BY <1>0, <2>1 DEF ReleaseStates
  <2>3. UNCHANGED <<active, run, att, dec, act, local>> /\ fresh' \subseteq fresh
    BY <1>1 DEF claim_pin_release, acknowledge_pin_release, fail_pin_release,
                retry_pin_release, release_claim_expires, SettleRelease, Bump
  <2>4. StoreInv' /\ BoundKept
    BY <1>0, <2>2, <2>3, QueueWrite
  <2> QED  BY <2>3, <2>4, LocalUnchanged DEF Inv
<1>2. CASE finish_attempt(a)
  <2>1. StoreInv' /\ BoundKept
    BY <1>0, <1>2, StoreUnchanged DEF finish_attempt
  <2>2. UNCHANGED <<disp, stalling, recovering, due, crashes>>
    BY <1>2 DEF finish_attempt
  <2>3. LocalType'
    BY <1>0, <1>2, <2>2 DEF finish_attempt, LocalType
  <2>4. DispatchInv'
    BY <2>1, <2>2, DispUnchanged
  <2> QED  BY <2>1, <2>3, <2>4 DEF Inv
<1>3. CASE dispatch_lease_expires(a)
  <2> DEFINE E == {a}
  <2>0. E \in SUBSET Attempts
    OBVIOUS
  <2>1. att' = [b \in Attempts |-> IF b \in E
                                  THEN [att[b] EXCEPT !.leased = FALSE]
                                  ELSE att[b]]
    BY <1>0, <1>3 DEF dispatch_lease_expires, StoreType
  <2> HIDE DEF E
  <2>2. UNCHANGED <<active, run, dec, act, rel, fresh, local>>
    BY <1>3 DEF dispatch_lease_expires
  <2>3. StoreInv' /\ BoundKept
    BY <1>0, <2>0, <2>1, <2>2, LeasesExpire
  <2> QED  BY <2>2, <2>3, LocalUnchanged DEF Inv
<1> QED  BY <1>1, <1>2, <1>3

\* A crash forgets what the daemon held in memory and keeps the store.
LEMMA CrashKeeps ==
    ASSUME Inv, crash
    PROVE  Inv' /\ BoundKept
<1>0. /\ StoreInv /\ StoreType /\ LocalType
      /\ act \in [Actions -> ActionRecords]
      /\ rel \in [Attempts -> ReleaseStates]
  BY DEF Inv, StoreInv, StoreType
<1>1. StoreInv' /\ BoundKept
  <2>1. att' = [a \in Attempts |-> IF a \in Attempts
                                  THEN [att[a] EXCEPT !.leased = FALSE]
                                  ELSE att[a]]
    BY DEF crash
  <2>2. act' \in [Actions -> ActionRecords]
    BY <1>0, WithoutClaimsType DEF crash
  <2>3. rel' \in [Attempts -> ReleaseStates]
    BY <1>0 DEF crash, ReleaseStates
  <2>4. UNCHANGED <<active, run, dec>> /\ fresh' \subseteq Dispatchers
    BY DEF crash
  <2> QED  BY <1>0, <2>1, <2>2, <2>3, <2>4, LeasesExpire
<1>2. /\ Idle \in [pc : Phases, run : Runs \cup {None}, att : 0..MaxAttempts]
      /\ Idle.pc = "idle"
  BY ConstantsAssumption DEF Idle, Phases
<1>3. disp' = [w \in Dispatchers |-> Idle]
  BY DEF crash
<1> HIDE DEF Idle
<1>4. LocalType'
  BY <1>0, <1>2, <1>3, ConstantsAssumption DEF crash, LocalType
<1>5. DispatchInv'
  BY <1>2, <1>3 DEF DispatchInv, DispatchHasRun, ExecutingIsBound,
                    AtMostOneDriver, Executing
<1> QED  BY <1>1, <1>4, <1>5 DEF Inv

\* A recovery pass, run by run.
LEMMA RecoverRun ==
    ASSUME Inv, NEW r \in Runs,
           \/ recover_sweep(r) \/ recover_unbound(r) \/ recover_manual(r)
           \/ recover_bound_inactive(r) \/ defer_recoverable(r)
    PROVE  Inv' /\ BoundKept
<1>0. /\ StoreInv /\ act \in [Actions -> ActionRecords]
      /\ run[r].state \in RunStates
  BY DEF Inv, StoreInv, StoreType
<1>1. Recovered(r)
  BY DEF recover_sweep, recover_unbound, recover_manual,
         recover_bound_inactive, defer_recoverable
<1>2. pins' \subseteq Attempts
  BY DEF recover_sweep, recover_unbound, recover_manual,
         recover_bound_inactive, defer_recoverable, Inv, LocalType
<1>3. LocalType' /\ UNCHANGED disp
  BY <1>1, <1>2 DEF Recovered, Inv, LocalType
<1>4. ASSUME NEW t, CanTransition(r, run[r].active, run[r].state, t),
             transition_run(r, t, act)
      PROVE  StoreInv' /\ BoundKept
  BY <1>0, <1>4, GuardedTransition
<1>5. StoreInv' /\ BoundKept
  <2>1. CASE recover_sweep(r)
    BY <1>0, <2>1, ConvergeStalled DEF recover_sweep
  <2>2. CASE recover_unbound(r)
    BY <1>0, <2>2, FailUnboundRun, StoreUnchanged DEF recover_unbound
  <2>3. CASE recover_bound_inactive(r)
    BY <1>4, <2>3 DEF recover_bound_inactive
  <2>4. CASE defer_recoverable(r)
    BY <1>4, <2>4 DEF defer_recoverable
  <2>5. CASE recover_manual(r)
    BY <1>0, <2>5, StoreUnchanged DEF recover_manual
  <2> QED  BY <2>1, <2>2, <2>3, <2>4, <2>5
<1> QED  BY <1>3, <1>5, DispUnchanged DEF Inv

LEMMA RecoverBegins ==
    ASSUME Inv, recover
    PROVE  Inv' /\ BoundKept
<1>1. StoreInv' /\ BoundKept
  BY StoreUnchanged DEF Inv, recover
<1>2. LocalType' /\ UNCHANGED disp
  BY DEF Inv, recover, LocalType
<1> QED  BY <1>1, <1>2, DispUnchanged DEF Inv

-----------------------------------------------------------------------------
LEMMA InitInv == Init => Inv
<1> SUFFICES ASSUME Init PROVE Inv
  OBVIOUS
<1>1. /\ Idle \in [pc : Phases, run : Runs \cup {None}, att : 0..MaxAttempts]
      /\ Idle.pc = "idle"
  BY ConstantsAssumption DEF Idle, Phases
<1>2. /\ NewAttempt(None, "absent", {}, FALSE) \in AttemptRecords
      /\ ~NewAttempt(None, "absent", {}, FALSE).bound
      /\ NewAttempt(None, "absent", {}, FALSE).run = None
  BY DEF NewAttempt, AttemptRecords, RunStates
<1>3. NoAction \in ActionRecords
  <2>1. "cancel" \in Kinds /\ 0 \in 0..MaxAttempts
    BY ConstantsAssumption DEF Kinds
  <2>2. NoAction.st = "absent"
    BY DEF NoAction
  <2> QED  BY <2>1, <2>2 DEF NoAction, ActionRecords
<1> HIDE DEF Idle, NoAction
<1>4. StoreType
  <2>1. run \in [Runs -> [state : RunStates, active : 0..MaxAttempts]]
    BY ConstantsAssumption DEF Init, RunStates
  <2>2. att \in [Attempts -> AttemptRecords] /\ act \in [Actions -> ActionRecords]
    BY <1>2, <1>3 DEF Init
  <2>3. /\ dec \in [Attempts -> 0..MaxDecisions]
        /\ rel \in [Attempts -> ReleaseStates]
    BY ConstantsAssumption DEF Init, ReleaseStates
  <2> QED  BY <2>1, <2>2, <2>3 DEF Init, StoreType
<1>5. LocalType
  BY <1>1, ConstantsAssumption DEF Init, LocalType
<1>6. OneActiveRun
  <2>1. active = None /\ \A r \in Runs : run[r].state = "absent"
    BY DEF Init
  <2> QED  BY <2>1, ConstantsAssumption DEF OneActiveRun
<1>7. RunHasAttempt
  <2>1. \A r \in Runs : run[r].state = "absent" /\ run[r].active = 0
    BY DEF Init
  <2>2. 0 \notin Attempts
    BY ConstantsAssumption DEF Attempts
  <2> QED  BY <2>1, <2>2 DEF RunHasAttempt
<1>8. AttemptHasRun /\ BoundExists
  BY <1>2, ConstantsAssumption DEF Init, AttemptHasRun, BoundExists
<1>9. DispatchInv
  BY <1>1 DEF Init, DispatchInv, DispatchHasRun, ExecutingIsBound,
              AtMostOneDriver, Executing
<1> QED  BY <1>4, <1>5, <1>6, <1>7, <1>8, <1>9 DEF Inv, StoreInv

\* Every step keeps the invariant, and no step unbinds an attempt.
LEMMA NextInv == Inv /\ [Next]_vars => Inv' /\ BoundKept
<1> SUFFICES ASSUME Inv, [Next]_vars PROVE Inv' /\ BoundKept
  OBVIOUS
<1>1. CASE Operator
  BY <1>1, OperatorKeepsStore, LocalUnchanged DEF Operator, Inv
<1>2. ASSUME NEW w \in Dispatchers, Dispatch(w)
      PROVE  Inv' /\ BoundKept
  BY <1>2, DispatchBeforeBinding, DispatchAfterBinding DEF Dispatch
<1>3. CASE Bridge
  BY <1>3, BridgeKeeps DEF Bridge
<1>4. CASE Delivery
  BY <1>4, DeliveryKeeps
     DEF Delivery, deliver_runtime_action, reconcile_runtime_action
<1>5. CASE Pins
  BY <1>5, PinsKeep DEF Pins, deliver_pending_pin_releases
<1>6. CASE Recovery
  BY <1>6, CrashKeeps, RecoverBegins, RecoverRun DEF Recovery
<1>7. CASE UNCHANGED vars
  <2>1. UNCHANGED <<store, fresh>> /\ UNCHANGED local
    BY <1>7 DEF vars, store, local
  <2>2. StoreInv' /\ BoundKept
    BY <2>1, StoreUnchanged DEF Inv
  <2> QED  BY <2>1, <2>2, LocalUnchanged DEF Inv
<1> QED  BY <1>1, <1>2, <1>3, <1>4, <1>5, <1>6, <1>7 DEF Next

LEMMA InvHolds == Spec => []Inv
BY InitInv, NextInv, PTL DEF Spec

\* Every reachable state of the tables and of the daemon's memory is well
\* formed, for any number of runs, actions, attempts and dispatch calls.
THEOREM TypeCorrect == Spec => []TypeOK
<1>1. Inv => TypeOK
  BY DEF Inv, StoreInv, StoreType, LocalType, TypeOK
<1> QED  BY <1>1, InvHolds, PTL

\* A thread has at most one active logical run, and the thread names it:
\* create_run's refusal, every terminal writer's clearing of active_run_id
\* and fail_unbound_run's return to "paused" agree on it.
THEOREM ThreadHasOneActiveRun == Spec => []OneActiveRun
<1>1. Inv => OneActiveRun
  BY DEF Inv, StoreInv
<1> QED  BY <1>1, InvHolds, PTL

\* The binding compare-and-swap of pin_attempt_runtime admits one dispatch
\* call per attempt, however many call dispatch() at once, whatever leases
\* expire and wherever the daemon crashes.
THEOREM AttemptHasOneDriver == Spec => []AtMostOneDriver
<1>1. Inv => AtMostOneDriver
  BY DEF Inv, DispatchInv
<1> QED  BY <1>1, InvHolds, PTL

\* A binding is forever: no command, event, sweep, crash or recovery makes a
\* bound attempt dispatchable again, so no model call is made twice for it.
THEOREM BindingIsForever == Spec => [][BoundKept]_vars
BY InvHolds, NextInv, PTL DEF Spec
-----------------------------------------------------------------------------
(***************************************************************************)
(* The agreement of the store's tables: the row of a run and that of its   *)
(* active attempt, the operator's actions, the pending decisions, and the  *)
(* updater's pins. The inductive invariant is Tables, then PinInv and      *)
(* OwedInv, next to Inv. A write to the tables has one of four shapes      *)
(* (Quiet, StateMove, FailUnboundTables, NewRow), each a lemma that        *)
(* establishes Step: Tables afterwards, and what the step may not do to a  *)
(* superseded or an ended attempt. The pins go the same way, with Kept and *)
(* PinsKept for what almost every step keeps, and RowsOwed for the         *)
(* attempts that hold a pin. The proof of a step says which shape each     *)
(* action has.                                                             *)
(***************************************************************************)

\* The run row and the row of its active attempt: AttemptTracksRun, and the
\* one attempt that disagrees is owned by no dispatch call.
RunRows ==
    \A r \in Runs : run[r].state # "absent" =>
       LET a == run[r].active IN
       /\ a \in Attempts /\ att[a].run = r
       /\ \/ att[a].state = run[r].state
          \/ /\ run[r].state = "canceled" /\ att[a].state = "failed"
             /\ ~att[a].bound /\ att[a].owner = None

\* Only a run that exists points at an attempt.
RunExists ==
    \A r \in Runs : run[r].active \in Attempts => run[r].state # "absent"

\* An attempt row exists when it names its run, and its ancestors are
\* attempts of the same run.
AttemptRows ==
    \A a \in Attempts :
       /\ att[a].state = "absent" <=> att[a].run = None
       /\ \A s \in att[a].lineage : att[s].run = att[a].run /\ att[s].run \in Runs

\* What becomes of an attempt without a runtime.
UNBOUND_STATES == DISPATCHABLE_RUN_STATES \cup {"cancel_requested", "failed"}

UnboundRows ==
    \A a \in Attempts :
       att[a].state # "absent" /\ ~att[a].bound => att[a].state \in UNBOUND_STATES

\* ActionMatchesState, attempt by attempt.
ActionRows ==
    \A x \in Actions : act[x].st = "pending" =>
       LET a == act[x].att   r == att[a].run IN
       /\ att[a].bound /\ run[r].active = a
       /\ run[r].state = ActionState[act[x].kind]
       /\ \A y \in Actions : act[y].st = "pending" => y = x

\* DecisionOwned; the attempt that asks is bound.
DecisionRows ==
    /\ \A a \in Attempts : dec[a] > 0 =>
          /\ att[a].bound /\ run[att[a].run].active = a
          /\ run[att[a].run].state \in {"waiting_for_decision",
                                        "cancel_requested"}
    /\ \A r \in Runs : run[r].state = "waiting_for_decision" =>
          dec[run[r].active] = 1

\* Between the binding of an attempt and its start no answer is queued for it,
\* and the attempt is still to be dispatched, or is being or has been ended.
BOUND_STATES ==
    DISPATCHABLE_RUN_STATES \cup {"cancel_requested"} \cup TERMINAL_RUN_STATES

BoundCalls ==
    \A w \in Dispatchers : disp[w].pc = "bound" =>
       LET a == disp[w].att IN
       /\ att[a].state \in BOUND_STATES
       /\ \A x \in Actions : act[x].st = "pending" /\ act[x].att = a =>
             act[x].kind # "resolve"

Tables ==
    /\ RunRows /\ RunExists /\ AttemptRows /\ UnboundRows
    /\ ActionRows /\ DecisionRows /\ BoundCalls

\* A step writes the row of no attempt but the active one of its run, leases
\* apart, and revives no attempt that has ended.
LeaseOnly(a) == att'[a] = [att[a] EXCEPT !.leased = att'[a].leased]

OnlyActiveMoves ==
    \A a \in Attempts :
       \/ LeaseOnly(a)
       \/ att[a].run \in Runs /\ run[att[a].run].active = a
       \/ att[a].state = "absent"

NoneRevives ==
    \A a \in Attempts : att[a].state \in TERMINAL_RUN_STATES =>
        att'[a].state = att[a].state

\* The updater's pins.  A release row is written for an attempt that ended,
\* or for the checkpoint of one that was resumed.
ReleaseRows ==
    \A a \in Attempts : rel[a] # "none" =>
        att[a].state \in TERMINAL_RUN_STATES \/ Checkpointed(a)

PinRows ==
    /\ \A a \in Attempts : att[a].bound => a \in pins \/ rel[a] # "none"
    /\ \A w \in Dispatchers : disp[w].pc = "pinned" =>
          disp[w].att \in pins \/ rel[disp[w].att] # "none"

PinInv == ReleaseRows /\ PinRows

\* The writes that move an attempt's row together with its run's, and the one
\* that queues an action.
Moves(r, a, t) ==
    /\ run' = [run EXCEPT ![r].state = t]
    /\ att' = [att EXCEPT ![a].state = t]

Inserts(r, a, rec) ==
    /\ run' = [run EXCEPT ![r] = [state |-> rec.state, active |-> a]]
    /\ att' = [att EXCEPT ![a] = rec]

Queues(A, x, rec) == act' = [A EXCEPT ![x] = rec]

CallsKept ==
    \A w \in Dispatchers : disp'[w].pc = "bound" =>
        disp[w].pc = "bound" /\ disp'[w].att = disp[w].att

NoNewActions ==
    \A x \in Actions : act'[x].st = "pending" =>
        /\ act[x].st = "pending"
        /\ act'[x].kind = act[x].kind /\ act'[x].att = act[x].att

Step == Tables' /\ OnlyActiveMoves /\ NoneRevives

-----------------------------------------------------------------------------
\* What exists: the run of a bound attempt, and the attempt of a run.
LEMMA BoundHasRun ==
    ASSUME Inv, Tables, NEW a \in Attempts, att[a].bound
    PROVE  att[a].run \in Runs /\ att[a].state # "absent"
<1>1. att[a] \in AttemptRecords
  BY DEF Inv, StoreInv, StoreType
<1>2. att[a].run \in Runs \cup {None}
  BY <1>1 DEF AttemptRecords
<1>3. att[a].state # "absent"
  BY DEF Inv, StoreInv, BoundExists
<1> QED  BY <1>2, <1>3 DEF Tables, AttemptRows

\* While run r has not ended, the actions and decisions are its active
\* attempt's.
LEMMA OnlyActive ==
    ASSUME Inv, Tables, NEW r \in Runs,
           run[r].state \notin TERMINAL_RUN_STATES \cup {"absent"}
    PROVE  LET a == run[r].active IN
           /\ active = r /\ a \in Attempts /\ att[a].run = r
           /\ att[a].state = run[r].state
           /\ \A q \in Runs : q # r =>
                 run[q].state \in TERMINAL_RUN_STATES \cup {"absent"}
           /\ \A x \in Actions : act[x].st = "pending" =>
                 /\ act[x].att = a /\ att[a].bound
                 /\ run[r].state = ActionState[act[x].kind]
                 /\ act[x].kind \in Kinds
           /\ \A b \in Attempts : dec[b] > 0 =>
                 /\ b = a /\ att[a].bound
                 /\ run[r].state \in {"waiting_for_decision", "cancel_requested"}
<1> DEFINE a == run[r].active
<1>1. active = r /\ \A q \in Runs : q # r =>
         run[q].state \in TERMINAL_RUN_STATES \cup {"absent"}
  BY DEF Inv, StoreInv, OneActiveRun
<1>2. a \in Attempts /\ att[a].run = r /\ att[a].state = run[r].state
  BY DEF Tables, RunRows, TERMINAL_RUN_STATES
<1>3. ASSUME NEW x \in Actions, act[x].st = "pending"
      PROVE  /\ act[x].att = a /\ att[a].bound
             /\ run[r].state = ActionState[act[x].kind]
             /\ act[x].kind \in Kinds
  <2> DEFINE b == act[x].att
             q == att[b].run
  <2>1. act[x] \in ActionRecords
    BY DEF Inv, StoreInv, StoreType
  <2>2. b \in Attempts /\ act[x].kind \in Kinds
    BY <1>3, <2>1 DEF ActionRecords
  <2>3. /\ att[b].bound /\ run[q].active = b
        /\ run[q].state = ActionState[act[x].kind]
    BY <1>3 DEF Tables, ActionRows
  <2>4. q \in Runs
    BY <2>2, <2>3, BoundHasRun
  <2>5. run[q].state \notin TERMINAL_RUN_STATES \cup {"absent"}
    BY <2>2, <2>3 DEF ActionState, Kinds, TERMINAL_RUN_STATES
  <2>6. q = r
    BY <1>1, <2>4, <2>5
  <2> QED  BY <2>2, <2>3, <2>6
<1>4. ASSUME NEW b \in Attempts, dec[b] > 0
      PROVE  /\ b = a /\ att[a].bound
             /\ run[r].state \in {"waiting_for_decision", "cancel_requested"}
  <2> DEFINE q == att[b].run
  <2>1. /\ att[b].bound /\ run[q].active = b
        /\ run[q].state \in {"waiting_for_decision", "cancel_requested"}
    BY <1>4 DEF Tables, DecisionRows
  <2>2. q \in Runs
    BY <2>1, BoundHasRun
  <2>3. q = r
    BY <1>1, <2>1, <2>2 DEF TERMINAL_RUN_STATES
  <2> QED  BY <2>1, <2>3
<1> QED  BY <1>1, <1>2, <1>3, <1>4

\* While no run of the thread waits for a worker, there is none of either.
LEMMA NonePending ==
    ASSUME Inv, Tables,
           \A q \in Runs : run[q].state \in
              TERMINAL_RUN_STATES \cup {"absent", "paused"}
    PROVE  /\ \A x \in Actions : act[x].st # "pending"
           /\ \A b \in Attempts : ~(dec[b] > 0)
<1>1. ASSUME NEW x \in Actions, act[x].st = "pending"
      PROVE  FALSE
  <2> DEFINE b == act[x].att
             q == att[b].run
  <2>1. act[x] \in ActionRecords
    BY DEF Inv, StoreInv, StoreType
  <2>2. b \in Attempts /\ act[x].kind \in Kinds
    BY <1>1, <2>1 DEF ActionRecords
  <2>3. att[b].bound /\ run[q].state = ActionState[act[x].kind]
    BY <1>1 DEF Tables, ActionRows
  <2>4. q \in Runs
    BY <2>2, <2>3, BoundHasRun
  <2>5. run[q].state \notin TERMINAL_RUN_STATES \cup {"absent", "paused"}
    BY <2>2, <2>3 DEF ActionState, Kinds, TERMINAL_RUN_STATES
  <2> QED  BY <2>4, <2>5
<1>2. ASSUME NEW b \in Attempts, dec[b] > 0
      PROVE  FALSE
  <2>1. /\ att[b].bound
        /\ run[att[b].run].state \in {"waiting_for_decision", "cancel_requested"}
    BY <1>2 DEF Tables, DecisionRows
  <2>2. att[b].run \in Runs
    BY <2>1, BoundHasRun
  <2> QED  BY <2>1, <2>2 DEF TERMINAL_RUN_STATES
<1> QED  BY <1>1, <1>2

-----------------------------------------------------------------------------
\* A step that moves no row to another state and adds no action: claims,
\* leases, pins, and the daemon's memory.
LEMMA Quiet ==
    ASSUME Inv, Tables, UNCHANGED <<run, dec>>, CallsKept, NoNewActions,
           \A b \in Attempts :
              /\ att'[b].run = att[b].run /\ att'[b].state = att[b].state
              /\ att'[b].bound = att[b].bound
              /\ att'[b].lineage = att[b].lineage
              /\ att'[b].owner = att[b].owner \/ att[b].state # "failed"
              /\ \/ LeaseOnly(b)
                 \/ att[b].run \in Runs /\ run[att[b].run].active = b
    PROVE  Step
<1>1. RunRows'
  <2> SUFFICES ASSUME NEW r \in Runs, run[r].state # "absent"
               PROVE  /\ run[r].active \in Attempts
                      /\ att'[run[r].active].run = r
                      /\ \/ att'[run[r].active].state = run[r].state
                         \/ /\ run[r].state = "canceled"
                            /\ att'[run[r].active].state = "failed"
                            /\ ~att'[run[r].active].bound
                            /\ att'[run[r].active].owner = None
    BY DEF RunRows
  <2> DEFINE a == run[r].active
  <2>1. /\ a \in Attempts /\ att[a].run = r
        /\ \/ att[a].state = run[r].state
           \/ /\ run[r].state = "canceled" /\ att[a].state = "failed"
              /\ ~att[a].bound /\ att[a].owner = None
    BY DEF Tables, RunRows
  <2>2. /\ att'[a].run = att[a].run /\ att'[a].state = att[a].state
        /\ att'[a].bound = att[a].bound
        /\ att'[a].owner = att[a].owner \/ att[a].state # "failed"
    BY <2>1
  <2> HIDE DEF a
  <2> QED  BY <2>1, <2>2 DEF a
<1>t. \A b \in Attempts : att[b].lineage \in SUBSET Attempts
  BY DEF Inv, StoreInv, StoreType, AttemptRecords
<1>2. AttemptRows'
  <2>1. \A b \in Attempts : \A s \in att'[b].lineage :
           att[s].run = att[b].run /\ att[s].run \in Runs /\ s \in Attempts
    BY <1>t DEF Tables, AttemptRows
  <2>2. \A b \in Attempts : att'[b].state = "absent" <=> att'[b].run = None
    BY DEF Tables, AttemptRows
  <2>3. \A b \in Attempts : \A s \in att'[b].lineage :
           att'[s].run = att'[b].run /\ att'[s].run \in Runs
    <3> TAKE b \in Attempts
    <3> TAKE s \in att'[b].lineage
    <3>1. /\ att[s].run = att[b].run /\ att[s].run \in Runs /\ s \in Attempts
      BY <2>1
    <3>2. att'[s].run = att[s].run /\ att'[b].run = att[b].run
      BY <3>1
    <3> QED  BY <3>1, <3>2
  <2> QED  BY <2>2, <2>3 DEF AttemptRows
<1>3. UnboundRows'
  BY DEF Tables, UnboundRows
<1>4. ActionRows'
  <2> SUFFICES ASSUME NEW x \in Actions, act'[x].st = "pending"
               PROVE  /\ att'[act'[x].att].bound
                      /\ run'[att'[act'[x].att].run].active = act'[x].att
                      /\ run'[att'[act'[x].att].run].state
                            = ActionState[act'[x].kind]
                      /\ \A y \in Actions : act'[y].st = "pending" => y = x
    BY DEF ActionRows
  <2>1. /\ act[x].st = "pending" /\ act'[x].kind = act[x].kind
        /\ act'[x].att = act[x].att
        /\ \A y \in Actions : act'[y].st = "pending" => act[y].st = "pending"
    BY DEF NoNewActions
  <2>2. act[x].att \in Attempts
    <3>1. act[x] \in ActionRecords
      BY DEF Inv, StoreInv, StoreType
    <3> QED  BY <2>1, <3>1 DEF ActionRecords
  <2>3. /\ att[act[x].att].bound
        /\ run[att[act[x].att].run].active = act[x].att
        /\ run[att[act[x].att].run].state = ActionState[act[x].kind]
        /\ \A y \in Actions : act[y].st = "pending" => y = x
    BY <2>1 DEF Tables, ActionRows
  <2>4. /\ att'[act[x].att].bound = att[act[x].att].bound
        /\ att'[act[x].att].run = att[act[x].att].run
    BY <2>2
  <2> QED  BY <2>1, <2>3, <2>4
<1>5. DecisionRows'
  <2>1. \A b \in Attempts : dec'[b] > 0 =>
           /\ att'[b].bound /\ run'[att'[b].run].active = b
           /\ run'[att'[b].run].state \in {"waiting_for_decision",
                                          "cancel_requested"}
    BY DEF Tables, DecisionRows
  <2> QED  BY <2>1 DEF Tables, DecisionRows
<1>6. BoundCalls'
  <2> SUFFICES ASSUME NEW w \in Dispatchers, disp'[w].pc = "bound"
               PROVE  /\ att'[disp'[w].att].state \in BOUND_STATES
                      /\ \A x \in Actions :
                            act'[x].st = "pending" /\ act'[x].att = disp'[w].att
                               => act'[x].kind # "resolve"
    BY DEF BoundCalls
  <2>1. disp[w].pc = "bound" /\ disp'[w].att = disp[w].att
    BY DEF CallsKept
  <2>2. disp[w].att \in Attempts
    BY <2>1 DEF Inv, DispatchInv, DispatchHasRun
  <2> QED  BY <2>1, <2>2 DEF Tables, BoundCalls, NoNewActions
<1>7. OnlyActiveMoves /\ NoneRevives
  BY DEF OnlyActiveMoves, NoneRevives
<1>8. RunExists'
  BY DEF Tables, RunExists
<1> QED  BY <1>1, <1>2, <1>3, <1>4, <1>5, <1>6, <1>7, <1>8 DEF Step, Tables

LEMMA StoreKept ==
    ASSUME Inv, Tables, UNCHANGED <<run, att, dec, act>>, CallsKept
    PROVE  Step
<1>1. NoNewActions
  BY DEF NoNewActions
<1>2. \A b \in Attempts : LeaseOnly(b)
  BY DEF LeaseOnly, Inv, StoreInv, StoreType, AttemptRecords
<1> QED  BY <1>1, <1>2, Quiet

\* A run that has not ended and its attempt move together to state t, with
\* the actions and decisions that go with it.
LEMMA StateMove ==
    ASSUME Inv, Tables, CallsKept, NEW r \in Runs, NEW a, a = run[r].active,
           run[r].state \notin TERMINAL_RUN_STATES \cup {"absent"},
           NEW t \in RunStates \ {"absent"},
           Moves(r, a, t),
           att[a].bound \/ t \in UNBOUND_STATES,
           \A x \in Actions : act'[x].st = "pending" =>
              act'[x].att = a /\ att[a].bound /\ t = ActionState[act'[x].kind],
           \A x, y \in Actions :
              act'[x].st = "pending" /\ act'[y].st = "pending" => y = x,
           \A b \in Attempts : dec'[b] > 0 =>
              /\ b = a /\ att[a].bound
              /\ t \in {"waiting_for_decision", "cancel_requested"},
           t = "waiting_for_decision" => dec'[a] = 1,
           \A w \in Dispatchers : disp'[w].pc = "bound" /\ disp'[w].att = a =>
              /\ t \in BOUND_STATES
              /\ \A x \in Actions :
                    act'[x].st = "pending" => act'[x].kind # "resolve"
    PROVE  Step
<1>1. /\ a \in Attempts /\ att[a].run = r /\ att[a].state = run[r].state
      /\ \A q \in Runs : q # r =>
            run[q].state \in TERMINAL_RUN_STATES \cup {"absent"}
  BY OnlyActive
<1>2. \A b \in Attempts : att[b] \in AttemptRecords
  BY DEF Inv, StoreInv, StoreType
<1>m. /\ run' = [run EXCEPT ![r].state = t]
      /\ att' = [att EXCEPT ![a].state = t]
  BY DEF Moves
<1>3. \A b \in Attempts :
         /\ b # a => att'[b] = att[b]
         /\ att'[b].run = att[b].run /\ att'[b].bound = att[b].bound
         /\ att'[b].lineage = att[b].lineage /\ att'[b].owner = att[b].owner
         /\ att'[b].state = IF b = a THEN t ELSE att[b].state
  BY <1>1, <1>2, <1>m DEF AttemptRecords, Inv, StoreInv, StoreType
<1>4. \A q \in Runs :
         /\ q # r => run'[q] = run[q]
         /\ run'[q].active = run[q].active
         /\ run'[q].state = IF q = r THEN t ELSE run[q].state
  BY <1>m DEF Inv, StoreInv, StoreType
<1>5. RunRows'
  <2> SUFFICES ASSUME NEW q \in Runs, run'[q].state # "absent"
               PROVE  /\ run'[q].active \in Attempts
                      /\ att'[run'[q].active].run = q
                      /\ \/ att'[run'[q].active].state = run'[q].state
                         \/ /\ run'[q].state = "canceled"
                            /\ att'[run'[q].active].state = "failed"
                            /\ ~att'[run'[q].active].bound
                            /\ att'[run'[q].active].owner = None
    BY DEF RunRows
  <2>1. CASE q = r
    BY <1>1, <1>3, <1>4, <2>1
  <2>2. CASE q # r
    <3> DEFINE b == run[q].active
    <3>1. /\ b \in Attempts /\ att[b].run = q
          /\ \/ att[b].state = run[q].state
             \/ /\ run[q].state = "canceled" /\ att[b].state = "failed"
                /\ ~att[b].bound /\ att[b].owner = None
      BY <1>4, <2>2 DEF Tables, RunRows
    <3>2. b # a
      BY <1>1, <2>2, <3>1
    <3>3. att'[b] = att[b]
      BY <1>3, <3>1, <3>2
    <3> QED  BY <1>4, <2>2, <3>1, <3>3
  <2> QED  BY <2>1, <2>2
<1>t. \A b \in Attempts : att[b].lineage \in SUBSET Attempts
  BY <1>2 DEF AttemptRecords
<1>6. AttemptRows'
  <2>1. ASSUME NEW b \in Attempts
        PROVE  att'[b].state = "absent" <=> att'[b].run = None
    BY <1>1, <1>3 DEF Tables, AttemptRows
  <2>2. ASSUME NEW b \in Attempts, NEW s \in att'[b].lineage
        PROVE  att'[s].run = att'[b].run /\ att'[s].run \in Runs
    <3>1. /\ s \in Attempts
          /\ att[s].run = att[b].run /\ att[s].run \in Runs
      BY <1>3, <1>t, <2>2 DEF Tables, AttemptRows
    <3> QED  BY <1>3, <3>1
  <2> QED  BY <2>1, <2>2 DEF AttemptRows
<1>7. UnboundRows'
  BY <1>3 DEF Tables, UnboundRows
<1>8. ActionRows'
  <2> SUFFICES ASSUME NEW x \in Actions, act'[x].st = "pending"
               PROVE  /\ att'[act'[x].att].bound
                      /\ run'[att'[act'[x].att].run].active = act'[x].att
                      /\ run'[att'[act'[x].att].run].state
                            = ActionState[act'[x].kind]
                      /\ \A y \in Actions : act'[y].st = "pending" => y = x
    BY DEF ActionRows
  <2>1. act'[x].att = a /\ att[a].bound /\ t = ActionState[act'[x].kind]
    OBVIOUS
  <2>2. att'[a].run = r /\ att'[a].bound /\ run'[r].active = a /\ run'[r].state = t
    BY <1>1, <1>3, <1>4, <2>1
  <2> QED  BY <2>1, <2>2
<1>9. DecisionRows'
  <2>1. ASSUME NEW b \in Attempts, dec'[b] > 0
        PROVE  /\ att'[b].bound /\ run'[att'[b].run].active = b
               /\ run'[att'[b].run].state \in {"waiting_for_decision",
                                               "cancel_requested"}
    BY <1>1, <1>3, <1>4, <2>1
  <2>2. ASSUME NEW q \in Runs, run'[q].state = "waiting_for_decision"
        PROVE  dec'[run'[q].active] = 1
    <3>1. q = r
      BY <1>1, <1>4, <2>2 DEF TERMINAL_RUN_STATES
    <3> QED  BY <1>4, <2>2, <3>1
  <2> QED  BY <2>1, <2>2 DEF DecisionRows
<1>10. BoundCalls'
  <2> SUFFICES ASSUME NEW w \in Dispatchers, disp'[w].pc = "bound"
               PROVE  /\ att'[disp'[w].att].state \in BOUND_STATES
                      /\ \A x \in Actions :
                            act'[x].st = "pending" /\ act'[x].att = disp'[w].att
                               => act'[x].kind # "resolve"
    BY DEF BoundCalls
  <2>1. disp[w].pc = "bound" /\ disp'[w].att = disp[w].att
    BY DEF CallsKept
  <2>2. disp[w].att \in Attempts
    BY <2>1 DEF Inv, DispatchInv, DispatchHasRun
  <2>3. CASE disp[w].att = a
    BY <1>3, <2>1, <2>2, <2>3
  <2>4. CASE disp[w].att # a
    <3>1. att'[disp[w].att] = att[disp[w].att]
      BY <1>3, <2>2, <2>4
    <3> QED  BY <2>1, <2>4, <3>1 DEF Tables, BoundCalls
  <2> QED  BY <2>3, <2>4
<1>11. OnlyActiveMoves
  <2> SUFFICES ASSUME NEW b \in Attempts, b # a
               PROVE  LeaseOnly(b)
    BY <1>1 DEF OnlyActiveMoves
  <2> QED  BY <1>2, <1>3 DEF AttemptRecords, LeaseOnly
<1>12. NoneRevives
  BY <1>1, <1>3 DEF NoneRevives
<1>13. RunExists'
  BY <1>4 DEF Tables, RunExists
<1> QED  BY <1>5, <1>6, <1>7, <1>8, <1>9, <1>10, <1>11, <1>12, <1>13
         DEF Step, Tables

\* An attempt that no runtime ever executed ends: its run ends with it, or
\* goes back to the checkpoint it was resumed from.
LEMMA FailUnboundTables ==
    ASSUME Inv, Tables, CallsKept, NEW r \in Runs,
           CanFailUnbound(r, run[r].active), fail_unbound_run(r)
    PROVE  Step
<1> DEFINE a == run[r].active
<1>0. /\ run[r].state \notin TERMINAL_RUN_STATES \cup {"absent"}
      /\ ~att[a].bound
  BY DEF CanFailUnbound, DISPATCHABLE_RUN_STATES, TERMINAL_RUN_STATES
<1>1. /\ a \in Attempts /\ att[a].run = r /\ att[a].state = run[r].state
      /\ \A q \in Runs : q # r =>
            run[q].state \in TERMINAL_RUN_STATES \cup {"absent"}
      /\ \A x \in Actions : act[x].st # "pending"
      /\ \A b \in Attempts : ~(dec[b] > 0)
  BY <1>0, OnlyActive
<1>2. \A b \in Attempts : att[b] \in AttemptRecords
  BY DEF Inv, StoreInv, StoreType
<1>3. /\ dec' = dec
      /\ att' = [att EXCEPT ![a].state = "failed", ![a].owner = None,
                            ![a].leased = FALSE]
  BY DEF fail_unbound_run
<1>4. \A b \in Attempts :
         /\ b # a => att'[b] = att[b]
         /\ att'[b].run = att[b].run /\ att'[b].bound = att[b].bound
         /\ att'[b].lineage = att[b].lineage
         /\ att'[b].state = IF b = a THEN "failed" ELSE att[b].state
  BY <1>1, <1>2, <1>3 DEF AttemptRecords, Inv, StoreInv, StoreType
<1>5. att'[a].owner = None
  BY <1>1, <1>2, <1>3 DEF AttemptRecords, Inv, StoreInv, StoreType
<1>6. \/ \E s \in {"canceled", "failed"} : run' = [run EXCEPT ![r].state = s]
      \/ \E s \in Attempts :
            /\ s \in att[a].lineage /\ att[s].state = "paused"
            /\ run' = [run EXCEPT ![r] = [state |-> "paused", active |-> s]]
  BY DEF fail_unbound_run, paused_source_attempt, IsPausedSource
<1>7. \A x \in Actions : act'[x].st # "pending"
  <2>1. act' = act \/ act' = fail_pending_runtime_actions(act, a)
    BY DEF fail_unbound_run
  <2> QED  BY <1>1, <2>1 DEF fail_pending_runtime_actions
<1>8. \A q \in Runs : q # r => run'[q] = run[q]
  BY <1>6 DEF Inv, StoreInv, StoreType
<1>9. \/ run'[r].active = a /\ run'[r].state \in {"canceled", "failed"}
      \/ \E s \in Attempts :
            /\ s \in att[a].lineage /\ att[s].state = "paused"
            /\ run'[r].active = s /\ run'[r].state = "paused"
  BY <1>6 DEF Inv, StoreInv, StoreType
<1> HIDE DEF a
<1>10. RunRows'
  <2> SUFFICES ASSUME NEW q \in Runs, run'[q].state # "absent"
               PROVE  /\ run'[q].active \in Attempts
                      /\ att'[run'[q].active].run = q
                      /\ \/ att'[run'[q].active].state = run'[q].state
                         \/ /\ run'[q].state = "canceled"
                            /\ att'[run'[q].active].state = "failed"
                            /\ ~att'[run'[q].active].bound
                            /\ att'[run'[q].active].owner = None
    BY DEF RunRows
  <2>1. CASE q = r /\ run'[r].active = a /\ run'[r].state \in {"canceled", "failed"}
    BY <1>0, <1>1, <1>4, <1>5, <2>1 DEF a
  <2>2. ASSUME q = r, NEW s \in Attempts, s \in att[a].lineage,
               att[s].state = "paused", run'[r].active = s,
               run'[r].state = "paused"
        PROVE  /\ run'[q].active \in Attempts
               /\ att'[run'[q].active].run = q
               /\ att'[run'[q].active].state = run'[q].state
    <3>1. att[s].run = r
      BY <1>1, <2>2 DEF Tables, AttemptRows
    <3>2. s # a
      BY <1>0, <1>1, <2>2 DEF a, CanFailUnbound, DISPATCHABLE_RUN_STATES
    <3> QED  BY <1>4, <2>2, <3>1, <3>2
  <2>3. CASE q # r
    <3> DEFINE b == run[q].active
    <3>1. /\ b \in Attempts /\ att[b].run = q
          /\ \/ att[b].state = run[q].state
             \/ /\ run[q].state = "canceled" /\ att[b].state = "failed"
                /\ ~att[b].bound /\ att[b].owner = None
      BY <1>8, <2>3 DEF Tables, RunRows
    <3>2. b # a
      BY <1>1, <2>3, <3>1
    <3>3. att'[b] = att[b]
      BY <1>4, <3>1, <3>2
    <3> QED  BY <1>8, <2>3, <3>1, <3>3
  <2> QED  BY <1>9, <2>1, <2>2, <2>3
<1>t. \A b \in Attempts : att[b].lineage \in SUBSET Attempts
  BY <1>2 DEF AttemptRecords
<1>11. AttemptRows'
  <2>0. att[a].state # "absent"
    BY <1>0, <1>1 DEF a
  <2>1. ASSUME NEW b \in Attempts
        PROVE  att'[b].state = "absent" <=> att'[b].run = None
    BY <1>4, <2>0 DEF Tables, AttemptRows
  <2>2. ASSUME NEW b \in Attempts, NEW s \in att'[b].lineage
        PROVE  att'[s].run = att'[b].run /\ att'[s].run \in Runs
    <3>1. /\ s \in Attempts
          /\ att[s].run = att[b].run /\ att[s].run \in Runs
      BY <1>4, <1>t, <2>2 DEF Tables, AttemptRows
    <3> QED  BY <1>4, <3>1
  <2> QED  BY <2>1, <2>2 DEF AttemptRows
<1>12. UnboundRows'
  BY <1>4 DEF Tables, UnboundRows, UNBOUND_STATES
<1>13. ActionRows'
  BY <1>7 DEF ActionRows
<1>14. DecisionRows'
  <2>1. \A b \in Attempts : ~(dec'[b] > 0)
    BY <1>1, <1>3
  <2>2. \A q \in Runs : run'[q].state # "waiting_for_decision"
    BY <1>1, <1>8, <1>9 DEF TERMINAL_RUN_STATES
  <2> QED  BY <2>1, <2>2 DEF DecisionRows
<1>15. BoundCalls'
  <2> SUFFICES ASSUME NEW w \in Dispatchers, disp'[w].pc = "bound"
               PROVE  att'[disp'[w].att].state \in BOUND_STATES
    BY <1>7 DEF BoundCalls
  <2>1. disp[w].pc = "bound" /\ disp'[w].att = disp[w].att
    BY DEF CallsKept
  <2>2. disp[w].att \in Attempts
    BY <2>1 DEF Inv, DispatchInv, DispatchHasRun
  <2>3. att[disp[w].att].state \in BOUND_STATES
    BY <2>1 DEF Tables, BoundCalls
  <2> QED  BY <1>4, <2>1, <2>2, <2>3 DEF BOUND_STATES, TERMINAL_RUN_STATES
<1>16. OnlyActiveMoves
  <2> SUFFICES ASSUME NEW b \in Attempts, b # a
               PROVE  LeaseOnly(b)
    BY <1>1 DEF OnlyActiveMoves, a
  <2> QED  BY <1>2, <1>4 DEF AttemptRecords, LeaseOnly
<1>17. NoneRevives
  BY <1>0, <1>1, <1>4 DEF NoneRevives, a
<1>18. RunExists'
  BY <1>8, <1>9 DEF Tables, RunExists
<1> QED  BY <1>10, <1>11, <1>12, <1>13, <1>14, <1>15, <1>16, <1>17, <1>18
         DEF Step, Tables

\* A run that begins, is resumed or is retried takes an unused attempt row.
LEMMA NewRow ==
    ASSUME Inv, Tables, NEW r \in Runs, NEW a \in Attempts, IsNextAttempt(a),
           run[r].state \in {"absent", "paused", "failed"},
           \A q \in Runs : q # r =>
              run[q].state \in TERMINAL_RUN_STATES \cup {"absent"},
           NEW t \in DISPATCHABLE_RUN_STATES, NEW L \in SUBSET Attempts,
           \A s \in L : att[s].run = r,
           NEW rec \in AttemptRecords, rec.run = r, rec.state = t, ~rec.bound,
           rec.lineage = L,
           Inserts(r, a, rec),
           UNCHANGED <<dec, disp>>, NoNewActions
    PROVE  Step
<1>1. /\ \A x \in Actions : act[x].st # "pending"
      /\ \A b \in Attempts : ~(dec[b] > 0)
  <2>1. \A q \in Runs : run[q].state \in TERMINAL_RUN_STATES \cup {"absent", "paused"}
    BY DEF TERMINAL_RUN_STATES
  <2> QED  BY <2>1, NonePending
<1>2. att[a].state = "absent" /\ att[a].run = None /\ ~att[a].bound
  BY DEF IsNextAttempt, Tables, AttemptRows, Inv, StoreInv, BoundExists
<1>3. /\ att'[a] = rec
      /\ \A b \in Attempts : b # a => att'[b] = att[b]
  BY DEF Inserts, Inv, StoreInv, StoreType
<1>4. /\ run'[r].state = t /\ run'[r].active = a
      /\ \A q \in Runs : q # r => run'[q] = run[q]
  BY DEF Inserts, Inv, StoreInv, StoreType
<1>n. None \notin Runs
  BY ConstantsAssumption
<1>5. RunRows'
  <2> SUFFICES ASSUME NEW q \in Runs, run'[q].state # "absent"
               PROVE  /\ run'[q].active \in Attempts
                      /\ att'[run'[q].active].run = q
                      /\ \/ att'[run'[q].active].state = run'[q].state
                         \/ /\ run'[q].state = "canceled"
                            /\ att'[run'[q].active].state = "failed"
                            /\ ~att'[run'[q].active].bound
                            /\ att'[run'[q].active].owner = None
    BY DEF RunRows
  <2>1. CASE q = r
    BY <1>3, <1>4, <2>1
  <2>2. CASE q # r
    <3> DEFINE b == run[q].active
    <3>1. /\ b \in Attempts /\ att[b].run = q
          /\ \/ att[b].state = run[q].state
             \/ /\ run[q].state = "canceled" /\ att[b].state = "failed"
                /\ ~att[b].bound /\ att[b].owner = None
      BY <1>4, <2>2 DEF Tables, RunRows
    <3>2. b # a
      BY <1>2, <1>n, <3>1
    <3>3. att'[b] = att[b]
      BY <1>3, <3>1, <3>2
    <3> QED  BY <1>4, <2>2, <3>1, <3>3
  <2> QED  BY <2>1, <2>2
<1>t. \A b \in Attempts : att[b].lineage \in SUBSET Attempts
  BY DEF Inv, StoreInv, StoreType, AttemptRecords
<1>6. AttemptRows'
  <2>1. ASSUME NEW b \in Attempts
        PROVE  att'[b].state = "absent" <=> att'[b].run = None
    <3>1. t # "absent"
      BY DEF DISPATCHABLE_RUN_STATES
    <3> QED  BY <1>3, <1>n, <3>1 DEF Tables, AttemptRows
  <2>2. ASSUME NEW b \in Attempts, NEW s \in att'[b].lineage
        PROVE  att'[s].run = att'[b].run /\ att'[s].run \in Runs
    <3>1. CASE b = a
      <4>1. s \in Attempts /\ att[s].run = r
        BY <1>3, <2>2, <3>1
      <4>2. s # a
        BY <1>2, <1>n, <4>1
      <4> QED  BY <1>3, <3>1, <4>1, <4>2
    <3>2. CASE b # a
      <4>1. /\ s \in Attempts
            /\ att[s].run = att[b].run /\ att[s].run \in Runs
        BY <1>3, <1>t, <2>2, <3>2 DEF Tables, AttemptRows
      <4>2. s # a
        BY <1>2, <1>n, <4>1
      <4> QED  BY <1>3, <3>2, <4>1, <4>2
    <3> QED  BY <3>1, <3>2
  <2> QED  BY <2>1, <2>2 DEF AttemptRows
<1>7. UnboundRows'
  BY <1>3 DEF Tables, UnboundRows, UNBOUND_STATES
<1>8. ActionRows'
  BY <1>1 DEF ActionRows, NoNewActions
<1>9. DecisionRows'
  <2>1. \A b \in Attempts : ~(dec'[b] > 0)
    BY <1>1
  <2>2. \A q \in Runs : run'[q].state # "waiting_for_decision"
    BY <1>4 DEF TERMINAL_RUN_STATES, DISPATCHABLE_RUN_STATES
  <2> QED  BY <2>1, <2>2 DEF DecisionRows
<1>10. BoundCalls'
  <2> SUFFICES ASSUME NEW w \in Dispatchers, disp[w].pc = "bound"
               PROVE  att'[disp[w].att].state \in BOUND_STATES
    BY <1>1 DEF BoundCalls, NoNewActions
  <2>1. disp[w].att \in Attempts /\ att[disp[w].att].bound
    BY DEF Inv, DispatchInv, DispatchHasRun, ExecutingIsBound, Executing
  <2>2. disp[w].att # a
    BY <1>2, <2>1
  <2> QED  BY <1>3, <2>1, <2>2 DEF Tables, BoundCalls
<1>11. OnlyActiveMoves
  <2> SUFFICES ASSUME NEW b \in Attempts, b # a
               PROVE  LeaseOnly(b)
    BY <1>2 DEF OnlyActiveMoves
  <2>1. att[b] \in AttemptRecords
    BY DEF Inv, StoreInv, StoreType
  <2> QED  BY <1>3, <2>1 DEF AttemptRecords, LeaseOnly
<1>12. NoneRevives
  BY <1>2, <1>3 DEF NoneRevives, TERMINAL_RUN_STATES
<1>13. RunExists'
  BY <1>4 DEF Tables, RunExists, DISPATCHABLE_RUN_STATES
<1> QED  BY <1>5, <1>6, <1>7, <1>8, <1>9, <1>10, <1>11, <1>12, <1>13
         DEF Step, Tables

\* The binding of the attempt that the dispatch call owns.
LEMMA BindingTables ==
    ASSUME Inv, Tables, NEW w \in Dispatchers, pin_attempt_runtime(w)
    PROVE  Step
<1> DEFINE r == disp[w].run
           a == disp[w].att
<1>0. r \in Runs /\ a \in Attempts
  BY DEF pin_attempt_runtime, Inv, DispatchInv, DispatchHasRun
<1>1. /\ run[r].active = a /\ ~att[a].bound /\ att[a].owner = w
      /\ att' = [att EXCEPT ![a].bound = TRUE, ![a].owner = None,
                            ![a].leased = FALSE]
      /\ disp' = [disp EXCEPT ![w].pc = "bound"]
      /\ UNCHANGED <<run, dec, act>>
  BY DEF pin_attempt_runtime, IsActive
<1>2. \A b \in Attempts : att[b] \in AttemptRecords
  BY DEF Inv, StoreInv, StoreType
<1>3. \A b \in Attempts :
         /\ b # a => att'[b] = att[b]
         /\ att'[b].run = att[b].run /\ att'[b].state = att[b].state
         /\ att'[b].lineage = att[b].lineage
         /\ att[b].bound => att'[b].bound
  <2>1. DOMAIN att = Attempts
    BY DEF Inv, StoreInv, StoreType
  <2>2. \A b \in Attempts : b # a => att'[b] = att[b]
    BY <1>1, <2>1
  <2>3. att'[a] = [att[a] EXCEPT !.bound = TRUE, !.owner = None, !.leased = FALSE]
    BY <1>0, <1>1, <2>1
  <2>4. att[a] \in AttemptRecords
    BY <1>0, <1>2
  <2> HIDE DEF a
  <2>5. /\ att'[a].run = att[a].run /\ att'[a].state = att[a].state
        /\ att'[a].lineage = att[a].lineage
    BY <2>3, <2>4 DEF AttemptRecords
  <2> QED  BY <1>1, <2>2, <2>5
<1>4. run[r].state # "absent" /\ att[a].run = r /\ att[a].state = run[r].state
  <2>1. run[r].state # "absent"
    BY <1>0, <1>1 DEF Tables, RunExists
  <2>2. att[a].run = r /\ (att[a].state = run[r].state \/ att[a].owner = None)
    BY <1>0, <1>1, <2>1 DEF Tables, RunRows
  <2> QED  BY <1>1, <2>1, <2>2, ConstantsAssumption
<1>5. \A v \in Dispatchers :
         /\ disp'[v].att = disp[v].att /\ disp'[v].run = disp[v].run
         /\ v # w => disp'[v].pc = disp[v].pc
  BY <1>1 DEF Inv, LocalType
<1> HIDE DEF r, a
<1>6. RunRows'
  <2>0. run' = run
    BY <1>1
  <2> SUFFICES ASSUME NEW q \in Runs, run[q].state # "absent"
               PROVE  /\ run[q].active \in Attempts
                      /\ att'[run[q].active].run = q
                      /\ \/ att'[run[q].active].state = run[q].state
                         \/ /\ run[q].state = "canceled"
                            /\ att'[run[q].active].state = "failed"
                            /\ ~att'[run[q].active].bound
                            /\ att'[run[q].active].owner = None
    BY <2>0 DEF RunRows
  <2> DEFINE b == run[q].active
  <2>1. /\ b \in Attempts /\ att[b].run = q
        /\ \/ att[b].state = run[q].state
           \/ /\ run[q].state = "canceled" /\ att[b].state = "failed"
              /\ ~att[b].bound /\ att[b].owner = None
    BY DEF Tables, RunRows
  <2>2. CASE b = a
    BY <1>3, <1>4, <2>1, <2>2
  <2>3. CASE b # a
    <3>1. att'[b] = att[b]
      BY <1>3, <2>1, <2>3
    <3> QED  BY <2>1, <3>1
  <2> QED  BY <2>2, <2>3
<1>t. \A b \in Attempts : att[b].lineage \in SUBSET Attempts
  BY <1>2 DEF AttemptRecords
<1>7. AttemptRows'
  <2>1. ASSUME NEW b \in Attempts
        PROVE  att'[b].state = "absent" <=> att'[b].run = None
    BY <1>3 DEF Tables, AttemptRows
  <2>2. ASSUME NEW b \in Attempts, NEW s \in att'[b].lineage
        PROVE  att'[s].run = att'[b].run /\ att'[s].run \in Runs
    <3>1. /\ s \in Attempts
          /\ att[s].run = att[b].run /\ att[s].run \in Runs
      BY <1>3, <1>t, <2>2 DEF Tables, AttemptRows
    <3> QED  BY <1>3, <3>1
  <2> QED  BY <2>1, <2>2 DEF AttemptRows
<1>8. UnboundRows'
  BY <1>3 DEF Tables, UnboundRows
<1>9. ActionRows'
  <2> SUFFICES ASSUME NEW x \in Actions, act[x].st = "pending"
               PROVE  /\ att'[act[x].att].bound
                      /\ run[att'[act[x].att].run].active = act[x].att
                      /\ run[att'[act[x].att].run].state
                            = ActionState[act[x].kind]
                      /\ \A y \in Actions : act[y].st = "pending" => y = x
    BY <1>1 DEF ActionRows
  <2>1. act[x].att \in Attempts
    BY DEF Inv, StoreInv, StoreType, ActionRecords
  <2>2. /\ att[act[x].att].bound
        /\ run[att[act[x].att].run].active = act[x].att
        /\ run[att[act[x].att].run].state = ActionState[act[x].kind]
        /\ \A y \in Actions : act[y].st = "pending" => y = x
    BY DEF Tables, ActionRows
  <2>3. /\ att'[act[x].att].bound
        /\ att'[act[x].att].run = att[act[x].att].run
    BY <1>3, <2>1, <2>2
  <2> QED  BY <2>2, <2>3
<1>10. DecisionRows'
  <2>1. ASSUME NEW b \in Attempts, dec'[b] > 0
        PROVE  /\ att'[b].bound /\ run'[att'[b].run].active = b
               /\ run'[att'[b].run].state \in {"waiting_for_decision",
                                               "cancel_requested"}
    <3>1. /\ att[b].bound /\ run[att[b].run].active = b
          /\ run[att[b].run].state \in {"waiting_for_decision",
                                        "cancel_requested"}
      BY <1>1, <2>1 DEF Tables, DecisionRows
    <3>2. att'[b].bound /\ att'[b].run = att[b].run /\ run' = run
      BY <1>1, <1>3, <3>1
    <3> QED  BY <3>1, <3>2
  <2> QED  BY <1>1, <2>1 DEF Tables, DecisionRows
<1>11. BoundCalls'
  <2> SUFFICES ASSUME NEW v \in Dispatchers, disp'[v].pc = "bound"
               PROVE  /\ att'[disp'[v].att].state \in BOUND_STATES
                      /\ \A x \in Actions :
                            act[x].st = "pending" /\ act[x].att = disp'[v].att
                               => act[x].kind # "resolve"
    BY <1>1 DEF BoundCalls
  <2>1. CASE v = w
    <3>1. disp'[v].att = a
      BY <1>5, <2>1 DEF a
    <3>2. att[a].state \in UNBOUND_STATES
      BY <1>0, <1>1, <1>4 DEF Tables, UnboundRows
    <3>3. \A x \in Actions : ~(act[x].st = "pending" /\ act[x].att = a)
      BY <1>1 DEF Tables, ActionRows
    <3>4. att[a].state \in BOUND_STATES
      BY <3>2 DEF UNBOUND_STATES, BOUND_STATES, TERMINAL_RUN_STATES
    <3> QED  BY <1>0, <1>3, <3>1, <3>3, <3>4
  <2>2. CASE v # w
    <3>1. disp[v].pc = "bound" /\ disp'[v].att = disp[v].att
      BY <1>5, <2>2
    <3>2. disp[v].att \in Attempts
      BY <3>1 DEF Inv, DispatchInv, DispatchHasRun
    <3> QED  BY <1>3, <3>1, <3>2 DEF Tables, BoundCalls
  <2> QED  BY <2>1, <2>2
<1>12. OnlyActiveMoves
  <2> SUFFICES ASSUME NEW b \in Attempts, b # a
               PROVE  LeaseOnly(b)
    BY <1>0, <1>1, <1>4 DEF OnlyActiveMoves
  <2> QED  BY <1>2, <1>3 DEF AttemptRecords, LeaseOnly
<1>13. NoneRevives
  BY <1>3 DEF NoneRevives
<1>14. RunExists'
  BY <1>1 DEF Tables, RunExists
<1> QED  BY <1>6, <1>7, <1>8, <1>9, <1>10, <1>11, <1>12, <1>13, <1>14
         DEF Step, Tables

-----------------------------------------------------------------------------
(* Pieces of transactions.                                                  *)

\* What an attempt that ended or paused leaves queued.
LEMMA FailPendingLeaves ==
    ASSUME NEW A \in [Actions -> ActionRecords], NEW a, NEW x \in Actions,
           fail_pending_runtime_actions(A, a)[x].st = "pending"
    PROVE  /\ fail_pending_runtime_actions(A, a)[x] = A[x]
           /\ A[x].st = "pending" /\ A[x].att # a
<1> DEFINE F == fail_pending_runtime_actions(A, a)
<1>1. F[x] = IF A[x].st = "pending" /\ A[x].att = a
             THEN [A[x] EXCEPT !.st = "failed", !.out = "ready"]
             ELSE A[x]
  BY DEF fail_pending_runtime_actions
<1>2. ~(A[x].st = "pending" /\ A[x].att = a)
  <2> SUFFICES ASSUME A[x].st = "pending", A[x].att = a
               PROVE  F[x].st # "pending"
    OBVIOUS
  <2>1. F[x] = [A[x] EXCEPT !.st = "failed", !.out = "ready"]
    BY <1>1
  <2>2. A[x] \in ActionRecords
    OBVIOUS
  <2> QED  BY <2>1, <2>2 DEF ActionRecords
<1> QED  BY <1>1, <1>2

\* A call that moves on is no longer between binding and start, and no other
\* call is, for the attempt it executes.
LEMMA MovesOn ==
    ASSUME Inv, NEW w \in Dispatchers,
           EndTurn(w) \/ \E pc \in Phases \ {"bound"} : Goto(w, pc)
    PROVE  /\ CallsKept
           /\ Executing(w) => \A v \in Dispatchers :
                 disp'[v].pc = "bound" => disp'[v].att # disp[w].att
<1>1. /\ disp'[w].pc # "bound"
      /\ \A v \in Dispatchers : v # w => disp'[v] = disp[v]
  <2>1. Idle.pc # "bound"
    BY DEF Idle
  <2>2. CASE EndTurn(w)
    BY <2>1, <2>2 DEF EndTurn, Inv, LocalType
  <2>3. CASE \E pc \in Phases \ {"bound"} : Goto(w, pc)
    BY <2>3 DEF Goto, Inv, LocalType
  <2> QED  BY <2>2, <2>3
<1>2. CallsKept
  BY <1>1 DEF CallsKept
<1>3. ASSUME Executing(w), NEW v \in Dispatchers, disp'[v].pc = "bound"
      PROVE  disp'[v].att # disp[w].att
  <2>1. v # w /\ disp'[v] = disp[v]
    BY <1>1, <1>3
  <2> QED  BY <1>3, <2>1 DEF Inv, DispatchInv, AtMostOneDriver, Executing
<1> QED  BY <1>2, <1>3

\* transition_run of a run that has not ended: to its end, or on, when
\* nothing is pending that the new state would orphan.
LEMMA TransitionTables ==
    ASSUME Inv, Tables, CallsKept, NEW r \in Runs, att[run[r].active].bound,
           run[r].state \notin TERMINAL_RUN_STATES \cup {"absent"},
           NEW A \in [Actions -> ActionRecords],
           \A x \in Actions : A[x].st = "pending" => act[x].st = "pending" /\ A[x].att = act[x].att,
           NEW t \in TERMINAL_RUN_STATES \cup {"starting", "running", "paused"},
           t \notin TERMINAL_RUN_STATES =>
              /\ run[r].state \notin {"waiting_for_decision", "cancel_requested"}
              /\ t # "paused" => \A x \in Actions : A[x].st # "pending"
              /\ \A v \in Dispatchers : disp'[v].pc = "bound" =>
                    disp'[v].att # run[r].active,
           transition_run(r, t, A)
    PROVE  Step
<1> DEFINE a == run[r].active
<1>1. /\ a \in Attempts /\ att[a].run = r
      /\ \A x \in Actions : act[x].st = "pending" => act[x].att = a
      /\ \A b \in Attempts : dec[b] > 0 =>
            /\ b = a
            /\ run[r].state \in {"waiting_for_decision", "cancel_requested"}
  BY OnlyActive
<1>2. Moves(r, a, t)
  BY DEF transition_run, Moves
<1>3. \A x \in Actions : act'[x].st # "pending"
  <2>1. CASE t \in TERMINAL_RUN_STATES \cup {"paused"}
    <3>1. act' = fail_pending_runtime_actions(A, a)
      BY <2>1 DEF transition_run
    <3> QED  BY <1>1, <3>1, FailPendingLeaves
  <2>2. CASE t \notin TERMINAL_RUN_STATES \cup {"paused"}
    <3>1. act' = A
      BY <2>2 DEF transition_run
    <3> QED  BY <2>2, <3>1
  <2> QED  BY <2>1, <2>2
<1>4. \A b \in Attempts : ~(dec'[b] > 0)
  <2>1. CASE t \in TERMINAL_RUN_STATES
    <3>1. dec' = [b \in Attempts |-> IF att[b].run = r THEN 0 ELSE dec[b]]
      BY <2>1 DEF transition_run
    <3> QED  BY <1>1, <3>1
  <2>2. CASE t \notin TERMINAL_RUN_STATES
    <3>1. dec' = dec
      BY <2>2 DEF transition_run
    <3> QED  BY <1>1, <2>2, <3>1
  <2> QED  BY <2>1, <2>2
<1>5. /\ t \in RunStates \ {"absent"} /\ t # "waiting_for_decision"
      /\ t \in TERMINAL_RUN_STATES => t \in BOUND_STATES
  BY DEF RunStates, TERMINAL_RUN_STATES, BOUND_STATES
<1>6. \A w \in Dispatchers : disp'[w].pc = "bound" /\ disp'[w].att = a =>
         t \in BOUND_STATES
  BY <1>5
<1>7. a = run[r].active /\ att[a].bound
  OBVIOUS
<1>8. /\ \A x \in Actions : act'[x].st = "pending" =>
            act'[x].att = a /\ att[a].bound /\ t = ActionState[act'[x].kind]
      /\ \A x, y \in Actions :
            act'[x].st = "pending" /\ act'[y].st = "pending" => y = x
      /\ \A b \in Attempts : dec'[b] > 0 =>
            /\ b = a /\ att[a].bound
            /\ t \in {"waiting_for_decision", "cancel_requested"}
      /\ t = "waiting_for_decision" => dec'[a] = 1
      /\ \A w \in Dispatchers : disp'[w].pc = "bound" /\ disp'[w].att = a =>
            /\ t \in BOUND_STATES
            /\ \A x \in Actions :
                  act'[x].st = "pending" => act'[x].kind # "resolve"
  BY <1>3, <1>4, <1>5, <1>6
<1> HIDE DEF a
<1>9. att[a].bound \/ t \in UNBOUND_STATES
  BY <1>7
<1> QED  BY <1>2, <1>5, <1>7, <1>8, <1>9, StateMove

\* A guarded transition_run to an end, as the guard finds the run or as an
\* event finds it that confirmed a resume.
LEMMA RunEnds ==
    ASSUME Inv, Tables, CallsKept, NEW r \in Runs, NEW a,
           NEW c \in confirm_runtime_resume_from_event(r, a) \cup
                     {<<run[r].state, act>>},
           NEW t \in TERMINAL_RUN_STATES, CanTransition(r, a, c[1], t),
           transition_run(r, t, c[2])
    PROVE  Step
<1>0. StoreInv /\ run[r].state \in RunStates /\ act \in [Actions -> ActionRecords]
  BY DEF Inv, StoreInv, StoreType
<1>1. /\ c[1] = run[r].state \/ (c[1] = "running" /\ run[r].state = "resuming")
      /\ c[2] \in [Actions -> ActionRecords]
  BY <1>0, ConfirmedResume
<1>2. run[r].state \notin TERMINAL_RUN_STATES \cup {"absent"}
  BY <1>0, <1>1, TransitionEdges DEF CanTransition, TERMINAL_RUN_STATES, RunStates
<1>3. \A x \in Actions : c[2][x].st = "pending" =>
         act[x].st = "pending" /\ c[2][x].att = act[x].att
  <2>1. CASE c[2] = act
    BY <2>1
  <2>2. ASSUME NEW y \in Actions,
               c = <<"running", [act EXCEPT ![y].st = "acked", ![y].out = "ready"]>>
        PROVE  \A x \in Actions : c[2][x].st = "pending" =>
                  act[x].st = "pending" /\ c[2][x].att = act[x].att
    <3>1. /\ \A x \in Actions : x # y => c[2][x] = act[x]
          /\ c[2][y] = [act[y] EXCEPT !.st = "acked", !.out = "ready"]
      BY <1>0, <2>2
    <3>2. act[y] \in ActionRecords
      BY <1>0
    <3>3. c[2][y].st = "acked"
      BY <3>1, <3>2 DEF ActionRecords
    <3> QED  BY <3>1, <3>3
  <2>3. c = <<run[r].state, act>> => c[2] = act
    OBVIOUS
  <2>4. \/ c = <<run[r].state, act>>
        \/ \E y \in Actions :
              c = <<"running",
                    [act EXCEPT ![y].st = "acked", ![y].out = "ready"]>>
    BY DEF confirm_runtime_resume_from_event
  <2> QED  BY <2>1, <2>2, <2>3, <2>4
<1>4. run[r].active = a /\ att[a].bound
  BY DEF CanTransition, IsActive
<1> HIDE DEF CanTransition
<1> QED  BY <1>1, <1>2, <1>3, <1>4, TransitionTables

\* The one row a command inserts, where nothing is pending.
LEMMA InsertedAction ==
    ASSUME NEW A \in [Actions -> ActionRecords],
           \A x \in Actions : A[x].st # "pending", NEW a, NEW kind,
           NEW y \in Actions, Queues(A, y, NewAction(kind, a))
    PROVE  /\ \A x \in Actions : act'[x].st = "pending" =>
                 x = y /\ act'[x].att = a /\ act'[x].kind = kind
           /\ \A x, z \in Actions :
                 act'[x].st = "pending" /\ act'[z].st = "pending" => z = x
<1>1. \A x \in Actions : act'[x] = IF x = y THEN NewAction(kind, a) ELSE A[x]
  BY DEF Queues
<1>2. NewAction(kind, a).att = a /\ NewAction(kind, a).kind = kind
  BY DEF NewAction
<1> QED  BY <1>1, <1>2

-----------------------------------------------------------------------------
(* The actions, group by group.                                             *)

\* The operator's commands.
LEMMA CreateTables ==
    ASSUME Inv, Tables, NEW r \in Runs, create_run(r)
    PROVE  Step
<1>1. PICK a \in Attempts :
         /\ IsNextAttempt(a)
         /\ Inserts(r, a, NewAttempt(r, "queued", {}, FALSE))
  <2>1. NewAttempt(r, "queued", {}, FALSE).state = "queued"
    BY DEF NewAttempt
  <2> QED  BY <2>1 DEF create_run, Inserts
<1> DEFINE rec == NewAttempt(r, "queued", {}, FALSE)
<1>2. /\ rec \in AttemptRecords /\ rec.run = r /\ rec.state = "queued"
      /\ ~rec.bound /\ rec.lineage = {}
  BY DEF NewAttempt, AttemptRecords, RunStates
<1>3. /\ run[r].state = "absent"
      /\ \A q \in Runs : run[q].state \in TERMINAL_RUN_STATES \cup {"absent"}
  <2>1. active = None
    BY DEF create_run, Inv, StoreInv, StoreType, OneActiveRun
  <2> QED  BY <2>1, ConstantsAssumption DEF create_run, Inv, StoreInv, OneActiveRun
<1>4. UNCHANGED <<dec, disp>> /\ NoNewActions /\ "queued" \in DISPATCHABLE_RUN_STATES
  BY DEF create_run, local, NoNewActions, DISPATCHABLE_RUN_STATES
<1> HIDE DEF rec
<1> QED  BY <1>1, <1>2, <1>3, <1>4, NewRow DEF rec

LEMMA RestartTables ==
    ASSUME Inv, Tables, NEW r \in Runs, NEW source \in {"paused", "failed"},
           NEW t \in DISPATCHABLE_RUN_STATES, restart_attempt(r, source, t)
    PROVE  Step
<1> DEFINE p == run[r].active
           L == att[p].lineage \cup {p}
           rec == NewAttempt(r, t, L, att[p].ckpt \/ att[p].srcCkpt)
<1>0. run[r].state = source /\ p \in Attempts /\ att[p].run = r
  BY DEF restart_attempt, Tables, RunRows
<1>1. PICK a \in Attempts : IsNextAttempt(a) /\ Inserts(r, a, rec)
  <2>1. rec.state = t
    BY DEF NewAttempt
  <2> HIDE DEF L
  <2> QED  BY <2>1 DEF restart_attempt, Inserts, L
<1>2. att[p] \in AttemptRecords
  BY <1>0 DEF Inv, StoreInv, StoreType
<1>3. L \in SUBSET Attempts
  BY <1>0, <1>2 DEF AttemptRecords
<1>4. \A s \in L : att[s].run = r
  BY <1>0 DEF Tables, AttemptRows
<1>5. \A q \in Runs : q # r => run[q].state \in TERMINAL_RUN_STATES \cup {"absent"}
  BY ConstantsAssumption DEF restart_attempt, Inv, StoreInv, OneActiveRun
<1>6. NoNewActions
  <2>1. act' = fail_pending_runtime_actions(act, p)
    BY DEF restart_attempt
  <2>2. act \in [Actions -> ActionRecords]
    BY DEF Inv, StoreInv, StoreType
  <2> HIDE DEF p
  <2> QED  BY <2>1, <2>2, FailPendingLeaves DEF NoNewActions
<1>7. UNCHANGED <<dec, disp>>
  BY DEF restart_attempt, local
<1> HIDE DEF L
<1>8. /\ rec \in AttemptRecords /\ rec.run = r /\ rec.state = t
      /\ ~rec.bound /\ rec.lineage = L
  <2>2. (att[p].ckpt \/ att[p].srcCkpt) \in BOOLEAN /\ t \in RunStates
    BY DEF DISPATCHABLE_RUN_STATES, RunStates
  <2> QED  BY <1>3, <2>2 DEF NewAttempt, AttemptRecords
<1> HIDE DEF rec, p
<1> QED  BY <1>0, <1>1, <1>3, <1>4, <1>5, <1>6, <1>7, <1>8, NewRow

LEMMA RequestPauseTables ==
    ASSUME Inv, Tables, NEW r \in Runs, request_pause(r)
    PROVE  Step
<1> DEFINE a == run[r].active
<1>0. run[r].state \in RunStates /\ act \in [Actions -> ActionRecords]
  BY DEF Inv, StoreInv, StoreType
<1>1. run[r].state = "running"
  BY <1>0 DEF request_pause, RUN_TRANSITIONS, RunStates
<1>2. run[r].state \notin TERMINAL_RUN_STATES \cup {"absent"}
  BY <1>1 DEF TERMINAL_RUN_STATES
<1>3. /\ a \in Attempts /\ att[a].state = "running"
      /\ \A x \in Actions : act[x].st # "pending"
      /\ \A b \in Attempts : ~(dec[b] > 0)
  BY <1>1, <1>2, OnlyActive DEF ActionState, Kinds
<1>4. att[a].bound
  BY <1>3 DEF Tables, UnboundRows, UNBOUND_STATES, DISPATCHABLE_RUN_STATES
<1>5. CallsKept /\ dec' = dec /\ disp' = disp
  BY DEF request_pause, local, CallsKept
<1>6. Moves(r, a, "pause_requested")
  BY DEF request_pause, Moves
<1>7. PICK y \in Actions : Queues(act, y, NewAction("pause", a))
  BY <1>4 DEF request_pause, insert_control_runtime_action, Queues
<1>8. /\ \A x \in Actions : act'[x].st = "pending" =>
            act'[x].att = a /\ act'[x].kind = "pause"
      /\ \A x, z \in Actions :
            act'[x].st = "pending" /\ act'[z].st = "pending" => z = x
  BY <1>0, <1>3, <1>7, InsertedAction
<1>9. ActionState["pause"] = "pause_requested"
  BY DEF ActionState, Kinds
<1>10. \A w \in Dispatchers : ~(disp'[w].pc = "bound" /\ disp'[w].att = a)
  <2>1. att[a].state \notin BOUND_STATES
    BY <1>3 DEF BOUND_STATES, DISPATCHABLE_RUN_STATES, TERMINAL_RUN_STATES
  <2> QED  BY <1>5, <2>1 DEF Tables, BoundCalls
<1>11. "pause_requested" \in RunStates \ {"absent"}
  BY DEF RunStates
<1>12. a = run[r].active
  OBVIOUS
<1> HIDE DEF a
<1>13. \A x \in Actions : act'[x].st = "pending" =>
         /\ act'[x].att = a /\ att[a].bound
         /\ "pause_requested" = ActionState[act'[x].kind]
  BY <1>4, <1>8, <1>9
<1> QED  BY <1>2, <1>3, <1>4, <1>5, <1>6, <1>8, <1>10, <1>11, <1>12, <1>13,
            StateMove

LEMMA RequestCancelTables ==
    ASSUME Inv, Tables, NEW r \in Runs, request_cancel(r)
    PROVE  Step
<1> DEFINE a == run[r].active
           A == fail_pending_runtime_actions(act, a)
<1>0. run[r].state \in RunStates /\ act \in [Actions -> ActionRecords]
  BY DEF Inv, StoreInv, StoreType
<1>1. run[r].state \notin TERMINAL_RUN_STATES \cup {"absent"}
  BY <1>0, TransitionEdges DEF request_cancel
<1>2. /\ \A x \in Actions : act[x].st = "pending" => act[x].att = a
      /\ \A b \in Attempts : dec[b] > 0 => b = a /\ att[a].bound
  BY <1>1, OnlyActive
<1>3. CallsKept /\ dec' = dec /\ disp' = disp
  BY DEF request_cancel, local, CallsKept
<1>4. Moves(r, a, "cancel_requested")
  BY DEF request_cancel, Moves
<1>5. A \in [Actions -> ActionRecords] /\ \A x \in Actions : A[x].st # "pending"
  BY <1>0, <1>2, FailPendingType, FailPendingLeaves
<1>6. insert_control_runtime_action(A, a, "cancel")
  BY DEF request_cancel
<1>7. /\ "cancel_requested" \in RunStates \ {"absent"}
      /\ "cancel_requested" \in BOUND_STATES
      /\ "cancel_requested" \in UNBOUND_STATES
      /\ ActionState["cancel"] = "cancel_requested"
  BY DEF RunStates, BOUND_STATES, UNBOUND_STATES, ActionState, Kinds
<1>8. a = run[r].active
  OBVIOUS
<1> HIDE DEF a, A
<1>9. /\ \A x \in Actions : act'[x].st = "pending" =>
            act'[x].att = a /\ act'[x].kind = "cancel" /\ att[a].bound
      /\ \A x, z \in Actions :
            act'[x].st = "pending" /\ act'[z].st = "pending" => z = x
  <2>1. CASE att[a].bound
    <3>1. PICK y \in Actions : Queues(A, y, NewAction("cancel", a))
      BY <1>6, <2>1 DEF insert_control_runtime_action, Queues
    <3>2. /\ \A x \in Actions : act'[x].st = "pending" =>
               x = y /\ act'[x].att = a /\ act'[x].kind = "cancel"
          /\ \A x, z \in Actions :
               act'[x].st = "pending" /\ act'[z].st = "pending" => z = x
      BY <1>5, <3>1, InsertedAction
    <3> QED  BY <2>1, <3>2
  <2>2. CASE ~att[a].bound
    BY <1>5, <1>6, <2>2 DEF insert_control_runtime_action
  <2> QED  BY <2>1, <2>2
<1>10. \A x \in Actions : act'[x].st = "pending" =>
          /\ act'[x].att = a /\ att[a].bound
          /\ "cancel_requested" = ActionState[act'[x].kind]
  BY <1>7, <1>9
<1>11. \A w \in Dispatchers : disp'[w].pc = "bound" /\ disp'[w].att = a =>
          /\ "cancel_requested" \in BOUND_STATES
          /\ \A x \in Actions : act'[x].st = "pending" => act'[x].kind # "resolve"
  BY <1>7, <1>9
<1>12. \A b \in Attempts : dec'[b] > 0 => b = a /\ att[a].bound
  BY <1>2, <1>3
<1> QED  BY <1>1, <1>3, <1>4, <1>7, <1>8, <1>9, <1>10, <1>11, <1>12, StateMove

LEMMA ResolveDecisionTables ==
    ASSUME Inv, Tables, NEW r \in Runs, NEW a \in Attempts, resolve_decision(r, a)
    PROVE  Step
<1>0. act \in [Actions -> ActionRecords] /\ dec \in [Attempts -> 0..MaxDecisions]
  BY DEF Inv, StoreInv, StoreType
<1>1. /\ run[r].state = "waiting_for_decision" /\ dec[a] > 0 /\ att[a].bound
      /\ run[r].state \notin TERMINAL_RUN_STATES \cup {"absent"}
  BY DEF resolve_decision, TERMINAL_RUN_STATES
<1>2. /\ a = run[r].active /\ att[a].state = "waiting_for_decision"
      /\ \A x \in Actions : act[x].st # "pending"
      /\ \A b \in Attempts : dec[b] > 0 => b = a
  <2>1. /\ \A b \in Attempts : dec[b] > 0 => b = run[r].active
        /\ att[run[r].active].state = run[r].state
        /\ \A x \in Actions : act[x].st = "pending" =>
              run[r].state = ActionState[act[x].kind] /\ act[x].kind \in Kinds
    BY <1>1, OnlyActive
  <2>2. \A k \in Kinds : ActionState[k] # "waiting_for_decision"
    BY DEF ActionState, Kinds
  <2> QED  BY <1>1, <2>1, <2>2
<1>3. \A b \in Attempts : ~(dec'[b] > 0)
  <2>1. dec[a] = 1
    BY <1>1, <1>2 DEF Tables, DecisionRows
  <2>2. dec' = [dec EXCEPT ![a] = 0]
    BY <2>1 DEF resolve_decision
  <2> QED  BY <1>0, <1>2, <2>2
<1>4. CallsKept /\ disp' = disp
  BY DEF resolve_decision, local, CallsKept
<1>5. Moves(r, a, "resuming")
  BY DEF resolve_decision, Moves
<1>6. PICK y \in Actions : Queues(act, y, NewAction("resolve", a))
  BY DEF resolve_decision, Queues
<1>7. /\ \A x \in Actions : act'[x].st = "pending" =>
            act'[x].att = a /\ act'[x].kind = "resolve"
      /\ \A x, z \in Actions :
            act'[x].st = "pending" /\ act'[z].st = "pending" => z = x
  BY <1>0, <1>2, <1>6, InsertedAction
<1>8. ActionState["resolve"] = "resuming" /\ "resuming" \in RunStates \ {"absent"}
  BY DEF ActionState, Kinds, RunStates
<1>9. \A w \in Dispatchers : ~(disp'[w].pc = "bound" /\ disp'[w].att = a)
  <2>1. att[a].state \notin BOUND_STATES
    BY <1>2 DEF BOUND_STATES, DISPATCHABLE_RUN_STATES, TERMINAL_RUN_STATES
  <2> QED  BY <1>4, <2>1 DEF Tables, BoundCalls
<1>10. \A x \in Actions : act'[x].st = "pending" =>
          /\ act'[x].att = a /\ att[a].bound
          /\ "resuming" = ActionState[act'[x].kind]
  BY <1>1, <1>7, <1>8
<1> QED  BY <1>1, <1>2, <1>3, <1>4, <1>5, <1>7, <1>8, <1>9, <1>10, StateMove

LEMMA OperatorTables ==
    ASSUME Inv, Tables, Operator
    PROVE  Step
<1> PICK r \in Runs :
       \/ create_run(r) \/ request_pause(r) \/ request_cancel(r)
       \/ converge_cancellation(r) \/ resume_run(r) \/ retry_run(r)
       \/ \E a \in Attempts : resolve_decision(r, a)
  BY DEF Operator
<1>1. CASE converge_cancellation(r)
  <2>1. CallsKept
    BY <1>1 DEF converge_cancellation, local, CallsKept
  <2> QED  BY <1>1, <2>1, FailUnboundTables DEF converge_cancellation
<1>2. CASE resume_run(r) \/ retry_run(r)
  <2>1. {"resuming", "retrying"} \subseteq DISPATCHABLE_RUN_STATES
    BY DEF DISPATCHABLE_RUN_STATES
  <2> QED  BY <1>2, <2>1, RestartTables DEF resume_run, retry_run
<1> QED  BY <1>1, <1>2, CreateTables, RequestPauseTables, RequestCancelTables,
            ResolveDecisionTables

\* The dispatch call, up to the binding.
LEMMA BeforeBindingTables ==
    ASSUME Inv, Tables, NEW w \in Dispatchers,
           \/ \E r \in Runs : reserve_attempt_dispatch(w, r)
           \/ pin_attempt(w) \/ fail_before_binding(w) \/ pin_attempt_runtime(w)
    PROVE  Step
<1>1. ASSUME NEW r \in Runs, reserve_attempt_dispatch(w, r)
      PROVE  Step
  <2> DEFINE a == run[r].active
  <2>1. /\ a \in Attempts /\ run[r].state \in DISPATCHABLE_RUN_STATES
        /\ att' = [att EXCEPT ![a].owner = w, ![a].leased = TRUE,
                              ![a].identity = TRUE]
        /\ disp' = [disp EXCEPT ![w] = [pc |-> "reserved", run |-> r, att |-> a]]
        /\ UNCHANGED <<run, dec, act>>
    BY <1>1 DEF reserve_attempt_dispatch
  <2>2. att[a].run = r /\ att[a].state = run[r].state
    BY <2>1 DEF Tables, RunRows, DISPATCHABLE_RUN_STATES
  <2>3. CallsKept
    BY <2>1 DEF CallsKept, Inv, LocalType
  <2>4. NoNewActions
    BY <2>1 DEF NoNewActions
  <2>5. \A b \in Attempts : att[b] \in AttemptRecords
    BY DEF Inv, StoreInv, StoreType
  <2>6. \A b \in Attempts :
           /\ att'[b].run = att[b].run /\ att'[b].state = att[b].state
           /\ att'[b].bound = att[b].bound /\ att'[b].lineage = att[b].lineage
           /\ b # a => att'[b] = att[b]
    BY <2>1, <2>5 DEF AttemptRecords, Inv, StoreInv, StoreType
  <2>7. att[a].state # "failed"
    BY <2>1, <2>2 DEF DISPATCHABLE_RUN_STATES
  <2>8. \A b \in Attempts : b # a => LeaseOnly(b)
    BY <2>5, <2>6 DEF LeaseOnly, AttemptRecords
  <2> HIDE DEF a
  <2>9. \A b \in Attempts :
              /\ att'[b].run = att[b].run /\ att'[b].state = att[b].state
              /\ att'[b].bound = att[b].bound
              /\ att'[b].lineage = att[b].lineage
              /\ att'[b].owner = att[b].owner \/ att[b].state # "failed"
              /\ \/ LeaseOnly(b)
                 \/ att[b].run \in Runs /\ run[att[b].run].active = b
    BY <2>2, <2>6, <2>7, <2>8 DEF a
  <2> QED  BY <2>1, <2>3, <2>4, <2>9, Quiet
<1>2. CASE pin_attempt(w)
  <2>1. UNCHANGED <<run, att, dec, act>>
    BY <1>2 DEF pin_attempt, store
  <2>2. CallsKept
    BY <1>2 DEF pin_attempt, CallsKept, Inv, LocalType
  <2> QED  BY <2>1, <2>2, StoreKept
<1>3. CASE fail_before_binding(w)
  <2>1. CallsKept
    BY <1>3, MovesOn DEF fail_before_binding
  <2>2. CASE UNCHANGED <<store, fresh>>
    BY <2>1, <2>2, StoreKept DEF store
  <2>3. disp[w].run \in Runs
    BY <1>3 DEF fail_before_binding, Inv, DispatchInv, DispatchHasRun
  <2>4. CASE /\ CanFailUnbound(disp[w].run, disp[w].att)
             /\ fail_unbound_run(disp[w].run)
    <3>1. disp[w].att = run[disp[w].run].active
      BY <2>4 DEF CanFailUnbound, IsActive
    <3> QED  BY <2>1, <2>3, <2>4, <3>1, FailUnboundTables
  <2> QED  BY <1>3, <2>2, <2>4 DEF fail_before_binding
<1> QED  BY <1>1, <1>2, <1>3, BindingTables

\* An event that finds the run running, or confirms its resume, leaves no
\* action pending.
LEMMA ConfirmedRunning ==
    ASSUME Inv, Tables, NEW r \in Runs, NEW a, a = run[r].active,
           NEW c \in confirm_runtime_resume_from_event(r, a), c[1] = "running"
    PROVE  /\ run[r].state \in {"running", "resuming"}
           /\ \A x \in Actions : c[2][x].st # "pending"
<1>0. act \in [Actions -> ActionRecords]
  BY DEF Inv, StoreInv, StoreType
<1>1. CASE /\ run[r].state # "resuming" /\ c = <<run[r].state, act>>
  <2>1. run[r].state = "running" /\ c[2] = act
    BY <1>1
  <2>2. \A k \in Kinds : ActionState[k] # "running"
    BY DEF ActionState, Kinds
  <2>3. \A x \in Actions : act[x].st # "pending"
    BY <2>1, <2>2, OnlyActive DEF TERMINAL_RUN_STATES
  <2> QED  BY <2>1, <2>3
<1>2. ASSUME NEW y \in Actions, run[r].state = "resuming", Pending(y, a),
             c = <<"running", [act EXCEPT ![y].st = "acked", ![y].out = "ready"]>>
      PROVE  /\ run[r].state \in {"running", "resuming"}
             /\ \A x \in Actions : c[2][x].st # "pending"
  <2>1. /\ \A x \in Actions : x # y => c[2][x] = act[x]
        /\ c[2][y] = [act[y] EXCEPT !.st = "acked", !.out = "ready"]
    BY <1>0, <1>2
  <2>2. c[2][y].st = "acked"
    BY <1>0, <2>1 DEF ActionRecords
  <2>3. \A x \in Actions : act[x].st = "pending" => x = y
    BY <1>2 DEF Pending, Tables, ActionRows
  <2> QED  BY <1>2, <2>1, <2>2, <2>3
<1>3. \/ run[r].state # "resuming" /\ c = <<run[r].state, act>>
      \/ \E y \in Actions :
            /\ run[r].state = "resuming" /\ Pending(y, a)
            /\ c = <<"running",
                     [act EXCEPT ![y].st = "acked", ![y].out = "ready"]>>
  BY DEF confirm_runtime_resume_from_event
<1> QED  BY <1>1, <1>2, <1>3

\* The except arm, the bridge and the recovery end the run as they find it.
LEMMA GuardedEnd ==
    ASSUME Inv, Tables, CallsKept, NEW r \in Runs, NEW a,
           NEW t \in TERMINAL_RUN_STATES, CanTransition(r, a, run[r].state, t),
           transition_run(r, t, act)
    PROVE  Step
<1> DEFINE c == <<run[r].state, act>>
<1>1. c[1] = run[r].state /\ c[2] = act
  OBVIOUS
<1>2. c \in confirm_runtime_resume_from_event(r, a) \cup {<<run[r].state, act>>}
  OBVIOUS
<1> HIDE DEF c
<1> QED  BY <1>1, <1>2, RunEnds

LEMMA EndConvergingTables ==
    ASSUME Inv, Tables, CallsKept, NEW r \in Runs, end_converging(r)
    PROVE  Step
<1>1. STALLED_TERMINALS[run[r].state] \in TERMINAL_RUN_STATES
  BY DEF end_converging, STALLED_STATES, STALLED_TERMINALS, TERMINAL_RUN_STATES
<1> QED  BY <1>1, GuardedEnd DEF end_converging

\* A guarded transition_run to a state that does not end the run.
LEMMA RunGoesOn ==
    ASSUME Inv, Tables, NEW w \in Dispatchers, Executing(w), disp[w].run \in Runs,
           EndTurn(w) \/ \E pc \in Phases \ {"bound"} : Goto(w, pc),
           NEW t \in {"starting", "running", "paused"},
           CanTransition(disp[w].run, disp[w].att, run[disp[w].run].state, t),
           t = "starting" => disp[w].pc = "bound",
           t = "running" => run[disp[w].run].state # "resuming",
           transition_run(disp[w].run, t, act)
    PROVE  Step
<1> DEFINE r == disp[w].run
           a == disp[w].att
<1>1. /\ run[r].active = a /\ att[a].bound /\ t \in RUN_TRANSITIONS[run[r].state]
      /\ run[r].state \in RunStates /\ act \in [Actions -> ActionRecords]
  BY DEF CanTransition, IsActive, Inv, StoreInv, StoreType
<1>2. /\ CallsKept
      /\ \A v \in Dispatchers : disp'[v].pc = "bound" => disp'[v].att # a
  BY MovesOn
<1>3. /\ t = "starting" => run[r].state \in DISPATCHABLE_RUN_STATES
      /\ t = "running" => run[r].state = "starting"
      /\ t = "paused" => run[r].state = "pause_requested"
  BY <1>1 DEF RUN_TRANSITIONS, RunStates, DISPATCHABLE_RUN_STATES
<1>4. /\ run[r].state \notin TERMINAL_RUN_STATES \cup {"absent"}
      /\ run[r].state \notin {"waiting_for_decision", "cancel_requested"}
  BY <1>3 DEF DISPATCHABLE_RUN_STATES, TERMINAL_RUN_STATES
<1>5. t # "paused" => \A x \in Actions : act[x].st # "pending"
  <2> SUFFICES ASSUME t # "paused", NEW x \in Actions, act[x].st = "pending"
               PROVE  FALSE
    OBVIOUS
  <2>1. /\ act[x].att = a /\ act[x].kind \in Kinds
        /\ run[r].state = ActionState[act[x].kind]
    BY <1>1, <1>4, OnlyActive
  <2>2. t = "starting" /\ act[x].kind = "resolve"
    BY <1>3, <2>1 DEF ActionState, Kinds, DISPATCHABLE_RUN_STATES
  <2> QED  BY <2>1, <2>2 DEF Tables, BoundCalls
<1>6. t \in TERMINAL_RUN_STATES \cup {"starting", "running", "paused"}
  OBVIOUS
<1> HIDE DEF r
<1>7. transition_run(r, t, act) /\ r \in Runs
  BY DEF r
<1>8. \A x \in Actions : act[x].st = "pending" =>
         act[x].st = "pending" /\ act[x].att = act[x].att
  OBVIOUS
<1> HIDE DEF a
<1> QED  BY <1>1, <1>2, <1>4, <1>5, <1>6, <1>7, <1>8, TransitionTables

\* The dispatch call, from the binding to its end.
LEMMA ProgressTables ==
    ASSUME Inv, Tables, NEW w \in Dispatchers, event_progress(w)
    PROVE  Step
<1> DEFINE r == disp[w].run
           a == disp[w].att
<1>1. /\ r \in Runs /\ a \in Attempts /\ disp[w].pc = "stream"
      /\ run[r].active = a /\ att[a].bound /\ run[r].state = "resuming"
      /\ disp' = disp /\ dec' = dec
  BY DEF event_progress, record_runtime_observation, IsActive, local, Inv,
         DispatchInv, DispatchHasRun
<1>2. PICK c \in confirm_runtime_resume_from_event(r, a) :
         /\ run' = [run EXCEPT ![r].state = c[1]]
         /\ att' = [att EXCEPT ![a].state = c[1]]
         /\ act' = c[2]
  BY DEF event_progress, record_runtime_observation
<1>3. c[1] = "running"
  BY <1>1, ConfirmedResume DEF Inv
<1>4. \A x \in Actions : act'[x].st # "pending"
  BY <1>1, <1>2, <1>3, ConfirmedRunning
<1>5. Moves(r, a, "running")
  BY <1>2, <1>3 DEF Moves
<1>6. \A b \in Attempts : ~(dec'[b] > 0)
  <2>1. run[r].state \notin {"waiting_for_decision", "cancel_requested"}
    BY <1>1
  <2>2. run[r].state \notin TERMINAL_RUN_STATES \cup {"absent"}
    BY <1>1 DEF TERMINAL_RUN_STATES
  <2> QED  BY <1>1, <2>1, <2>2, OnlyActive
<1>7. \A v \in Dispatchers : ~(disp'[v].pc = "bound" /\ disp'[v].att = a)
  BY <1>1 DEF Inv, DispatchInv, AtMostOneDriver, Executing
<1>8. /\ run[r].state \notin TERMINAL_RUN_STATES \cup {"absent"}
      /\ "running" \in RunStates \ {"absent"} /\ CallsKept
  BY <1>1 DEF TERMINAL_RUN_STATES, RunStates, CallsKept
<1> HIDE DEF r, a
<1> QED  BY <1>1, <1>4, <1>5, <1>6, <1>7, <1>8, StateMove

LEMMA DecisionTables ==
    ASSUME Inv, Tables, NEW w \in Dispatchers, event_decision(w)
    PROVE  Step
<1> DEFINE r == disp[w].run
           a == disp[w].att
<1>1. r \in Runs /\ a \in Attempts /\ disp[w].pc = "stream" /\ Executing(w)
  BY DEF event_decision, Executing, Inv, DispatchInv, DispatchHasRun
<1>2. EndTurn(w) \/ Goto(w, "parked")
  BY DEF event_decision
<1>3. /\ CallsKept
      /\ \A v \in Dispatchers : disp'[v].pc = "bound" => disp'[v].att # a
  <2>1. "parked" \in Phases \ {"bound"}
    BY DEF Phases
  <2> QED  BY <1>1, <1>2, <2>1, MovesOn
<1>4. CASE create_decision(r, a)
  <2>1. run[r].active = a /\ att[a].bound
    BY <1>4 DEF create_decision, IsActive
  <2>2. PICK c \in confirm_runtime_resume_from_event(r, a) :
           c[1] = "running" /\ act' = c[2]
    BY <1>4 DEF create_decision
  <2>3. /\ run[r].state \in {"running", "resuming"}
        /\ \A x \in Actions : act'[x].st # "pending"
    BY <1>1, <2>1, <2>2, ConfirmedRunning
  <2>4. run[r].state \notin TERMINAL_RUN_STATES \cup {"absent"}
    BY <2>3 DEF TERMINAL_RUN_STATES
  <2>5. \A b \in Attempts : ~(dec[b] > 0)
    BY <1>1, <2>3, <2>4, OnlyActive
  <2>6. \A b \in Attempts : dec[b] \in Nat /\ DOMAIN dec = Attempts
    BY ConstantsAssumption DEF Inv, StoreInv, StoreType
  <2>7. dec' = [dec EXCEPT ![a] = @ + 1]
    BY <1>4 DEF create_decision
  <2>8. dec'[a] = 1 /\ \A b \in Attempts : dec'[b] > 0 => b = a
    BY <1>1, <2>5, <2>6, <2>7
  <2>9. Moves(r, a, "waiting_for_decision")
    BY <1>4 DEF create_decision, Moves
  <2>10. "waiting_for_decision" \in RunStates \ {"absent"}
    BY DEF RunStates
  <2> HIDE DEF r, a
  <2> QED  BY <1>1, <1>3, <2>1, <2>3, <2>4, <2>8, <2>9, <2>10, StateMove
<1>5. CASE /\ CanTransition(r, a, run[r].state, "canceled")
           /\ transition_run(r, "canceled", act)
  BY <1>1, <1>3, <1>5, GuardedEnd DEF TERMINAL_RUN_STATES
<1> QED  BY <1>4, <1>5 DEF event_decision

LEMMA CheckpointTables ==
    ASSUME Inv, Tables, NEW w \in Dispatchers, commit_checkpoint(w)
    PROVE  Step
<1> DEFINE r == disp[w].run
           a == disp[w].att
<1>1. /\ r \in Runs /\ a \in Attempts /\ run[r].active = a
      /\ run[r].state \in {"running", "pause_requested"}
      /\ att' = [att EXCEPT ![a].ckpt = TRUE]
      /\ UNCHANGED <<run, dec, act>> /\ CallsKept
  BY DEF commit_checkpoint, IsActive, local, CallsKept, Inv, DispatchInv,
         DispatchHasRun
<1>2. att[a].run = r
  BY <1>1 DEF Tables, RunRows
<1>3. \A b \in Attempts : att[b] \in AttemptRecords
  BY DEF Inv, StoreInv, StoreType
<1>4. \A b \in Attempts :
         /\ att'[b].run = att[b].run /\ att'[b].state = att[b].state
         /\ att'[b].bound = att[b].bound /\ att'[b].lineage = att[b].lineage
         /\ att'[b].owner = att[b].owner
         /\ b # a => att'[b] = att[b]
  BY <1>1, <1>3 DEF AttemptRecords, Inv, StoreInv, StoreType
<1>5. \A b \in Attempts : b # a => LeaseOnly(b)
  BY <1>3, <1>4 DEF LeaseOnly, AttemptRecords
<1>6. NoNewActions
  BY <1>1 DEF NoNewActions
<1> HIDE DEF r, a
<1>7. \A b \in Attempts :
         /\ att'[b].run = att[b].run /\ att'[b].state = att[b].state
         /\ att'[b].bound = att[b].bound
         /\ att'[b].lineage = att[b].lineage
         /\ att'[b].owner = att[b].owner \/ att[b].state # "failed"
         /\ \/ LeaseOnly(b)
            \/ att[b].run \in Runs /\ run[att[b].run].active = b
  BY <1>1, <1>2, <1>4, <1>5
<1> QED  BY <1>1, <1>6, <1>7, Quiet

LEMMA AfterBindingTables ==
    ASSUME Inv, Tables, NEW w \in Dispatchers,
           \/ start_attempt(w) \/ fail_after_binding(w) \/ event_started(w)
           \/ event_progress(w) \/ event_decision(w) \/ stream_ends_parked(w)
           \/ \E e \in TERMINAL_RUN_STATES : event_terminal(w, e)
           \/ commit_checkpoint(w) \/ event_paused(w)
           \/ end_quiet_after_control(w) \/ turn_timeout(w) \/ end_timed_out(w)
    PROVE  Step
<1> DEFINE r == disp[w].run
           a == disp[w].att
<1>0. /\ disp[w].pc # "idle" => r \in Runs /\ a \in Attempts
      /\ act \in [Actions -> ActionRecords]
  BY DEF Inv, StoreInv, StoreType, DispatchInv, DispatchHasRun
<1>p. {"execute", "stream", "timedout"} \subseteq Phases \ {"bound"}
  BY DEF Phases
<1>c. EndTurn(w) => CallsKept
  BY MovesOn
<1>1. CASE start_attempt(w)
  <2>1. disp[w].pc = "bound" /\ Executing(w)
    BY <1>1 DEF start_attempt, Executing
  <2> QED  BY <1>0, <1>1, <1>p, <2>1, RunGoesOn DEF start_attempt
<1>2. CASE fail_after_binding(w)
  <2>1. disp[w].pc # "idle" /\ CallsKept
    BY <1>2, <1>c DEF fail_after_binding
  <2>2. {"failed", "canceled"} \subseteq TERMINAL_RUN_STATES
    BY DEF TERMINAL_RUN_STATES
  <2>3. \/ UNCHANGED store
        \/ \E t \in TERMINAL_RUN_STATES :
              CanTransition(r, a, run[r].state, t) /\ transition_run(r, t, act)
    BY <1>2, <2>2 DEF fail_after_binding
  <2>4. CASE UNCHANGED store
    BY <2>1, <2>4, StoreKept DEF store
  <2> HIDE DEF r, a
  <2> QED  BY <1>0, <2>1, <2>3, <2>4, GuardedEnd DEF r
<1>3. CASE event_started(w)
  <2>1. disp[w].pc = "execute" /\ Executing(w)
    BY <1>3 DEF event_started, Executing
  <2>2. CASE /\ CanTransition(r, a, run[r].state, "canceled")
             /\ transition_run(r, "canceled", act) /\ EndTurn(w)
    BY <1>0, <1>c, <2>1, <2>2, GuardedEnd DEF TERMINAL_RUN_STATES
  <2>3. CASE /\ run[r].state # "resuming"
             /\ CanTransition(r, a, run[r].state, "running")
             /\ transition_run(r, "running", act) /\ Goto(w, "stream")
    BY <1>0, <1>p, <2>1, <2>3, RunGoesOn
  <2> QED  BY <1>3, <2>2, <2>3 DEF event_started
<1>4. CASE stream_ends_parked(w)
  BY <1>4, <1>c, StoreKept DEF stream_ends_parked, store
<1>5. ASSUME NEW e \in TERMINAL_RUN_STATES, event_terminal(w, e)
      PROVE  Step
  <2>1. disp[w].pc # "idle" /\ CallsKept
    BY <1>5, <1>c DEF event_terminal
  <2>2. PICK c \in confirm_runtime_resume_from_event(r, a) :
           /\ CanTransition(r, a, c[1], TerminalTarget(c[1], e))
           /\ transition_run(r, TerminalTarget(c[1], e), c[2])
    BY <1>5 DEF event_terminal
  <2>3. TerminalTarget(c[1], e) \in TERMINAL_RUN_STATES
    BY DEF TerminalTarget, TERMINAL_RUN_STATES
  <2> HIDE DEF r, a
  <2> QED  BY <1>0, <2>1, <2>2, <2>3, RunEnds DEF r
<1>6. CASE event_paused(w)
  <2>1. disp[w].pc = "stream" /\ Executing(w)
    BY <1>6 DEF event_paused, Executing
  <2> QED  BY <1>0, <1>6, <2>1, RunGoesOn DEF event_paused
<1>7. CASE end_quiet_after_control(w)
  <2>1. disp[w].pc # "idle" /\ CallsKept
    BY <1>7, <1>c DEF end_quiet_after_control
  <2>2. end_converging(r) \/ UNCHANGED store
    BY <1>7 DEF end_quiet_after_control
  <2> QED  BY <1>0, <2>1, <2>2, EndConvergingTables, StoreKept DEF store
<1>8. CASE turn_timeout(w)
  <2>1. CallsKept
    BY <1>8, <1>p, MovesOn DEF turn_timeout
  <2> QED  BY <1>8, <2>1, StoreKept DEF turn_timeout, store
<1>9. CASE end_timed_out(w)
  <2>1. disp[w].pc # "idle" /\ CallsKept
    BY <1>9, <1>c DEF end_timed_out
  <2>2. CASE UNCHANGED store
    BY <2>1, <2>2, StoreKept DEF store
  <2>3. CASE /\ run[r].state \in {"running", "starting"}
             /\ att[run[r].active].bound /\ transition_run(r, "failed", act)
    <3>1. run[r].state \notin TERMINAL_RUN_STATES \cup {"absent"}
      BY <2>3 DEF TERMINAL_RUN_STATES
    <3>2. "failed" \in TERMINAL_RUN_STATES
      BY DEF TERMINAL_RUN_STATES
    <3> HIDE DEF r
    <3> QED  BY <1>0, <2>1, <2>3, <3>1, <3>2, TransitionTables DEF r
  <2> QED  BY <1>9, <2>2, <2>3 DEF end_timed_out
<1> QED  BY <1>1, <1>2, <1>3, <1>4, <1>5, <1>6, <1>7, <1>8, <1>9,
            ProgressTables, DecisionTables, CheckpointTables

\* The turn bridge.
LEMMA ConvergeStalledTables ==
    ASSUME Inv, Tables, CallsKept, NEW r \in Runs, converge_stalled(r)
    PROVE  Step
BY FailUnboundTables, EndConvergingTables DEF converge_stalled

LEMMA BridgeTables ==
    ASSUME Inv, Tables, NEW r \in Runs,
           abandon(r) \/ sweep_stalled(r) \/ refuse_undriven(r)
    PROVE  Step
<1>1. CallsKept
  BY DEF abandon, sweep_stalled, refuse_undriven, local, CallsKept
<1>2. CASE abandon(r)
  <2>1. "failed" \in TERMINAL_RUN_STATES
    BY DEF TERMINAL_RUN_STATES
  <2>2. CASE /\ CanTransition(r, run[r].active, run[r].state, "failed")
             /\ transition_run(r, "failed", act)
    BY <1>1, <2>1, <2>2, GuardedEnd
  <2>3. CASE end_converging(r)
    BY <1>1, <2>3, EndConvergingTables
  <2>4. CASE UNCHANGED store
    BY <1>1, <2>4, StoreKept DEF store
  <2> QED  BY <1>2, <2>2, <2>3, <2>4 DEF abandon
<1>3. CASE sweep_stalled(r)
  <2>1. converge_stalled(r) \/ UNCHANGED store
    BY <1>3 DEF sweep_stalled
  <2> QED  BY <1>1, <2>1, ConvergeStalledTables, StoreKept DEF store
<1>4. CASE refuse_undriven(r)
  BY <1>1, <1>4, FailUnboundTables DEF refuse_undriven
<1> QED  BY <1>2, <1>3, <1>4

\* The delivery of actions.
LEMMA QueueKept ==
    ASSUME Inv, Tables, UNCHANGED <<run, att, dec>>, CallsKept, NoNewActions
    PROVE  Step
<1>1. \A b \in Attempts : LeaseOnly(b)
  BY DEF LeaseOnly, Inv, StoreInv, StoreType, AttemptRecords
<1> QED  BY <1>1, Quiet

\* A row of the queue is rewritten, and stays as it is or is settled.
LEMMA OneRow ==
    ASSUME NEW x \in Actions, NEW rec, DOMAIN act = Actions,
           Queues(act, x, rec),
           rec.st = "pending" => rec.kind = act[x].kind /\ rec.att = act[x].att,
           act[x].st = "pending"
    PROVE  /\ NoNewActions
           /\ \A y \in Actions : act'[y] = IF y = x THEN rec ELSE act[y]
BY DEF Queues, NoNewActions

LEMMA SettledMove ==
    ASSUME Inv, Tables, CallsKept, NEW x \in Actions, act[x].st = "pending",
           act[x].kind \in {"resolve", "pause"}, NEW t \in {"running", "failed"},
           Moves(RunOf(x), act[x].att, t), NoNewActions,
           act'[x].st # "pending", UNCHANGED dec
    PROVE  Step
<1> DEFINE r == RunOf(x)
           a == act[x].att
<1>1. /\ a \in Attempts /\ att[a].run = r /\ att[a].bound /\ run[r].active = a
      /\ run[r].state = ActionState[act[x].kind]
      /\ \A y \in Actions : act[y].st = "pending" => y = x
  BY DEF Tables, ActionRows, RunOf, Inv, StoreInv, StoreType, ActionRecords
<1>2. r \in Runs
  BY <1>1, BoundHasRun
<1>3. run[r].state \in {"resuming", "pause_requested"}
  BY <1>1 DEF ActionState, Kinds
<1>4. /\ run[r].state \notin TERMINAL_RUN_STATES \cup {"absent"}
      /\ run[r].state \notin {"waiting_for_decision", "cancel_requested"}
  BY <1>3 DEF TERMINAL_RUN_STATES
<1>5. att[a].state = run[r].state /\ \A b \in Attempts : ~(dec[b] > 0)
  BY <1>2, <1>4, OnlyActive
<1>6. \A y \in Actions : act'[y].st # "pending"
  BY <1>1 DEF NoNewActions
<1>7. \A w \in Dispatchers : ~(disp'[w].pc = "bound" /\ disp'[w].att = a)
  <2> SUFFICES ASSUME NEW w \in Dispatchers, disp'[w].pc = "bound",
                      disp'[w].att = a
               PROVE  FALSE
    OBVIOUS
  <2>1. disp[w].pc = "bound" /\ disp[w].att = a
    BY DEF CallsKept
  <2>2. att[a].state \in BOUND_STATES /\ act[x].kind # "resolve"
    BY <2>1 DEF Tables, BoundCalls
  <2>3. att[a].state = "pause_requested"
    BY <1>1, <1>5, <2>2 DEF ActionState, Kinds
  <2> QED  BY <2>2, <2>3 DEF BOUND_STATES, DISPATCHABLE_RUN_STATES,
                             TERMINAL_RUN_STATES
<1>8. t \in RunStates \ {"absent"} /\ t # "waiting_for_decision"
  BY DEF RunStates
<1>9. Moves(r, a, t)
  OBVIOUS
<1> HIDE DEF r, a
<1> QED  BY <1>1, <1>2, <1>4, <1>5, <1>6, <1>7, <1>8, <1>9, StateMove

LEMMA SettleTables ==
    ASSUME Inv, Tables, NEW x \in Actions,
           \/ acknowledge_runtime_action(x) \/ reject_runtime_action(x)
           \/ fail_runtime_action(x)
    PROVE  Step
<1> DEFINE r == RunOf(x)
           a == act[x].att
<1>0. /\ act[x] \in ActionRecords /\ DOMAIN act = Actions
      /\ run \in [Runs -> [state : RunStates, active : 0..MaxAttempts]]
  BY DEF Inv, StoreInv, StoreType
<1>1. /\ act[x].st = "pending" /\ CallsKept /\ dec' = dec
  BY DEF acknowledge_runtime_action, reject_runtime_action, Claimed, CallsKept,
         fail_runtime_action, SettleAction, local
<1>2. PICK st \in {"acked", "failed"} :
         act' = [act EXCEPT ![x].st = st, ![x].out = "ready"]
  BY DEF acknowledge_runtime_action, reject_runtime_action, fail_runtime_action,
         SettleAction
<1> DEFINE rec == [act[x] EXCEPT !.st = st, !.out = "ready"]
<1>3. Queues(act, x, rec)
  BY <1>2 DEF Queues
<1>4. rec.st = st
  BY <1>0 DEF ActionRecords
<1> HIDE DEF rec
<1>5. NoNewActions /\ act'[x].st # "pending"
  BY <1>0, <1>1, <1>3, <1>4, OneRow
<1>6. ASSUME run' = [run EXCEPT ![r].state = run[r].state], att' = att
      PROVE  Step
  <2>1. run' = run
    BY <1>0, <1>6
  <2> QED  BY <1>1, <1>5, <1>6, <2>1, QueueKept
<1>7. CASE acknowledge_runtime_action(x)
  <2>1. CASE act[x].kind = "resolve" /\ run[r].state = "resuming"
    <3>1. Moves(RunOf(x), act[x].att, "running")
      BY <1>7, <2>1 DEF acknowledge_runtime_action, SettleAction, Moves
    <3> QED  BY <1>1, <1>5, <2>1, <3>1, SettledMove
  <2>2. CASE ~(act[x].kind = "resolve" /\ run[r].state = "resuming")
    BY <1>6, <1>7, <2>2 DEF acknowledge_runtime_action, SettleAction
  <2> QED  BY <2>1, <2>2
<1>8. CASE reject_runtime_action(x)
  <2>1. CASE act[x].kind = "pause" /\ run[r].state = "pause_requested"
    <3>1. Moves(RunOf(x), act[x].att, "running")
      BY <1>8, <2>1 DEF reject_runtime_action, SettleAction, Moves
    <3> QED  BY <1>1, <1>5, <2>1, <3>1, SettledMove
  <2>2. CASE ~(act[x].kind = "pause" /\ run[r].state = "pause_requested")
    BY <1>6, <1>8, <2>2 DEF reject_runtime_action, SettleAction
  <2> QED  BY <2>1, <2>2
<1>9. CASE fail_runtime_action(x)
  <2>1. Moves(RunOf(x), act[x].att, "failed") /\ act[x].kind = "resolve"
    BY <1>9 DEF fail_runtime_action, Moves
  <2> QED  BY <1>1, <1>5, <2>1, SettledMove
<1> QED  BY <1>7, <1>8, <1>9

LEMMA WithoutClaimsKeeps ==
    ASSUME NEW x \in Actions, act[x] \in ActionRecords
    PROVE  /\ WithoutClaims(act)[x].st = act[x].st
           /\ WithoutClaims(act)[x].kind = act[x].kind
           /\ WithoutClaims(act)[x].att = act[x].att
<1> DEFINE o == IF act[x].out = "claimed" THEN "ready"
                ELSE IF act[x].out = "reconcile" THEN "outcome_unknown"
                ELSE act[x].out
<1>1. WithoutClaims(act)[x] = [act[x] EXCEPT !.out = o]
  BY DEF WithoutClaims
<1> HIDE DEF o
<1> QED  BY <1>1 DEF ActionRecords

LEMMA DeliveryTables ==
    ASSUME Inv, Tables, NEW x \in Actions,
           \/ claim_runtime_action(x) \/ runtime_accepts(x)
           \/ acknowledge_runtime_action(x) \/ reject_runtime_action(x)
           \/ fail_runtime_action(x) \/ mark_runtime_action_outcome_unknown(x)
           \/ claim_runtime_action_reconciliation(x)
           \/ retry_runtime_action_delivery(x)
           \/ defer_runtime_action_reconciliation(x) \/ claim_expires(x)
    PROVE  Step
<1>0. act[x] \in ActionRecords /\ DOMAIN act = Actions
  BY DEF Inv, StoreInv, StoreType
<1>1. ASSUME NEW rec, Queues(act, x, rec), act[x].st = "pending",
             rec.kind = act[x].kind /\ rec.att = act[x].att,
             UNCHANGED <<run, att, dec>>, CallsKept
      PROVE  Step
  BY <1>0, <1>1, OneRow, QueueKept
<1>2. CASE claim_runtime_action(x) \/ claim_runtime_action_reconciliation(x)
  <2>1. PICK o \in {"claimed", "reconcile"} :
           Queues(act, x, [act[x] EXCEPT !.out = o, !.exact = FALSE])
    BY <1>2 DEF claim_runtime_action, claim_runtime_action_reconciliation, Queues
  <2> DEFINE rec == [act[x] EXCEPT !.out = o, !.exact = FALSE]
  <2>2. rec.kind = act[x].kind /\ rec.att = act[x].att
    BY <1>0 DEF ActionRecords
  <2>3. act[x].st = "pending" /\ UNCHANGED <<run, att, dec>> /\ CallsKept
    BY <1>2 DEF claim_runtime_action, claim_runtime_action_reconciliation, local,
                CallsKept
  <2>4. Queues(act, x, rec)
    BY <2>1
  <2> HIDE DEF rec
  <2> QED  BY <1>1, <2>2, <2>3, <2>4
<1>3. CASE \/ mark_runtime_action_outcome_unknown(x)
           \/ retry_runtime_action_delivery(x)
           \/ defer_runtime_action_reconciliation(x)
  <2>1. PICK o \in {"outcome_unknown", "ready"} :
           Queues(act, x, [act[x] EXCEPT !.out = o])
    BY <1>3 DEF mark_runtime_action_outcome_unknown, Act, Queues,
                retry_runtime_action_delivery, defer_runtime_action_reconciliation
  <2> DEFINE rec == [act[x] EXCEPT !.out = o]
  <2>2. rec.kind = act[x].kind /\ rec.att = act[x].att
    BY <1>0 DEF ActionRecords
  <2>3. act[x].st = "pending" /\ UNCHANGED <<run, att, dec>> /\ CallsKept
    BY <1>3 DEF mark_runtime_action_outcome_unknown, local, CallsKept,
                retry_runtime_action_delivery, defer_runtime_action_reconciliation
  <2>4. Queues(act, x, rec)
    BY <2>1
  <2> HIDE DEF rec
  <2> QED  BY <1>1, <2>2, <2>3, <2>4
<1>4. CASE claim_expires(x)
  <2>1. Queues(act, x, WithoutClaims(act)[x])
    BY <1>4 DEF claim_expires, Queues
  <2>2. act[x].st = "pending" /\ UNCHANGED <<run, att, dec>> /\ CallsKept
    BY <1>4 DEF claim_expires, Claimed, local, CallsKept
  <2> QED  BY <1>0, <1>1, <2>1, <2>2, WithoutClaimsKeeps
<1>5. CASE runtime_accepts(x)
  <2> DEFINE rec == [act[x] EXCEPT !.acc = TRUE, !.exact = ~act[x].acc]
  <2>1. Queues(act, x, rec)
    BY <1>5 DEF runtime_accepts, Queues
  <2>2. rec.kind = act[x].kind /\ rec.att = act[x].att
    BY <1>0 DEF ActionRecords
  <2>3. act[x].st = "pending" /\ UNCHANGED <<run, att, dec>>
    BY <1>5 DEF runtime_accepts
  <2>4. PICK w \in Dispatchers, pc \in {"stream", "parked"} :
           disp' = [disp EXCEPT ![w].pc = pc]
    BY <1>5 DEF runtime_accepts, Live
  <2>5. CallsKept
    BY <2>4 DEF CallsKept, Inv, LocalType
  <2> HIDE DEF rec
  <2> QED  BY <1>1, <2>1, <2>2, <2>3, <2>5
<1> QED  BY <1>2, <1>3, <1>4, <1>5, SettleTables

\* Pin releases, leases, a crash: no row changes its state.
LEMMA LeasesKept ==
    ASSUME Inv, Tables, UNCHANGED <<run, dec>>, CallsKept, NoNewActions,
           \A b \in Attempts : LeaseOnly(b)
    PROVE  Step
<1>1. \A b \in Attempts : att[b] \in AttemptRecords
  BY DEF Inv, StoreInv, StoreType
<1>2. \A b \in Attempts :
         /\ att'[b].run = att[b].run /\ att'[b].state = att[b].state
         /\ att'[b].bound = att[b].bound /\ att'[b].lineage = att[b].lineage
         /\ att'[b].owner = att[b].owner
  BY <1>1 DEF LeaseOnly, AttemptRecords
<1> QED  BY <1>2, Quiet

LEMMA PinsTables ==
    ASSUME Inv, Tables, NEW a \in Attempts,
           \/ claim_pin_release(a) \/ finish_attempt(a)
           \/ acknowledge_pin_release(a) \/ fail_pin_release(a)
           \/ retry_pin_release(a) \/ release_claim_expires(a)
           \/ dispatch_lease_expires(a)
    PROVE  Step
<1>1. CASE dispatch_lease_expires(a)
  <2>1. \A b \in Attempts : LeaseOnly(b)
    <3>1. att' = [att EXCEPT ![a].leased = FALSE]
      BY <1>1 DEF dispatch_lease_expires
    <3>2. \A b \in Attempts : b # a => att'[b] = att[b]
      BY <3>1 DEF Inv, StoreInv, StoreType
    <3>3. att'[a] = [att[a] EXCEPT !.leased = FALSE]
      BY <3>1 DEF Inv, StoreInv, StoreType
    <3>4. \A b \in Attempts : att[b] \in AttemptRecords
      BY DEF Inv, StoreInv, StoreType
    <3>5. LeaseOnly(a)
      BY <3>3, <3>4 DEF LeaseOnly, AttemptRecords
    <3>6. \A b \in Attempts : b # a => LeaseOnly(b)
      BY <3>2, <3>4 DEF LeaseOnly, AttemptRecords
    <3> QED  BY <3>5, <3>6
  <2>2. UNCHANGED <<run, dec>> /\ CallsKept /\ NoNewActions
    BY <1>1 DEF dispatch_lease_expires, local, CallsKept, NoNewActions
  <2> QED  BY <2>1, <2>2, LeasesKept
<1>2. CASE ~dispatch_lease_expires(a)
  <2>1. UNCHANGED <<run, att, dec, act>> /\ CallsKept
    BY <1>2 DEF claim_pin_release, acknowledge_pin_release, fail_pin_release,
                retry_pin_release, release_claim_expires, SettleRelease,
                finish_attempt, store, local, CallsKept
  <2> QED  BY <2>1, StoreKept
<1> QED  BY <1>1, <1>2

LEMMA CrashTables ==
    ASSUME Inv, Tables, crash
    PROVE  Step
<1>1. UNCHANGED <<run, dec>>
  BY DEF crash
<1>2. CallsKept
  BY DEF crash, CallsKept, Idle
<1>3. NoNewActions
  <2>1. \A x \in Actions : act[x] \in ActionRecords
    BY DEF Inv, StoreInv, StoreType
  <2>2. act' = WithoutClaims(act)
    BY DEF crash
  <2> QED  BY <2>1, <2>2, WithoutClaimsKeeps DEF NoNewActions
<1>4. \A b \in Attempts : LeaseOnly(b)
  <2> TAKE b \in Attempts
  <2>1. att'[b] = [att[b] EXCEPT !.leased = FALSE]
    BY DEF crash
  <2>2. att[b] \in AttemptRecords
    BY DEF Inv, StoreInv, StoreType
  <2> QED  BY <2>1, <2>2 DEF LeaseOnly, AttemptRecords
<1> QED  BY <1>1, <1>2, <1>3, <1>4, LeasesKept

\* A recovery pass, run by run.
LEMMA RecoverTables ==
    ASSUME Inv, Tables, NEW r \in Runs,
           \/ recover_sweep(r) \/ recover_unbound(r) \/ recover_manual(r)
           \/ recover_bound_inactive(r) \/ defer_recoverable(r)
    PROVE  Step
<1>1. CallsKept
  BY DEF recover_sweep, recover_unbound, recover_manual, Recovered,
         recover_bound_inactive, defer_recoverable, CallsKept
<1>2. CASE recover_sweep(r)
  BY <1>1, <1>2, ConvergeStalledTables DEF recover_sweep
<1>3. CASE recover_unbound(r)
  <2>1. CASE UNCHANGED store
    BY <1>1, <2>1, StoreKept DEF store
  <2>2. CASE CanFailUnbound(r, run[r].active) /\ fail_unbound_run(r)
    BY <1>1, <2>2, FailUnboundTables
  <2> QED  BY <1>3, <2>1, <2>2 DEF recover_unbound
<1>4. CASE recover_manual(r)
  BY <1>1, <1>4, StoreKept DEF recover_manual, store
<1>5. CASE recover_bound_inactive(r) \/ defer_recoverable(r)
  <2>1. {"failed", "canceled"} \subseteq TERMINAL_RUN_STATES
    BY DEF TERMINAL_RUN_STATES
  <2>2. \E t \in TERMINAL_RUN_STATES :
           /\ CanTransition(r, run[r].active, run[r].state, t)
           /\ transition_run(r, t, act)
    BY <1>5, <2>1 DEF recover_bound_inactive, defer_recoverable
  <2> QED  BY <1>1, <2>2, GuardedEnd
<1> QED  BY <1>2, <1>3, <1>4, <1>5

-----------------------------------------------------------------------------
(* The specification.                                                       *)

LEMMA InitTables == Init => Tables
<1> SUFFICES ASSUME Init PROVE Tables
  OBVIOUS
<1>1. \A r \in Runs : run[r].state = "absent" /\ run[r].active = 0
  BY DEF Init
<1>2. 0 \notin Attempts
  BY ConstantsAssumption DEF Attempts
<1>3. \A a \in Attempts : /\ att[a].state = "absent" /\ att[a].run = None
                          /\ att[a].lineage = {} /\ ~att[a].bound
  BY DEF Init, NewAttempt
<1>4. /\ \A x \in Actions : act[x].st # "pending"
      /\ \A a \in Attempts : ~(dec[a] > 0)
      /\ \A w \in Dispatchers : disp[w].pc # "bound"
  BY DEF Init, NoAction, Idle
<1>5. RunRows /\ RunExists
  BY <1>1, <1>2 DEF RunRows, RunExists
<1>6. AttemptRows /\ UnboundRows
  BY <1>3 DEF AttemptRows, UnboundRows
<1>7. ActionRows /\ DecisionRows /\ BoundCalls
  BY <1>1, <1>4 DEF ActionRows, DecisionRows, BoundCalls
<1> QED  BY <1>5, <1>6, <1>7 DEF Tables

LEMMA NextTables ==
    ASSUME Inv, Tables, [Next]_vars
    PROVE  Step
<1>1. CASE Operator
  BY <1>1, OperatorTables
<1>2. ASSUME NEW w \in Dispatchers, Dispatch(w)
      PROVE  Step
  BY <1>2, BeforeBindingTables, AfterBindingTables DEF Dispatch
<1>3. CASE Bridge
  BY <1>3, BridgeTables DEF Bridge
<1>4. CASE Delivery
  BY <1>4, DeliveryTables
     DEF Delivery, deliver_runtime_action, reconcile_runtime_action
<1>5. CASE Pins
  BY <1>5, PinsTables DEF Pins, deliver_pending_pin_releases
<1>6. CASE Recovery
  <2>1. CASE recover
    BY <2>1, StoreKept DEF recover, store, CallsKept
  <2> QED  BY <1>6, <2>1, CrashTables, RecoverTables DEF Recovery
<1>7. CASE UNCHANGED vars
  BY <1>7, StoreKept DEF vars, CallsKept
<1> QED  BY <1>1, <1>2, <1>3, <1>4, <1>5, <1>6, <1>7 DEF Next

LEMMA TablesNext == Inv /\ Tables /\ [Next]_vars => Tables'
BY NextTables DEF Step

LEMMA TablesHold == Spec => [](Inv /\ Tables)
<1>1. Init => Inv /\ Tables
  BY InitInv, InitTables
<1>2. Inv /\ Tables /\ [Next]_vars => (Inv /\ Tables)'
  BY NextInv, TablesNext
<1> QED  BY <1>1, <1>2, PTL DEF Spec

\* The run row and the row of its active attempt agree after every command,
\* event, sweep, expiry, crash and recovery, whichever of the ten writers of
\* store.py moved them: no writer moves one row and forgets the other.
THEOREM RowsAgree == Spec => []AttemptTracksRun
<1>1. Tables => AttemptTracksRun
  BY DEF Tables, RunRows, AttemptTracksRun
<1> QED  BY <1>1, TablesHold, PTL

\* A queued operator action is deliverable: it names the run's active, bound
\* attempt, the run is in the state it was queued for, and there is no other.
THEOREM ActionsDeliverable == Spec => []ActionMatchesState
<1>1. Inv /\ Tables => ActionMatchesState
  BY DEF Inv, StoreInv, StoreType, ActionRecords, Tables, ActionRows, RunOf,
         IsActive, ActionMatchesState
<1> QED  BY <1>1, TablesHold, PTL

\* A pending decision is asked by the active attempt of a run that waits for
\* it or is being canceled, and a waiting run waits for exactly one.
THEOREM DecisionsOwned == Spec => []DecisionOwned
<1>1. Tables => DecisionOwned
  BY DEF Tables, DecisionRows, IsActive, DecisionOwned
<1> QED  BY <1>1, TablesHold, PTL

\* A late event, answer, expiry or recovery writes nothing but a lease into
\* the row of an attempt that was superseded.
THEOREM SupersededIsFrozen == Spec => SupersededFrozen
<1>1. Inv /\ Tables /\ [Next]_vars =>
         \A a \in Attempts :
            (att[a].run # None /\ run[att[a].run].active # a) =>
               att'[a] = [att[a] EXCEPT !.leased = att'[a].leased]
               \/ run'[att[a].run].active = a
  <2> SUFFICES ASSUME Inv, Tables, [Next]_vars, NEW a \in Attempts,
                      att[a].run # None, run[att[a].run].active # a
               PROVE  LeaseOnly(a)
    BY DEF LeaseOnly
  <2>1. att[a].state # "absent"
    BY DEF Tables, AttemptRows
  <2>2. OnlyActiveMoves
    BY NextTables DEF Step
  <2> QED  BY <2>1, <2>2 DEF OnlyActiveMoves
<1> QED  BY <1>1, TablesHold, PTL DEF Spec, SupersededFrozen

\* An attempt that completed, failed or was canceled stays so, however late
\* an event, an acknowledgement or a recovery pass arrives for it.
THEOREM EndedIsForever == Spec => EndedStaysEnded
<1>1. Inv /\ Tables /\ [Next]_vars =>
         \A a \in Attempts : att[a].state \in TERMINAL_RUN_STATES =>
            att'[a].state = att[a].state
  BY NextTables DEF Step, NoneRevives
<1> QED  BY <1>1, TablesHold, PTL DEF Spec, EndedStaysEnded

-----------------------------------------------------------------------------
(* The updater's pins.  What a step may do to the rows and to the pins for  *)
(* PinInv to stay: StopKept, ReleaseKept and BoundSame (Kept) of the rows,  *)
(* PinsKept of the pins and of the calls that took one.                     *)

StopStates == {"paused", "cancel_requested"}

\* An attempt that is stopped or paused only ends, and keeps its checkpoint.
StopKept ==
    \A b \in Attempts : att[b].state \in StopStates =>
        /\ att'[b].state \in StopStates \cup TERMINAL_RUN_STATES
        /\ att[b].ckpt => att'[b].ckpt

\* A release row stays, and is written for whom ReleaseRows allows it.
ReleaseKept ==
    \A b \in Attempts :
       /\ rel[b] # "none" => rel'[b] # "none"
       /\ rel'[b] # "none" =>
             \/ rel[b] # "none"
             \/ att'[b].state \in TERMINAL_RUN_STATES
             \/ att'[b].ckpt /\ att'[b].state \in StopStates

BoundSame == \A b \in Attempts : att'[b].bound => att[b].bound

Kept == StopKept /\ ReleaseKept /\ BoundSame

PinsKept ==
    /\ pins \subseteq pins'
    /\ \A w \in Dispatchers : disp'[w].pc = "pinned" =>
          disp[w].pc = "pinned" /\ disp'[w].att = disp[w].att

\* The release rows alone.
LEMMA ReleaseRowsKept ==
    ASSUME Inv, Tables, Step, PinInv, StopKept, ReleaseKept
    PROVE  ReleaseRows'
<1> SUFFICES ASSUME NEW b \in Attempts, rel'[b] # "none"
             PROVE  \/ att'[b].state \in TERMINAL_RUN_STATES
                    \/ att'[b].ckpt /\ att'[b].state \in StopStates
  BY DEF ReleaseRows, Checkpointed, StopStates
<1>1. CASE rel[b] = "none"
  BY <1>1 DEF ReleaseKept
<1>2. CASE rel[b] # "none" /\ att[b].state \in TERMINAL_RUN_STATES
  BY <1>2 DEF Step, NoneRevives
<1>3. CASE rel[b] # "none" /\ Checkpointed(b)
  BY <1>3 DEF StopKept, Checkpointed, StopStates
<1> QED  BY <1>1, <1>2, <1>3 DEF PinInv, ReleaseRows

LEMMA PinStep ==
    ASSUME Inv, Tables, Step, PinInv, Kept, PinsKept
    PROVE  PinInv'
<1>1. ReleaseRows'
  BY ReleaseRowsKept DEF Kept
<1>2. \A b \in Attempts : att'[b].bound => b \in pins' \/ rel'[b] # "none"
  BY DEF Kept, BoundSame, ReleaseKept, PinsKept, PinInv, PinRows
<1>3. \A w \in Dispatchers : disp'[w].pc = "pinned" =>
         disp'[w].att \in pins' \/ rel'[disp'[w].att] # "none"
  <2> SUFFICES ASSUME NEW w \in Dispatchers, disp'[w].pc = "pinned"
               PROVE  disp'[w].att \in pins' \/ rel'[disp'[w].att] # "none"
    OBVIOUS
  <2>1. disp[w].pc = "pinned" /\ disp'[w].att = disp[w].att
    BY DEF PinsKept
  <2>2. disp[w].att \in Attempts
    BY <2>1 DEF Inv, DispatchInv, DispatchHasRun
  <2> QED  BY <2>1, <2>2 DEF PinsKept, Kept, ReleaseKept, PinInv, PinRows
<1> QED  BY <1>1, <1>2, <1>3 DEF PinInv, PinRows

\* The shapes of a write to the rows.
LEMMA SameKept ==
    ASSUME \A b \in Attempts :
              /\ att'[b].state = att[b].state /\ att'[b].bound = att[b].bound
              /\ att[b].ckpt => att'[b].ckpt
              /\ rel'[b] = "none" <=> rel[b] = "none"
    PROVE  Kept
BY DEF Kept, StopKept, ReleaseKept, BoundSame

LEMMA StoreSameKept ==
    ASSUME UNCHANGED <<att, rel>>
    PROVE  Kept
BY SameKept

LEMMA LeaseSameKept ==
    ASSUME Inv, UNCHANGED rel, \A b \in Attempts : LeaseOnly(b)
    PROVE  Kept
<1>1. \A b \in Attempts : att[b] \in AttemptRecords
  BY DEF Inv, StoreInv, StoreType
<1>2. \A b \in Attempts : /\ att'[b].state = att[b].state
                          /\ att'[b].bound = att[b].bound
                          /\ att'[b].ckpt = att[b].ckpt
  BY <1>1 DEF LeaseOnly, AttemptRecords
<1> QED  BY <1>2, SameKept

\* The state of one attempt moves.
MovesAttempt(a, t) == att' = [att EXCEPT ![a].state = t]

LEMMA MoveRow ==
    ASSUME Inv, NEW a \in Attempts, NEW t, MovesAttempt(a, t)
    PROVE  \A b \in Attempts :
              /\ att'[b].bound = att[b].bound /\ att'[b].ckpt = att[b].ckpt
              /\ att'[b].identity = att[b].identity
              /\ att'[b].state = IF b = a THEN t ELSE att[b].state
<1>1. DOMAIN att = Attempts /\ \A b \in Attempts : att[b] \in AttemptRecords
  BY DEF Inv, StoreInv, StoreType
<1>2. att'[a] = [att[a] EXCEPT !.state = t]
  BY <1>1 DEF MovesAttempt
<1>3. \A b \in Attempts : b # a => att'[b] = att[b]
  BY <1>1 DEF MovesAttempt
<1> QED  BY <1>1, <1>2, <1>3 DEF AttemptRecords

LEMMA MovesKept ==
    ASSUME Inv, NEW r, NEW a \in Attempts, NEW t, Moves(r, a, t), UNCHANGED rel,
           att[a].state \in StopStates => t \in StopStates \cup TERMINAL_RUN_STATES
    PROVE  Kept
<1>1. \A b \in Attempts :
         /\ att'[b].bound = att[b].bound /\ att'[b].ckpt = att[b].ckpt
         /\ att'[b].state = IF b = a THEN t ELSE att[b].state
  <2>1. MovesAttempt(a, t)
    BY DEF Moves, MovesAttempt
  <2> QED  BY <2>1, MoveRow
<1> QED  BY <1>1 DEF Kept, StopKept, ReleaseKept, BoundSame

LEMMA InsertReleaseRow ==
    ASSUME Inv, NEW R \in [Attempts -> ReleaseStates], NEW a \in Attempts,
           NEW b \in Attempts
    PROVE  /\ b # a => insert_pin_release(R, a)[b] = R[b]
           /\ R[b] # "none" => insert_pin_release(R, a)[b] = R[b]
BY DEF insert_pin_release

LEMMA TransitionKept ==
    ASSUME Inv, NEW r \in Runs, NEW t, NEW A, run[r].active \in Attempts,
           transition_run(r, t, A),
           att[run[r].active].state \in StopStates =>
              t \in StopStates \cup TERMINAL_RUN_STATES
    PROVE  Kept
<1> DEFINE a == run[r].active
<1>1. \A b \in Attempts :
         /\ att'[b].bound = att[b].bound /\ att'[b].ckpt = att[b].ckpt
         /\ att'[b].state = IF b = a THEN t ELSE att[b].state
  <2>1. MovesAttempt(a, t)
    BY DEF transition_run, MovesAttempt
  <2> HIDE DEF a
  <2>2. a \in Attempts
    BY DEF a
  <2> QED  BY <2>1, <2>2, MoveRow
<1>2. rel \in [Attempts -> ReleaseStates]
  BY DEF Inv, StoreInv, StoreType
<1>3. \A b \in Attempts :
         /\ rel[b] # "none" => rel'[b] = rel[b]
         /\ rel'[b] # rel[b] => b = a /\ t \in TERMINAL_RUN_STATES
  <2>1. CASE t \in TERMINAL_RUN_STATES
    <3>1. rel' = insert_pin_release(rel, a)
      BY <2>1 DEF transition_run
    <3> HIDE DEF a
    <3>2. a \in Attempts
      BY DEF a
    <3> QED  BY <1>2, <2>1, <3>1, <3>2, InsertReleaseRow
  <2>2. CASE t \notin TERMINAL_RUN_STATES
    BY <2>2 DEF transition_run
  <2> QED  BY <2>1, <2>2
<1> HIDE DEF a
<1> QED  BY <1>1, <1>3 DEF Kept, StopKept, ReleaseKept, BoundSame, a

\* A paused source among the ancestors of the active attempt is another one.
LEMMA SourceIsCheckpoint ==
    ASSUME NEW s \in Attempts, NEW a, paused_source_attempt(s, a)
    PROVE  att[s].ckpt /\ att[s].state = "paused"
BY DEF paused_source_attempt, IsPausedSource

LEMMA InsertSourceRows ==
    ASSUME Inv, NEW R \in [Attempts -> ReleaseStates], NEW a, NEW b \in Attempts
    PROVE  /\ R[b] # "none" => insert_paused_source_releases(R, a)[b] = R[b]
           /\ insert_paused_source_releases(R, a)[b] # R[b] =>
                 att[b].ckpt /\ att[b].state = "paused"
<1>1. insert_paused_source_releases(R, a)[b] =
         IF paused_source_attempt(b, a) THEN insert_pin_release(R, b)[b] ELSE R[b]
  BY DEF insert_paused_source_releases
<1> QED  BY <1>1, InsertReleaseRow, SourceIsCheckpoint

LEMMA FailUnboundKept ==
    ASSUME Inv, Tables, NEW r \in Runs, CanFailUnbound(r, run[r].active),
           fail_unbound_run(r)
    PROVE  Kept
<1> DEFINE a == run[r].active
<1>1. /\ a \in Attempts /\ att[a].state = run[r].state
      /\ run[r].state \in DISPATCHABLE_RUN_STATES \cup {"cancel_requested"}
  BY DEF CanFailUnbound, IsActive, Tables, RunRows, DISPATCHABLE_RUN_STATES
<1>2. /\ rel \in [Attempts -> ReleaseStates]
      /\ \A b \in Attempts : att[b] \in AttemptRecords
      /\ DOMAIN att = Attempts
  BY DEF Inv, StoreInv, StoreType
<1>3. att' = [att EXCEPT ![a].state = "failed", ![a].owner = None,
                         ![a].leased = FALSE]
  BY DEF fail_unbound_run
<1>4. \A b \in Attempts :
         /\ att'[b].bound = att[b].bound /\ att'[b].ckpt = att[b].ckpt
         /\ att'[b].state = IF b = a THEN "failed" ELSE att[b].state
  BY <1>1, <1>2, <1>3 DEF AttemptRecords
<1>5. \A b \in Attempts :
         /\ rel[b] # "none" => rel'[b] = rel[b]
         /\ rel'[b] # rel[b] => b = a \/ (att[b].ckpt /\ att[b].state = "paused")
  <2>0. \/ rel' = insert_pin_release(rel, a)
        \/ rel' = insert_paused_source_releases(insert_pin_release(rel, a), a)
    BY DEF fail_unbound_run
  <2>1. insert_pin_release(rel, a) \in [Attempts -> ReleaseStates]
    BY <1>2, PinReleaseType
  <2> HIDE DEF a
  <2> QED  BY <1>1, <1>2, <2>0, <2>1, InsertReleaseRow, InsertSourceRows
<1>6. "failed" \in TERMINAL_RUN_STATES /\ "paused" \in StopStates
  BY DEF TERMINAL_RUN_STATES, StopStates
<1>7. att[a].state # "paused"
  BY <1>1 DEF DISPATCHABLE_RUN_STATES
<1> HIDE DEF a
<1> QED  BY <1>4, <1>5, <1>6, <1>7 DEF Kept, StopKept, ReleaseKept, BoundSame

LEMMA InsertsKept ==
    ASSUME Inv, NEW r, NEW a \in Attempts, NEW rec, IsNextAttempt(a),
           Inserts(r, a, rec), ~rec.bound, UNCHANGED rel
    PROVE  Kept
<1>1. att'[a] = rec /\ \A b \in Attempts : b # a => att'[b] = att[b]
  BY DEF Inserts, Inv, StoreInv, StoreType
<1>2. att[a].state \notin StopStates
  BY DEF IsNextAttempt, StopStates
<1> QED  BY <1>1, <1>2 DEF Kept, StopKept, ReleaseKept, BoundSame

\* Moves of the dispatch calls.
LEMMA LocalPinsKept ==
    ASSUME UNCHANGED <<pins, disp>>
    PROVE  PinsKept
BY DEF PinsKept

LEMMA MovesOnPins ==
    ASSUME Inv, NEW w \in Dispatchers,
           EndTurn(w) \/ \E pc \in Phases \ {"pinned"} : Goto(w, pc)
    PROVE  PinsKept
<1>1. UNCHANGED pins
  BY DEF EndTurn, Goto
<1>2. Idle.pc # "pinned"
  BY DEF Idle
<1>3. \A v \in Dispatchers : disp'[v].pc = "pinned" => disp'[v] = disp[v]
  <2>1. CASE EndTurn(w)
    BY <1>2, <2>1 DEF EndTurn, Inv, LocalType
  <2>2. CASE \E pc \in Phases \ {"pinned"} : Goto(w, pc)
    BY <2>2 DEF Goto, Inv, LocalType
  <2> QED  BY <2>1, <2>2
<1> QED  BY <1>1, <1>3 DEF PinsKept

\* A guarded transition_run to an end.
LEMMA GuardedEndKept ==
    ASSUME Inv, NEW r \in Runs, NEW A, NEW t \in TERMINAL_RUN_STATES,
           run[r].active \in Attempts, transition_run(r, t, A)
    PROVE  Kept
BY TransitionKept

LEMMA EndConvergingKept ==
    ASSUME Inv, NEW r \in Runs, end_converging(r)
    PROVE  Kept
<1>1. STALLED_TERMINALS[run[r].state] \in TERMINAL_RUN_STATES
  BY DEF end_converging, STALLED_STATES, STALLED_TERMINALS, TERMINAL_RUN_STATES
<1> QED  BY <1>1, GuardedEndKept DEF end_converging, CanTransition, IsActive

LEMMA ConvergeStalledKept ==
    ASSUME Inv, Tables, NEW r \in Runs, converge_stalled(r)
    PROVE  Kept
BY FailUnboundKept, EndConvergingKept DEF converge_stalled

\* Each group of actions.
LEMMA OperatorPins ==
    ASSUME Inv, Tables, Operator
    PROVE  Kept /\ PinsKept
<1> PICK r \in Runs :
       \/ create_run(r) \/ request_pause(r) \/ request_cancel(r)
       \/ converge_cancellation(r) \/ resume_run(r) \/ retry_run(r)
       \/ \E a \in Attempts : resolve_decision(r, a)
  BY DEF Operator
<1>0. /\ run[r].state \in RunStates
      /\ run[r].state # "absent" => /\ run[r].active \in Attempts
                                    /\ att[run[r].active].run = r
  BY DEF Tables, RunRows, Inv, StoreInv, StoreType
<1>1. PinsKept
  <2>1. UNCHANGED <<pins, disp>>
    BY DEF create_run, request_pause, request_cancel, converge_cancellation,
           resume_run, retry_run, restart_attempt, resolve_decision, local
  <2> QED  BY <2>1, LocalPinsKept
<1>2. CASE create_run(r)
  <2> DEFINE rec == NewAttempt(r, "queued", {}, FALSE)
  <2>1. rec.state = "queued" /\ ~rec.bound
    BY DEF NewAttempt
  <2> HIDE DEF rec
  <2>2. PICK a \in Attempts : IsNextAttempt(a) /\ Inserts(r, a, rec)
    BY <1>2, <2>1 DEF create_run, Inserts, rec
  <2>3. UNCHANGED rel
    BY <1>2 DEF create_run
  <2> QED  BY <1>1, <2>1, <2>2, <2>3, InsertsKept
<1>3. CASE resume_run(r) \/ retry_run(r)
  <2>1. PICK source \in {"paused", "failed"}, t \in {"resuming", "retrying"} :
           restart_attempt(r, source, t)
    BY <1>3 DEF resume_run, retry_run
  <2> DEFINE p == run[r].active
             rec == NewAttempt(r, t, att[p].lineage \cup {p},
                               att[p].ckpt \/ att[p].srcCkpt)
  <2>2. rec.state = t /\ ~rec.bound
    BY DEF NewAttempt
  <2>3. \E a \in Attempts :
           /\ IsNextAttempt(a)
           /\ run' = [run EXCEPT ![r] = [state |-> t, active |-> a]]
           /\ att' = [att EXCEPT ![a] = rec]
    BY <2>1 DEF restart_attempt
  <2> HIDE DEF rec
  <2>4. PICK a \in Attempts : IsNextAttempt(a) /\ Inserts(r, a, rec)
    BY <2>2, <2>3 DEF Inserts
  <2>5. UNCHANGED rel
    BY <2>1 DEF restart_attempt
  <2> QED  BY <1>1, <2>2, <2>4, <2>5, InsertsKept
<1>4. CASE request_pause(r)
  <2>1. run[r].state = "running"
    BY <1>0, <1>4 DEF request_pause, RUN_TRANSITIONS, RunStates
  <2>2. run[r].active \in Attempts /\ att[run[r].active].state \notin StopStates
    BY <2>1 DEF Tables, RunRows, StopStates
  <2>3. Moves(r, run[r].active, "pause_requested") /\ UNCHANGED rel
    BY <1>4 DEF request_pause, Moves
  <2> QED  BY <1>1, <2>2, <2>3, MovesKept
<1>5. CASE request_cancel(r)
  <2>1. run[r].state # "absent"
    BY <1>0, <1>5, TransitionEdges DEF request_cancel
  <2>2. Moves(r, run[r].active, "cancel_requested") /\ UNCHANGED rel
    BY <1>5 DEF request_cancel, Moves
  <2>3. "cancel_requested" \in StopStates
    BY DEF StopStates
  <2> QED  BY <1>0, <1>1, <2>1, <2>2, <2>3, MovesKept
<1>6. ASSUME NEW a \in Attempts, resolve_decision(r, a)
      PROVE  Kept
  <2>1. run[r].state = "waiting_for_decision" /\ dec[a] > 0 /\ att[a].run = r
    BY <1>6 DEF resolve_decision
  <2>2. run[r].active = a
    BY <2>1 DEF Tables, DecisionRows
  <2>3. att[a].state \notin StopStates
    BY <2>1, <2>2 DEF Tables, RunRows, StopStates
  <2>4. Moves(r, a, "resuming") /\ UNCHANGED rel
    BY <1>6 DEF resolve_decision, Moves
  <2> QED  BY <2>3, <2>4, MovesKept
<1>7. CASE converge_cancellation(r)
  BY <1>1, <1>7, FailUnboundKept DEF converge_cancellation
<1> QED  BY <1>1, <1>2, <1>3, <1>4, <1>5, <1>6, <1>7

LEMMA BeforeBindingPins ==
    ASSUME Inv, Tables, Step, PinInv, NEW w \in Dispatchers,
           \/ \E r \in Runs : reserve_attempt_dispatch(w, r)
           \/ pin_attempt(w) \/ fail_before_binding(w) \/ pin_attempt_runtime(w)
    PROVE  PinInv'
<1> DEFINE a == disp[w].att
<1>0. /\ DOMAIN att = Attempts /\ \A b \in Attempts : att[b] \in AttemptRecords
      /\ rel \in [Attempts -> ReleaseStates]
      /\ disp[w].pc # "idle" => disp[w].run \in Runs /\ a \in Attempts
  BY DEF Inv, StoreInv, StoreType, DispatchInv, DispatchHasRun
<1>1. ASSUME NEW r \in Runs, reserve_attempt_dispatch(w, r)
      PROVE  PinInv'
  <2> DEFINE b0 == run[r].active
  <2>0. /\ b0 \in Attempts
        /\ att' = [att EXCEPT ![b0].owner = w, ![b0].leased = TRUE,
                              ![b0].identity = TRUE]
    BY <1>1 DEF reserve_attempt_dispatch
  <2> HIDE DEF b0
  <2>a. /\ \A b \in Attempts : b # b0 => att'[b] = att[b]
        /\ att'[b0] = [att[b0] EXCEPT !.owner = w, !.leased = TRUE,
                                      !.identity = TRUE]
    BY <1>0, <2>0
  <2>b. att[b0] \in AttemptRecords
    BY <1>0, <2>0
  <2>c. /\ att'[b0].state = att[b0].state /\ att'[b0].bound = att[b0].bound
        /\ att'[b0].ckpt = att[b0].ckpt
    BY <2>a, <2>b DEF AttemptRecords
  <2>1. \A b \in Attempts :
           /\ att'[b].state = att[b].state /\ att'[b].bound = att[b].bound
           /\ att'[b].ckpt = att[b].ckpt
    BY <2>a, <2>c
  <2>2. UNCHANGED <<rel, pins>>
    BY <1>1 DEF reserve_attempt_dispatch
  <2>3. Kept
    BY <2>1, <2>2, SameKept
  <2>4. PinsKept
    BY <1>1, <2>2 DEF reserve_attempt_dispatch, PinsKept, Inv, LocalType
  <2> QED  BY <2>3, <2>4, PinStep
<1>2. CASE pin_attempt(w)
  <2>1. UNCHANGED <<att, rel>> /\ pins' = pins \cup {a}
    BY <1>2 DEF pin_attempt, store
  <2>2. \A v \in Dispatchers :
           disp'[v].att = disp[v].att /\ (v # w => disp'[v] = disp[v])
    BY <1>2 DEF pin_attempt, Inv, LocalType
  <2>3. PinRows'
    BY <2>1, <2>2 DEF PinInv, PinRows
  <2>4. ReleaseRows'
    BY <2>1, ReleaseRowsKept, StoreSameKept DEF Kept
  <2> QED  BY <2>3, <2>4 DEF PinInv
<1>3. CASE fail_before_binding(w)
  <2>1. disp[w].pc # "idle" /\ PinsKept
    BY <1>3, MovesOnPins DEF fail_before_binding
  <2>2. CASE UNCHANGED store
    BY <2>1, <2>2, StoreSameKept, PinStep DEF store
  <2>3. CASE /\ CanFailUnbound(disp[w].run, disp[w].att)
             /\ fail_unbound_run(disp[w].run)
    <3>1. disp[w].att = run[disp[w].run].active
      BY <2>3 DEF CanFailUnbound, IsActive
    <3>2. Kept
      BY <1>0, <2>1, <2>3, <3>1, FailUnboundKept
    <3> QED  BY <2>1, <3>2, PinStep
  <2> QED  BY <1>3, <2>2, <2>3 DEF fail_before_binding
<1>4. CASE pin_attempt_runtime(w)
  <2>1. /\ disp[w].pc = "pinned" /\ a \in Attempts
        /\ att' = [att EXCEPT ![a].bound = TRUE, ![a].owner = None,
                              ![a].leased = FALSE]
        /\ rel' = insert_paused_source_releases(rel, a) /\ UNCHANGED pins
        /\ disp' = [disp EXCEPT ![w].pc = "bound"]
    BY <1>0, <1>4 DEF pin_attempt_runtime
  <2> HIDE DEF a
  <2>a. /\ \A b \in Attempts : b # a => att'[b] = att[b]
        /\ att'[a] = [att[a] EXCEPT !.bound = TRUE, !.owner = None,
                                    !.leased = FALSE]
    BY <1>0, <2>1
  <2>b. att[a] \in AttemptRecords
    BY <1>0, <2>1
  <2>c. att'[a].state = att[a].state /\ att'[a].ckpt = att[a].ckpt
    BY <2>a, <2>b DEF AttemptRecords
  <2>2. \A b \in Attempts :
           /\ att'[b].state = att[b].state /\ att'[b].ckpt = att[b].ckpt
           /\ b # a => att'[b].bound = att[b].bound
    BY <2>a, <2>c
  <2>3. \A b \in Attempts :
           /\ rel[b] # "none" => rel'[b] = rel[b]
           /\ rel'[b] # rel[b] => att[b].ckpt /\ att[b].state = "paused"
    BY <1>0, <2>1, InsertSourceRows
  <2>4. StopKept /\ ReleaseKept
    BY <2>2, <2>3 DEF StopKept, ReleaseKept, StopStates
  <2>5. ReleaseRows'
    BY <2>4, ReleaseRowsKept
  <2>6. a \in pins \/ rel[a] # "none"
    BY <2>1 DEF PinInv, PinRows, a
  <2>7. \A b \in Attempts : att'[b].bound => b \in pins \/ rel'[b] # "none"
    BY <2>1, <2>2, <2>3, <2>6 DEF PinInv, PinRows
  <2>8. \A v \in Dispatchers : disp'[v].pc = "pinned" => disp'[v] = disp[v]
    BY <2>1 DEF Inv, LocalType
  <2>9. \A v \in Dispatchers : disp'[v].pc = "pinned" =>
           disp'[v].att \in pins \/ rel'[disp'[v].att] # "none"
    <3> SUFFICES ASSUME NEW v \in Dispatchers, disp'[v].pc = "pinned"
                 PROVE  disp[v].att \in pins \/ rel'[disp[v].att] # "none"
      BY <2>8
    <3>1. disp[v].pc = "pinned"
      BY <2>8
    <3>2. disp[v].att \in Attempts
      BY <3>1 DEF Inv, DispatchInv, DispatchHasRun
    <3> QED  BY <2>3, <3>1, <3>2 DEF PinInv, PinRows
  <2> QED  BY <2>1, <2>5, <2>7, <2>9 DEF PinInv, PinRows
<1> QED  BY <1>1, <1>2, <1>3, <1>4

\* A move the guard admits, onwards: a stopped attempt is not among those.
LEMMA GuardedMoveKept ==
    ASSUME Inv, Tables, NEW r \in Runs, NEW a,
           NEW t \in {"starting", "running", "paused"},
           CanTransition(r, a, run[r].state, t), transition_run(r, t, act)
    PROVE  Kept
<1>1. /\ run[r].state \in RunStates /\ t \in RUN_TRANSITIONS[run[r].state]
      /\ run[r].active = a /\ a \in Attempts
  BY DEF CanTransition, IsActive, Inv, StoreInv, StoreType
<1>2. run[r].state \in DISPATCHABLE_RUN_STATES \cup {"starting", "pause_requested"}
  BY <1>1 DEF RUN_TRANSITIONS, RunStates, DISPATCHABLE_RUN_STATES
<1>3. att[a].state = run[r].state
  BY <1>1, <1>2 DEF Tables, RunRows, DISPATCHABLE_RUN_STATES
<1>4. att[a].state \notin StopStates
  BY <1>2, <1>3 DEF StopStates, DISPATCHABLE_RUN_STATES
<1> QED  BY <1>1, <1>4, TransitionKept

LEMMA TerminalPins ==
    ASSUME Inv, Tables, NEW w \in Dispatchers, NEW e \in TERMINAL_RUN_STATES,
           event_terminal(w, e)
    PROVE  Kept
<1>1. disp[w].run \in Runs
  BY DEF event_terminal, Inv, DispatchInv, DispatchHasRun
<1>2. PICK c \in confirm_runtime_resume_from_event(disp[w].run, disp[w].att) :
         /\ CanTransition(disp[w].run, disp[w].att, c[1], TerminalTarget(c[1], e))
         /\ transition_run(disp[w].run, TerminalTarget(c[1], e), c[2])
  BY DEF event_terminal
<1>3. TerminalTarget(c[1], e) \in TERMINAL_RUN_STATES
  BY DEF TerminalTarget, TERMINAL_RUN_STATES
<1>4. run[disp[w].run].active \in Attempts
  BY <1>2 DEF CanTransition, IsActive
<1> QED  BY <1>1, <1>2, <1>3, <1>4, GuardedEndKept

LEMMA ProgressPins ==
    ASSUME Inv, Tables, NEW w \in Dispatchers, event_progress(w)
    PROVE  Kept
<1> DEFINE r == disp[w].run
           a == disp[w].att
<1>1. /\ r \in Runs /\ a \in Attempts /\ run[r].active = a
      /\ run[r].state = "resuming" /\ rel' = rel
  BY DEF event_progress, record_runtime_observation, IsActive, Inv,
         DispatchInv, DispatchHasRun
<1>2. PICK c \in confirm_runtime_resume_from_event(r, a) :
         /\ run' = [run EXCEPT ![r].state = c[1]]
         /\ att' = [att EXCEPT ![a].state = c[1]]
  BY DEF event_progress, record_runtime_observation
<1>3. c[1] = "running"
  BY <1>1, ConfirmedResume DEF Inv
<1>4. Moves(r, a, "running")
  BY <1>2, <1>3 DEF Moves
<1>5. att[a].state \notin StopStates
  BY <1>1 DEF Tables, RunRows, StopStates
<1> HIDE DEF r, a
<1> QED  BY <1>1, <1>4, <1>5, MovesKept

LEMMA DecisionPins ==
    ASSUME Inv, Tables, NEW w \in Dispatchers, event_decision(w)
    PROVE  Kept
<1> DEFINE r == disp[w].run
           a == disp[w].att
<1>1. r \in Runs /\ a \in Attempts
  BY DEF event_decision, Inv, DispatchInv, DispatchHasRun
<1>2. CASE create_decision(r, a)
  <2>1. run[r].active = a /\ rel' = rel
    BY <1>2 DEF create_decision, IsActive
  <2>2. PICK c \in confirm_runtime_resume_from_event(r, a) : c[1] = "running"
    BY <1>2 DEF create_decision
  <2>3. run[r].state \in {"running", "resuming"}
    BY <1>1, <2>1, <2>2, ConfirmedRunning
  <2>4. att[a].state \notin StopStates
    BY <1>1, <2>1, <2>3 DEF Tables, RunRows, StopStates
  <2>5. Moves(r, a, "waiting_for_decision")
    BY <1>2 DEF create_decision, Moves
  <2> HIDE DEF r, a
  <2> QED  BY <1>1, <2>1, <2>4, <2>5, MovesKept
<1>3. CASE /\ CanTransition(r, a, run[r].state, "canceled")
           /\ transition_run(r, "canceled", act)
  <2>1. run[r].active \in Attempts /\ "canceled" \in TERMINAL_RUN_STATES
    BY <1>3 DEF CanTransition, IsActive, TERMINAL_RUN_STATES
  <2> QED  BY <1>1, <1>3, <2>1, GuardedEndKept
<1> QED  BY <1>2, <1>3 DEF event_decision

LEMMA CheckpointPins ==
    ASSUME Inv, Tables, NEW w \in Dispatchers, commit_checkpoint(w)
    PROVE  Kept
<1> DEFINE a == disp[w].att
<1>1. /\ a \in Attempts /\ rel' = rel
      /\ att' = [att EXCEPT ![a].ckpt = TRUE]
  BY DEF commit_checkpoint, Inv, DispatchInv, DispatchHasRun
<1>2. DOMAIN att = Attempts /\ \A b \in Attempts : att[b] \in AttemptRecords
  BY DEF Inv, StoreInv, StoreType
<1> HIDE DEF a
<1>3. /\ \A b \in Attempts : b # a => att'[b] = att[b]
      /\ att'[a] = [att[a] EXCEPT !.ckpt = TRUE]
  BY <1>1, <1>2
<1>4. att[a] \in AttemptRecords
  BY <1>1, <1>2
<1>5. /\ att'[a].state = att[a].state /\ att'[a].bound = att[a].bound
      /\ att'[a].ckpt
  BY <1>3, <1>4 DEF AttemptRecords
<1> QED  BY <1>1, <1>3, <1>5, SameKept

LEMMA AfterBindingPins ==
    ASSUME Inv, Tables, NEW w \in Dispatchers,
           \/ start_attempt(w) \/ fail_after_binding(w) \/ event_started(w)
           \/ event_progress(w) \/ event_decision(w) \/ stream_ends_parked(w)
           \/ \E e \in TERMINAL_RUN_STATES : event_terminal(w, e)
           \/ commit_checkpoint(w) \/ event_paused(w)
           \/ end_quiet_after_control(w) \/ turn_timeout(w) \/ end_timed_out(w)
    PROVE  Kept /\ PinsKept
<1> DEFINE r == disp[w].run
           a == disp[w].att
<1>0. disp[w].pc # "idle" => r \in Runs /\ a \in Attempts
  BY DEF Inv, DispatchInv, DispatchHasRun
<1>t. {"failed", "canceled"} \subseteq TERMINAL_RUN_STATES
  BY DEF TERMINAL_RUN_STATES
<1>p. PinsKept
  <2>1. {"execute", "stream", "parked", "timedout"} \subseteq Phases \ {"pinned"}
    BY DEF Phases
  <2>2. \/ EndTurn(w) \/ (\E pc \in Phases \ {"pinned"} : Goto(w, pc))
        \/ UNCHANGED <<pins, disp>>
    BY <2>1 DEF start_attempt, fail_after_binding, event_started,
                event_progress, event_decision, stream_ends_parked,
                event_terminal, commit_checkpoint, event_paused,
                end_quiet_after_control, turn_timeout, end_timed_out, local
  <2> QED  BY <2>2, MovesOnPins, LocalPinsKept
<1> SUFFICES Kept
  BY <1>p
<1>e. ASSUME r \in Runs, NEW t \in TERMINAL_RUN_STATES,
             CanTransition(r, a, run[r].state, t), transition_run(r, t, act)
      PROVE  Kept
  <2>1. run[r].active \in Attempts
    BY <1>e DEF CanTransition, IsActive
  <2> HIDE DEF r, a
  <2> QED  BY <1>e, <2>1, GuardedEndKept
<1>s. ASSUME UNCHANGED store
      PROVE  Kept
  BY <1>s, StoreSameKept DEF store
<1>1. CASE start_attempt(w)
  BY <1>0, <1>1, GuardedMoveKept DEF start_attempt
<1>2. CASE fail_after_binding(w)
  <2>1. r \in Runs
    BY <1>0, <1>2 DEF fail_after_binding
  <2>2. \/ UNCHANGED store
        \/ \E t \in TERMINAL_RUN_STATES :
              CanTransition(r, a, run[r].state, t) /\ transition_run(r, t, act)
    BY <1>2, <1>t DEF fail_after_binding
  <2> HIDE DEF r, a
  <2> QED  BY <1>e, <1>s, <2>1, <2>2
<1>3. CASE event_started(w)
  <2>1. r \in Runs
    BY <1>0, <1>3 DEF event_started
  <2>2. \E t \in {"canceled", "running"} :
           CanTransition(r, a, run[r].state, t) /\ transition_run(r, t, act)
    BY <1>3 DEF event_started
  <2> HIDE DEF r, a
  <2> QED  BY <1>e, <1>t, <2>1, <2>2, GuardedMoveKept
<1>4. CASE stream_ends_parked(w)
  BY <1>4, <1>s DEF stream_ends_parked
<1>5. ASSUME NEW e \in TERMINAL_RUN_STATES, event_terminal(w, e)
      PROVE  Kept
  BY <1>5, TerminalPins
<1>6. CASE event_paused(w)
  BY <1>0, <1>6, GuardedMoveKept DEF event_paused
<1>7. CASE end_quiet_after_control(w)
  <2>1. r \in Runs /\ (end_converging(r) \/ UNCHANGED store)
    BY <1>0, <1>7 DEF end_quiet_after_control
  <2> QED  BY <1>s, <2>1, EndConvergingKept
<1>8. CASE turn_timeout(w)
  BY <1>8, <1>s DEF turn_timeout
<1>9. CASE end_timed_out(w)
  <2>1. r \in Runs
    BY <1>0, <1>9 DEF end_timed_out
  <2>2. CASE UNCHANGED store
    BY <1>s, <2>2
  <2>3. CASE /\ run[r].state \in {"running", "starting"}
             /\ att[run[r].active].bound /\ transition_run(r, "failed", act)
    <3>1. run[r].active \in Attempts
      BY <2>1, <2>3 DEF Tables, RunRows
    <3> HIDE DEF r
    <3> QED  BY <1>t, <2>1, <2>3, <3>1, GuardedEndKept
  <2> QED  BY <1>9, <2>2, <2>3 DEF end_timed_out
<1> QED  BY <1>1, <1>2, <1>3, <1>4, <1>5, <1>6, <1>7, <1>8, <1>9,
            ProgressPins, DecisionPins, CheckpointPins

\* The turn bridge and the recovery.
LEMMA BridgePins ==
    ASSUME Inv, Tables, NEW r \in Runs,
           \/ abandon(r) \/ sweep_stalled(r) \/ refuse_undriven(r)
           \/ recover_sweep(r) \/ recover_bound_inactive(r)
           \/ defer_recoverable(r) \/ recover_manual(r) \/ recover_unbound(r)
    PROVE  Kept /\ PinsKept
<1>1. PinsKept
  <2>1. disp' = disp /\ pins \subseteq pins'
    BY DEF abandon, sweep_stalled, refuse_undriven, local, recover_sweep,
           recover_bound_inactive, defer_recoverable, recover_manual,
           recover_unbound, Recovered
  <2> QED  BY <2>1 DEF PinsKept
<1>2. ASSUME NEW t \in TERMINAL_RUN_STATES,
             CanTransition(r, run[r].active, run[r].state, t),
             transition_run(r, t, act)
      PROVE  Kept
  <2>1. run[r].active \in Attempts
    BY <1>2 DEF CanTransition, IsActive
  <2> QED  BY <1>2, <2>1, GuardedEndKept
<1>3. "failed" \in TERMINAL_RUN_STATES /\ "canceled" \in TERMINAL_RUN_STATES
  BY DEF TERMINAL_RUN_STATES
<1>4. UNCHANGED store => Kept
  BY StoreSameKept DEF store
<1>5. \/ UNCHANGED store \/ end_converging(r) \/ converge_stalled(r)
      \/ CanFailUnbound(r, run[r].active) /\ fail_unbound_run(r)
      \/ \E t \in TERMINAL_RUN_STATES :
            /\ CanTransition(r, run[r].active, run[r].state, t)
            /\ transition_run(r, t, act)
  <2>1. CASE abandon(r)
    BY <1>3, <2>1 DEF abandon
  <2>2. CASE sweep_stalled(r) \/ refuse_undriven(r) \/ recover_sweep(r)
    BY <2>2 DEF sweep_stalled, refuse_undriven, recover_sweep
  <2>3. CASE recover_bound_inactive(r) \/ defer_recoverable(r)
    BY <1>3, <2>3 DEF recover_bound_inactive, defer_recoverable
  <2>4. CASE recover_manual(r) \/ recover_unbound(r)
    BY <2>4 DEF recover_manual, recover_unbound
  <2> QED  BY <2>1, <2>2, <2>3, <2>4
<1>6. Kept
  BY <1>2, <1>4, <1>5, FailUnboundKept, EndConvergingKept, ConvergeStalledKept
<1> QED  BY <1>1, <1>6

\* The delivery of actions.
LEMMA SettleKept ==
    ASSUME Inv, Tables, NEW x \in Actions,
           \/ acknowledge_runtime_action(x) \/ reject_runtime_action(x)
           \/ fail_runtime_action(x)
    PROVE  Kept
<1> DEFINE r == RunOf(x)
           a == act[x].att
<1>1. act[x].st = "pending" /\ act[x] \in ActionRecords
  BY DEF acknowledge_runtime_action, reject_runtime_action, Claimed,
         fail_runtime_action, Inv, StoreInv, StoreType
<1>2. a \in Attempts /\ rel \in [Attempts -> ReleaseStates]
  BY <1>1 DEF ActionRecords, Inv, StoreInv, StoreType
<1>3. CASE UNCHANGED <<att, rel>>
  BY <1>3, StoreSameKept
<1>4. ASSUME MovesAttempt(a, "running"), rel' = rel,
             run[r].state \in {"resuming", "pause_requested"}
      PROVE  Kept
  <2>1. /\ att[a].bound /\ run[r].active = a
    BY <1>1 DEF Tables, ActionRows, RunOf
  <2>2. r \in Runs
    BY <1>2, <2>1, BoundHasRun DEF RunOf
  <2>3. att[a].state \notin StopStates
    BY <1>4, <2>1, <2>2 DEF Tables, RunRows, StopStates
  <2> HIDE DEF a
  <2>4. \A b \in Attempts :
           /\ att'[b].bound = att[b].bound /\ att'[b].ckpt = att[b].ckpt
           /\ att'[b].state = IF b = a THEN "running" ELSE att[b].state
    BY <1>2, <1>4, MoveRow
  <2> QED  BY <1>4, <2>3, <2>4 DEF Kept, StopKept, ReleaseKept, BoundSame
<1>5. CASE acknowledge_runtime_action(x)
  <2>1. \/ UNCHANGED <<att, rel>>
        \/ MovesAttempt(a, "running") /\ rel' = rel /\ run[r].state = "resuming"
    BY <1>5 DEF acknowledge_runtime_action, MovesAttempt
  <2> QED  BY <1>3, <1>4, <2>1
<1>6. CASE reject_runtime_action(x)
  <2>1. \/ UNCHANGED <<att, rel>>
        \/ /\ MovesAttempt(a, "running") /\ rel' = rel
           /\ run[r].state = "pause_requested"
    BY <1>6 DEF reject_runtime_action, MovesAttempt
  <2> QED  BY <1>3, <1>4, <2>1
<1>7. CASE fail_runtime_action(x)
  <2>1. MovesAttempt(a, "failed") /\ rel' = insert_pin_release(rel, a)
    BY <1>7 DEF fail_runtime_action, MovesAttempt
  <2> HIDE DEF a
  <2>2. \A b \in Attempts :
           /\ att'[b].bound = att[b].bound /\ att'[b].ckpt = att[b].ckpt
           /\ att'[b].state = IF b = a THEN "failed" ELSE att[b].state
    BY <1>2, <2>1, MoveRow
  <2>3. \A b \in Attempts : /\ b # a => rel'[b] = rel[b]
                            /\ rel[b] # "none" => rel'[b] = rel[b]
    BY <1>2, <2>1, InsertReleaseRow
  <2>4. "failed" \in TERMINAL_RUN_STATES
    BY DEF TERMINAL_RUN_STATES
  <2> QED  BY <2>2, <2>3, <2>4 DEF Kept, StopKept, ReleaseKept, BoundSame
<1> QED  BY <1>5, <1>6, <1>7

LEMMA DeliveryPins ==
    ASSUME Inv, Tables, NEW x \in Actions,
           \/ claim_runtime_action(x) \/ runtime_accepts(x)
           \/ acknowledge_runtime_action(x) \/ reject_runtime_action(x)
           \/ fail_runtime_action(x) \/ mark_runtime_action_outcome_unknown(x)
           \/ claim_runtime_action_reconciliation(x)
           \/ retry_runtime_action_delivery(x)
           \/ defer_runtime_action_reconciliation(x) \/ claim_expires(x)
    PROVE  Kept /\ PinsKept
<1>1. CASE runtime_accepts(x)
  <2>1. PICK w \in Dispatchers, pc \in {"stream", "parked"} :
           disp' = [disp EXCEPT ![w].pc = pc]
    BY <1>1 DEF runtime_accepts, Live
  <2>2. PinsKept
    BY <1>1, <2>1 DEF runtime_accepts, PinsKept, Inv, LocalType
  <2> QED  BY <1>1, <2>2, StoreSameKept DEF runtime_accepts
<1>2. CASE ~runtime_accepts(x)
  <2>1. PinsKept
    <3>1. UNCHANGED <<pins, disp>>
      BY <1>2 DEF claim_runtime_action, acknowledge_runtime_action,
                  reject_runtime_action, fail_runtime_action, SettleAction,
                  mark_runtime_action_outcome_unknown, claim_expires, local,
                  claim_runtime_action_reconciliation,
                  retry_runtime_action_delivery,
                  defer_runtime_action_reconciliation
    <3> QED  BY <3>1, LocalPinsKept
  <2>2. CASE \/ acknowledge_runtime_action(x) \/ reject_runtime_action(x)
             \/ fail_runtime_action(x)
    BY <2>1, <2>2, SettleKept
  <2>3. CASE ~(\/ acknowledge_runtime_action(x) \/ reject_runtime_action(x)
               \/ fail_runtime_action(x))
    <3>1. UNCHANGED <<att, rel>>
      BY <1>2, <2>3 DEF claim_runtime_action, claim_expires,
                        mark_runtime_action_outcome_unknown,
                        claim_runtime_action_reconciliation,
                        retry_runtime_action_delivery,
                        defer_runtime_action_reconciliation
    <3> QED  BY <2>1, <3>1, StoreSameKept
  <2> QED  BY <2>2, <2>3
<1> QED  BY <1>1, <1>2

\* Pin releases, leases, and a crash.
LEMMA SettledReleaseKept ==
    ASSUME Inv, NEW a \in Attempts, rel[a] # "none", att' = att,
           NEW s \in ReleaseStates \ {"none"}, rel' = [rel EXCEPT ![a] = s]
    PROVE  Kept
<1>1. \A b \in Attempts : rel'[b] = "none" <=> rel[b] = "none"
  BY DEF Inv, StoreInv, StoreType
<1> QED  BY <1>1, SameKept

LEMMA ReleasePins ==
    ASSUME Inv, Tables, Step, PinInv, NEW a \in Attempts,
           \/ claim_pin_release(a) \/ finish_attempt(a)
           \/ acknowledge_pin_release(a) \/ fail_pin_release(a)
           \/ retry_pin_release(a) \/ release_claim_expires(a)
           \/ dispatch_lease_expires(a)
    PROVE  PinInv'
<1>1. CASE finish_attempt(a)
  <2>1. /\ rel[a] # "none" /\ pins' = pins \ {a}
        /\ UNCHANGED <<att, rel, disp>>
    BY <1>1 DEF finish_attempt, store
  <2>2. PinRows'
    BY <2>1 DEF PinInv, PinRows
  <2>3. ReleaseRows'
    BY <2>1, ReleaseRowsKept, StoreSameKept DEF Kept
  <2> QED  BY <2>2, <2>3 DEF PinInv
<1>2. CASE dispatch_lease_expires(a)
  <2>1. /\ att' = [att EXCEPT ![a].leased = FALSE]
        /\ UNCHANGED <<rel, pins, disp>>
    BY <1>2 DEF dispatch_lease_expires, local
  <2>2. DOMAIN att = Attempts /\ \A b \in Attempts : att[b] \in AttemptRecords
    BY DEF Inv, StoreInv, StoreType
  <2>3. /\ \A b \in Attempts : b # a => att'[b] = att[b]
        /\ att'[a] = [att[a] EXCEPT !.leased = FALSE]
    BY <2>1, <2>2
  <2>4. \A b \in Attempts :
           /\ att'[b].state = att[b].state /\ att'[b].bound = att[b].bound
           /\ att'[b].ckpt = att[b].ckpt
    BY <2>2, <2>3 DEF AttemptRecords
  <2> QED  BY <2>1, <2>4, SameKept, LocalPinsKept, PinStep
<1>3. CASE ~finish_attempt(a) /\ ~dispatch_lease_expires(a)
  <2>1. \E s \in ReleaseStates \ {"none"} : rel' = [rel EXCEPT ![a] = s]
    BY <1>3 DEF claim_pin_release, acknowledge_pin_release, fail_pin_release,
                retry_pin_release, release_claim_expires, SettleRelease,
                ReleaseStates
  <2>2. rel[a] # "none" /\ UNCHANGED <<att, pins, disp>>
    BY <1>3 DEF claim_pin_release, acknowledge_pin_release, fail_pin_release,
                retry_pin_release, release_claim_expires, SettleRelease, local
  <2> QED  BY <2>1, <2>2, SettledReleaseKept, LocalPinsKept, PinStep
<1> QED  BY <1>1, <1>2, <1>3

LEMMA CrashPins ==
    ASSUME Inv, Tables, Step, PinInv, crash
    PROVE  PinInv'
<1>1. PinsKept
  BY DEF crash, PinsKept, Idle
<1>2. \A b \in Attempts : att'[b] = [att[b] EXCEPT !.leased = FALSE]
  BY DEF crash
<1>3. \A b \in Attempts : att[b] \in AttemptRecords
  BY DEF Inv, StoreInv, StoreType
<1>4. \A b \in Attempts :
         /\ att'[b].state = att[b].state /\ att'[b].bound = att[b].bound
         /\ att'[b].ckpt = att[b].ckpt
  BY <1>2, <1>3 DEF AttemptRecords
<1>5. \A b \in Attempts : rel'[b] = "none" <=> rel[b] = "none"
  BY DEF crash
<1> QED  BY <1>1, <1>4, <1>5, SameKept, PinStep

LEMMA InitPins == Init => PinInv
BY DEF Init, PinInv, ReleaseRows, PinRows, NewAttempt, Idle

LEMMA PinsNext == Inv /\ Tables /\ PinInv /\ [Next]_vars => PinInv'
<1> SUFFICES ASSUME Inv, Tables, PinInv, [Next]_vars
             PROVE  PinInv'
  OBVIOUS
<1>0. Step
  BY NextTables
<1>1. CASE Operator
  BY <1>0, <1>1, OperatorPins, PinStep
<1>2. ASSUME NEW w \in Dispatchers, Dispatch(w)
      PROVE  PinInv'
  BY <1>0, <1>2, BeforeBindingPins, AfterBindingPins, PinStep DEF Dispatch
<1>3. CASE Bridge
  BY <1>0, <1>3, BridgePins, PinStep DEF Bridge
<1>4. CASE Delivery
  BY <1>0, <1>4, DeliveryPins, PinStep
     DEF Delivery, deliver_runtime_action, reconcile_runtime_action
<1>5. CASE Pins
  BY <1>0, <1>5, ReleasePins DEF Pins, deliver_pending_pin_releases
<1>6. CASE Recovery
  <2>1. CASE recover
    BY <1>0, <2>1, StoreSameKept, LocalPinsKept, PinStep DEF recover, store
  <2> QED  BY <1>0, <1>6, <2>1, CrashPins, BridgePins, PinStep DEF Recovery
<1>7. CASE UNCHANGED vars
  BY <1>0, <1>7, StoreSameKept, LocalPinsKept, PinStep DEF vars
<1> QED  BY <1>1, <1>2, <1>3, <1>4, <1>5, <1>6, <1>7 DEF Next

\* A bound attempt that has not ended holds its updater pin, whatever the
\* order in which ends, resumes, releases, expiries and recoveries came: the
\* release an executing attempt runs on is never retired under it.
THEOREM BoundHoldsPin == Spec => []BoundIsPinned
<1>1. Inv /\ Tables /\ PinInv => BoundIsPinned
  <2> SUFFICES ASSUME Inv, Tables, PinInv, NEW r \in Runs,
                      run[r].state \notin TERMINAL_RUN_STATES \cup {"absent"},
                      att[run[r].active].bound, ~Checkpointed(run[r].active)
               PROVE  run[r].active \in pins
    BY DEF BoundIsPinned
  <2>1. /\ run[r].active \in Attempts
        /\ att[run[r].active].state \notin TERMINAL_RUN_STATES
    BY OnlyActive
  <2> QED  BY <2>1 DEF PinInv, ReleaseRows, PinRows
<1>2. Init => Inv /\ Tables /\ PinInv
  BY InitInv, InitTables, InitPins
<1>3. Inv /\ Tables /\ PinInv /\ [Next]_vars => (Inv /\ Tables /\ PinInv)'
  BY NextInv, TablesNext, PinsNext
<1> QED  BY <1>1, <1>2, <1>3, PTL DEF Spec
-----------------------------------------------------------------------------
(* No pin is lost.  PinsOwed says of every held pin who gives it back: its  *)
(* attempt was reserved under the exact identity a release needs, its       *)
(* release row is not settled, and the row owes it, or the attempt is a     *)
(* paused one or its run's active one.  A pin is taken in a dispatch call   *)
(* some time after the reservation, so it rests on Reserves: nobody moves a *)
(* reserved attempt but its own call.  That needs a single dispatcher; with *)
(* a second one a lease can expire in between.                              *)

OneDispatcher == \A v, w \in Dispatchers : v = w

OWED_STATES == {"pending", "claimed", "failed"}

Owed(b) ==
    \/ rel[b] \in OWED_STATES
    \/ IsActive(att[b].run, b) /\ run[att[b].run].state \notin TERMINAL_RUN_STATES
    \/ att[b].state = "paused"

PinRow(b) ==
    /\ att[b].identity /\ att[b].state # "absent"
    /\ rel[b] # "acked" /\ Owed(b)

PinsOwed == \A b \in pins : PinRow(b)

Reserved(w) ==
    LET a == disp[w].att IN
    /\ CanFailUnbound(disp[w].run, a)
    /\ att[a].owner = w /\ att[a].identity /\ rel[a] = "none"

Reserves == \A w \in Dispatchers : disp[w].pc = "reserved" => Reserved(w)

\* A recovery pass runs between two turns.
PassBetweenTurns ==
    \A w \in Dispatchers : disp[w].pc # "idle" => recovering = {}

OwedInv == PinsOwed /\ Reserves /\ PassBetweenTurns

\* The attempts that hold a pin before the step are accounted for after it.
RowsOwed == \A b \in pins : PinRow(b)'

\* An attempt that exists has a run that exists.
LEMMA PinnedHasRun ==
    ASSUME Inv, Tables, NEW b \in Attempts, att[b].state # "absent"
    PROVE  att[b].run \in Runs /\ run[att[b].run].state # "absent"
<1>1. att[b].run \in Runs \cup {None}
  BY DEF Inv, StoreInv, StoreType, AttemptRecords
<1>2. att[b].run \in Runs
  BY <1>1 DEF Tables, AttemptRows
<1> QED  BY <1>2 DEF Inv, StoreInv, AttemptHasRun

\* The shapes of a write, as the pins see them.
LEMMA SameOwed ==
    ASSUME Inv, Tables, PinsOwed, UNCHANGED run,
           \A b \in pins :
              /\ att'[b].run = att[b].run /\ att'[b].state = att[b].state
              /\ att'[b].identity = att[b].identity
              /\ rel'[b] = rel[b] \/ rel'[b] \in OWED_STATES
    PROVE  RowsOwed
<1> SUFFICES ASSUME NEW b \in pins
             PROVE  PinRow(b)'
  BY DEF RowsOwed
<1>1. PinRow(b)
  BY DEF PinsOwed
<1>2. Owed(b)'
  BY <1>1 DEF PinRow, Owed, IsActive
<1>3. rel'[b] # "acked"
  BY <1>1 DEF PinRow, OWED_STATES
<1> QED  BY <1>1, <1>2, <1>3 DEF PinRow

LEMMA StoreSameOwed ==
    ASSUME Inv, Tables, PinsOwed, UNCHANGED <<run, att, rel>>
    PROVE  RowsOwed
BY SameOwed

\* Only the row of attempt a moves, and only that of its run r.
LEMMA OthersOwed ==
    ASSUME Inv, Tables, PinsOwed, NEW r \in Runs, NEW a \in Attempts,
           run[r].active = a,
           \A q \in Runs : q # r => run'[q] = run[q],
           \A b \in Attempts : b # a => att'[b] = att[b],
           NEW b \in pins, b # a, rel'[b] = rel[b] \/ rel'[b] \in OWED_STATES
    PROVE  PinRow(b)'
<1>1. PinRow(b) /\ b \in Attempts
  BY DEF PinsOwed, Inv, LocalType
<1>2. att'[b] = att[b] /\ att[b].run \in Runs
  BY <1>1, PinnedHasRun DEF PinRow
<1>3. Owed(b)'
  <2>1. CASE att[b].run = r
    BY <1>1, <1>2, <2>1 DEF PinRow, Owed, IsActive
  <2>2. CASE att[b].run # r
    BY <1>1, <1>2, <2>2 DEF PinRow, Owed, IsActive
  <2> QED  BY <2>1, <2>2
<1>4. rel'[b] # "acked"
  BY <1>1 DEF PinRow, OWED_STATES
<1> QED  BY <1>1, <1>2, <1>3, <1>4 DEF PinRow

\* The active attempt moves with its run, and the run goes on.
LEMMA MovesOwed ==
    ASSUME Inv, Tables, PinsOwed, NEW r \in Runs, NEW a \in Attempts, NEW t,
           run[r].active = a, att[a].run = r, Moves(r, a, t), UNCHANGED rel,
           t \notin TERMINAL_RUN_STATES \cup {"absent"}
    PROVE  RowsOwed
<1>1. DOMAIN run = Runs /\ DOMAIN att = Attempts
      /\ \A q \in Runs : run[q] \in [state : RunStates, active : 0..MaxAttempts]
      /\ \A b \in Attempts : att[b] \in AttemptRecords
  BY DEF Inv, StoreInv, StoreType
<1>2. run' = [run EXCEPT ![r].state = t] /\ att' = [att EXCEPT ![a].state = t]
  BY DEF Moves
<1>3. /\ run'[r].state = t /\ run'[r].active = a
      /\ att'[a].state = t /\ att'[a].run = r
      /\ att'[a].identity = att[a].identity
  BY <1>1, <1>2 DEF AttemptRecords
<1>4. /\ \A q \in Runs : q # r => run'[q] = run[q]
      /\ \A b \in Attempts : b # a => att'[b] = att[b]
  BY <1>1, <1>2
<1>5. ASSUME a \in pins
      PROVE  PinRow(a)'
  <2>1. Owed(a)'
    BY <1>3 DEF Owed, IsActive
  <2>2. att[a].identity /\ rel[a] # "acked"
    BY <1>5 DEF PinsOwed, PinRow
  <2> QED  BY <1>3, <2>1, <2>2 DEF PinRow
<1> QED  BY <1>4, <1>5, OthersOwed DEF RowsOwed

\* What a release row becomes for an attempt that holds its pin.
LEMMA PinIsReleased ==
    ASSUME Inv, PinsOwed, NEW R \in [Attempts -> ReleaseStates],
           NEW a \in pins, R[a] # "acked"
    PROVE  insert_pin_release(R, a)[a] \in OWED_STATES
<1>1. a \in Attempts /\ att[a].identity
  BY DEF PinsOwed, PinRow, Inv, LocalType
<1>2. CASE R[a] = "none"
  BY <1>1, <1>2 DEF insert_pin_release, OWED_STATES
<1>3. CASE R[a] # "none"
  BY <1>1, <1>3 DEF insert_pin_release, OWED_STATES, ReleaseStates
<1> QED  BY <1>2, <1>3

\* The active attempt ends with its run.
LEMMA EndsOwed ==
    ASSUME Inv, Tables, PinsOwed, NEW r \in Runs, NEW a \in Attempts, NEW t,
           run[r].active = a, att[a].run = r, Moves(r, a, t),
           rel' = insert_pin_release(rel, a), t # "absent"
    PROVE  RowsOwed
<1>1. DOMAIN run = Runs /\ DOMAIN att = Attempts
      /\ \A b \in Attempts : att[b] \in AttemptRecords
      /\ rel \in [Attempts -> ReleaseStates]
  BY DEF Inv, StoreInv, StoreType
<1>2. run' = [run EXCEPT ![r].state = t] /\ att' = [att EXCEPT ![a].state = t]
  BY DEF Moves
<1>3. att'[a].state = t /\ att'[a].identity = att[a].identity
  BY <1>1, <1>2 DEF AttemptRecords
<1>4. /\ \A q \in Runs : q # r => run'[q] = run[q]
      /\ \A b \in Attempts : b # a => att'[b] = att[b]
  BY <1>1, <1>2
<1>5. ASSUME a \in pins
      PROVE  PinRow(a)'
  <2>1. att[a].identity /\ rel[a] # "acked"
    BY <1>5 DEF PinsOwed, PinRow
  <2>2. rel'[a] \in OWED_STATES
    BY <1>1, <1>5, <2>1, PinIsReleased
  <2> QED  BY <1>3, <2>1, <2>2 DEF PinRow, Owed, OWED_STATES
<1>6. \A b \in Attempts : b # a => rel'[b] = rel[b]
  BY <1>1, InsertReleaseRow
<1>7. pins \subseteq Attempts
  BY DEF Inv, LocalType
<1> QED  BY <1>4, <1>5, <1>6, <1>7, OthersOwed DEF RowsOwed

LEMMA TransitionOwed ==
    ASSUME Inv, Tables, PinsOwed, NEW r \in Runs, NEW t, NEW A,
           run[r].state # "absent", t # "absent", transition_run(r, t, A)
    PROVE  RowsOwed
<1> DEFINE a == run[r].active
<1>1. a \in Attempts /\ att[a].run = r /\ run[r].active = a
  BY DEF Tables, RunRows
<1>2. Moves(r, a, t)
  BY DEF transition_run, Moves
<1>3. CASE t \in TERMINAL_RUN_STATES
  <2>1. rel' = insert_pin_release(rel, a)
    BY <1>3 DEF transition_run
  <2> HIDE DEF a
  <2> QED  BY <1>1, <1>2, <2>1, EndsOwed
<1>4. CASE t \notin TERMINAL_RUN_STATES
  <2>1. UNCHANGED rel
    BY <1>4 DEF transition_run
  <2> HIDE DEF a
  <2> QED  BY <1>1, <1>2, <1>4, <2>1, MovesOwed
<1> QED  BY <1>3, <1>4

\* The attempt whose dispatch failed owes its pin; its paused source keeps
\* its own or owes it too.
LEMMA FailUnboundOwed ==
    ASSUME Inv, Tables, PinsOwed, NEW r \in Runs,
           CanFailUnbound(r, run[r].active), fail_unbound_run(r)
    PROVE  RowsOwed
<1>1. PICK a \in Attempts : run[r].active = a
  BY DEF CanFailUnbound, IsActive
<1>2. /\ DOMAIN run = Runs /\ DOMAIN att = Attempts
      /\ \A b \in Attempts : att[b] \in AttemptRecords
      /\ rel \in [Attempts -> ReleaseStates] /\ pins \subseteq Attempts
  BY DEF Inv, StoreInv, StoreType, LocalType
<1>3. att' = [att EXCEPT ![a].state = "failed", ![a].owner = None,
                         ![a].leased = FALSE]
  BY <1>1 DEF fail_unbound_run
<1>4. /\ att'[a].state = "failed" /\ att'[a].identity = att[a].identity
      /\ \A b \in Attempts : b # a => att'[b] = att[b]
  BY <1>1, <1>2, <1>3 DEF AttemptRecords
<1>5. \A q \in Runs : q # r => run'[q] = run[q]
  BY <1>2 DEF fail_unbound_run
<1> DEFINE R == insert_pin_release(rel, a)
<1>6. rel' = R \/ rel' = insert_paused_source_releases(R, a)
  BY <1>1 DEF fail_unbound_run
<1>7. R \in [Attempts -> ReleaseStates]
  BY <1>2, PinReleaseType
<1>8. \A b \in pins : R[b] # "acked" /\ (R[b] = rel[b] \/ R[b] \in OWED_STATES)
  <2> TAKE b \in pins
  <2>1. rel[b] # "acked" /\ b \in Attempts
    BY <1>2 DEF PinsOwed, PinRow
  <2>2. CASE b = a
    BY <1>2, <2>1, <2>2, PinIsReleased DEF OWED_STATES
  <2>3. CASE b # a
    BY <1>1, <1>2, <2>1, <2>3, InsertReleaseRow
  <2> QED  BY <2>2, <2>3
<1>9. ASSUME a \in pins
      PROVE  R[a] \in OWED_STATES
  BY <1>2, <1>9, PinIsReleased DEF PinsOwed, PinRow
<1> HIDE DEF R
<1>10. \A b \in pins : rel'[b] = R[b] \/ rel'[b] \in OWED_STATES
  <2> SUFFICES ASSUME NEW b \in pins,
                      rel' = insert_paused_source_releases(R, a)
               PROVE  rel'[b] = R[b] \/ rel'[b] \in OWED_STATES
    BY <1>6
  <2>1. b \in Attempts /\ R[b] # "acked"
    BY <1>2, <1>8
  <2>2. rel'[b] = IF paused_source_attempt(b, a)
                  THEN insert_pin_release(R, b)[b] ELSE R[b]
    BY <2>1 DEF insert_paused_source_releases
  <2> QED  BY <1>7, <2>1, <2>2, PinIsReleased
<1>11. ASSUME a \in pins
       PROVE  PinRow(a)'
  <2>1. att[a].identity
    BY <1>11 DEF PinsOwed, PinRow
  <2>2. rel'[a] \in OWED_STATES
    BY <1>9, <1>10, <1>11
  <2> QED  BY <1>4, <2>1, <2>2 DEF PinRow, Owed, OWED_STATES
<1>12. \A b \in pins : rel'[b] = rel[b] \/ rel'[b] \in OWED_STATES
  BY <1>8, <1>10
<1> QED  BY <1>1, <1>4, <1>5, <1>11, <1>12, OthersOwed DEF RowsOwed

\* A new attempt of a run that is paused, has failed, or did not exist.
LEMMA InsertsOwed ==
    ASSUME Inv, Tables, PinsOwed, NEW r \in Runs, NEW a \in Attempts, NEW rec,
           IsNextAttempt(a), Inserts(r, a, rec), UNCHANGED rel,
           run[r].state \in {"absent", "paused", "failed"}
    PROVE  RowsOwed
<1>1. /\ \A q \in Runs : q # r => run'[q] = run[q]
      /\ \A b \in Attempts : b # a => att'[b] = att[b]
  BY DEF Inserts, Inv, StoreInv, StoreType
<1> SUFFICES ASSUME NEW b \in pins
             PROVE  PinRow(b)'
  BY DEF RowsOwed
<1>2. PinRow(b) /\ b \in Attempts
  BY DEF PinsOwed, Inv, LocalType
<1>3. att'[b] = att[b]
  BY <1>1, <1>2 DEF PinRow, IsNextAttempt
<1>4. att[b].run \in Runs /\ run[att[b].run].state # "absent"
  BY <1>2, PinnedHasRun DEF PinRow
<1>5. Owed(b)'
  <2>1. CASE att[b].run = r
    <3>1. run[r].active = b => att[b].state = run[r].state
      BY <1>4, <2>1 DEF Tables, RunRows
    <3>2. rel[b] \in OWED_STATES \/ att[b].state = "paused"
      BY <1>2, <1>4, <2>1, <3>1 DEF PinRow, Owed, IsActive, TERMINAL_RUN_STATES
    <3> QED  BY <1>3, <3>2 DEF Owed
  <2>2. CASE att[b].run # r
    BY <1>1, <1>2, <1>3, <1>4, <2>2 DEF PinRow, Owed, IsActive
  <2> QED  BY <2>1, <2>2
<1> QED  BY <1>2, <1>3, <1>5 DEF PinRow

\* A guarded transition leaves a run that exists for a state of one.
LEMMA GuardedOwed ==
    ASSUME Inv, Tables, PinsOwed, NEW r \in Runs, NEW a, NEW s, NEW t, NEW A,
           t # "absent", CanTransition(r, a, s, t), transition_run(r, t, A)
    PROVE  RowsOwed
<1>1. run[r].active \in Attempts
  BY DEF CanTransition, IsActive
<1>2. run[r].state # "absent"
  BY <1>1 DEF Tables, RunExists
<1> QED  BY <1>2, TransitionOwed

LEMMA EndConvergingOwed ==
    ASSUME Inv, Tables, PinsOwed, NEW r \in Runs, end_converging(r)
    PROVE  RowsOwed
<1>1. STALLED_TERMINALS[run[r].state] # "absent"
  BY DEF end_converging, STALLED_STATES, STALLED_TERMINALS
<1> QED  BY <1>1, GuardedOwed DEF end_converging

\* Each group of actions.
LEMMA OperatorOwed ==
    ASSUME Inv, Tables, PinsOwed, Operator
    PROVE  RowsOwed
<1> PICK r \in Runs :
       \/ create_run(r) \/ request_pause(r) \/ request_cancel(r)
       \/ converge_cancellation(r) \/ resume_run(r) \/ retry_run(r)
       \/ \E a \in Attempts : resolve_decision(r, a)
  BY DEF Operator
<1>0. /\ run[r].state \in RunStates
      /\ run[r].state # "absent" => /\ run[r].active \in Attempts
                                    /\ att[run[r].active].run = r
  BY DEF Tables, RunRows, Inv, StoreInv, StoreType
<1>m. ASSUME NEW t \in {"pause_requested", "cancel_requested", "resuming"},
             run[r].state # "absent", Moves(r, run[r].active, t), UNCHANGED rel
      PROVE  RowsOwed
  <2>1. t \notin TERMINAL_RUN_STATES \cup {"absent"}
    BY DEF TERMINAL_RUN_STATES
  <2> QED  BY <1>0, <1>m, <2>1, MovesOwed
<1>1. CASE create_run(r)
  <2> DEFINE rec == NewAttempt(r, "queued", {}, FALSE)
  <2>1. rec.state = "queued"
    BY DEF NewAttempt
  <2> HIDE DEF rec
  <2>2. PICK a \in Attempts : IsNextAttempt(a) /\ Inserts(r, a, rec)
    BY <1>1, <2>1 DEF create_run, Inserts, rec
  <2>3. UNCHANGED rel /\ run[r].state = "absent"
    BY <1>1 DEF create_run
  <2> QED  BY <2>2, <2>3, InsertsOwed
<1>2. CASE resume_run(r) \/ retry_run(r)
  <2>1. PICK source \in {"paused", "failed"}, t \in {"resuming", "retrying"} :
           restart_attempt(r, source, t)
    BY <1>2 DEF resume_run, retry_run
  <2> DEFINE p == run[r].active
             rec == NewAttempt(r, t, att[p].lineage \cup {p},
                               att[p].ckpt \/ att[p].srcCkpt)
  <2>2. rec.state = t
    BY DEF NewAttempt
  <2>3. \E a \in Attempts :
           /\ IsNextAttempt(a)
           /\ run' = [run EXCEPT ![r] = [state |-> t, active |-> a]]
           /\ att' = [att EXCEPT ![a] = rec]
    BY <2>1 DEF restart_attempt
  <2> HIDE DEF rec
  <2>4. PICK a \in Attempts : IsNextAttempt(a) /\ Inserts(r, a, rec)
    BY <2>2, <2>3 DEF Inserts
  <2>5. UNCHANGED rel /\ run[r].state \in {"paused", "failed"}
    BY <2>1 DEF restart_attempt
  <2> QED  BY <2>4, <2>5, InsertsOwed
<1>3. CASE request_pause(r)
  <2>1. Moves(r, run[r].active, "pause_requested") /\ UNCHANGED rel
    BY <1>3 DEF request_pause, Moves
  <2>2. run[r].state # "absent"
    BY <1>0, <1>3, TransitionEdges DEF request_pause
  <2> QED  BY <1>m, <2>1, <2>2
<1>4. CASE request_cancel(r)
  <2>1. Moves(r, run[r].active, "cancel_requested") /\ UNCHANGED rel
    BY <1>4 DEF request_cancel, Moves
  <2>2. run[r].state # "absent"
    BY <1>0, <1>4, TransitionEdges DEF request_cancel
  <2> QED  BY <1>m, <2>1, <2>2
<1>5. ASSUME NEW a \in Attempts, resolve_decision(r, a)
      PROVE  RowsOwed
  <2>1. run[r].state = "waiting_for_decision" /\ dec[a] > 0 /\ att[a].run = r
    BY <1>5 DEF resolve_decision
  <2>2. run[r].active = a
    BY <2>1 DEF Tables, DecisionRows
  <2>3. Moves(r, a, "resuming") /\ UNCHANGED rel
    BY <1>5 DEF resolve_decision, Moves
  <2> QED  BY <1>m, <2>1, <2>2, <2>3
<1>6. CASE converge_cancellation(r)
  BY <1>6, FailUnboundOwed DEF converge_cancellation
<1> QED  BY <1>1, <1>2, <1>3, <1>4, <1>5, <1>6

LEMMA TerminalOwed ==
    ASSUME Inv, Tables, PinsOwed, NEW w \in Dispatchers,
           NEW e \in TERMINAL_RUN_STATES, event_terminal(w, e)
    PROVE  RowsOwed
<1>1. disp[w].run \in Runs
  BY DEF event_terminal, Inv, DispatchInv, DispatchHasRun
<1>2. PICK c \in confirm_runtime_resume_from_event(disp[w].run, disp[w].att) :
         /\ CanTransition(disp[w].run, disp[w].att, c[1], TerminalTarget(c[1], e))
         /\ transition_run(disp[w].run, TerminalTarget(c[1], e), c[2])
  BY DEF event_terminal
<1>3. TerminalTarget(c[1], e) # "absent"
  BY DEF TerminalTarget, TERMINAL_RUN_STATES
<1> QED  BY <1>1, <1>2, <1>3, GuardedOwed

LEMMA ProgressOwed ==
    ASSUME Inv, Tables, PinsOwed, NEW w \in Dispatchers,
           \/ event_progress(w)
           \/ create_decision(disp[w].run, disp[w].att) /\ disp[w].pc = "stream"
    PROVE  RowsOwed
<1> DEFINE r == disp[w].run
           a == disp[w].att
<1>1. /\ r \in Runs /\ a \in Attempts /\ run[r].active = a /\ rel' = rel
  BY DEF event_progress, record_runtime_observation, create_decision, IsActive,
         Inv, DispatchInv, DispatchHasRun
<1>2. att[a].run = r
  BY <1>1 DEF Tables, RunExists, RunRows
<1>3. CASE event_progress(w)
  <2>1. PICK c \in confirm_runtime_resume_from_event(r, a) :
           /\ run' = [run EXCEPT ![r].state = c[1]]
           /\ att' = [att EXCEPT ![a].state = c[1]]
    BY <1>3 DEF event_progress, record_runtime_observation
  <2>2. c[1] = "running"
    BY <1>1, <1>3, <2>1, ConfirmedResume DEF Inv, event_progress
  <2>3. Moves(r, a, "running")
    BY <2>1, <2>2 DEF Moves
  <2> HIDE DEF r, a
  <2> QED  BY <1>1, <1>2, <2>3, MovesOwed DEF TERMINAL_RUN_STATES
<1>4. CASE create_decision(r, a)
  <2>1. Moves(r, a, "waiting_for_decision")
    BY <1>4 DEF create_decision, Moves
  <2> HIDE DEF r, a
  <2> QED  BY <1>1, <1>2, <2>1, MovesOwed DEF TERMINAL_RUN_STATES
<1> QED  BY <1>3, <1>4

LEMMA AfterBindingOwed ==
    ASSUME Inv, Tables, PinsOwed, NEW w \in Dispatchers,
           \/ start_attempt(w) \/ fail_after_binding(w) \/ event_started(w)
           \/ event_progress(w) \/ event_decision(w) \/ stream_ends_parked(w)
           \/ \E e \in TERMINAL_RUN_STATES : event_terminal(w, e)
           \/ commit_checkpoint(w) \/ event_paused(w)
           \/ end_quiet_after_control(w) \/ turn_timeout(w) \/ end_timed_out(w)
    PROVE  RowsOwed
<1> DEFINE r == disp[w].run
           a == disp[w].att
<1>0. disp[w].pc # "idle" => r \in Runs /\ a \in Attempts
  BY DEF Inv, DispatchInv, DispatchHasRun
<1>s. ASSUME UNCHANGED store
      PROVE  RowsOwed
  BY <1>s, StoreSameOwed DEF store
<1>1. CASE start_attempt(w)
  BY <1>0, <1>1, GuardedOwed DEF start_attempt
<1>2. CASE fail_after_binding(w)
  <2>1. r \in Runs
    BY <1>0, <1>2 DEF fail_after_binding
  <2>2. \/ UNCHANGED store
        \/ \E t \in {"failed", "canceled"} :
              CanTransition(r, a, run[r].state, t) /\ transition_run(r, t, act)
    BY <1>2 DEF fail_after_binding
  <2> HIDE DEF r, a
  <2> QED  BY <1>s, <2>1, <2>2, GuardedOwed
<1>3. CASE event_started(w)
  <2>1. r \in Runs
    BY <1>0, <1>3 DEF event_started
  <2>2. \E t \in {"canceled", "running"} :
           CanTransition(r, a, run[r].state, t) /\ transition_run(r, t, act)
    BY <1>3 DEF event_started
  <2> HIDE DEF r, a
  <2> QED  BY <2>1, <2>2, GuardedOwed
<1>4. CASE event_decision(w)
  BY <1>0, <1>4, GuardedOwed, ProgressOwed DEF event_decision
<1>5. CASE event_paused(w)
  BY <1>0, <1>5, GuardedOwed DEF event_paused
<1>6. CASE commit_checkpoint(w)
  <2>1. /\ a \in Attempts /\ UNCHANGED <<run, rel>>
        /\ att' = [att EXCEPT ![a].ckpt = TRUE]
    BY <1>0, <1>6 DEF commit_checkpoint
  <2>2. /\ DOMAIN att = Attempts /\ \A b \in Attempts : att[b] \in AttemptRecords
        /\ pins \subseteq Attempts
    BY DEF Inv, StoreInv, StoreType, LocalType
  <2> HIDE DEF a
  <2>3. /\ \A b \in Attempts : b # a => att'[b] = att[b]
        /\ att'[a] = [att[a] EXCEPT !.ckpt = TRUE] /\ att[a] \in AttemptRecords
    BY <2>1, <2>2
  <2>4. /\ att'[a].run = att[a].run /\ att'[a].state = att[a].state
        /\ att'[a].identity = att[a].identity
    BY <2>3 DEF AttemptRecords
  <2> QED  BY <2>1, <2>2, <2>3, <2>4, SameOwed
<1>7. CASE end_quiet_after_control(w)
  <2>1. r \in Runs /\ (end_converging(r) \/ UNCHANGED store)
    BY <1>0, <1>7 DEF end_quiet_after_control
  <2> QED  BY <1>s, <2>1, EndConvergingOwed
<1>8. CASE end_timed_out(w)
  <2>1. r \in Runs
    BY <1>0, <1>8 DEF end_timed_out
  <2>2. \/ UNCHANGED store
        \/ run[r].state # "absent" /\ transition_run(r, "failed", act)
    BY <1>8 DEF end_timed_out
  <2> HIDE DEF r
  <2> QED  BY <1>s, <2>1, <2>2, TransitionOwed
<1>9. CASE turn_timeout(w) \/ stream_ends_parked(w)
  BY <1>9, <1>s DEF turn_timeout, stream_ends_parked
<1> QED  BY <1>1, <1>2, <1>3, <1>4, <1>5, <1>6, <1>7, <1>8, <1>9,
            ProgressOwed, TerminalOwed

LEMMA BridgeOwed ==
    ASSUME Inv, Tables, PinsOwed, NEW r \in Runs,
           \/ abandon(r) \/ sweep_stalled(r) \/ refuse_undriven(r)
           \/ recover_sweep(r) \/ recover_bound_inactive(r)
           \/ defer_recoverable(r) \/ recover_manual(r) \/ recover_unbound(r)
    PROVE  RowsOwed
<1>1. UNCHANGED store => RowsOwed
  BY StoreSameOwed DEF store
<1>2. \/ UNCHANGED store \/ end_converging(r)
      \/ CanFailUnbound(r, run[r].active) /\ fail_unbound_run(r)
      \/ \E t \in {"failed", "canceled"} :
            /\ CanTransition(r, run[r].active, run[r].state, t)
            /\ transition_run(r, t, act)
  <2>1. CASE abandon(r)
    BY <2>1 DEF abandon
  <2>2. CASE sweep_stalled(r) \/ refuse_undriven(r) \/ recover_sweep(r)
    BY <2>2 DEF sweep_stalled, refuse_undriven, recover_sweep, converge_stalled
  <2>3. CASE recover_bound_inactive(r) \/ defer_recoverable(r)
    BY <2>3 DEF recover_bound_inactive, defer_recoverable
  <2>4. CASE recover_manual(r) \/ recover_unbound(r)
    BY <2>4 DEF recover_manual, recover_unbound
  <2> QED  BY <2>1, <2>2, <2>3, <2>4
<1> QED  BY <1>1, <1>2, FailUnboundOwed, EndConvergingOwed, GuardedOwed

LEMMA DeliveryOwed ==
    ASSUME Inv, Tables, PinsOwed, NEW x \in Actions,
           \/ claim_runtime_action(x) \/ runtime_accepts(x)
           \/ acknowledge_runtime_action(x) \/ reject_runtime_action(x)
           \/ fail_runtime_action(x) \/ mark_runtime_action_outcome_unknown(x)
           \/ claim_runtime_action_reconciliation(x)
           \/ retry_runtime_action_delivery(x)
           \/ defer_runtime_action_reconciliation(x) \/ claim_expires(x)
    PROVE  RowsOwed
<1> DEFINE r == RunOf(x)
           a == act[x].att
<1>1. /\ act[x].st = "pending" /\ a \in Attempts /\ r \in Runs
      /\ run[r].active = a /\ att[a].run = r
  <2>1. act[x].st = "pending" /\ act[x] \in ActionRecords
    BY DEF claim_runtime_action, runtime_accepts, acknowledge_runtime_action,
           reject_runtime_action, fail_runtime_action, claim_expires, Claimed,
           mark_runtime_action_outcome_unknown,
           claim_runtime_action_reconciliation, retry_runtime_action_delivery,
           defer_runtime_action_reconciliation, Inv, StoreInv, StoreType
  <2>2. a \in Attempts
    BY <2>1 DEF ActionRecords
  <2>3. att[a].bound /\ run[att[a].run].active = a
    BY <2>1 DEF Tables, ActionRows
  <2> QED  BY <2>1, <2>2, <2>3, BoundHasRun DEF RunOf
<1>2. ASSUME UNCHANGED <<att, rel>>, run' = [run EXCEPT ![r].state = run[r].state]
      PROVE  RowsOwed
  <2>1. run \in [Runs -> [state : RunStates, active : 0..MaxAttempts]]
    BY DEF Inv, StoreInv, StoreType
  <2>2. run' = run
    BY <1>1, <1>2, <2>1
  <2> QED  BY <1>2, <2>2, StoreSameOwed
<1>3. ASSUME Moves(r, a, "running"), UNCHANGED rel
      PROVE  RowsOwed
  <2> HIDE DEF r, a
  <2> QED  BY <1>1, <1>3, MovesOwed DEF TERMINAL_RUN_STATES
<1>4. CASE acknowledge_runtime_action(x)
  <2>1. \/ UNCHANGED <<att, rel>> /\ run' = [run EXCEPT ![r].state = run[r].state]
        \/ Moves(r, a, "running") /\ UNCHANGED rel
    BY <1>4 DEF acknowledge_runtime_action, SettleAction, Moves
  <2> HIDE DEF r, a
  <2> QED  BY <1>2, <1>3, <2>1
<1>5. CASE reject_runtime_action(x)
  <2>1. \/ UNCHANGED <<att, rel>> /\ run' = [run EXCEPT ![r].state = run[r].state]
        \/ Moves(r, a, "running") /\ UNCHANGED rel
    BY <1>5 DEF reject_runtime_action, SettleAction, Moves
  <2> HIDE DEF r, a
  <2> QED  BY <1>2, <1>3, <2>1
<1>6. CASE fail_runtime_action(x)
  <2>1. Moves(r, a, "failed") /\ rel' = insert_pin_release(rel, a)
    BY <1>6 DEF fail_runtime_action, Moves
  <2> HIDE DEF r, a
  <2> QED  BY <1>1, <2>1, EndsOwed
<1>7. CASE ~(\/ acknowledge_runtime_action(x) \/ reject_runtime_action(x)
             \/ fail_runtime_action(x))
  <2>1. UNCHANGED <<run, att, rel>>
    BY <1>7 DEF claim_runtime_action, runtime_accepts, claim_expires,
                mark_runtime_action_outcome_unknown,
                claim_runtime_action_reconciliation,
                retry_runtime_action_delivery,
                defer_runtime_action_reconciliation
  <2> QED  BY <2>1, StoreSameOwed
<1> QED  BY <1>4, <1>5, <1>6, <1>7

\* Pin releases, leases, and a crash: a release is acknowledged when its pin
\* is gone.
LEMMA ReleaseOwed ==
    ASSUME Inv, Tables, PinsOwed, NEW a \in Attempts,
           \/ claim_pin_release(a) \/ finish_attempt(a)
           \/ acknowledge_pin_release(a) \/ fail_pin_release(a)
           \/ retry_pin_release(a) \/ release_claim_expires(a)
           \/ dispatch_lease_expires(a)
    PROVE  RowsOwed
<1>0. /\ DOMAIN att = Attempts /\ \A b \in Attempts : att[b] \in AttemptRecords
      /\ rel \in [Attempts -> ReleaseStates] /\ pins \subseteq Attempts
  BY DEF Inv, StoreInv, StoreType, LocalType
<1>1. CASE finish_attempt(a)
  BY <1>1, StoreSameOwed DEF finish_attempt, store
<1>2. CASE dispatch_lease_expires(a)
  <2>1. att' = [att EXCEPT ![a].leased = FALSE] /\ UNCHANGED <<run, rel>>
    BY <1>2 DEF dispatch_lease_expires
  <2>2. /\ \A b \in Attempts : b # a => att'[b] = att[b]
        /\ att'[a] = [att[a] EXCEPT !.leased = FALSE] /\ att[a] \in AttemptRecords
    BY <1>0, <2>1
  <2>3. /\ att'[a].run = att[a].run /\ att'[a].state = att[a].state
        /\ att'[a].identity = att[a].identity
    BY <2>2 DEF AttemptRecords
  <2> QED  BY <1>0, <2>1, <2>2, <2>3, SameOwed
<1>3. CASE ~finish_attempt(a) /\ ~dispatch_lease_expires(a)
  <2>1. /\ UNCHANGED <<run, att>>
        /\ \E s \in ReleaseStates : /\ rel' = [rel EXCEPT ![a] = s]
                                    /\ s \in OWED_STATES \/ a \notin pins
    BY <1>3 DEF claim_pin_release, acknowledge_pin_release, fail_pin_release,
                retry_pin_release, release_claim_expires, SettleRelease,
                ReleaseStates, OWED_STATES
  <2>2. \A b \in pins : rel'[b] = rel[b] \/ rel'[b] \in OWED_STATES
    BY <1>0, <2>1
  <2> QED  BY <2>1, <2>2, SameOwed
<1> QED  BY <1>1, <1>2, <1>3

LEMMA CrashOwed ==
    ASSUME Inv, Tables, PinsOwed, crash
    PROVE  RowsOwed
<1>1. /\ \A b \in Attempts : att'[b] = [att[b] EXCEPT !.leased = FALSE]
      /\ \A b \in Attempts : att[b] \in AttemptRecords
      /\ pins \subseteq Attempts /\ run' = run
  BY DEF crash, Inv, StoreInv, StoreType, LocalType
<1>2. \A b \in Attempts :
         /\ att'[b].run = att[b].run /\ att'[b].state = att[b].state
         /\ att'[b].identity = att[b].identity
  BY <1>1 DEF AttemptRecords
<1>3. \A b \in Attempts : rel'[b] = rel[b] \/ rel'[b] \in OWED_STATES
  BY DEF crash, OWED_STATES
<1> QED  BY <1>1, <1>2, <1>3, SameOwed

LEMMA BeforeBindingOwed ==
    ASSUME Inv, Tables, PinsOwed, NEW w \in Dispatchers,
           \/ \E r \in Runs : reserve_attempt_dispatch(w, r)
           \/ pin_attempt(w) \/ fail_before_binding(w) \/ pin_attempt_runtime(w)
    PROVE  RowsOwed
<1>0. /\ DOMAIN att = Attempts /\ \A b \in Attempts : att[b] \in AttemptRecords
      /\ rel \in [Attempts -> ReleaseStates] /\ pins \subseteq Attempts
      /\ disp[w].pc # "idle" => disp[w].run \in Runs /\ disp[w].att \in Attempts
  BY DEF Inv, StoreInv, StoreType, LocalType, DispatchInv, DispatchHasRun
<1>1. ASSUME NEW r \in Runs, reserve_attempt_dispatch(w, r)
      PROVE  RowsOwed
  <2>1. PICK a \in Attempts :
           att' = [att EXCEPT ![a].owner = w, ![a].leased = TRUE,
                              ![a].identity = TRUE]
    BY <1>1 DEF reserve_attempt_dispatch
  <2>2. /\ \A b \in Attempts : b # a => att'[b] = att[b]
        /\ att'[a] = [att[a] EXCEPT !.owner = w, !.leased = TRUE,
                                    !.identity = TRUE]
        /\ att[a] \in AttemptRecords
    BY <1>0, <2>1
  <2>3. /\ att'[a].run = att[a].run /\ att'[a].state = att[a].state
        /\ att'[a].identity
    BY <2>2 DEF AttemptRecords
  <2>4. \A b \in pins : att[b].identity /\ b \in Attempts
    BY <1>0 DEF PinsOwed, PinRow
  <2>5. \A b \in pins : att'[b].identity = att[b].identity
    <3>1. att[a].identity \in BOOLEAN /\ att'[a].identity \in BOOLEAN
      BY <2>2 DEF AttemptRecords
    <3> QED  BY <2>2, <2>3, <2>4, <3>1
  <2>6. UNCHANGED <<run, rel>>
    BY <1>1 DEF reserve_attempt_dispatch
  <2> QED  BY <2>2, <2>3, <2>4, <2>5, <2>6, SameOwed
<1>2. CASE pin_attempt(w)
  BY <1>2, StoreSameOwed DEF pin_attempt, store
<1>3. CASE fail_before_binding(w)
  <2>1. CASE UNCHANGED store
    BY <2>1, StoreSameOwed DEF store
  <2>2. CASE /\ CanFailUnbound(disp[w].run, disp[w].att)
             /\ fail_unbound_run(disp[w].run)
    <3>1. disp[w].att = run[disp[w].run].active /\ disp[w].run \in Runs
      BY <1>0, <1>3, <2>2 DEF CanFailUnbound, IsActive, fail_before_binding
    <3> QED  BY <2>2, <3>1, FailUnboundOwed
  <2> QED  BY <1>3, <2>1, <2>2 DEF fail_before_binding
<1>4. CASE pin_attempt_runtime(w)
  <2>1. PICK a \in Attempts :
           /\ att' = [att EXCEPT ![a].bound = TRUE, ![a].owner = None,
                                 ![a].leased = FALSE]
           /\ rel' = insert_paused_source_releases(rel, a)
    BY <1>0, <1>4 DEF pin_attempt_runtime
  <2>2. /\ \A b \in Attempts : b # a => att'[b] = att[b]
        /\ att'[a] = [att[a] EXCEPT !.bound = TRUE, !.owner = None,
                                    !.leased = FALSE]
        /\ att[a] \in AttemptRecords
    BY <1>0, <2>1
  <2>3. /\ att'[a].run = att[a].run /\ att'[a].state = att[a].state
        /\ att'[a].identity = att[a].identity
    BY <2>2 DEF AttemptRecords
  <2>4. \A b \in pins : rel'[b] = rel[b] \/ rel'[b] \in OWED_STATES
    <3> TAKE b \in pins
    <3>1. b \in Attempts /\ rel[b] # "acked"
      BY <1>0 DEF PinsOwed, PinRow
    <3>2. rel'[b] = IF paused_source_attempt(b, a)
                    THEN insert_pin_release(rel, b)[b] ELSE rel[b]
      BY <2>1, <3>1 DEF insert_paused_source_releases
    <3> QED  BY <1>0, <3>1, <3>2, PinIsReleased
  <2>5. UNCHANGED run
    BY <1>4 DEF pin_attempt_runtime
  <2> QED  BY <1>0, <2>2, <2>3, <2>4, <2>5, SameOwed
<1> QED  BY <1>1, <1>2, <1>3, <1>4

\* While a call holds a reserved attempt, its run is the thread's active one
\* and no other run or action moves.
LEMMA ReservedFacts ==
    ASSUME Inv, Tables, NEW w \in Dispatchers,
           disp[w].pc = "reserved", Reserved(w)
    PROVE  LET r == disp[w].run   a == disp[w].att IN
           /\ r \in Runs /\ a \in Attempts /\ run[r].active = a /\ Driven(r)
           /\ run[r].state \in DISPATCHABLE_RUN_STATES \cup {"cancel_requested"}
           /\ ~att[a].bound /\ att[a].owner # None /\ active = r
           /\ \A q \in Runs : q # r =>
                 run[q].state \in TERMINAL_RUN_STATES \cup {"absent"}
           /\ \A x \in Actions : act[x].st # "pending"
<1> DEFINE r == disp[w].run
           a == disp[w].att
<1>1. /\ r \in Runs /\ a \in Attempts /\ run[r].active = a /\ Driven(r)
      /\ run[r].state \in DISPATCHABLE_RUN_STATES \cup {"cancel_requested"}
      /\ ~att[a].bound /\ att[a].owner # None
  BY ConstantsAssumption DEF Inv, DispatchInv, DispatchHasRun, Reserved,
     CanFailUnbound, IsActive, Driven
<1>2. run[r].state \notin TERMINAL_RUN_STATES \cup {"absent"}
  BY <1>1 DEF DISPATCHABLE_RUN_STATES, TERMINAL_RUN_STATES
<1> HIDE DEF r, a
<1>3. /\ active = r
      /\ \A q \in Runs : q # r =>
            run[q].state \in TERMINAL_RUN_STATES \cup {"absent"}
      /\ \A x \in Actions : act[x].st # "pending"
  BY <1>1, <1>2, OnlyActive
<1> QED  BY <1>1, <1>3 DEF r, a

LEMMA ReservedKept ==
    ASSUME NEW w \in Dispatchers, disp[w].pc = "reserved", Reserved(w),
           disp'[w] = disp[w],
           run'[disp[w].run].active = run[disp[w].run].active,
           run'[disp[w].run].state
              \in DISPATCHABLE_RUN_STATES \cup {"cancel_requested"},
           att'[disp[w].att].bound = att[disp[w].att].bound,
           att'[disp[w].att].owner = att[disp[w].att].owner,
           att'[disp[w].att].identity = att[disp[w].att].identity,
           rel'[disp[w].att] = rel[disp[w].att]
    PROVE  Reserved(w)'
BY DEF Reserved, CanFailUnbound, IsActive

LEMMA StoreReserved ==
    ASSUME Inv, Tables, NEW w \in Dispatchers,
           disp[w].pc = "reserved", Reserved(w), disp'[w] = disp[w],
           UNCHANGED <<run, att, rel>>
    PROVE  Reserved(w)'
BY ReservedFacts, ReservedKept

LEMMA OperatorReserved ==
    ASSUME Inv, Tables, NEW w \in Dispatchers,
           disp[w].pc = "reserved", Reserved(w), Operator
    PROVE  Reserved(w)'
<1> DEFINE s == disp[w].run
           a == disp[w].att
<1>0. /\ s \in Runs /\ a \in Attempts /\ run[s].active = a
      /\ run[s].state \in DISPATCHABLE_RUN_STATES \cup {"cancel_requested"}
      /\ ~att[a].bound /\ att[a].owner # None /\ active = s
      /\ \A q \in Runs : q # s =>
            run[q].state \in TERMINAL_RUN_STATES \cup {"absent"}
  BY ReservedFacts
<1> PICK r \in Runs :
       \/ create_run(r) \/ request_pause(r) \/ request_cancel(r)
       \/ converge_cancellation(r) \/ resume_run(r) \/ retry_run(r)
       \/ \E b \in Attempts : resolve_decision(r, b)
  BY DEF Operator
<1>1. /\ run \in [Runs -> [state : RunStates, active : 0..MaxAttempts]]
      /\ DOMAIN att = Attempts /\ att[a] \in AttemptRecords
  BY <1>0 DEF Inv, StoreInv, StoreType
<1>2. s # None
  BY <1>0, ConstantsAssumption
<1>3. CASE create_run(r)
  BY <1>0, <1>2, <1>3
     DEF create_run, DISPATCHABLE_RUN_STATES, TERMINAL_RUN_STATES
<1>4. CASE resume_run(r) \/ retry_run(r)
  BY <1>0, <1>2, <1>4 DEF resume_run, retry_run, restart_attempt,
                          DISPATCHABLE_RUN_STATES
<1>5. CASE request_pause(r)
  <2>1. run[r].state = "running"
    BY <1>1, <1>5 DEF request_pause, RUN_TRANSITIONS, RunStates
  <2> QED  BY <1>0, <2>1 DEF DISPATCHABLE_RUN_STATES, TERMINAL_RUN_STATES
<1>6. CASE request_cancel(r)
  <2>1. run[r].state \notin TERMINAL_RUN_STATES \cup {"absent"}
    BY <1>1, <1>6, TransitionEdges DEF request_cancel
  <2>2. r = s
    BY <1>0, <2>1
  <2>3. /\ run' = [run EXCEPT ![s].state = "cancel_requested"]
        /\ att' = [att EXCEPT ![a].state = "cancel_requested"]
        /\ UNCHANGED <<rel, disp>>
    BY <1>0, <1>6, <2>2 DEF request_cancel, local
  <2>4. run'[s].active = run[s].active /\ run'[s].state = "cancel_requested"
    BY <1>0, <1>1, <2>3
  <2>5. /\ att'[a].bound = att[a].bound /\ att'[a].owner = att[a].owner
        /\ att'[a].identity = att[a].identity
    BY <1>0, <1>1, <2>3 DEF AttemptRecords
  <2> QED  BY <2>3, <2>4, <2>5, ReservedKept
<1>7. ASSUME NEW b \in Attempts, resolve_decision(r, b)
      PROVE  FALSE
  BY <1>0, <1>7
     DEF resolve_decision, DISPATCHABLE_RUN_STATES, TERMINAL_RUN_STATES
<1>8. CASE converge_cancellation(r)
  BY <1>0, <1>8
     DEF converge_cancellation, DISPATCHABLE_RUN_STATES, TERMINAL_RUN_STATES
<1> QED  BY <1>3, <1>4, <1>5, <1>6, <1>7, <1>8

\* The bridge leaves a run alone that a call drives.
LEMMA BridgeReserved ==
    ASSUME Inv, Tables, NEW w \in Dispatchers,
           disp[w].pc = "reserved", Reserved(w), Bridge
    PROVE  Reserved(w)'
<1> DEFINE s == disp[w].run
<1>0. /\ s \in Runs /\ Driven(s) /\ active = s
      /\ \A q \in Runs : q # s =>
            run[q].state \in TERMINAL_RUN_STATES \cup {"absent"}
  BY ReservedFacts
<1> PICK r \in Runs : abandon(r) \/ sweep_stalled(r) \/ refuse_undriven(r)
  BY DEF Bridge
<1>1. ~abandon(r) /\ ~refuse_undriven(r)
  BY <1>0 DEF abandon, refuse_undriven
<1>2. sweep_stalled(r)
  BY <1>1
<1>3. ~(run[r].state \in STALLED_STATES /\ converge_stalled(r))
  BY <1>0 DEF converge_stalled, STALLED_STATES, STALLED_TERMINALS,
              TERMINAL_RUN_STATES
<1>4. UNCHANGED <<run, att, rel>> /\ disp' = disp
  BY <1>2, <1>3 DEF sweep_stalled, store
<1> QED  BY <1>4, StoreReserved

LEMMA PinsReserved ==
    ASSUME Inv, Tables, NEW w \in Dispatchers,
           disp[w].pc = "reserved", Reserved(w), Pins
    PROVE  Reserved(w)'
<1> DEFINE a == disp[w].att
<1>0. /\ a \in Attempts /\ rel[a] = "none"
      /\ run[disp[w].run].state \in DISPATCHABLE_RUN_STATES \cup {"cancel_requested"}
  BY ReservedFacts DEF Reserved
<1>1. /\ DOMAIN att = Attempts /\ \A b \in Attempts : att[b] \in AttemptRecords
      /\ rel \in [Attempts -> ReleaseStates]
  BY DEF Inv, StoreInv, StoreType
<1> PICK b \in Attempts :
       \/ deliver_pending_pin_releases(b) \/ retry_pin_release(b)
       \/ release_claim_expires(b) \/ dispatch_lease_expires(b)
  BY DEF Pins
<1>2. CASE finish_attempt(b)
  BY <1>2, StoreReserved DEF finish_attempt, store
<1>3. CASE dispatch_lease_expires(b)
  <2>1. att' = [att EXCEPT ![b].leased = FALSE] /\ UNCHANGED <<run, rel, disp>>
    BY <1>3 DEF dispatch_lease_expires, local
  <2>2. /\ att'[a].bound = att[a].bound /\ att'[a].owner = att[a].owner
        /\ att'[a].identity = att[a].identity
    BY <1>0, <1>1, <2>1 DEF AttemptRecords
  <2> QED  BY <1>0, <2>1, <2>2, ReservedKept
<1>4. CASE ~finish_attempt(b) /\ ~dispatch_lease_expires(b)
  <2>1. /\ rel[b] # "none" /\ UNCHANGED <<run, att, disp>>
        /\ \E t \in ReleaseStates : rel' = [rel EXCEPT ![b] = t]
    BY <1>4 DEF deliver_pending_pin_releases, claim_pin_release,
                acknowledge_pin_release, fail_pin_release, retry_pin_release,
                release_claim_expires, SettleRelease, local, ReleaseStates
  <2>2. rel'[a] = rel[a]
    BY <1>0, <1>1, <2>1
  <2> QED  BY <1>0, <2>1, <2>2, ReservedKept
<1> QED  BY <1>2, <1>3, <1>4

\* A call that goes on no longer holds a reservation.
LEMMA DispatchLeaves ==
    ASSUME Inv, NEW w \in Dispatchers, Dispatch(w),
           ~\E r \in Runs : reserve_attempt_dispatch(w, r)
    PROVE  disp'[w].pc # "reserved"
<1>1. disp \in [Dispatchers -> [pc : Phases, run : Runs \cup {None},
                                att : 0..MaxAttempts]]
  BY DEF Inv, LocalType
<1>2. \/ EndTurn(w)
      \/ \E pc \in {"pinned", "bound", "execute", "stream", "parked", "timedout"} :
            disp' = [disp EXCEPT ![w].pc = pc]
      \/ disp[w].pc = "stream" /\ disp' = disp
  BY DEF Dispatch, pin_attempt, fail_before_binding, pin_attempt_runtime,
         start_attempt, fail_after_binding, event_started, event_progress,
         event_decision, stream_ends_parked, event_terminal, commit_checkpoint,
         event_paused, end_quiet_after_control, turn_timeout, end_timed_out,
         Goto, local
<1>3. CASE EndTurn(w)
  BY <1>1, <1>3 DEF EndTurn, Idle
<1> QED  BY <1>1, <1>2, <1>3

LEMMA ReservesNext ==
    ASSUME OneDispatcher, Inv, Tables, PinInv, OwedInv, [Next]_vars
    PROVE  Reserves'
<1> SUFFICES ASSUME NEW w \in Dispatchers, disp'[w].pc = "reserved"
             PROVE  Reserved(w)'
  BY DEF Reserves
<1>0. disp[w].pc = "reserved" => Reserved(w) /\ recovering = {}
  BY DEF OwedInv, Reserves, PassBetweenTurns
<1>1. ASSUME NEW r \in Runs, reserve_attempt_dispatch(w, r)
      PROVE  Reserved(w)'
  <2> DEFINE a == run[r].active
  <2>1. /\ a \in Attempts /\ run[r].state \in DISPATCHABLE_RUN_STATES
        /\ ~att[a].bound /\ UNCHANGED <<run, rel>>
        /\ att' = [att EXCEPT ![a].owner = w, ![a].leased = TRUE,
                              ![a].identity = TRUE]
        /\ disp' = [disp EXCEPT ![w] = [pc |-> "reserved", run |-> r,
                                        att |-> a]]
    BY <1>1 DEF reserve_attempt_dispatch
  <2>2. att[a].state = run[r].state
    BY <2>1 DEF Tables, RunRows, DISPATCHABLE_RUN_STATES
  <2>3. rel[a] = "none"
    BY <2>1, <2>2 DEF PinInv, ReleaseRows, Checkpointed, TERMINAL_RUN_STATES,
                      DISPATCHABLE_RUN_STATES
  <2>4. /\ DOMAIN att = Attempts /\ att[a] \in AttemptRecords
        /\ DOMAIN disp = Dispatchers
    BY <2>1 DEF Inv, StoreInv, StoreType, LocalType
  <2>5. att'[a] = [att[a] EXCEPT !.owner = w, !.leased = TRUE, !.identity = TRUE]
    BY <2>1, <2>4
  <2>6. att'[a].owner = w /\ att'[a].identity /\ att'[a].bound = att[a].bound
    BY <2>4, <2>5 DEF AttemptRecords
  <2>7. disp'[w].run = r /\ disp'[w].att = a
    BY <2>1, <2>4
  <2> QED  BY <2>1, <2>3, <2>6, <2>7 DEF Reserved, CanFailUnbound, IsActive
<1>2. CASE Operator
  <2>1. disp' = disp
    BY <1>2 DEF Operator, create_run, request_pause, request_cancel,
                converge_cancellation, resume_run, retry_run, restart_attempt,
                resolve_decision, local
  <2> QED  BY <1>0, <1>2, <2>1, OperatorReserved
<1>3. ASSUME NEW v \in Dispatchers, Dispatch(v)
      PROVE  Reserved(w)'
  <2>1. v = w
    BY DEF OneDispatcher
  <2> QED  BY <1>1, <1>3, <2>1, DispatchLeaves
<1>4. CASE Bridge
  <2>1. disp' = disp
    BY <1>4 DEF Bridge, abandon, sweep_stalled, refuse_undriven, local
  <2> QED  BY <1>0, <1>4, <2>1, BridgeReserved
<1>5. CASE Delivery
  <2> PICK x \in Actions : \/ deliver_runtime_action(x)
                           \/ reconcile_runtime_action(x) \/ claim_expires(x)
    BY <1>5 DEF Delivery
  <2>1. act[x].st = "pending"
    BY DEF deliver_runtime_action, reconcile_runtime_action, claim_expires,
           claim_runtime_action, runtime_accepts, acknowledge_runtime_action,
           reject_runtime_action, fail_runtime_action, Claimed,
           mark_runtime_action_outcome_unknown,
           claim_runtime_action_reconciliation, retry_runtime_action_delivery,
           defer_runtime_action_reconciliation
  <2>2. CASE runtime_accepts(x)
    <3>1. disp[w].pc = "reserved"
      BY <2>2 DEF runtime_accepts, Live, Inv, LocalType
    <3> QED  BY <1>0, <2>1, <3>1, ReservedFacts
  <2>3. CASE ~runtime_accepts(x)
    <3>1. disp' = disp
      BY <2>3 DEF deliver_runtime_action, reconcile_runtime_action,
             claim_expires, claim_runtime_action, acknowledge_runtime_action,
             reject_runtime_action, fail_runtime_action, SettleAction, local,
             mark_runtime_action_outcome_unknown,
             claim_runtime_action_reconciliation, retry_runtime_action_delivery,
             defer_runtime_action_reconciliation
    <3> QED  BY <1>0, <2>1, <3>1, ReservedFacts
  <2> QED  BY <2>2, <2>3
<1>6. CASE Pins
  <2>1. disp' = disp
    BY <1>6 DEF Pins, deliver_pending_pin_releases, claim_pin_release,
           finish_attempt, acknowledge_pin_release, fail_pin_release,
           retry_pin_release, release_claim_expires, dispatch_lease_expires,
           SettleRelease, local
  <2> QED  BY <1>0, <1>6, <2>1, PinsReserved
<1>7. CASE Recovery
  <2>1. ~crash
    BY DEF crash, Idle
  <2>2. disp' = disp
    BY <1>7, <2>1 DEF Recovery, recover, recover_sweep, recover_unbound,
       recover_bound_inactive, defer_recoverable, recover_manual, Recovered
  <2>3. FALSE
    BY <1>0, <1>7, <2>1, <2>2
       DEF Recovery, recover, recover_sweep, recover_unbound,
           recover_bound_inactive, defer_recoverable, recover_manual, Recovered
  <2> QED  BY <2>3
<1>8. CASE UNCHANGED vars
  BY <1>0, <1>8, StoreReserved DEF vars
<1> QED  BY <1>2, <1>3, <1>4, <1>5, <1>6, <1>7, <1>8 DEF Next

LEMMA PassNext ==
    ASSUME Inv, OwedInv, [Next]_vars
    PROVE  PassBetweenTurns'
<1> SUFFICES ASSUME NEW w \in Dispatchers, disp'[w].pc # "idle"
             PROVE  recovering' = {}
  BY DEF PassBetweenTurns
<1>0. \A v \in Dispatchers : disp[v].pc # "idle" => recovering = {}
  BY DEF OwedInv, PassBetweenTurns
<1>1. CASE Operator \/ Bridge \/ Pins \/ UNCHANGED vars
  <2>1. UNCHANGED <<disp, recovering>>
    BY <1>1 DEF Operator, create_run, request_pause, request_cancel,
           converge_cancellation, resume_run, retry_run, restart_attempt,
           resolve_decision, Bridge, abandon, sweep_stalled, refuse_undriven,
           Pins, deliver_pending_pin_releases, claim_pin_release,
           finish_attempt, acknowledge_pin_release, fail_pin_release,
           retry_pin_release, release_claim_expires, dispatch_lease_expires,
           SettleRelease, local, vars
  <2> QED  BY <1>0, <2>1
<1>2. ASSUME NEW v \in Dispatchers, Dispatch(v)
      PROVE  recovering' = {}
  <2>1. recovering' = recovering
    BY <1>2 DEF Dispatch, reserve_attempt_dispatch, pin_attempt,
         fail_before_binding, pin_attempt_runtime,
         start_attempt, fail_after_binding, event_started, event_progress,
         event_decision, stream_ends_parked, event_terminal, commit_checkpoint,
         event_paused, end_quiet_after_control, turn_timeout, end_timed_out,
         Goto, EndTurn, local
  <2>2. disp[v].pc # "idle" \/ recovering = {}
    BY <1>2 DEF Dispatch, reserve_attempt_dispatch, pin_attempt,
         fail_before_binding, pin_attempt_runtime,
         start_attempt, fail_after_binding, event_started, event_progress,
         event_decision, stream_ends_parked, event_terminal, commit_checkpoint,
         event_paused, end_quiet_after_control, turn_timeout, end_timed_out
  <2> QED  BY <1>0, <2>1, <2>2
<1>3. CASE Delivery
  <2> PICK x \in Actions : \/ deliver_runtime_action(x)
                           \/ reconcile_runtime_action(x) \/ claim_expires(x)
    BY <1>3 DEF Delivery
  <2>1. CASE runtime_accepts(x)
    BY <1>0, <2>1 DEF runtime_accepts, Live
  <2>2. CASE ~runtime_accepts(x)
    <3>1. UNCHANGED <<disp, recovering>>
      BY <2>2 DEF deliver_runtime_action, reconcile_runtime_action,
             claim_expires, claim_runtime_action, acknowledge_runtime_action,
             reject_runtime_action, fail_runtime_action, SettleAction, local,
             mark_runtime_action_outcome_unknown,
             claim_runtime_action_reconciliation, retry_runtime_action_delivery,
             defer_runtime_action_reconciliation
    <3> QED  BY <1>0, <3>1
  <2> QED  BY <2>1, <2>2
<1>4. CASE crash
  BY <1>4 DEF crash
<1>5. CASE recover
  BY <1>5 DEF recover
<1>6. ASSUME NEW r \in Runs, Recovered(r)
      PROVE  recovering' = {}
  BY <1>0, <1>6 DEF Recovered
<1>7. CASE Recovery
  BY <1>4, <1>5, <1>6, <1>7 DEF Recovery, recover_sweep, recover_unbound,
     recover_bound_inactive, defer_recoverable, recover_manual
<1> QED  BY <1>1, <1>2, <1>3, <1>7 DEF Next

\* A pin is taken for an attempt that is active, and goes on.
LEMMA TakenIsOwed ==
    ASSUME Inv, Tables, PinInv, NEW a \in Attempts, UNCHANGED store,
           att[a].run \in Runs, att[a].identity, rel[a] = "none",
           run[att[a].run].active = a,
           run[att[a].run].state \in DISPATCHABLE_RUN_STATES \cup {"cancel_requested"}
    PROVE  PinRow(a)'
<1>1. att[a].state # "absent"
  BY ConstantsAssumption DEF Tables, AttemptRows
<1>2. Owed(a)'
  BY DEF store, Owed, IsActive, DISPATCHABLE_RUN_STATES, TERMINAL_RUN_STATES
<1> QED  BY <1>1, <1>2 DEF PinRow, store

LEMMA PinsOwedNext ==
    ASSUME Inv, Tables, PinInv, OwedInv, [Next]_vars
    PROVE  PinsOwed'
<1>0. PinsOwed /\ Reserves /\ pins \subseteq Attempts
  BY DEF OwedInv, Inv, LocalType
<1>1. RowsOwed
  <2>1. CASE Operator
    BY <1>0, <2>1, OperatorOwed
  <2>2. ASSUME NEW w \in Dispatchers, Dispatch(w)
        PROVE  RowsOwed
    BY <1>0, <2>2, BeforeBindingOwed, AfterBindingOwed DEF Dispatch
  <2>3. CASE Bridge
    BY <1>0, <2>3, BridgeOwed DEF Bridge
  <2>4. CASE Delivery
    BY <1>0, <2>4, DeliveryOwed
       DEF Delivery, deliver_runtime_action, reconcile_runtime_action
  <2>5. CASE Pins
    BY <1>0, <2>5, ReleaseOwed DEF Pins, deliver_pending_pin_releases
  <2>6. CASE Recovery
    <3>1. CASE recover
      BY <1>0, <3>1, StoreSameOwed DEF recover, store
    <3> QED  BY <1>0, <2>6, <3>1, CrashOwed, BridgeOwed DEF Recovery
  <2>7. CASE UNCHANGED vars
    BY <1>0, <2>7, StoreSameOwed DEF vars
  <2> QED  BY <2>1, <2>2, <2>3, <2>4, <2>5, <2>6, <2>7 DEF Next
<1>2. ASSUME NEW w \in Dispatchers, pin_attempt(w),
             NEW b \in Attempts, b = disp[w].att
      PROVE  PinRow(b)'
  <2>1. disp[w].pc = "reserved" /\ Reserved(w) /\ UNCHANGED store
    BY <1>0, <1>2 DEF pin_attempt, Reserves
  <2> DEFINE s == disp[w].run
  <2>2. /\ s \in Runs /\ run[s].active = b /\ ~att[b].bound
        /\ run[s].state \in DISPATCHABLE_RUN_STATES \cup {"cancel_requested"}
    BY <1>2, <2>1, ReservedFacts
  <2>3. att[b].run = s
    BY <2>2 DEF Tables, RunExists, RunRows
  <2>4. att[b].identity /\ rel[b] = "none"
    BY <1>2, <2>1 DEF Reserved
  <2> QED  BY <2>1, <2>2, <2>3, <2>4, TakenIsOwed
<1>3. ASSUME NEW r \in Runs, recover_unbound(r), NEW c \in pins', c \notin pins
      PROVE  PinRow(c)'
  <2>1. /\ c = run[r].active /\ c \in Attempts /\ ~att[c].bound
        /\ att[c].identity /\ UNCHANGED store
        /\ run[r].state \notin TERMINAL_RUN_STATES \cup {"cancel_requested"}
    BY <1>3 DEF recover_unbound
  <2>2. run[r].state # "absent" /\ att[c].run = r /\ att[c].state = run[r].state
    BY <2>1 DEF Tables, RunExists, RunRows, TERMINAL_RUN_STATES
  <2>3. run[r].state \in DISPATCHABLE_RUN_STATES
    BY <2>1, <2>2 DEF Tables, UnboundRows, UNBOUND_STATES, TERMINAL_RUN_STATES
  <2>4. rel[c] = "none"
    BY <2>1, <2>2, <2>3 DEF PinInv, ReleaseRows, Checkpointed,
       TERMINAL_RUN_STATES, DISPATCHABLE_RUN_STATES
  <2> QED  BY <2>1, <2>2, <2>3, <2>4, TakenIsOwed
<1>4. \/ pins' \subseteq pins
      \/ \E w \in Dispatchers : pin_attempt(w) /\ pins' = pins \cup {disp[w].att}
      \/ \E r \in Runs : recover_unbound(r)
  <2>1. CASE Operator \/ Bridge \/ Pins \/ UNCHANGED vars
    BY <2>1 DEF Operator, create_run, request_pause, request_cancel,
           converge_cancellation, resume_run, retry_run, restart_attempt,
           resolve_decision, Bridge, abandon, sweep_stalled, refuse_undriven,
           Pins, deliver_pending_pin_releases, claim_pin_release,
           finish_attempt, acknowledge_pin_release, fail_pin_release,
           retry_pin_release, release_claim_expires, dispatch_lease_expires,
           SettleRelease, local, vars
  <2>2. ASSUME NEW w \in Dispatchers, Dispatch(w)
        PROVE  \/ pins' \subseteq pins
               \/ pin_attempt(w) /\ pins' = pins \cup {disp[w].att}
    BY <2>2 DEF Dispatch, reserve_attempt_dispatch, pin_attempt,
         fail_before_binding, pin_attempt_runtime,
         start_attempt, fail_after_binding, event_started, event_progress,
         event_decision, stream_ends_parked, event_terminal, commit_checkpoint,
         event_paused, end_quiet_after_control, turn_timeout, end_timed_out,
         Goto, EndTurn, local
  <2>3. CASE Delivery
    BY <2>3 DEF Delivery, deliver_runtime_action, reconcile_runtime_action,
           claim_expires, claim_runtime_action, acknowledge_runtime_action,
           reject_runtime_action, fail_runtime_action, SettleAction, local,
           runtime_accepts, mark_runtime_action_outcome_unknown,
           claim_runtime_action_reconciliation, retry_runtime_action_delivery,
           defer_runtime_action_reconciliation
  <2>4. CASE Recovery
    BY <2>4 DEF Recovery, crash, recover, recover_sweep,
           recover_bound_inactive, defer_recoverable, recover_manual, Recovered
  <2> QED  BY <2>1, <2>2, <2>3, <2>4 DEF Next
<1>5. ASSUME NEW c \in pins', c \notin pins
      PROVE  PinRow(c)'
  <2>1. CASE \E r \in Runs : recover_unbound(r)
    BY <1>3, <1>5, <2>1
  <2>2. CASE ~\E r \in Runs : recover_unbound(r)
    <3>1. PICK w \in Dispatchers : pin_attempt(w) /\ c = disp[w].att
      BY <1>4, <1>5, <2>2
    <3>2. c \in Attempts
      BY <3>1 DEF pin_attempt, Inv, DispatchInv, DispatchHasRun
    <3> QED  BY <1>2, <3>1, <3>2
  <2> QED  BY <2>1, <2>2
<1> QED  BY <1>1, <1>5 DEF PinsOwed, RowsOwed

\* While one daemon dispatches, no updater pin is lost, wherever it crashes:
\* whoever holds one can still bind, or is bound and has not ended, or is a
\* checkpoint, or a release row owes it back (reserve_attempt_dispatch,
\* insert_pin_release, release_pins, recover_startup).
THEOREM NoPinIsLost ==
    ASSUME OneDispatcher
    PROVE  Spec => []PinIsOwed
<1>1. Inv /\ OwedInv => PinIsOwed
  BY DEF OwedInv, PinsOwed, PinRow, Owed, OWED_STATES, PinIsOwed
<1>2. Init => Inv /\ Tables /\ PinInv /\ OwedInv
  <2>1. Init => OwedInv
    BY DEF Init, OwedInv, PinsOwed, Reserves, PassBetweenTurns, Idle
  <2> QED  BY <2>1, InitInv, InitTables, InitPins
<1>3. Inv /\ Tables /\ PinInv /\ OwedInv /\ [Next]_vars
        => (Inv /\ Tables /\ PinInv /\ OwedInv)'
  <2>1. ASSUME Inv, Tables, PinInv, OwedInv, [Next]_vars
        PROVE  OwedInv'
    BY <2>1, PinsOwedNext, ReservesNext, PassNext DEF OwedInv
  <2> QED  BY <2>1, NextInv, TablesNext, PinsNext
<1> QED  BY <1>1, <1>2, <1>3, PTL DEF Spec
=============================================================================
