------------------------ MODULE WorkflowEffectsProofs -------------------------
(***************************************************************************)
(* Proofs about WorkflowEffects: its types; that an effect is sent at most *)
(* MaxDeliveries times; that a completed stage has every effect completed  *)
(* and performed and only those before it are done; that, for any number   *)
(* of coordinators, a mutation is sent again only when the adapter said it *)
(* never happened, but for the one race that the property names; and that  *)
(* a paused run keeps what is bound to its attempt.                        *)
(***************************************************************************)
EXTENDS WorkflowEffects, TLAPS

----------------------------------------------------------------------------
(* The inductive invariant *)

STATES == {None, "pending", "claimed", "outcome_unknown", "reconciling",
           "completed", "failed", "manual_required"}
TASKS == {"listed", "supersede", "pending", "normalise", "reconcile", "failed"}

Rows == [st : STATES, owner : Workers \cup {None}, lease : {None, "live", "expired"},
         epoch : Nat, sends : Nat, why : {None, "superseded", "rejected"}]

Threads ==
    [pc : {"idle", "prepare", "plan", "classify", "sort", "read", "recover", "call",
           "reply", "ask", "answer", "commit"},
     att : 0..MaxAttempts, rev : Nat, todo : SUBSET (Effects \X TASKS),
     on : Effects \cup {<<>>}, epoch : Nat,
     said : {None, "ok", "unknown", "rejected", "committed", "not_found"}]

Shapes ==
    /\ run \in [state : {"running", "paused", "waiting"} \cup Fenced,
                attempt : 1..MaxAttempts, decided : SUBSET Stages]
    /\ wf \in [state : {"running", "waiting", "completed", "failed"},
               cur : Stages, rev : Nat]
    /\ stage \in [Stages -> [state : {"pending", "ready", "active", "waiting",
                                      "completed", "failed"},
                             by : 0..MaxAttempts]]
    /\ eff \in [Effects -> Rows]
    /\ done \in SUBSET Effects
    /\ calls \in [Effects -> Nat] /\ raced \in [Effects -> Nat]
    /\ absent \in [Effects -> Nat]
    /\ work \in [Workers -> Threads]

\* A row of effect e that the store may hold when D is performed: whoever has
\* it has a lease on it, it can be sent once more while it is pending, and it
\* is completed only when it was performed.
Fine(e, row, D) ==
    /\ (row.st \in {"claimed", "reconciling"}) = (row.owner \in Workers)
    /\ (row.owner \in Workers) = (row.lease \in {"live", "expired"})
    /\ row.sends <= MaxDeliveries
    /\ row.st = "pending" => row.sends < MaxDeliveries
    /\ row.st = "completed" => e \in D

RowsFine == \A e \in Effects : Fine(e, eff[e], done)

\* What a thread that is at an adapter's answer knows of its effect.
Knows(th, D) ==
    /\ th.pc \in {"call", "reply", "ask", "answer"} => th.on \in Effects
    /\ th.pc = "reply" /\ th.said = "ok" => th.on \in D
    /\ th.pc = "answer" /\ th.said = "committed" => th.on \in D

ThreadsKnow == \A w \in Workers : Knows(work[w], done)

StagesInOrder == \A t \in Stages : t > wf.cur => stage[t].state = "pending"

IInv == Shapes /\ RowsFine /\ ThreadsKnow /\ StagesInOrder /\ StageSound

\* A thread has one task for an effect, and it is to deliver a mutation only
\* while it holds no claim of it.
TasksFit(w, th, rows) ==
    /\ th.pc \in {"idle", "prepare", "plan", "classify"} => th.todo = {}
    /\ th.pc = "sort" => \A t \in th.todo : t[2] \in {"failed", "listed"}
    /\ \A t, u \in th.todo : t[1] = u[1] => t = u
    /\ \A e \in Effects :
          <<e, "pending">> \in th.todo /\ Mutation(e) =>
             ~(rows[e].st = "claimed" /\ rows[e].owner = w)

\* Who heard that a mutation never happened, and still has it, knows that every
\* delivery of it was asked about.
AnswerFits(w, th, rows, asked) ==
    \A e \in Effects :
       /\ Mutation(e) /\ th.on = e /\ th.pc = "answer" /\ th.said = "not_found"
       /\ rows[e].st = "reconciling" /\ rows[e].owner = w
       => rows[e].sends <= asked[e]

\* The row of a mutation: all of its sends but the last were asked about, and
\* the last too while it is pending; it was handed over once for each send, and
\* once for each race.
Asked(row, c, r, asked) ==
    /\ row.st = None => row.sends = 0
    /\ row.st = "pending" => row.sends <= asked
    /\ row.sends <= asked + 1
    /\ c <= row.sends + r

AskedInv ==
    /\ \A e \in Effects : Mutation(e) => Asked(eff[e], calls[e], raced[e], absent[e])
    /\ \A w \in Workers : TasksFit(w, work[w], eff) /\ AnswerFits(w, work[w], eff, absent)

----------------------------------------------------------------------------
(* Steps *)

SettledRow(row) == row.st = "completed" \/ (row.st = "failed" /\ row.why = "superseded")

\* No settled effect moves, and an effect starts only in an active stage.
RowsCalm ==
    \A e \in Effects :
       /\ SettledRow(eff[e]) => eff'[e] = eff[e]
       /\ eff[e].st = None /\ eff'[e].st # None => stage[e[1]].state = "active"

\* What every step but the completion of a stage leaves alone: besides, no
\* stage that is pending or completed moves, nor does any become completed.
Calm ==
    /\ RowsCalm
    /\ done \subseteq done' /\ run.decided \subseteq run'.decided
    /\ wf'.cur = wf.cur
    /\ \A s \in Stages :
          \/ stage'[s] = stage[s]
          \/ /\ stage[s].state \in {"ready", "active", "waiting"}
             /\ stage'[s].state # "completed"

Kept == Shapes' /\ RowsFine' /\ ThreadsKnow' /\ Calm

LEMMA EffectFacts ==
    ASSUME NEW e \in Effects
    PROVE  /\ e[1] \in Stages /\ e[2] \in Graph[e[1]].keys
           /\ Bound(e[1]) => e[3] \in 1..MaxAttempts
           /\ ~Bound(e[1]) => e[3] = 0
           /\ e = <<e[1], e[2], e[3]>>
<1>1. PICK s \in Stages :
           \E k \in Graph[s].keys :
              \E a \in IF Bound(s) THEN 1..MaxAttempts ELSE {0} : e = <<s, k, a>>
  BY DEF Effects
<1>2. PICK k \in Graph[s].keys :
           \E a \in IF Bound(s) THEN 1..MaxAttempts ELSE {0} : e = <<s, k, a>>
  BY <1>1
<1>3. PICK a \in IF Bound(s) THEN 1..MaxAttempts ELSE {0} : e = <<s, k, a>>
  BY <1>2
<1>4. e[1] = s /\ e[2] = k /\ e[3] = a
  BY <1>3
<1> QED  BY <1>3, <1>4

LEMMA StagesAre ==
    ASSUME WorkflowAssumption
    PROVE  /\ Stages \subseteq Nat /\ 1 \in Stages
           /\ \A s \in Stages : s # Len(Graph) => s + 1 \in Stages
BY DEF WorkflowAssumption, GraphAssumption, Stages

\* Calm steps keep what completed stages stand on.
LEMMA CalmKeepsStages ==
    ASSUME WorkflowAssumption, IInv, Kept
    PROVE  IInv'
<1>1. StagesInOrder'
  BY DEF IInv, Kept, Calm, StagesInOrder
<1>2. StageSound'
  <2> SUFFICES ASSUME NEW s \in Stages, stage'[s].state = "completed"
               PROVE  /\ \A e \in OfAttempt(s, stage'[s].by) :
                            eff'[e].st = "completed" /\ e \in done'
                      /\ \A e \in Started(s)' : Settled(e)'
                      /\ Graph[s].effect = "decision" => s \in run'.decided
    BY DEF StageSound, Kept, Calm, OfAttempt
  <2>1. stage'[s] = stage[s]
    BY DEF Kept, Calm
  <2>2. /\ \A e \in OfAttempt(s, stage[s].by) : eff[e].st = "completed" /\ e \in done
        /\ \A e \in Started(s) : Settled(e)
        /\ Graph[s].effect = "decision" => s \in run.decided
    BY <2>1 DEF IInv, StageSound
  <2>3. \A e \in OfAttempt(s, stage[s].by) : eff'[e].st = "completed" /\ e \in done'
    BY <2>2 DEF Kept, Calm, RowsCalm, SettledRow, OfAttempt
  <2>4. \A e \in Started(s)' : Settled(e)'
    <3> SUFFICES ASSUME NEW e \in Effects, e[1] = s, eff'[e].st # None
                 PROVE  Settled(e)'
      BY DEF Started
    <3>1. eff[e].st # None
      BY <2>1 DEF Kept, Calm, RowsCalm
    <3>2. Settled(e)
      BY <2>2, <3>1 DEF Started
    <3>3. eff'[e] = eff[e]
      BY <3>2 DEF Kept, Calm, RowsCalm, Settled, Superseded, SettledRow
    <3> QED  BY <3>2, <3>3 DEF Settled, Superseded
  <2> QED  BY <2>1, <2>2, <2>3, <2>4 DEF Kept, Calm
<1> QED  BY <1>1, <1>2 DEF IInv, Kept

----------------------------------------------------------------------------
(* The parts of a step *)

\* An effect's row is replaced.
LEMMA RowStep ==
    ASSUME WorkflowAssumption, Shapes, RowsFine,
           NEW e \in Effects, NEW row \in Rows, Fine(e, row, done'),
           SettledRow(eff[e]) => row = eff[e],
           eff[e].st = None /\ row.st # None => stage[e[1]].state = "active",
           eff' = [eff EXCEPT ![e] = row], done \subseteq done'
    PROVE  eff' \in [Effects -> Rows] /\ RowsFine' /\ RowsCalm
<1>1. eff' \in [Effects -> Rows]
  BY DEF Shapes
<1>2. \A x \in Effects : eff'[x] = IF x = e THEN row ELSE eff[x]
  BY DEF Shapes
<1>3. RowsFine'
  <2> SUFFICES ASSUME NEW x \in Effects PROVE Fine(x, eff'[x], done')
    BY DEF RowsFine, Fine
  <2>1. Fine(x, eff[x], done')
    BY DEF RowsFine, Fine
  <2> QED  BY <1>2, <2>1
<1>4. RowsCalm
  BY <1>2 DEF RowsCalm
<1> QED  BY <1>1, <1>3, <1>4

\* No effect's row is replaced.
LEMMA RowsStay ==
    ASSUME Shapes, RowsFine, eff' = eff, done \subseteq done'
    PROVE  eff' \in [Effects -> Rows] /\ RowsFine' /\ RowsCalm
<1>1. RowsFine'
  BY DEF RowsFine, Fine
<1> QED  BY <1>1 DEF Shapes, RowsCalm

\* A thread moves.
LEMMA ThreadStep ==
    ASSUME Shapes, ThreadsKnow, NEW w \in Workers, NEW th \in Threads, Knows(th, done'),
           work' = [work EXCEPT ![w] = th], done \subseteq done'
    PROVE  work' \in [Workers -> Threads] /\ ThreadsKnow'
<1>1. \A x \in Workers : work'[x] = IF x = w THEN th ELSE work[x]
  BY DEF Shapes
<1>2. \A x \in Workers : Knows(work[x], done')
  BY DEF ThreadsKnow, Knows
<1>3. \A x \in Workers : Knows(work'[x], done')
  BY <1>1, <1>2
<1>4. ThreadsKnow'
  BY <1>3 DEF ThreadsKnow, Knows
<1> QED  BY <1>4 DEF Shapes

\* A row of the table, and what the store makes of it.
LEMMA RowShapes ==
    ASSUME WorkflowAssumption, Shapes, RowsFine, NEW e \in Effects
    PROVE  /\ eff[e] \in Rows /\ Fine(e, eff[e], done)
           /\ \A w \in Workers : \A st \in STATES :
                 /\ Claimed(w, e, st) \in Rows
                 /\ Claimed(w, e, st).st = st /\ Claimed(w, e, st).owner = w
                 /\ Claimed(w, e, st).lease = "live"
                 /\ Claimed(w, e, st).sends = eff[e].sends
           /\ \A st \in STATES :
                 /\ Unclaimed(e, st) \in Rows
                 /\ Unclaimed(e, st).st = st /\ Unclaimed(e, st).owner = None
                 /\ Unclaimed(e, st).lease = None
                 /\ Unclaimed(e, st).sends = eff[e].sends
           /\ None \notin Workers
<1>1. eff[e] \in Rows
  BY DEF Shapes
<1>2. ASSUME NEW w \in Workers, NEW st \in STATES
      PROVE  /\ Claimed(w, e, st) \in Rows
             /\ Claimed(w, e, st).st = st /\ Claimed(w, e, st).owner = w
             /\ Claimed(w, e, st).lease = "live"
             /\ Claimed(w, e, st).sends = eff[e].sends
  <2> DEFINE n == eff[e].epoch + 1
  <2>1. n \in Nat
    BY <1>1 DEF Rows
  <2>2. Claimed(w, e, st)
          = [eff[e] EXCEPT !.st = st, !.owner = w, !.lease = "live", !.epoch = n]
    BY DEF Claimed
  <2> HIDE DEF n
  <2> QED  BY <1>1, <2>1, <2>2 DEF Rows
<1>3. ASSUME NEW st \in STATES
      PROVE  /\ Unclaimed(e, st) \in Rows
             /\ Unclaimed(e, st).st = st /\ Unclaimed(e, st).owner = None
             /\ Unclaimed(e, st).lease = None
             /\ Unclaimed(e, st).sends = eff[e].sends
  BY <1>1 DEF Unclaimed, Rows
<1> QED  BY <1>1, <1>2, <1>3 DEF RowsFine, WorkflowAssumption

\* The ends of a thread's work.
LEMMA EndStep ==
    ASSUME WorkflowAssumption, Shapes, ThreadsKnow, NEW w \in Workers, End(w),
           done \subseteq done'
    PROVE  work' \in [Workers -> Threads] /\ ThreadsKnow'
<1>1. Idle \in Threads
  BY DEF Idle, Threads, WorkflowAssumption
<1>2. Knows(Idle, done')
  BY DEF Idle, Knows
<1> QED  BY <1>1, <1>2, ThreadStep DEF End

LEMMA ContinueStep ==
    ASSUME WorkflowAssumption, Shapes, ThreadsKnow, NEW w \in Workers, Continue(w),
           done \subseteq done'
    PROVE  work' \in [Workers -> Threads] /\ ThreadsKnow'
<1> DEFINE th == [work[w] EXCEPT !.pc = "recover", !.on = <<>>, !.epoch = 0, !.said = None]
<1>1. work[w] \in Threads
  BY DEF Shapes
<1>2. th \in Threads /\ th.pc = "recover"
  BY <1>1 DEF Threads
<1>3. Knows(th, done')
  BY <1>2 DEF Knows
<1>4. work' = [work EXCEPT ![w] = th]
  BY DEF Continue, Shapes
<1> HIDE DEF th
<1> QED  BY <1>2, <1>3, <1>4, ThreadStep

LEMMA GotoStep ==
    ASSUME WorkflowAssumption, Shapes, ThreadsKnow, NEW w \in Workers,
           NEW pc \in {"plan", "classify"}, Goto(w, pc), done \subseteq done'
    PROVE  work' \in [Workers -> Threads] /\ ThreadsKnow'
<1> DEFINE th == [work[w] EXCEPT !.pc = pc]
<1>1. work[w] \in Threads
  BY DEF Shapes
<1>2. th \in Threads /\ th.pc = pc
  BY <1>1 DEF Threads
<1>3. Knows(th, done')
  BY <1>2 DEF Knows
<1>4. work' = [work EXCEPT ![w] = th]
  BY DEF Goto, Shapes
<1> HIDE DEF th
<1> QED  BY <1>2, <1>3, <1>4, ThreadStep

\* Nothing but threads moves.
LEMMA QuietStep ==
    ASSUME Shapes, RowsFine, UNCHANGED <<run, wf, stage, eff, done, calls, raced, absent>>,
           work' \in [Workers -> Threads], ThreadsKnow'
    PROVE  Kept
<1>1. RowsFine' /\ RowsCalm
  BY RowsStay
<1> QED  BY <1>1 DEF Kept, Shapes, Calm

----------------------------------------------------------------------------
(* The steps of the run's other owners, and the clock's *)

LEMMA RunSteps ==
    ASSUME WorkflowAssumption, IInv, Pause \/ ResumeRun \/ RetryRun \/ Fence
    PROVE  Kept
<1>1. Rest
  BY DEF Pause, ResumeRun, RetryRun, Fence, Restart
<1>2. RowsFine' /\ RowsCalm /\ eff' \in [Effects -> Rows]
  BY <1>1, RowsStay DEF IInv, Rest
<1>3. ThreadsKnow'
  BY <1>1 DEF IInv, Rest, ThreadsKnow
<1>4. /\ run' \in [state : {"running", "paused", "waiting"} \cup Fenced,
                   attempt : 1..MaxAttempts, decided : SUBSET Stages]
      /\ run'.decided = run.decided
  <2>1. run \in [state : {"running", "paused", "waiting"} \cup Fenced,
                 attempt : 1..MaxAttempts, decided : SUBSET Stages]
    BY DEF IInv, Shapes
  <2>2. MaxAttempts \in Nat
    BY DEF WorkflowAssumption
  <2>3. CASE Pause
    BY <2>1, <2>3 DEF Pause
  <2>4. CASE ResumeRun \/ RetryRun
    <3>1. \E from \in {"paused", "failed"} : Restart(from)
      BY <2>4 DEF ResumeRun, RetryRun
    <3>2. run.attempt \in 1..MaxAttempts /\ run.attempt < MaxAttempts
      BY <2>1, <3>1 DEF Restart
    <3> DEFINE a == run.attempt + 1
    <3>3. a \in 1..MaxAttempts
      BY <2>2, <3>2
    <3>4. run' = [run EXCEPT !.state = "running", !.attempt = a]
      BY <3>1 DEF Restart
    <3> HIDE DEF a
    <3> QED  BY <2>1, <3>3, <3>4
  <2>5. CASE Fence
    BY <2>1, <2>5 DEF Fence, Fenced
  <2> QED  BY <2>3, <2>4, <2>5
<1> QED  BY <1>1, <1>2, <1>3, <1>4 DEF IInv, Rest, Kept, Shapes, Calm

LEMMA ResolveKept ==
    ASSUME WorkflowAssumption, IInv, Resolve
    PROVE  Kept
<1>1. RowsFine' /\ RowsCalm /\ eff' \in [Effects -> Rows]
  BY RowsStay DEF IInv, Resolve
<1>2. ThreadsKnow'
  BY DEF IInv, Resolve, ThreadsKnow
<1>3. /\ wf.cur \in Stages /\ wf.rev \in Nat
      /\ stage[wf.cur] \in [state : {"pending", "ready", "active", "waiting",
                                     "completed", "failed"}, by : 0..MaxAttempts]
  BY DEF IInv, Shapes
<1>4. /\ run' \in [state : {"running", "paused", "waiting"} \cup Fenced,
                   attempt : 1..MaxAttempts, decided : SUBSET Stages]
      /\ run.decided \subseteq run'.decided
  BY <1>3 DEF IInv, Shapes, Resolve
<1>5. /\ stage' \in [Stages -> [state : {"pending", "ready", "active", "waiting",
                                         "completed", "failed"}, by : 0..MaxAttempts]]
      /\ \A s \in Stages : \/ stage'[s] = stage[s]
                           \/ stage[s].state = "waiting" /\ stage'[s].state = "active"
  BY <1>3 DEF IInv, Shapes, Resolve
<1>6. /\ wf' \in [state : {"running", "waiting", "completed", "failed"},
                  cur : Stages, rev : Nat]
      /\ wf'.cur = wf.cur
  <2> DEFINE n == wf.rev + 1
  <2>1. n \in Nat
    BY <1>3
  <2>2. wf' = [wf EXCEPT !.state = "running", !.rev = n]
    BY DEF Resolve
  <2> HIDE DEF n
  <2> QED  BY <2>1, <2>2 DEF IInv, Shapes
<1> QED  BY <1>1, <1>2, <1>4, <1>5, <1>6 DEF IInv, Resolve, Kept, Shapes, Calm

LEMMA ExpireKept ==
    ASSUME WorkflowAssumption, IInv, NEW e \in Effects, Expire(e)
    PROVE  Kept
<1> DEFINE row == [eff[e] EXCEPT !.lease = "expired"]
<1>1. eff[e] \in Rows /\ Fine(e, eff[e], done) /\ None \notin Workers
  BY RowShapes DEF IInv
<1>2. row \in Rows
  BY <1>1 DEF Rows
<1>3. /\ row.st = eff[e].st /\ row.owner = eff[e].owner /\ row.lease = "expired"
      /\ row.sends = eff[e].sends
  BY <1>1 DEF Rows
<1>4. eff' = [eff EXCEPT ![e] = row] /\ eff[e].lease = "live" /\ done' = done
  BY DEF Expire, IInv, Shapes
<1>5. Fine(e, row, done') /\ ~SettledRow(eff[e]) /\ eff[e].st # None
  BY <1>1, <1>3, <1>4 DEF Fine, SettledRow, None
<1> HIDE DEF row
<1>6. eff' \in [Effects -> Rows] /\ RowsFine' /\ RowsCalm
  BY <1>2, <1>4, <1>5, RowStep DEF IInv
<1>7. ThreadsKnow'
  BY DEF IInv, Expire, ThreadsKnow
<1> QED  BY <1>6, <1>7 DEF IInv, Expire, Kept, Shapes, Calm

LEMMA CrashKept ==
    ASSUME WorkflowAssumption, IInv, NEW w \in Workers, Crash(w)
    PROVE  Kept
<1>1. work' \in [Workers -> Threads] /\ ThreadsKnow'
  BY EndStep DEF Crash, IInv
<1> QED  BY <1>1, QuietStep DEF Crash, IInv

----------------------------------------------------------------------------
(* A coordinator's steps to its plan *)

LEMMA BeginKept ==
    ASSUME WorkflowAssumption, IInv, NEW w \in Workers, Begin(w)
    PROVE  Kept
<1>1. PICK pc \in {"prepare", "classify"} :
        work' = [work EXCEPT ![w] = [Idle EXCEPT !.pc = pc, !.att = run.attempt, !.rev = wf.rev]]
  BY DEF Begin
<1> DEFINE th == [Idle EXCEPT !.pc = pc, !.att = run.attempt, !.rev = wf.rev]
<1>2. run.attempt \in 0..MaxAttempts /\ wf.rev \in Nat
  BY DEF IInv, Shapes, WorkflowAssumption
<1>3. th \in Threads /\ th.pc = pc
  BY <1>2 DEF Idle, Threads
<1>4. Knows(th, done')
  BY <1>3 DEF Knows
<1>5. work' = [work EXCEPT ![w] = th]
  BY <1>1
<1> HIDE DEF th
<1>6. work' \in [Workers -> Threads] /\ ThreadsKnow'
  BY <1>3, <1>4, <1>5, ThreadStep DEF Begin, IInv
<1> QED  BY <1>6, QuietStep DEF Begin, IInv

\* A stage moves on without being completed, and the workflow with it.
LEMMA StageStep ==
    ASSUME WorkflowAssumption, Shapes, NEW s \in Stages,
           NEW from \in {"ready", "active", "waiting"}, stage[s].state = from,
           NEW to \in {"active", "waiting", "failed"},
           NEW state \in {"running", "waiting", "failed"},
           stage' = [stage EXCEPT ![s].state = to],
           wf' = [wf EXCEPT !.state = state, !.rev = @ + 1]
    PROVE  /\ stage' \in [Stages -> [state : {"pending", "ready", "active", "waiting",
                                              "completed", "failed"}, by : 0..MaxAttempts]]
           /\ wf' \in [state : {"running", "waiting", "completed", "failed"},
                       cur : Stages, rev : Nat]
           /\ wf'.cur = wf.cur
           /\ \A t \in Stages :
                 \/ stage'[t] = stage[t]
                 \/ /\ stage[t].state \in {"ready", "active", "waiting"}
                    /\ stage'[t].state # "completed"
<1>1. /\ wf.rev \in Nat
      /\ stage[s] \in [state : {"pending", "ready", "active", "waiting",
                                "completed", "failed"}, by : 0..MaxAttempts]
  BY DEF Shapes
<1>2. /\ stage' \in [Stages -> [state : {"pending", "ready", "active", "waiting",
                                         "completed", "failed"}, by : 0..MaxAttempts]]
      /\ \A t \in Stages : t # s => stage'[t] = stage[t]
      /\ stage'[s].state = to
  BY <1>1 DEF Shapes
<1>3. /\ wf' \in [state : {"running", "waiting", "completed", "failed"},
                  cur : Stages, rev : Nat]
      /\ wf'.cur = wf.cur
  <2> DEFINE n == wf.rev + 1
  <2>1. n \in Nat
    BY <1>1
  <2>2. wf' = [wf EXCEPT !.state = state, !.rev = n]
    OBVIOUS
  <2> HIDE DEF n
  <2> QED  BY <2>1, <2>2 DEF Shapes
<1> QED  BY <1>2, <1>3

LEMMA PrepareKept ==
    ASSUME WorkflowAssumption, IInv, NEW w \in Workers, Prepare(w)
    PROVE  Kept
<1>1. \/ End(w) /\ UNCHANGED <<wf, stage>>
      \/ /\ stage[wf.cur].state = "ready"
         /\ stage' = [stage EXCEPT ![wf.cur].state = "active"]
         /\ wf' = [wf EXCEPT !.state = "running", !.rev = @ + 1]
         /\ work' = [work EXCEPT ![w].pc = "plan", ![w].rev = wf.rev + 1]
      \/ Goto(w, "plan") /\ UNCHANGED <<wf, stage>>
  BY DEF Prepare
<1>2. UNCHANGED <<run, eff, done, calls, raced, absent, spent>> /\ done \subseteq done'
  BY DEF Prepare
<1>3. Shapes /\ ThreadsKnow /\ RowsFine
  BY DEF IInv
<1>4. CASE End(w) /\ UNCHANGED <<wf, stage>>
  BY <1>2, <1>3, <1>4, EndStep, QuietStep
<1>5. CASE Goto(w, "plan") /\ UNCHANGED <<wf, stage>>
  BY <1>2, <1>3, <1>5, GotoStep, QuietStep
<1>6. CASE /\ stage[wf.cur].state = "ready"
           /\ stage' = [stage EXCEPT ![wf.cur].state = "active"]
           /\ wf' = [wf EXCEPT !.state = "running", !.rev = @ + 1]
           /\ work' = [work EXCEPT ![w].pc = "plan", ![w].rev = wf.rev + 1]
  <2>1. wf.cur \in Stages /\ wf.rev \in Nat /\ work[w] \in Threads
    BY <1>3 DEF Shapes
  <2>2. /\ stage' \in [Stages -> [state : {"pending", "ready", "active", "waiting",
                                           "completed", "failed"}, by : 0..MaxAttempts]]
        /\ wf' \in [state : {"running", "waiting", "completed", "failed"},
                    cur : Stages, rev : Nat]
        /\ wf'.cur = wf.cur
        /\ \A t \in Stages :
              \/ stage'[t] = stage[t]
              \/ /\ stage[t].state \in {"ready", "active", "waiting"}
                 /\ stage'[t].state # "completed"
    BY <1>3, <1>6, <2>1, StageStep
  <2> DEFINE n == wf.rev + 1
             th == [work[w] EXCEPT !.pc = "plan", !.rev = n]
  <2>3. n \in Nat
    BY <2>1
  <2>4. work' = [work EXCEPT ![w] = th]
    BY <1>3, <1>6 DEF Shapes
  <2> HIDE DEF n
  <2>5. th \in Threads /\ th.pc = "plan"
    BY <2>1, <2>3 DEF Threads
  <2>6. Knows(th, done')
    BY <2>5 DEF Knows
  <2> HIDE DEF th
  <2>7. work' \in [Workers -> Threads] /\ ThreadsKnow'
    BY <1>2, <1>3, <2>4, <2>5, <2>6, ThreadStep
  <2>8. RowsFine' /\ RowsCalm
    BY <1>2, <1>3, RowsStay
  <2> QED  BY <1>2, <1>3, <2>2, <2>7, <2>8 DEF Kept, Shapes, Calm
<1> QED  BY <1>1, <1>4, <1>5, <1>6

----------------------------------------------------------------------------
(* Effects that are planned, superseded and claimed *)

\* Rows and threads move, and nothing else.
LEMMA TableStep ==
    ASSUME Shapes, UNCHANGED <<run, wf, stage, done, calls, raced, absent>>,
           eff' \in [Effects -> Rows], RowsFine', RowsCalm,
           work' \in [Workers -> Threads], ThreadsKnow'
    PROVE  Kept
BY DEF Kept, Shapes, Calm

LEMMA SupersedeIs ==
    ASSUME WorkflowAssumption, Shapes, RowsFine, NEW e \in Effects, NEW a,
           Supersede(e, a) # Raised
    PROVE  /\ Supersede(e, a) \in Rows
           /\ Fine(e, Supersede(e, a), done)
           /\ SettledRow(eff[e]) => Supersede(e, a) = eff[e]
           /\ eff[e].st # None
           /\ Supersede(e, a) # eff[e] => eff[e].st = "pending" /\ Supersede(e, a).st = "failed"
<1>1. eff[e] \in Rows /\ Fine(e, eff[e], done) /\ None \notin Workers
  BY RowShapes
<1>2. CASE Settled(e)
  <2>1. Supersede(e, a) = eff[e]
    BY <1>2 DEF Supersede, Settled, Superseded
  <2> QED  BY <1>1, <1>2, <2>1 DEF Settled, Superseded, None
<1>3. CASE ~Settled(e)
  <2> DEFINE row == [eff[e] EXCEPT !.st = "failed", !.why = "superseded"]
  <2>1. eff[e].st = "pending" /\ Supersede(e, a) = row
    BY <1>3 DEF Supersede
  <2>2. /\ row \in Rows /\ row.st = "failed" /\ row.owner = eff[e].owner
        /\ row.lease = eff[e].lease /\ row.sends = eff[e].sends
    BY <1>1 DEF Rows, STATES
  <2>3. Fine(e, row, done)
    BY <1>1, <2>1, <2>2 DEF Fine
  <2> HIDE DEF row
  <2> QED  BY <1>1, <2>1, <2>2, <2>3 DEF SettledRow, None
<1> QED  BY <1>2, <1>3

LEMMA ClaimIs ==
    ASSUME WorkflowAssumption, Shapes, RowsFine, NEW e \in Effects, NEW w \in Workers,
           ClaimEffect(w, e) # Raised
    PROVE  /\ ClaimEffect(w, e) \in Rows
           /\ Fine(e, ClaimEffect(w, e), done)
           /\ ~SettledRow(eff[e]) /\ eff[e].st # None
           /\ \/ /\ eff[e].st = "claimed" /\ eff[e].lease = "expired" /\ Mutation(e)
                 /\ ClaimEffect(w, e).st = "outcome_unknown"
              \/ /\ eff[e].st \in {"pending", "claimed"}
                 /\ Mutation(e) => eff[e].st = "pending"
                 /\ ClaimEffect(w, e).st = "claimed"
<1>1. /\ eff[e] \in Rows /\ Fine(e, eff[e], done) /\ None \notin Workers
      /\ eff[e].sends \in Nat /\ MaxDeliveries \in Nat
  BY RowShapes DEF Rows, WorkflowAssumption, MaxDeliveriesAssumption
<1>2. CASE eff[e].st = "claimed" /\ eff[e].lease = "expired" /\ Mutation(e)
  <2> DEFINE row == Unclaimed(e, "outcome_unknown")
  <2>1. ClaimEffect(w, e) = row
    BY <1>2 DEF ClaimEffect
  <2>2. /\ row \in Rows /\ row.st = "outcome_unknown" /\ row.owner = None
        /\ row.lease = None /\ row.sends = eff[e].sends
    BY RowShapes DEF STATES
  <2> HIDE DEF row
  <2>3. Fine(e, row, done)
    BY <1>1, <1>2, <2>2 DEF Fine, None
  <2> QED  BY <1>2, <2>1, <2>2, <2>3 DEF SettledRow, None
<1>3. CASE ~(eff[e].st = "claimed" /\ eff[e].lease = "expired" /\ Mutation(e))
  <2> DEFINE c == Claimed(w, e, "claimed")
             k == IF Mutation(e) THEN c.sends + 1 ELSE c.sends
             row == [c EXCEPT !.sends = k]
  <2>1. /\ eff[e].st = "pending" \/ (eff[e].st = "claimed" /\ eff[e].lease = "expired")
        /\ ClaimEffect(w, e) = row
    BY <1>3 DEF ClaimEffect
  <2>2. /\ c \in Rows /\ c.st = "claimed" /\ c.owner = w /\ c.lease = "live"
        /\ c.sends = eff[e].sends
    BY RowShapes DEF STATES
  <2> HIDE DEF c
  <2>3. k \in Nat /\ k <= MaxDeliveries
    BY <1>1, <1>3, <2>1, <2>2 DEF Fine
  <2> HIDE DEF k
  <2>4. row \in Rows /\ row.st = "claimed" /\ row.owner = w /\ row.lease = "live" /\ row.sends = k
    BY <2>2, <2>3 DEF Rows
  <2> HIDE DEF row
  <2>5. Fine(e, row, done)
    BY <2>3, <2>4 DEF Fine
  <2> QED  BY <1>3, <2>1, <2>4, <2>5 DEF SettledRow, None
<1> QED  BY <1>2, <1>3

\* Taking a task off the list.
LEMMA TookIs ==
    ASSUME Shapes, ThreadsKnow, NEW w \in Workers, NEW t
    PROVE  /\ Took(w, t) \in Threads /\ Knows(Took(w, t), done)
           /\ Took(w, t).todo = work[w].todo \ {t} /\ Took(w, t).pc = work[w].pc
           /\ Took(w, t).on = work[w].on /\ Took(w, t).said = work[w].said
<1>1. work[w] \in Threads /\ Knows(work[w], done)
  BY DEF Shapes, ThreadsKnow
<1>2. /\ Took(w, t) \in Threads
      /\ Took(w, t).todo = work[w].todo \ {t} /\ Took(w, t).pc = work[w].pc
      /\ Took(w, t).on = work[w].on /\ Took(w, t).said = work[w].said
  BY <1>1 DEF Took, Threads
<1> QED  BY <1>1, <1>2 DEF Knows

LEMMA CreateDecisionKept ==
    ASSUME WorkflowAssumption, IInv, NEW w \in Workers, CreateDecision(w)
    PROVE  Kept
<1>1. UNCHANGED <<eff, done, calls, raced, absent, spent>> /\ done \subseteq done'
  BY DEF CreateDecision
<1>2. Shapes /\ ThreadsKnow /\ RowsFine
  BY DEF IInv
<1>3. CASE Goto(w, "classify") /\ UNCHANGED <<run, wf, stage>>
  BY <1>1, <1>2, <1>3, GotoStep, QuietStep
<1>4. CASE End(w) /\ UNCHANGED <<run, wf, stage>>
  BY <1>1, <1>2, <1>4, EndStep, QuietStep
<1>5. CASE /\ End(w) /\ stage[wf.cur].state = "active"
           /\ run' = [run EXCEPT !.state = "waiting"]
           /\ stage' = [stage EXCEPT ![wf.cur].state = "waiting"]
           /\ wf' = [wf EXCEPT !.state = "waiting", !.rev = @ + 1]
  <2>1. wf.cur \in Stages
    BY <1>2 DEF Shapes
  <2>2. /\ stage' \in [Stages -> [state : {"pending", "ready", "active", "waiting",
                                           "completed", "failed"}, by : 0..MaxAttempts]]
        /\ wf' \in [state : {"running", "waiting", "completed", "failed"},
                    cur : Stages, rev : Nat]
        /\ wf'.cur = wf.cur
        /\ \A t \in Stages :
              \/ stage'[t] = stage[t]
              \/ /\ stage[t].state \in {"ready", "active", "waiting"}
                 /\ stage'[t].state # "completed"
    BY <1>2, <1>5, <2>1, StageStep
  <2>3. /\ run' \in [state : {"running", "paused", "waiting"} \cup Fenced,
                     attempt : 1..MaxAttempts, decided : SUBSET Stages]
        /\ run.decided \subseteq run'.decided
    BY <1>2, <1>5 DEF Shapes
  <2>4. work' \in [Workers -> Threads] /\ ThreadsKnow'
    BY <1>1, <1>2, <1>5, EndStep
  <2>5. RowsFine' /\ RowsCalm
    BY <1>1, <1>2, RowsStay
  <2> QED  BY <1>1, <1>2, <2>2, <2>3, <2>4, <2>5 DEF Kept, Shapes, Calm
<1> QED  BY <1>3, <1>4, <1>5 DEF CreateDecision

\* One transaction of the plan.
LEMMA PlanIs ==
    ASSUME NEW w \in Workers, Plan(w)
    PROVE
      \/ Goto(w, "classify") /\ UNCHANGED eff
      \/ End(w) /\ UNCHANGED eff
      \/ /\ UNCHANGED work
         /\ \E e \in Effects : /\ Supersede(e, work[w].att) # Raised
                               /\ eff' = [eff EXCEPT ![e] = Supersede(e, work[w].att)]
      \/ /\ UNCHANGED work
         /\ \E e \in OfAttempt(wf.cur, work[w].att) :
               /\ eff[e].st = None /\ Creatable(w, wf.cur)
               /\ eff' = [eff EXCEPT ![e] = [NoEffect EXCEPT !.st = "pending"]]
  <1> DEFINE s == wf.cur
             a == work[w].att
             old == {e \in OldEffects(s, a) : ~Settled(e)}
             new == {e \in OfAttempt(s, a) : eff[e].st = None}
             o == CHOOSE x \in old : TRUE
             n == CHOOSE x \in new : TRUE
  <1>1. \/ /\ old # {}
           /\ IF Supersede(o, a) = Raised THEN End(w) /\ UNCHANGED eff
              ELSE eff' = [eff EXCEPT ![o] = Supersede(o, a)] /\ UNCHANGED work
        \/ /\ new # {}
           /\ IF Creatable(w, s)
              THEN eff' = [eff EXCEPT ![n] = [NoEffect EXCEPT !.st = "pending"]] /\ UNCHANGED work
              ELSE End(w) /\ UNCHANGED eff
        \/ Goto(w, "classify") /\ UNCHANGED eff
    BY DEF Plan
  <1>2. old # {} => o \in Effects
    BY DEF OldEffects
  <1>3. new # {} => n \in OfAttempt(s, a) /\ eff[n].st = None
    OBVIOUS
  <1> HIDE DEF old, new, o, n
  <1> QED  BY <1>1, <1>2, <1>3

LEMMA PlanKept ==
    ASSUME WorkflowAssumption, IInv, NEW w \in Workers, Plan(w)
    PROVE  Kept
<1>1. UNCHANGED <<run, wf, stage, done, calls, raced, absent, spent>> /\ done \subseteq done'
  BY DEF Plan
<1>2. Shapes /\ ThreadsKnow /\ RowsFine
  BY DEF IInv
<1>3. CASE Goto(w, "classify") /\ UNCHANGED eff
  BY <1>1, <1>2, <1>3, GotoStep, QuietStep
<1>4. CASE End(w) /\ UNCHANGED eff
  BY <1>1, <1>2, <1>4, EndStep, QuietStep
<1>5. CASE /\ UNCHANGED work
           /\ \E e \in Effects : /\ Supersede(e, work[w].att) # Raised
                                 /\ eff' = [eff EXCEPT ![e] = Supersede(e, work[w].att)]
  <2>1. PICK e \in Effects : /\ Supersede(e, work[w].att) # Raised
                             /\ eff' = [eff EXCEPT ![e] = Supersede(e, work[w].att)]
    BY <1>5
  <2> DEFINE row == Supersede(e, work[w].att)
  <2>2. /\ row \in Rows /\ Fine(e, row, done')
        /\ SettledRow(eff[e]) => row = eff[e]
        /\ eff[e].st # None
    BY <1>1, <1>2, <2>1, SupersedeIs
  <2>4. eff' = [eff EXCEPT ![e] = row]
    BY <2>1
  <2> HIDE DEF row
  <2>3. eff' \in [Effects -> Rows] /\ RowsFine' /\ RowsCalm
    BY <1>1, <1>2, <2>2, <2>4, RowStep
  <2> QED  BY <1>1, <1>2, <1>5, <2>3, TableStep DEF Shapes, ThreadsKnow
<1>6. CASE /\ UNCHANGED work
           /\ \E e \in OfAttempt(wf.cur, work[w].att) :
                 /\ eff[e].st = None /\ Creatable(w, wf.cur)
                 /\ eff' = [eff EXCEPT ![e] = [NoEffect EXCEPT !.st = "pending"]]
  <2>1. PICK e \in OfAttempt(wf.cur, work[w].att) :
                 /\ eff[e].st = None /\ Creatable(w, wf.cur)
                 /\ eff' = [eff EXCEPT ![e] = [NoEffect EXCEPT !.st = "pending"]]
    BY <1>6
  <2> DEFINE row == [NoEffect EXCEPT !.st = "pending"]
  <2>2. e \in Effects /\ stage[e[1]].state = "active"
    BY <2>1 DEF OfAttempt, Creatable
  <2>3. /\ row \in Rows /\ row.st = "pending" /\ row.owner = None /\ row.lease = None
        /\ row.sends = 0
    BY DEF NoEffect, Rows, STATES
  <2>4. Fine(e, row, done')
    BY <2>3 DEF Fine, WorkflowAssumption, MaxDeliveriesAssumption, None
  <2>5. ~SettledRow(eff[e])
    BY <2>1 DEF SettledRow, None
  <2> HIDE DEF row
  <2>6. eff' \in [Effects -> Rows] /\ RowsFine' /\ RowsCalm
    <3>1. eff' = [eff EXCEPT ![e] = row]
      BY <2>1 DEF row
    <3> QED  BY <1>1, <1>2, <2>2, <2>3, <2>4, <2>5, <3>1, RowStep
  <2> QED  BY <1>1, <1>2, <1>6, <2>6, TableStep DEF Shapes, ThreadsKnow
<1>7. QED
  BY <1>3, <1>4, <1>5, <1>6, PlanIs

\* The three readings of recover.
ListedTasks ==
    {<<e, IF Classify(e) = "failed" THEN "failed" ELSE "listed">> :
        e \in {x \in Effects : eff[x].st # None}}

SortedTasks(todo) ==
    LET listed == {e \in Effects : <<e, "listed">> \in todo}
    IN  {t \in todo : t[2] = "failed"} \cup
        {<<e, Class(e)>> : e \in {x \in listed : Class(x) \in {"pending", "normalise", "reconcile"}}}

ReadTasks(todo) ==
    LET stale(t) == t[2] = "pending" /\ Stale(t[1])
        waits(t) == t[2] = "pending" /\ ~Stale(t[1]) /\ run.state = "paused" /\ Bound(t[1][1])
    IN  {<<t[1], "supersede">> : t \in {u \in todo : stale(u)}}
        \cup {t \in todo : ~stale(t) /\ ~waits(t)}

LEMMA ListedIs ==
    /\ ListedTasks \subseteq Effects \X TASKS
    /\ \A t \in ListedTasks : t[2] \in {"failed", "listed"}
    /\ \A t, u \in ListedTasks : t[1] = u[1] => t = u
BY DEF ListedTasks, TASKS

LEMMA SortedIs ==
    ASSUME NEW todo \in SUBSET (Effects \X TASKS),
           \A t, u \in todo : t[1] = u[1] => t = u
    PROVE  /\ SortedTasks(todo) \subseteq Effects \X TASKS
           /\ \A t, u \in SortedTasks(todo) : t[1] = u[1] => t = u
           /\ \A e \in Effects : <<e, "pending">> \in SortedTasks(todo) => Class(e) = "pending"
<1> DEFINE failed == {t \in todo : t[2] = "failed"}
           listed == {e \in Effects : <<e, "listed">> \in todo}
           found == {<<e, Class(e)>> : e \in {x \in listed : Class(x) \in {"pending", "normalise", "reconcile"}}}
<1>1. SortedTasks(todo) = failed \cup found
  BY DEF SortedTasks
<1>2. failed \subseteq Effects \X TASKS /\ \A t \in failed : t[2] = "failed" /\ t \in todo
  OBVIOUS
<1>3. \A t \in found : /\ t[1] \in Effects /\ <<t[1], "listed">> \in todo
                       /\ t[2] \in {"pending", "normalise", "reconcile"}
                       /\ t[2] = Class(t[1]) /\ t = <<t[1], t[2]>>
  <2> SUFFICES ASSUME NEW t \in found
               PROVE  /\ t[1] \in Effects /\ <<t[1], "listed">> \in todo
                      /\ t[2] \in {"pending", "normalise", "reconcile"}
                      /\ t[2] = Class(t[1]) /\ t = <<t[1], t[2]>>
    OBVIOUS
  <2>1. PICK e \in listed :
          Class(e) \in {"pending", "normalise", "reconcile"} /\ t = <<e, Class(e)>>
    OBVIOUS
  <2>2. t[1] = e /\ t[2] = Class(e) /\ e \in Effects /\ <<e, "listed">> \in todo
    BY <2>1
  <2> QED  BY <2>1, <2>2
<1> HIDE DEF failed, listed, found
<1>4. found \subseteq Effects \X TASKS
  <2> SUFFICES ASSUME NEW t \in found PROVE t \in Effects \X TASKS
    OBVIOUS
  <2>1. t[1] \in Effects /\ t[2] \in TASKS /\ t = <<t[1], t[2]>>
    BY <1>3 DEF TASKS
  <2> QED  BY <2>1
<1>5. ASSUME NEW t \in failed, NEW u \in found
      PROVE  t[1] # u[1]
  <2>1. t = <<t[1], "failed">> /\ t \in todo
    BY <1>2
  <2>2. <<u[1], "listed">> \in todo /\ <<u[1], "listed">>[1] = u[1] /\ <<u[1], "listed">>[2] = "listed"
    BY <1>3
  <2>3. t[2] = "failed"
    BY <1>2
  <2> QED  BY <2>1, <2>2, <2>3
<1>6. \A t, u \in failed \cup found : t[1] = u[1] => t = u
  BY <1>2, <1>3, <1>5
<1>7. \A e \in Effects : <<e, "pending">> \in failed \cup found => Class(e) = "pending"
  BY <1>2, <1>3
<1> QED  BY <1>1, <1>2, <1>4, <1>6, <1>7

LEMMA ReadIs ==
    ASSUME NEW todo \in SUBSET (Effects \X TASKS),
           \A t, u \in todo : t[1] = u[1] => t = u
    PROVE  /\ ReadTasks(todo) \subseteq Effects \X TASKS
           /\ \A t, u \in ReadTasks(todo) : t[1] = u[1] => t = u
           /\ \A e \in Effects : <<e, "pending">> \in ReadTasks(todo) => <<e, "pending">> \in todo
<1> DEFINE stale(t) == t[2] = "pending" /\ Stale(t[1])
           waits(t) == t[2] = "pending" /\ ~Stale(t[1]) /\ run.state = "paused" /\ Bound(t[1][1])
           old == {<<t[1], "supersede">> : t \in {u \in todo : stale(u)}}
           kept == {t \in todo : ~stale(t) /\ ~waits(t)}
<1>1. ReadTasks(todo) = old \cup kept
  BY DEF ReadTasks
<1>2. \A t \in old : /\ t[1] \in Effects /\ t = <<t[1], "supersede">>
                     /\ t[2] = "supersede" /\ <<t[1], "pending">> \in todo /\ Stale(t[1])
  OBVIOUS
<1>3. \A t \in kept : t \in todo /\ ~(t[2] = "pending" /\ Stale(t[1]))
  OBVIOUS
<1> HIDE DEF old, kept
<1>4. old \subseteq Effects \X TASKS
  <2> SUFFICES ASSUME NEW t \in old PROVE t \in Effects \X TASKS
    OBVIOUS
  <2>1. t[1] \in Effects /\ t = <<t[1], "supersede">> /\ "supersede" \in TASKS
    BY <1>2 DEF TASKS
  <2> QED  BY <2>1
<1>5. ASSUME NEW t \in old, NEW u \in kept
      PROVE  t[1] # u[1]
  <2>1. <<t[1], "pending">> \in todo /\ <<t[1], "pending">>[1] = t[1] /\ <<t[1], "pending">>[2] = "pending"
    BY <1>2
  <2> QED  BY <1>2, <1>3, <2>1
<1>6. \A t, u \in old \cup kept : t[1] = u[1] => t = u
  BY <1>2, <1>3, <1>5
<1>7. \A e \in Effects : <<e, "pending">> \in old \cup kept => <<e, "pending">> \in todo
  BY <1>2, <1>3
<1> QED  BY <1>1, <1>3, <1>4, <1>6, <1>7

\* A thread that notes what it read.
LEMMA NotesKept ==
    ASSUME WorkflowAssumption, IInv, NEW w \in Workers, NEW pc \in {"sort", "read", "recover"},
           NEW a \in 0..MaxAttempts, NEW tasks \in SUBSET (Effects \X TASKS),
           work' = [work EXCEPT ![w] = [work[w] EXCEPT !.pc = pc, !.att = a, !.todo = tasks]],
           UNCHANGED <<run, wf, stage, eff, done, calls, raced, absent>>
    PROVE  Kept
<1> DEFINE th == [work[w] EXCEPT !.pc = pc, !.att = a, !.todo = tasks]
<1>1. work[w] \in Threads
  BY DEF IInv, Shapes
<1>2. th \in Threads /\ th.pc = pc
  BY <1>1 DEF Threads
<1>3. Knows(th, done')
  BY <1>2 DEF Knows
<1> HIDE DEF th
<1>4. work' \in [Workers -> Threads] /\ ThreadsKnow'
  BY <1>2, <1>3, ThreadStep DEF IInv, th
<1> QED  BY <1>4, QuietStep DEF IInv

\* What each reading leaves in the thread.
LEMMA RecoverIs ==
    ASSUME WorkflowAssumption, Shapes, NEW w \in Workers
    PROVE  /\ work[w].att \in 0..MaxAttempts /\ run.attempt \in 0..MaxAttempts
           /\ work[w].todo \in SUBSET (Effects \X TASKS)
           /\ Recover(w) =>
                work' = [work EXCEPT ![w] = [work[w] EXCEPT !.pc = "sort", !.att = work[w].att,
                                                            !.todo = ListedTasks]]
           /\ Sort(w) =>
                work' = [work EXCEPT ![w] = [work[w] EXCEPT !.pc = "read", !.att = work[w].att,
                                                            !.todo = SortedTasks(work[w].todo)]]
           /\ ReadRun(w) =>
                work' = [work EXCEPT ![w] = [work[w] EXCEPT !.pc = "recover", !.att = run.attempt,
                                                            !.todo = ReadTasks(work[w].todo)]]
<1>1. work[w] \in Threads /\ work \in [Workers -> Threads] /\ run.attempt \in 0..MaxAttempts
  BY DEF Shapes, WorkflowAssumption
<1>2. work[w].att \in 0..MaxAttempts /\ work[w].todo \in SUBSET (Effects \X TASKS)
  BY <1>1 DEF Threads
<1>3. ASSUME NEW pc, NEW tasks,
             work' = [work EXCEPT ![w].pc = pc, ![w].todo = tasks]
      PROVE  work' = [work EXCEPT ![w] = [work[w] EXCEPT !.pc = pc, !.att = work[w].att, !.todo = tasks]]
  <2>1. [work[w] EXCEPT !.pc = pc, !.todo = tasks]
          = [work[w] EXCEPT !.pc = pc, !.att = work[w].att, !.todo = tasks]
    BY <1>1 DEF Threads
  <2>2. work' = [work EXCEPT ![w] = [work[w] EXCEPT !.pc = pc, !.todo = tasks]]
    BY <1>1, <1>3
  <2> QED  BY <2>1, <2>2
<1>4. Recover(w) => work' = [work EXCEPT ![w].pc = "sort", ![w].todo = ListedTasks]
  BY DEF Recover, ListedTasks
<1>5. Sort(w) => work' = [work EXCEPT ![w].pc = "read", ![w].todo = SortedTasks(work[w].todo)]
  BY <1>1 DEF Sort, SortedTasks, Threads
<1>6. ReadRun(w) => work' = [work EXCEPT ![w].pc = "recover", ![w].att = run.attempt,
                                         ![w].todo = ReadTasks(work[w].todo)]
  BY <1>1 DEF ReadRun, ReadTasks, Threads
<1>7. ReadRun(w) =>
        work' = [work EXCEPT ![w] = [work[w] EXCEPT !.pc = "recover", !.att = run.attempt,
                                                    !.todo = ReadTasks(work[w].todo)]]
  BY <1>1, <1>6
<1> QED  BY <1>1, <1>2, <1>3, <1>4, <1>5, <1>7

LEMMA RecoverKept ==
    ASSUME WorkflowAssumption, IInv, NEW w \in Workers, Recover(w)
    PROVE  Kept
<1>1. ListedTasks \in SUBSET (Effects \X TASKS)
  BY ListedIs
<1> DEFINE tasks == ListedTasks
<1>2. /\ work[w].att \in 0..MaxAttempts
      /\ work' = [work EXCEPT ![w] = [work[w] EXCEPT !.pc = "sort", !.att = work[w].att, !.todo = tasks]]
  BY RecoverIs DEF IInv
<1>3. UNCHANGED <<run, wf, stage, eff, done, calls, raced, absent>>
  BY DEF Recover
<1> HIDE DEF tasks
<1> QED  BY <1>1, <1>2, <1>3, NotesKept DEF tasks

LEMMA SortKept ==
    ASSUME WorkflowAssumption, IInv, NEW w \in Workers, Sort(w)
    PROVE  Kept
<1>1. SortedTasks(work[w].todo) \in SUBSET (Effects \X TASKS)
  <2>1. work[w].todo \in SUBSET (Effects \X TASKS)
    BY RecoverIs DEF IInv
  <2>2. ASSUME NEW e \in Effects, Class(e) \in {"pending", "normalise", "reconcile"}
        PROVE  <<e, Class(e)>> \in Effects \X TASKS
    BY <2>2 DEF TASKS
  <2>3. SortedTasks(work[w].todo) \subseteq Effects \X TASKS
    BY <2>1, <2>2 DEF SortedTasks
  <2> QED  BY <2>3
<1> DEFINE tasks == SortedTasks(work[w].todo)
<1>2. /\ work[w].att \in 0..MaxAttempts
      /\ work' = [work EXCEPT ![w] = [work[w] EXCEPT !.pc = "read", !.att = work[w].att, !.todo = tasks]]
  BY RecoverIs DEF IInv
<1>3. UNCHANGED <<run, wf, stage, eff, done, calls, raced, absent>>
  BY DEF Sort
<1> HIDE DEF tasks
<1> QED  BY <1>1, <1>2, <1>3, NotesKept DEF tasks

LEMMA ReadRunKept ==
    ASSUME WorkflowAssumption, IInv, NEW w \in Workers, ReadRun(w)
    PROVE  Kept
<1>1. ReadTasks(work[w].todo) \in SUBSET (Effects \X TASKS)
  <2>1. work[w].todo \in SUBSET (Effects \X TASKS)
    BY RecoverIs DEF IInv
  <2> QED  BY <2>1 DEF ReadTasks, TASKS
<1> DEFINE tasks == ReadTasks(work[w].todo)
<1>2. /\ run.attempt \in 0..MaxAttempts
      /\ work' = [work EXCEPT ![w] = [work[w] EXCEPT !.pc = "recover", !.att = run.attempt, !.todo = tasks]]
  BY RecoverIs DEF IInv
<1>3. UNCHANGED <<run, wf, stage, eff, done, calls, raced, absent>>
  BY DEF ReadRun
<1> HIDE DEF tasks
<1> QED  BY <1>1, <1>2, <1>3, NotesKept DEF tasks

----------------------------------------------------------------------------
(* The tasks of recover *)

LEMMA RecoverSupersedeKept ==
    ASSUME WorkflowAssumption, IInv, NEW w \in Workers, NEW e \in Effects,
           RecoverSupersede(w, e)
    PROVE  Kept
<1>1. UNCHANGED <<run, wf, stage, done, calls, raced, absent, spent>> /\ done \subseteq done'
  BY DEF RecoverSupersede
<1>2. Shapes /\ ThreadsKnow /\ RowsFine
  BY DEF IInv
<1> DEFINE row == Supersede(e, work[w].att)
<1>3. CASE row = Raised
  BY <1>1, <1>2, <1>3, EndStep, QuietStep DEF RecoverSupersede
<1>4. CASE row # Raised
  <2>1. eff' = [eff EXCEPT ![e] = row]
        /\ work' = [work EXCEPT ![w] = Took(w, <<e, "supersede">>)]
    BY <1>4 DEF RecoverSupersede
  <2>2. /\ row \in Rows /\ Fine(e, row, done')
        /\ SettledRow(eff[e]) => row = eff[e]
        /\ eff[e].st # None
    BY <1>1, <1>2, <1>4, SupersedeIs
  <2> HIDE DEF row
  <2>3. eff' \in [Effects -> Rows] /\ RowsFine' /\ RowsCalm
    BY <1>1, <1>2, <2>1, <2>2, RowStep
  <2>4. work' \in [Workers -> Threads] /\ ThreadsKnow'
    BY <1>1, <1>2, <2>1, TookIs, ThreadStep
  <2> QED  BY <1>1, <1>2, <2>3, <2>4, TableStep
<1> QED  BY <1>3, <1>4

\* What a delivery adds to the counts.
LEMMA CallsCount ==
    ASSUME Shapes, NEW w \in Workers, NEW e \in Effects, Dispatch(w, e),
           ClaimEffect(w, e) # Raised
    PROVE  /\ calls' \in [Effects -> Nat] /\ raced' \in [Effects -> Nat]
           /\ \A x \in Effects : x # e => calls'[x] = calls[x] /\ raced'[x] = raced[x]
           /\ calls'[e] = calls[e] + 1
           /\ raced'[e] = IF ClaimEffect(w, e).st = "outcome_unknown" /\ eff[e].owner # w
                          THEN raced[e] + 1 ELSE raced[e]
<1>1. /\ calls' = [calls EXCEPT ![e] = @ + 1]
      /\ raced' = [raced EXCEPT ![e] =
            IF ClaimEffect(w, e).st = "outcome_unknown" /\ eff[e].owner # w THEN @ + 1 ELSE @]
  BY DEF Dispatch
<1>2. calls[e] \in Nat /\ raced[e] \in Nat
  BY DEF Shapes
<1> DEFINE c == calls[e] + 1
           r == IF ClaimEffect(w, e).st = "outcome_unknown" /\ eff[e].owner # w
                THEN raced[e] + 1 ELSE raced[e]
<1>3. c \in Nat /\ r \in Nat
  BY <1>2
<1>4. calls' = [calls EXCEPT ![e] = c] /\ raced' = [raced EXCEPT ![e] = r]
  BY <1>1
<1> HIDE DEF c, r
<1>5. calls' \in [Effects -> Nat] /\ raced' \in [Effects -> Nat]
  BY <1>3, <1>4 DEF Shapes
<1>6. /\ \A x \in Effects : x # e => calls'[x] = calls[x] /\ raced'[x] = raced[x]
      /\ calls'[e] = c /\ raced'[e] = r
  BY <1>4 DEF Shapes
<1> QED  BY <1>5, <1>6 DEF c, r

\* What the store's answers make of the sends.
LEMMA SupersedeCounts ==
    ASSUME IInv, NEW e \in Effects, NEW a, Supersede(e, a) # Raised
    PROVE  /\ Supersede(e, a).sends = eff[e].sends
           /\ Supersede(e, a).st \in {"failed", "completed"}
           /\ Supersede(e, a).st \in {"failed", eff[e].st}
<1>1. eff[e] \in Rows
  BY DEF IInv, Shapes
<1>2. CASE Settled(e)
  <2>1. Supersede(e, a) = eff[e]
    BY <1>2 DEF Supersede, Settled, Superseded
  <2> QED  BY <1>2, <2>1 DEF Settled, Superseded
<1>3. CASE ~Settled(e)
  <2>1. Supersede(e, a) = [eff[e] EXCEPT !.st = "failed", !.why = "superseded"]
    BY <1>3 DEF Supersede
  <2> QED  BY <1>1, <2>1 DEF Rows
<1> QED  BY <1>2, <1>3

LEMMA ClaimCounts ==
    ASSUME WorkflowAssumption, IInv, NEW e \in Effects, NEW w \in Workers,
           ClaimEffect(w, e) # Raised
    PROVE  \/ /\ ClaimEffect(w, e).st = "outcome_unknown"
              /\ ClaimEffect(w, e).sends = eff[e].sends
              /\ eff[e].st = "claimed"
           \/ /\ ClaimEffect(w, e).st = "claimed" /\ ClaimEffect(w, e).owner = w
              /\ Mutation(e) => /\ eff[e].st = "pending"
                                /\ ClaimEffect(w, e).sends = eff[e].sends + 1
<1>1. Shapes /\ RowsFine /\ eff[e] \in Rows
  BY DEF IInv, Shapes
<1>2. CASE eff[e].st = "claimed" /\ eff[e].lease = "expired" /\ Mutation(e)
  <2>1. ClaimEffect(w, e) = Unclaimed(e, "outcome_unknown")
    BY <1>2 DEF ClaimEffect
  <2> QED  BY <1>1, <1>2, <2>1, RowShapes DEF STATES
<1>3. CASE ~(eff[e].st = "claimed" /\ eff[e].lease = "expired" /\ Mutation(e))
  <2> DEFINE c == Claimed(w, e, "claimed")
             k == IF Mutation(e) THEN c.sends + 1 ELSE c.sends
             row == [c EXCEPT !.sends = k]
  <2>1. /\ eff[e].st = "pending" \/ (eff[e].st = "claimed" /\ eff[e].lease = "expired")
        /\ ClaimEffect(w, e) = row
    BY <1>3 DEF ClaimEffect
  <2>2. c \in Rows /\ c.st = "claimed" /\ c.owner = w /\ c.sends = eff[e].sends
    BY <1>1, RowShapes DEF STATES
  <2>3. Mutation(e) => k = eff[e].sends + 1
    BY <2>2
  <2> HIDE DEF c, k
  <2>4. row.st = "claimed" /\ row.owner = w /\ row.sends = k
    BY <2>2 DEF Rows
  <2> HIDE DEF row
  <2> QED  BY <1>3, <2>1, <2>3, <2>4
<1> QED  BY <1>2, <1>3

LEMMA ReleasedCounts ==
    ASSUME WorkflowAssumption, Shapes, RowsFine, NEW e \in Effects
    PROVE  /\ \A st \in {"completed", "outcome_unknown", "manual_required", "pending"} :
                 /\ Unclaimed(e, st).sends = eff[e].sends
                 /\ Unclaimed(e, st).st = st
                 /\ st \notin {None, "claimed", "reconciling"}
           /\ LET row == [Unclaimed(e, "failed") EXCEPT !.why = "rejected"]
              IN  /\ row.sends = eff[e].sends /\ row.st = "failed"
                  /\ row.st \notin {None, "claimed", "reconciling"}
<1>1. \A st \in STATES : /\ Unclaimed(e, st) \in Rows /\ Unclaimed(e, st).st = st
                         /\ Unclaimed(e, st).sends = eff[e].sends
  BY RowShapes
<1> QED  BY <1>1 DEF Rows, STATES, None

LEMMA DispatchKept ==
    ASSUME WorkflowAssumption, IInv, NEW w \in Workers, NEW e \in Effects,
           Dispatch(w, e)
    PROVE  Kept
<1>1. UNCHANGED <<run, wf, stage, done, absent, spent>> /\ done \subseteq done'
  BY DEF Dispatch
<1>2. Shapes /\ ThreadsKnow /\ RowsFine
  BY DEF IInv
<1> DEFINE row == ClaimEffect(w, e)
           mine == Took(w, <<e, "pending">>)
           th == [mine EXCEPT !.pc = "call", !.on = e, !.epoch = row.epoch]
<1>3. mine \in Threads /\ Knows(mine, done')
  BY <1>1, <1>2, TookIs
<1>4. CASE row = Raised
  <2>1. work' = [work EXCEPT ![w] = mine] /\ UNCHANGED <<eff, calls, raced>>
    BY <1>4 DEF Dispatch
  <2> HIDE DEF mine
  <2> QED  BY <1>1, <1>2, <1>3, <2>1, ThreadStep, QuietStep
<1>5. CASE row # Raised
  <2>0. calls' \in [Effects -> Nat] /\ raced' \in [Effects -> Nat]
    BY <1>2, <1>5, CallsCount
  <2>1. eff' = [eff EXCEPT ![e] = row] /\ work' = [work EXCEPT ![w] = th]
    BY <1>5 DEF Dispatch
  <2>2. row \in Rows /\ Fine(e, row, done') /\ ~SettledRow(eff[e]) /\ eff[e].st # None
    BY <1>1, <1>2, <1>5, ClaimIs
  <2> HIDE DEF row, mine
  <2>3. th \in Threads /\ th.pc = "call" /\ th.on = e
    BY <1>3, <2>2 DEF Threads, Rows
  <2>4. Knows(th, done')
    BY <2>3 DEF Knows
  <2> HIDE DEF th
  <2>5. eff' \in [Effects -> Rows] /\ RowsFine' /\ RowsCalm
    BY <1>1, <1>2, <2>1, <2>2, RowStep
  <2>6. work' \in [Workers -> Threads] /\ ThreadsKnow'
    BY <1>1, <1>2, <2>1, <2>3, <2>4, ThreadStep
  <2> QED  BY <1>1, <1>2, <2>0, <2>5, <2>6 DEF Kept, Shapes, Calm
<1> QED  BY <1>4, <1>5

LEMMA NormaliseKept ==
    ASSUME WorkflowAssumption, IInv, NEW w \in Workers, NEW e \in Effects,
           Normalise(w, e)
    PROVE  Kept
<1>1. UNCHANGED <<run, wf, stage, done, calls, raced, absent, spent>> /\ done \subseteq done'
  BY DEF Normalise
<1>2. Shapes /\ ThreadsKnow /\ RowsFine
  BY DEF IInv
<1> DEFINE row == ClaimEffect(w, e)
           mine == Took(w, <<e, "normalise">>)
           th == [mine EXCEPT !.todo = @ \cup {<<e, "reconcile">>}]
<1>3. mine \in Threads /\ Knows(mine, done')
  BY <1>1, <1>2, TookIs
<1>4. th \in Threads /\ Knows(th, done')
  <2> HIDE DEF mine
  <2>1. th \in Threads /\ th.pc = mine.pc /\ th.on = mine.on /\ th.said = mine.said
    BY <1>3 DEF Threads, TASKS
  <2> QED  BY <1>3, <2>1 DEF Knows
<1>5. work' = [work EXCEPT ![w] = mine] \/ work' = [work EXCEPT ![w] = th]
  BY DEF Normalise
<1>6. work' \in [Workers -> Threads] /\ ThreadsKnow'
  <2> HIDE DEF mine, th
  <2> QED  BY <1>1, <1>2, <1>3, <1>4, <1>5, ThreadStep
<1>7. CASE row = Raised
  BY <1>1, <1>2, <1>6, <1>7, QuietStep DEF Normalise
<1>8. CASE row # Raised
  <2>1. eff' = [eff EXCEPT ![e] = row]
    BY <1>8 DEF Normalise
  <2>2. row \in Rows /\ Fine(e, row, done') /\ ~SettledRow(eff[e]) /\ eff[e].st # None
    BY <1>1, <1>2, <1>8, ClaimIs
  <2> HIDE DEF row
  <2>3. eff' \in [Effects -> Rows] /\ RowsFine' /\ RowsCalm
    BY <1>1, <1>2, <2>1, <2>2, RowStep
  <2> QED  BY <1>1, <1>2, <1>6, <2>3, TableStep
<1> QED  BY <1>7, <1>8

LEMMA ClaimReconciliationKept ==
    ASSUME WorkflowAssumption, IInv, NEW w \in Workers, NEW e \in Effects,
           ClaimReconciliation(w, e)
    PROVE  Kept
<1>1. UNCHANGED <<run, wf, stage, done, calls, raced, absent, spent>> /\ done \subseteq done'
  BY DEF ClaimReconciliation
<1>2. Shapes /\ ThreadsKnow /\ RowsFine
  BY DEF IInv
<1> DEFINE mine == Took(w, <<e, "reconcile">>)
           row == Claimed(w, e, "reconciling")
           n == eff[e].epoch + 1
           th == [mine EXCEPT !.pc = "ask", !.on = e, !.epoch = n]
<1>3. mine \in Threads /\ Knows(mine, done')
  BY <1>1, <1>2, TookIs
<1>4. CASE work' = [work EXCEPT ![w] = mine] /\ UNCHANGED eff
  <2> HIDE DEF mine
  <2> QED  BY <1>1, <1>2, <1>3, <1>4, ThreadStep, QuietStep
<1>5. CASE /\ eff[e].st \in {"outcome_unknown", "reconciling"}
           /\ eff' = [eff EXCEPT ![e] = row] /\ work' = [work EXCEPT ![w] = th]
  <2>1. /\ eff[e] \in Rows /\ Fine(e, eff[e], done)
        /\ row \in Rows /\ row.st = "reconciling" /\ row.owner = w /\ row.lease = "live"
        /\ row.sends = eff[e].sends
    BY <1>2, RowShapes DEF STATES
  <2>2. n \in Nat
    BY <2>1 DEF Rows
  <2> HIDE DEF mine, row, n
  <2>3. th \in Threads /\ th.pc = "ask" /\ th.on = e
    BY <1>3, <2>2 DEF Threads
  <2>4. Knows(th, done')
    BY <2>3 DEF Knows
  <2> HIDE DEF th
  <2>5. Fine(e, row, done') /\ ~SettledRow(eff[e]) /\ eff[e].st # None
    BY <1>5, <2>1 DEF Fine, SettledRow, None
  <2>6. eff' \in [Effects -> Rows] /\ RowsFine' /\ RowsCalm
    BY <1>1, <1>2, <1>5, <2>1, <2>5, RowStep
  <2>7. work' \in [Workers -> Threads] /\ ThreadsKnow'
    BY <1>1, <1>2, <1>5, <2>3, <2>4, ThreadStep
  <2> QED  BY <1>1, <1>2, <2>6, <2>7, TableStep
<1> QED  BY <1>4, <1>5 DEF ClaimReconciliation

\* A failure is settled over its stage, the workflow and the run.
LEMMA SettleStep ==
    ASSUME WorkflowAssumption, Shapes, NEW s \in Stages,
           stage[s].state \in {"active", "waiting"}, SettleFailure(s)
    PROVE  /\ run' \in [state : {"running", "paused", "waiting"} \cup Fenced,
                        attempt : 1..MaxAttempts, decided : SUBSET Stages]
           /\ run'.decided = run.decided
           /\ stage' \in [Stages -> [state : {"pending", "ready", "active", "waiting",
                                              "completed", "failed"}, by : 0..MaxAttempts]]
           /\ wf' \in [state : {"running", "waiting", "completed", "failed"},
                       cur : Stages, rev : Nat]
           /\ wf'.cur = wf.cur
           /\ \A t \in Stages :
                 \/ stage'[t] = stage[t]
                 \/ /\ stage[t].state \in {"ready", "active", "waiting"}
                    /\ stage'[t].state # "completed"
<1>1. /\ run' \in [state : {"running", "paused", "waiting"} \cup Fenced,
                   attempt : 1..MaxAttempts, decided : SUBSET Stages]
      /\ run'.decided = run.decided
  BY DEF Shapes, SettleFailure, Fenced
<1>2. /\ stage' = [stage EXCEPT ![s].state = "failed"]
      /\ wf' = [wf EXCEPT !.state = "failed", !.rev = @ + 1]
  BY DEF SettleFailure
<1> QED  BY <1>1, <1>2, StageStep

LEMMA SettleDeferredKept ==
    ASSUME WorkflowAssumption, IInv, NEW w \in Workers, NEW e \in Effects,
           SettleDeferred(w, e)
    PROVE  Kept
<1>1. UNCHANGED <<eff, done, calls, raced, absent, spent>> /\ done \subseteq done'
  BY DEF SettleDeferred
<1>2. Shapes /\ ThreadsKnow /\ RowsFine
  BY DEF IInv
<1> DEFINE mine == Took(w, <<e, "failed">>)
<1>3. mine \in Threads /\ Knows(mine, done')
  BY <1>1, <1>2, TookIs
<1>4. \/ work' = [work EXCEPT ![w] = mine]
      \/ End(w)
  BY DEF SettleDeferred
<1>5. work' \in [Workers -> Threads] /\ ThreadsKnow'
  <2> HIDE DEF mine
  <2> QED  BY <1>1, <1>2, <1>3, <1>4, ThreadStep, EndStep
<1>6. RowsFine' /\ RowsCalm /\ eff' \in [Effects -> Rows]
  BY <1>1, <1>2, RowsStay
<1>7. CASE UNCHANGED <<run, wf, stage>>
  BY <1>1, <1>2, <1>5, <1>7, QuietStep
<1>8. CASE stage[e[1]].state \in {"active", "waiting"} /\ SettleFailure(e[1])
  <2>1. e[1] \in Stages
    BY EffectFacts
  <2> QED  BY <1>1, <1>2, <1>5, <1>6, <1>8, <2>1, SettleStep DEF Kept, Shapes, Calm
<1> QED  BY <1>7, <1>8 DEF SettleDeferred

LEMMA FinishKept ==
    ASSUME WorkflowAssumption, IInv, NEW w \in Workers, Finish(w)
    PROVE  Kept
<1>1. UNCHANGED <<run, wf, stage, eff, done, calls, raced, absent, spent>> /\ done \subseteq done'
  BY DEF Finish
<1>2. Shapes /\ ThreadsKnow /\ RowsFine /\ wf.rev \in Nat /\ work[w] \in Threads
  BY DEF IInv, Shapes
<1> DEFINE th == [work[w] EXCEPT !.pc = "commit", !.rev = wf.rev]
<1>3. CASE End(w)
  BY <1>1, <1>2, <1>3, EndStep, QuietStep
<1>4. CASE work' = [work EXCEPT ![w].pc = "commit", ![w].rev = wf.rev]
  <2>1. th \in Threads /\ th.pc = "commit"
    BY <1>2 DEF Threads
  <2>2. Knows(th, done')
    BY <2>1 DEF Knows
  <2>3. work' = [work EXCEPT ![w] = th]
    BY <1>2, <1>4 DEF Shapes
  <2> HIDE DEF th
  <2>4. work' \in [Workers -> Threads] /\ ThreadsKnow'
    BY <1>1, <1>2, <2>1, <2>2, <2>3, ThreadStep
  <2> QED  BY <1>1, <1>2, <2>4, QuietStep
<1> QED  BY <1>3, <1>4 DEF Finish

----------------------------------------------------------------------------
(* At the adapters *)

\* A thread keeps its effect and hears what is said of it.
LEMMA HearsStep ==
    ASSUME Shapes, ThreadsKnow, NEW w \in Workers,
           work[w].pc \in {"call", "ask"}, NEW pc \in {"reply", "answer"},
           NEW said \in {"ok", "unknown", "rejected", "committed", "not_found"},
           work' = [work EXCEPT ![w].pc = pc, ![w].said = said],
           done \subseteq done',
           said \in {"ok", "committed"} => work[w].on \in done'
    PROVE  work' \in [Workers -> Threads] /\ ThreadsKnow'
<1> DEFINE th == [work[w] EXCEPT !.pc = pc, !.said = said]
<1>1. work[w] \in Threads /\ Knows(work[w], done)
  BY DEF Shapes, ThreadsKnow
<1>2. th \in Threads /\ th.pc = pc /\ th.on = work[w].on /\ th.said = said
  BY <1>1 DEF Threads
<1>3. work' = [work EXCEPT ![w] = th]
  BY DEF Shapes
<1> HIDE DEF th
<1>4. Knows(th, done')
  BY <1>1, <1>2 DEF Knows
<1> QED  BY <1>2, <1>3, <1>4, ThreadStep

LEMMA CallKept ==
    ASSUME WorkflowAssumption, IInv, NEW w \in Workers, Call(w)
    PROVE  Kept
<1>1. Shapes /\ ThreadsKnow /\ RowsFine
  BY DEF IInv
<1>2. UNCHANGED <<run, wf, stage, eff, calls, raced, absent>>
  BY DEF Call
<1>3. work[w].on \in Effects
  BY <1>1 DEF Call, ThreadsKnow, Knows
<1>4. done \subseteq done' /\ done' \in SUBSET Effects
  BY <1>1, <1>3 DEF Call, Shapes
<1>5. PICK said \in {"ok", "unknown", "rejected"} :
         /\ work' = [work EXCEPT ![w].pc = "reply", ![w].said = said]
         /\ said = "ok" => work[w].on \in done'
  BY DEF Call
<1>6. work' \in [Workers -> Threads] /\ ThreadsKnow'
  BY <1>1, <1>4, <1>5, HearsStep DEF Call
<1>7. RowsFine' /\ RowsCalm /\ eff' \in [Effects -> Rows]
  BY <1>1, <1>2, <1>4, RowsStay
<1> QED  BY <1>1, <1>2, <1>4, <1>6, <1>7 DEF Kept, Shapes, Calm

LEMMA AskKept ==
    ASSUME WorkflowAssumption, IInv, NEW w \in Workers, Ask(w)
    PROVE  Kept
<1>1. Shapes /\ ThreadsKnow /\ RowsFine
  BY DEF IInv
<1>2. UNCHANGED <<run, wf, stage, eff, done, calls, raced>> /\ done \subseteq done'
  BY DEF Ask
<1>3. work[w].on \in Effects
  BY <1>1 DEF Ask, ThreadsKnow, Knows
<1>4. absent' \in [Effects -> Nat]
  <2>1. absent[work[w].on] \in Nat
    BY <1>1, <1>3 DEF Shapes
  <2> QED  BY <1>1, <2>1 DEF Ask, Shapes
<1>5. PICK said \in {"committed", "not_found", "unknown"} :
         /\ work' = [work EXCEPT ![w].pc = "answer", ![w].said = said]
         /\ said = "committed" => work[w].on \in done'
  BY <1>2 DEF Ask
<1>6. work' \in [Workers -> Threads] /\ ThreadsKnow'
  BY <1>1, <1>2, <1>5, HearsStep DEF Ask
<1>7. RowsFine' /\ RowsCalm /\ eff' \in [Effects -> Rows]
  BY <1>1, <1>2, RowsStay
<1> QED  BY <1>1, <1>2, <1>4, <1>6, <1>7 DEF Kept, Shapes, Calm

\* A claim that is released for a state that nobody owns.
LEMMA ReleaseStep ==
    ASSUME WorkflowAssumption, Shapes, RowsFine, NEW e \in Effects,
           eff[e].st \in {"claimed", "reconciling"},
           NEW st \in {"pending", "outcome_unknown", "completed", "manual_required"},
           eff' = [eff EXCEPT ![e] = Unclaimed(e, st)], done' = done,
           st = "completed" => e \in done,
           st = "pending" => eff[e].sends < MaxDeliveries
    PROVE  eff' \in [Effects -> Rows] /\ RowsFine' /\ RowsCalm
<1> DEFINE row == Unclaimed(e, st)
<1>1. /\ eff[e] \in Rows /\ Fine(e, eff[e], done)
      /\ row \in Rows /\ row.st = st /\ row.owner = None /\ row.lease = None
      /\ row.sends = eff[e].sends /\ None \notin Workers
  BY RowShapes DEF STATES
<1> HIDE DEF row
<1>2. Fine(e, row, done') /\ ~SettledRow(eff[e]) /\ eff[e].st # None
  BY <1>1 DEF Fine, SettledRow, None
<1>3. eff' = [eff EXCEPT ![e] = row]
  BY DEF row
<1> QED  BY <1>1, <1>2, <1>3, RowStep

LEMMA RejectStep ==
    ASSUME WorkflowAssumption, Shapes, RowsFine, NEW w \in Workers, NEW e \in Effects,
           NEW st \in {"claimed", "reconciling"}, Reject(w, e, st), done' = done
    PROVE  /\ eff' \in [Effects -> Rows] /\ RowsFine' /\ RowsCalm
           /\ run' \in [state : {"running", "paused", "waiting"} \cup Fenced,
                        attempt : 1..MaxAttempts, decided : SUBSET Stages]
           /\ run'.decided = run.decided
           /\ stage' \in [Stages -> [state : {"pending", "ready", "active", "waiting",
                                              "completed", "failed"}, by : 0..MaxAttempts]]
           /\ wf' \in [state : {"running", "waiting", "completed", "failed"},
                       cur : Stages, rev : Nat]
           /\ wf'.cur = wf.cur
           /\ \A t \in Stages :
                 \/ stage'[t] = stage[t]
                 \/ /\ stage[t].state \in {"ready", "active", "waiting"}
                    /\ stage'[t].state # "completed"
<1> DEFINE rel == Unclaimed(e, "failed")
           row == [rel EXCEPT !.why = "rejected"]
<1>1. /\ eff[e] \in Rows /\ Fine(e, eff[e], done) /\ eff[e].st = st
      /\ rel \in Rows /\ rel.st = "failed" /\ rel.owner = None /\ rel.lease = None
      /\ rel.sends = eff[e].sends /\ None \notin Workers
  BY RowShapes DEF STATES, Reject, FitsLive, Fits
<1>2. eff' = [eff EXCEPT ![e] = row]
  BY DEF Reject
<1> HIDE DEF rel
<1>3. /\ row \in Rows /\ row.st = "failed" /\ row.owner = None /\ row.lease = None
      /\ row.sends = eff[e].sends
  BY <1>1 DEF Rows
<1> HIDE DEF row
<1>4. Fine(e, row, done') /\ ~SettledRow(eff[e]) /\ eff[e].st # None
  BY <1>1, <1>3 DEF Fine, SettledRow, None
<1>5. eff' \in [Effects -> Rows] /\ RowsFine' /\ RowsCalm
  BY <1>2, <1>3, <1>4, RowStep
<1>6. CASE UNCHANGED <<run, wf, stage>>
  BY <1>5, <1>6 DEF Shapes
<1>7. CASE RunOpen /\ SettleFailure(e[1])
  <2>1. e[1] \in Stages /\ stage[e[1]].state \in {"active", "waiting"}
    BY <1>7, EffectFacts DEF Reject
  <2> QED  BY <1>5, <1>7, <2>1, SettleStep
<1> QED  BY <1>6, <1>7 DEF Reject

\* An answer is recorded, or the thread gives up.
LEMMA RecordKept ==
    ASSUME WorkflowAssumption, IInv, NEW w \in Workers, NEW e \in Effects,
           UNCHANGED <<done, calls, raced, absent>>,
           \/ (End(w) \/ Continue(w)) /\ UNCHANGED <<eff, run, wf, stage>>
           \/ /\ Continue(w) /\ UNCHANGED <<run, wf, stage>>
              /\ eff[e].st \in {"claimed", "reconciling"}
              /\ \E st \in {"pending", "outcome_unknown", "completed", "manual_required"} :
                    /\ eff' = [eff EXCEPT ![e] = Unclaimed(e, st)]
                    /\ st = "completed" => e \in done
                    /\ st = "pending" => eff[e].sends < MaxDeliveries
           \/ Continue(w) /\ \E st \in {"claimed", "reconciling"} : Reject(w, e, st)
    PROVE  Kept
<1>1. Shapes /\ ThreadsKnow /\ RowsFine /\ done \subseteq done' /\ done' = done
  BY DEF IInv
<1>2. work' \in [Workers -> Threads] /\ ThreadsKnow'
  BY <1>1, EndStep, ContinueStep
<1>3. CASE UNCHANGED <<eff, run, wf, stage>>
  BY <1>1, <1>2, <1>3, QuietStep
<1>4. CASE /\ UNCHANGED <<run, wf, stage>>
           /\ eff[e].st \in {"claimed", "reconciling"}
           /\ \E st \in {"pending", "outcome_unknown", "completed", "manual_required"} :
                 /\ eff' = [eff EXCEPT ![e] = Unclaimed(e, st)]
                 /\ st = "completed" => e \in done
                 /\ st = "pending" => eff[e].sends < MaxDeliveries
  <2>1. eff' \in [Effects -> Rows] /\ RowsFine' /\ RowsCalm
    BY <1>1, <1>4, ReleaseStep
  <2> QED  BY <1>1, <1>2, <1>4, <2>1, TableStep
<1>5. CASE \E st \in {"claimed", "reconciling"} : Reject(w, e, st)
  BY <1>1, <1>2, <1>5, RejectStep DEF Kept, Shapes, Calm
<1> QED  BY <1>3, <1>4, <1>5

LEMMA ReplyKept ==
    ASSUME WorkflowAssumption, IInv, NEW w \in Workers, Reply(w)
    PROVE  Kept
<1> DEFINE e == work[w].on
<1>1. e \in Effects /\ (work[w].said = "ok" => e \in done)
  BY DEF Reply, IInv, ThreadsKnow, Knows
<1>2. \/ (End(w) \/ Continue(w)) /\ UNCHANGED <<eff, run, wf, stage>>
      \/ /\ work[w].said = "ok" /\ FitsLive(w, e, "claimed")
         /\ eff' = [eff EXCEPT ![e] = Unclaimed(e, "completed")]
         /\ Continue(w) /\ UNCHANGED <<run, wf, stage>>
      \/ Reject(w, e, "claimed") /\ Continue(w)
      \/ /\ Fits(w, e, "claimed")
         /\ eff' = [eff EXCEPT ![e] = Unclaimed(e, "outcome_unknown")]
         /\ Continue(w) /\ UNCHANGED <<run, wf, stage>>
  BY DEF Reply
<1>3. UNCHANGED <<done, calls, raced, absent>>
  BY DEF Reply
<1>4. \A st : FitsLive(w, e, st) \/ Fits(w, e, st) => eff[e].st = st
  BY DEF FitsLive, Fits
<1> HIDE DEF e
<1> QED  BY <1>1, <1>2, <1>3, <1>4, RecordKept

LEMMA AnswerKept ==
    ASSUME WorkflowAssumption, IInv, NEW w \in Workers, Answer(w)
    PROVE  Kept
<1> DEFINE e == work[w].on
           to(st) == eff' = [eff EXCEPT ![e] = Unclaimed(e, st)] /\ Continue(w) /\ UNCHANGED <<run, wf, stage>>
<1>1. e \in Effects /\ (work[w].said = "committed" => e \in done)
  BY DEF Answer, IInv, ThreadsKnow, Knows
<1>2. \/ End(w) /\ UNCHANGED <<eff, run, wf, stage>>
      \/ /\ FitsLive(w, e, "reconciling")
         /\ \/ work[w].said = "committed" /\ to("completed")
            \/ to("manual_required")
            \/ ~Exhausted(e) /\ to("pending")
            \/ Reject(w, e, "reconciling") /\ Continue(w)
  BY DEF Answer, Rejectable
<1>3. UNCHANGED <<done, calls, raced, absent>>
  BY DEF Answer
<1>4. FitsLive(w, e, "reconciling") => eff[e].st = "reconciling"
  BY DEF FitsLive, Fits
<1>5. ~Exhausted(e) => eff[e].sends < MaxDeliveries
  <2>1. eff[e] \in Rows /\ MaxDeliveries \in Nat
    BY <1>1 DEF IInv, Shapes, WorkflowAssumption, MaxDeliveriesAssumption
  <2>2. eff[e].sends \in Nat
    BY <2>1 DEF Rows
  <2> HIDE DEF e
  <2> QED  BY <2>1, <2>2 DEF Exhausted
<1> HIDE DEF e
<1> QED  BY <1>1, <1>2, <1>3, <1>4, <1>5, RecordKept

----------------------------------------------------------------------------
(* The completion of a stage *)

\* The effects of the attempt that completes a stage are all there, completed.
LEMMA CompletedWhole ==
    ASSUME WorkflowAssumption, Shapes, RowsFine, NEW s \in Stages, Completable(s)
    PROVE  /\ \A e \in OfAttempt(s, run.attempt) : eff[e].st = "completed" /\ e \in done
           /\ \A e \in Started(s) : Settled(e)
           /\ Graph[s].effect = "decision" => s \in run.decided
<1>1. /\ \A e \in Answerable(s) : eff[e].st = "completed"
      /\ Graph[s].keys \subseteq {e[2] : e \in Answerable(s)}
      /\ Bound(s) => \A e \in Answerable(s) : e[3] = run.attempt
      /\ \A e \in Started(s) \ Answerable(s) : Settled(e)
      /\ Graph[s].effect = "decision" => s \in run.decided
  BY DEF Completable, AllCompleted
<1>2. Answerable(s) \subseteq Started(s)
  BY DEF Answerable
<1>3. \A e \in Started(s) : Settled(e)
  BY <1>1, <1>2 DEF Settled
<1>4. ASSUME NEW e \in OfAttempt(s, run.attempt)
      PROVE  eff[e].st = "completed" /\ e \in done
  <2>1. e \in Effects /\ e[1] = s /\ e[3] = (IF Bound(s) THEN run.attempt ELSE 0)
    BY DEF OfAttempt
  <2>2. e[2] \in Graph[s].keys /\ e = <<e[1], e[2], e[3]>>
    BY <2>1, EffectFacts
  <2>3. PICK f \in Answerable(s) : f[2] = e[2]
    BY <1>1, <2>2
  <2>4. f \in Effects /\ f[1] = s
    BY <1>2, <2>3 DEF Started
  <2>5. /\ f = <<f[1], f[2], f[3]>>
        /\ ~Bound(s) => f[3] = 0
    BY <2>4, EffectFacts
  <2>6. f[3] = e[3]
    BY <1>1, <2>1, <2>3, <2>5
  <2>7. f = e
    BY <2>1, <2>2, <2>3, <2>4, <2>5, <2>6
  <2> QED  BY <1>1, <2>1, <2>3, <2>7 DEF RowsFine, Fine
<1> QED  BY <1>1, <1>3, <1>4

LEMMA CommitKeeps ==
    ASSUME WorkflowAssumption, IInv, NEW w \in Workers, Commit(w)
    PROVE  IInv'
<1>1. Shapes /\ ThreadsKnow /\ RowsFine /\ StagesInOrder /\ StageSound
  BY DEF IInv
<1>2. UNCHANGED <<run, eff, done, calls, raced, absent, spent>> /\ done \subseteq done'
  BY DEF Commit
<1>3. work' \in [Workers -> Threads] /\ ThreadsKnow'
  BY <1>1, <1>2, EndStep DEF Commit
<1>4. RowsFine'
  BY <1>1, <1>2, RowsStay
<1>5. CASE UNCHANGED <<stage, wf>>
  <2>1. Kept
    BY <1>1, <1>2, <1>3, <1>5, QuietStep
  <2> QED  BY <2>1, CalmKeepsStages
<1>6. CASE /\ Completable(wf.cur)
           /\ stage' = [t \in Stages |->
                          CASE t = wf.cur -> [state |-> "completed", by |-> run.attempt]
                            [] t = wf.cur + 1 -> [stage[t] EXCEPT !.state = "ready"]
                            [] OTHER -> stage[t]]
           /\ wf' = IF wf.cur = Len(Graph) THEN [wf EXCEPT !.state = "completed", !.rev = @ + 1]
                    ELSE [state |-> "running", cur |-> wf.cur + 1, rev |-> wf.rev + 1]
  <2> DEFINE s == wf.cur
             n == wf.rev + 1
             t1 == s + 1
  <2>1. /\ s \in Stages /\ s \in Nat /\ wf.rev \in Nat /\ n \in Nat
        /\ run.attempt \in 0..MaxAttempts
        /\ s # Len(Graph) => t1 \in Stages
        /\ t1 # s
    BY <1>1, StagesAre DEF Shapes, WorkflowAssumption
  <2>2. /\ stage'[s] = [state |-> "completed", by |-> run.attempt]
        /\ \A t \in Stages : t = t1 => stage'[t] = [stage[t] EXCEPT !.state = "ready"]
        /\ \A t \in Stages : t # s /\ t # t1 => stage'[t] = stage[t]
        /\ DOMAIN stage' = Stages /\ stage' = [t \in Stages |-> stage'[t]]
    BY <1>6, <2>1
  <2>3. stage' \in [Stages -> [state : {"pending", "ready", "active", "waiting",
                                        "completed", "failed"}, by : 0..MaxAttempts]]
    <3>1. ASSUME NEW t \in Stages
          PROVE  stage'[t] \in [state : {"pending", "ready", "active", "waiting",
                                         "completed", "failed"}, by : 0..MaxAttempts]
      <4>1. stage[t] \in [state : {"pending", "ready", "active", "waiting",
                                   "completed", "failed"}, by : 0..MaxAttempts]
        BY <1>1 DEF Shapes
      <4> HIDE DEF s, t1
      <4> QED  BY <2>1, <2>2, <4>1
    <3> QED  BY <2>2, <3>1
  <2>4. /\ wf' \in [state : {"running", "waiting", "completed", "failed"},
                    cur : Stages, rev : Nat]
        /\ wf'.cur = s \/ wf'.cur = t1
    <3>1. CASE s = Len(Graph)
      <4>1. wf' = [wf EXCEPT !.state = "completed", !.rev = n]
        BY <1>6, <3>1
      <4> HIDE DEF n
      <4> QED  BY <1>1, <2>1, <4>1 DEF Shapes
    <3>2. CASE s # Len(Graph)
      <4>1. wf' = [state |-> "running", cur |-> t1, rev |-> n]
        BY <1>6, <3>2
      <4> HIDE DEF n, t1
      <4> QED  BY <2>1, <3>2, <4>1
    <3> QED  BY <3>1, <3>2
  <2>5. StagesInOrder'
    <3> SUFFICES ASSUME NEW t \in Stages, t > wf'.cur
                 PROVE  stage'[t].state = "pending"
      BY DEF StagesInOrder
    <3>1. t \in Nat /\ t # s /\ t > s
      BY <2>1, <2>4, StagesAre
    <3>2. s # Len(Graph) /\ wf'.cur = t1
      BY <1>1, <1>6, <2>1, <3>1 DEF WorkflowAssumption, GraphAssumption, Stages
    <3>3. t # t1
      BY <3>1, <3>2
    <3> QED  BY <1>1, <2>2, <3>1, <3>3 DEF StagesInOrder
  <2>6. StageSound'
    <3> SUFFICES ASSUME NEW t \in Stages, stage'[t].state = "completed"
                 PROVE  /\ \A e \in OfAttempt(t, stage'[t].by) :
                              eff[e].st = "completed" /\ e \in done
                        /\ \A e \in Started(t) : Settled(e)
                        /\ Graph[t].effect = "decision" => t \in run.decided
      BY <1>2 DEF StageSound, OfAttempt, Started, Settled, Superseded
    <3>1. CASE t = s
      BY <1>1, <1>6, <2>1, <2>2, <3>1, CompletedWhole
    <3>2. CASE t # s
      <4>1. t # t1
        <5> SUFFICES ASSUME t = t1 PROVE FALSE
          OBVIOUS
        <5>1. stage[t] \in [state : {"pending", "ready", "active", "waiting",
                                     "completed", "failed"}, by : 0..MaxAttempts]
          BY <1>1 DEF Shapes
        <5>2. stage'[t].state = "ready"
          BY <2>2, <5>1
        <5> QED  BY <5>2
      <4>2. stage'[t] = stage[t]
        BY <2>2, <3>2, <4>1
      <4> QED  BY <1>1, <4>2 DEF StageSound
    <3> QED  BY <3>1, <3>2
  <2> HIDE DEF s, n, t1
  <2> QED  BY <1>1, <1>2, <1>3, <1>4, <2>3, <2>4, <2>5, <2>6 DEF IInv, Shapes
<1> QED  BY <1>5, <1>6 DEF Commit

----------------------------------------------------------------------------
(* The invariant *)

LEMMA InitHolds ==
    ASSUME WorkflowAssumption, Init
    PROVE  IInv
<1>1. /\ MaxAttempts \in Nat \ {0} /\ 1 \in Stages /\ None \notin Workers
      /\ MaxDeliveries \in Nat \ {0}
  BY StagesAre DEF WorkflowAssumption, MaxDeliveriesAssumption
<1>2. NoEffect \in Rows /\ Idle \in Threads
  BY <1>1 DEF NoEffect, Rows, STATES, Idle, Threads
<1>3. /\ NoEffect.st = None /\ NoEffect.owner = None /\ NoEffect.lease = None
      /\ NoEffect.sends = 0 /\ Idle.pc = "idle"
  BY DEF NoEffect, Idle
<1>4. /\ run \in [state : {"running", "paused", "waiting"} \cup Fenced,
                  attempt : 1..MaxAttempts, decided : SUBSET Stages]
      /\ wf \in [state : {"running", "waiting", "completed", "failed"},
                 cur : Stages, rev : Nat]
      /\ wf.cur = 1
  BY <1>1 DEF Init
<1>5. /\ stage \in [Stages -> [state : {"pending", "ready", "active", "waiting",
                                        "completed", "failed"}, by : 0..MaxAttempts]]
      /\ \A s \in Stages : stage[s].state = (IF s = 1 THEN "ready" ELSE "pending")
  BY <1>1 DEF Init
<1>6. Shapes
  BY <1>2, <1>4, <1>5 DEF Init, Shapes
<1>7. RowsFine
  BY <1>1, <1>3 DEF Init, RowsFine, Fine, None
<1>8. ThreadsKnow
  BY <1>3 DEF Init, ThreadsKnow, Knows
<1>9. StagesInOrder
  BY <1>4, <1>5, StagesAre DEF StagesInOrder
<1>10. StageSound
  BY <1>5 DEF StageSound
<1> QED  BY <1>6, <1>7, <1>8, <1>9, <1>10 DEF IInv

LEMMA NextKeeps ==
    ASSUME WorkflowAssumption, IInv, [Next]_vars
    PROVE  IInv'
<1>1. CASE Pause \/ ResumeRun \/ RetryRun \/ Fence
  BY <1>1, RunSteps, CalmKeepsStages
<1>2. CASE Resolve
  BY <1>2, ResolveKept, CalmKeepsStages
<1>3. CASE \E e \in Effects : Expire(e)
  BY <1>3, ExpireKept, CalmKeepsStages
<1>4. CASE \E w \in Workers : Crash(w)
  BY <1>4, CrashKept, CalmKeepsStages
<1>5. ASSUME NEW w \in Workers, Step(w)
      PROVE  IInv'
  <2>1. CASE Begin(w)
    BY <2>1, BeginKept, CalmKeepsStages
  <2>2. CASE Prepare(w)
    BY <2>2, PrepareKept, CalmKeepsStages
  <2>3. CASE CreateDecision(w)
    BY <2>3, CreateDecisionKept, CalmKeepsStages
  <2>4. CASE Plan(w)
    BY <2>4, PlanKept, CalmKeepsStages
  <2>5. CASE Recover(w) \/ Sort(w) \/ ReadRun(w)
    BY <2>5, RecoverKept, SortKept, ReadRunKept, CalmKeepsStages
  <2>6. CASE \E e \in Effects :
               \/ RecoverSupersede(w, e) \/ Dispatch(w, e) \/ Normalise(w, e)
               \/ ClaimReconciliation(w, e) \/ SettleDeferred(w, e)
    BY <2>6, RecoverSupersedeKept, DispatchKept, NormaliseKept, ClaimReconciliationKept,
       SettleDeferredKept, CalmKeepsStages
  <2>7. CASE Call(w)
    BY <2>7, CallKept, CalmKeepsStages
  <2>8. CASE Reply(w)
    BY <2>8, ReplyKept, CalmKeepsStages
  <2>9. CASE Ask(w)
    BY <2>9, AskKept, CalmKeepsStages
  <2>10. CASE Answer(w)
    BY <2>10, AnswerKept, CalmKeepsStages
  <2>11. CASE Finish(w)
    BY <2>11, FinishKept, CalmKeepsStages
  <2>12. CASE Commit(w)
    BY <2>12, CommitKeeps
  <2> QED  BY <1>5, <2>1, <2>2, <2>3, <2>4, <2>5, <2>6, <2>7, <2>8, <2>9, <2>10,
              <2>11, <2>12 DEF Step
<1>6. CASE UNCHANGED vars
  <2>1. Shapes /\ ThreadsKnow /\ RowsFine
    BY DEF IInv
  <2>2. work' \in [Workers -> Threads] /\ ThreadsKnow'
    BY <1>6, <2>1 DEF vars, Shapes, ThreadsKnow
  <2>3. Kept
    BY <1>6, <2>1, <2>2, QuietStep DEF vars
  <2> QED  BY <2>3, CalmKeepsStages
<1> QED  BY <1>1, <1>2, <1>3, <1>4, <1>5, <1>6 DEF Next

LEMMA AlwaysIInv ==
    ASSUME WorkflowAssumption
    PROVE  Spec => []IInv
<1>1. Init => IInv
  BY InitHolds
<1>2. IInv /\ [Next]_vars => IInv'
  BY NextKeeps
<1> QED  BY <1>1, <1>2, PTL DEF Spec

LEMMA IInvIsTyped ==
    ASSUME WorkflowAssumption, IInv
    PROVE  TypeOK
<1>1. /\ run.state \in {"running", "paused", "waiting"} \cup Fenced
      /\ run.attempt \in 1..MaxAttempts /\ run.decided \subseteq Stages
      /\ wf.state \in {"running", "waiting", "completed", "failed"} /\ wf.cur \in Stages
      /\ done \subseteq Effects
  BY DEF IInv, Shapes
<1>2. \A s \in Stages : stage[s].state \in {"pending", "ready", "active", "waiting",
                                           "completed", "failed"}
  BY DEF IInv, Shapes
<1>3. ASSUME NEW e \in Effects
      PROVE  /\ eff[e].st \in STATES
             /\ (eff[e].st \in {"claimed", "reconciling"}) = (eff[e].owner \in Workers)
             /\ (eff[e].owner \in Workers) = (eff[e].lease \in {"live", "expired"})
  <2>1. eff[e] \in Rows /\ Fine(e, eff[e], done)
    BY DEF IInv, Shapes, RowsFine
  <2>2. eff[e].st \in STATES
    BY <2>1 DEF Rows
  <2> QED  BY <2>1, <2>2 DEF Fine
<1>4. \A w \in Workers : work[w].pc \in {"idle", "prepare", "plan", "classify", "sort",
                                        "read", "recover", "call", "reply", "ask", "answer", "commit"}
  <2> SUFFICES ASSUME NEW w \in Workers
               PROVE  work[w].pc \in {"idle", "prepare", "plan", "classify", "sort",
                                      "read", "recover", "call", "reply", "ask", "answer", "commit"}
    OBVIOUS
  <2>1. work[w] \in Threads
    BY DEF IInv, Shapes
  <2> QED  BY <2>1 DEF Threads
<1> QED  BY <1>1, <1>2, <1>3, <1>4 DEF TypeOK, STATES

\* Rows, leases, stages and threads of a workflow are always well formed,
\* whatever is claimed, lost and claimed again (control/store.py, the workflow
\* effect operations).
THEOREM WorkflowTypes ==
    ASSUME WorkflowAssumption
    PROVE  Spec => []TypeOK
<1>1. IInv => TypeOK
  BY IInvIsTyped
<1> QED  BY <1>1, AlwaysIInv, PTL

\* However often a mutation is lost, reconciled and claimed again, by any
\* number of coordinators, it is sent at most MaxDeliveries times
\* (claim_workflow_effect, complete_workflow_effect_reconciliation).
THEOREM DeliveriesAreBounded ==
    ASSUME WorkflowAssumption
    PROVE  Spec => []DeliveriesBounded
<1>1. IInv => DeliveriesBounded
  BY DEF IInv, RowsFine, Fine, DeliveriesBounded
<1> QED  BY <1>1, AlwaysIInv, PTL

\* A stage is completed only on effects that the completing attempt carried
\* out, all of them, and nothing of an older attempt is still open then or
\* later (complete_workflow_stage).
THEOREM StagesAreSound ==
    ASSUME WorkflowAssumption
    PROVE  Spec => []StageSound
<1>1. IInv => StageSound
  BY DEF IInv
<1> QED  BY <1>1, AlwaysIInv, PTL

\* While its run is paused a workflow's rejected effect does not fail it; the
\* failure waits for the run to be resumed (reject_workflow_effect,
\* settle_workflow_effect_failure).
THEOREM PausesDefer ==
    ASSUME WorkflowAssumption
    PROVE  Spec => [][PauseDefers]_vars
<1>1. ASSUME IInv, Next, run.state = "paused", run'.state = "failed"
      PROVE  UNCHANGED eff
  <2>1. run' # run
    BY <1>1
  <2>2. CASE Pause \/ ResumeRun \/ RetryRun \/ Fence \/ Resolve
    BY <1>1, <2>2 DEF Pause, ResumeRun, RetryRun, Fence, Resolve, Restart, Rest
  <2>3. CASE \E e \in Effects : Expire(e)
    BY <2>1, <2>3 DEF Expire
  <2>4. CASE \E w \in Workers : Crash(w)
    BY <2>1, <2>4 DEF Crash
  <2>5. ASSUME NEW w \in Workers, Step(w)
        PROVE  UNCHANGED eff
    <3>1. CASE Begin(w) \/ Prepare(w) \/ Plan(w) \/ Recover(w) \/ Sort(w)
               \/ ReadRun(w) \/ Call(w) \/ Ask(w) \/ Finish(w) \/ Commit(w)
      BY <2>1, <3>1 DEF Begin, Prepare, Plan, Recover, Sort, ReadRun, Call,
         Ask, Finish, Commit
    <3>2. CASE CreateDecision(w)
      BY <3>2 DEF CreateDecision
    <3>3. CASE \E e \in Effects :
                 RecoverSupersede(w, e) \/ Dispatch(w, e) \/ Normalise(w, e) \/ ClaimReconciliation(w, e)
      BY <2>1, <3>3 DEF RecoverSupersede, Dispatch, Normalise, ClaimReconciliation
    <3>4. CASE \E e \in Effects : SettleDeferred(w, e)
      BY <3>4 DEF SettleDeferred
    <3>5. CASE Reply(w) \/ Answer(w)
      <4>1. \/ UNCHANGED run
            \/ \E st \in {"claimed", "reconciling"} : Reject(w, work[w].on, st)
        BY <3>5 DEF Reply, Answer
      <4> QED  BY <1>1, <2>1, <4>1 DEF Reject
    <3> QED  BY <2>5, <3>1, <3>2, <3>3, <3>4, <3>5 DEF Step
  <2> QED  BY <1>1, <2>2, <2>3, <2>4, <2>5 DEF Next
<1>2. IInv /\ [Next]_vars => [PauseDefers]_vars
  BY <1>1 DEF PauseDefers
<1> QED  BY <1>2, AlwaysIInv, PTL DEF Spec

----------------------------------------------------------------------------
(* Deliveries, and what the adapter was asked of them *)

\* A thread moves, and the rows that others hold stay as they are.
LEMMA AskedStep ==
    ASSUME Shapes, AskedInv, NEW w \in Workers, NEW th,
           work' = [work EXCEPT ![w] = th],
           \A e \in Effects : Mutation(e) => Asked(eff'[e], calls'[e], raced'[e], absent'[e]),
           \A e \in Effects : absent[e] <= absent'[e] /\ absent'[e] \in Nat,
           \A e \in Effects : eff[e].sends \in Nat,
           \A e \in Effects :
              \/ eff'[e].st = eff[e].st /\ eff'[e].owner = eff[e].owner /\ eff'[e].sends = eff[e].sends
              \/ eff'[e].st \notin {"claimed", "reconciling"}
              \/ eff'[e].owner = w,
           TasksFit(w, th, eff'), AnswerFits(w, th, eff', absent')
    PROVE  AskedInv'
<1>1. \A v \in Workers : work'[v] = IF v = w THEN th ELSE work[v]
  BY DEF Shapes
<1>2. ASSUME NEW v \in Workers, v # w
      PROVE  TasksFit(v, work[v], eff') /\ AnswerFits(v, work[v], eff', absent')
  <2>1. TasksFit(v, work[v], eff) /\ AnswerFits(v, work[v], eff, absent)
    BY DEF AskedInv
  <2>2. TasksFit(v, work[v], eff')
    BY <1>2, <2>1 DEF TasksFit
  <2>3. AnswerFits(v, work[v], eff', absent')
    <3> SUFFICES ASSUME NEW e \in Effects, Mutation(e), work[v].on = e, work[v].pc = "answer",
                        work[v].said = "not_found", eff'[e].st = "reconciling", eff'[e].owner = v
                 PROVE  eff'[e].sends <= absent'[e]
      BY DEF AnswerFits
    <3>1. eff'[e].st = eff[e].st /\ eff'[e].owner = eff[e].owner /\ eff'[e].sends = eff[e].sends
      BY <1>2
    <3>2. eff[e].sends <= absent[e]
      BY <2>1, <3>1 DEF AnswerFits
    <3>3. absent[e] \in Nat
      BY DEF Shapes
    <3> QED  BY <3>1, <3>2, <3>3
  <2> QED  BY <2>2, <2>3
<1>3. \A v \in Workers : TasksFit(v, work'[v], eff') /\ AnswerFits(v, work'[v], eff', absent')
  BY <1>1, <1>2
<1>4. \A v \in Workers : TasksFit(v, work[v], eff)' /\ AnswerFits(v, work[v], eff, absent)'
  BY <1>3 DEF TasksFit, AnswerFits, Mutation
<1>5. \A e \in Effects : Mutation(e) => Asked(eff[e], calls[e], raced[e], absent[e])'
  BY DEF Asked
<1> QED  BY <1>4, <1>5 DEF AskedInv, Mutation

LEMMA AskedTypes ==
    ASSUME IInv, NEW e \in Effects
    PROVE  /\ eff[e].sends \in Nat /\ calls[e] \in Nat /\ raced[e] \in Nat /\ absent[e] \in Nat
           /\ eff[e] \in Rows
BY DEF IInv, Shapes, Rows

\* A thread moves over rows that stay.
LEMMA AskedMove ==
    ASSUME IInv, AskedInv, NEW w \in Workers, NEW th,
           work' = [work EXCEPT ![w] = th], UNCHANGED <<eff, calls, raced, absent>>,
           TasksFit(w, th, eff), AnswerFits(w, th, eff, absent)
    PROVE  AskedInv'
<1>1. \A e \in Effects : eff[e].sends \in Nat /\ absent[e] \in Nat
  BY AskedTypes
<1>2. TasksFit(w, th, eff') /\ AnswerFits(w, th, eff', absent')
  OBVIOUS
<1>3. \A e \in Effects : Mutation(e) => Asked(eff'[e], calls'[e], raced'[e], absent'[e])
  BY DEF AskedInv
<1>4. Shapes
  BY DEF IInv
<1>5. \A e \in Effects : absent[e] <= absent'[e] /\ absent'[e] \in Nat
  BY <1>1
<1>6. \A e \in Effects :
         eff'[e].st = eff[e].st /\ eff'[e].owner = eff[e].owner /\ eff'[e].sends = eff[e].sends
  OBVIOUS
<1> QED  BY <1>1, <1>2, <1>3, <1>4, <1>5, <1>6, AskedStep

\* A thread that has no task is at no answer.
LEMMA AskedEnd ==
    ASSUME IInv, AskedInv, NEW w \in Workers, End(w), UNCHANGED <<eff, calls, raced, absent>>
    PROVE  AskedInv'
<1>1. Idle.pc = "idle" /\ Idle.todo = {}
  BY DEF Idle
<1>2. TasksFit(w, Idle, eff) /\ AnswerFits(w, Idle, eff, absent)
  BY <1>1 DEF TasksFit, AnswerFits
<1> QED  BY <1>2, AskedMove DEF End

\* Fewer tasks still fit, where the list is being worked on.
LEMMA FewerFit ==
    ASSUME AskedInv, NEW w \in Workers, NEW th, th.todo \subseteq work[w].todo,
           \/ th.todo = {}
           \/ th.pc \notin {"idle", "prepare", "plan", "classify", "sort"}
    PROVE  TasksFit(w, th, eff)
BY DEF AskedInv, TasksFit

\* The steps of a thread before it reads its effects, and after it dealt with
\* them.
LEMMA AskedMoves ==
    ASSUME WorkflowAssumption, IInv, AskedInv, NEW w \in Workers,
           Begin(w) \/ Prepare(w) \/ CreateDecision(w) \/ Finish(w) \/ Commit(w)
    PROVE  AskedInv'
<1>1. UNCHANGED <<eff, calls, raced, absent>>
  BY DEF Begin, Prepare, CreateDecision, Finish, Commit
<1>2. CASE End(w)
  BY <1>1, <1>2, AskedEnd
<1>3. work[w] \in Threads /\ work \in [Workers -> Threads]
  BY DEF IInv, Shapes
<1>4. \/ work[w].pc \in {"prepare", "plan"}
      \/ work[w].pc = "recover" /\ work[w].todo = {}
      => work[w].todo = {}
  BY DEF AskedInv, TasksFit
<1>5. ASSUME ~End(w)
      PROVE  \E th : /\ work' = [work EXCEPT ![w] = th]
                     /\ th.todo = {} /\ th.pc \in {"prepare", "classify", "plan", "commit"}
  <2>1. CASE Begin(w)
    <3>1. PICK pc \in {"prepare", "classify"} :
            work' = [work EXCEPT ![w] = [Idle EXCEPT !.pc = pc, !.att = run.attempt, !.rev = wf.rev]]
      BY <2>1 DEF Begin
    <3>2. /\ [Idle EXCEPT !.pc = pc, !.att = run.attempt, !.rev = wf.rev].todo = {}
          /\ [Idle EXCEPT !.pc = pc, !.att = run.attempt, !.rev = wf.rev].pc = pc
      BY DEF Idle
    <3> QED  BY <3>1, <3>2
  <2>2. CASE Prepare(w) \/ CreateDecision(w)
    <3>1. PICK pc \in {"plan", "classify"}, r \in {work[w].rev, wf.rev + 1} :
            work' = [work EXCEPT ![w] = [work[w] EXCEPT !.pc = pc, !.rev = r]]
      <4>1. \/ Goto(w, "plan") \/ Goto(w, "classify")
            \/ work' = [work EXCEPT ![w].pc = "plan", ![w].rev = wf.rev + 1]
        BY <1>5, <2>2 DEF Prepare, CreateDecision
      <4>2. \A pc \in {"plan", "classify"} :
              [work[w] EXCEPT !.pc = pc] = [work[w] EXCEPT !.pc = pc, !.rev = work[w].rev]
        BY <1>3 DEF Threads
      <4>3. \A pc \in {"plan", "classify"} :
              Goto(w, pc) => work' = [work EXCEPT ![w] = [work[w] EXCEPT !.pc = pc, !.rev = work[w].rev]]
        BY <1>3, <4>2 DEF Goto
      <4>4. CASE work' = [work EXCEPT ![w].pc = "plan", ![w].rev = wf.rev + 1]
        <5>1. work' = [work EXCEPT ![w] = [work[w] EXCEPT !.pc = "plan", !.rev = wf.rev + 1]]
          BY <1>3, <4>4
        <5> QED  BY <5>1
      <4> QED  BY <4>1, <4>3, <4>4
    <3>2. work[w].todo = {}
      BY <1>4, <2>2 DEF Prepare, CreateDecision
    <3>3. /\ [work[w] EXCEPT !.pc = pc, !.rev = r].todo = {}
          /\ [work[w] EXCEPT !.pc = pc, !.rev = r].pc = pc
      BY <1>3, <3>2 DEF Threads
    <3> QED  BY <3>1, <3>3
  <2>3. CASE Finish(w)
    <3>1. work' = [work EXCEPT ![w].pc = "commit", ![w].rev = wf.rev] /\ work[w].todo = {}
      BY <1>5, <2>3 DEF Finish
    <3>2. work' = [work EXCEPT ![w] = [work[w] EXCEPT !.pc = "commit", !.rev = wf.rev]]
      BY <1>3, <3>1
    <3>3. /\ [work[w] EXCEPT !.pc = "commit", !.rev = wf.rev].todo = {}
          /\ [work[w] EXCEPT !.pc = "commit", !.rev = wf.rev].pc = "commit"
      BY <1>3, <3>1 DEF Threads
    <3> QED  BY <3>2, <3>3
  <2>4. CASE Commit(w)
    BY <1>5, <2>4 DEF Commit
  <2> QED  BY <2>1, <2>2, <2>3, <2>4
<1>6. CASE ~End(w)
  <2>1. PICK th : /\ work' = [work EXCEPT ![w] = th]
                  /\ th.todo = {} /\ th.pc \in {"prepare", "classify", "plan", "commit"}
    BY <1>5, <1>6
  <2>2. TasksFit(w, th, eff) /\ AnswerFits(w, th, eff, absent)
    BY <2>1 DEF TasksFit, AnswerFits
  <2> QED  BY <1>1, <2>1, <2>2, AskedMove
<1> QED  BY <1>2, <1>6

\* A row is replaced that keeps its sends, and the counts stay.
LEMMA AskedRow ==
    ASSUME IInv, AskedInv, NEW w \in Workers, NEW th,
           work' = [work EXCEPT ![w] = th] \/ (th = work[w] /\ work' = work),
           UNCHANGED <<calls, raced, absent>>, NEW e \in Effects, NEW row,
           eff' = [eff EXCEPT ![e] = row],
           row.sends = eff[e].sends,
           row.st = None => eff[e].st = None,
           Mutation(e) /\ row.st = "pending" => eff[e].sends <= absent[e],
           row.st \notin {"claimed", "reconciling"} \/ row.owner = w,
           TasksFit(w, th, eff'), AnswerFits(w, th, eff', absent)
    PROVE  AskedInv'
<1>1. \A x \in Effects : eff'[x] = IF x = e THEN row ELSE eff[x]
  BY DEF IInv, Shapes
<1>2. \A x \in Effects : eff[x].sends \in Nat /\ absent[x] \in Nat
  BY AskedTypes
<1>3. ASSUME NEW x \in Effects, Mutation(x)
      PROVE  Asked(eff'[x], calls'[x], raced'[x], absent'[x])
  <2>1. Asked(eff[x], calls[x], raced[x], absent[x])
    BY <1>3 DEF AskedInv
  <2> QED  BY <1>1, <1>2, <1>3, <2>1 DEF Asked
<1>4. work' = [work EXCEPT ![w] = th]
  BY DEF IInv, Shapes
<1>5. \A x \in Effects :
         \/ eff'[x].st = eff[x].st /\ eff'[x].owner = eff[x].owner /\ eff'[x].sends = eff[x].sends
         \/ eff'[x].st \notin {"claimed", "reconciling"}
         \/ eff'[x].owner = w
  BY <1>1
<1>6. Shapes /\ \A x \in Effects : absent[x] <= absent'[x] /\ absent'[x] \in Nat
  BY <1>2 DEF IInv
<1>7. AnswerFits(w, th, eff', absent')
  OBVIOUS
<1> QED  BY <1>2, <1>3, <1>4, <1>5, <1>6, <1>7, AskedStep

\* The tasks of a thread over a row that is replaced by one that it does not
\* hold as a claim.
LEMMA LooseFits ==
    ASSUME IInv, AskedInv, NEW w \in Workers, NEW th, th.todo \subseteq work[w].todo,
           \/ th.todo = {}
           \/ th.pc \notin {"idle", "prepare", "plan", "classify", "sort"}
           \/ th = work[w],
           NEW e \in Effects, NEW row, eff' = [eff EXCEPT ![e] = row],
           row.st # "claimed" \/ \A t \in th.todo : t # <<e, "pending">>
    PROVE  TasksFit(w, th, eff')
<1>1. \A x \in Effects : eff'[x] = IF x = e THEN row ELSE eff[x]
  BY DEF IInv, Shapes
<1>2. TasksFit(w, th, eff)
  BY FewerFit DEF AskedInv
<1> QED  BY <1>1, <1>2 DEF TasksFit

LEMMA AskedPlan ==
    ASSUME WorkflowAssumption, IInv, AskedInv, NEW w \in Workers, Plan(w)
    PROVE  AskedInv'
<1>1. UNCHANGED <<calls, raced, absent>>
  BY DEF Plan
<1>2. work[w] \in Threads /\ work \in [Workers -> Threads] /\ work[w].todo = {} /\ work[w].pc = "plan"
  BY DEF IInv, Shapes, Plan, AskedInv, TasksFit
<1>3. CASE End(w) /\ UNCHANGED eff
  BY <1>1, <1>3, AskedEnd
<1>4. CASE Goto(w, "classify") /\ UNCHANGED eff
  <2> DEFINE th == [work[w] EXCEPT !.pc = "classify"]
  <2>1. th.todo = {} /\ th.pc = "classify" /\ work' = [work EXCEPT ![w] = th]
    BY <1>2, <1>4 DEF Goto, Threads
  <2> HIDE DEF th
  <2>2. TasksFit(w, th, eff) /\ AnswerFits(w, th, eff, absent)
    BY <2>1 DEF TasksFit, AnswerFits
  <2> QED  BY <1>1, <1>4, <2>1, <2>2, AskedMove
<1>5. ASSUME UNCHANGED work, NEW e \in Effects, NEW row, eff' = [eff EXCEPT ![e] = row],
             row.sends = eff[e].sends, row.st \in {"pending", "failed", eff[e].st},
             Mutation(e) /\ row.st = "pending" => eff[e].sends <= absent[e],
             row.st \notin {"claimed", "reconciling"}
      PROVE  AskedInv'
  <2>1. TasksFit(w, work[w], eff')
    BY <1>2, <1>5, LooseFits
  <2>2. AnswerFits(w, work[w], eff', absent)
    BY <1>2 DEF AnswerFits
  <2>3. row.st = None => eff[e].st = None
    BY <1>5 DEF None
  <2> QED  BY <1>1, <1>5, <2>1, <2>2, <2>3, AskedRow
<1>6. CASE /\ UNCHANGED work
           /\ \E e \in Effects : /\ Supersede(e, work[w].att) # Raised
                                 /\ eff' = [eff EXCEPT ![e] = Supersede(e, work[w].att)]
  <2>1. PICK e \in Effects : /\ Supersede(e, work[w].att) # Raised
                             /\ eff' = [eff EXCEPT ![e] = Supersede(e, work[w].att)]
    BY <1>6
  <2>2. /\ Supersede(e, work[w].att).sends = eff[e].sends
        /\ Supersede(e, work[w].att).st \in {"failed", "completed"}
        /\ Supersede(e, work[w].att).st \in {"failed", eff[e].st}
    BY <2>1, SupersedeCounts
  <2> QED  BY <1>5, <1>6, <2>1, <2>2
<1>7. CASE /\ UNCHANGED work
           /\ \E e \in OfAttempt(wf.cur, work[w].att) :
                 /\ eff[e].st = None /\ Creatable(w, wf.cur)
                 /\ eff' = [eff EXCEPT ![e] = [NoEffect EXCEPT !.st = "pending"]]
  <2>1. PICK e \in OfAttempt(wf.cur, work[w].att) :
                 /\ eff[e].st = None
                 /\ eff' = [eff EXCEPT ![e] = [NoEffect EXCEPT !.st = "pending"]]
    BY <1>7
  <2> DEFINE row == [NoEffect EXCEPT !.st = "pending"]
  <2>2. row.sends = 0 /\ row.st = "pending" /\ e \in Effects
    BY <2>1 DEF NoEffect, OfAttempt
  <2>3. eff' = [eff EXCEPT ![e] = row]
    BY <2>1
  <2> HIDE DEF row
  <2>4. eff[e].sends \in Nat /\ absent[e] \in Nat
    BY <2>2, AskedTypes
  <2>5. CASE Mutation(e)
    <3>1. eff[e].sends = 0
      BY <2>1, <2>2, <2>5 DEF AskedInv, Asked
    <3>2. /\ UNCHANGED work /\ row.sends = eff[e].sends /\ row.st \in {"pending", "failed", eff[e].st}
          /\ Mutation(e) /\ row.st = "pending" => eff[e].sends <= absent[e]
          /\ row.st \notin {"claimed", "reconciling"}
      BY <1>7, <2>2, <2>4, <3>1
    <3> QED  BY <1>5, <2>2, <2>3, <3>2
  <2>6. CASE ~Mutation(e)
    <3>1. TasksFit(w, work[w], eff') /\ AnswerFits(w, work[w], eff', absent)
      BY <1>2 DEF TasksFit, AnswerFits
    <3>2. \A x \in Effects : eff'[x] = IF x = e THEN row ELSE eff[x]
      BY <2>3 DEF IInv, Shapes
    <3>3. \A x \in Effects : Mutation(x) => Asked(eff'[x], calls'[x], raced'[x], absent'[x])
      BY <1>1, <2>6, <3>2 DEF AskedInv
    <3>4. work' = [work EXCEPT ![w] = work[w]]
      BY <1>2, <1>7
    <3>5. \A x \in Effects : eff[x].sends \in Nat /\ absent[x] <= absent'[x] /\ absent'[x] \in Nat
      BY <1>1, AskedTypes
    <3>6. \A x \in Effects :
             \/ eff'[x].st = eff[x].st /\ eff'[x].owner = eff[x].owner /\ eff'[x].sends = eff[x].sends
             \/ eff'[x].st \notin {"claimed", "reconciling"}
             \/ eff'[x].owner = w
      BY <2>2, <3>2
    <3>7. Shapes /\ AnswerFits(w, work[w], eff', absent')
      BY <1>1, <3>1 DEF IInv
    <3> QED  BY <3>1, <3>3, <3>4, <3>5, <3>6, <3>7, AskedStep
  <2> QED  BY <2>5, <2>6
<1> QED  BY <1>3, <1>4, <1>6, <1>7, PlanIs

\* The three readings.
LEMMA AskedReads ==
    ASSUME WorkflowAssumption, IInv, AskedInv, NEW w \in Workers,
           Recover(w) \/ Sort(w) \/ ReadRun(w)
    PROVE  AskedInv'
<1>1. UNCHANGED <<eff, calls, raced, absent>> /\ Shapes
  BY DEF Recover, Sort, ReadRun, IInv
<1>2. work[w] \in Threads /\ TasksFit(w, work[w], eff)
  BY <1>1 DEF Shapes, AskedInv
<1>3. ASSUME NEW pc \in {"sort", "read", "recover"}, NEW a, NEW tasks,
             work' = [work EXCEPT ![w] = [work[w] EXCEPT !.pc = pc, !.att = a, !.todo = tasks]],
             pc = "sort" => \A t \in tasks : t[2] \in {"failed", "listed"},
             \A t, u \in tasks : t[1] = u[1] => t = u,
             \A e \in Effects :
                <<e, "pending">> \in tasks /\ Mutation(e) =>
                   ~(eff[e].st = "claimed" /\ eff[e].owner = w)
      PROVE  AskedInv'
  <2> DEFINE th == [work[w] EXCEPT !.pc = pc, !.att = a, !.todo = tasks]
  <2>1. th.pc = pc /\ th.todo = tasks
    BY <1>2 DEF Threads
  <2>2. work' = [work EXCEPT ![w] = th]
    BY <1>3
  <2> HIDE DEF th
  <2>3. TasksFit(w, th, eff) /\ AnswerFits(w, th, eff, absent)
    BY <1>3, <2>1 DEF TasksFit, AnswerFits
  <2> QED  BY <1>1, <2>2, <2>3, AskedMove
<1>4. /\ work[w].todo \in SUBSET (Effects \X TASKS)
      /\ \A t, u \in work[w].todo : t[1] = u[1] => t = u
  BY <1>1, <1>2, RecoverIs DEF TasksFit
<1>5. CASE Recover(w)
  <2> DEFINE tasks == ListedTasks
  <2>1. /\ work' = [work EXCEPT ![w] = [work[w] EXCEPT !.pc = "sort", !.att = work[w].att, !.todo = tasks]]
        /\ \A t \in tasks : t[2] \in {"failed", "listed"}
        /\ \A t, u \in tasks : t[1] = u[1] => t = u
    BY <1>1, <1>5, RecoverIs, ListedIs
  <2> HIDE DEF tasks
  <2>2. \A e \in Effects : <<e, "pending">> \notin tasks
    <3> SUFFICES ASSUME NEW e \in Effects, <<e, "pending">> \in tasks PROVE FALSE
      OBVIOUS
    <3>1. <<e, "pending">>[2] \in {"failed", "listed"}
      BY <2>1
    <3> QED  BY <3>1
  <2> QED  BY <1>3, <2>1, <2>2
<1>6. CASE Sort(w)
  <2> DEFINE tasks == SortedTasks(work[w].todo)
  <2>1. /\ work' = [work EXCEPT ![w] = [work[w] EXCEPT !.pc = "read", !.att = work[w].att, !.todo = tasks]]
        /\ \A t, u \in tasks : t[1] = u[1] => t = u
        /\ \A e \in Effects : <<e, "pending">> \in tasks => Class(e) = "pending"
    BY <1>1, <1>4, <1>6, RecoverIs, SortedIs
  <2> HIDE DEF tasks
  <2>2. \A e \in Effects : <<e, "pending">> \in tasks /\ Mutation(e) => eff[e].st # "claimed"
    BY <2>1 DEF Class, Classify
  <2> QED  BY <1>3, <2>1, <2>2
<1>7. CASE ReadRun(w)
  <2> DEFINE tasks == ReadTasks(work[w].todo)
  <2>1. /\ work' = [work EXCEPT ![w] = [work[w] EXCEPT !.pc = "recover", !.att = run.attempt, !.todo = tasks]]
        /\ \A t, u \in tasks : t[1] = u[1] => t = u
        /\ \A e \in Effects : <<e, "pending">> \in tasks => <<e, "pending">> \in work[w].todo
    BY <1>1, <1>4, <1>7, RecoverIs, ReadIs
  <2> HIDE DEF tasks
  <2>2. \A e \in Effects : <<e, "pending">> \in tasks /\ Mutation(e) =>
                              ~(eff[e].st = "claimed" /\ eff[e].owner = w)
    BY <1>2, <2>1 DEF TasksFit
  <2> QED  BY <1>3, <2>1, <2>2
<1> QED  BY <1>5, <1>6, <1>7

\* A task that a thread at recover takes off its list.
LEMMA TakenFits ==
    ASSUME IInv, AskedInv, NEW w \in Workers, NEW t, work[w].pc = "recover"
    PROVE  /\ Took(w, t).todo = work[w].todo \ {t} /\ Took(w, t).pc = "recover"
           /\ Took(w, t) \in Threads
           /\ TasksFit(w, Took(w, t), eff)
           /\ \A rows : AnswerFits(w, Took(w, t), rows, absent)
<1>1. /\ Took(w, t).todo = work[w].todo \ {t} /\ Took(w, t).pc = "recover"
      /\ Took(w, t) \in Threads
  BY TookIs DEF IInv
<1>2. TasksFit(w, Took(w, t), eff)
  BY <1>1, FewerFit
<1>3. \A rows : AnswerFits(w, Took(w, t), rows, absent)
  BY <1>1 DEF AnswerFits
<1> QED  BY <1>1, <1>2, <1>3

LEMMA AskedSupersede ==
    ASSUME WorkflowAssumption, IInv, AskedInv, NEW w \in Workers, NEW e \in Effects,
           RecoverSupersede(w, e)
    PROVE  AskedInv'
<1> DEFINE row == Supersede(e, work[w].att)
           th == Took(w, <<e, "supersede">>)
<1>1. UNCHANGED <<calls, raced, absent>> /\ work[w].pc = "recover"
  BY DEF RecoverSupersede
<1>2. CASE row = Raised
  BY <1>1, <1>2, AskedEnd DEF RecoverSupersede
<1>3. CASE row # Raised
  <2>1. eff' = [eff EXCEPT ![e] = row] /\ work' = [work EXCEPT ![w] = th]
    BY <1>3 DEF RecoverSupersede
  <2>2. /\ row.sends = eff[e].sends /\ row.st \in {"failed", "completed"}
    BY <1>3, SupersedeCounts
  <2>3. /\ th.todo \subseteq work[w].todo /\ th.pc = "recover"
        /\ AnswerFits(w, th, eff', absent)
    BY <1>1, TakenFits
  <2> HIDE DEF row, th
  <2>4. TasksFit(w, th, eff')
    BY <2>1, <2>2, <2>3, LooseFits
  <2>5. row.st # None
    BY <2>2 DEF None
  <2> QED  BY <1>1, <2>1, <2>2, <2>3, <2>4, <2>5, AskedRow
<1> QED  BY <1>2, <1>3

LEMMA AskedDispatch ==
    ASSUME WorkflowAssumption, IInv, AskedInv, NEW w \in Workers, NEW e \in Effects,
           Dispatch(w, e)
    PROVE  AskedInv'
<1> DEFINE row == ClaimEffect(w, e)
           mine == Took(w, <<e, "pending">>)
           th == [mine EXCEPT !.pc = "call", !.on = e, !.epoch = row.epoch]
<1>1. /\ UNCHANGED absent /\ work[w].pc = "recover" /\ Shapes
      /\ <<e, "pending">> \in work[w].todo
  BY DEF Dispatch, Turn, IInv
<1>2. /\ mine \in Threads /\ TasksFit(w, mine, eff) /\ AnswerFits(w, mine, eff, absent)
      /\ mine.todo = work[w].todo \ {<<e, "pending">>}
  BY <1>1, TakenFits
<1>3. CASE row = Raised
  <2>1. work' = [work EXCEPT ![w] = mine] /\ UNCHANGED <<eff, calls, raced>>
    BY <1>3 DEF Dispatch
  <2> HIDE DEF mine
  <2> QED  BY <1>1, <1>2, <2>1, AskedMove
<1>4. CASE row # Raised
  <2>1. eff' = [eff EXCEPT ![e] = row] /\ work' = [work EXCEPT ![w] = th]
    BY <1>4 DEF Dispatch
  <2>2. /\ \A x \in Effects : x # e => calls'[x] = calls[x] /\ raced'[x] = raced[x]
        /\ calls'[e] = calls[e] + 1
        /\ raced'[e] = IF row.st = "outcome_unknown" /\ eff[e].owner # w
                       THEN raced[e] + 1 ELSE raced[e]
    BY <1>1, <1>4, CallsCount
  <2>3. \/ /\ row.st = "outcome_unknown" /\ row.sends = eff[e].sends
           /\ eff[e].st = "claimed"
        \/ /\ row.st = "claimed" /\ row.owner = w
           /\ Mutation(e) => eff[e].st = "pending" /\ row.sends = eff[e].sends + 1
    BY <1>4, ClaimCounts
  <2>4. th.pc = "call" /\ th.todo = mine.todo
    <3> HIDE DEF mine, row
    <3> QED  BY <1>2 DEF Threads
  <2> HIDE DEF row, mine, th
  <2>5. \A x \in Effects : eff'[x] = IF x = e THEN row ELSE eff[x]
    BY <1>1, <2>1 DEF Shapes
  <2>6. TasksFit(w, th, eff') /\ AnswerFits(w, th, eff', absent')
    BY <1>2, <2>4, <2>5 DEF TasksFit, AnswerFits
  <2>7. \A x \in Effects : /\ eff[x].sends \in Nat /\ calls[x] \in Nat /\ raced[x] \in Nat
                           /\ absent[x] \in Nat
    BY AskedTypes
  <2>8. Mutation(e) => ~(eff[e].st = "claimed" /\ eff[e].owner = w)
    BY <1>1 DEF AskedInv, TasksFit
  <2>9. ASSUME NEW x \in Effects, Mutation(x)
        PROVE  Asked(eff'[x], calls'[x], raced'[x], absent'[x])
    <3>1. Asked(eff[x], calls[x], raced[x], absent[x])
      BY <2>9 DEF AskedInv
    <3>2. CASE x # e
      BY <1>1, <2>2, <2>5, <3>1, <3>2
    <3>3. CASE x = e /\ row.st = "outcome_unknown"
      <4>1. /\ row.sends = eff[e].sends /\ calls'[e] = calls[e] + 1 /\ raced'[e] = raced[e] + 1
        BY <2>2, <2>3, <2>8, <2>9, <3>3
      <4> QED  BY <1>1, <2>5, <2>7, <3>1, <3>3, <4>1 DEF Asked, None
    <3>4. CASE x = e /\ row.st = "claimed"
      <4>1. /\ eff[e].st = "pending" /\ row.sends = eff[e].sends + 1
            /\ calls'[e] = calls[e] + 1 /\ raced'[e] = raced[e]
        BY <2>2, <2>3, <2>9, <3>4
      <4> QED  BY <1>1, <2>5, <2>7, <3>1, <3>4, <4>1 DEF Asked, None
    <3> QED  BY <2>3, <3>2, <3>3, <3>4
  <2>10. \A x \in Effects :
           \/ eff'[x].st = eff[x].st /\ eff'[x].owner = eff[x].owner /\ eff'[x].sends = eff[x].sends
           \/ eff'[x].st \notin {"claimed", "reconciling"}
           \/ eff'[x].owner = w
    BY <2>3, <2>5
  <2>11. \A x \in Effects : absent[x] <= absent'[x] /\ absent'[x] \in Nat
    BY <1>1, <2>7
  <2> QED  BY <1>1, <2>1, <2>6, <2>7, <2>9, <2>10, <2>11, AskedStep
<1> QED  BY <1>3, <1>4

LEMMA AskedNormalise ==
    ASSUME WorkflowAssumption, IInv, AskedInv, NEW w \in Workers, NEW e \in Effects,
           Normalise(w, e)
    PROVE  AskedInv'
<1> DEFINE row == ClaimEffect(w, e)
           mine == Took(w, <<e, "normalise">>)
           more == [mine EXCEPT !.todo = @ \cup {<<e, "reconcile">>}]
<1>1. /\ UNCHANGED <<calls, raced, absent>> /\ work[w].pc = "recover" /\ Shapes
      /\ <<e, "normalise">> \in work[w].todo
  BY DEF Normalise, Turn, IInv
<1>2. /\ mine \in Threads /\ TasksFit(w, mine, eff) /\ mine.pc = "recover"
      /\ mine.todo = work[w].todo \ {<<e, "normalise">>}
      /\ AnswerFits(w, mine, eff, absent)
  BY <1>1, TakenFits
<1>3. \A t \in mine.todo : t[1] # e
  <2>1. \A t, u \in work[w].todo : t[1] = u[1] => t = u
    BY DEF AskedInv, TasksFit
  <2>2. <<e, "normalise">>[1] = e
    OBVIOUS
  <2> HIDE DEF mine
  <2> QED  BY <1>1, <1>2, <2>1, <2>2
<1>4. more.pc = "recover" /\ more.todo = mine.todo \cup {<<e, "reconcile">>}
  <2> HIDE DEF mine
  <2> QED  BY <1>2 DEF Threads
<1>5. CASE row = Raised
  <2>1. work' = [work EXCEPT ![w] = mine] /\ UNCHANGED eff
    BY <1>5 DEF Normalise
  <2> HIDE DEF mine
  <2> QED  BY <1>1, <1>2, <2>1, AskedMove
<1>6. CASE row # Raised
  <2>1. /\ eff' = [eff EXCEPT ![e] = row]
        /\ work' = [work EXCEPT ![w] = IF row.st = "outcome_unknown" THEN more ELSE mine]
    BY <1>6 DEF Normalise
  <2>2. \/ /\ row.st = "outcome_unknown" /\ row.sends = eff[e].sends
           /\ eff[e].st = "claimed"
        \/ /\ row.st = "claimed" /\ row.owner = w
           /\ Mutation(e) => eff[e].st = "pending" /\ row.sends = eff[e].sends + 1
    BY <1>6, ClaimCounts
  <2> DEFINE th == IF row.st = "outcome_unknown" THEN more ELSE mine
  <2>3. work' = [work EXCEPT ![w] = th]
    BY <2>1
  <2>4. /\ th.pc = "recover"
        /\ th.todo = mine.todo \/ th.todo = mine.todo \cup {<<e, "reconcile">>}
    <3> HIDE DEF mine, more, row
    <3> QED  BY <1>2, <1>4
  <2> HIDE DEF row, mine, more, th
  <2>5. \A x \in Effects : eff'[x] = IF x = e THEN row ELSE eff[x]
    BY <1>1, <2>1 DEF Shapes
  <2>6. TasksFit(w, th, eff')
    <3>1. /\ \A t, u \in mine.todo : t[1] = u[1] => t = u
          /\ \A x \in Effects : <<x, "pending">> \in mine.todo /\ Mutation(x) =>
                                   ~(eff[x].st = "claimed" /\ eff[x].owner = w)
      BY <1>2 DEF TasksFit
    <3>2. <<e, "reconcile">>[1] = e /\ <<e, "reconcile">>[2] = "reconcile"
      OBVIOUS
    <3>3. \A t, u \in th.todo : t[1] = u[1] => t = u
      BY <1>3, <2>4, <3>1, <3>2
    <3>4. ASSUME NEW x \in Effects, <<x, "pending">> \in th.todo
          PROVE  <<x, "pending">> \in mine.todo /\ x # e
      <4>1. <<x, "pending">>[1] = x /\ <<x, "pending">>[2] = "pending"
        OBVIOUS
      <4> QED  BY <1>3, <2>4, <3>2, <3>4, <4>1
    <3> QED  BY <2>4, <2>5, <3>1, <3>3, <3>4 DEF TasksFit
  <2>7. AnswerFits(w, th, eff', absent')
    BY <2>4 DEF AnswerFits
  <2>8. \A x \in Effects : /\ eff[x].sends \in Nat /\ calls[x] \in Nat /\ raced[x] \in Nat
                           /\ absent[x] \in Nat
    BY AskedTypes
  <2>9. ASSUME NEW x \in Effects, Mutation(x)
        PROVE  Asked(eff'[x], calls'[x], raced'[x], absent'[x])
    <3>1. Asked(eff[x], calls[x], raced[x], absent[x])
      BY <2>9 DEF AskedInv
    <3> QED  BY <1>1, <2>2, <2>5, <2>8, <2>9, <3>1 DEF Asked, None
  <2>10. \A x \in Effects :
           \/ eff'[x].st = eff[x].st /\ eff'[x].owner = eff[x].owner /\ eff'[x].sends = eff[x].sends
           \/ eff'[x].st \notin {"claimed", "reconciling"}
           \/ eff'[x].owner = w
    BY <2>2, <2>5
  <2>11. \A x \in Effects : absent[x] <= absent'[x] /\ absent'[x] \in Nat
    BY <1>1, <2>8
  <2> QED  BY <1>1, <2>3, <2>6, <2>7, <2>8, <2>9, <2>10, <2>11, AskedStep
<1> QED  BY <1>5, <1>6

LEMMA AskedReconciles ==
    ASSUME WorkflowAssumption, IInv, AskedInv, NEW w \in Workers, NEW e \in Effects,
           ClaimReconciliation(w, e)
    PROVE  AskedInv'
<1> DEFINE mine == Took(w, <<e, "reconcile">>)
           row == Claimed(w, e, "reconciling")
           n == eff[e].epoch + 1
           th == [mine EXCEPT !.pc = "ask", !.on = e, !.epoch = n]
<1>1. UNCHANGED <<calls, raced, absent>> /\ work[w].pc = "recover" /\ Shapes /\ RowsFine
  BY DEF ClaimReconciliation, IInv
<1>2. /\ mine \in Threads /\ mine.todo \subseteq work[w].todo
      /\ TasksFit(w, mine, eff) /\ AnswerFits(w, mine, eff, absent)
  BY <1>1, TakenFits
<1>3. CASE work' = [work EXCEPT ![w] = mine] /\ UNCHANGED eff
  <2> HIDE DEF mine
  <2> QED  BY <1>1, <1>2, <1>3, AskedMove
<1>4. CASE /\ eff' = [eff EXCEPT ![e] = row] /\ work' = [work EXCEPT ![w] = th]
  <2>1. row.st = "reconciling" /\ row.owner = w /\ row.sends = eff[e].sends
    BY <1>1, RowShapes DEF STATES
  <2> HIDE DEF row, n, mine
  <2>2. th.pc = "ask" /\ th.todo = mine.todo
    BY <1>2 DEF Threads
  <2> HIDE DEF th
  <2>3. TasksFit(w, th, eff')
    BY <1>2, <1>4, <2>1, <2>2, LooseFits
  <2>4. AnswerFits(w, th, eff', absent)
    BY <2>2 DEF AnswerFits
  <2>5. row.st # None
    BY <2>1 DEF None
  <2> QED  BY <1>1, <1>4, <2>1, <2>3, <2>4, <2>5, AskedRow
<1> QED  BY <1>3, <1>4 DEF ClaimReconciliation

LEMMA AskedSettles ==
    ASSUME WorkflowAssumption, IInv, AskedInv, NEW w \in Workers, NEW e \in Effects,
           SettleDeferred(w, e)
    PROVE  AskedInv'
<1> DEFINE mine == Took(w, <<e, "failed">>)
<1>1. UNCHANGED <<eff, calls, raced, absent>> /\ work[w].pc = "recover"
  BY DEF SettleDeferred
<1>2. TasksFit(w, mine, eff) /\ AnswerFits(w, mine, eff, absent)
  BY <1>1, TakenFits
<1>3. work' = [work EXCEPT ![w] = mine] \/ End(w)
  BY DEF SettleDeferred
<1> HIDE DEF mine
<1> QED  BY <1>1, <1>2, <1>3, AskedMove, AskedEnd

LEMMA AskedCalls ==
    ASSUME WorkflowAssumption, IInv, AskedInv, NEW w \in Workers, Call(w)
    PROVE  AskedInv'
<1>1. /\ UNCHANGED <<eff, calls, raced, absent>> /\ work[w] \in Threads
      /\ work[w].pc = "call" /\ Shapes
  BY DEF Call, IInv, Shapes
<1>2. PICK said \in {"ok", "unknown", "rejected"} :
         work' = [work EXCEPT ![w].pc = "reply", ![w].said = said]
  BY DEF Call
<1> DEFINE th == [work[w] EXCEPT !.pc = "reply", !.said = said]
<1>3. th.pc = "reply" /\ th.todo = work[w].todo
  BY <1>1 DEF Threads
<1>4. work' = [work EXCEPT ![w] = th]
  BY <1>1, <1>2 DEF Shapes
<1> HIDE DEF th
<1>5. TasksFit(w, th, eff) /\ AnswerFits(w, th, eff, absent)
  BY <1>3, FewerFit DEF AnswerFits
<1> QED  BY <1>1, <1>4, <1>5, AskedMove

LEMMA AskedAsks ==
    ASSUME WorkflowAssumption, IInv, AskedInv, NEW w \in Workers, Ask(w)
    PROVE  AskedInv'
<1> DEFINE e == work[w].on
<1>1. /\ UNCHANGED <<eff, calls, raced>> /\ Shapes /\ work[w] \in Threads
      /\ e \in Effects /\ work[w].pc = "ask"
  BY DEF Ask, IInv, Shapes, ThreadsKnow, Knows
<1>2. PICK said \in {"committed", "not_found", "unknown"} :
         /\ work' = [work EXCEPT ![w].pc = "answer", ![w].said = said]
         /\ absent' = IF said = "not_found" THEN [absent EXCEPT ![e] = @ + 1] ELSE absent
  <2>1. absent = [absent EXCEPT ![e] = @]
    BY <1>1 DEF Shapes
  <2> QED  BY <2>1 DEF Ask
<1> DEFINE th == [work[w] EXCEPT !.pc = "answer", !.said = said]
<1>3. th.pc = "answer" /\ th.todo = work[w].todo /\ th.said = said /\ th.on = e
  BY <1>1 DEF Threads
<1>4. work' = [work EXCEPT ![w] = th]
  BY <1>1, <1>2 DEF Shapes
<1> HIDE DEF th
<1>5. \A x \in Effects : /\ eff[x].sends \in Nat /\ calls[x] \in Nat /\ raced[x] \in Nat
                         /\ absent[x] \in Nat
  BY AskedTypes
<1>6. \A x \in Effects : absent'[x] = IF x = e /\ said = "not_found" THEN absent[x] + 1 ELSE absent[x]
  BY <1>1, <1>2 DEF Shapes
<1> HIDE DEF e
<1>7. \A x \in Effects : absent[x] <= absent'[x] /\ absent'[x] \in Nat
  BY <1>5, <1>6
<1>8. ASSUME NEW x \in Effects, Mutation(x)
      PROVE  Asked(eff'[x], calls'[x], raced'[x], absent'[x])
  <2>1. Asked(eff[x], calls[x], raced[x], absent[x])
    BY <1>8 DEF AskedInv
  <2> QED  BY <1>1, <1>5, <1>7, <2>1 DEF Asked
<1>9. TasksFit(w, th, eff')
  BY <1>1, <1>3, FewerFit
<1>10. AnswerFits(w, th, eff', absent')
  <2> SUFFICES ASSUME NEW x \in Effects, Mutation(x), th.on = x, th.said = "not_found"
               PROVE  eff'[x].sends <= absent'[x]
    BY DEF AnswerFits
  <2>1. Asked(eff[x], calls[x], raced[x], absent[x])
    BY DEF AskedInv
  <2> QED  BY <1>1, <1>3, <1>5, <1>6, <2>1 DEF Asked
<1> QED  BY <1>1, <1>4, <1>5, <1>7, <1>8, <1>9, <1>10, AskedStep

\* An answer to a claim is recorded, or the thread gives up.
LEMMA AskedRecords ==
    ASSUME WorkflowAssumption, IInv, AskedInv, NEW w \in Workers, NEW e \in Effects,
           UNCHANGED <<calls, raced, absent>>, work[w].pc \in {"reply", "answer"},
           \/ (End(w) \/ Continue(w)) /\ UNCHANGED eff
           \/ /\ Continue(w)
              /\ \E row : /\ eff' = [eff EXCEPT ![e] = row] /\ row.sends = eff[e].sends
                          /\ row.st \notin {None, "claimed", "reconciling"}
                          /\ Mutation(e) /\ row.st = "pending" => eff[e].sends <= absent[e]
    PROVE  AskedInv'
<1>1. Shapes /\ work[w] \in Threads
  BY DEF IInv, Shapes
<1> DEFINE th == [work[w] EXCEPT !.pc = "recover", !.on = <<>>, !.epoch = 0, !.said = None]
<1>2. th.pc = "recover" /\ th.todo = work[w].todo
  BY <1>1 DEF Threads
<1>3. Continue(w) => work' = [work EXCEPT ![w] = th]
  BY <1>1 DEF Continue, Shapes
<1> HIDE DEF th
<1>4. \A rows : AnswerFits(w, th, rows, absent)
  BY <1>2 DEF AnswerFits
<1>5. CASE End(w) /\ UNCHANGED eff
  BY <1>5, AskedEnd
<1>6. CASE Continue(w) /\ UNCHANGED eff
  <2>1. TasksFit(w, th, eff)
    BY <1>2, FewerFit
  <2> QED  BY <1>3, <1>4, <1>6, <2>1, AskedMove
<1>7. ASSUME Continue(w), NEW row, eff' = [eff EXCEPT ![e] = row], row.sends = eff[e].sends,
             row.st \notin {None, "claimed", "reconciling"},
             Mutation(e) /\ row.st = "pending" => eff[e].sends <= absent[e]
      PROVE  AskedInv'
  <2>1. TasksFit(w, th, eff')
    BY <1>2, <1>7, LooseFits
  <2>2. AnswerFits(w, th, eff', absent)
    BY <1>4
  <2> QED  BY <1>3, <1>7, <2>1, <2>2, AskedRow
<1> QED  BY <1>5, <1>6, <1>7

LEMMA AskedReplies ==
    ASSUME WorkflowAssumption, IInv, AskedInv, NEW w \in Workers, Reply(w)
    PROVE  AskedInv'
<1> DEFINE e == work[w].on
<1>1. e \in Effects /\ UNCHANGED <<calls, raced, absent>> /\ Shapes /\ RowsFine
  BY DEF Reply, IInv, ThreadsKnow, Knows
<1>2. \/ (End(w) \/ Continue(w)) /\ UNCHANGED eff
      \/ /\ Continue(w)
         /\ \/ \E st \in {"completed", "outcome_unknown"} :
                  eff' = [eff EXCEPT ![e] = Unclaimed(e, st)]
            \/ eff' = [eff EXCEPT ![e] = [Unclaimed(e, "failed") EXCEPT !.why = "rejected"]]
  BY DEF Reply, Reject
<1>3. work[w].pc \in {"reply", "answer"}
  BY DEF Reply
<1> HIDE DEF e
<1>4. CASE (End(w) \/ Continue(w)) /\ UNCHANGED eff
  BY <1>1, <1>3, <1>4, AskedRecords
<1>5. CASE /\ Continue(w)
           /\ \/ \E st \in {"completed", "outcome_unknown"} :
                    eff' = [eff EXCEPT ![e] = Unclaimed(e, st)]
              \/ eff' = [eff EXCEPT ![e] = [Unclaimed(e, "failed") EXCEPT !.why = "rejected"]]
  <2>1. \E row : /\ eff' = [eff EXCEPT ![e] = row] /\ row.sends = eff[e].sends
                 /\ row.st \notin {None, "claimed", "reconciling", "pending"}
    BY <1>1, <1>5, ReleasedCounts
  <2> QED  BY <1>1, <1>3, <1>5, <2>1, AskedRecords
<1> QED  BY <1>2, <1>4, <1>5

LEMMA AskedAnswers ==
    ASSUME WorkflowAssumption, IInv, AskedInv, NEW w \in Workers, Answer(w)
    PROVE  AskedInv'
<1> DEFINE e == work[w].on
           to(st) == eff' = [eff EXCEPT ![e] = Unclaimed(e, st)] /\ Continue(w)
<1>1. /\ e \in Effects /\ UNCHANGED <<calls, raced, absent>> /\ Shapes /\ RowsFine
      /\ work[w].pc = "answer"
  BY DEF Answer, IInv, ThreadsKnow, Knows
<1>2. \/ End(w) /\ UNCHANGED eff
      \/ /\ Continue(w) /\ eff[e].st = "reconciling" /\ eff[e].owner = w
         /\ \/ \E st \in {"completed", "manual_required"} : to(st)
            \/ work[w].said = "not_found" /\ to("pending")
            \/ eff' = [eff EXCEPT ![e] = [Unclaimed(e, "failed") EXCEPT !.why = "rejected"]]
  BY DEF Answer, Reject, FitsLive, Fits, Rejectable
<1>3. /\ work[w].said = "not_found" /\ Mutation(e) /\ eff[e].st = "reconciling" /\ eff[e].owner = w
      => eff[e].sends <= absent[e]
  BY <1>1 DEF AskedInv, AnswerFits
<1> HIDE DEF e
<1>4. CASE End(w) /\ UNCHANGED eff
  BY <1>1, <1>4, AskedRecords
<1>5. CASE /\ Continue(w) /\ eff[e].st = "reconciling" /\ eff[e].owner = w
           /\ \/ \E st \in {"completed", "manual_required"} : to(st)
              \/ work[w].said = "not_found" /\ to("pending")
              \/ eff' = [eff EXCEPT ![e] = [Unclaimed(e, "failed") EXCEPT !.why = "rejected"]]
  <2>1. \E row : /\ eff' = [eff EXCEPT ![e] = row] /\ row.sends = eff[e].sends
                 /\ row.st \notin {None, "claimed", "reconciling"}
                 /\ Mutation(e) /\ row.st = "pending" => eff[e].sends <= absent[e]
    <3>1. CASE \E st \in {"completed", "manual_required"} : to(st)
      BY <1>1, <3>1, ReleasedCounts
    <3>2. CASE eff' = [eff EXCEPT ![e] = [Unclaimed(e, "failed") EXCEPT !.why = "rejected"]]
      BY <1>1, <3>2, ReleasedCounts
    <3>3. CASE work[w].said = "not_found" /\ to("pending")
      BY <1>1, <1>3, <1>5, <3>3, ReleasedCounts
    <3> QED  BY <1>5, <3>1, <3>2, <3>3
  <2> QED  BY <1>1, <1>5, <2>1, AskedRecords
<1> QED  BY <1>2, <1>4, <1>5

\* Nobody at an effect, or only its lease.
LEMMA AskedRests ==
    ASSUME AskedInv, UNCHANGED <<calls, raced, absent, work>>,
           \A e \in Effects : /\ eff'[e].st = eff[e].st /\ eff'[e].owner = eff[e].owner
                              /\ eff'[e].sends = eff[e].sends
    PROVE  AskedInv'
<1>1. \A w \in Workers : TasksFit(w, work[w], eff)' /\ AnswerFits(w, work[w], eff, absent)'
  BY DEF AskedInv, TasksFit, AnswerFits, Mutation
<1>2. \A e \in Effects : Mutation(e) => Asked(eff[e], calls[e], raced[e], absent[e])'
  BY DEF AskedInv, Asked
<1> QED  BY <1>1, <1>2 DEF AskedInv, Mutation

LEMMA AskedExpires ==
    ASSUME IInv, AskedInv, NEW e \in Effects, Expire(e)
    PROVE  AskedInv'
<1>1. eff \in [Effects -> Rows] /\ eff' = [eff EXCEPT ![e].lease = "expired"]
  BY DEF IInv, Shapes, Expire
<1>2. \A x \in Effects : /\ eff'[x].st = eff[x].st /\ eff'[x].owner = eff[x].owner
                         /\ eff'[x].sends = eff[x].sends
  <2>1. eff[e] \in Rows /\ eff'[e] = [eff[e] EXCEPT !.lease = "expired"]
    BY <1>1
  <2>2. eff'[e].st = eff[e].st /\ eff'[e].owner = eff[e].owner /\ eff'[e].sends = eff[e].sends
    BY <2>1 DEF Rows
  <2> QED  BY <1>1, <2>2
<1> QED  BY <1>2, AskedRests DEF Expire

LEMMA AskedNext ==
    ASSUME WorkflowAssumption, IInv, AskedInv, [Next]_vars
    PROVE  AskedInv'
<1>1. CASE Pause \/ ResumeRun \/ RetryRun \/ Fence \/ Resolve \/ UNCHANGED vars
  <2>1. UNCHANGED <<eff, calls, raced, absent, work>>
    BY <1>1 DEF Pause, ResumeRun, RetryRun, Fence, Restart, Rest, Resolve, vars
  <2> QED  BY <2>1, AskedRests
<1>2. CASE \E e \in Effects : Expire(e)
  BY <1>2, AskedExpires
<1>3. CASE \E w \in Workers : Crash(w)
  BY <1>3, AskedEnd DEF Crash
<1>4. ASSUME NEW w \in Workers, Step(w)
      PROVE  AskedInv'
  <2>1. CASE Begin(w) \/ Prepare(w) \/ CreateDecision(w) \/ Finish(w) \/ Commit(w)
    BY <2>1, AskedMoves
  <2>2. CASE Plan(w)
    BY <2>2, AskedPlan
  <2>3. CASE Recover(w) \/ Sort(w) \/ ReadRun(w)
    BY <2>3, AskedReads
  <2>4. CASE \E e \in Effects :
               \/ RecoverSupersede(w, e) \/ Dispatch(w, e) \/ Normalise(w, e)
               \/ ClaimReconciliation(w, e) \/ SettleDeferred(w, e)
    BY <2>4, AskedSupersede, AskedDispatch, AskedNormalise, AskedReconciles, AskedSettles
  <2>5. CASE Call(w) \/ Ask(w)
    BY <2>5, AskedCalls, AskedAsks
  <2>6. CASE Reply(w) \/ Answer(w)
    BY <2>6, AskedReplies, AskedAnswers
  <2> QED  BY <1>4, <2>1, <2>2, <2>3, <2>4, <2>5, <2>6 DEF Step
<1> QED  BY <1>1, <1>2, <1>3, <1>4 DEF Next

LEMMA AskedInit ==
    ASSUME Init
    PROVE  AskedInv
<1>1. /\ NoEffect.st = None /\ NoEffect.sends = 0 /\ Idle.pc = "idle" /\ Idle.todo = {}
  BY DEF NoEffect, Idle
<1>2. \A e \in Effects : /\ eff[e].st = None /\ eff[e].sends = 0 /\ calls[e] = 0
                         /\ raced[e] = 0 /\ absent[e] = 0
  BY <1>1 DEF Init
<1>3. \A w \in Workers : work[w].pc = "idle" /\ work[w].todo = {}
  BY <1>1 DEF Init
<1> QED  BY <1>2, <1>3 DEF AskedInv, TasksFit, AnswerFits, Asked, None

\* However many coordinators contend, whatever is lost and wherever they die, a
\* mutation is delivered again only after its adapter was asked about the last
\* delivery and said it knows nothing of it, but for deliveries of a row that
\* another coordinator claimed, and let expire, in between
\* (classify_workflow_recovery, claim_workflow_effect, _dispatch, _reconcile).
THEOREM NeverBlind ==
    ASSUME WorkflowAssumption
    PROVE  Spec => []NoBlindRedelivery
<1>1. Init => AskedInv
  BY AskedInit
<1>2. IInv /\ AskedInv /\ [Next]_vars => AskedInv'
  BY AskedNext
<1>3. IInv /\ AskedInv => NoBlindRedelivery
  <2> SUFFICES ASSUME IInv, AskedInv, NEW e \in Effects, Mutation(e)
               PROVE  calls[e] <= absent[e] + 1 + raced[e]
    BY DEF NoBlindRedelivery
  <2>1. Asked(eff[e], calls[e], raced[e], absent[e])
    BY DEF AskedInv
  <2> QED  BY <2>1, AskedTypes DEF Asked
<1> QED  BY <1>1, <1>2, <1>3, AlwaysIInv, PTL DEF Spec
===============================================================================
