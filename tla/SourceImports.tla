--------------------------- MODULE SourceImports ---------------------------
(***************************************************************************)
(* Sources met by a run (control/store.py, product/sources).  A live attempt *)
(* that names a paper parks its run on a source decision; resolving it binds *)
(* the run to a source the engine already has, or makes the run a waiter of  *)
(* the one import of that source, which a dispatcher claims, executes and    *)
(* completes.  Runs end under it, and corpora are adopted beside it.         *)
(*                                                                         *)
(* A work is a canonical id (authority and authority id); an engine_ref is   *)
(* the corpus directory it encodes.  The resolution of an intent has the     *)
(* intent's id.  queued, starting and running are the one state "running";   *)
(* a thread's active run is its own until it ends.                          *)
(***************************************************************************)
EXTENDS Naturals, Sequences, FiniteSets, FiniteSetsExt, SequencesExt

CONSTANTS
    Runs, Works, Refs, Workers,
    MaxIntents, MaxAttempts, MaxEpoch, MaxOutside, MaxFailures   \* bounds

VARIABLES run, intent, src, act, waiter, binding, alias, manifests, adapter, worker, outside, failures

vars == <<run, intent, src, act, waiter, binding, alias, manifests, adapter, worker, outside, failures>>
tables == <<src, act, waiter, binding, alias>>

None == "none"
Fenced == {"cancel_requested", "ended", "failed"}   \* ended: canceled or completed
Ready == {"existing", "imported"}
NoAction == [st |-> None, run |-> None, res |-> 0, owner |-> None, live |-> FALSE, epoch |-> 0]
NoWaiter == [st |-> None, res |-> 0, at |-> 0]
NoBinding == [how |-> None, res |-> 0]
Idle == [pc |-> "idle", on |-> None, epoch |-> 0, run |-> None]

(* What a resolver may return, as far as the decision tells it apart: one work,
   or two that differ, found by title and locator or both by title.          *)
Candidates ==
    {<<[kind |-> "title", work |-> v]>> : v \in Works} \union
    {<<[kind |-> "title", work |-> p[1]], [kind |-> k, work |-> p[2]]>> :
        p \in {p \in Works \X Works : p[1] # p[2]}, k \in {"title", "locator"}}
WorksOf(c) == {c[i].work : i \in DOMAIN c}

Init ==
    /\ run = [r \in Runs |-> [state |-> "running", attempt |-> 1]]
    /\ intent = <<>>
    /\ src = [w \in Works |-> [st |-> None, ref |-> None]]
    /\ act = [w \in Works |-> NoAction]
    /\ waiter = [p \in Works \X Runs |-> NoWaiter]
    /\ binding = [p \in Works \X Runs |-> NoBinding]
    /\ alias = [w \in Works |-> None]
    /\ manifests = {}
    /\ adapter = [w \in Works |-> None]
    /\ worker = [d \in Workers |-> Idle]
    /\ outside = 0
    /\ failures = 0

LiveWaiters(w, ws) == {r \in Runs : ws[w, r].st = "waiting" /\ run[r].state \notin Fenced}
Oldest(w, ws, rs) == CHOOSE r \in rs : \A q \in rs : ws[w, r].at <= ws[w, q].at

----------------------------------------------------------------------------
(* The end of a run: _close_source_work_for_run *)

CloseIntents(r) ==
    intent' = [i \in DOMAIN intent |->
                 IF intent[i].run = r /\ intent[i].st = "pending"
                   THEN [intent[i] EXCEPT !.st = "canceled"] ELSE intent[i]]

(* A pending import is handed to its oldest other live waiter, or canceled;
   either way the claim is gone and its epoch moves on.                     *)
(* Mutant of Handover: the other waiters are not looked for. *)
Handover_Cancels(w, r, ws) ==
    IF act[w].st = "pending"
      THEN [act[w] EXCEPT !.st = "canceled", !.owner = None, !.live = FALSE, !.epoch = @ + 1]
      ELSE act[w]

Handover(w, r, ws) ==
    LET others == LiveWaiters(w, ws) \ {r}
        free == [act[w] EXCEPT !.owner = None, !.live = FALSE, !.epoch = @ + 1]
    IN  CASE act[w].st # "pending" -> act[w]
          [] others = {} -> [free EXCEPT !.st = "canceled"]
          [] OTHER -> LET q == Oldest(w, ws, others)
                      IN  [free EXCEPT !.run = q, !.res = ws[w, q].res]

FenceImports(r) ==
    LET ws == [p \in DOMAIN waiter |->
                 IF p[2] = r /\ waiter[p].st = "waiting"
                   THEN [waiter[p] EXCEPT !.st = "canceled"] ELSE waiter[p]]
    IN  /\ waiter' = ws
        /\ act' = [w \in Works |-> IF waiter[w, r].st = "waiting" THEN Handover(w, r, ws) ELSE act[w]]
        /\ \A w \in Works : act'[w].epoch <= MaxEpoch

CloseSourceWork(r) == CloseIntents(r) /\ FenceImports(r)

Ends == [running |-> Fenced, waiting |-> {"cancel_requested", "failed"},
         cancel_requested |-> {"ended"}, ended |-> {}, failed |-> {}]

RunEnds(r, to) ==
    /\ to \in Ends[run[r].state]
    /\ run' = [run EXCEPT ![r].state = to]
    /\ CloseSourceWork(r)
    /\ UNCHANGED <<src, binding, alias, manifests, adapter, worker, outside, failures>>

RetryRun(r) ==
    /\ run[r].state = "failed"
    /\ run[r].attempt < MaxAttempts
    /\ run' = [run EXCEPT ![r] = [state |-> "running", attempt |-> @.attempt + 1]]
    /\ UNCHANGED <<intent, src, act, waiter, binding, alias, manifests, adapter, worker, outside, failures>>

----------------------------------------------------------------------------
(* Intents and their decisions *)

CreateIntent(r, c) ==
    /\ Len(intent) < MaxIntents
    /\ run[r].state = "running"
    /\ run' = [run EXCEPT ![r].state = "waiting"]
    /\ intent' = Append(intent, [run |-> r, attempt |-> run[r].attempt, cands |-> c, st |-> "pending", choice |-> None])
    /\ UNCHANGED <<tables, manifests, adapter, worker, outside, failures>>

Options(i) == IF Cardinality(WorksOf(intent[i].cands)) > 1
                THEN {"keep_both", "replace_url_with_echo", "cancel"}
                ELSE {"use_source", "cancel"}

Titles(i) == SelectSeq(intent[i].cands, LAMBDA c : c.kind = "title")

Selected(i, choice) ==
    CASE choice = "cancel" -> {}
      [] choice = "replace_url_with_echo" -> WorksOf(Titles(i))
      [] OTHER -> WorksOf(intent[i].cands)

IsReady(w) == src[w].st \in Ready /\ src[w].ref # None

(* _insert_run_source_binding: a run is bound to a source at most once. *)
MayBind(w, r) == binding[w, r] = NoBinding

(* _insert_source_import_waiter: a run waits for an import at most once. *)
MayWait(w, r) == waiter[w, r] = NoWaiter

(* _insert_source claims the work's own id as an alias. *)
MayInsert(w) == alias[w] = None

WaitsFor(w, r, i) ==
    CASE act[w].st = None -> [NoAction EXCEPT !.st = "pending", !.run = r, !.res = i]
      [] act[w].st = "canceled" ->
            [act[w] EXCEPT !.st = "pending", !.run = r, !.res = i, !.owner = None, !.live = FALSE]
      [] OTHER -> act[w]

(* resolve_source_intent: every selected work in one transaction, so one that
   is refused refuses them all.                                             *)
ResolveIntent(i, choice) ==
    LET r == intent[i].run
        chosen == Selected(i, choice)
        bound == {w \in chosen : IsReady(w)}
        waits == chosen \ bound
        fresh == {w \in waits : src[w].st = None}
        n == Cardinality({p \in DOMAIN waiter : waiter[p] # NoWaiter})
    IN  /\ intent[i].st = "pending"
        /\ run[r] = [state |-> "waiting", attempt |-> intent[i].attempt]
        /\ choice \in Options(i)
        /\ choice = "replace_url_with_echo" => Len(Titles(i)) = 1
        /\ \A w \in bound : MayBind(w, r)
        /\ \A w \in waits : MayWait(w, r) /\ act[w].st # "completed"
        /\ \A w \in fresh : MayInsert(w)
        /\ run' = [run EXCEPT ![r].state = IF choice = "cancel" THEN "cancel_requested" ELSE "running"]
        /\ IF choice = "cancel"
             THEN /\ FenceImports(r)
                  /\ UNCHANGED <<src, binding, alias>>
             ELSE /\ binding' = [p \in DOMAIN binding |->
                        IF p[1] \in bound /\ p[2] = r THEN [how |-> "reused", res |-> i] ELSE binding[p]]
                  /\ act' = [w \in Works |-> IF w \in waits THEN WaitsFor(w, r, i) ELSE act[w]]
                  /\ waiter' = [p \in DOMAIN waiter |->
                        IF p[1] \in waits /\ p[2] = r
                          THEN [st |-> "waiting", res |-> i, at |-> n + 1] ELSE waiter[p]]
                  /\ src' = [w \in Works |->
                        IF w \in waits /\ act[w].st \in {None, "canceled"}
                          THEN [src[w] EXCEPT !.st = "pending"] ELSE src[w]]
                  /\ alias' = [w \in Works |-> IF w \in fresh THEN w ELSE alias[w]]
        /\ intent' = [intent EXCEPT ![i].st = IF choice = "cancel" THEN "canceled" ELSE "resolved",
                                    ![i].choice = choice]
        /\ UNCHANGED <<manifests, adapter, worker, outside, failures>>

----------------------------------------------------------------------------
(* The dispatcher: claim, execute, complete *)

(* A fresh claim, or the receipt of the same worker's claim while it is current. *)
Claim(d, w) ==
    /\ worker[d].pc = "idle"
    /\ act[w].st = "pending"
    /\ \/ /\ LiveWaiters(w, waiter) # {}
          /\ ~act[w].live
          /\ act[w].epoch < MaxEpoch
          /\ act' = [act EXCEPT ![w].owner = d, ![w].live = TRUE, ![w].epoch = @ + 1]
       \/ /\ act[w].owner = d /\ act[w].live
          /\ UNCHANGED act
    /\ worker' = [worker EXCEPT ![d] = [pc |-> "claimed", on |-> w, epoch |-> act'[w].epoch, run |-> act[w].run]]
    /\ UNCHANGED <<run, intent, src, waiter, binding, alias, manifests, adapter, outside, failures>>

(* The adapter imports a work once and answers a replay with the same ref. *)
Execute(d, ref) ==
    LET w == worker[d].on
    IN  /\ worker[d].pc = "claimed"
        /\ IF adapter[w] = None THEN ref \notin Range(adapter) ELSE ref = adapter[w]
        /\ adapter' = [adapter EXCEPT ![w] = ref]
        /\ worker' = [worker EXCEPT ![d].pc = "executed"]
        /\ UNCHANGED <<run, intent, tables, manifests, outside, failures>>

(* _claim_fence_is_current *)
FenceCurrent(d) ==
    LET a == act[worker[d].on]
    IN  a.st = "pending" /\ a.owner = d /\ a.epoch = worker[d].epoch /\ a.live

Completable(d) ==
    LET w == worker[d].on
        live == LiveWaiters(w, waiter)
    IN  /\ FenceCurrent(d)
        /\ live # {}
        /\ \A v \in Works \ {w} : src[v].ref # adapter[w]
        /\ \A r \in live : MayBind(w, r)

Complete(d) ==
    LET w == worker[d].on
        ref == adapter[w]
        live == LiveWaiters(w, waiter)
        waiting == {r \in Runs : waiter[w, r].st = "waiting"}
    IN  /\ worker[d].pc = "executed"
        /\ Completable(d)
        /\ act' = [act EXCEPT ![w].st = "completed", ![w].owner = None, ![w].live = FALSE]
        /\ src' = [src EXCEPT ![w] = [st |-> "imported", ref |-> ref]]
        /\ binding' = [p \in DOMAIN binding |->
              IF p[1] = w /\ p[2] \in live THEN [how |-> "imported", res |-> waiter[p].res] ELSE binding[p]]
        /\ waiter' = [p \in DOMAIN waiter |->
              IF p[1] = w /\ p[2] \in waiting
                THEN [waiter[p] EXCEPT !.st = IF p[2] \in live THEN "bound" ELSE "canceled"] ELSE waiter[p]]
        /\ worker' = [worker EXCEPT ![d] = Idle]
        /\ UNCHANGED <<run, intent, alias, manifests, adapter, outside, failures>>

(* A completion the store refuses ends the delivery. *)
Refused(d) ==
    /\ worker[d].pc = "executed"
    /\ ~Completable(d)
    /\ worker' = [worker EXCEPT ![d] = Idle]
    /\ UNCHANGED <<run, intent, tables, manifests, adapter, outside, failures>>

(* A lost response or a dead dispatcher leaves the claim to its lease. *)
GivesUp(d) ==
    /\ worker[d].pc # "idle"
    /\ failures < MaxFailures
    /\ worker' = [worker EXCEPT ![d] = Idle]
    /\ failures' = failures + 1
    /\ UNCHANGED <<run, intent, tables, manifests, adapter, outside>>

Held(w) == \E d \in Workers : worker[d].pc # "idle" /\ worker[d].on = w /\ FenceCurrent(d)

(* A lease runs out under a slow dispatcher, or after a lost one. *)
Expire(w) ==
    /\ act[w].live
    /\ Held(w) => failures < MaxFailures
    /\ failures' = IF Held(w) THEN failures + 1 ELSE failures
    /\ act' = [act EXCEPT ![w].live = FALSE]
    /\ UNCHANGED <<run, intent, src, waiter, binding, alias, manifests, adapter, worker, outside>>

FailImport(d) ==
    LET w == worker[d].on
    IN  /\ worker[d].pc # "idle"
        /\ failures < MaxFailures
        /\ FenceCurrent(d)
        /\ act' = [act EXCEPT ![w].st = "failed", ![w].owner = None, ![w].live = FALSE]
        /\ src' = [src EXCEPT ![w].st = "failed"]
        /\ worker' = [worker EXCEPT ![d] = Idle]
        /\ failures' = failures + 1
        /\ UNCHANGED <<run, intent, waiter, binding, alias, manifests, adapter, outside>>

RetryImport(w) ==
    /\ act[w].st = "failed"
    /\ act' = [act EXCEPT ![w].st = "pending", ![w].owner = None, ![w].live = FALSE]
    /\ src' = [src EXCEPT ![w].st = "pending"]
    /\ UNCHANGED <<run, intent, waiter, binding, alias, manifests, adapter, worker, outside, failures>>

----------------------------------------------------------------------------
(* Sources that come from elsewhere *)

(* register_source: idempotent on the same ref, refused on any other; the
   UNIQUE engine_ref refuses a directory another source has.               *)
RegisterSource(w, ref, aliases) ==
    /\ outside < MaxOutside
    /\ IF src[w].st = None
         THEN /\ \A v \in Works : src[v].ref # ref
              /\ alias[w] = None
         ELSE src[w].ref = ref
    /\ \A v \in aliases : alias[v] \in {None, w}
    /\ src' = IF src[w].st = None THEN [src EXCEPT ![w] = [st |-> "existing", ref |-> ref]] ELSE src
    /\ alias' = [v \in Works |-> IF v = w \/ v \in aliases THEN w ELSE alias[v]]
    /\ outside' = outside + 1
    /\ UNCHANGED <<run, intent, act, waiter, binding, manifests, adapter, worker, failures>>

(* build_manifest: no directory and no work twice. *)
Manifests == {m \in UNION {[ws -> Refs] : ws \in SUBSET Works \ {{}}} : IsInjective(m)}

(* _adopt_source *)
Adoptable(w, ref) ==
    IF src[w].st # None THEN src[w].ref = ref
    ELSE /\ \A v \in Works : src[v].ref # ref
         /\ MayInsert(w)

(* commit_adoption_manifest: every entry, or none. *)
CommitManifest(m) ==
    /\ outside < MaxOutside
    /\ m \notin manifests
    /\ \A w \in DOMAIN m : Adoptable(w, m[w])
    /\ src' = [w \in Works |-> IF w \in DOMAIN m /\ src[w].st = None
                                 THEN [st |-> "existing", ref |-> m[w]] ELSE src[w]]
    /\ alias' = [w \in Works |-> IF w \in DOMAIN m /\ src[w].st = None THEN w ELSE alias[w]]
    /\ manifests' = manifests \union {m}
    /\ outside' = outside + 1
    /\ UNCHANGED <<run, intent, act, waiter, binding, adapter, worker, failures>>

----------------------------------------------------------------------------

Dispatch(d) ==
    \/ \E w \in Works : Claim(d, w)
    \/ \E ref \in Refs : Execute(d, ref)
    \/ Complete(d)
    \/ Refused(d)

Next ==
    \/ \E r \in Runs :
        \/ \E to \in Fenced : RunEnds(r, to)
        \/ RetryRun(r)
        \/ \E c \in Candidates : CreateIntent(r, c)
    \/ \E i \in DOMAIN intent : \E choice \in Options(i) : ResolveIntent(i, choice)
    \/ \E d \in Workers : Dispatch(d) \/ GivesUp(d) \/ FailImport(d)
    \/ \E w \in Works : Expire(w) \/ RetryImport(w)
    \/ \E w \in Works, ref \in Refs, aliases \in SUBSET Works : RegisterSource(w, ref, aliases)
    \/ \E m \in Manifests : CommitManifest(m)

Spec == Init /\ [][Next]_vars

Fairness ==
    /\ \A d \in Workers : WF_vars(Dispatch(d))
    /\ \A w \in Works : WF_vars(Expire(w)) /\ WF_vars(RetryImport(w))

FairSpec == Spec /\ Fairness

----------------------------------------------------------------------------
(* Properties *)

(* The tables hold what their columns allow. *)
TypeOK ==
    /\ run \in [Runs -> [state : Fenced \union {"running", "waiting"}, attempt : 1..MaxAttempts]]
    /\ intent \in Seq([run : Runs, attempt : 1..MaxAttempts, cands : Candidates,
                       st : {"pending", "resolved", "canceled"},
                       choice : {None, "use_source", "keep_both", "replace_url_with_echo", "cancel"}])
    /\ src \in [Works -> [st : {None, "pending", "failed"} \union Ready, ref : Refs \union {None}]]
    /\ act \in [Works -> [st : {None, "pending", "completed", "failed", "canceled"}, run : Runs \union {None},
                          res : 0..MaxIntents, owner : Workers \union {None}, live : BOOLEAN, epoch : 0..MaxEpoch]]
    /\ waiter \in [Works \X Runs -> [st : {None, "waiting", "bound", "canceled"}, res : 0..MaxIntents, at : Nat]]
    /\ binding \in [Works \X Runs -> [how : {None, "reused", "imported"}, res : 0..MaxIntents]]
    /\ alias \in [Works -> Works \union {None}]
    /\ manifests \subseteq Manifests
    /\ adapter \in [Works -> Refs \union {None}]
    /\ \A w \in Works : act[w].live => act[w].st = "pending" /\ act[w].owner # None

(* A source the engine can read has a directory no other source has, and an
   import is completed exactly when it made its source readable; no crash,
   adoption or registration beside an import breaks either.                 *)
ReadySound ==
    /\ \A w \in Works : (src[w].st \in Ready) = (src[w].ref # None)
    /\ \A v, w \in Works : src[v].ref = src[w].ref => v = w \/ src[v].ref = None
    /\ \A w \in Works : (act[w].st = "completed") = (src[w].st = "imported")

(* A run that waits for an import is live, and the import is one that can
   still happen: the ends of runs cancel their waiters, never another's.   *)
WaiterSound ==
    \A w \in Works, r \in Runs :
        waiter[w, r].st = "waiting" => run[r].state \notin Fenced /\ act[w].st \in {"pending", "failed"}

(* A dispatcher whose claim is current works for the run the import now
   belongs to, and somebody still waits for it: a hand-over fences the claim. *)
ClaimServesWaiter ==
    \A d \in Workers :
        worker[d].pc # "idle" /\ FenceCurrent(d) =>
            /\ worker[d].run = act[worker[d].on].run
            /\ LiveWaiters(worker[d].on, waiter) # {}

(* A run is bound only to a readable source that a resolved decision of that
   run chose, and an import's bindings are exactly its bound waiters.       *)
BindingSound ==
    \A w \in Works, r \in Runs :
        LET b == binding[w, r]
        IN  /\ b.how # None =>
                 /\ src[w].st \in Ready
                 /\ intent[b.res].run = r /\ intent[b.res].st = "resolved"
                 /\ w \in Selected(b.res, intent[b.res].choice)
            /\ (b.how = "imported") = (waiter[w, r].st = "bound")

(* A run waits on at most one source decision, and while one is pending the
   run is parked on it under the attempt that asked.                        *)
ParkedOnIntent ==
    \A i, j \in DOMAIN intent :
        intent[i].st = "pending" =>
            /\ run[intent[i].run] = [state |-> "waiting", attempt |-> intent[i].attempt]
            /\ (intent[j].st = "pending" /\ intent[j].run = intent[i].run => i = j)

(* A run that was told to stop is bound to nothing more, and what the engine
   was once told a source's directory is never changes.                     *)
NoLateBinding ==
    /\ \A w \in Works, r \in Runs :
         binding'[w, r] # binding[w, r] => run[r].state \notin Fenced /\ binding[w, r] = NoBinding
    /\ \A w \in Works : src[w].ref # None => src'[w].ref = src[w].ref

(* Every wait for an import ends: the run is bound or has stopped. *)
WaitsEnd == \A w \in Works, r \in Runs : waiter[w, r].st = "waiting" ~> waiter[w, r].st # "waiting"
====
