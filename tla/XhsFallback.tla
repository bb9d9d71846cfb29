----------------------------- MODULE XhsFallback -----------------------------
(***************************************************************************)
(* The weekly review of XHS recommendations nobody could import            *)
(* (control/xhs_store.py, xhs/fallback.py, xhs/drain.py): free rules turn   *)
(* blogs that link to arXiv into papers, and a run puts each remaining      *)
(* recommendation to a model once, verifies what it proposes against the    *)
(* page, and applies the decision unless the operator was faster.  A call   *)
(* costs money and cannot be taken back, so a reservation against the day's  *)
(* cap and the mark "may have started" are durable before it is made.        *)
(*                                                                         *)
(* Abstracted: one note; one arXiv ID; a link is none, a paper page, a      *)
(* page, or one the operator set; the order of the candidates is a choice;   *)
(* back-off times are left out (only the UTC day is kept).                   *)
(***************************************************************************)
EXTENDS Naturals, FiniteSets, FiniteSetsExt, TLC

CONSTANTS
    Blogs, Papers,   \* recommendations by their first kind; a paper has no arXiv ID
    Inputs,          \* model inputs a recommendation may have over time
    ItemCap,         \* items a run takes at most
    DailyCap,        \* model calls a day
    Spacing,         \* days between two starts
    VerifyMax,       \* VERIFY_MAX_ATTEMPTS
    MaxRuns, MaxDays, MaxEdits, MaxCrashes, MaxReleases   \* bounds

VARIABLES rec, run, item, usage, day, worker, billed, spent

vars == <<rec, run, item, usage, day, worker, billed, spent>>

None == "none"
Recs == Blogs \cup Papers
Open == {"pending", "deciding", "verifying"}
Idle == [phase |-> "idle", key |-> None, on |-> 0, said |-> None]

Init ==
    /\ \E links \in [Recs -> {None, "paper_page", "page"}], first \in Inputs :
        /\ \A r \in Papers : links[r] = None
        /\ rec = [r \in Recs |->
                    [kind |-> IF r \in Blogs THEN "blog" ELSE "paper", arxiv |-> FALSE,
                     url |-> links[r], import |-> "none", review |-> None, rev |-> 0,
                     input |-> first]]
    /\ run = <<>>
    /\ item = <<>>
    /\ usage = [d \in 1..MaxDays |-> 0]
    /\ day = 1
    /\ worker = Idle
    /\ billed = <<>>
    /\ spent = [edits |-> 0, crashes |-> 0, releases |-> 0]

----------------------------------------------------------------------------
(* The free rules *)

(* _xhs_rule_plan: blogs with a paper's link that nobody reviewed or set. *)
RuleRows == {r \in Recs : /\ rec[r].kind = "blog"
                          /\ rec[r].import \in {"none", "failed"}
                          /\ rec[r].url = "paper_page"
                          /\ rec[r].review \in {None, "resolved_blog"}}

Touch(row) == [row EXCEPT !.rev = @ + 1]
AsPaper(row, a) == [Touch(row) EXCEPT !.kind = "paper", !.arxiv = a, !.review = "resolved_paper"]
AsExcluded(row) == [Touch(row) EXCEPT !.review = "excluded"]

(* The note already has this paper. *)
HasPaper(rows, r) == \E p \in Recs \ {r} : rows[p].kind = "paper" /\ rows[p].arxiv

(* plan_rules and _xhs_apply_fallback_rules: each becomes the paper, or a        *)
(* duplicate of one the note has, converted earlier in the batch or before.      *)
ApplyRules(rows) ==
    FoldSet(LAMBDA r, s : [s EXCEPT ![r] = IF HasPaper(s, r) THEN AsExcluded(@)
                                           ELSE AsPaper(@, TRUE)],
            rows, RuleRows)

Rules ==
    /\ worker.phase = "idle"
    /\ RuleRows # {}
    /\ rec' = ApplyRules(rec)
    /\ UNCHANGED <<run, item, usage, day, worker, billed, spent>>

----------------------------------------------------------------------------
(* Starting a run *)

(* _xhs_fallback_candidates *)
Candidate(row) ==
    /\ row.url # "operator_set"
    /\ row.review = None
    /\ \/ row.kind = "blog" /\ row.import \in {"none", "failed"}
       \/ row.kind = "paper" /\ ~row.arxiv /\ row.import = "none"

(* _xhs_fallback_selection: an input an earlier run took, unless that item       *)
(* went stale before its call.                                                 *)
Taken(r, input) ==
    \E k \in DOMAIN item :
        /\ k[2] = r /\ item[k].input = input
        /\ ~(item[k].state = "stale" /\ item[k].call = "not_started")

Running == {i \in DOMAIN run : run[i].state = "running"}
MayStart == /\ Running = {}
            /\ \A i \in DOMAIN run : day >= run[i].started + Spacing

FreshItem(row) == [state |-> "pending", call |-> "not_started", leased |-> FALSE, attempts |-> 0,
                   applied |-> None, rev |-> row.rev, input |-> row.input, due |-> day,
                   check |-> None]

(* start_xhs_fallback_run, by the schedule or the operator: the rules, then at    *)
(* most ItemCap candidates; nothing selected creates no run.                     *)
Start ==
    /\ worker.phase = "idle"
    /\ MayStart
    /\ LET rows == ApplyRules(rec)
           eligible == {r \in Recs : Candidate(rows[r]) /\ ~Taken(r, rows[r].input)}
           i == Cardinality(DOMAIN run) + 1
       IN  /\ eligible # {}
           /\ i <= MaxRuns
           /\ \E chosen \in SUBSET eligible :
                /\ Cardinality(chosen) = Min({ItemCap, Cardinality(eligible)})
                /\ item' = item @@ [k \in {<<i, r>> : r \in chosen} |-> FreshItem(rows[k[2]])]
           /\ run' = run @@ (i :> [state |-> "running", digest |-> None, started |-> day])
           /\ rec' = rows
    /\ UNCHANGED <<usage, day, worker, billed, spent>>

----------------------------------------------------------------------------
(* Ending an item *)

(* Mutant of Current: only the model's input is compared. *)
Current_InputOnly(k) == rec[k[2]].input = item[k].input

(* _xhs_fallback_current *)
Current(k) ==
    LET row == rec[k[2]]
    IN  Candidate(row) /\ row.rev = item[k].rev /\ row.input = item[k].input

(* _xhs_fallback_effect: the row and what was applied. *)
Effect(r, decision) ==
    LET row == rec[r]
    IN  CASE decision = "blog" ->
               <<[Touch(row) EXCEPT !.url = "page", !.review = "resolved_blog",
                                    !.import = "importing"], "blog_queued">>
          [] decision = "arxiv" /\ HasPaper(rec, r) -> <<AsExcluded(row), "excluded">>
          [] decision = "arxiv" /\ ~HasPaper(rec, r) -> <<AsPaper(row, TRUE), "paper_corrected">>
          [] decision = "paper" ->
               <<AsPaper(row, FALSE), IF row.kind = "paper" THEN "paper_kept" ELSE "paper_corrected">>
          [] decision = "exclude" -> <<AsExcluded(row), "excluded">>
          [] OTHER -> <<[Touch(row) EXCEPT !.review = "needs_operator"], "needs_operator">>

(* _xhs_fallback_maybe_complete *)
Completed(items, i) ==
    IF \E k \in DOMAIN items : k[1] = i /\ items[k].state \in Open THEN run
    ELSE [run EXCEPT ![i] = [@ EXCEPT !.state = "completed",
             !.digest = IF \E k \in DOMAIN items : k[1] = i /\ items[k].applied = "needs_operator"
                        THEN "pending" ELSE "suppressed"]]

(* _xhs_fallback_conclude: stale and nothing else, or the effect; then the run     *)
(* may be complete.                                                              *)
Conclude(k, decision) ==
    LET call == IF item[k].state = "deciding"
                THEN IF decision = "unknown" THEN "may_have_started" ELSE "finished"
                ELSE item[k].call
        ended == [item[k] EXCEPT !.leased = FALSE, !.call = call]
        e == Effect(k[2], decision)
        i2 == [item EXCEPT ![k] = IF Current(k) THEN [ended EXCEPT !.state = "done", !.applied = e[2]]
                                  ELSE [ended EXCEPT !.state = "stale"]]
    IN  /\ item' = i2
        /\ run' = Completed(i2, k[1])
        /\ rec' = IF Current(k) THEN [rec EXCEPT ![k[2]] = e[1]] ELSE rec

(* _xhs_fallback_stale at a claim: a lost call it may have made stays marked. *)
GoStale(k) ==
    LET i2 == [item EXCEPT ![k] = [@ EXCEPT !.state = "stale", !.leased = FALSE]]
    IN  item' = i2 /\ run' = Completed(i2, k[1]) /\ UNCHANGED rec

----------------------------------------------------------------------------
(* The drain's stages *)

Work(phase, key, on, said) == worker' = [phase |-> phase, key |-> key, on |-> on, said |-> said]

(* Mutant of Unknown: a decision whose lease ran out is taken again. *)
Unknown_CalledAgain(k) == FALSE

(* A call that may have been made is never made again. *)
Unknown(k) == item[k].state = "deciding" /\ item[k].call = "may_have_started"

(* claim_xhs_fallback_item: one turn of its loop.  A lease that is held while no   *)
(* worker runs has expired.                                                      *)
Due(k) == /\ k[1] \in Running
          /\ \/ ~item[k].leased /\ item[k].state \in {"pending", "verifying"} /\ item[k].due <= day
             \/ item[k].leased
Claim ==
    /\ worker.phase = "idle"
    /\ \E k \in DOMAIN item :
        /\ Due(k)
        /\ CASE Unknown(k) -> Conclude(k, "unknown") /\ UNCHANGED worker
             [] ~Unknown(k) /\ ~Current(k) -> GoStale(k) /\ UNCHANGED worker
             [] ~Unknown(k) /\ Current(k) /\ item[k].state = "verifying"
                /\ item[k].attempts >= VerifyMax -> Conclude(k, "fetch_failed") /\ UNCHANGED worker
             [] ~Unknown(k) /\ Current(k) /\ item[k].state = "verifying"
                /\ item[k].attempts < VerifyMax ->
                  /\ item' = [item EXCEPT ![k] = [@ EXCEPT !.leased = TRUE, !.attempts = @ + 1]]
                  /\ Work("verify", k, 0, None)
                  /\ UNCHANGED <<rec, run>>
             [] OTHER ->
                  /\ item' = [item EXCEPT ![k] = [@ EXCEPT !.state = "deciding", !.leased = TRUE,
                                                           !.call = "not_started"]]
                  /\ Work("decide", k, 0, None)
                  /\ UNCHANGED <<rec, run>>
    /\ UNCHANGED <<usage, day, billed, spent>>

(* _xhs_reserve_usage *)
Reserved == usage[day] + 1 <= DailyCap

(* begin_xhs_fallback_call: the day's call and the mark in one transaction; at     *)
(* the cap the item waits for tomorrow.                                          *)
Begin ==
    LET k == worker.key
    IN  /\ worker.phase = "decide"
        /\ IF Reserved
           THEN /\ usage' = [usage EXCEPT ![day] = @ + 1]
                /\ item' = [item EXCEPT ![k].call = "may_have_started"]
                /\ Work("calling", k, day, None)
           ELSE /\ item' = [item EXCEPT ![k] = [@ EXCEPT !.state = "pending", !.leased = FALSE,
                                                         !.due = day + 1]]
                /\ worker' = Idle
                /\ UNCHANGED usage
        /\ UNCHANGED <<rec, run, day, billed, spent>>

(* History: what a day's reservations went to (None: not this review). *)
Bill(r, input, d) ==
    billed' = LET b == <<r, input, d>>
              IN  (b :> (IF b \in DOMAIN billed THEN billed[b] + 1 ELSE 1)) @@ billed

(* Other work of the drain (identification, link search) spends the same cap. *)
OtherCall ==
    /\ worker.phase = "idle"
    /\ Reserved
    /\ spent.edits < MaxEdits
    /\ spent' = [spent EXCEPT !.edits = @ + 1]
    /\ usage' = [usage EXCEPT ![day] = @ + 1]
    /\ Bill(None, None, day)
    /\ UNCHANGED <<rec, run, item, day, worker>>

(* The model is called and answers, or the outcome stays unknown. *)
Call ==
    LET k == worker.key
    IN  /\ worker.phase = "calling"
        /\ \E said \in {"verify_blog", "verify_arxiv", "paper", "exclude", "operator", "unknown"} :
            /\ said = "verify_blog" => rec[k[2]].kind = "blog"
            /\ Work("said", k, worker.on, said)
        /\ Bill(k[2], item[k].input, worker.on)
        /\ UNCHANGED <<rec, run, item, usage, day, spent>>

(* A refund returns the call to the day it was reserved on. *)
RefundDay == worker.on

(* _fallback_release: the gate, the credential or an unbilled refusal returns      *)
(* the stage; a reserved call goes back.                                         *)
Release ==
    LET k == worker.key
    IN  /\ worker.phase \in {"decide", "calling", "verify"}
        /\ spent.releases < MaxReleases
        /\ spent' = [spent EXCEPT !.releases = @ + 1]
        /\ usage' = IF worker.phase = "calling"
                    THEN [usage EXCEPT ![RefundDay] = IF @ = 0 THEN 0 ELSE @ - 1] ELSE usage
        /\ item' = [item EXCEPT ![k] =
                      IF worker.phase = "verify"
                      THEN [@ EXCEPT !.leased = FALSE, !.attempts = @ - 1]
                      ELSE [@ EXCEPT !.state = "pending", !.leased = FALSE, !.call = "not_started"]]
        /\ worker' = Idle
        /\ UNCHANGED <<rec, run, day, billed>>

(* interpret_answer: a page to verify is kept as the item's proposal, anything      *)
(* else is a decision to apply.                                                   *)
Keep ==
    LET k == worker.key
    IN  /\ worker.phase = "said"
        /\ IF worker.said \in {"verify_blog", "verify_arxiv"}
           THEN /\ item' = [item EXCEPT ![k] = [@ EXCEPT !.state = "verifying", !.call = "finished",
                                                         !.leased = FALSE, !.attempts = 0,
                                                         !.check = worker.said]]
                /\ UNCHANGED <<rec, run>>
           ELSE Conclude(k, worker.said)
        /\ worker' = Idle
        /\ UNCHANGED <<usage, day, billed, spent>>

(* _fallback_verify: the page's title matches or not (verification_decision), or    *)
(* the fetch fails and is tried again VerifyMax times (fail_xhs_fallback_verification). *)
Verify ==
    LET k == worker.key
        retried == [item EXCEPT ![k].leased = FALSE]
    IN  /\ worker.phase = "verify"
        /\ \/ Conclude(k, IF item[k].check = "verify_blog" THEN "blog" ELSE "arxiv")
           \/ Conclude(k, "title_mismatch")
           \/ Conclude(k, "fetch_failed")
           \/ item[k].attempts < VerifyMax /\ item' = retried /\ UNCHANGED <<rec, run>>
        /\ worker' = Idle
        /\ UNCHANGED <<usage, day, billed, spent>>

(* cortexd dies; a call it had begun may or may not have been made, and its        *)
(* reservation is not given back.                                                *)
Crash ==
    /\ worker.phase # "idle"
    /\ spent.crashes < MaxCrashes
    /\ spent' = [spent EXCEPT !.crashes = @ + 1]
    /\ IF worker.phase = "calling"
       THEN \/ Bill(worker.key[2], item[worker.key].input, worker.on)
            \/ Bill(None, None, worker.on)
       ELSE UNCHANGED billed
    /\ worker' = Idle
    /\ UNCHANGED <<rec, run, item, usage, day>>

Tomorrow ==
    /\ day < MaxDays /\ day' = day + 1
    /\ UNCHANGED <<rec, run, item, usage, worker, billed, spent>>

----------------------------------------------------------------------------
(* The operator and the rest of the plugin change a row under the review: a link,   *)
(* an exclusion or its undoing, an import and its end, another input text (which     *)
(* moves no revision).                                                             *)
Edited(row) ==
    {[Touch(row) EXCEPT !.url = "operator_set"]}
    \cup (IF row.import \in {"none", "failed"}
          THEN {[Touch(row) EXCEPT !.review = IF @ = "excluded" THEN "operator_owned" ELSE "excluded"]}
          ELSE {})
    \cup (IF row.kind = "blog" /\ row.url # None /\ row.review # "excluded"
             /\ row.import \in {"none", "failed"}
          THEN {[Touch(row) EXCEPT !.import = "importing"]} ELSE {})
    \cup (IF row.import = "importing"
          THEN {[Touch(row) EXCEPT !.import = s] : s \in {"imported", "failed"}} ELSE {})
    \cup {[row EXCEPT !.input = t] : t \in Inputs \ {row.input}}
Edit ==
    /\ spent.edits < MaxEdits
    /\ spent' = [spent EXCEPT !.edits = @ + 1]
    /\ \E r \in Recs : \E row \in Edited(rec[r]) :
        /\ row.url = "operator_set" => row.kind = "blog" /\ row.import \notin {"importing", "imported"}
        /\ rec' = [rec EXCEPT ![r] = row]
    /\ UNCHANGED <<run, item, usage, day, worker, billed>>

(* set_xhs_fallback_digest, by the transport's drain. *)
Digest ==
    /\ \E i \in DOMAIN run, s \in {"sent", "suppressed", "blocked"} :
        /\ run[i].digest = "pending"
        /\ run' = [run EXCEPT ![i].digest = s]
    /\ UNCHANGED <<rec, item, usage, day, worker, billed, spent>>

----------------------------------------------------------------------------
Stage == Claim \/ Begin \/ Call \/ Keep \/ Verify
Automatic == Rules \/ Start \/ Stage
Next == Automatic \/ Release \/ OtherCall \/ Crash \/ Tomorrow \/ Edit \/ Digest
Spec == Init /\ [][Next]_vars

(* The drain goes on, and midnight comes. *)
FairSpec == Spec /\ WF_vars(Stage) /\ WF_vars(Tomorrow)

----------------------------------------------------------------------------
(* Properties *)

(* The rows satisfy their tables' CHECKs (xhs_fallback_items, xhs_fallback_runs):    *)
(* a lease only on an open stage, an applied action exactly on a finished item, a     *)
(* proposal before a verification, at most one run running.                         *)
TypeOK ==
    /\ \A k \in DOMAIN item :
        /\ item[k].leased => item[k].state \in {"deciding", "verifying"}
        /\ (item[k].applied # None) = (item[k].state = "done")
        /\ item[k].state = "verifying" => item[k].call = "finished" /\ item[k].check # None
        /\ item[k].attempts \in 0..VerifyMax
    /\ Cardinality(Running) <= 1
    /\ \A i \in DOMAIN run : (run[i].state = "running") = (run[i].digest = None)

(* The model sees one recommendation with one input once, however often the daemon    *)
(* dies, the row goes back and forth, or later runs select it again                  *)
(* (claim_xhs_fallback_item, _xhs_fallback_selection).                               *)
CalledOnce ==
    \A r \in Recs, t \in Inputs :
        LET made == {b \in DOMAIN billed : b[1] = r /\ b[2] = t}
        IN  Cardinality(made) <= 1 /\ \A b \in made : billed[b] = 1

(* A day's count is what was reserved on it and not refused, and never passes the        *)
(* cap: a call refused after midnight is given back to the day before, one that may      *)
(* have been made never is (begin_xhs_fallback_call, _xhs_refund_usage).                 *)
UsageCovers ==
    \A d \in 1..MaxDays :
        LET made == {b \in DOMAIN billed : b[3] = d}
        IN  /\ FoldSet(LAMBDA b, n : n + billed[b], 0, made)
                 + (IF worker.phase = "calling" /\ worker.on = d THEN 1 ELSE 0) = usage[d]
            /\ usage[d] <= DailyCap

(* A run is complete exactly when nothing of it is open, and its digest is owed or      *)
(* settled exactly when an item was left to the operator (_xhs_fallback_maybe_complete). *)
RunEndsWithItems ==
    \A i \in DOMAIN run :
        LET items == {k \in DOMAIN item : k[1] = i}
        IN  /\ (run[i].state = "completed") = (\A k \in items : item[k].state \notin Open)
            /\ run[i].digest = "pending" => \E k \in items : item[k].applied = "needs_operator"

(* One paper of a note carries the arXiv ID: rules, a batch of them and verified         *)
(* answers make the others duplicates (plan_rules, _xhs_fallback_effect).                *)
OnePaper == Cardinality({r \in Recs : rec[r].kind = "paper" /\ rec[r].arxiv}) <= 1

(* What the operator decided stays: no rule, start, decision or verification changes a    *)
(* row that is excluded, the operator's own, linked by the operator, or being imported.   *)
OperatorWins ==
    Automatic =>
      \A r \in Recs :
         \/ rec[r].review \in {"excluded", "operator_owned"}
         \/ rec[r].url = "operator_set"
         \/ rec[r].import \in {"importing", "imported"}
         => rec'[r] = rec[r]

(* A decision is applied only to the input the model saw (a change of the caption or a     *)
(* transcription moves no revision, so the input is compared too).                       *)
AppliedToItsInput ==
    \A k \in DOMAIN item :
       item[k].state \in Open /\ item'[k].applied \notin {None, "needs_operator"}
           => rec[k[2]].input = item[k].input
=============================================================================
