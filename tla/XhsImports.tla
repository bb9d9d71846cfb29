----------------------------- MODULE XhsImports -----------------------------
(***************************************************************************)
(* From recommendation to source (control/xhs_store.py, xhs/drain.py): the *)
(* blogs and papers one saved XHS note recommends, the search for a blog's *)
(* link, its import as versions of a content source, and a paper's import  *)
(* as a Capture whose end a task waits for.  The operator reviews a page   *)
(* of recommendations and imports from it while the drain, which runs one   *)
(* task at a time, and re-identifications change the rows under the page.  *)
(*                                                                         *)
(* Abstracted: all papers carry one arXiv ID; a blog's identity is its     *)
(* link; the note's revision is whether the operator's page still has it;   *)
(* due times and the attempt budget (module XhsPipeline) are a choice       *)
(* between another try and failure.                                         *)
(***************************************************************************)
EXTENDS Naturals, Sequences, FiniteSets, FiniteSetsExt, TLC

CONSTANTS
    Blogs, Papers,   \* recommendations of the note, by kind
    Urls,            \* normalized links
    Captures,        \* capture ids, used in order: 1..n
    Sources,         \* paper sources a capture may produce
    Wanted,          \* the source with the recommended arXiv ID
    MaxIdentify, MaxEdits, MaxTasks, MaxCrashes   \* bounds

VARIABLES rec, task, capture, blog, link, page, worker, spent

vars == <<rec, task, capture, blog, link, page, worker, spent>>

None == "none"
Recs == Blogs \cup Papers
UrlStates == {"none", "from_text", "resolved", "not_found", "failed", "operator_set"}
Resolvable == {"none", "not_found", "failed"}
Held == {"staged", "importing", "imported"}
CaptureTerminal == {"consumed", "dismissed", "failed"}

ResolveKey(r) == <<"resolve", r>>
BlogKey(r, i) == <<"blog", r, i>>
LinkKey(c) == <<"link", c>>
Kind(k) == k[1]

FreshRec == [url |-> None, ustate |-> "none", import |-> "none", source |-> None,
             capture |-> 0, review |-> None]
FreshTask == [state |-> "pending", refetch |-> FALSE]
Idle == [phase |-> "idle", key |-> None, got |-> None, names |-> {}]

(* After the note's first identification and save: each blog has the link     *)
(* its text names, or a search for one.                                      *)
Init ==
    /\ \E named \in [Blogs -> Urls \cup {None}] :
        /\ rec = [r \in Recs |->
                    IF r \in Blogs /\ named[r] # None
                    THEN [FreshRec EXCEPT !.url = named[r], !.ustate = "from_text"] ELSE FreshRec]
        /\ task = [k \in {ResolveKey(r) : r \in {b \in Blogs : named[b] = None}} |-> FreshTask]
    /\ capture = [c \in Captures |-> [state |-> "absent", consumed |-> {}]]
    /\ blog = [u \in Urls |-> <<>>]
    /\ link = [r \in Recs |-> None]
    /\ page = [fresh |-> FALSE, url |-> [r \in Recs |-> None]]
    /\ worker = Idle
    /\ spent = [identify |-> 0, edits |-> 0, crashes |-> 0]

----------------------------------------------------------------------------
(* Tasks *)
InState(t, k, states) == k \in DOMAIN t /\ t[k].state \in states
Live(t, k) == InState(t, k, {"pending", "running"})
SetTask(k, s) == [task EXCEPT ![k].state = s]
Put(t, k, v) == (k :> v) @@ t

BlogTasks(r) == {k \in DOMAIN task : Kind(k) = "blog" /\ k[2] = r}

(* _xhs_queue_blog_import: a waiting task is reused, else the next one follows. *)
QueueBlog(t, r, refetch) ==
    IF \E k \in BlogTasks(r) : Live(t, k) THEN t
    ELSE Put(t, BlogKey(r, Cardinality(BlogTasks(r)) + 1), [FreshTask EXCEPT !.refetch = refetch])

(* _xhs_queue_capture_link: one task per capture, due again when finished. *)
QueueLink(t, c) == IF Live(t, LinkKey(c)) THEN t ELSE Put(t, LinkKey(c), FreshTask)

----------------------------------------------------------------------------
(* _xhs_update_recommendation with a link: a change makes every page of the    *)
(* note stale.                                                               *)
TouchPage(rec2) ==
    page' = [page EXCEPT !.fresh = @ /\ \A r \in Recs : rec2[r].url = rec[r].url]

(* _xhs_upsert_recommendation: what a re-identification does to a link: one    *)
(* in the text replaces an unresolved or a searched one, never the            *)
(* operator's nor that of an import.                                         *)
UpsertUrl(r, u) ==
    LET replaces == /\ rec[r].import \notin Held
                    /\ \/ rec[r].ustate \in {"none", "from_text"}
                       \/ u # None /\ rec[r].ustate # "operator_set"
    IN  IF replaces
        THEN [rec[r] EXCEPT !.url = u, !.ustate = IF u = None THEN "none" ELSE "from_text"]
        ELSE rec[r]

(* _xhs_apply_identify: rows refreshed, a search for each blog without a       *)
(* link (once per recommendation), and the note's revision moves.  It is a     *)
(* unit of the same drain.                                                    *)
Reidentify ==
    /\ worker.phase = "idle"
    /\ spent.identify < MaxIdentify
    /\ spent' = [spent EXCEPT !.identify = @ + 1]
    /\ \E named \in [Blogs -> Urls \cup {None}] :
        LET rec2 == [r \in Recs |-> IF r \in Blogs THEN UpsertUrl(r, named[r]) ELSE rec[r]]
            searched == {r \in Blogs : rec2[r].ustate = "none"}
        IN  /\ rec' = rec2
            /\ task' = task @@ [k \in {ResolveKey(r) : r \in searched} |-> FreshTask]
    /\ page' = [page EXCEPT !.fresh = FALSE]
    /\ UNCHANGED <<capture, blog, link, worker>>

----------------------------------------------------------------------------
(* The operator *)
Edit == /\ spent.edits < MaxEdits
        /\ spent' = [spent EXCEPT !.edits = @ + 1]

(* The note's page, with its revision and the links it shows. *)
Look ==
    /\ ~page.fresh
    /\ page' = [fresh |-> TRUE, url |-> [r \in Recs |-> rec[r].url]]
    /\ UNCHANGED <<rec, task, capture, blog, link, worker, spent>>

(* _xhs_import_refusal *)
Refused(r) ==
    \/ rec[r].import = "imported"
    \/ rec[r].review = "excluded"
    \/ r \in Blogs /\ rec[r].url = None

(* _stage_capture: the open capture of the payload, or a new one. *)
OpenCaptures == {c \in Captures : capture[c].state = "open"}
Unused == {c \in Captures : capture[c].state = "absent"}
StagedCapture == IF OpenCaptures # {} THEN Min(OpenCaptures) ELSE Min(Unused)

(* expected_revision is the note's. *)
PageHolds == page.fresh

(* import_xhs_recommendations: each chosen one by itself. *)
Import ==
    /\ Edit
    /\ PageHolds
    /\ \E chosen \in (SUBSET Recs) \ {{}} :
        LET blogs == {r \in chosen \cap Blogs : ~Refused(r)}
            papers == {r \in chosen \cap Papers : ~Refused(r)}
            c == StagedCapture
        IN  /\ \A r \in blogs : Cardinality(BlogTasks(r)) < MaxTasks
            /\ papers # {} => OpenCaptures \cup Unused # {}
            /\ rec' = [r \in Recs |->
                         CASE r \in blogs -> [rec[r] EXCEPT !.import = "importing"]
                           [] r \in papers -> [rec[r] EXCEPT !.import = "staged", !.capture = c]
                           [] OTHER -> rec[r]]
            /\ LET t == FoldSet(LAMBDA r, t : QueueBlog(t, r, FALSE), task, blogs)
               IN  task' = IF papers = {} THEN t ELSE QueueLink(t, c)
            /\ capture' = IF papers = {} THEN capture ELSE [capture EXCEPT ![c].state = "open"]
    /\ UNCHANGED <<blog, link, page, worker>>

(* refetch_xhs_blog: the task of one recommendation imported from it. *)
Refetch ==
    /\ Edit
    /\ \E r \in Blogs :
        /\ rec[r].import = "imported"
        /\ Cardinality(BlogTasks(r)) < MaxTasks
        /\ task' = QueueBlog(task, r, TRUE)
    /\ UNCHANGED <<rec, capture, blog, link, page, worker>>

(* set_xhs_recommendation_link *)
SetLink ==
    /\ Edit
    /\ \E r \in Blogs, u \in Urls :
        /\ rec[r].import \notin {"importing", "imported"}
        /\ rec' = [rec EXCEPT ![r] = [@ EXCEPT !.url = u, !.ustate = "operator_set"]]
        /\ TouchPage(rec')
    /\ UNCHANGED <<task, capture, blog, link, worker>>

(* exclude_xhs_recommendation *)
Exclude ==
    /\ Edit
    /\ \E r \in Recs :
        /\ rec[r].import \notin Held
        /\ rec[r].review # "excluded"
        /\ rec' = [rec EXCEPT ![r].review = "excluded"]
    /\ UNCHANGED <<task, capture, blog, link, page, worker>>

(* restore_xhs_recommendation *)
Restore ==
    /\ Edit
    /\ \E r \in Recs :
        /\ rec[r].import \notin Held
        /\ rec[r].review = "excluded"
        /\ rec' = [rec EXCEPT ![r].review = "operator_owned"]
    /\ UNCHANGED <<task, capture, blog, link, page, worker>>

(* _xhs_retry_task, for the failed tasks of these kinds: only one that still   *)
(* matches its row.                                                          *)
CanRetry(k) ==
    CASE Kind(k) = "resolve" -> rec[k[2]].ustate = "failed" /\ rec[k[2]].review # "excluded"
      [] Kind(k) = "blog"    -> rec[k[2]].import = "failed" /\ ~Refused(k[2])
      [] OTHER               -> TRUE
Retry ==
    /\ Edit
    /\ \E k \in DOMAIN task :
        /\ task[k].state = "failed"
        /\ CanRetry(k)
        /\ task' = SetTask(k, "pending")
        /\ rec' = CASE Kind(k) = "resolve" -> [rec EXCEPT ![k[2]] = [@ EXCEPT !.url = None,
                                                                              !.ustate = "none"]]
                    [] Kind(k) = "blog" -> [rec EXCEPT ![k[2]].import = "importing"]
                    [] OTHER -> rec
        /\ TouchPage(rec')
    /\ UNCHANGED <<capture, blog, link, worker>>

(* External: a Capture is approved and consumed, dismissed, or fails. *)
CaptureEnds ==
    /\ \E c \in OpenCaptures, s \in CaptureTerminal, produced \in SUBSET Sources :
        /\ (s = "consumed") = (produced # {})
        /\ capture' = [capture EXCEPT ![c] = [state |-> s, consumed |-> produced]]
    /\ UNCHANGED <<rec, task, blog, link, page, worker, spent>>

----------------------------------------------------------------------------
(* The drain *)
Go(phase, got, names) ==
    worker' = [worker EXCEPT !.phase = phase, !.got = got, !.names = names]

(* claim_xhs_task: a due task, or one whose holder died. *)
Claim ==
    /\ worker.phase = "idle"
    /\ \E k \in DOMAIN task :
        /\ Live(task, k)
        /\ task' = SetTask(k, "running")
        /\ worker' = [Idle EXCEPT !.phase = "claimed", !.key = k]
    /\ UNCHANGED <<rec, capture, blog, link, page, spent>>

(* Each handler's prepare: skip, wait for the capture, or go on with the row. *)
Expected(k) == IF task[k].refetch THEN "imported" ELSE "importing"
Skips(k) ==
    CASE Kind(k) = "resolve" -> rec[k[2]].ustate \notin Resolvable \/ rec[k[2]].review = "excluded"
      [] Kind(k) = "blog"    -> rec[k[2]].import # Expected(k)
      [] OTHER               -> FALSE
Defers(k) == Kind(k) = "link" /\ capture[k[2]].state \notin CaptureTerminal
Prepare ==
    LET k == worker.key
    IN  /\ worker.phase = "claimed"
        /\ CASE Skips(k) -> task' = SetTask(k, "done") /\ worker' = Idle
             [] Defers(k) -> task' = SetTask(k, "pending") /\ worker' = Idle
             [] Kind(k) = "link" -> Go("record", None, {}) /\ UNCHANGED task
             [] Kind(k) = "resolve" -> Go("calling", None, {}) /\ UNCHANGED task
             [] OTHER -> Go("calling", rec[k[2]].url, {}) /\ UNCHANGED task
        /\ UNCHANGED <<rec, capture, blog, link, page, spent>>

(* The search answers a link or none; the fetch answers its link, and          *)
(* write_blog_version writes the next version, naming every recommendation     *)
(* linked to the blog and this one.                                           *)
Answer ==
    LET k == worker.key
    IN  /\ worker.phase = "calling"
        /\ \/ Kind(k) = "resolve" /\ \E u \in Urls \cup {None} : Go("record", u, {})
           \/ /\ Kind(k) = "blog"
              /\ rec[k[2]].url = worker.got
              /\ Go("record", worker.got, {r \in Blogs : link[r] = worker.got} \cup {k[2]})
        /\ UNCHANGED <<rec, task, capture, blog, link, page, spent>>

(* _fail: another try, or the end: a search shown as failed, an import as       *)
(* failed; a link task leaves its rows.                                       *)
Failed(k) ==
    CASE Kind(k) = "resolve" /\ rec[k[2]].ustate = "none" -> [rec EXCEPT ![k[2]].ustate = "failed"]
      [] Kind(k) = "blog" /\ rec[k[2]].import = "importing" -> [rec EXCEPT ![k[2]].import = "failed"]
      [] OTHER -> rec
Fails ==
    LET k == worker.key
    IN  /\ worker.phase = "calling"
        /\ \/ task' = SetTask(k, "pending") /\ UNCHANGED rec
           \/ task' = SetTask(k, "failed") /\ rec' = Failed(k)
        /\ worker' = Idle
        /\ UNCHANGED <<capture, blog, link, page, spent>>

(* _xhs_apply_resolve: a link that arrived meanwhile, or an exclusion, wins. *)
ApplyResolve(r, u) ==
    IF rec[r].ustate \notin Resolvable \/ rec[r].review = "excluded" THEN rec
    ELSE [rec EXCEPT ![r] = [@ EXCEPT !.url = u,
                                      !.ustate = IF u = None THEN "not_found" ELSE "resolved"]]

(* _xhs_apply_blog_import: a stale answer changes nothing. *)
BlogIsStale(k) == rec[k[2]].import # Expected(k)

(* _xhs_apply_capture_link: the rows still staged as this capture. *)
LinkRecs(c) == {r \in Papers : rec[r].capture = c /\ rec[r].import = "staged"}

(* _xhs_capture_source: the only one, or the one with the arXiv ID. *)
CaptureSource(c) ==
    LET s == capture[c].consumed
    IN  IF Cardinality(s) = 1 THEN CHOOSE x \in s : TRUE
        ELSE IF Wanted \in s THEN Wanted ELSE None

(* record_xhs_task_result: one transaction. *)
Record ==
    LET k == worker.key
        u == worker.got
        src == CaptureSource(k[2])
    IN  /\ worker.phase = "record"
        /\ task' = SetTask(k, "done")
        /\ worker' = Idle
        /\ CASE Kind(k) = "resolve" ->
                  /\ rec' = ApplyResolve(k[2], u)
                  /\ UNCHANGED <<blog, link>>
             [] Kind(k) = "blog" /\ ~BlogIsStale(k) ->
                  /\ blog' = [blog EXCEPT ![u] = Append(@, worker.names)]
                  /\ rec' = [rec EXCEPT ![k[2]] = [@ EXCEPT !.import = "imported", !.source = u]]
                  /\ link' = [link EXCEPT ![k[2]] = u]
             [] Kind(k) = "link" ->
                  /\ rec' = [r \in Recs |->
                               IF r \notin LinkRecs(k[2]) THEN rec[r]
                               ELSE IF src = None THEN [rec[r] EXCEPT !.import = "failed"]
                               ELSE [rec[r] EXCEPT !.import = "imported", !.source = src]]
                  /\ link' = [r \in Recs |-> IF r \in LinkRecs(k[2]) THEN src ELSE link[r]]
                  /\ UNCHANGED blog
             [] OTHER -> UNCHANGED <<rec, blog, link>>
        /\ TouchPage(rec')
        /\ UNCHANGED <<capture, spent>>

(* cortexd dies: the task's lease runs out. *)
Crash ==
    /\ worker.phase # "idle"
    /\ spent.crashes < MaxCrashes
    /\ spent' = [spent EXCEPT !.crashes = @ + 1]
    /\ worker' = Idle
    /\ UNCHANGED <<rec, task, capture, blog, link, page>>

----------------------------------------------------------------------------
Drain == Claim \/ Prepare \/ Answer \/ Fails \/ Record
Operator == Look \/ Import \/ Refetch \/ SetLink \/ Exclude \/ Restore \/ Retry
Next == Drain \/ Operator \/ Reidentify \/ CaptureEnds \/ Crash
Spec == Init /\ [][Next]_vars

----------------------------------------------------------------------------
(* Properties *)

(* The rows satisfy their table's CHECKs: a link exactly in the states that     *)
(* carry one, a source exactly for an imported row, a capture for a staged one  *)
(* (xhs_recommendations, _xhs_url_values).                                     *)
TypeOK ==
    \A r \in Recs :
        /\ rec[r].ustate \in UrlStates
        /\ (rec[r].url = None) = (rec[r].ustate \in Resolvable)
        /\ (rec[r].source # None) = (rec[r].import = "imported")
        /\ rec[r].import = "staged" => rec[r].capture # 0
        /\ r \in Papers => rec[r].url = None

(* An import that is under way has what ends it: a blog its own task, a staged   *)
(* paper a task for the very capture it was last staged as.  Reused captures,    *)
(* imports repeated while one waits, retries and crashes never leave a row       *)
(* importing for ever (_xhs_queue_blog_import, _xhs_queue_capture_link).          *)
ImportMovesOn ==
    \A r \in Recs :
        /\ rec[r].import = "importing" =>
              \E k \in BlogTasks(r) : Live(task, k) /\ ~task[k].refetch
        /\ rec[r].import = "staged" => Live(task, LinkKey(rec[r].capture))

(* An imported row is linked to its source, only an imported one is, and the     *)
(* source of a blog is the link it still shows, with a version that names the     *)
(* recommendation (_xhs_link_recommendation, write_blog_version).                *)
ImportedIsLinked ==
    \A r \in Recs :
        /\ link[r] = rec[r].source
        /\ r \in Blogs /\ rec[r].import = "imported" =>
              /\ rec[r].url = rec[r].source
              /\ r \in blog[rec[r].url][Len(blog[rec[r].url])]

(* A paper is linked to a source that its own capture produced, never to what     *)
(* an earlier or a later staging of it produced (_xhs_apply_capture_link).       *)
LinkedToItsCapture ==
    \A r \in Papers : rec[r].import = "imported" =>
        /\ rec[r].source \in capture[rec[r].capture].consumed
        /\ Cardinality(capture[rec[r].capture].consumed) > 1 => rec[r].source = Wanted

(* A row the operator excluded is never imported and no search changes it.       *)
ExcludedStaysOut ==
    \A r \in Recs : rec[r].review = "excluded" => rec[r].import \notin Held

(* Only the operator's own command replaces a link the operator set, and no        *)
(* step at all changes the link of a blog while it is imported or after            *)
(* (_xhs_upsert_recommendation, _xhs_apply_resolve, set_xhs_recommendation_link).  *)
LinkIsKept ==
    \A r \in Blogs :
       /\ rec[r].ustate = "operator_set" => rec'[r].ustate = "operator_set"
       /\ rec[r].import \in Held => rec'[r].url = rec[r].url

(* An import command starts only imports of the links its page showed: a link      *)
(* that changed under the page refuses the command (expected_revision is the        *)
(* note's; every change of a link moves it).                                       *)
ImportsWhatWasSeen ==
    \A r \in Blogs :
       Import /\ rec[r].import # "importing" /\ rec'[r].import = "importing"
           => rec[r].url = page.url[r]
=============================================================================
