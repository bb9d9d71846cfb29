---------------------------- MODULE XhsPipeline ----------------------------
(***************************************************************************)
(* The acquisition pipeline of the XHS plugin: list pages find notes, each *)
(* note's detail, image downloads, transcriptions, identification and      *)
(* saves are tasks of one table, and a drain claims them one at a time     *)
(* under a lease (control/xhs_store.py, xhs/drain.py, xhs/layout.py).      *)
(*                                                                         *)
(* `db` is the Control database: every operator from database to database  *)
(* below is (part of) one transaction.  `staged` and `disk` are the files  *)
(* of the notes root.  A drain unit is four steps outside any transaction  *)
(* (prepare, the child's answer, finish, record), with the operator's      *)
(* commands, another drain and crashes between any two.                    *)
(*                                                                         *)
(* Abstracted: a task's due time (a pending task may be claimed whenever   *)
(* its back-off may have passed), a revision fence is "the lease is still  *)
(* this worker's", hashes are the values they commit to, and one link      *)
(* stands for what the operator may edit in a saved note.                  *)
(***************************************************************************)
EXTENDS Naturals, Sequences, FiniteSets, FiniteSetsExt, TLC

CONSTANTS
    Workers,     \* drains that may hold a lease
    Notes,       \* note ids of one blogger
    Ordinals,    \* image positions of a note
    Texts,       \* transcriptions a provider may answer
    Links,       \* links the operator may set
    Failures,    \* failure categories a child call may answer
    Videos,      \* BOOLEAN: a listed note may have an unsupported type
    Stalls,      \* BOOLEAN: a live holder's lease may expire
    MaxRetries,  \* len(XHS_RETRY_BACKOFF_SECONDS)
    MaxPages, MaxScans, MaxVersions, MaxCrashes, MaxEdits, MaxReleases  \* bounds

VARIABLES db, staged, disk, worker, spent

vars == <<db, staged, disk, worker, spent>>

None == "none"
NoOne == "no one"
Gone == "gone"
Retryable == {"transient"}
NoteOrder == <<"detail_ok", "assets_done", "ocr_done", "identified", "saved">>
StageOf(s) == CHOOSE i \in DOMAIN NoteOrder : NoteOrder[i] = s
InPipeline(s) == \E i \in DOMAIN NoteOrder : NoteOrder[i] = s

----------------------------------------------------------------------------
(* Task keys: the kind, then its subject. *)
ScanKey(s, p) == <<"scan", s, p>>
DetailKey(n) == <<"detail", n>>
DownloadKey(n, o) == <<"download", n, o>>
OcrKey(n, o) == <<"ocr", n, o>>
IdentifyKey(n, input) == <<"identify", n, input>>
SaveKey(n, v) == <<"save", n, v>>

Kind(k) == k[1]

FreshTask == [state |-> "pending", attempts |-> 0, error |-> None, holder |-> NoOne,
              result |-> None, url |-> TRUE, refreshed |-> FALSE, full |-> FALSE]
FreshImage == [dl |-> "pending", ocr |-> "pending", text |-> None]

(* The rows before the first scan of a followed blogger. *)
EmptyDb == [blogger |-> [followed |-> TRUE, outcome |-> None],
            note |-> [n \in Notes |-> [state |-> "unseen", ver |-> 0, error |-> FALSE]],
            image |-> [n \in Notes |-> <<>>],
            link |-> [n \in Notes |-> None],
            task |-> <<>>,
            bound |-> [n \in Notes |-> <<>>]]

Idle == [phase |-> "idle", key |-> None, act |-> None, ans |-> None]

Init == /\ db = EmptyDb
        /\ staged = [n \in Notes |-> [o \in Ordinals |-> None]]
        /\ disk = [n \in Notes |-> <<>>]
        /\ worker = [w \in Workers |-> Idle]
        /\ spent = [scans |-> 0, crashes |-> 0, edits |-> 0, releases |-> 0]

----------------------------------------------------------------------------
(* The task table. *)
Exists(d, k) == k \in DOMAIN d.task
InState(d, k, states) == Exists(d, k) /\ d.task[k].state \in states
Live(d, k) == InState(d, k, {"pending", "running"})

(* _xhs_create_task: once per subject key; a repeat changes nothing. *)
CreateWith(d, k, t) ==
    IF Exists(d, k) THEN d ELSE [d EXCEPT !.task = @ @@ (k :> t)]
CreateTask(d, k) == CreateWith(d, k, FreshTask)

(* _xhs_reset_task: due again with a fresh budget; the callers first see    *)
(* that it is not running.                                                 *)
ResetTask(d, k) ==
    [d EXCEPT !.task[k] = [@ EXCEPT !.state = "pending", !.attempts = 0,
                                    !.error = None, !.result = None]]

(* _xhs_complete_task and _xhs_task_transition to done. *)
CompleteTask(d, k, summary) ==
    [d EXCEPT !.task[k] = [@ EXCEPT !.state = "done", !.holder = NoOne,
                                    !.error = None, !.result = summary]]

(* _xhs_fail_task: a retryable failure backs off until its budget is spent. *)
FailTask(d, k, cat) ==
    LET backsOff == cat \in Retryable /\ d.task[k].attempts - 1 < MaxRetries
    IN  [d EXCEPT !.task[k] = [@ EXCEPT !.state = IF backsOff THEN "pending" ELSE "failed",
                                        !.holder = NoOne, !.error = cat, !.result = None]]

(* release_xhs_task: returned unrun, its attempt given back. *)
ReleaseTask(d, k) ==
    [d EXCEPT !.task[k] = [@ EXCEPT !.state = "pending", !.holder = NoOne,
                                    !.attempts = IF @ = 0 THEN 0 ELSE @ - 1]]

(* _xhs_running_task: the fence of every record. *)
Holds(w, k) == InState(db, k, {"running"}) /\ db.task[k].holder = w

----------------------------------------------------------------------------
(* Notes and images. *)
SetNote(d, n, s) == [d EXCEPT !.note[n].state = s]

(* _xhs_fail_image_download for a set of ordinals. *)
FailDownloads(d, n, os) ==
    [d EXCEPT !.image[n] = [o \in DOMAIN @ |-> IF o \in os THEN [@[o] EXCEPT !.dl = "failed"]
                                               ELSE @[o]]]

(* _xhs_awaiting_refresh: expired downloads owed one fresh detail. *)
AwaitingRefresh(d, n) ==
    {o \in DOMAIN d.image[n] :
        /\ InState(d, DownloadKey(n, o), {"failed"})
        /\ d.task[DownloadKey(n, o)].error = "url_expired"
        /\ ~d.task[DownloadKey(n, o)].refreshed
        /\ d.image[n][o].dl = "pending"}

(* _xhs_identify_input: the usable transcriptions, each at its ordinal. *)
IdentifyInput(d, n) ==
    {<<o, d.image[n][o].text>> :
        o \in {p \in DOMAIN d.image[n] : d.image[n][p].dl = "ok" /\ d.image[n][p].ocr = "ok"}}

(* _xhs_queue_save: the next version's task; a finished one is due again. *)
QueueSave(d, n) ==
    LET k == SaveKey(n, d.note[n].ver + 1)
    IN  IF InState(d, k, {"done", "failed"}) THEN ResetTask(d, k) ELSE CreateTask(d, k)

(* _xhs_queue_identify: keyed by its input; an input already answered goes   *)
(* straight to the save, and a stale, skipped or failed answer runs again.   *)
QueueIdentify(d, n) ==
    LET k == IdentifyKey(n, IdentifyInput(d, n))
    IN  IF InState(d, k, {"done"}) /\ d.task[k].result = "ok"
        THEN QueueSave(SetNote(d, n, "identified"), n)
        ELSE IF InState(d, k, {"done", "failed"}) THEN ResetTask(d, k) ELSE CreateTask(d, k)

(* _xhs_advance_note: on once every image is final for the stage. *)
Advance(d, n) ==
    LET imgs == d.image[n]
        fetched == \A o \in DOMAIN imgs : imgs[o].dl # "pending"
        read == \A o \in DOMAIN imgs : imgs[o].dl = "failed" \/ imgs[o].ocr # "pending"
        d1 == IF d.note[n].state = "detail_ok" /\ fetched THEN SetNote(d, n, "assets_done") ELSE d
    IN  IF d1.note[n].state = "assets_done" /\ read
        THEN QueueIdentify(SetNote(d1, n, "ocr_done"), n)
        ELSE d1

(* _xhs_save_inputs_sha256: what a saved version renders. *)
SaveInputs(d, n) == [images |-> d.image[n], link |-> d.link[n]]

----------------------------------------------------------------------------
(* What a recorded answer does, by kind (record_xhs_task_result).           *)

(* _xhs_apply_list_page: unseen notes and their details, the next page, and  *)
(* the blogger's answer.                                                    *)
ApplyListPage(d, k, a) ==
    LET unseen == {n \in DOMAIN a.notes : d.note[n].state = "unseen"}
        d1 == [d EXCEPT !.note = [n \in Notes |->
                 IF n \notin unseen THEN @[n]
                 ELSE [@[n] EXCEPT !.state = IF a.notes[n] = "normal" THEN "discovered"
                                             ELSE "unsupported"]]]
        d2 == FoldSet(LAMBDA n, e : CreateTask(e, DetailKey(n)), d1,
                      {n \in unseen : a.notes[n] = "normal"})
        continues == a.more /\ k[3] < MaxPages /\ (unseen \ a.sticky # {} \/ d.task[k].full)
        d3 == IF continues
              THEN CreateWith(d2, ScanKey(k[2], k[3] + 1), [FreshTask EXCEPT !.full = d.task[k].full])
              ELSE d2
    IN  [d3 EXCEPT !.blogger.outcome = IF unseen # {} \/ k[3] > 1 THEN "ok" ELSE "no_new_notes"]

(* _xhs_apply_detail, a refresh: each waiting image gets its fresh URL or fails. *)
ApplyRefresh(d, n, a) ==
    LET waiting == AwaitingRefresh(d, n)
        found == {o \in waiting : o \in DOMAIN a.images /\ a.images[o]}
        d1 == FoldSet(LAMBDA o, e : [ResetTask(e, DownloadKey(n, o)) EXCEPT
                                        !.task[DownloadKey(n, o)].url = TRUE,
                                        !.task[DownloadKey(n, o)].refreshed = TRUE],
                      d, found)
    IN  Advance(FailDownloads(d1, n, waiting \ found), n)

(* _xhs_apply_detail, the first: the images and their downloads; one without  *)
(* a URL keeps its place as a failed image with a failed task.               *)
ApplyFirstDetail(d, n, a) ==
    LET download(o) == IF a.images[o] THEN FreshTask
                       ELSE [FreshTask EXCEPT !.url = FALSE, !.state = "failed", !.error = "invalid"]
        d1 == [SetNote(d, n, "detail_ok") EXCEPT
                 !.image[n] = [o \in DOMAIN a.images |->
                                 [FreshImage EXCEPT !.dl = IF a.images[o] THEN @ ELSE "failed"]]]
        d2 == FoldSet(LAMBDA o, e : CreateWith(e, DownloadKey(n, o), download(o)), d1,
                      DOMAIN a.images)
    IN  IF a.video THEN SetNote(d, n, "unsupported") ELSE Advance(d2, n)

(* _xhs_apply_download: the image is here; its transcription is next. *)
ApplyDownload(d, n, o) ==
    Advance(CreateTask([d EXCEPT !.image[n][o].dl = "ok"], OcrKey(n, o)), n)

(* _xhs_apply_ocr: a transcription of an image that no longer waits is stale. *)
ApplyOcr(d, n, o, text) ==
    IF d.image[n][o].ocr # "pending" THEN d
    ELSE Advance([d EXCEPT !.image[n][o] = [@ EXCEPT !.ocr = "ok", !.text = text]], n)

(* _xhs_apply_identify: only for the input the note still has. *)
IdentifyIsStale(d, k, a) ==
    a = "stale" \/ d.note[k[2]].state # "ocr_done" \/ k[3] # IdentifyInput(d, k[2])
ApplyIdentify(d, k, a) ==
    IF IdentifyIsStale(d, k, a) THEN d
    ELSE QueueSave([SetNote(d, k[2], "identified") EXCEPT !.note[k[2]].error = FALSE], k[2])

(* _xhs_apply_save: binds the version just written; a change since its       *)
(* inputs were read queues the next version.                                *)
SaveIsStale(d, k) ==
    d.note[k[2]].state \notin {"identified", "saved"} \/ d.note[k[2]].ver + 1 # k[3]
(* Mutant of ApplySave: the inputs are not compared again. *)
ApplySave_NoCompare(d, k, a) ==
    IF SaveIsStale(d, k) THEN d
    ELSE [d EXCEPT !.note[k[2]] = [state |-> "saved", ver |-> k[3], error |-> FALSE],
                   !.bound[k[2]] = Append(@, a.content)]

ApplySave(d, k, a) ==
    LET n == k[2]
        d1 == [d EXCEPT !.note[n] = [state |-> "saved", ver |-> k[3], error |-> FALSE],
                        !.bound[n] = Append(@, a.content)]
    IN  IF SaveIsStale(d, k) THEN d
        ELSE IF a.inputs # SaveInputs(d1, n) THEN QueueSave(d1, n) ELSE d1

(* The summary a task keeps: whether its answer still counted. *)
Summary(d, k, a) ==
    IF \/ Kind(k) = "identify" /\ IdentifyIsStale(d, k, a)
       \/ Kind(k) = "save" /\ SaveIsStale(d, k)
    THEN "stale" ELSE "ok"

ApplyResult(d, k, a) ==
    CASE Kind(k) = "scan"     -> ApplyListPage(d, k, a)
      [] Kind(k) = "detail"   -> IF d.note[k[2]].state = "discovered"
                                 THEN ApplyFirstDetail(d, k[2], a) ELSE ApplyRefresh(d, k[2], a)
      [] Kind(k) = "download" -> ApplyDownload(d, k[2], k[3])
      [] Kind(k) = "ocr"      -> ApplyOcr(d, k[2], k[3], a)
      [] Kind(k) = "identify" -> ApplyIdentify(d, k, a)
      [] Kind(k) = "save"     -> ApplySave(d, k, a)

----------------------------------------------------------------------------
(* What a failed task means for its rows (_xhs_apply_failure).               *)

(* _xhs_request_refresh: the detail is due once more unless it is running. *)
CanRefresh(d, n) == InState(d, DetailKey(n), {"pending", "done", "failed"})
RequestRefresh(d, n) == IF Live(d, DetailKey(n)) THEN d ELSE ResetTask(d, DetailKey(n))

DetailFailed(d, n) ==
    IF d.note[n].state = "discovered"
    THEN [SetNote(d, n, "failed") EXCEPT !.note[n].error = TRUE]
    ELSE Advance(FailDownloads(d, n, AwaitingRefresh(d, n)), n)

DownloadFailed(d, k, cat) ==
    LET n == k[2]
        o == k[3]
    IN  IF d.image[n][o].dl # "pending" THEN d
        ELSE IF cat = "url_expired" /\ ~d.task[k].refreshed /\ CanRefresh(d, n)
        THEN RequestRefresh(d, n)
        ELSE Advance(FailDownloads(d, n, {o}), n)

OcrFailed(d, n, o) ==
    IF d.image[n][o].ocr # "pending" THEN d
    ELSE Advance([d EXCEPT !.image[n][o].ocr = "failed"], n)

ApplyFailure(d, k, cat) ==
    IF Kind(k) = "scan" THEN [d EXCEPT !.blogger.outcome = "failed"]
    ELSE IF d.task[k].state # "failed" THEN d
    ELSE CASE Kind(k) = "detail"   -> DetailFailed(d, k[2])
           [] Kind(k) = "download" -> DownloadFailed(d, k, cat)
           [] Kind(k) = "ocr"      -> OcrFailed(d, k[2], k[3])
           [] OTHER                -> [d EXCEPT !.note[k[2]].error = TRUE]

----------------------------------------------------------------------------
(* One drain unit. *)
Step(w, phase, act, ans) ==
    worker' = [worker EXCEPT ![w] = [@ EXCEPT !.phase = phase, !.act = act, !.ans = ans]]
Rest(w) == worker' = [worker EXCEPT ![w] = Idle]
Key(w) == worker[w].key

(* The lease of a running task may have passed. *)
Expired(w, k) == db.task[k].holder = Gone \/ (Stalls /\ db.task[k].holder # w)

(* claim_xhs_task: a due task, or one whose lease expired; an expired one     *)
(* whose budget is spent fails instead, and the claim looks further.          *)
Claim(w) ==
    /\ worker[w].phase = "idle"
    /\ \E k \in DOMAIN db.task :
        /\ \/ db.task[k].state = "pending"
           \/ db.task[k].state = "running" /\ Expired(w, k)
        /\ IF db.task[k].state = "running" /\ db.task[k].attempts > MaxRetries
           THEN /\ db' = ApplyFailure([db EXCEPT !.task[k] =
                            [@ EXCEPT !.state = "failed", !.holder = NoOne,
                                      !.error = "transient"]], k, "transient")
                /\ UNCHANGED worker
           ELSE /\ db' = [db EXCEPT !.task[k] = [@ EXCEPT !.state = "running", !.holder = w,
                                                          !.attempts = @ + 1]]
                /\ worker' = [worker EXCEPT ![w] = [Idle EXCEPT !.phase = "claimed", !.key = k]]
    /\ UNCHANGED <<staged, disk, spent>>

(* transcription(): the staged text must hash to the recorded one. *)
Readable(n) == \A o \in DOMAIN db.image[n] :
    (db.image[n][o].dl = "ok" /\ db.image[n][o].ocr = "ok") => staged[n][o] = db.image[n][o].text

(* identify_inputs: the note still has the input the task is keyed by. *)
SameInput(k) == db.note[k[2]].state = "ocr_done" /\ k[3] = IdentifyInput(db, k[2])

(* Each handler's prepare: is there something left to do? *)
Wanted(k) ==
    CASE Kind(k) = "scan"     -> db.blogger.followed
      [] Kind(k) = "detail"   -> \/ db.note[k[2]].state = "discovered"
                                 \/ AwaitingRefresh(db, k[2]) # {}
      [] Kind(k) = "download" -> db.image[k[2]][k[3]].dl = "pending"
      [] Kind(k) = "ocr"      -> db.image[k[2]][k[3]].dl = "ok" /\ db.image[k[2]][k[3]].ocr = "pending"
      [] Kind(k) = "identify" -> SameInput(k)
      [] Kind(k) = "save"     -> /\ db.note[k[2]].state \in {"identified", "saved"}
                                 /\ db.note[k[2]].ver < k[3]

Prepare(w) ==
    /\ worker[w].phase = "claimed"
    /\ LET k == Key(w)
       IN  CASE ~Wanted(k) -> Step(w, "record", "skip", None)
             [] Wanted(k) /\ Kind(k) = "download" /\ ~db.task[k].url ->
                    Step(w, "record", "fail", "url_expired")
             [] Wanted(k) /\ Kind(k) = "identify" /\ ~Readable(k[2]) ->
                    Step(w, "record", "fail", "invalid")
             [] OTHER -> Step(w, "ready", None, None)
    /\ UNCHANGED <<db, staged, disk, spent>>

(* What a child may answer.  A save makes no call: it reads its inputs.      *)
Answers(k) ==
    CASE Kind(k) = "scan"     -> UNION {
             [notes : [ns -> IF Videos THEN {"normal", "video"} ELSE {"normal"}],
              more : BOOLEAN, sticky : {{}, ns}] : ns \in SUBSET Notes}
      [] Kind(k) = "detail"   ->
             [images : UNION {[os -> BOOLEAN] : os \in SUBSET Ordinals},
              video : IF Videos THEN BOOLEAN ELSE {FALSE}]
      [] Kind(k) = "ocr"      -> Texts
      [] Kind(k) = "save"     -> {SaveInputs(db, k[2])}
      [] OTHER                -> {"ok"}

(* The child returns an answer of the right shape. *)
Answer(w) ==
    /\ worker[w].phase = "ready"
    /\ \E a \in Answers(Key(w)) : Step(w, "answered", None, a)
    /\ UNCHANGED <<db, staged, disk, spent>>

(* The child fails, its answer has another shape, or a save's own file write *)
(* fails.                                                                  *)
AnswerFails(w) ==
    /\ worker[w].phase = "ready"
    /\ \E cat \in Failures :
        /\ cat = "url_expired" => Kind(Key(w)) = "download"
        /\ Step(w, "record", "fail", cat)
    /\ UNCHANGED <<db, staged, disk, spent>>

(* The provider is at its cap or the runtime gate closed: the task is        *)
(* returned unrun.                                                          *)
Release(w) ==
    /\ worker[w].phase = "ready"
    /\ Kind(Key(w)) # "save"
    /\ spent.releases < MaxReleases
    /\ spent' = [spent EXCEPT !.releases = @ + 1]
    /\ db' = IF Holds(w, Key(w)) THEN ReleaseTask(db, Key(w)) ELSE db
    /\ Rest(w)
    /\ UNCHANGED <<staged, disk>>

(* write_version: a directory with the same content is reused; otherwise the *)
(* guard runs under the directory lock before anything is replaced.          *)
SameTree(k, content) == k[3] <= Len(disk[k[2]]) /\ disk[k[2]][k[3]] = content
GuardHolds(w, k) == Holds(w, k)
Registered(k) == Len(db.bound[k[2]]) >= k[3]
WriteVersion(k, content) ==
    disk' = [disk EXCEPT ![k[2]] = [v \in 1..(IF k[3] > Len(@) THEN k[3] ELSE Len(@)) |->
                                      IF v = k[3] THEN content ELSE @[v]]]

(* write_note_version reads the state it renders after it read the inputs'     *)
(* digest, and checks every file it copies against its recorded hash.          *)
Render(w) ==
    LET n == Key(w)[2]
    IN  IF Readable(n)
        THEN Step(w, "rendered", None, [inputs |-> worker[w].ans, content |-> SaveInputs(db, n)])
        ELSE Step(w, "record", "fail", "invalid")

(* Each handler's finish: private files before the record. *)
Finish(w) ==
    /\ worker[w].phase = "answered"
    /\ LET k == Key(w)
           a == worker[w].ans
       IN  CASE Kind(k) = "ocr" -> /\ staged' = [staged EXCEPT ![k[2]][k[3]] = a]
                                   /\ Step(w, "record", "result", a)
                                   /\ UNCHANGED disk
             [] Kind(k) = "identify" -> /\ Step(w, "record", "result",
                                                IF SameInput(k) THEN "ok" ELSE "stale")
                                        /\ UNCHANGED <<staged, disk>>
             [] Kind(k) = "save" -> Render(w) /\ UNCHANGED <<staged, disk>>
             [] OTHER -> Step(w, "record", "result", a) /\ UNCHANGED <<staged, disk>>
    /\ UNCHANGED <<db, spent>>

(* The rendered version reaches its directory, or the guard stops it: a lost  *)
(* lease ends the unit, a version registered meanwhile is a transient failure. *)
Publish(w) ==
    /\ worker[w].phase = "rendered"
    /\ LET k == Key(w)
           a == worker[w].ans
       IN  CASE SameTree(k, a.content) -> Step(w, "record", "result", a) /\ UNCHANGED disk
             [] ~SameTree(k, a.content) /\ ~GuardHolds(w, k) -> Rest(w) /\ UNCHANGED disk
             [] ~SameTree(k, a.content) /\ GuardHolds(w, k) /\ Registered(k) ->
                    Step(w, "record", "fail", "transient") /\ UNCHANGED disk
             [] OTHER -> Step(w, "record", "result", a) /\ WriteVersion(k, a.content)
    /\ UNCHANGED <<db, staged, spent>>

(* _record, _fail and _skip: one transaction fenced by the lease; a holder    *)
(* that lost it changes nothing.                                            *)
Record(w) ==
    /\ worker[w].phase = "record"
    /\ LET k == Key(w)
           a == worker[w].ans
       IN  db' = CASE ~Holds(w, k) -> db
                   [] Holds(w, k) /\ worker[w].act = "skip" -> CompleteTask(db, k, "skipped")
                   [] Holds(w, k) /\ worker[w].act = "fail" -> ApplyFailure(FailTask(db, k, a), k, a)
                   [] OTHER -> CompleteTask(ApplyResult(db, k, a), k, Summary(db, k, a))
    /\ Rest(w)
    /\ UNCHANGED <<staged, disk, spent>>

(* The daemon dies: its unit is gone and the lease runs out by itself. *)
Crash(w) ==
    /\ worker[w].phase # "idle"
    /\ spent.crashes < MaxCrashes
    /\ spent' = [spent EXCEPT !.crashes = @ + 1]
    /\ db' = IF Holds(w, Key(w)) THEN [db EXCEPT !.task[Key(w)].holder = Gone] ELSE db
    /\ Rest(w)
    /\ UNCHANGED <<staged, disk>>

----------------------------------------------------------------------------
(* The schedule's pull and the operator's commands. *)
Edit == /\ spent.edits < MaxEdits
        /\ spent' = [spent EXCEPT !.edits = @ + 1]
        /\ UNCHANGED <<staged, disk, worker>>

(* start_xhs_scans: page 1, unless the last scan still has a page to run. *)
StartScan ==
    /\ spent.scans < MaxScans
    /\ db.blogger.followed
    /\ \A k \in DOMAIN db.task : Kind(k) = "scan" => ~Live(db, k)
    /\ \E full \in BOOLEAN :
        db' = CreateWith(db, ScanKey(spent.scans + 1, 1), [FreshTask EXCEPT !.full = full])
    /\ spent' = [spent EXCEPT !.scans = @ + 1]
    /\ UNCHANGED <<staged, disk, worker>>

(* follow_xhs_blogger and unfollow_xhs_blogger. *)
Follow == Edit /\ db' = [db EXCEPT !.blogger.followed = ~@]

(* _xhs_retry_image: the failed half of one image is due again and the note   *)
(* goes back to the stage that waits for it.                                *)
RetryKey(d, n, o) == IF d.image[n][o].dl = "failed" THEN DownloadKey(n, o) ELSE OcrKey(n, o)
RetryStage(d, n, o) == IF d.image[n][o].dl = "failed" THEN "detail_ok" ELSE "assets_done"
CanRetryImage(d, n, o) ==
    /\ InPipeline(d.note[n].state)
    /\ o \in DOMAIN d.image[n]
    /\ d.image[n][o].dl = "failed" \/ d.image[n][o].ocr = "failed"
    /\ InState(d, RetryKey(d, n, o), {"pending", "done", "failed"})
RetryImage(d, n, o) ==
    LET k == RetryKey(d, n, o)
        stage == RetryStage(d, n, o)
        d1 == [ResetTask(d, k) EXCEPT
                 !.task[k].refreshed = FALSE,
                 !.image[n][o] = [@ EXCEPT !.dl = IF @ = "failed" THEN "pending" ELSE @,
                                           !.ocr = "pending", !.text = None]]
    IN  IF StageOf(d.note[n].state) > StageOf(stage)
        THEN [SetNote(d1, n, stage) EXCEPT !.note[n].error = FALSE] ELSE d1

(* retry_xhs_image *)
RetryOneImage ==
    /\ Edit
    /\ \E n \in Notes, o \in Ordinals : CanRetryImage(db, n, o) /\ db' = RetryImage(db, n, o)

(* _xhs_retry_task: only a failed task that still matches its rows. *)
RetryTask(d, k) ==
    LET n == k[2]
        cleared(e) == [e EXCEPT !.note[n].error = FALSE]
    IN  CASE Kind(k) = "scan" -> ResetTask(d, k)
          [] Kind(k) = "download" ->
                 IF d.image[n][k[3]].dl = "failed" /\ CanRetryImage(d, n, k[3])
                 THEN RetryImage(d, n, k[3]) ELSE d
          [] Kind(k) = "ocr" ->
                 IF /\ d.image[n][k[3]].dl = "ok" /\ d.image[n][k[3]].ocr = "failed"
                    /\ CanRetryImage(d, n, k[3])
                 THEN RetryImage(d, n, k[3]) ELSE d
          [] Kind(k) = "detail" ->
                 IF d.note[n].state = "failed"
                 THEN ResetTask(cleared(SetNote(d, n, "discovered")), k) ELSE d
          [] Kind(k) = "identify" ->
                 IF d.note[n].state = "ocr_done" THEN ResetTask(cleared(d), k) ELSE d
          [] Kind(k) = "save" ->
                 IF d.note[n].state \in {"identified", "saved"} /\ d.note[n].ver < k[3]
                 THEN ResetTask(cleared(d), k) ELSE d

(* retry_failed_xhs_tasks *)
RetryFailed ==
    LET failed == {k \in DOMAIN db.task : db.task[k].state = "failed"}
    IN  /\ Edit
        /\ failed # {}
        /\ db' = FoldSet(LAMBDA k, d : RetryTask(d, k), db, failed)

(* set_xhs_recommendation_link, of a note saved at least once. *)
SetLink ==
    /\ Edit
    /\ \E n \in Notes, l \in Links :
        /\ db.note[n].ver > 0
        /\ db.note[n].ver < MaxVersions
        /\ l # db.link[n]
        /\ LET d == [db EXCEPT !.link[n] = l]
           IN  db' = IF d.note[n].state \in {"identified", "saved"} THEN QueueSave(d, n) ELSE d

----------------------------------------------------------------------------
Unit(w) == Claim(w) \/ Prepare(w) \/ Answer(w) \/ AnswerFails(w) \/ Finish(w) \/ Publish(w) \/ Record(w)

Next == \/ \E w \in Workers : Unit(w) \/ Release(w) \/ Crash(w)
        \/ StartScan \/ Follow \/ RetryOneImage \/ RetryFailed \/ SetLink

Spec == Init /\ [][Next]_vars

(* cortexd's tick keeps draining: a held unit goes on and a due task is       *)
(* claimed.  A gate that opens again, or the next UTC day, lets a returned    *)
(* task run at last.                                                        *)
FairSpec == /\ Spec
            /\ \A w \in Workers : WF_vars(Unit(w))
----------------------------------------------------------------------------
(* Properties *)

TaskRecords == [state : {"pending", "running", "done", "failed"}, attempts : 0..(MaxRetries + 1),
                error : Failures \cup {None, "invalid", "transient", "url_expired"},
                holder : Workers \cup {NoOne, Gone}, result : {None, "ok", "stale", "skipped"},
                url : BOOLEAN, refreshed : BOOLEAN, full : BOOLEAN]
ImageRecords == [dl : {"pending", "ok", "failed"}, ocr : {"pending", "ok", "failed"},
                 text : Texts \cup {None}]

(* The rows have their columns' types, a running task and only a running one  *)
(* has a holder, and no task runs more often than its budget allows before    *)
(* the operator resets it (claim_xhs_task, _xhs_fail_task).                   *)
TypeOK ==
    /\ db.blogger \in [followed : BOOLEAN, outcome : {None, "ok", "no_new_notes", "failed"}]
    /\ \A n \in Notes :
        /\ db.note[n].state \in {"unseen", "discovered", "unsupported", "failed"}
                               \cup {NoteOrder[i] : i \in DOMAIN NoteOrder}
        /\ db.note[n].ver \in 0..MaxVersions
        /\ DOMAIN db.image[n] \subseteq Ordinals
        /\ \A o \in DOMAIN db.image[n] : db.image[n][o] \in ImageRecords
    /\ \A k \in DOMAIN db.task :
        /\ db.task[k] \in TaskRecords
        /\ (db.task[k].state = "running") = (db.task[k].holder # NoOne)
    /\ \A w \in Workers : worker[w].phase \in {"idle", "claimed", "ready", "answered", "rendered", "record"}

Waits(n, o) ==
    \/ Live(db, DownloadKey(n, o))
    \/ o \in AwaitingRefresh(db, n) /\ Live(db, DetailKey(n))
Owed(n, k) == Live(db, k) \/ (InState(db, k, {"failed"}) /\ db.note[n].error)
(* A note on its way always has what moves it on: a task that is due or       *)
(* running, or a failed one with the failure recorded on the note for the     *)
(* operator to retry.  No interleaving of expired URLs, refreshes, image       *)
(* retries, stale answers and crashes leaves a note waiting for nothing       *)
(* (_xhs_advance_note, _xhs_request_refresh, _xhs_queue_identify).            *)
NoteMovesOn ==
    \A n \in Notes :
        LET imgs == db.image[n]
            state == db.note[n].state
        IN  /\ state = "discovered" => Live(db, DetailKey(n))
            /\ state = "detail_ok" =>
                  /\ \E o \in DOMAIN imgs : imgs[o].dl = "pending"
                  /\ \A o \in DOMAIN imgs : imgs[o].dl = "pending" => Waits(n, o)
            /\ state \in {"detail_ok", "assets_done"} =>
                  \A o \in DOMAIN imgs :
                      imgs[o].dl = "ok" /\ imgs[o].ocr = "pending" => Live(db, OcrKey(n, o))
            /\ state = "assets_done" => \E o \in DOMAIN imgs : imgs[o].dl = "ok" /\ imgs[o].ocr = "pending"
            /\ state = "ocr_done" => Owed(n, IdentifyKey(n, IdentifyInput(db, n)))
            /\ state = "identified" => Owed(n, SaveKey(n, db.note[n].ver + 1))

(* Every bound version is on disk exactly as it was bound, whatever a crash   *)
(* between the rename and the record, a lost lease or a second writer left    *)
(* in the directory (write_version, publish_guard, _append_content_binding).  *)
BoundIsOnDisk ==
    \A n \in Notes :
        /\ Len(db.bound[n]) = db.note[n].ver
        /\ \A v \in DOMAIN db.bound[n] : v \in DOMAIN disk[n] /\ disk[n][v] = db.bound[n][v]

(* A saved note shows the images and the link it has now, or its next         *)
(* version is owed: an edit made while a save was being written is never       *)
(* lost (write_note_version reads its inputs first, _xhs_apply_save compares). *)
SavedIsCurrent ==
    \A n \in Notes :
        db.note[n].state = "saved" /\ ~Owed(n, SaveKey(n, db.note[n].ver + 1))
            => db.bound[n][db.note[n].ver] = SaveInputs(db, n)

(* A transcription that counts is the staged one (OcrHandler.finish writes    *)
(* before the record; identify and save read it back by its hash).            *)
TranscriptionStaged == \A n \in Notes : Readable(n)

(* Once found, a note ends saved with nothing more to write, refused, or with  *)
(* the failure of a task the operator may retry: it never circles for ever      *)
(* between its stages.                                                         *)
Settled(n) ==
    /\ \A k \in DOMAIN db.task : Kind(k) # "scan" /\ k[2] = n => ~Live(db, k)
    /\ \/ db.note[n].state \in {"unsupported", "failed", "saved"}
       \/ db.note[n].state \in {"ocr_done", "identified"} /\ db.note[n].error
NoteSettles == \A n \in Notes : (db.note[n].state # "unseen") ~> Settled(n)
=============================================================================
