-------------------------------- MODULE MCXhs ---------------------------------
(*****************************************************************************)
(* The XHS drain on small instances: the notes and their tasks               *)
(* (XhsPipeline), the import of what a note names (XhsImports) and the paid  *)
(* review of what stays unresolved (XhsFallback). A behaviour picks one part *)
(* and moves only that one.                                                  *)
(*****************************************************************************)
EXTENDS Naturals

VARIABLE part      \* the component, and the instance of it, that runs
VARIABLES          \* XhsPipeline
    db, staged, disk, notesWorker, notesSpent
VARIABLES          \* XhsImports
    importsRec, task, capture, blog, link, page, importsWorker, importsSpent
VARIABLES          \* XhsFallback
    reviewRec, run, item, usage, day, reviewWorker, billed, reviewSpent

\* A note with two images whose links may expire.
Noted == INSTANCE XhsPipeline WITH
    Workers <- {"w1"}, Notes <- {"n1"}, Ordinals <- {1, 2}, Texts <- {"t1"},
    Links <- {"l1"}, Failures <- {"transient", "url_expired"},
    Videos <- FALSE, Stalls <- FALSE, MaxRetries <- 0, MaxPages <- 1,
    MaxScans <- 1, MaxVersions <- 2, MaxCrashes <- 0, MaxEdits <- 1,
    MaxReleases <- 0, worker <- notesWorker, spent <- notesSpent

\* A note that is edited under the drain.
Edits == INSTANCE XhsPipeline WITH
    Workers <- {"w1"}, Notes <- {"n1"}, Ordinals <- {1},
    Texts <- {"t1", "t2"}, Links <- {"l1"},
    Failures <- {"transient", "url_expired"}, Videos <- FALSE,
    Stalls <- FALSE, MaxRetries <- 0, MaxPages <- 1, MaxScans <- 1,
    MaxVersions <- 3, MaxCrashes <- 1, MaxEdits <- 2, MaxReleases <- 1,
    worker <- notesWorker, spent <- notesSpent

\* Two drains, one of which outlives its lease.
Leases == INSTANCE XhsPipeline WITH
    Workers <- {"w1", "w2"}, Notes <- {"n1"}, Ordinals <- {}, Texts <- {"t1"},
    Links <- {"l1", "l2"}, Failures <- {}, Videos <- FALSE, Stalls <- TRUE,
    MaxRetries <- 1, MaxPages <- 1, MaxScans <- 1, MaxVersions <- 3,
    MaxCrashes <- 1, MaxEdits <- 2, MaxReleases <- 0, worker <- notesWorker,
    spent <- notesSpent

\* A scan of two pages, and a video.
Scans == INSTANCE XhsPipeline WITH
    Workers <- {"w1"}, Notes <- {"n1", "n2"}, Ordinals <- {}, Texts <- {"t1"},
    Links <- {}, Failures <- {"transient"}, Videos <- TRUE, Stalls <- FALSE,
    MaxRetries <- 0, MaxPages <- 2, MaxScans <- 1, MaxVersions <- 1,
    MaxCrashes <- 0, MaxEdits <- 1, MaxReleases <- 0, worker <- notesWorker,
    spent <- notesSpent

\* Two records that name pages.
Blogged == INSTANCE XhsImports WITH
    Blogs <- {"b1", "b2"}, Papers <- {}, Urls <- {"u1", "u2"},
    Captures <- {1}, Sources <- {"s1"}, Wanted <- "s1", MaxIdentify <- 1,
    MaxEdits <- 2, MaxTasks <- 2, MaxCrashes <- 1, rec <- importsRec,
    worker <- importsWorker, spent <- importsSpent

\* Two records of one paper, beside captures.
Papered == INSTANCE XhsImports WITH
    Blogs <- {"b1"}, Papers <- {"p1", "p2"}, Urls <- {"u1"},
    Captures <- {1, 2}, Sources <- {"s1", "s2"}, Wanted <- "s1",
    MaxIdentify <- 0, MaxEdits <- 2, MaxTasks <- 2, MaxCrashes <- 1,
    rec <- importsRec, worker <- importsWorker, spent <- importsSpent

\* One review of two records over midnight.
Review == INSTANCE XhsFallback WITH
    Blogs <- {"b1", "b2"}, Papers <- {}, Inputs <- {"t1"}, ItemCap <- 2,
    DailyCap <- 2, Spacing <- 1, VerifyMax <- 2, MaxRuns <- 1, MaxDays <- 2,
    MaxEdits <- 1, MaxCrashes <- 1, MaxReleases <- 0, rec <- reviewRec,
    worker <- reviewWorker, spent <- reviewSpent

\* Three reviews of a record that changes.
Reviews == INSTANCE XhsFallback WITH
    Blogs <- {"b1"}, Papers <- {}, Inputs <- {"t1", "t2"}, ItemCap <- 1,
    DailyCap <- 2, Spacing <- 1, VerifyMax <- 1, MaxRuns <- 3, MaxDays <- 3,
    MaxEdits <- 2, MaxCrashes <- 1, MaxReleases <- 1, rec <- reviewRec,
    worker <- reviewWorker, spent <- reviewSpent

-------------------------------------------------------------------------------
notesVars ==
    <<db, staged, disk, notesWorker, notesSpent>>
importsVars ==
    <<importsRec, task, capture, blog, link, page, importsWorker, importsSpent>>
reviewVars ==
    <<reviewRec, run, item, usage, day, reviewWorker, billed, reviewSpent>>
vars == <<part, notesVars, importsVars, reviewVars>>

Parts == {"notes", "edits", "leases", "scans", "blogs", "papers", "review",
          "reviews"}

\* A component that does not run rests in its first state.
Init ==
    /\ part \in Parts
    /\ CASE part = "edits" -> Edits!Init
         [] part = "leases" -> Leases!Init
         [] part = "scans" -> Scans!Init
         [] OTHER -> Noted!Init
    /\ CASE part = "papers" -> Papered!Init
         [] OTHER -> Blogged!Init
    /\ part \notin {"blogs", "papers"} => \A r \in DOMAIN importsRec : importsRec[r].url = Blogged!None
    /\ CASE part = "reviews" -> Reviews!Init
         [] OTHER -> Review!Init
    /\ part \notin {"review", "reviews"} => \A r \in DOMAIN reviewRec : reviewRec[r].url = Review!None

OnlyNotes ==
    UNCHANGED <<part, importsVars, reviewVars>>
OnlyImports ==
    UNCHANGED <<part, notesVars, reviewVars>>
OnlyReview ==
    UNCHANGED <<part, notesVars, importsVars>>

Next ==
    \/ part = "notes" /\ Noted!Next /\ OnlyNotes
    \/ part = "edits" /\ Edits!Next /\ OnlyNotes
    \/ part = "leases" /\ Leases!Next /\ OnlyNotes
    \/ part = "scans" /\ Scans!Next /\ OnlyNotes
    \/ part = "blogs" /\ Blogged!Next /\ OnlyImports
    \/ part = "papers" /\ Papered!Next /\ OnlyImports
    \/ part = "review" /\ Review!Next /\ OnlyReview
    \/ part = "reviews" /\ Reviews!Next /\ OnlyReview

Spec == Init /\ [][Next]_vars

-------------------------------------------------------------------------------
(* Properties.  Each is stated of the parts it is about.                     *)

\* A note or an import on its way always has what moves it on; a saved note
\* shows the images and the link it has now or its next version is owed; a
\* transcription that counts is the staged one, every bound version is on
\* disk exactly as it was bound, and an imported row is linked to its own
\* link or capture and was not excluded, under every interleaving of expired
\* URLs, refreshes, retries, edits, lost leases and crashes
\* (_xhs_advance_note, _xhs_apply_save, write_version,
\* _xhs_apply_capture_link).
ContentIsKept ==
    /\ part = "notes" => Noted!NoteMovesOn
    /\ part = "edits" => /\ Edits!TypeOK
                         /\ Edits!NoteMovesOn
                         /\ Edits!SavedIsCurrent
                         /\ Edits!TranscriptionStaged
    /\ part = "scans" => Scans!NoteMovesOn
    /\ part = "leases" => Leases!BoundIsOnDisk
    /\ part = "blogs" => /\ Blogged!TypeOK
                         /\ Blogged!ImportMovesOn
                         /\ Blogged!ImportedIsLinked
                         /\ Blogged!ExcludedStaysOut
    /\ part = "papers" => /\ Papered!ImportMovesOn
                          /\ Papered!LinkedToItsCapture
                          /\ Papered!ExcludedStaysOut

\* The model sees one recommendation with one input once, a day's usage
\* counts exactly what was reserved and not refused, a run is complete when
\* nothing of it is open, and one paper of a note carries an arXiv ID
\* (claim_xhs_fallback_item, _xhs_refund_usage, plan_rules).
DoneOnce ==
    /\ part = "review" => /\ Review!TypeOK
                          /\ Review!UsageCovers
                          /\ Review!RunEndsWithItems
                          /\ Review!OnePaper
    /\ part = "reviews" => /\ Reviews!UsageCovers
                           /\ Reviews!CalledOnce

\* What the operator decided stays: no rule, decision, resolution or import
\* changes a row or a link the operator set or that is being imported, an
\* import starts only the links its page showed, and a decision is applied
\* only to the input the model saw (_xhs_apply_resolve,
\* _xhs_fallback_effect).
OwnerWins ==
    [][/\ part = "blogs" => /\ Blogged!LinkIsKept
                            /\ Blogged!ImportsWhatWasSeen
       /\ part = "review" => Review!OperatorWins
       /\ part = "reviews" => Reviews!AppliedToItsInput]_vars
===============================================================================
