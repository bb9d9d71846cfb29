------------------------------ MODULE Readings ------------------------------
(***************************************************************************)
(* Publication of one adopted paper into an external readings library      *)
(* (product/readings/): the service that ticks over the publication        *)
(* journal (service.py), the publisher child that writes the library       *)
(* (publisher.py) and its file operations (files.py).                      *)
(*                                                                         *)
(* The paper has a text and notes and, in a subdirectory, an asset.  The   *)
(* corpus it is copied from changes under the service; the owner of the    *)
(* library edits, removes and creates files and directories at any time;   *)
(* the daemon crashes and restarts, the child is killed, and a reboot      *)
(* renumbers the device of the library.  File contents are versions of the *)
(* corpus, or what the owner wrote.  The back-off of a failed publication  *)
(* may have run out at any tick.  The owner edits a file in place or puts  *)
(* another in its place, also between an update's comparison of the file,  *)
(* its first write and its last.                                           *)
(***************************************************************************)
EXTENDS Integers, FiniteSets

CONSTANTS
    MaxVersion,   \* bound: versions of a corpus file
    MaxUser,      \* bound: acts of the library's owner
    MaxCrash,     \* bound: crashes of the daemon
    MaxKill,      \* bound: children killed
    MaxReboot,    \* bound: reboots that renumber the device
    MaxRetry      \* bound: retry commands

ConstantsAssumption ==
    /\ {MaxVersion} \subseteq Nat \ {0}
    /\ {MaxUser, MaxCrash, MaxKill, MaxReboot, MaxRetry} \subseteq Nat

File == {"text", "notes", "asset"}

Absent == 0
Torn == -1      \* an update that was cut short
Mine == -2      \* written by the owner; as notes, naming this paper
Other == -3     \* notes of the owner naming another paper

Content == {Absent, Torn, Mine, Other} \cup 1..MaxVersion

VARIABLES
    corpus,    \* the private paper directory
    lib,       \* the paper's directory in the library
    dev,       \* the library's device number
    row,       \* the journal row
    stage,     \* the staged copies of the row's task
    ctl,       \* the service
    child,     \* publisher processes
    spent,     \* bounds used
    touched,   \* files the owner changed, since the last look at the directory
               \* and since the look the last task rests on
    moved      \* the owner removed or replaced the directory

vars == <<corpus, lib, dev, row, stage, ctl, child, spent, touched, moved>>

NoFiles == [f \in File |-> Absent]
NoDir == [ino |-> 0, next |-> 1, sub |-> FALSE, file |-> NoFiles]

NoId == <<0, 0>>
Identity == <<dev, lib.ino>>

NoTask == [fresh |-> FALSE, root |-> 0, target |-> NoId, dirs |-> FALSE,
           action |-> [f \in File |-> "none"], old |-> NoFiles, new |-> NoFiles]

NoRow == [state |-> "none", failure |-> "none", owned |-> NoFiles, manifest |-> NoFiles,
          task |-> NoTask, target |-> NoId]

Idle == [pc |-> "idle", dev |-> 0, hashes |-> NoFiles, fresh |-> FALSE, target |-> NoId]
Off == [Idle EXCEPT !.pc = "off"]

\* same: the name of the file it writes still is the file it opened.
NoChild == [pc |-> "none", task |-> NoTask, todo |-> {}, writing |-> "none", same |-> TRUE]
Slot == {1, 2}

Init ==
    /\ corpus = [f \in File |-> IF f = "asset" THEN Absent ELSE 1]
    /\ lib = NoDir
    /\ dev = 1
    /\ row = NoRow
    /\ stage = [new |-> NoFiles, dirs |-> Absent]
    /\ ctl = [Idle EXCEPT !.dev = 1]
    /\ child = [s \in Slot |-> NoChild]
    /\ spent = [user |-> 0, crash |-> 0, kill |-> 0, reboot |-> 0, retry |-> 0]
    /\ touched = [look |-> {}, task |-> {}]
    /\ moved = FALSE

Running(s) == child[s].pc # "none"

\* Both locks are free: the child holds the library's as long as it runs.
LockFree == \A s \in Slot : ~Running(s)

-----------------------------------------------------------------------------
(* The service *)

Goes(pc) == ctl' = [ctl EXCEPT !.pc = pc]

\* The row of a publication that did not succeed: a conflict waits for the
\* operator, a failure for its back-off.  The task stays.
Refused(state, failure) ==
    /\ row' = [row EXCEPT !.state = state, !.failure = failure]
    /\ Goes("idle")

\* A tick takes the row up; a task that was recorded is carried on with.
Tick ==
    /\ ctl.pc = "idle" /\ LockFree
    /\ ctl.dev = dev
    /\ row.state # "conflict"
    /\ IF row.task # NoTask
       THEN Goes("run") /\ UNCHANGED row
       ELSE /\ row' = IF row.state = "none" THEN [row EXCEPT !.state = "pending"] ELSE row
            /\ Goes("inventory")
    /\ UNCHANGED <<corpus, lib, dev, stage, child, spent, touched, moved>>

\* inventory of the corpus; a published paper that has not changed is done.
Inventory ==
    /\ ctl.pc = "inventory"
    /\ ctl' = [ctl EXCEPT !.hashes = corpus,
                          !.pc = IF row.state = "published" /\ row.manifest = corpus
                                 THEN "idle" ELSE "look"]
    /\ UNCHANGED <<corpus, lib, dev, row, stage, child, spent, touched, moved>>

\* _prepare, the destination: whose directory is it?
Owned == \E f \in File : row.owned[f] # Absent

Look ==
    /\ ctl.pc = "look"
    /\ touched' = [touched EXCEPT !.look = {}]
    /\ \/ /\ lib.ino = 0
          /\ ctl' = [ctl EXCEPT !.fresh = TRUE, !.target = NoId, !.pc = "stage"]
          /\ UNCHANGED row
       \/ /\ lib.ino # 0 /\ row.target # NoId /\ row.target # Identity
          /\ Refused("conflict", "replaced")
       \/ /\ lib.ino # 0 /\ (row.target # NoId => row.target = Identity)
          /\ ~Owned /\ lib.file["notes"] = Absent
          /\ Refused("failed", "missing")
       \/ /\ lib.ino # 0 /\ (row.target # NoId => row.target = Identity)
          /\ ~Owned /\ lib.file["notes"] = Other
          /\ Refused("conflict", "unverified")
       \/ /\ lib.ino # 0 /\ (row.target # NoId => row.target = Identity)
          /\ Owned \/ lib.file["notes"] \notin {Absent, Other}
          /\ ctl' = [ctl EXCEPT !.fresh = FALSE, !.target = Identity, !.pc = "stage"]
          /\ UNCHANGED row
    /\ UNCHANGED <<corpus, lib, dev, stage, child, spent, moved>>

\* Mutant of ActionOn: a file the publisher once wrote is its to update.
ActionOn_EverOwned(f) ==
    LET old == IF ctl.fresh THEN Absent ELSE lib.file[f]
    IN  CASE ctl.hashes[f] = Absent -> "none"
          [] ctl.hashes[f] # Absent /\ old = Absent -> "create"
          [] f = "notes" /\ old # Absent -> "preserve"
          [] f # "notes" /\ old # Absent /\ old = ctl.hashes[f] -> "preserve"
          [] f # "notes" /\ old # Absent /\ old # ctl.hashes[f] /\ row.owned[f] # Absent -> "update"
          [] OTHER -> "protect"

\* _prepare, one file: what the child may do to it.
ActionOn(f) ==
    LET old == IF ctl.fresh THEN Absent ELSE lib.file[f]
    IN  CASE ctl.hashes[f] = Absent -> "none"
          [] ctl.hashes[f] # Absent /\ old = Absent -> "create"
          [] f = "notes" /\ old # Absent -> "preserve"
          [] f # "notes" /\ old # Absent /\ old = ctl.hashes[f] -> "preserve"
          [] f # "notes" /\ old # Absent /\ old # ctl.hashes[f] /\ row.owned[f] = old -> "update"
          [] OTHER -> "protect"

\* A missing subdirectory is published whole, from a place of its own.
SubMissing == ~ctl.fresh /\ ctl.hashes["asset"] # Absent /\ ~lib.sub

\* A file of the inventory has changed since.
Stale == \E f \in File : ctl.hashes[f] # Absent /\ corpus[f] # ctl.hashes[f]

Stage ==
    /\ ctl.pc = "stage"
    /\ \/ /\ Stale
          /\ Refused("conflict", "changed")
          /\ UNCHANGED <<stage, touched>>
       \/ /\ ~Stale
          /\ touched' = [touched EXCEPT !.task = touched.look]
          /\ stage' = [new |-> [f \in File |-> IF f = "asset" /\ SubMissing
                                               THEN Absent ELSE ctl.hashes[f]],
                       dirs |-> IF SubMissing THEN ctl.hashes["asset"] ELSE Absent]
          /\ row' = [row EXCEPT
                !.state = "publishing", !.manifest = ctl.hashes,
                !.task = [fresh |-> ctl.fresh, root |-> ctl.dev, target |-> ctl.target,
                          dirs |-> SubMissing,
                          action |-> [f \in File |-> ActionOn(f)],
                          old |-> IF ctl.fresh THEN NoFiles ELSE lib.file,
                          new |-> ctl.hashes]]
          /\ Goes("run")
    /\ UNCHANGED <<corpus, lib, dev, child, spent, moved>>

\* _run: the child gets the task and the library's lock.
Spawn ==
    /\ ctl.pc = "run"
    /\ \E s \in Slot :
          /\ ~Running(s)
          /\ child' = [child EXCEPT ![s] = [NoChild EXCEPT !.pc = "start", !.task = row.task]]
    /\ Goes("wait")
    /\ UNCHANGED <<corpus, lib, dev, row, stage, spent, touched, moved>>

\* What the child's answer makes of the row.
Published(task, target) ==
    LET mineNow == [f \in File |-> IF task.action[f] \in {"create", "update"} /\ f # "notes"
                                   THEN task.new[f] ELSE row.owned[f]]
        clash == \E f \in File : task.action[f] = "protect"
    IN  [row EXCEPT !.state = IF clash THEN "conflict" ELSE "published",
                    !.failure = IF clash THEN "protected" ELSE "none",
                    !.owned = mineNow, !.target = target, !.task = NoTask]

\* The child ends with an answer.  A service that is gone does not hear it.
Answers(s, state, failure) ==
    /\ child' = [child EXCEPT ![s] = NoChild]
    /\ IF ctl.pc = "wait"
       THEN IF state = "published"
            THEN row' = Published(child[s].task, Identity) /\ Goes("idle")
            ELSE Refused(state, failure)
       ELSE UNCHANGED <<row, ctl>>

-----------------------------------------------------------------------------
(* The publisher child *)

Continues(s, pc) == child' = [child EXCEPT ![s].pc = pc] /\ UNCHANGED <<row, ctl>>

\* The root is the one the task was made for.
ChildStart(s) ==
    /\ child[s].pc = "start"
    /\ IF child[s].task.root # dev THEN Answers(s, "conflict", "root")
       ELSE Continues(s, IF child[s].task.fresh THEN "directory" ELSE "identity")
    /\ UNCHANGED <<corpus, lib, dev, stage, spent, touched, moved>>

\* A new paper appears as a whole, by a rename that replaces nothing.
ChildDirectory(s) ==
    /\ child[s].pc = "directory"
    /\ \/ /\ lib.ino = 0 /\ stage.new # NoFiles
          /\ lib' = [ino |-> lib.next, next |-> lib.next + 1,
                     sub |-> stage.new["asset"] # Absent, file |-> stage.new]
          /\ stage' = [stage EXCEPT !.new = NoFiles]
          /\ Continues(s, "verify")
       \/ /\ lib.ino = 0 /\ stage.new = NoFiles
          /\ Answers(s, "failed", "missing")
          /\ UNCHANGED <<lib, stage>>
       \/ /\ lib.ino # 0
          /\ Continues(s, "verify")
          /\ UNCHANGED <<lib, stage>>
    /\ UNCHANGED <<corpus, dev, spent, touched, moved>>

ChildVerify(s) ==
    /\ child[s].pc = "verify"
    /\ LET files == {f \in File : child[s].task.new[f] # Absent}
       IN  \/ /\ \A f \in files : lib.file[f] = child[s].task.new[f]
              /\ Continues(s, "done")
           \/ /\ \E f \in files : lib.file[f] = Absent
              /\ Answers(s, "failed", "missing")
           \/ /\ \E f \in files : lib.file[f] \notin {Absent, child[s].task.new[f]}
              /\ Answers(s, "conflict", "directory")
    /\ UNCHANGED <<corpus, lib, dev, stage, spent, touched, moved>>

\* An existing paper: the directory first, then the missing subdirectory.
ChildIdentity(s) ==
    /\ child[s].pc = "identity"
    /\ IF lib.ino = 0 THEN Answers(s, "failed", "missing")
       ELSE IF child[s].task.target # Identity THEN Answers(s, "conflict", "replaced")
       ELSE Continues(s, "dirs")
    /\ UNCHANGED <<corpus, lib, dev, stage, spent, touched, moved>>

\* Mutant of ChildDirs: only missing files are taken care of.
ChildDirs_CreatesOnly(s) ==
    /\ child[s].pc = "dirs"
    /\ child' = [child EXCEPT ![s].pc = "files",
                    ![s].todo = {f \in File : child[s].task.action[f] = "create"}]
    /\ UNCHANGED <<corpus, lib, dev, row, stage, ctl, spent, touched, moved>>

ChildDirs(s) ==
    /\ child[s].pc = "dirs"
    /\ LET todo == {f \in File : child[s].task.action[f] \in {"create", "update"}}
           on == child' = [child EXCEPT ![s].pc = "files", ![s].todo = todo]
       IN  \/ /\ ~child[s].task.dirs \/ lib.sub
              /\ on /\ UNCHANGED <<lib, stage, row, ctl>>
           \/ /\ child[s].task.dirs /\ ~lib.sub
              /\ stage.dirs # Absent /\ lib.ino # 0
              /\ lib' = [lib EXCEPT !.sub = TRUE, !.file["asset"] = stage.dirs]
              /\ stage' = [stage EXCEPT !.dirs = Absent]
              /\ on /\ UNCHANGED <<row, ctl>>
           \/ /\ child[s].task.dirs /\ ~lib.sub
              /\ stage.dirs = Absent \/ lib.ino = 0
              /\ Answers(s, "failed", "missing")
              /\ UNCHANGED <<lib, stage>>
    /\ UNCHANGED <<corpus, dev, spent, touched, moved>>

\* One file that is to be created or updated.
CanPlace(f) == lib.ino # 0 /\ (f = "asset" => lib.sub) /\ stage.new[f] # Absent

FileDone(s, f) == child' = [child EXCEPT ![s].todo = @ \ {f}] /\ UNCHANGED <<row, ctl>>

ChildFile(s, f) ==
    /\ child[s].pc = "files" /\ f \in child[s].todo
    /\ LET t == child[s].task
           current == lib.file[f]
       IN  \/ /\ current = t.new[f]
              /\ FileDone(s, f) /\ UNCHANGED <<lib, stage>>
           \/ /\ current = Absent /\ t.action[f] = "create" /\ CanPlace(f)
              /\ lib' = [lib EXCEPT !.file[f] = stage.new[f]]
              /\ stage' = [stage EXCEPT !.new[f] = Absent]
              /\ FileDone(s, f)
           \/ /\ current = Absent /\ t.action[f] = "create" /\ ~CanPlace(f)
              /\ Answers(s, "failed", "missing") /\ UNCHANGED <<lib, stage>>
           \/ /\ current # t.new[f] /\ t.action[f] = "update" /\ current = t.old[f]
              /\ child' = [child EXCEPT ![s].pc = "update", ![s].writing = f]
              /\ UNCHANGED <<lib, stage, row, ctl>>
           \/ /\ current # t.new[f]
              /\ IF t.action[f] = "create" THEN current # Absent ELSE current # t.old[f]
              /\ Answers(s, "conflict", "content") /\ UNCHANGED <<lib, stage>>
    /\ UNCHANGED <<corpus, dev, spent, touched, moved>>

\* The first write goes to the opened file, whatever it holds by now.
ChildWrite(s) ==
    /\ child[s].pc = "update"
    /\ lib' = IF child[s].same THEN [lib EXCEPT !.file[child[s].writing] = Torn] ELSE lib
    /\ Continues(s, "written")
    /\ UNCHANGED <<corpus, dev, stage, spent, touched, moved>>

\* The last write and the truncation: what the owner wrote in place since the
\* first is overwritten, kept or mixed.  A file that took its place is noticed
\* and left as it is.
ChildUpdate(s) ==
    LET f == child[s].writing
        new == child[s].task.new[f]
        now == lib.file[f]
    IN  /\ child[s].pc = "written"
        /\ IF child[s].same
           THEN /\ \E c \in IF now = Torn THEN {new} ELSE {new, Torn, now} :
                      lib' = [lib EXCEPT !.file[f] = c]
                /\ Continues(s, "check")
           ELSE /\ IF now = Absent THEN Answers(s, "failed", "missing")
                   ELSE Answers(s, "conflict", "content")
                /\ UNCHANGED lib
        /\ UNCHANGED <<corpus, dev, stage, spent, touched, moved>>

\* The file is read back.
ChildCheck(s) ==
    LET f == child[s].writing
        now == lib.file[f]
    IN  /\ child[s].pc = "check"
        /\ CASE now = Absent -> Answers(s, "failed", "missing")
             [] now = child[s].task.new[f] ->
                  /\ child' = [child EXCEPT ![s].pc = "files", ![s].todo = @ \ {f},
                                            ![s].writing = "none", ![s].same = TRUE]
                  /\ UNCHANGED <<row, ctl>>
             [] OTHER -> Answers(s, "conflict", "content")
        /\ UNCHANGED <<corpus, lib, dev, stage, spent, touched, moved>>

ChildDone(s) ==
    /\ \/ child[s].pc = "done"
       \/ child[s].pc = "files" /\ child[s].todo = {}
    /\ IF child[s].task.root # dev THEN Answers(s, "conflict", "root")
       ELSE IF lib.ino = 0 THEN Answers(s, "failed", "missing")
       ELSE Answers(s, "published", "none")
    /\ UNCHANGED <<corpus, lib, dev, stage, spent, touched, moved>>

ChildStep(s) ==
    \/ ChildStart(s) \/ ChildDirectory(s) \/ ChildVerify(s) \/ ChildIdentity(s)
    \/ ChildDirs(s) \/ (\E f \in File : ChildFile(s, f))
    \/ ChildWrite(s) \/ ChildUpdate(s) \/ ChildCheck(s) \/ ChildDone(s)

-----------------------------------------------------------------------------
(* Failures, restarts and the operator *)

\* The child is killed: a time-out, or the service stops.
Kill(s) ==
    /\ Running(s) /\ spent.kill < MaxKill
    /\ spent' = [spent EXCEPT !.kill = @ + 1]
    /\ Answers(s, "failed", "interrupted")
    /\ UNCHANGED <<corpus, lib, dev, stage, touched, moved>>

\* The daemon dies; its child does not.
Crash ==
    /\ ctl.pc # "off" /\ spent.crash < MaxCrash
    /\ spent' = [spent EXCEPT !.crash = @ + 1]
    /\ ctl' = Off
    /\ UNCHANGED <<corpus, lib, dev, row, stage, child, touched, moved>>

Reboot ==
    /\ spent.reboot < MaxReboot
    /\ spent' = [spent EXCEPT !.reboot = @ + 1]
    /\ dev' = dev + 1
    /\ ctl' = Off
    /\ child' = [s \in Slot |-> NoChild]
    /\ UNCHANGED <<corpus, lib, row, stage, touched, moved>>

\* _refresh_paper_identities: a directory with the recorded inode follows the
\* device; so does the root of a task.
Follow(id) == IF id # NoId /\ id[2] = lib.ino THEN Identity ELSE id

Refreshed(r) ==
    [r EXCEPT !.target = Follow(@),
              !.task = IF @ = NoTask THEN NoTask
                       ELSE [@ EXCEPT !.root = dev, !.target = Follow(@)]]

\* The service starts, under the locks: the journal is bound to the renumbered
\* device of the same volume.
Restart ==
    /\ ctl.pc = "off" /\ LockFree
    /\ ctl' = [Idle EXCEPT !.dev = dev]
    /\ row' = Refreshed(row)
    /\ UNCHANGED <<corpus, lib, dev, stage, child, spent, touched, moved>>

\* The retry command, from a process of its own.
Retry ==
    /\ ctl.pc = "idle" /\ LockFree /\ row.state # "none"
    /\ spent.retry < MaxRetry
    /\ spent' = [spent EXCEPT !.retry = @ + 1]
    /\ row' = [row EXCEPT !.state = "pending", !.failure = "none"]
    /\ UNCHANGED <<corpus, lib, dev, stage, ctl, child, touched, moved>>

\* The engine writes a new version of a corpus file.
Ingest(f) ==
    /\ corpus[f] < MaxVersion
    /\ corpus' = [corpus EXCEPT ![f] = @ + 1]
    /\ UNCHANGED <<lib, dev, row, stage, ctl, child, spent, touched, moved>>

\* The owner of the library.
Acts ==
    /\ spent.user < MaxUser
    /\ spent' = [spent EXCEPT !.user = @ + 1]
    /\ UNCHANGED <<corpus, dev, row, stage, ctl>>

Touches(files) ==
    touched' = [look |-> touched.look \cup files, task |-> touched.task \cup files]

\* The child that updates one of the files holds one that has no name any more.
Replaced(files) ==
    child' = [s \in Slot |-> [child[s] EXCEPT !.same = @ /\ child[s].writing \notin files]]

\* In place, or by a file that takes the place of the other.
EditFile(f, c) ==
    /\ Acts
    /\ lib.ino # 0 /\ (f = "asset" => lib.sub)
    /\ c \in {Absent, Mine} \cup (IF f = "notes" THEN {Other} ELSE {})
    /\ c # lib.file[f]
    /\ lib' = [lib EXCEPT !.file[f] = c]
    /\ \/ Replaced({f})
       \/ c # Absent /\ lib.file[f] # Absent /\ UNCHANGED child
    /\ Touches({f})
    /\ UNCHANGED moved

MakeDirectory(c) ==
    /\ Acts
    /\ lib.ino = 0 /\ c \in {Absent, Mine, Other}
    /\ lib' = [lib EXCEPT !.ino = lib.next, !.next = @ + 1, !.file["notes"] = c]
    /\ Touches(File)
    /\ UNCHANGED <<child, moved>>

MakeSubdirectory ==
    /\ Acts
    /\ lib.ino # 0 /\ ~lib.sub
    /\ lib' = [lib EXCEPT !.sub = TRUE]
    /\ Touches({"asset"})
    /\ UNCHANGED <<child, moved>>

RemoveDirectory ==
    /\ Acts
    /\ lib.ino # 0
    /\ lib' = [NoDir EXCEPT !.next = lib.next]
    /\ Replaced(File)
    /\ Touches(File) /\ moved' = TRUE

\* A copy of the directory takes its place.
ReplaceDirectory ==
    /\ Acts
    /\ lib.ino # 0
    /\ lib' = [lib EXCEPT !.ino = lib.next, !.next = @ + 1]
    /\ Replaced(File)
    /\ Touches(File) /\ moved' = TRUE

UserStep ==
    \/ \E f \in File, c \in {Absent, Mine, Other} : EditFile(f, c)
    \/ \E c \in {Absent, Mine, Other} : MakeDirectory(c)
    \/ MakeSubdirectory \/ RemoveDirectory \/ ReplaceDirectory

ServiceStep == Tick \/ Inventory \/ Look \/ Stage \/ Spawn

Next ==
    \/ ServiceStep
    \/ \E s \in Slot : ChildStep(s) \/ Kill(s)
    \/ Crash \/ Reboot \/ Restart \/ Retry
    \/ \E f \in File : Ingest(f)
    \/ UserStep

Spec == Init /\ [][Next]_vars

\* The service ticks on, a child runs on, and a daemon is started again.
Fairness ==
    /\ WF_vars(ServiceStep) /\ WF_vars(Restart)
    /\ \A s \in Slot : WF_vars(ChildStep(s))

FairSpec == Spec /\ Fairness

-----------------------------------------------------------------------------
(* Properties *)

\* Types; a row that is published or pending after a publication has no task.
TypeOK ==
    /\ corpus \in [File -> 0..MaxVersion]
    /\ lib.file \in [File -> Content] /\ lib.sub \in BOOLEAN
    /\ row.state \in {"none", "pending", "publishing", "published", "failed", "conflict"}
    /\ row.owned \in [File -> 0..MaxVersion]
    /\ row.state = "published" => row.task = NoTask
    /\ ctl.pc \in {"off", "idle", "inventory", "look", "stage", "run", "wait"}
    /\ touched \in [{"look", "task"} -> SUBSET File]

\* A child that runs carries out the task of the journal, also when the daemon
\* that started it is gone and another has taken over (the library's lock that
\* the child inherits).
WriterFollowsJournal ==
    \A s \in Slot : Running(s) => row.task # NoTask /\ child[s].task = row.task

\* What the owner wrote, and notes whoever wrote them, are changed by nobody
\* else ("Existing notes and manually modified files are preserved"), but for
\* an edit in place of the one file an update has found as the publisher left
\* it and not finished ("editors/cloud clients that ignore these locks can
\* still race").
InUpdate(f) ==
    \E s \in Slot : /\ child[s].writing = f /\ child[s].same
                    /\ child[s].task.old[f] \notin {Mine, Other}

EditsAreKept ==
    spent'.user = spent.user =>
     \A f \in File : /\ lib.file[f] # Absent /\ (lib.file[f] \in {Mine, Other} \/ f = "notes")
                     /\ ~InUpdate(f)
                     => lib'.file[f] = lib.file[f]

\* A paper that is reported published is in the library as its manifest says,
\* apart from notes and from what the owner changed since; no file is half
\* written (the hashes the child compares before it answers).
PublishedIsWhole ==
    row.state = "published" =>
        \A f \in File :
            /\ lib.file[f] # Torn
            /\ row.manifest[f] # Absent /\ f # "notes" /\ f \notin touched.task =>
                  lib.file[f] = row.manifest[f]

\* A renumbered device alone is no conflict of identity (_rebind_root,
\* _refresh_paper_identities).
RenumberingIsHarmless == ~moved => row.failure \notin {"replaced", "root"}

\* Nothing is written into a directory that is not known to be this paper's: one
\* the publisher has no receipt for and whose notes name another paper ("A
\* title/path match never establishes identity").
StrangersAreLeft ==
    spent'.user = spent.user /\ lib.ino # 0 /\ ~Owned
         /\ lib.file["notes"] = Other /\ "notes" \notin touched.look
     => lib' = lib

\* An entry that the recorded task needs is not in the library, and the child
\* has none to put there: the owner removed what it had put there, or made the
\* directory before it did.
Overtaken ==
    LET t == row.task
    IN  /\ t # NoTask
        /\ \/ lib.ino = 0 /\ (t.fresh => stage.new = NoFiles)
           \/ lib.ino # 0 /\ \E f \in File : /\ t.new[f] # Absent /\ lib.file[f] = Absent
                                             /\ t.fresh \/ ~CanPlace(f)

\* A directory of the owner's that has no notes to tell whose it is.
Unknown == row.task = NoTask /\ lib.ino # 0 /\ ~Owned /\ lib.file["notes"] = Absent

\* A publication comes to rest, published or in conflict, also when the owner
\* edits ("external edits stop automatic recovery"); but a missing entry is a
\* failure, and a failure is retried at every back-off.
ComesToRest ==
    <>[](\/ row.state \in {"published", "conflict"}
         \/ row.state = "failed" /\ row.failure = "missing" /\ (Overtaken \/ Unknown))
=============================================================================
