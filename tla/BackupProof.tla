---------------------------- MODULE BackupProof ----------------------------
(***************************************************************************)
(* The paired backup proof and the upgrade it authorizes                   *)
(* (distribution/state_safety.py, the record-proof command of cli.py, the  *)
(* proof and asset root rows of control/store.py).                         *)
(*                                                                         *)
(* record-proof holds the distribution lock while it looks at the stopped  *)
(* Control state twice through a child of the installed generation: the    *)
(* first look lists the enabled asset roots, then the parent copies the    *)
(* database file and those roots into a backup set, restores the copies,   *)
(* and the second look writes the proof row.  Once the lock is given back  *)
(* the command prunes older sets.  An upgrade reads only the newest row:   *)
(* it goes on when that row covers the schema and the enabled roots, is    *)
(* recent, and still says the same after the authorization was issued.     *)
(*                                                                         *)
(* Contents are versions: `data` counts the commits, `main` is the part of *)
(* them the database file holds (the rest is in the write-ahead log); the  *)
(* content of a root is the path it is registered with.  Proof rows are in *)
(* the order of their restores, which the lock serializes.                 *)
(***************************************************************************)
EXTENDS Integers, Sequences, FiniteSets

CONSTANTS
    Root,        \* asset root ids
    Path,        \* the directories a root can be registered with
    Missing,     \* those of them that do not exist
    Unsafe,      \* those of them that are a symlink or a plain file
    Id,          \* proof ids, which name the backup sets
    Run,         \* record-proof commands
    Keep,        \* how many sets a prune leaves
    MaxBegun,    \* bound: commands begun
    MaxWrite,    \* bound: commits of the product
    MaxRev,      \* bound: updates of a root
    MaxSchema,   \* bound: the newest schema a candidate brings
    MaxKill      \* bound: killed commands

ConstantsAssumption ==
    /\ Missing \subseteq Path /\ Unsafe \subseteq Path
    /\ Keep \in Nat \ {0}
    /\ {MaxBegun, MaxWrite, MaxRev, MaxSchema, MaxKill} \subseteq Nat

VARIABLES
    db,       \* the Control database: schema, data, main, roots, proofs
    daemon,   \* the lifecycle: "stopped", "running" or "crashed"
    sets,     \* the backup root: a set per proof id
    run,      \* the record-proof commands
    lock,     \* who holds the distribution lock
    code,     \* the schema of the installed generation
    up,       \* the upgrade between authorize and consume
    look,     \* history: what the command that holds the lock found
    gone,     \* history: the sets and roots a row lost or never had
    spent     \* the budgets used

hist == <<look, gone>>
vars == <<db, daemon, sets, run, lock, code, up, hist, spent>>

None == "none"
Upgrade == "upgrade"

NoSet == [copies |-> <<>>, roots |-> <<>>, schema |-> 0, at |-> 0, restored |-> FALSE]

IdleRun == [pc |-> "idle", id |-> None, digest |-> 0, roots |-> <<>>, held |-> NoSet]

\* The rows of a root that was never registered, and of a registered one.
Unregistered == [enabled |-> FALSE, rev |-> -1, path |-> None]
Registered(e, n, p) == [enabled |-> e, rev |-> n, path |-> p]

Init ==
    /\ db = [schema |-> 1, data |-> 0, main |-> 0,
             roots |-> [r \in Root |-> Unregistered], proofs |-> <<>>]
    /\ daemon = "stopped"
    /\ sets = [i \in Id |-> NoSet]
    /\ run = [c \in Run |-> IdleRun]
    /\ lock = None
    /\ code = 1
    /\ up = [pc |-> "idle", candidate |-> 0, binding |-> <<>>]
    /\ look = [data |-> 0, revs |-> {}]
    /\ gone = [lost |-> {}, late |-> {}, killed |-> {}, stale |-> {}]
    /\ spent = [begun |-> 0, kill |-> 0]

-----------------------------------------------------------------------------
(* The Control state and the product that writes it *)

Checkpointed == db.main = db.data

EnabledRoots == {r \in Root : db.roots[r].enabled}

Coverage == {<<r, db.roots[r].rev>> : r \in EnabledRoots}

\* A connection that commits: with no daemon beside it, closing it leaves
\* everything in the database file.
Committed(d) == [d EXCEPT !.data = @ + 1,
                          !.main = IF daemon = "running" THEN @ ELSE d.data + 1]

\* initialize() of the installed generation's store brings the schema up.
Migrated(d) == [d EXCEPT !.schema = IF code > @ THEN code ELSE @]

RegisterRoot(r, p) ==
    /\ db.roots[r] = Unregistered
    /\ db.data < MaxWrite
    /\ db' = [Committed(db) EXCEPT !.roots[r] = Registered(TRUE, 0, p)]
    /\ UNCHANGED <<daemon, sets, run, lock, code, up, spent, hist>>

UpdateRoot(r, p, e) ==
    /\ db.roots[r].rev \in 0..(MaxRev - 1)
    /\ db.data < MaxWrite
    /\ db' = [Committed(db) EXCEPT !.roots[r] = Registered(e, db.roots[r].rev + 1, p)]
    /\ UNCHANGED <<daemon, sets, run, lock, code, up, spent, hist>>

\* The daemon starts: by the command, which takes the distribution lock for a
\* moment, or by the service manager, which does not.  An upgrade excludes both
\* with the lifecycle lock.
DaemonStarts ==
    /\ daemon # "running"
    /\ lock # Upgrade
    /\ daemon' = "running"
    /\ db' = Migrated(db)
    /\ UNCHANGED <<sets, run, lock, code, up, spent, hist>>

DaemonCommits ==
    /\ daemon = "running"
    /\ db.data < MaxWrite
    /\ db' = Committed(db)
    /\ UNCHANGED <<daemon, sets, run, lock, code, up, spent, hist>>

DaemonStops ==
    /\ daemon = "running"
    /\ daemon' = "stopped"
    /\ db' = [db EXCEPT !.main = db.data]
    /\ UNCHANGED <<sets, run, lock, code, up, spent, hist>>

DaemonCrashes ==
    /\ daemon = "running"
    /\ daemon' = "crashed"
    /\ UNCHANGED <<db, sets, run, lock, code, up, spent, hist>>

\* stop after a crash removes the record of the lifecycle; the log stays.
CleanLifecycle ==
    /\ daemon = "crashed"
    /\ daemon' = "stopped"
    /\ UNCHANGED <<db, sets, run, lock, code, up, spent, hist>>

-----------------------------------------------------------------------------
(* record-proof *)

\* The command ends: the lock is free for the next one.
Ended(c) ==
    /\ run' = [run EXCEPT ![c] = IdleRun]
    /\ lock' = IF lock = c THEN None ELSE lock

\* A failure between the first copy and the receipt removes the set.
Fails(c) ==
    /\ Ended(c)
    /\ sets' = [sets EXCEPT ![run[c].id] = NoSet]

Goes(c, pc) == run' = [run EXCEPT ![c].pc = pc]

\* The lifecycle has to be stopped and the state to be in the database file.
StateReady == Checkpointed

Begin(c) ==
    /\ run[c].pc = "idle"
    /\ spent.begun < MaxBegun
    /\ lock = None
    /\ daemon = "stopped"
    /\ StateReady
    /\ lock' = c
    /\ Goes(c, "inspect")
    /\ look' = [data |-> db.data, revs |-> {}]
    /\ spent' = [spent EXCEPT !.begun = @ + 1]
    /\ UNCHANGED <<db, daemon, sets, code, up, gone>>

\* The first look of the child.
Inspect(c) ==
    /\ run[c].pc = "inspect"
    /\ db' = Migrated(db)
    /\ run' = [run EXCEPT ![c].pc = "digest",
                          ![c].roots = [r \in EnabledRoots |-> db.roots[r].path]]
    /\ look' = [look EXCEPT !.revs = Coverage]
    /\ UNCHANGED <<daemon, sets, lock, code, up, gone, spent>>

\* The digest of the source and the name of the set: an id that already has a
\* set is refused before anything is copied.
Digest(c, i) ==
    /\ run[c].pc = "digest"
    /\ IF sets[i] # NoSet
       THEN Ended(c)
       ELSE /\ run' = [run EXCEPT ![c].pc = "copy", ![c].id = i, ![c].digest = db.main]
            /\ UNCHANGED lock
    /\ UNCHANGED <<db, daemon, sets, code, up, spent, hist>>

\* What a copy of a root holds: nothing of a directory that does not exist.
CopyOf(p) == IF p \in Missing THEN None ELSE p

\* One of the two copies.  A root that is not a directory fails the command.
WriteCopy(c) ==
    /\ run[c].pc = "copy"
    /\ IF \E r \in DOMAIN run[c].roots : run[c].roots[r] \in Unsafe
       THEN Fails(c)
       ELSE LET i == run[c].id
                n == Len(sets[i].copies) + 1
            IN  /\ sets' = [sets EXCEPT ![i] =
                       [@ EXCEPT !.copies = Append(@, db.main),
                                 !.at = spent.begun,
                                 !.schema = db.schema,
                                 !.roots = [r \in DOMAIN run[c].roots |->
                                               CopyOf(run[c].roots[r])]]]
                /\ Goes(c, IF n = 2 THEN "verify" ELSE "copy")
                /\ UNCHANGED lock
    /\ UNCHANGED <<db, daemon, code, up, spent, hist>>

CopiesMatch(c) == sets[run[c].id].copies = <<run[c].digest, run[c].digest>>

\* The copies agree with the source and both are restored, read back and
\* measured; a set that an earlier command prunes meanwhile cannot be.
VerifyRestore(c) ==
    /\ run[c].pc = "verify"
    /\ IF CopiesMatch(c)
       THEN LET held == [sets[run[c].id] EXCEPT !.restored = TRUE]
            IN  /\ sets' = [sets EXCEPT ![run[c].id] = held]
                /\ run' = [run EXCEPT ![c].pc = "record", ![c].held = held]
                /\ UNCHANGED lock
       ELSE Fails(c)
    /\ UNCHANGED <<db, daemon, code, up, spent, hist>>

\* The proof row: the revisions as they are at the second look, the contents
\* as they were copied.
Proof(i, d, held) ==
    [id |-> i, schema |-> d.schema, fresh |-> TRUE,
     roots |-> {<<r, d.roots[r].rev>> : r \in EnabledRoots},
     held |-> held]

RowExists(i) == \E n \in DOMAIN db.proofs : db.proofs[n].id = i

Measured(c) == EnabledRoots \subseteq DOMAIN run[c].roots

\* The second look, in the child, which reads the database and no set: a root
\* enabled in between was never measured, and the row of a reused id belongs to
\* another request.  The child that is lost after
\* its commit is a failure to the parent.
Record(c) ==
    LET i == run[c].id
        d == Migrated(db)
        d2 == IF daemon = "running" THEN d ELSE [d EXCEPT !.main = d.data]
    IN  /\ run[c].pc = "record"
        /\ IF ~Measured(c) \/ RowExists(i)
           THEN Fails(c) /\ db' = d2 /\ UNCHANGED gone
           ELSE /\ db' = [d2 EXCEPT !.proofs = Append(@, Proof(i, d, run[c].held))]
                /\ LET stale == gone.stale \cup {<<i, x[1]>> : x \in Coverage \ look.revs}
                   IN  \/ /\ Goes(c, "check")
                          /\ gone' = [gone EXCEPT !.stale = stale]
                          /\ UNCHANGED <<sets, lock>>
                       \/ /\ Fails(c)
                          /\ gone' = [gone EXCEPT !.stale = stale, !.lost = @ \cup {i}]
        /\ UNCHANGED <<daemon, code, up, look, spent>>

\* After the receipt the set is kept even if the state is not checkpointed;
\* the lock is given back before the sets are pruned.
CheckState(c) ==
    /\ run[c].pc = "check"
    /\ IF Checkpointed
       THEN Goes(c, "prune") /\ lock' = None
       ELSE Ended(c)
    /\ UNCHANGED <<db, daemon, sets, code, up, spent, hist>>

\* The row that decides: the proof with the newest restore.
Newest == db.proofs[Len(db.proofs)]

\* The directories a prune counts: both copies are there.
IsBackupSet(i) == Len(sets[i].copies) = 2

\* Newest first: the set the command wrote, then by the time of the set.
Newer(i, j, own) == (i = own) \/ (j # own /\ sets[i].at > sets[j].at)

Pruned(own) ==
    {i \in Id : /\ IsBackupSet(i)
                /\ i # own
                /\ Cardinality({j \in Id : IsBackupSet(j) /\ j # i /\ Newer(j, i, own)}) >= Keep}

\* The commands whose child writes the row.
Recording == {d \in Run : run[d].pc = "record"}

\* The lock is not held: a later command may be at any of its steps.
PruneSets(c) ==
    /\ run[c].pc = "prune"
    /\ LET out == Pruned(run[c].id)
       IN  /\ sets' = [i \in Id |-> IF i \in out THEN NoSet ELSE sets[i]]
           /\ gone' = [gone EXCEPT
                  !.late = @ \cup (out \cap ({Newest.id} \cup {run[d].id : d \in Recording})),
                  !.killed = @ \ out]
    /\ Ended(c)
    /\ UNCHANGED <<db, daemon, code, up, look, spent>>

\* A killed command leaves whatever it had written.
Kill(c) ==
    /\ run[c].pc # "idle"
    /\ spent.kill < MaxKill
    /\ Ended(c)
    /\ gone' = [gone EXCEPT !.killed = @ \cup {i \in Id : i = run[c].id /\ sets[i] # NoSet}]
    /\ spent' = [spent EXCEPT !.kill = @ + 1]
    /\ UNCHANGED <<db, daemon, sets, code, up, look>>

-----------------------------------------------------------------------------
(* The upgrade *)

\* Mutant of Covers: the revisions of the roots are not compared.
Covers_NamesOnly(p) ==
    p.schema = db.schema /\ {x[1] : x \in p.roots} = {x[1] : x \in Coverage}

Covers(p) == p.schema = db.schema /\ p.roots = Coverage

CurrentRestore(p) == p.fresh

ForwardMigration(candidate) == db.schema <= candidate

\* inspect_state: what lets a transition go on.
Safe(candidate) ==
    /\ Checkpointed
    /\ daemon = "stopped"
    /\ db.proofs # <<>>
    /\ Covers(Newest)
    /\ CurrentRestore(Newest)
    /\ ForwardMigration(candidate)

Binding == <<db.schema, Coverage, Newest.id>>

Authorize(candidate) ==
    /\ up.pc = "idle"
    /\ lock = None
    /\ candidate # code
    /\ Safe(candidate)
    /\ lock' = Upgrade
    /\ up' = [pc |-> "issued", candidate |-> candidate, binding |-> Binding]
    /\ UNCHANGED <<db, daemon, sets, run, code, spent, hist>>

\* An authorization is used once, and only if a second look says the same.
Consume ==
    /\ up.pc = "issued"
    /\ code' = IF Safe(up.candidate) /\ Binding = up.binding THEN up.candidate ELSE code
    /\ up' = [pc |-> "idle", candidate |-> 0, binding |-> <<>>]
    /\ lock' = None
    /\ UNCHANGED <<db, daemon, sets, run, spent, hist>>

\* The verified restores grow older than the bound.
Age ==
    /\ \E n \in DOMAIN db.proofs : db.proofs[n].fresh
    /\ db' = [db EXCEPT !.proofs = [n \in DOMAIN @ |-> [@[n] EXCEPT !.fresh = FALSE]]]
    /\ UNCHANGED <<daemon, sets, run, lock, code, up, spent, hist>>

RunStep(c) ==
    \/ Begin(c) \/ Inspect(c) \/ (\E i \in Id : Digest(c, i))
    \/ WriteCopy(c) \/ VerifyRestore(c) \/ Record(c)
    \/ CheckState(c) \/ PruneSets(c)

Next ==
    \/ \E r \in Root, p \in Path : RegisterRoot(r, p)
    \/ \E r \in Root, p \in Path, e \in BOOLEAN : UpdateRoot(r, p, e)
    \/ DaemonStarts \/ DaemonCommits \/ DaemonStops \/ DaemonCrashes \/ CleanLifecycle
    \/ \E c \in Run : RunStep(c)
    \/ \E c \in Run : Kill(c)
    \/ \E s \in 1..MaxSchema : Authorize(s)
    \/ Consume
    \/ Age

Spec == Init /\ [][Next]_vars

-----------------------------------------------------------------------------
(* Properties *)

\* Types of the state; the lock is held exactly by a command between its
\* start and its receipt or by the upgrade (current_generation_binding).
TypeOK ==
    /\ db.schema \in 1..MaxSchema /\ db.main \in 0..db.data /\ db.data \in Nat
    /\ daemon \in {"stopped", "running", "crashed"}
    /\ \A i \in Id : Len(sets[i].copies) \in 0..2
    /\ \A c \in Run :
          run[c].pc \in {"inspect", "digest", "copy", "verify", "record", "check"} <=> lock = c
    /\ lock = Upgrade <=> up.pc = "issued"
    /\ code \in 1..MaxSchema

SetOf(p) == sets[p.id]

\* The set of a row is removed after the row was written in two ways only: the
\* child that wrote it was lost with its answer, and a command that had already
\* given the lock back prunes by its own set.
SetGone(p) == p.id \in gone.lost \cup gone.late

\* An upgrade goes on only while the set of the proof it rests on is on disk,
\* holds two equal copies of a database of the schema that is live, and holds
\* the content of every enabled root as it is registered now (a rollback route
\* is retained: BackupBackedSafetyPort), but for a set that is gone and for a
\* root that got another revision between the two looks of its command.
UpgradeRests ==
    code' # code /\ ~SetGone(Newest) =>
       /\ SetOf(Newest).restored
       /\ SetOf(Newest).copies[1] = SetOf(Newest).copies[2]
       /\ SetOf(Newest).schema = db.schema
       /\ \A r \in EnabledRoots : \/ <<Newest.id, r>> \in gone.stale
                                  \/ SetOf(Newest).roots[r] = CopyOf(db.roots[r].path)

\* The newest proof row has its set on disk as it was when the row was written,
\* whatever the commands that fail, are killed, are refused or prune do
\* (prune_backup_sets: the row that decides), but for the two ways a set goes.
NewestHasSet ==
    db.proofs # <<>> => SetGone(Newest) \/ SetOf(Newest) = Newest.held

RowWritten == Len(db'.proofs) > Len(db.proofs)
HeldNow == db'.proofs[Len(db'.proofs)].held

\* When the row is written the copies hold every commit that was made before
\* the command began, also those of a daemon that crashed with them in its log;
\* what a daemon started meanwhile commits they need not hold
\* (_require_state_ready).
ProofIsWhole ==
    RowWritten => HeldNow.copies[1] >= look.data

\* When the row is written every root it names was copied, and the set holds
\* the content of the revision the row names, unless the root got that revision
\* after the first look (record_backup_proof: "Re-reading is not redundant").
MeasuredIsCurrent ==
    RowWritten =>
       \A r \in EnabledRoots :
          /\ r \in DOMAIN HeldNow.roots
          /\ <<r, db.roots[r].rev>> \in look.revs => HeldNow.roots[r] = CopyOf(db.roots[r].path)

\* A set no row describes and no command is writing was left by a kill of the
\* command that wrote it: a command that fails removes its own
\* (record_backup_proof).
FailureLeavesNoSet ==
    \A i \in Id : (/\ sets[i] # NoSet
                   /\ ~RowExists(i)
                   /\ \A c \in Run : run[c].pc = "idle" \/ run[c].id # i) => i \in gone.killed

\* The copies of a recorded proof are equal even when the database file
\* changes while they are written (record_backup_proof: paired copies).
RecordedCopiesAgree ==
    \A n \in DOMAIN db.proofs :
        LET h == db.proofs[n].held IN Len(h.copies) = 2 /\ h.copies[1] = h.copies[2] /\ h.restored
=============================================================================
