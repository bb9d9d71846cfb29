------------------------ MODULE ArtifactVersionsProofs ------------------------
(***************************************************************************)
(* Proofs about ArtifactVersions: its types; that what is committed can be *)
(* read; that heads, parents and snapshots name committed versions; that   *)
(* nothing is left pending for a run that ended; that nothing is committed *)
(* late, no update is refused by the schema, and a commit moves a head     *)
(* only from the head that its request saw.                                *)
(***************************************************************************)
EXTENDS ArtifactVersions, TLAPS

----------------------------------------------------------------------------
(* The inductive invariant *)

Versions ==
    [art : Artifacts, path : Paths, run : Runs, attempt : Nat, parents : SUBSET Nat,
     st : {"pending", "committed", "failed"},
     act : {"pending", "claimed", "completed", "failed"},
     owner : Workers \union {None}, live : BOOLEAN, epoch : Nat,
     advance : BOOLEAN, expected : Nat, base : Nat]

Shapes ==
    /\ run \in [Runs -> [active : BOOLEAN, attempt : Nat, retryable : BOOLEAN]]
    /\ art \in [Artifacts -> [rev : Nat, head : Nat, past : Seq(Nat)]]
    /\ ver \in Seq(Versions) /\ Len(ver) <= MaxVersions
    /\ disk \in [Paths -> Nat]
    /\ worker \in [Workers -> [pc : {"idle", "publish", "complete", "fail"}, on : Nat, epoch : Nat]]

Committed(v) == v \in Ids /\ ver[v].st = "committed"

\* A version's row agrees with its action, its run, its bytes and its parents;
\* while the head stands where the request saw it, it is the head it saw.
RowFits(v) ==
    /\ ver[v].act \in ActionStates[ver[v].st]
    /\ (ver[v].act = "claimed") = (ver[v].owner \in Workers)
    /\ ver[v].live => ver[v].act = "claimed"
    /\ ver[v].st = "pending" => Owned(v)
    /\ ver[v].st = "committed" => disk[ver[v].path] = v
    /\ \A p \in ver[v].parents : Committed(p)
    /\ ver[v].advance =>
          /\ ver[v].expected <= art[ver[v].art].rev
          /\ ver[v].expected = art[ver[v].art].rev => art[ver[v].art].head = ver[v].base

\* A worker that is about to complete has published.
WorkerFits(w) ==
    /\ worker[w].pc # "idle" => worker[w].on \in Ids
    /\ worker[w].pc = "complete" => disk[ver[worker[w].on].path] = worker[w].on

HeadFits(a) ==
    /\ art[a].rev = Len(art[a].past)
    /\ art[a].head # 0 => Committed(art[a].head) /\ ver[art[a].head].art = a

RowsFit == \A v \in Ids : RowFits(v)
WorkersFit == \A w \in Workers : WorkerFits(w)
HeadsFit == \A a \in Artifacts : HeadFits(a)
SnapshotsFit == \A vs \in snapshots : \A v \in vs : Committed(v)
DiskFits == \A x \in Paths : disk[x] \in Ids \union {0}

IInv == Shapes /\ RowsFit /\ WorkersFit /\ HeadsFit /\ SnapshotsFit /\ DiskFits

----------------------------------------------------------------------------
(* What every step keeps *)

\* Rows keep what identifies them, and a committed row keeps everything.
RowsCalm ==
    /\ Ids \subseteq Ids'
    /\ \A v \in Ids :
        /\ ver'[v].art = ver[v].art /\ ver'[v].path = ver[v].path
        /\ ver'[v].run = ver[v].run /\ ver'[v].attempt = ver[v].attempt
        /\ ver'[v].parents = ver[v].parents /\ ver'[v].advance = ver[v].advance
        /\ ver'[v].expected = ver[v].expected /\ ver'[v].base = ver[v].base
        /\ ver[v].st = "committed" => ver'[v] = ver[v]

\* A path is written once; a head that moves has a new revision and fits.
FilesCalm == \A x \in Paths : disk'[x] = disk[x] \/ (disk[x] = 0 /\ disk'[x] \in Ids)

HeadsCalm ==
    \A a \in Artifacts :
       art'[a] = art[a] \/ (art'[a].rev = art[a].rev + 1 /\ HeadFits(a)')

Calm == RowsCalm /\ FilesCalm /\ HeadsCalm

\* What a step must say of a row that it changes.
RowHolds(v) ==
    /\ ver[v].act \in ActionStates[ver[v].st]
    /\ (ver[v].act = "claimed") = (ver[v].owner \in Workers)
    /\ ver[v].live => ver[v].act = "claimed"
    /\ ver[v].st = "pending" => Owned(v)
    /\ ver[v].st = "committed" => disk[ver[v].path] = v

LEMMA IdFacts ==
    ASSUME Shapes
    PROVE  /\ Ids = 1..Len(ver) /\ Len(ver) \in Nat
           /\ \A v \in Ids : v \in Nat /\ v # 0 /\ ver[v] \in Versions
  BY DEF Shapes, Ids

LEMMA OneRow ==
    ASSUME Shapes, NEW v \in Ids, NEW row \in Versions, ver' = [ver EXCEPT ![v] = row]
    PROVE  /\ Ids' = Ids /\ ver' \in Seq(Versions) /\ Len(ver') = Len(ver)
           /\ ver'[v] = row
           /\ \A u \in Ids : u # v => ver'[u] = ver[u]
<1>1. Ids = 1..Len(ver) /\ Len(ver) \in Nat
  BY IdFacts
<1>2. ver \in Seq(Versions)
  BY DEF Shapes
<1>3. ver' \in Seq(Versions) /\ Len(ver') = Len(ver)
  BY <1>1, <1>2
<1>4. Ids' = Ids
  BY <1>1, <1>3 DEF Ids
<1> QED  BY <1>1, <1>2, <1>3, <1>4 DEF Ids

LEMMA CommittedStays ==
    ASSUME RowsCalm, NEW v, Committed(v)
    PROVE  Committed(v)' /\ ver'[v] = ver[v]
  BY DEF RowsCalm, Committed, Ids

LEMMA RowStays ==
    ASSUME IInv, Shapes', Calm, NEW v \in Ids, RowHolds(v)'
    PROVE  RowFits(v)'
<1> USE DEF IInv, Calm
<1>1. ver[v] \in Versions /\ ver[v].art \in Artifacts /\ RowFits(v)
  BY IdFacts DEF RowsFit, Versions
<1>2. \A p \in ver'[v].parents : Committed(p)'
  BY <1>1, CommittedStays DEF RowsCalm, RowFits
<1>3. ASSUME ver'[v].advance
      PROVE  /\ ver'[v].expected <= art'[ver'[v].art].rev
             /\ ver'[v].expected = art'[ver'[v].art].rev => art'[ver'[v].art].head = ver'[v].base
  <2>1. /\ ver[v].advance /\ ver'[v].expected = ver[v].expected /\ ver'[v].art = ver[v].art
        /\ ver'[v].base = ver[v].base
    BY <1>3 DEF RowsCalm
  <2>2. ver[v].expected \in Nat /\ art[ver[v].art].rev \in Nat
    BY <1>1 DEF Versions, Shapes
  <2>3. /\ ver[v].expected <= art[ver[v].art].rev
        /\ ver[v].expected = art[ver[v].art].rev => art[ver[v].art].head = ver[v].base
    BY <1>1, <2>1 DEF RowFits
  <2>4. art'[ver[v].art] = art[ver[v].art] \/ art'[ver[v].art].rev = art[ver[v].art].rev + 1
    BY <1>1 DEF HeadsCalm
  <2> QED  BY <2>1, <2>2, <2>3, <2>4
<1> QED  BY <1>2, <1>3 DEF RowFits, RowHolds

\* A row that a step leaves alone, with its owner.
LEMMA RowUntouched ==
    ASSUME IInv, Shapes', Calm, NEW v \in Ids, ver'[v] = ver[v],
           ver[v].st = "pending" => Owned(v)'
    PROVE  RowFits(v)'
<1> USE DEF IInv, Calm
<1>1. ver[v] \in Versions /\ ver[v].path \in Paths /\ v # 0 /\ RowFits(v)
  BY IdFacts DEF RowsFit, Versions
<1>2. ver[v].st = "committed" => disk'[ver[v].path] = v
  BY <1>1 DEF RowFits, FilesCalm
<1>3. RowHolds(v)'
  BY <1>1, <1>2 DEF RowHolds, RowFits
<1> QED  BY <1>3, RowStays

LEMMA WorkerStays ==
    ASSUME IInv, Calm, NEW w \in Workers, worker'[w] = worker[w]
    PROVE  WorkerFits(w)'
<1> USE DEF IInv, Calm
<1>1. WorkerFits(w)
  BY DEF WorkersFit
<1>2. ASSUME worker[w].pc # "idle"
      PROVE  /\ worker[w].on \in Ids /\ worker[w].on \in Ids'
             /\ ver'[worker[w].on].path = ver[worker[w].on].path
             /\ ver[worker[w].on].path \in Paths /\ worker[w].on # 0
  BY <1>1, <1>2, IdFacts DEF WorkerFits, RowsCalm, Versions
<1>3. CASE worker[w].pc = "complete"
  BY <1>1, <1>2, <1>3 DEF WorkerFits, FilesCalm
<1>4. CASE worker[w].pc # "complete"
  BY <1>2, <1>4 DEF WorkerFits
<1> QED  BY <1>3, <1>4

\* The parts of the invariant that follow from a calm step alone.
LEMMA CalmKeeps ==
    ASSUME IInv, Shapes', Calm,
           \A vs \in snapshots' : vs \in snapshots \/ \A v \in vs : Committed(v)
    PROVE  HeadsFit' /\ SnapshotsFit' /\ DiskFits'
<1> USE DEF IInv, Calm
<1>1. ASSUME NEW a \in Artifacts PROVE HeadFits(a)'
  <2>1. CASE art'[a] = art[a]
    <3>1. HeadFits(a)
      BY DEF HeadsFit
    <3> QED  BY <2>1, <3>1, CommittedStays DEF HeadFits
  <2>2. CASE art'[a] # art[a]
    BY <2>2 DEF HeadsCalm
  <2> QED  BY <2>1, <2>2
<1>2. ASSUME NEW vs \in snapshots', NEW v \in vs PROVE Committed(v)'
  <2>1. Committed(v)
    BY <1>2 DEF SnapshotsFit
  <2> QED  BY <2>1, CommittedStays
<1>3. ASSUME NEW x \in Paths PROVE disk'[x] \in Ids' \union {0}
  BY DEF DiskFits, FilesCalm, RowsCalm
<1> QED  BY <1>1, <1>2, <1>3 DEF HeadsFit, SnapshotsFit, DiskFits

----------------------------------------------------------------------------
(* Steps *)

\* What the action properties say of a step.
Guards == CommitsInTime /\ NeverAborted /\ NoLostHead

Kept == IInv' /\ Guards

\* A step that moves no version and no head.
LEMMA QuietGuards ==
    ASSUME UNCHANGED <<ver, art>>
    PROVE  Guards
  BY DEF Guards, CommitsInTime, NeverAborted, NoLostHead

\* A step of a worker or of the store that changes the row of v, by itself.
LEMMA RowMoves ==
    ASSUME IInv, NEW v \in Ids, NEW row \in Versions, ver' = [ver EXCEPT ![v] = row],
           row.art = ver[v].art, row.path = ver[v].path, row.run = ver[v].run,
           row.attempt = ver[v].attempt, row.parents = ver[v].parents,
           row.advance = ver[v].advance, row.expected = ver[v].expected,
           row.base = ver[v].base, ver[v].st # "committed",
           UNCHANGED <<run, disk, snapshots>>, HeadsCalm,
           art' \in [Artifacts -> [rev : Nat, head : Nat, past : Seq(Nat)]],
           worker' \in [Workers -> [pc : {"idle", "publish", "complete", "fail"}, on : Nat, epoch : Nat]],
           \A w \in Workers : worker'[w] # worker[w] => WorkerFits(w)',
           RowHolds(v)'
    PROVE  IInv'
<1>1. /\ Ids' = Ids /\ ver' \in Seq(Versions) /\ Len(ver') = Len(ver)
      /\ ver'[v] = row
      /\ \A u \in Ids : u # v => ver'[u] = ver[u]
  BY OneRow DEF IInv
<1>2. Shapes'
  BY <1>1 DEF Shapes, IInv
<1>3. Calm
  <2>1. RowsCalm
    BY <1>1 DEF RowsCalm
  <2> QED  BY <2>1 DEF Calm, FilesCalm
<1>4. RowsFit'
  <2>1. ASSUME NEW u \in Ids PROVE RowFits(u)'
    <3>1. CASE u = v
      BY <1>2, <1>3, <3>1, RowStays
    <3>2. CASE u # v
      <4>1. ver'[u] = ver[u]
        BY <1>1, <3>2
      <4>2. ver[u].st = "pending" => Owned(u)'
        BY <4>1 DEF IInv, RowsFit, RowFits, Owned, OwnerActive
      <4> QED  BY <1>2, <1>3, <4>1, <4>2, RowUntouched
    <3> QED  BY <3>1, <3>2
  <2> QED  BY <1>1, <2>1 DEF RowsFit
<1>5. WorkersFit'
  BY <1>3, WorkerStays DEF WorkersFit
<1> QED  BY <1>2, <1>3, <1>4, <1>5, CalmKeeps DEF IInv

LEMMA SameFields ==
    ASSUME NEW v \in Ids,
           ver'[v].art = ver[v].art, ver'[v].path = ver[v].path, ver'[v].run = ver[v].run,
           ver'[v].attempt = ver[v].attempt, ver'[v].parents = ver[v].parents
    PROVE  \A f \in {"art", "path", "run", "attempt", "parents"} : ver'[v][f] = ver[v][f]
  OBVIOUS

\* What a step may do to the row of v.
RowMay(v) ==
    \/ ver'[v] = ver[v]
    \/ /\ ver[v].st # "committed"
       /\ ver'[v].art = ver[v].art /\ ver'[v].path = ver[v].path /\ ver'[v].run = ver[v].run
       /\ ver'[v].attempt = ver[v].attempt /\ ver'[v].parents = ver[v].parents
       /\ \/ ver'[v].st = ver[v].st
          \/ ver[v].st = "pending" /\ ver'[v].st = "failed"
          \/ ver[v].st = "failed" /\ ver'[v].st = "pending"
       /\ ver'[v].act # ver[v].act => ActionGuard(v)

LEMMA RowsGuarded ==
    ASSUME UNCHANGED art, \A v \in Ids : RowMay(v)
    PROVE  Guards
<1>1. CommitsInTime
  BY DEF CommitsInTime, RowMay
<1>2. \A v \in Ids : ver'[v].st # ver[v].st => VersionGuard(v)
  BY SameFields DEF VersionGuard, RowMay
<1>3. \A v \in Ids : ver'[v].act # ver[v].act => ActionGuard(v)
  BY DEF RowMay
<1>4. NeverAborted
  BY <1>2, <1>3 DEF NeverAborted
<1>5. NoLostHead
  BY DEF NoLostHead
<1> QED  BY <1>1, <1>4, <1>5 DEF Guards

LEMMA HeadsRest == ASSUME UNCHANGED art PROVE HeadsCalm
  BY DEF HeadsCalm

LEMMA ClaimKeeps ==
    ASSUME ArtifactAssumption, IInv, NEW w \in Workers, NEW v \in Ids, Claim(w, v)
    PROVE  Kept
<1> DEFINE n == ver[v].epoch + 1
           row == [ver[v] EXCEPT !.act = "claimed", !.owner = w, !.live = TRUE, !.epoch = n]
<1>1. /\ ver[v] \in Versions /\ RowFits(v) /\ v \in Nat /\ Shapes
      /\ ver[v].st = "pending" /\ ver[v].act \in {"pending", "claimed"} /\ Owned(v)
  BY IdFacts DEF IInv, RowsFit, Claim, Claimable
<1>2. n \in Nat
  BY <1>1 DEF Versions
<1>3. ver' = [ver EXCEPT ![v] = row] /\ worker' = [worker EXCEPT ![w] = [pc |-> "publish", on |-> v, epoch |-> n]]
  BY <1>1 DEF Claim, Shapes
<1>4. UNCHANGED <<run, art, disk, snapshots>>
  BY DEF Claim
<1> HIDE DEF n
<1>5. /\ row \in Versions /\ row.act = "claimed" /\ row.owner = w /\ row.live /\ row.st = "pending"
      /\ row.art = ver[v].art /\ row.path = ver[v].path /\ row.run = ver[v].run
      /\ row.attempt = ver[v].attempt /\ row.parents = ver[v].parents
      /\ row.advance = ver[v].advance /\ row.expected = ver[v].expected
      /\ row.base = ver[v].base
  BY <1>1, <1>2 DEF Versions
<1> HIDE DEF row
<1>6. /\ ver'[v] = row /\ Ids' = Ids
      /\ \A u \in Ids : u # v => ver'[u] = ver[u]
  BY <1>1, <1>3, <1>5, OneRow
<1>7. IInv'
  <2>1. RowHolds(v)'
    BY <1>1, <1>4, <1>5, <1>6 DEF RowHolds, Owned, OwnerActive, ActionStates
  <2>2. worker' \in [Workers -> [pc : {"idle", "publish", "complete", "fail"}, on : Nat, epoch : Nat]]
    BY <1>1, <1>2, <1>3 DEF Shapes
  <2>3. \A u \in Workers : worker'[u] # worker[u] => WorkerFits(u)'
    BY <1>1, <1>3, <1>6 DEF WorkerFits, Shapes
  <2>4. HeadsCalm /\ art' \in [Artifacts -> [rev : Nat, head : Nat, past : Seq(Nat)]]
    BY <1>1, <1>4 DEF HeadsCalm, Shapes
  <2> QED  BY <1>1, <1>3, <1>4, <1>5, <2>1, <2>2, <2>3, <2>4, RowMoves
<1>8. Guards
  <2>1. RowMay(v)
    BY <1>1, <1>5, <1>6 DEF RowMay, ActionGuard
  <2> QED  BY <1>4, <1>6, <2>1, RowsGuarded DEF RowMay
<1> QED  BY <1>7, <1>8 DEF Kept

\* Who passes the claim fence holds a pending version.
LEMMA FenceFacts ==
    ASSUME IInv, NEW w \in Workers, worker[w].pc # "idle", FenceCurrent(w)
    PROVE  /\ worker[w].on \in Ids /\ ver[worker[w].on] \in Versions
           /\ RowFits(worker[w].on) /\ WorkerFits(w)
           /\ ver[worker[w].on].st = "pending" /\ ver[worker[w].on].act = "claimed"
<1>1. worker[w].on \in Ids /\ WorkerFits(w)
  BY DEF IInv, WorkersFit, WorkerFits
<1>2. ver[worker[w].on] \in Versions /\ RowFits(worker[w].on)
  BY <1>1, IdFacts DEF IInv, RowsFit
<1>3. ver[worker[w].on].act = "claimed"
  BY <1>2 DEF RowFits, FenceCurrent
<1>4. ver[worker[w].on].st \in {"pending", "committed", "failed"}
  BY <1>2 DEF Versions
<1>5. ver[worker[w].on].st = "pending"
  BY <1>2, <1>3, <1>4 DEF RowFits, ActionStates
<1> QED  BY <1>1, <1>2, <1>3, <1>5

IdleFits == \A w \in Workers : worker'[w] = Idle => WorkerFits(w)'

LEMMA IdleFitsAlways == IdleFits
  BY DEF IdleFits, Idle, WorkerFits

LEMMA CommitKeeps ==
    ASSUME ArtifactAssumption, IInv, NEW w \in Workers, Commit(w)
    PROVE  Kept
<1>v. PICK v : v = worker[w].on
  OBVIOUS
<1>a. PICK a : a = ver[v].art
  OBVIOUS
<1> DEFINE row == [ver[v] EXCEPT !.st = "committed", !.act = "completed", !.owner = None, !.live = FALSE]
<1>1. /\ v \in Ids /\ ver[v] \in Versions /\ RowFits(v) /\ Shapes /\ v \in Nat /\ v # 0
      /\ ver[v].st = "pending" /\ ver[v].act = "claimed" /\ Owned(v) /\ a \in Artifacts
      /\ disk[ver[v].path] = v
  BY <1>v, <1>a, FenceFacts, IdFacts DEF Commit, IInv, WorkerFits, Versions
<1>2. /\ ver' = [ver EXCEPT ![v] = row] /\ worker' = [worker EXCEPT ![w] = Idle]
      /\ UNCHANGED <<run, disk, snapshots>>
  BY <1>v, <1>1 DEF Commit, Shapes
<1>3. art' = IF ver[v].advance /\ HeadUnmoved(v) THEN Moved(a, v) ELSE art
  BY <1>v, <1>a DEF Commit
<1>4. /\ row \in Versions /\ row.act = "completed" /\ row.owner = None /\ row.live = FALSE
      /\ row.st = "committed" /\ row.art = a /\ row.path = ver[v].path /\ row.run = ver[v].run
      /\ row.attempt = ver[v].attempt /\ row.parents = ver[v].parents
      /\ row.advance = ver[v].advance /\ row.expected = ver[v].expected
      /\ row.base = ver[v].base
  BY <1>a, <1>1 DEF Versions
<1>5. HeadFits(a) /\ art[a] \in [rev : Nat, head : Nat, past : Seq(Nat)]
  BY <1>1 DEF IInv, HeadsFit, Shapes
<1> HIDE DEF row
<1>6. /\ ver'[v] = row /\ Ids' = Ids
      /\ \A u \in Ids : u # v => ver'[u] = ver[u]
  BY <1>1, <1>2, <1>4, OneRow
<1>7. /\ \A b \in Artifacts : b # a => art'[b] = art[b]
      /\ \/ art'[a] = art[a]
         \/ /\ ver[v].advance /\ art[a].rev = ver[v].expected
            /\ art'[a] = [rev |-> art[a].rev + 1, head |-> v, past |-> Append(art[a].past, v)]
  BY <1>a, <1>1, <1>3 DEF Moved, HeadUnmoved, Shapes
<1>8. art' \in [Artifacts -> [rev : Nat, head : Nat, past : Seq(Nat)]]
  <2>1. [rev |-> art[a].rev + 1, head |-> v, past |-> Append(art[a].past, v)]
           \in [rev : Nat, head : Nat, past : Seq(Nat)]
    BY <1>1, <1>5
  <2> QED  BY <1>1, <1>3, <2>1 DEF Moved, Shapes
<1>9. art'[a] # art[a] => HeadFits(a)' /\ art'[a].rev = art[a].rev + 1 /\ art'[a].head = v
  BY <1>1, <1>4, <1>5, <1>6, <1>7 DEF HeadFits, Committed
<1>10. IInv'
  <2>1. RowHolds(v)'
    BY <1>1, <1>2, <1>4, <1>6 DEF RowHolds, ActionStates, ArtifactAssumption
  <2>2. worker' \in [Workers -> [pc : {"idle", "publish", "complete", "fail"}, on : Nat, epoch : Nat]]
    BY <1>1, <1>2 DEF Shapes, Idle
  <2>3. \A u \in Workers : worker'[u] # worker[u] => WorkerFits(u)'
    BY <1>1, <1>2, IdleFitsAlways DEF IdleFits, Shapes
  <2>4. HeadsCalm
    BY <1>7, <1>9 DEF HeadsCalm
  <2>5. row.art = ver[v].art
    BY <1>a, <1>4
  <2> QED  BY <1>1, <1>2, <1>4, <1>8, <2>1, <2>2, <2>3, <2>4, <2>5, RowMoves
<1>11. Guards
  <2>1. CommitsInTime
    BY <1>1, <1>6 DEF CommitsInTime
  <2>2. VersionGuard(v) /\ ActionGuard(v)
    <3>1. \A f \in {"art", "path", "run", "attempt", "parents"} : ver'[v][f] = ver[v][f]
      BY <1>a, <1>1, <1>4, <1>6, SameFields
    <3> QED  BY <1>1, <1>4, <1>6, <3>1 DEF VersionGuard, ActionGuard
  <2>3. ASSUME art'[a] # art[a] PROVE HeadGuard(a)
    BY <1>1, <1>4, <1>5, <1>6, <1>9, <2>3 DEF HeadGuard, HeadFits, Committed
  <2>4. NeverAborted
    BY <1>6, <1>7, <2>2, <2>3 DEF NeverAborted
  <2>5. NoLostHead
    BY <1>a, <1>1, <1>6, <1>7 DEF NoLostHead, RowFits
  <2> QED  BY <2>1, <2>4, <2>5 DEF Guards
<1> QED  BY <1>10, <1>11 DEF Kept

LEMMA FailKeeps ==
    ASSUME ArtifactAssumption, IInv, NEW w \in Workers, Fail(w)
    PROVE  Kept
<1>v. PICK v : v = worker[w].on
  OBVIOUS
<1> DEFINE row == [ver[v] EXCEPT !.st = "failed", !.act = "failed", !.owner = None, !.live = FALSE]
<1>1. /\ v \in Ids /\ ver[v] \in Versions /\ Shapes
      /\ ver[v].st = "pending" /\ ver[v].act = "claimed"
  BY <1>v, FenceFacts DEF Fail, IInv
<1>2. /\ ver' = [ver EXCEPT ![v] = row] /\ worker' = [worker EXCEPT ![w] = Idle]
      /\ UNCHANGED <<run, disk, snapshots, art>>
  BY <1>v, <1>1 DEF Fail, Shapes
<1>3. /\ row \in Versions /\ row.act = "failed" /\ row.owner = None /\ row.live = FALSE
      /\ row.st = "failed" /\ row.art = ver[v].art /\ row.path = ver[v].path /\ row.run = ver[v].run
      /\ row.attempt = ver[v].attempt /\ row.parents = ver[v].parents
      /\ row.advance = ver[v].advance /\ row.expected = ver[v].expected
      /\ row.base = ver[v].base
  BY <1>1 DEF Versions
<1> HIDE DEF row
<1>4. /\ ver'[v] = row /\ Ids' = Ids
      /\ \A u \in Ids : u # v => ver'[u] = ver[u]
  BY <1>1, <1>2, <1>3, OneRow
<1>5. IInv'
  <2>1. RowHolds(v)'
    BY <1>3, <1>4 DEF RowHolds, ActionStates, ArtifactAssumption
  <2>2. worker' \in [Workers -> [pc : {"idle", "publish", "complete", "fail"}, on : Nat, epoch : Nat]]
    BY <1>1, <1>2 DEF Shapes, Idle
  <2>3. \A u \in Workers : worker'[u] # worker[u] => WorkerFits(u)'
    BY <1>1, <1>2, IdleFitsAlways DEF IdleFits, Shapes
  <2>4. HeadsCalm /\ art' \in [Artifacts -> [rev : Nat, head : Nat, past : Seq(Nat)]]
    BY <1>1, <1>2 DEF HeadsCalm, Shapes
  <2> QED  BY <1>1, <1>2, <1>3, <2>1, <2>2, <2>3, <2>4, RowMoves
<1>6. Guards
  <2>1. RowMay(v)
    BY <1>1, <1>3, <1>4 DEF RowMay, ActionGuard
  <2> QED  BY <1>2, <1>4, <2>1, RowsGuarded DEF RowMay
<1> QED  BY <1>5, <1>6 DEF Kept

LEMMA ExpireKeeps ==
    ASSUME IInv, NEW v \in Ids, Expire(v)
    PROVE  Kept
<1> DEFINE row == [ver[v] EXCEPT !.live = FALSE]
<1>1. /\ ver[v] \in Versions /\ RowFits(v) /\ Shapes /\ ver[v].live
  BY IdFacts DEF IInv, RowsFit, Expire
<1>2. /\ ver' = [ver EXCEPT ![v] = row]
      /\ UNCHANGED <<run, disk, snapshots, art, worker>>
  BY <1>1 DEF Expire, Shapes
<1>3. /\ row \in Versions /\ row.act = ver[v].act /\ row.owner = ver[v].owner /\ row.live = FALSE
      /\ row.st = ver[v].st /\ row.art = ver[v].art /\ row.path = ver[v].path
      /\ row.run = ver[v].run
      /\ row.attempt = ver[v].attempt /\ row.parents = ver[v].parents
      /\ row.advance = ver[v].advance /\ row.expected = ver[v].expected
      /\ row.base = ver[v].base
  BY <1>1 DEF Versions
<1> HIDE DEF row
<1>4. /\ ver'[v] = row /\ Ids' = Ids
      /\ \A u \in Ids : u # v => ver'[u] = ver[u]
  BY <1>1, <1>2, <1>3, OneRow
<1>5. ver[v].st # "committed"
  BY <1>1 DEF RowFits, ActionStates
<1>6. IInv'
  <2>1. RowHolds(v)'
    BY <1>1, <1>2, <1>3, <1>4 DEF RowHolds, RowFits, Owned, OwnerActive
  <2>2. HeadsCalm /\ art' \in [Artifacts -> [rev : Nat, head : Nat, past : Seq(Nat)]]
    BY <1>1, <1>2 DEF HeadsCalm, Shapes
  <2>3. worker' \in [Workers -> [pc : {"idle", "publish", "complete", "fail"}, on : Nat, epoch : Nat]]
    BY <1>1, <1>2 DEF Shapes
  <2>4. \A u \in Workers : worker'[u] # worker[u] => WorkerFits(u)'
    BY <1>2
  <2> QED  BY <1>2, <1>3, <1>5, <2>1, <2>2, <2>3, <2>4, RowMoves
<1>7. Guards
  <2>1. RowMay(v)
    BY <1>3, <1>4, <1>5 DEF RowMay
  <2> QED  BY <1>2, <1>4, <2>1, RowsGuarded DEF RowMay
<1> QED  BY <1>6, <1>7 DEF Kept

LEMMA RetryKeeps ==
    ASSUME IInv, NEW v \in Ids, RetryMaterialization(v)
    PROVE  Kept
<1> DEFINE row == [ver[v] EXCEPT !.st = "pending", !.act = "pending"]
<1>1. /\ ver[v] \in Versions /\ RowFits(v) /\ Shapes /\ ver[v].act = "failed" /\ Owned(v)
  BY IdFacts DEF IInv, RowsFit, RetryMaterialization
<1>2. /\ ver' = [ver EXCEPT ![v] = row]
      /\ UNCHANGED <<run, disk, snapshots, art, worker>>
  BY <1>1 DEF RetryMaterialization, Shapes
<1>3. /\ row \in Versions /\ row.act = "pending" /\ row.owner = ver[v].owner
      /\ row.live = ver[v].live
      /\ row.st = "pending" /\ row.art = ver[v].art /\ row.path = ver[v].path
      /\ row.run = ver[v].run
      /\ row.attempt = ver[v].attempt /\ row.parents = ver[v].parents
      /\ row.advance = ver[v].advance /\ row.expected = ver[v].expected
      /\ row.base = ver[v].base
  BY <1>1 DEF Versions
<1> HIDE DEF row
<1>4. /\ ver'[v] = row /\ Ids' = Ids
      /\ \A u \in Ids : u # v => ver'[u] = ver[u]
  BY <1>1, <1>2, <1>3, OneRow
<1>5. ver[v].st = "failed"
  <2>1. ver[v].st \in {"pending", "committed", "failed"}
    BY <1>1 DEF Versions
  <2> QED  BY <1>1, <2>1 DEF RowFits, ActionStates
<1>6. IInv'
  <2>1. RowHolds(v)'
    BY <1>1, <1>2, <1>3, <1>4 DEF RowHolds, RowFits, Owned, OwnerActive, ActionStates
  <2>2. HeadsCalm /\ art' \in [Artifacts -> [rev : Nat, head : Nat, past : Seq(Nat)]]
    BY <1>1, <1>2 DEF HeadsCalm, Shapes
  <2>3. worker' \in [Workers -> [pc : {"idle", "publish", "complete", "fail"}, on : Nat, epoch : Nat]]
    BY <1>1, <1>2 DEF Shapes
  <2>4. \A u \in Workers : worker'[u] # worker[u] => WorkerFits(u)'
    BY <1>2
  <2> QED  BY <1>2, <1>3, <1>5, <2>1, <2>2, <2>3, <2>4, RowMoves
<1>7. Guards
  <2>1. RowMay(v)
    BY <1>1, <1>3, <1>4, <1>5 DEF RowMay, ActionGuard
  <2> QED  BY <1>2, <1>4, <2>1, RowsGuarded DEF RowMay
<1> QED  BY <1>6, <1>7 DEF Kept

\* A step that changes no version: each of its other parts is calm.
LEMMA VersionsRest ==
    ASSUME IInv, Shapes', UNCHANGED <<run, ver>>, FilesCalm, HeadsCalm,
           \A w \in Workers : worker'[w] # worker[w] => WorkerFits(w)',
           \A vs \in snapshots' : vs \in snapshots \/ \A v \in vs : Committed(v)
    PROVE  IInv'
<1>1. Calm
  BY DEF Calm, RowsCalm, Ids
<1>2. RowsFit'
  <2>1. ASSUME NEW v \in Ids PROVE RowFits(v)'
    <3>1. ver'[v] = ver[v] /\ (ver[v].st = "pending" => Owned(v)')
      BY DEF IInv, RowsFit, RowFits, Owned, OwnerActive
    <3> QED  BY <1>1, <3>1, RowUntouched
  <2> QED  BY <2>1 DEF RowsFit, Ids
<1>3. WorkersFit'
  BY <1>1, WorkerStays DEF WorkersFit
<1> QED  BY <1>1, <1>2, <1>3, CalmKeeps DEF IInv

LEMMA AdvanceHeadKeeps ==
    ASSUME IInv, NEW r \in Runs, NEW v \in Ids, AdvanceHead(r, v)
    PROVE  Kept
<1>a. PICK a : a = ver[v].art
  OBVIOUS
<1> DEFINE top == [rev |-> art[a].rev + 1, head |-> v, past |-> Append(art[a].past, v)]
<1>1. /\ ver[v] \in Versions /\ a \in Artifacts /\ v \in Nat /\ Shapes
      /\ art[a] \in [rev : Nat, head : Nat, past : Seq(Nat)] /\ HeadFits(a)
      /\ ver[v].st = "committed" /\ art[a].head # v
  BY <1>a, IdFacts DEF IInv, HeadsFit, Shapes, Versions, AdvanceHead
<1>2. /\ art' = [art EXCEPT ![a] = top]
      /\ UNCHANGED <<run, ver, disk, worker, snapshots>>
  BY <1>a DEF AdvanceHead, Moved
<1>3. top \in [rev : Nat, head : Nat, past : Seq(Nat)] /\ top.rev = Len(top.past)
  BY <1>1 DEF HeadFits
<1>4. /\ art' \in [Artifacts -> [rev : Nat, head : Nat, past : Seq(Nat)]]
      /\ art'[a] = top /\ \A b \in Artifacts : b # a => art'[b] = art[b]
  BY <1>1, <1>2, <1>3 DEF Shapes
<1>5. HeadFits(a)'
  BY <1>a, <1>1, <1>2, <1>3, <1>4 DEF HeadFits, Committed, Ids
<1>6. HeadsCalm
  BY <1>4, <1>5 DEF HeadsCalm
<1>7. IInv'
  BY <1>1, <1>2, <1>4, <1>6, VersionsRest DEF Shapes, FilesCalm
<1>8. Guards
  <2>1. HeadGuard(a)
    BY <1>a, <1>1, <1>2, <1>4 DEF HeadGuard
  <2>2. NeverAborted
    BY <1>2, <1>4, <2>1 DEF NeverAborted
  <2> QED  BY <1>2, <2>2 DEF Guards, CommitsInTime, NoLostHead
<1> QED  BY <1>7, <1>8 DEF Kept

LEMMA CreateSnapshotKeeps ==
    ASSUME IInv, NEW r \in Runs, NEW vs \in SUBSET Ids, CreateSnapshot(r, vs)
    PROVE  Kept
<1>1. UNCHANGED <<run, art, ver, disk, worker>> /\ snapshots' = snapshots \union {vs} /\ Freezable(vs)
  BY DEF CreateSnapshot
<1>2. Shapes'
  BY <1>1 DEF IInv, Shapes
<1>3. \A us \in snapshots' : us \in snapshots \/ \A v \in us : Committed(v)
  BY <1>1 DEF Freezable, Committed
<1>4. IInv'
  BY <1>1, <1>2, <1>3, VersionsRest DEF FilesCalm, HeadsCalm
<1> QED  BY <1>1, <1>4, QuietGuards DEF Kept

LEMMA PublishKeeps ==
    ASSUME IInv, NEW w \in Workers, Publish(w)
    PROVE  Kept
<1>v. PICK v : v = worker[w].on
  OBVIOUS
<1>x. PICK x : x = ver[v].path
  OBVIOUS
<1>1. /\ v \in Ids /\ v \in Nat /\ ver[v] \in Versions /\ x \in Paths /\ Shapes
      /\ UNCHANGED <<run, art, ver, snapshots>>
  BY <1>v, <1>x, IdFacts DEF IInv, WorkersFit, WorkerFits, Publish, Versions
<1>2. CASE disk[x] \in {0, v}
  <2>1. /\ disk' = [disk EXCEPT ![x] = v]
        /\ worker' = [worker EXCEPT ![w].pc = "complete"]
    BY <1>v, <1>x, <1>2 DEF Publish
  <2>2. FilesCalm /\ HeadsCalm
    BY <1>1, <1>2, <2>1 DEF FilesCalm, HeadsCalm, Shapes
  <2>3. Shapes'
    BY <1>1, <2>1 DEF Shapes
  <2>4. WorkerFits(w)' /\ \A u \in Workers : u # w => worker'[u] = worker[u]
    BY <1>v, <1>x, <1>1, <2>1 DEF WorkerFits, Shapes, Ids
  <2>5. IInv'
    BY <1>1, <2>2, <2>3, <2>4, VersionsRest
  <2> QED  BY <1>1, <2>5, QuietGuards DEF Kept
<1>3. CASE disk[x] \notin {0, v}
  <2>1. /\ worker' = [worker EXCEPT ![w].pc = "fail"] /\ UNCHANGED disk
    BY <1>v, <1>x, <1>3 DEF Publish
  <2>2. FilesCalm /\ HeadsCalm
    BY <1>1, <2>1 DEF FilesCalm, HeadsCalm
  <2>3. Shapes'
    BY <1>1, <2>1 DEF Shapes
  <2>4. WorkerFits(w)' /\ \A u \in Workers : u # w => worker'[u] = worker[u]
    BY <1>v, <1>1, <2>1 DEF WorkerFits, Shapes, Ids
  <2>5. IInv'
    BY <1>1, <2>2, <2>3, <2>4, VersionsRest
  <2> QED  BY <1>1, <2>5, QuietGuards DEF Kept
<1> QED  BY <1>2, <1>3

LEMMA WorkerStopKeeps ==
    ASSUME IInv, NEW w \in Workers, worker[w].pc # "idle",
           UNCHANGED <<run, art, ver, disk, snapshots>>,
           NEW th, worker' = [worker EXCEPT ![w] = th],
           th = Idle \/ th = [worker[w] EXCEPT !.pc = "fail"]
    PROVE  Kept
<1>1. /\ worker \in [Workers -> [pc : {"idle", "publish", "complete", "fail"}, on : Nat, epoch : Nat]]
      /\ WorkerFits(w)
  BY DEF IInv, Shapes, WorkersFit
<1>2. th \in [pc : {"idle", "publish", "complete", "fail"}, on : Nat, epoch : Nat]
  BY <1>1 DEF Idle
<1>3. Shapes'
  BY <1>1, <1>2 DEF IInv, Shapes
<1>4. worker'[w] = th /\ \A u \in Workers : u # w => worker'[u] = worker[u]
  BY <1>1
<1>5. WorkerFits(w)'
  BY <1>1, <1>4 DEF WorkerFits, Idle, Ids
<1>6. IInv'
  BY <1>3, <1>4, <1>5, VersionsRest DEF FilesCalm, HeadsCalm
<1> QED  BY <1>6, QuietGuards DEF Kept

\* Both fences: what is pending in vs fails, and what is pending elsewhere
\* keeps a live owner.
LEMMA FenceKeeps ==
    ASSUME ArtifactAssumption, IInv, NEW vs, Fence(vs), UNCHANGED <<art, disk, worker, snapshots>>,
           run' \in [Runs -> [active : BOOLEAN, attempt : Nat, retryable : BOOLEAN]],
           \A v \in Ids : v \notin vs /\ ver[v].st = "pending" => Owned(v)'
    PROVE  Kept
<1>1. /\ Shapes /\ Ids = 1..Len(ver) /\ Len(ver) \in Nat
      /\ \A v \in Ids : ver[v] \in Versions /\ RowFits(v)
  BY IdFacts DEF IInv, RowsFit
<1>2. ASSUME NEW v \in Ids, v \in vs, ver[v].st = "pending"
      PROVE  /\ ver'[v] \in Versions
             /\ ver'[v].st = "failed" /\ ver'[v].act = "failed" /\ ver'[v].owner = None
             /\ ver'[v].live = FALSE /\ ver'[v].art = ver[v].art /\ ver'[v].path = ver[v].path
             /\ ver'[v].run = ver[v].run /\ ver'[v].attempt = ver[v].attempt
             /\ ver'[v].parents = ver[v].parents /\ ver'[v].advance = ver[v].advance
             /\ ver'[v].expected = ver[v].expected /\ ver'[v].base = ver[v].base
  <2>1. ver[v] \in Versions
    BY <1>1
  <2>2. PICK n \in Nat : n = ver[v].epoch + 1
    BY <2>1 DEF Versions
  <2>3. ver'[v] = [ver[v] EXCEPT !.st = "failed", !.act = "failed", !.owner = None, !.live = FALSE,
                                 !.epoch = n]
    BY <1>2, <2>1, <2>2 DEF Fence, Versions
  <2> QED  BY <2>1, <2>2, <2>3 DEF Versions
<1>3. ASSUME NEW v \in Ids, ~(v \in vs /\ ver[v].st = "pending") PROVE ver'[v] = ver[v]
  BY <1>3 DEF Fence
<1>4. /\ ver' = [v \in Ids |-> ver'[v]]
      /\ \A v \in Ids : ver'[v] \in Versions
  <2>1. ver' = [v \in Ids |-> ver'[v]]
    BY DEF Fence
  <2> QED  BY <1>1, <1>2, <1>3, <2>1
<1>5. ver' \in Seq(Versions) /\ Len(ver') = Len(ver) /\ Ids' = Ids
  BY <1>1, <1>4 DEF Ids
<1>6. Shapes'
  BY <1>5 DEF IInv, Shapes
<1>7. Calm
  <2>1. RowsCalm
    BY <1>1, <1>2, <1>3, <1>5 DEF RowsCalm
  <2> QED  BY <2>1 DEF Calm, FilesCalm, HeadsCalm
<1>8. ASSUME NEW v \in Ids PROVE RowFits(v)' /\ RowMay(v)
  <2>1. CASE v \in vs /\ ver[v].st = "pending"
    <3>a. ver'[v].st = "failed" /\ ver'[v].act = "failed" /\ ver'[v].owner = None /\ ver'[v].live = FALSE
      BY <1>2, <2>1
    <3>1. RowHolds(v)'
      BY <3>a DEF RowHolds, ActionStates, ArtifactAssumption
    <3>2. ver[v].act \in {"pending", "claimed"}
      BY <1>1, <2>1 DEF RowFits, ActionStates
    <3>3. RowMay(v)
      BY <1>2, <2>1, <3>2 DEF RowMay, ActionGuard
    <3> QED  BY <1>6, <1>7, <3>1, <3>3, RowStays
  <2>2. CASE ~(v \in vs /\ ver[v].st = "pending")
    <3>1. ver'[v] = ver[v] /\ (ver[v].st = "pending" => Owned(v)')
      BY <1>3, <2>2
    <3> QED  BY <1>6, <1>7, <3>1, RowUntouched DEF RowMay
  <2> QED  BY <2>1, <2>2
<1>9. IInv'
  BY <1>5, <1>6, <1>7, <1>8, CalmKeeps, WorkerStays DEF IInv, RowsFit, WorkersFit
<1> QED  BY <1>8, <1>9, RowsGuarded DEF Kept

LEMMA OwnerFacts ==
    ASSUME IInv, NEW v \in Ids, ver[v].st = "pending"
    PROVE  ver[v].run \in Runs /\ run[ver[v].run].active /\ ver[v].attempt = run[ver[v].run].attempt
  BY IdFacts DEF IInv, RowsFit, RowFits, Owned, OwnerActive, Versions

LEMMA EndRunKeeps ==
    ASSUME ArtifactAssumption, IInv, NEW r \in Runs, NEW retryable \in BOOLEAN, EndRun(r, retryable)
    PROVE  Kept
<1>1. /\ run \in [Runs -> [active : BOOLEAN, attempt : Nat, retryable : BOOLEAN]]
      /\ run' = [run EXCEPT ![r].active = FALSE, ![r].retryable = retryable]
      /\ Fence(OfRun(r)) /\ UNCHANGED <<art, disk, worker, snapshots>>
  BY DEF EndRun, IInv, Shapes
<1>2. run' \in [Runs -> [active : BOOLEAN, attempt : Nat, retryable : BOOLEAN]]
  BY <1>1
<1>3. \A q \in Runs : q # r => run'[q] = run[q]
  BY <1>1
<1>4. ASSUME NEW v \in Ids, v \notin OfRun(r), ver[v].st = "pending" PROVE Owned(v)'
  <2>1. ver'[v] = ver[v]
    BY <1>1, <1>4 DEF Fence
  <2> QED  BY <1>3, <1>4, <2>1, OwnerFacts DEF Owned, OwnerActive, OfRun
<1> QED  BY <1>1, <1>2, <1>4, FenceKeeps

LEMMA RestartRunKeeps ==
    ASSUME ArtifactAssumption, IInv, NEW r \in Runs, RestartRun(r)
    PROVE  Kept
<1>1. /\ run \in [Runs -> [active : BOOLEAN, attempt : Nat, retryable : BOOLEAN]]
      /\ run' = [run EXCEPT ![r].active = TRUE, ![r].attempt = @ + 1]
      /\ Fence(OfAttempt(r)) /\ UNCHANGED <<art, disk, worker, snapshots>>
  BY DEF RestartRun, IInv, Shapes
<1>2. PICK n \in Nat : n = run[r].attempt + 1
  BY <1>1
<1>3. run' = [run EXCEPT ![r] = [@ EXCEPT !.active = TRUE, !.attempt = n]]
  BY <1>1, <1>2
<1>4. run' \in [Runs -> [active : BOOLEAN, attempt : Nat, retryable : BOOLEAN]]
  BY <1>1, <1>2, <1>3
<1>5. \A q \in Runs : q # r => run'[q] = run[q]
  BY <1>1
<1>6. ASSUME NEW v \in Ids, v \notin OfAttempt(r), ver[v].st = "pending" PROVE Owned(v)'
  <2>1. ver'[v] = ver[v]
    BY <1>1, <1>6 DEF Fence
  <2> QED  BY <1>5, <1>6, <2>1, OwnerFacts DEF Owned, OwnerActive, OfRun, OfAttempt
<1> QED  BY <1>1, <1>4, <1>6, FenceKeeps

LEMMA RequestKeeps ==
    ASSUME ArtifactAssumption, IInv, NEW r \in Runs, NEW a \in Artifacts, NEW x \in Paths,
           NEW parents \in SUBSET Ids, NEW adv \in BOOLEAN, RequestVersion(r, a, x, parents, adv)
    PROVE  Kept
<1> DEFINE n == Len(ver) + 1
           row == NewVersion(r, a, x, parents, adv)
<1>1. /\ Shapes /\ Ids = 1..Len(ver) /\ Len(ver) \in Nat
      /\ \A v \in Ids : ver[v] \in Versions /\ v \in Nat
      /\ art[a] \in [rev : Nat, head : Nat, past : Seq(Nat)]
      /\ run[r] \in [active : BOOLEAN, attempt : Nat, retryable : BOOLEAN]
  BY IdFacts DEF IInv, Shapes
<1>2. ver' = Append(ver, row) /\ UNCHANGED <<run, art, disk, worker, snapshots>>
  BY DEF RequestVersion
<1>3. row \in Versions
  BY <1>1 DEF NewVersion, Versions
<1>4. /\ row.st = "pending" /\ row.act = "pending" /\ row.owner = None /\ row.live = FALSE
      /\ row.run = r /\ row.attempt = run[r].attempt /\ row.parents = parents /\ row.art = a
      /\ row.advance => row.expected = art[a].rev /\ row.base = art[a].head
  BY DEF NewVersion
<1> HIDE DEF row
<1>5. /\ ver' \in Seq(Versions) /\ Len(ver') = n /\ Ids' = 1..n
      /\ ver'[n] = row /\ \A v \in Ids : ver'[v] = ver[v]
  BY <1>1, <1>2, <1>3 DEF Ids, Shapes
<1>6. Shapes'
  BY <1>1, <1>2, <1>5 DEF Shapes, RequestVersion, ArtifactAssumption
<1>7. Calm
  <2>1. RowsCalm
    BY <1>1, <1>5 DEF RowsCalm
  <2> QED  BY <1>2, <2>1 DEF Calm, FilesCalm, HeadsCalm
<1>8. ASSUME NEW v \in Ids PROVE RowFits(v)'
  <2>1. ver'[v] = ver[v] /\ (ver[v].st = "pending" => Owned(v)')
    BY <1>2, <1>5 DEF IInv, RowsFit, RowFits, Owned, OwnerActive
  <2> QED  BY <1>6, <1>7, <2>1, RowUntouched
<1>9. ASSUME NEW v, v = n PROVE RowFits(v)'
  <2>1. \A p \in parents : Committed(p)'
    BY <1>1, <1>5 DEF RequestVersion, ParentsOk, Committed
  <2>2. run[r].active
    BY DEF RequestVersion
  <2>3. ver'[v] = row
    BY <1>5, <1>9
  <2>4. Owned(v)'
    BY <1>2, <1>4, <2>2, <2>3 DEF Owned, OwnerActive
  <2>5. ver'[v].advance => /\ ver'[v].expected <= art'[ver'[v].art].rev
                           /\ art'[ver'[v].art].head = ver'[v].base
    BY <1>1, <1>2, <1>4, <2>3
  <2>6. \A p \in ver'[v].parents : Committed(p)'
    BY <1>4, <2>1, <2>3
  <2> QED  BY <1>4, <2>3, <2>4, <2>5, <2>6 DEF RowFits, ActionStates, ArtifactAssumption
<1>10. IInv'
  <2>1. \A v \in Ids' : v \in Ids \/ v = n
    BY <1>1, <1>5
  <2>2. RowsFit'
    BY <1>8, <1>9, <2>1 DEF RowsFit
  <2> QED  BY <1>2, <1>6, <1>7, <2>2, CalmKeeps, WorkerStays DEF IInv, WorkersFit
<1> QED  BY <1>2, <1>5, <1>10, RowsGuarded DEF Kept, RowMay

----------------------------------------------------------------------------
(* Theorems *)

LEMMA InitHolds ==
    ASSUME ArtifactAssumption, Init
    PROVE  IInv
<1>1. Ids = {} /\ ver = <<>>
  BY DEF Init, Ids
<1>2. Shapes
  BY <1>1 DEF Init, Shapes, Idle, ArtifactAssumption
<1>3. WorkersFit /\ HeadsFit
  BY DEF Init, WorkersFit, WorkerFits, HeadsFit, HeadFits, Idle
<1> QED  BY <1>1, <1>2, <1>3 DEF Init, IInv, RowsFit, SnapshotsFit, DiskFits

LEMMA StepKeeps ==
    ASSUME ArtifactAssumption, IInv, [Next]_vars
    PROVE  Kept
<1>1. ASSUME NEW r \in Runs, NEW a \in Artifacts, NEW x \in Paths, NEW parents \in SUBSET Ids,
             NEW adv \in BOOLEAN, RequestVersion(r, a, x, parents, adv)
      PROVE  Kept
  BY <1>1, RequestKeeps
<1>2. ASSUME NEW r \in Runs, NEW v \in Ids, AdvanceHead(r, v) PROVE Kept
  BY <1>2, AdvanceHeadKeeps
<1>3. ASSUME NEW r \in Runs, NEW vs \in SUBSET Ids, CreateSnapshot(r, vs) PROVE Kept
  BY <1>3, CreateSnapshotKeeps
<1>4. ASSUME NEW r \in Runs, NEW retryable \in BOOLEAN, EndRun(r, retryable) PROVE Kept
  BY <1>4, EndRunKeeps
<1>5. ASSUME NEW r \in Runs, RestartRun(r) PROVE Kept
  BY <1>5, RestartRunKeeps
<1>6. ASSUME NEW w \in Workers, Deliver(w) PROVE Kept
  <2>1. ASSUME NEW v \in Ids, Claim(w, v) PROVE Kept
    BY <2>1, ClaimKeeps
  <2>2. CASE Publish(w)
    BY <2>2, PublishKeeps
  <2>3. CASE Commit(w)
    BY <2>3, CommitKeeps
  <2>4. CASE Fail(w)
    BY <2>4, FailKeeps
  <2>5. CASE Refused(w)
    <3>1. worker[w].pc # "idle" /\ worker' = [worker EXCEPT ![w] = Idle]
      BY <2>5 DEF Refused
    <3>2. UNCHANGED <<run, art, ver, disk, snapshots>>
      BY <2>5 DEF Refused
    <3> QED  BY <3>1, <3>2, WorkerStopKeeps
  <2> QED  BY <1>6, <2>1, <2>2, <2>3, <2>4, <2>5 DEF Deliver
<1>7. ASSUME NEW w \in Workers, Fault(w) PROVE Kept
  <2>1. worker \in [Workers -> [pc : {"idle", "publish", "complete", "fail"}, on : Nat, epoch : Nat]]
    BY DEF IInv, Shapes
  <2>2. PICK th : worker' = [worker EXCEPT ![w] = th] /\ (th = Idle \/ th = [worker[w] EXCEPT !.pc = "fail"])
    BY <1>7, <2>1 DEF Fault
  <2>3. worker[w].pc # "idle" /\ UNCHANGED <<run, art, ver, disk, snapshots>>
    BY <1>7 DEF Fault
  <2> QED  BY <2>2, <2>3, WorkerStopKeeps
<1>8. ASSUME NEW v \in Ids, Expire(v) PROVE Kept
  BY <1>8, ExpireKeeps
<1>9. ASSUME NEW v \in Ids, RetryMaterialization(v) PROVE Kept
  BY <1>9, RetryKeeps
<1>10. CASE UNCHANGED vars
  <2>1. UNCHANGED <<run, art, ver, disk, worker, snapshots>>
    BY <1>10 DEF vars
  <2>2. Shapes'
    BY <2>1 DEF IInv, Shapes
  <2> QED  BY <2>1, <2>2, VersionsRest, QuietGuards DEF FilesCalm, HeadsCalm, Kept
<1> QED  BY <1>1, <1>2, <1>3, <1>4, <1>5, <1>6, <1>7, <1>8, <1>9, <1>10 DEF Next

LEMMA AlwaysIInv == ASSUME ArtifactAssumption PROVE Spec => []IInv
<1>1. Init => IInv
  BY InitHolds
<1>2. IInv /\ [Next]_vars => IInv'
  BY StepKeeps DEF Kept
<1> QED  BY <1>1, <1>2, PTL DEF Spec

\* The rows of a version and its materialization action are in states that
\* belong together, and only a claimed action has an owner (control/store.py,
\* artifact versions).
THEOREM ArtifactTypes ==
    ASSUME ArtifactAssumption
    PROVE  Spec => []TypeOK
<1>1. ASSUME IInv PROVE TypeOK
  <2>1. /\ Shapes /\ Ids = 1..Len(ver) /\ Len(ver) \in Nat
        /\ \A v \in Ids : ver[v] \in Versions /\ RowFits(v)
    BY <1>1, IdFacts DEF IInv, RowsFit
  <2>2. \A v \in Ids :
          /\ ver[v].art \in Artifacts /\ ver[v].path \in Paths /\ ver[v].run \in Runs
          /\ ver[v].act \in ActionStates[ver[v].st]
          /\ (ver[v].act = "claimed") = (ver[v].owner \in Workers)
          /\ ver[v].live => ver[v].act = "claimed"
    BY <2>1 DEF RowFits, Versions
  <2>3. \A a \in Artifacts : art[a].rev = Len(art[a].past) /\ art[a].head \in Ids \union {0}
    BY <1>1 DEF IInv, HeadsFit, HeadFits, Committed
  <2>4. disk \in [Paths -> 0..MaxVersions]
    BY <1>1, <2>1 DEF IInv, Shapes, DiskFits, ArtifactAssumption
  <2>5. \A w \in Workers : worker[w].pc \in {"idle", "publish", "complete", "fail"}
    BY <2>1 DEF Shapes
  <2> QED  BY <2>2, <2>3, <2>4, <2>5 DEF TypeOK
<1> QED  BY <1>1, AlwaysIInv, PTL

\* What is committed can be read: its bytes are at its path, whichever workers
\* published, lost their claims and were replaced (commit_artifact_version,
\* read_artifact_content_reference).
THEOREM CommittedIsReadable ==
    ASSUME ArtifactAssumption
    PROVE  Spec => []CommittedOnDisk
<1>1. IInv => CommittedOnDisk
  BY DEF IInv, RowsFit, RowFits, CommittedOnDisk, Readable
<1> QED  BY <1>1, AlwaysIInv, PTL

\* Heads, parents and the members of snapshots are committed versions, and a
\* head is one of its artifact's (advance_artifact_head,
\* _validate_artifact_parents).
THEOREM LineageIsCommitted ==
    ASSUME ArtifactAssumption
    PROVE  Spec => []LineageCommitted
<1>1. IInv => LineageCommitted
  BY DEF IInv, RowsFit, RowFits, HeadsFit, HeadFits, SnapshotsFit, Committed, LineageCommitted, ParentsOk
<1> QED  BY <1>1, AlwaysIInv, PTL

\* No version of a run that ended, or of an attempt that was superseded, stays
\* pending (the fences of a run and of an attempt).
THEOREM NothingStranded ==
    ASSUME ArtifactAssumption
    PROVE  Spec => []NoneStranded
<1>1. IInv => NoneStranded
  BY DEF IInv, RowsFit, RowFits, NoneStranded
<1> QED  BY <1>1, AlwaysIInv, PTL

\* A committed version never changes, and none is committed for a run that
\* ended or moved to another attempt (_validate_artifact_run_attempt).
THEOREM CommittedInTime ==
    ASSUME ArtifactAssumption
    PROVE  Spec => [][CommitsInTime]_vars
<1>1. IInv /\ [Next]_vars => [CommitsInTime]_vars
  BY StepKeeps DEF Kept, Guards
<1> QED  BY <1>1, AlwaysIInv, PTL DEF Spec

\* No trigger of the schema refuses an update that the store makes (schema.py,
\* artifact triggers).
THEOREM UpdatesAreLegal ==
    ASSUME ArtifactAssumption
    PROVE  Spec => [][NeverAborted]_vars
<1>1. IInv /\ [Next]_vars => [NeverAborted]_vars
  BY StepKeeps DEF Kept, Guards
<1> QED  BY <1>1, AlwaysIInv, PTL DEF Spec

\* A commit moves the head only from the very head that its request saw
\* (commit_artifact_version, expected_head_revision).
THEOREM HeadsAreNotLost ==
    ASSUME ArtifactAssumption
    PROVE  Spec => [][NoLostHead]_vars
<1>1. IInv /\ [Next]_vars => [NoLostHead]_vars
  BY StepKeeps DEF Kept, Guards
<1> QED  BY <1>1, AlwaysIInv, PTL DEF Spec
===============================================================================
