------------------------ MODULE RuntimeUpdaterProofs ------------------------
(***************************************************************************)
(* Theorems about RuntimeUpdater, for every set of releases, slots,        *)
(* interpreters and attempts, any manifests, and any number of commands,   *)
(* crashes and decisions.  The invariant says that the disk is Sound, that *)
(* every state the running command will still leave is, and that each      *)
(* write between two of them is one it may do.  One lemma per command      *)
(* proves it of the command's plan, and the steps only walk along plans.   *)
(***************************************************************************)
EXTENDS RuntimeUpdater, FiniteSetTheorems, TLAPS

STATUSES == {"absent", "verified", "staged", "certified", "active",
             "last_known_good", "quarantined"}

Disk ==
    [reg : [Releases -> [st : STATUSES, gen : 0..MaxGens]],
     seq : Nat, frozen : BOOLEAN,
     slot : [Slots -> Releases \cup {None, Torn}],
     gens : SUBSET (Releases \X (1..MaxGens)), nextgen : 1..(MaxGens + 1),
     tree : [Interps -> {None, Torn, "whole"}], pin : [Interps -> BOOLEAN],
     active : Pointers, lkg : Pointers,
     journal : [on : BOOLEAN, old : Pointers, cand : Pointers],
     pins : [Attempts -> Pointers]]

\* What a pointer needs to run, on a given disk.
CanRun(x, p) ==
    /\ x.slot[SlotOf[p.rel]] = p.rel
    /\ <<p.rel, p.gen>> \in x.gens
    /\ Reusable(x, InterpOf[p.rel])

\* Whom a later step may still start: the pointers, the pins, and the pointer
\* an open journal would restore.
Named(x) ==
    {x.active, x.lkg} \cup {x.pins[a] : a \in Attempts}
    \cup (IF x.journal.on THEN {x.journal.old} ELSE {})

NamedRuns(x) ==
    \A p \in Named(x) \ {NoPtr} : CanRun(x, p) /\ Registered(x, p.rel)

\* A staged generation that is still there can be started, too.
StagedRuns(x) ==
    \A r \in Releases : <<r, x.reg[r].gen>> \in x.gens => CanRun(x, Candidate(x, r))

\* A generation's number is never given out twice.
GensAreFresh(x) ==
    /\ \A g \in x.gens : g[2] < x.nextgen
    /\ \A r \in Releases : x.reg[r].gen < x.nextgen
    /\ \A r \in Releases : ~Registered(x, r) => x.reg[r].gen = 0

FallbackHasActive(x) ==
    x.lkg # NoPtr => /\ x.active # NoPtr
                     /\ x.journal.on => x.journal.old # NoPtr

\* A slot holds a release of its own, and one that was torn belongs to a
\* release that the next prune will find.
SlotsAreKnown(x) ==
    \A s \in Slots :
       /\ x.slot[s] = Torn => \E r \in Releases : Registered(x, r) /\ SlotOf[r] = s
       /\ x.slot[s] \in Releases => SlotOf[x.slot[s]] = s

Sound(x) ==
    /\ x \in Disk
    /\ NamedRuns(x) /\ StagedRuns(x) /\ GensAreFresh(x) /\ FallbackHasActive(x)
    /\ SlotsAreKnown(x)

\* What one durable write may do, when the command found A approved.
MayWrite(x, y, A) ==
    /\ y.active # x.active =>
          y.active.rel \in A \/ (x.journal.on /\ y.active = x.journal.old)
    /\ \A a \in Attempts :
          y.pins[a] # NoPtr /\ y.pins[a] # x.pins[a] => y.pins[a].rel \in A
    /\ x.journal.on /\ ~y.journal.on =>
          \/ y.active = x.journal.old
          \/ /\ y.active = x.journal.cand
             /\ y.reg[x.journal.cand.rel].st = "active"

\* Every state that a command will leave on disk is sound, and every write
\* between two of them is one it may do.
SoundPlan(x, plan, A) ==
    /\ plan \in Seq(Disk)
    /\ \A k \in 1..Len(plan) : Sound(plan[k])
    /\ plan # <<>> => MayWrite(x, plan[1], A)
    /\ \A k \in 1..(Len(plan) - 1) : MayWrite(plan[k], plan[k + 1], A)

IInv == Sound(d) /\ SoundPlan(d, todo, vetted)
-----------------------------------------------------------------------------
(* Plans. *)

LEMMA PlanNone ==
    ASSUME NEW x, NEW A
    PROVE  SoundPlan(x, <<>>, A) /\ Last(x, <<>>) = x
BY DEF SoundPlan, Last

LEMMA PlanOne ==
    ASSUME NEW x, NEW A, NEW y, Sound(y), MayWrite(x, y, A)
    PROVE  SoundPlan(x, <<y>>, A) /\ Last(x, <<y>>) = y /\ <<y>> # <<>>
<1>1. y \in Disk
  BY DEF Sound
<1>2. /\ <<y>> \in Seq(Disk) /\ Len(<<y>>) = 1 /\ <<y>>[1] = y
      /\ <<y>> # <<>>
  BY <1>1
<1> HIDE DEF Disk, Sound, MayWrite
<1> QED  BY <1>2 DEF SoundPlan, Last

\* A command that goes on where another one ends.
LEMMA PlanThen ==
    ASSUME NEW x, NEW A, NEW p, NEW q,
           SoundPlan(x, p, A), SoundPlan(Last(x, p), q, A)
    PROVE  /\ SoundPlan(x, p \o q, A)
           /\ Last(x, p \o q) = Last(Last(x, p), q)
<1> HIDE DEF Disk, Sound, MayWrite
<1>1. p \in Seq(Disk) /\ q \in Seq(Disk)
  BY DEF SoundPlan
<1>2. /\ p \o q \in Seq(Disk) /\ Len(p \o q) = Len(p) + Len(q)
      /\ Len(p) \in Nat /\ Len(q) \in Nat
      /\ \A k \in 1..Len(p) : (p \o q)[k] = p[k]
      /\ \A k \in 1..Len(q) : (p \o q)[Len(p) + k] = q[k]
  <2>1. p \o q \in Seq(Disk) /\ Len(p \o q) = Len(p) + Len(q)
    BY <1>1
  <2>2. Len(p) \in Nat /\ Len(q) \in Nat
    BY <1>1
  <2>3. \A k \in 1..Len(p) : (p \o q)[k] = p[k]
    BY <1>1, <2>2
  <2>4. \A k \in 1..Len(q) : (p \o q)[Len(p) + k] = q[k]
    <3> TAKE k \in 1..Len(q)
    <3>1. /\ Len(p) + k \in 1..(Len(p) + Len(q)) /\ Len(p) + k > Len(p)
          /\ (Len(p) + k) - Len(p) = k
      BY <2>2
    <3> QED  BY <1>1, <2>2, <3>1
  <2> QED  BY <2>1, <2>2, <2>3, <2>4
<1>3. \A k \in 1..(Len(p) + Len(q)) : k > Len(p) => k - Len(p) \in 1..Len(q)
  BY <1>2
<1>4. \A k \in 1..Len(p \o q) : Sound((p \o q)[k])
  <2> SUFFICES ASSUME NEW k \in 1..Len(p \o q)
               PROVE  Sound((p \o q)[k])
    OBVIOUS
  <2>1. CASE k <= Len(p)
    BY <1>2, <2>1 DEF SoundPlan
  <2>2. CASE k > Len(p)
    <3>1. k - Len(p) \in 1..Len(q) /\ Len(p) + (k - Len(p)) = k
      BY <1>2, <2>2
    <3> QED  BY <1>2, <3>1 DEF SoundPlan
  <2> QED  BY <1>2, <2>1, <2>2
<1>5. p \o q # <<>> => MayWrite(x, (p \o q)[1], A)
  <2>1. CASE p = <<>>
    BY <1>1, <1>2, <2>1 DEF SoundPlan, Last
  <2>2. CASE p # <<>>
    <3>1. 1 \in 1..Len(p)
      BY <1>1, <2>2
    <3> QED  BY <1>2, <2>2, <3>1 DEF SoundPlan
  <2> QED  BY <2>1, <2>2
<1>6. \A k \in 1..(Len(p \o q) - 1) : MayWrite((p \o q)[k], (p \o q)[k + 1], A)
  <2> SUFFICES ASSUME NEW k \in 1..(Len(p \o q) - 1)
               PROVE  MayWrite((p \o q)[k], (p \o q)[k + 1], A)
    OBVIOUS
  <2>1. CASE k < Len(p)
    <3>1. k \in 1..(Len(p) - 1) /\ k \in 1..Len(p) /\ k + 1 \in 1..Len(p)
      BY <1>2, <2>1
    <3> QED  BY <1>2, <3>1 DEF SoundPlan
  <2>2. CASE k = Len(p)
    <3>1. p # <<>> /\ q # <<>> /\ k \in 1..Len(p) /\ 1 \in 1..Len(q)
      BY <1>1, <1>2, <2>2
    <3>2. (p \o q)[k] = Last(x, p) /\ (p \o q)[k + 1] = q[1]
      BY <1>2, <2>2, <3>1 DEF Last
    <3> QED  BY <3>1, <3>2 DEF SoundPlan
  <2>3. CASE k > Len(p)
    <3>1. /\ k - Len(p) \in 1..(Len(q) - 1) /\ k - Len(p) \in 1..Len(q)
          /\ (k - Len(p)) + 1 \in 1..Len(q)
          /\ Len(p) + (k - Len(p)) = k
          /\ Len(p) + ((k - Len(p)) + 1) = k + 1
      BY <1>2, <2>3
    <3>2. /\ (p \o q)[k] = q[k - Len(p)]
          /\ (p \o q)[k + 1] = q[(k - Len(p)) + 1]
      BY <1>2, <3>1
    <3> QED  BY <3>1, <3>2 DEF SoundPlan
  <2> QED  BY <1>2, <2>1, <2>2, <2>3
<1>7. Last(x, p \o q) = Last(Last(x, p), q)
  <2>1. CASE q = <<>>
    <3>1. p \o q = p
      BY <1>1, <2>1
    <3> QED  BY <2>1, <3>1 DEF Last
  <2>2. CASE q # <<>>
    <3>1. Len(q) \in 1..Len(q) /\ p \o q # <<>>
      BY <1>1, <1>2, <2>2
    <3> QED  BY <1>2, <2>2, <3>1 DEF Last
  <2> QED  BY <2>1, <2>2
<1> QED  BY <1>2, <1>4, <1>5, <1>6, <1>7 DEF SoundPlan

LEMMA LastOfMore ==
    ASSUME NEW x, NEW p \in Seq(Disk), NEW y
    PROVE  Last(x, p \o <<y>>) = y
<1> HIDE DEF Disk
<1>1. /\ Len(p \o <<y>>) = Len(p) + 1 /\ Len(p) \in Nat
      /\ (p \o <<y>>)[Len(p) + 1] = y
  OBVIOUS
<1>2. p \o <<y>> # <<>>
  BY <1>1
<1> QED  BY <1>1, <1>2 DEF Last

\* One more write after a plan.
LEMMA PlanAdd ==
    ASSUME NEW x, NEW A, NEW p, NEW y,
           SoundPlan(x, p, A), Sound(y), MayWrite(Last(x, p), y, A)
    PROVE  SoundPlan(x, p \o <<y>>, A) /\ Last(x, p \o <<y>>) = y
<1> HIDE DEF Disk, Sound, MayWrite, SoundPlan, Last
<1> QED  BY PlanOne, PlanThen

\* A command dies or goes on after its first write.
LEMMA PlanRest ==
    ASSUME NEW x, NEW A, NEW p, SoundPlan(x, p, A), p # <<>>
    PROVE  /\ Sound(Head(p)) /\ MayWrite(x, Head(p), A)
           /\ SoundPlan(Head(p), Tail(p), A)
<1> HIDE DEF Disk, Sound, MayWrite
<1>1. /\ p \in Seq(Disk) /\ Len(p) \in Nat \ {0}
      /\ Head(p) = p[1] /\ Tail(p) \in Seq(Disk)
      /\ Len(Tail(p)) = Len(p) - 1
      /\ \A k \in 1..Len(Tail(p)) : Tail(p)[k] = p[k + 1]
  BY DEF SoundPlan
<1>2. 1 \in 1..Len(p)
  BY <1>1
<1>3. \A k \in 1..Len(Tail(p)) : Sound(Tail(p)[k])
  BY <1>1 DEF SoundPlan
<1>4. Tail(p) # <<>> => MayWrite(p[1], Tail(p)[1], A)
  <2> HAVE Tail(p) # <<>>
  <2>1. Len(Tail(p)) # 0
    BY <1>1
  <2>2. 1 \in 1..Len(Tail(p)) /\ 1 \in 1..(Len(p) - 1)
    BY <1>1, <2>1
  <2> QED  BY <1>1, <2>2 DEF SoundPlan
<1>5. \A k \in 1..(Len(Tail(p)) - 1) : MayWrite(Tail(p)[k], Tail(p)[k + 1], A)
  <2> SUFFICES ASSUME NEW k \in 1..(Len(Tail(p)) - 1)
               PROVE  MayWrite(Tail(p)[k], Tail(p)[k + 1], A)
    OBVIOUS
  <2>1. /\ k \in 1..Len(Tail(p)) /\ k + 1 \in 1..Len(Tail(p))
        /\ k + 1 \in 1..(Len(p) - 1)
    BY <1>1
  <2> QED  BY <1>1, <2>1 DEF SoundPlan
<1> QED  BY <1>1, <1>2, <1>3, <1>4, <1>5 DEF SoundPlan

\* Plans of two, three, four and six writes.
LEMMA PlanTwo ==
    ASSUME NEW x, NEW A, NEW y1, NEW y2, Sound(y1), Sound(y2),
           MayWrite(x, y1, A), MayWrite(y1, y2, A)
    PROVE  /\ SoundPlan(x, <<y1, y2>>, A)
           /\ Last(x, <<y1, y2>>) = y2
<1>1. /\ y1 \in Disk
      /\ y2 \in Disk
  BY DEF Sound
<1> HIDE DEF Disk, Sound, MayWrite
<1> DEFINE p == <<y1, y2>>
<1>2. /\ p \in Seq(Disk) /\ Len(p) = 2 /\ p # <<>>
      /\ p[1] = y1
      /\ p[2] = y2
  BY <1>1
<1>3. \A k \in 1..2 : k = 1 \/ k = 2
  OBVIOUS
<1>4. \A k \in 1..1 : k = 1
  OBVIOUS
<1>5. 2 - 1 = 1
  OBVIOUS
<1> HIDE DEF p
<1>6. \A k \in 1..2 : Sound(p[k])
  BY <1>2, <1>3
<1>7. \A k \in 1..1 : MayWrite(p[k], p[k + 1], A)
  BY <1>2, <1>4
<1>8. SoundPlan(x, p, A) /\ Last(x, p) = y2
  BY <1>2, <1>5, <1>6, <1>7 DEF SoundPlan, Last
<1> QED  BY <1>8 DEF p

LEMMA PlanThree ==
    ASSUME NEW x, NEW A, NEW y1, NEW y2, NEW y3, Sound(y1), Sound(y2),
           Sound(y3), MayWrite(x, y1, A), MayWrite(y1, y2, A),
           MayWrite(y2, y3, A)
    PROVE  /\ SoundPlan(x, <<y1, y2, y3>>, A)
           /\ Last(x, <<y1, y2, y3>>) = y3
<1>1. /\ y1 \in Disk
      /\ y2 \in Disk
      /\ y3 \in Disk
  BY DEF Sound
<1> HIDE DEF Disk, Sound, MayWrite
<1> DEFINE p == <<y1, y2, y3>>
<1>2. /\ p \in Seq(Disk) /\ Len(p) = 3 /\ p # <<>>
      /\ p[1] = y1
      /\ p[2] = y2
      /\ p[3] = y3
  BY <1>1
<1>3. \A k \in 1..3 : k = 1 \/ k = 2 \/ k = 3
  OBVIOUS
<1>4. \A k \in 1..2 : k = 1 \/ k = 2
  OBVIOUS
<1>5. 3 - 1 = 2
  OBVIOUS
<1> HIDE DEF p
<1>6. \A k \in 1..3 : Sound(p[k])
  BY <1>2, <1>3
<1>7. \A k \in 1..2 : MayWrite(p[k], p[k + 1], A)
  BY <1>2, <1>4
<1>8. SoundPlan(x, p, A) /\ Last(x, p) = y3
  BY <1>2, <1>5, <1>6, <1>7 DEF SoundPlan, Last
<1> QED  BY <1>8 DEF p

LEMMA PlanFour ==
    ASSUME NEW x, NEW A, NEW y1, NEW y2, NEW y3, NEW y4, Sound(y1),
           Sound(y2), Sound(y3), Sound(y4), MayWrite(x, y1, A),
           MayWrite(y1, y2, A), MayWrite(y2, y3, A), MayWrite(y3, y4, A)
    PROVE  /\ SoundPlan(x, <<y1, y2, y3, y4>>, A)
           /\ Last(x, <<y1, y2, y3, y4>>) = y4
<1>1. /\ y1 \in Disk
      /\ y2 \in Disk
      /\ y3 \in Disk
      /\ y4 \in Disk
  BY DEF Sound
<1> HIDE DEF Disk, Sound, MayWrite
<1> DEFINE p == <<y1, y2, y3, y4>>
<1>2. /\ p \in Seq(Disk) /\ Len(p) = 4 /\ p # <<>>
      /\ p[1] = y1
      /\ p[2] = y2
      /\ p[3] = y3
      /\ p[4] = y4
  BY <1>1
<1>3. \A k \in 1..4 : k = 1 \/ k = 2 \/ k = 3 \/ k = 4
  OBVIOUS
<1>4. \A k \in 1..3 : k = 1 \/ k = 2 \/ k = 3
  OBVIOUS
<1>5. 4 - 1 = 3
  OBVIOUS
<1> HIDE DEF p
<1>6. \A k \in 1..4 : Sound(p[k])
  BY <1>2, <1>3
<1>7. \A k \in 1..3 : MayWrite(p[k], p[k + 1], A)
  BY <1>2, <1>4
<1>8. SoundPlan(x, p, A) /\ Last(x, p) = y4
  BY <1>2, <1>5, <1>6, <1>7 DEF SoundPlan, Last
<1> QED  BY <1>8 DEF p

LEMMA PlanSix ==
    ASSUME NEW x, NEW A, NEW y1, NEW y2, NEW y3, NEW y4, NEW y5, NEW y6,
           Sound(y1), Sound(y2), Sound(y3), Sound(y4), Sound(y5),
           Sound(y6), MayWrite(x, y1, A), MayWrite(y1, y2, A),
           MayWrite(y2, y3, A), MayWrite(y3, y4, A), MayWrite(y4, y5, A),
           MayWrite(y5, y6, A)
    PROVE  /\ SoundPlan(x, <<y1, y2, y3, y4, y5, y6>>, A)
           /\ Last(x, <<y1, y2, y3, y4, y5, y6>>) = y6
<1>1. /\ y1 \in Disk
      /\ y2 \in Disk
      /\ y3 \in Disk
      /\ y4 \in Disk
      /\ y5 \in Disk
      /\ y6 \in Disk
  BY DEF Sound
<1> HIDE DEF Disk, Sound, MayWrite
<1> DEFINE p == <<y1, y2, y3, y4, y5, y6>>
<1>2. /\ p \in Seq(Disk) /\ Len(p) = 6 /\ p # <<>>
      /\ p[1] = y1
      /\ p[2] = y2
      /\ p[3] = y3
      /\ p[4] = y4
      /\ p[5] = y5
      /\ p[6] = y6
  BY <1>1
<1>3. \A k \in 1..6 : k = 1 \/ k = 2 \/ k = 3 \/ k = 4 \/ k = 5 \/ k = 6
  OBVIOUS
<1>4. \A k \in 1..5 : k = 1 \/ k = 2 \/ k = 3 \/ k = 4 \/ k = 5
  OBVIOUS
<1>5. 6 - 1 = 5
  OBVIOUS
<1> HIDE DEF p
<1>6. \A k \in 1..6 : Sound(p[k])
  BY <1>2, <1>3
<1>7. \A k \in 1..5 : MayWrite(p[k], p[k + 1], A)
  BY <1>2, <1>4
<1>8. SoundPlan(x, p, A) /\ Last(x, p) = y6
  BY <1>2, <1>5, <1>6, <1>7 DEF SoundPlan, Last
<1> QED  BY <1>8 DEF p
-----------------------------------------------------------------------------
(* Writes.  A write leaves the pointers alone, or it leaves the slots, the  *)
(* generations and the interpreters alone.                                  *)

SamePointers(x, y) ==
    /\ y.active = x.active /\ y.lkg = x.lkg
    /\ y.journal = x.journal /\ y.pins = x.pins

SameTrees(x, y) ==
    /\ y.slot = x.slot /\ y.gens = x.gens /\ y.nextgen = x.nextgen
    /\ y.tree = x.tree /\ y.pin = x.pin

LEMMA DiskTypes ==
    ASSUME NEW x \in Disk
    PROVE  /\ x.reg \in [Releases -> [st : STATUSES, gen : 0..MaxGens]]
           /\ x.seq \in Nat /\ x.frozen \in BOOLEAN
           /\ x.slot \in [Slots -> Releases \cup {None, Torn}]
           /\ x.gens \in SUBSET (Releases \X (1..MaxGens))
           /\ x.nextgen \in 1..(MaxGens + 1)
           /\ x.tree \in [Interps -> {None, Torn, "whole"}]
           /\ x.pin \in [Interps -> BOOLEAN]
           /\ x.active \in Pointers /\ x.lkg \in Pointers
           /\ x.journal \in [on : BOOLEAN, old : Pointers, cand : Pointers]
           /\ x.pins \in [Attempts -> Pointers]
BY DEF Disk

LEMMA PointerTypes ==
    ASSUME UpdaterAssumption, NEW p \in Pointers
    PROVE  /\ p # NoPtr => p.rel \in Releases /\ p.gen \in 1..MaxGens
           /\ p # NoPtr => p.rel # None
           /\ p = NoPtr => p.rel = None
           /\ p.rel \in Releases \cup {None}
           /\ p = [rel |-> p.rel, gen |-> p.gen]
BY DEF Pointers, NoPtr, UpdaterAssumption

LEMMA NamedArePointers ==
    ASSUME NEW x \in Disk
    PROVE  Named(x) \subseteq Pointers
BY DiskTypes DEF Named

LEMMA Unmoved ==
    ASSUME NEW x, NEW y, NEW A, SamePointers(x, y)
    PROVE  MayWrite(x, y, A)
BY DEF SamePointers, MayWrite

LEMMA SlotsKept ==
    ASSUME NEW x, NEW y, Sound(x),
           \A s \in Slots : y.slot[s] = x.slot[s] \/ y.slot[s] = None
                              \/ (y.slot[s] \in Releases /\ SlotOf[y.slot[s]] = s),
           UpdaterAssumption,
           \A r \in Releases : Registered(x, r) => Registered(y, r)
    PROVE  SlotsAreKnown(y)
BY DEF Sound, SlotsAreKnown, UpdaterAssumption, None, Torn

\* The pointers are not written.
LEMMA KeepNames ==
    ASSUME NEW x, NEW y, Sound(x), y \in Disk, SamePointers(x, y),
           \A p \in Named(x) \ {NoPtr} : CanRun(y, p) /\ Registered(y, p.rel),
           StagedRuns(y), GensAreFresh(y), SlotsAreKnown(y)
    PROVE  Sound(y)
<1>1. Named(y) = Named(x)
  BY DEF SamePointers, Named
<1>2. NamedRuns(y)
  BY <1>1 DEF NamedRuns
<1>3. FallbackHasActive(y)
  BY DEF SamePointers, FallbackHasActive, Sound
<1> QED  BY <1>2, <1>3 DEF Sound

\* Only the pointers are written.
LEMMA KeepTrees ==
    ASSUME UpdaterAssumption, NEW x, NEW y, Sound(x), y \in Disk, SameTrees(x, y), y.reg = x.reg,
           \A p \in Named(y) \ {NoPtr} :
              p \in Named(x) \/ (CanRun(x, p) /\ Registered(x, p.rel)),
           FallbackHasActive(y)
    PROVE  Sound(y)
<1>1. \A p : CanRun(y, p) <=> CanRun(x, p)
  BY DEF SameTrees, CanRun, Reusable
<1>2. \A p : Registered(y, p.rel) <=> Registered(x, p.rel)
  BY DEF Registered
<1>3. NamedRuns(y)
  BY <1>1, <1>2 DEF NamedRuns, Sound
<1>4. StagedRuns(y)
  <2>1. \A r : Candidate(y, r) = Candidate(x, r)
    BY DEF Candidate
  <2> QED  BY <1>1, <2>1 DEF StagedRuns, Sound, SameTrees
<1>5. GensAreFresh(y)
  BY DEF GensAreFresh, Sound, SameTrees, Registered
<1>6. SlotsAreKnown(y)
  BY <1>2, SlotsKept DEF SameTrees, Registered
<1> QED  BY <1>3, <1>4, <1>5, <1>6 DEF Sound

\* The registry's states say nothing that a pointer rests on.
LEMMA StatusWrites ==
    ASSUME UpdaterAssumption, NEW x \in Disk, NEW r \in Releases \cup {None},
           NEW st \in STATUSES \ {"absent"}
    PROVE  LET y == Status(x, r, st) IN
           /\ y \in Disk /\ SamePointers(x, y) /\ SameTrees(x, y)
           /\ y.frozen = x.frozen
           /\ \A q \in Releases :
                 /\ y.reg[q].gen = x.reg[q].gen
                 /\ Registered(y, q) <=> Registered(x, q)
           /\ r # None /\ Registered(x, r) => y.reg[r].st = st
<1> DEFINE y == Status(x, r, st)
<1>1. /\ y \in Disk /\ SamePointers(x, y) /\ SameTrees(x, y)
      /\ y.frozen = x.frozen
      /\ \A q \in Releases :
            /\ y.reg[q].gen = x.reg[q].gen
            /\ y.reg[q].st \in {x.reg[q].st, st}
            /\ Registered(y, q) <=> Registered(x, q)
      /\ r # None /\ Registered(x, r) => y.reg[r].st = st
  <2>1. CASE r = None
    BY <2>1 DEF Status, SamePointers, SameTrees
  <2>2. CASE r # None
    <3> DEFINE row == [x.reg[r] EXCEPT !.st = IF @ = "absent" THEN @ ELSE st]
    <3>1. y = [x EXCEPT !.reg = [@ EXCEPT ![r] = row]]
      BY <2>2 DEF Status
    <3>2. x.reg \in [Releases -> [st : STATUSES, gen : 0..MaxGens]]
      BY DiskTypes
    <3>3. /\ row \in [st : STATUSES, gen : 0..MaxGens]
          /\ row.gen = x.reg[r].gen
          /\ row.st = IF x.reg[r].st = "absent" THEN "absent" ELSE st
      BY <2>2, <3>2
    <3> HIDE DEF row
    <3>4. [x.reg EXCEPT ![r] = row] \in [Releases -> [st : STATUSES, gen : 0..MaxGens]]
      BY <3>2, <3>3
    <3>5. /\ y \in Disk /\ SamePointers(x, y) /\ SameTrees(x, y)
          /\ y.frozen = x.frozen
          /\ y.reg = [x.reg EXCEPT ![r] = row]
      BY <3>1, <3>4 DEF Disk, SamePointers, SameTrees
    <3> HIDE DEF y
    <3> QED  BY <2>2, <3>2, <3>3, <3>5 DEF Registered
  <2> QED  BY <2>1, <2>2
<1> QED  BY <1>1 DEF y

LEMMA StatusKeeps ==
    ASSUME UpdaterAssumption, NEW x, Sound(x), NEW r \in Releases \cup {None},
           NEW st \in STATUSES \ {"absent"}
    PROVE  LET y == Status(x, r, st) IN
           /\ Sound(y) /\ SamePointers(x, y) /\ SameTrees(x, y)
           /\ y.frozen = x.frozen
           /\ \A q \in Releases : Registered(y, q) <=> Registered(x, q)
           /\ r # None /\ Registered(x, r) => y.reg[r].st = st
<1> DEFINE y == Status(x, r, st)
<1>0. x \in Disk
  BY DEF Sound
<1>1. /\ y \in Disk /\ SamePointers(x, y) /\ SameTrees(x, y)
      /\ y.frozen = x.frozen
      /\ \A q \in Releases :
            /\ y.reg[q].gen = x.reg[q].gen
            /\ Registered(y, q) <=> Registered(x, q)
      /\ r # None /\ Registered(x, r) => y.reg[r].st = st
  BY <1>0, StatusWrites
<1> HIDE DEF y
<1>2. \A p : CanRun(y, p) <=> CanRun(x, p)
  BY <1>1 DEF SameTrees, CanRun, Reusable
<1>3. \A p \in Named(x) \ {NoPtr} : CanRun(y, p) /\ Registered(y, p.rel)
  <2> TAKE p \in Named(x) \ {NoPtr}
  <2>1. p.rel \in Releases
    BY <1>0, NamedArePointers, PointerTypes
  <2> QED  BY <1>1, <1>2, <2>1 DEF Sound, NamedRuns
<1>4. StagedRuns(y)
  <2> SUFFICES ASSUME NEW q \in Releases, <<q, y.reg[q].gen>> \in y.gens
               PROVE  CanRun(y, Candidate(y, q))
    BY DEF StagedRuns
  <2>1. Candidate(y, q) = Candidate(x, q) /\ <<q, x.reg[q].gen>> \in x.gens
    BY <1>1 DEF Candidate, SameTrees
  <2> QED  BY <1>2, <2>1 DEF Sound, StagedRuns
<1>5. GensAreFresh(y)
  BY <1>1 DEF Sound, GensAreFresh, SameTrees
<1>6. Sound(y)
  <2>1. SlotsAreKnown(y)
    BY <1>1, SlotsKept DEF SameTrees
  <2> QED  BY <1>1, <1>3, <1>4, <1>5, <2>1, KeepNames
<1> QED  BY <1>1, <1>6 DEF y
-----------------------------------------------------------------------------
(* Import and stage. *)

\* What is named or staged has a release whose rows exist.
LEMMA SoundFacts ==
    ASSUME UpdaterAssumption, NEW x, Sound(x)
    PROVE  /\ x \in Disk
           /\ \A p \in Named(x) \ {NoPtr} :
                 /\ p.rel \in Releases /\ p.gen \in 1..MaxGens
                 /\ CanRun(x, p) /\ Registered(x, p.rel)
           /\ \A r \in Releases : <<r, x.reg[r].gen>> \in x.gens =>
                 CanRun(x, Candidate(x, r)) /\ Registered(x, r)
<1>1. x \in Disk
  BY DEF Sound
<1>2. \A p \in Named(x) \ {NoPtr} : p.rel \in Releases /\ p.gen \in 1..MaxGens
  BY <1>1, NamedArePointers, PointerTypes
<1>3. \A r \in Releases : <<r, x.reg[r].gen>> \in x.gens => Registered(x, r)
  <2> SUFFICES ASSUME NEW r \in Releases, <<r, x.reg[r].gen>> \in x.gens,
                      ~Registered(x, r)
               PROVE  FALSE
    OBVIOUS
  <2>1. x.reg[r].gen = 0
    BY DEF Sound, GensAreFresh
  <2>2. x.reg[r].gen \in 1..MaxGens
    BY <1>1, DiskTypes
  <2> QED  BY <2>1, <2>2
<1> QED  BY <1>1, <1>2, <1>3 DEF Sound, NamedRuns, StagedRuns

LEMMA ImportSound ==
    ASSUME UpdaterAssumption, NEW x, Sound(x), NEW A,
           NEW r \in Releases, NEW c \in Catalogs
    PROVE  /\ SoundPlan(x, Import(x, r, c), A)
           /\ CatalogAccepted(x, c, r) /\ SlotUsable(x, SlotOf[r]) =>
                 LET y == Last(x, Import(x, r, c)) IN
                 /\ Sound(y) /\ SamePointers(x, y)
                 /\ y.reg[r] = [st |-> "verified", gen |-> 0]
                 /\ x.slot[SlotOf[r]] \in {None, r} => y.slot[SlotOf[r]] = r
                 /\ y.tree = x.tree /\ y.pin = x.pin /\ y.frozen = x.frozen
<1> DEFINE s == SlotOf[r]
           x1 == [x EXCEPT !.slot[s] = IF @ = None THEN r ELSE @]
           x2 == [x1 EXCEPT !.reg[r] = [st |-> "verified", gen |-> 0]]
           x3 == [x2 EXCEPT !.seq = c.seq]
<1>0. x \in Disk /\ s \in Slots /\ c.seq \in Nat
  BY DEF Sound, UpdaterAssumption
<1>1. /\ x1 \in Disk /\ SamePointers(x, x1) /\ x1.reg = x.reg
      /\ x1.gens = x.gens /\ x1.nextgen = x.nextgen
      /\ x1.tree = x.tree /\ x1.pin = x.pin
      /\ \A t \in Slots : x.slot[t] # None => x1.slot[t] = x.slot[t]
      /\ \A t \in Slots : x1.slot[t] = x.slot[t] \/ (t = s /\ x1.slot[t] = r)
      /\ x1.slot[s] = IF x.slot[s] = None THEN r ELSE x.slot[s]
      /\ x1.seq = x.seq /\ x1.frozen = x.frozen
  <2> DEFINE f == [x.slot EXCEPT ![s] = IF @ = None THEN r ELSE @]
  <2>1. /\ f \in [Slots -> Releases \cup {None, Torn}]
        /\ \A t \in Slots : x.slot[t] # None => f[t] = x.slot[t]
        /\ \A t \in Slots : f[t] = x.slot[t] \/ (t = s /\ f[t] = r)
        /\ f[s] = IF x.slot[s] = None THEN r ELSE x.slot[s]
    BY <1>0, DiskTypes DEF UpdaterAssumption
  <2>2. x1 = [x EXCEPT !.slot = f]
    OBVIOUS
  <2> HIDE DEF f, x1
  <2> QED  BY <1>0, <2>1, <2>2 DEF Disk, SamePointers
<1> HIDE DEF x1
<1>2. \A p : CanRun(x, p) /\ p.rel \in Releases => CanRun(x1, p)
  BY <1>1 DEF CanRun, Reusable, UpdaterAssumption
<1>3. Sound(x1)
  <2>1. \A p \in Named(x) \ {NoPtr} : CanRun(x1, p) /\ Registered(x1, p.rel)
    BY <1>1, <1>2, SoundFacts DEF Registered
  <2>2. StagedRuns(x1)
    BY <1>1, <1>2, SoundFacts DEF StagedRuns, Candidate
  <2>3. GensAreFresh(x1)
    BY <1>1 DEF GensAreFresh, Registered, Sound
  <2>4. SlotsAreKnown(x1)
    BY <1>1, SlotsKept DEF Registered
  <2> QED  BY <1>1, <2>1, <2>2, <2>3, <2>4, KeepNames
<1>4. /\ x2 \in Disk /\ SamePointers(x1, x2) /\ SameTrees(x1, x2)
      /\ x2.reg = [x1.reg EXCEPT ![r] = [st |-> "verified", gen |-> 0]]
      /\ x2.frozen = x1.frozen
  <2>1. /\ [st |-> "verified", gen |-> 0] \in [st : STATUSES, gen : 0..MaxGens]
        /\ x1.reg \in [Releases -> [st : STATUSES, gen : 0..MaxGens]]
    BY <1>1, DiskTypes DEF STATUSES, UpdaterAssumption
  <2>2. [x1.reg EXCEPT ![r] = [st |-> "verified", gen |-> 0]]
           \in [Releases -> [st : STATUSES, gen : 0..MaxGens]]
    BY <2>1
  <2> QED  BY <1>1, <2>2 DEF Disk, SamePointers, SameTrees
<1>5. /\ x3 \in Disk /\ SamePointers(x2, x3) /\ SameTrees(x2, x3)
      /\ x3.reg = x2.reg /\ x3.frozen = x2.frozen
  BY <1>0, <1>4 DEF Disk, SamePointers, SameTrees
<1> HIDE DEF x2, x3
<1>6. /\ \A p : CanRun(x2, p) <=> CanRun(x1, p)
      /\ \A p : CanRun(x3, p) <=> CanRun(x2, p)
  BY <1>4, <1>5 DEF SameTrees, CanRun, Reusable
<1>7. /\ x1.reg \in [Releases -> [st : STATUSES, gen : 0..MaxGens]]
      /\ x1.gens \in SUBSET (Releases \X (1..MaxGens))
      /\ x1.nextgen \in 1..(MaxGens + 1)
  BY <1>1, DiskTypes
<1>8. /\ x2.reg[r] = [st |-> "verified", gen |-> 0]
      /\ x2.reg[r].gen = 0 /\ Registered(x2, r)
      /\ \A q \in Releases \ {r} : x2.reg[q] = x1.reg[q]
  BY <1>4, <1>7 DEF Registered
<1>9. Sound(x2)
  <2>1. \A p \in Named(x1) \ {NoPtr} : CanRun(x2, p) /\ Registered(x2, p.rel)
    BY <1>3, <1>6, <1>8, SoundFacts DEF Registered
  <2>2. StagedRuns(x2)
    <3> SUFFICES ASSUME NEW q \in Releases, <<q, x2.reg[q].gen>> \in x2.gens
                 PROVE  CanRun(x2, Candidate(x2, q))
      BY DEF StagedRuns
    <3>1. q # r
      BY <1>4, <1>7, <1>8 DEF SameTrees
    <3> QED  BY <1>3, <1>4, <1>6, <1>8, <3>1, SoundFacts DEF SameTrees, Candidate
  <2>3. GensAreFresh(x2)
    BY <1>3, <1>4, <1>7, <1>8 DEF GensAreFresh, Registered, Sound, SameTrees
  <2>4. SlotsAreKnown(x2)
    BY <1>3, <1>4, <1>8, SlotsKept DEF Registered, SameTrees
  <2> QED  BY <1>3, <1>4, <2>1, <2>2, <2>3, <2>4, KeepNames
<1>10. Sound(x3)
  <2>1. \A p \in Named(x2) \ {NoPtr} : CanRun(x3, p) /\ Registered(x3, p.rel)
    BY <1>5, <1>6, <1>9, SoundFacts DEF Registered
  <2>2. StagedRuns(x3)
    BY <1>5, <1>6, <1>9, SoundFacts DEF StagedRuns, Candidate, SameTrees
  <2>3. GensAreFresh(x3)
    BY <1>5, <1>9 DEF GensAreFresh, Registered, Sound, SameTrees
  <2>4. SlotsAreKnown(x3)
    BY <1>5, <1>9, SlotsKept DEF Registered, SameTrees
  <2> QED  BY <1>5, <1>9, <2>1, <2>2, <2>3, <2>4, KeepNames
<1>11. SoundPlan(x, <<x1, x2, x3>>, A) /\ Last(x, <<x1, x2, x3>>) = x3
  BY <1>1, <1>3, <1>4, <1>5, <1>9, <1>10, Unmoved, PlanThree
<1>12. SoundPlan(x, <<>>, A)
  BY PlanNone
<1>13. Import(x, r, c) \in {<<x1, x2, x3>>, <<>>}
  BY DEF Import, x1, x2, x3
<1>14. CatalogAccepted(x, c, r) /\ SlotUsable(x, s) =>
          Import(x, r, c) = <<x1, x2, x3>>
  BY DEF Import, x1, x2, x3
<1>15. /\ SamePointers(x, x3) /\ x3.reg[r] = [st |-> "verified", gen |-> 0]
       /\ x.slot[s] \in {None, r} => x3.slot[s] = r
       /\ x3.tree = x.tree /\ x3.pin = x.pin /\ x3.frozen = x.frozen
  BY <1>1, <1>4, <1>5, <1>8 DEF SamePointers, SameTrees
<1> QED  BY <1>10, <1>11, <1>12, <1>13, <1>14, <1>15

\* A write to an interpreter that nothing runs on.
LEMMA InterpWrite ==
    ASSUME UpdaterAssumption, NEW x, Sound(x), NEW i \in Interps,
           ~Reusable(x, i), NEW y \in Disk, SamePointers(x, y),
           y.reg = x.reg, y.slot = x.slot, y.gens = x.gens,
           y.nextgen = x.nextgen,
           \A j \in Interps \ {i} : y.tree[j] = x.tree[j] /\ y.pin[j] = x.pin[j]
    PROVE  Sound(y)
<1>1. \A p : CanRun(x, p) /\ p.rel \in Releases => CanRun(y, p)
  BY DEF CanRun, Reusable, UpdaterAssumption
<1>2. \A p \in Named(x) \ {NoPtr} : CanRun(y, p) /\ Registered(y, p.rel)
  BY <1>1, SoundFacts DEF Registered
<1>3. StagedRuns(y)
  BY <1>1, SoundFacts DEF StagedRuns, Candidate
<1>4. GensAreFresh(y)
  BY DEF GensAreFresh, Registered, Sound
<1>5. SlotsAreKnown(y)
  BY SlotsKept DEF Registered
<1> QED  BY <1>2, <1>3, <1>4, <1>5, KeepNames

\* stage_python_runtime leaves an interpreter that runs, and nothing else
\* changed.
LEMMA ProvisionSound ==
    ASSUME UpdaterAssumption, NEW x \in Disk, NEW A, NEW i \in Interps
    PROVE  LET y == Last(x, Provision(x, i)) IN
           /\ Sound(x) => SoundPlan(x, Provision(x, i), A) /\ Sound(y)
           /\ Provision(x, i) \in Seq(Disk) /\ y \in Disk
           /\ y.frozen = x.frozen
           /\ SamePointers(x, y) /\ y.reg = x.reg /\ y.slot = x.slot
           /\ y.gens = x.gens /\ y.nextgen = x.nextgen /\ Reusable(y, i)
<1> DEFINE x1 == [x EXCEPT !.tree[i] = None]
           x2 == [x1 EXCEPT !.pin[i] = FALSE]
           x3 == Expand(x2, i)
           x4 == [x3 EXCEPT !.pin[i] = TRUE]
<1>1. CASE Reusable(x, i)
  <2>1. Provision(x, i) = <<>>
    BY <1>1 DEF Provision
  <2> QED  BY <1>1, <2>1, PlanNone DEF SamePointers
<1>2. CASE ~Reusable(x, i)
  <2> DEFINE Other(u, v) ==
                /\ SamePointers(u, v) /\ v.reg = u.reg /\ v.slot = u.slot
                /\ v.gens = u.gens /\ v.nextgen = u.nextgen
                /\ v.frozen = u.frozen
                /\ \A j \in Interps \ {i} :
                      v.tree[j] = u.tree[j] /\ v.pin[j] = u.pin[j]
  <2>1. \A u \in Disk, t \in {None, "whole"} :
           LET v == [u EXCEPT !.tree[i] = t] IN
           /\ v \in Disk /\ Other(u, v) /\ v.tree[i] = t /\ v.pin = u.pin
    <3> TAKE u \in Disk, t \in {None, "whole"}
    <3> DEFINE f == [u.tree EXCEPT ![i] = t]
    <3>1. /\ f \in [Interps -> {None, Torn, "whole"}] /\ f[i] = t
          /\ \A j \in Interps \ {i} : f[j] = u.tree[j]
      BY DiskTypes
    <3>2. [u EXCEPT !.tree[i] = t] = [u EXCEPT !.tree = f]
      OBVIOUS
    <3> HIDE DEF f
    <3> QED  BY <3>1, <3>2 DEF Disk, SamePointers
  <2>2. \A u \in Disk, b \in BOOLEAN :
           LET v == [u EXCEPT !.pin[i] = b] IN
           /\ v \in Disk /\ Other(u, v) /\ v.pin[i] = b /\ v.tree = u.tree
    <3> TAKE u \in Disk, b \in BOOLEAN
    <3> DEFINE f == [u.pin EXCEPT ![i] = b]
    <3>1. /\ f \in [Interps -> BOOLEAN] /\ f[i] = b
          /\ \A j \in Interps \ {i} : f[j] = u.pin[j]
      BY DiskTypes
    <3>2. [u EXCEPT !.pin[i] = b] = [u EXCEPT !.pin = f]
      OBVIOUS
    <3> HIDE DEF f
    <3> QED  BY <3>1, <3>2 DEF Disk, SamePointers
  <2>3. x1 \in Disk /\ Other(x, x1) /\ x1.tree[i] = None
    BY <2>1
  <2>4. x2 \in Disk /\ Other(x1, x2) /\ x2.pin[i] = FALSE
    <3> HIDE DEF x1, Other
    <3> QED  BY <2>2, <2>3
  <2>5. x3 \in Disk /\ Other(x2, x3) /\ x3.tree[i] = "whole" /\ x3.pin = x2.pin
    <3> HIDE DEF x2, Other
    <3> QED  BY <2>1, <2>4 DEF Expand
  <2>6. x4 \in Disk /\ Other(x3, x4) /\ x4.pin[i] = TRUE /\ x4.tree = x3.tree
    <3> HIDE DEF x3, Other
    <3> QED  BY <2>2, <2>5
  <2>7. Provision(x, i) = <<x1, x2, x3, x4>>
    BY <1>2 DEF Provision
  <2> HIDE DEF x1, x2, x3, x4
  <2>8. ~Reusable(x1, i) /\ ~Reusable(x2, i) /\ ~Reusable(x3, i)
    BY <2>3, <2>4, <2>5 DEF Reusable, None
  <2>9. Sound(x) => Sound(x1)
    BY <1>2, <2>3, InterpWrite
  <2>10. Sound(x) => Sound(x2)
    BY <2>4, <2>8, <2>9, InterpWrite
  <2>11. Sound(x) => Sound(x3)
    BY <2>5, <2>8, <2>10, InterpWrite
  <2>12. Sound(x) => Sound(x4)
    BY <2>6, <2>8, <2>11, InterpWrite
  <2>13. /\ MayWrite(x, x1, A) /\ MayWrite(x1, x2, A) /\ MayWrite(x2, x3, A)
         /\ MayWrite(x3, x4, A)
    BY <2>3, <2>4, <2>5, <2>6, Unmoved
  <2>14. /\ Sound(x) => SoundPlan(x, <<x1, x2, x3, x4>>, A)
         /\ Last(x, <<x1, x2, x3, x4>>) = x4
         /\ <<x1, x2, x3, x4>> \in Seq(Disk)
    <3>1. <<x1, x2, x3, x4>> \in Seq(Disk)
      <4> HIDE DEF Disk
      <4> QED  BY <2>3, <2>4, <2>5, <2>6
    <3>2. Sound(x) => SoundPlan(x, <<x1, x2, x3, x4>>, A)
      BY <2>9, <2>10, <2>11, <2>12, <2>13, PlanFour
    <3>3. Last(x, <<x1, x2, x3, x4>>) = x4
      BY DEF Last
    <3> QED  BY <3>1, <3>2, <3>3
  <2>15. Reusable(x4, i)
    BY <2>5, <2>6 DEF Reusable
  <2>16. SamePointers(x, x4)
    BY <2>3, <2>4, <2>5, <2>6 DEF SamePointers
  <2> QED  BY <2>3, <2>4, <2>5, <2>6, <2>7, <2>12, <2>14, <2>15, <2>16
<1> QED  BY <1>1, <1>2

LEMMA StageSound ==
    ASSUME UpdaterAssumption, NEW x, Sound(x), NEW A,
           NEW r \in Releases, NEW e \in BOOLEAN
    PROVE  SoundPlan(x, Stage(x, r, e), A)
<1> DEFINE g == x.nextgen
           i == InterpOf[r]
           x1 == [x EXCEPT !.gens = @ \union {<<r, g>>}, !.nextgen = g + 1]
           ps == Provision(x1, i)
           x2 == Last(x1, ps)
           x3 == [x2 EXCEPT !.reg[r] = [st |-> "staged", gen |-> g]]
           back == [x1 EXCEPT !.gens = @ \ {<<r, g>>}]
<1>0. /\ x \in Disk /\ i \in Interps /\ MaxGens \in Nat
      /\ g \in 1..(MaxGens + 1)
      /\ x.gens \in SUBSET (Releases \X (1..MaxGens))
      /\ x.reg \in [Releases -> [st : STATUSES, gen : 0..MaxGens]]
  BY DiskTypes DEF Sound, UpdaterAssumption
<1>1. CASE ~(x.reg[r].st \in {"verified", "staged", "quarantined"}) \/ g > MaxGens
  <2>1. Stage(x, r, e) = <<>>
    BY <1>1 DEF Stage
  <2> QED  BY <2>1, PlanNone
<1>2. CASE /\ x.reg[r].st \in {"verified", "staged", "quarantined"}
           /\ ~(g > MaxGens)
  <2>1. g \in 1..MaxGens /\ g + 1 \in 1..(MaxGens + 1)
    BY <1>0, <1>2
  <2>2. /\ x1 \in Disk /\ SamePointers(x, x1) /\ x1.reg = x.reg
        /\ x1.slot = x.slot /\ x1.tree = x.tree /\ x1.pin = x.pin
        /\ x1.gens = x.gens \cup {<<r, g>>} /\ x1.nextgen = g + 1
    <3>1. x.gens \cup {<<r, g>>} \in SUBSET (Releases \X (1..MaxGens))
      BY <1>0, <2>1
    <3> QED  BY <1>0, <2>1, <3>1 DEF Disk, SamePointers
  <2>3. \A q \in Releases : x.reg[q].gen < g /\ x.reg[q].gen # g
    BY <1>0 DEF Sound, GensAreFresh
  <2>4. <<r, g>> \notin x.gens
    BY <1>0 DEF Sound, GensAreFresh
  <2>5. /\ back \in Disk /\ SamePointers(x, back) /\ back.reg = x.reg
        /\ back.slot = x.slot /\ back.tree = x.tree /\ back.pin = x.pin
        /\ back.gens = x.gens /\ back.nextgen = g + 1
    <3>1. (x.gens \cup {<<r, g>>}) \ {<<r, g>>} = x.gens
      BY <2>4
    <3> HIDE DEF x1
    <3>2. back.gens = x.gens
      BY <2>2, <3>1 DEF Disk
    <3>3. back.gens \in SUBSET (Releases \X (1..MaxGens))
      BY <1>0, <3>2
    <3> QED  BY <2>2, <3>2, <3>3 DEF Disk, SamePointers
  <2>6. Stage(x, r, e) \in {<<x1>>, <<x1, back>>, <<x1>> \o ps \o <<x3>>}
    BY <1>2 DEF Stage
  <2>7. Stage(x, r, e) = <<x1>> \o ps \o <<x3>> => SlotVerifies(x, r)
        \/ Stage(x, r, e) \in {<<x1>>, <<x1, back>>}
    BY <1>2 DEF Stage
  <2> HIDE DEF x1, back
  <2>8. \A y \in {x1, back} : Sound(y)
    <3> SUFFICES ASSUME NEW y \in {x1, back}
                 PROVE  Sound(y)
      OBVIOUS
    <3>1. /\ y \in Disk /\ SamePointers(x, y) /\ y.reg = x.reg
          /\ y.slot = x.slot /\ y.tree = x.tree /\ y.pin = x.pin
          /\ x.gens \subseteq y.gens /\ y.gens \subseteq x.gens \cup {<<r, g>>}
          /\ y.nextgen = g + 1
      BY <2>2, <2>5
    <3>2. \A p : CanRun(x, p) => CanRun(y, p)
      BY <3>1 DEF CanRun, Reusable
    <3>3. \A p \in Named(x) \ {NoPtr} : CanRun(y, p) /\ Registered(y, p.rel)
      BY <3>1, <3>2, SoundFacts DEF Registered
    <3>4. StagedRuns(y)
      <4> SUFFICES ASSUME NEW q \in Releases, <<q, y.reg[q].gen>> \in y.gens
                   PROVE  CanRun(y, Candidate(y, q))
        BY DEF StagedRuns
      <4>1. <<q, x.reg[q].gen>> \in x.gens /\ Candidate(y, q) = Candidate(x, q)
        BY <2>3, <3>1 DEF Candidate
      <4> QED  BY <3>2, <4>1, SoundFacts
    <3>5. GensAreFresh(y)
      <4>1. \A h \in x.gens : h[2] < g /\ h[2] \in 1..MaxGens
        BY <1>0 DEF Sound, GensAreFresh
      <4>2. \A h \in y.gens : h[2] < y.nextgen
        BY <1>0, <3>1, <4>1
      <4>3. \A q \in Releases : y.reg[q].gen < y.nextgen
        BY <1>0, <2>3, <3>1
      <4>4. \A q \in Releases : ~Registered(y, q) => y.reg[q].gen = 0
        BY <3>1 DEF Sound, GensAreFresh, Registered
      <4> QED  BY <4>2, <4>3, <4>4 DEF GensAreFresh
    <3>6. SlotsAreKnown(y)
      BY <3>1, SlotsKept DEF Registered
    <3> QED  BY <3>1, <3>3, <3>4, <3>5, <3>6, KeepNames
  <2>9. MayWrite(x, x1, A) /\ MayWrite(x1, back, A)
    <3>1. SamePointers(x1, back)
      BY <2>2, <2>5 DEF SamePointers
    <3> QED  BY <2>2, <3>1, Unmoved
  <2>10. /\ SoundPlan(x, <<x1>>, A) /\ Last(x, <<x1>>) = x1
         /\ SoundPlan(x, <<x1, back>>, A)
    BY <2>8, <2>9, PlanOne, PlanTwo
  <2>11. ASSUME SlotVerifies(x, r)
         PROVE  SoundPlan(x, <<x1>> \o ps \o <<x3>>, A)
    <3>1. /\ SoundPlan(x1, ps, A) /\ Sound(x2) /\ SamePointers(x1, x2)
          /\ x2.reg = x1.reg /\ x2.slot = x1.slot /\ x2.gens = x1.gens
          /\ x2.nextgen = x1.nextgen /\ Reusable(x2, i)
      BY <1>0, <2>2, <2>8, ProvisionSound
    <3>2. SoundPlan(x, <<x1>> \o ps, A) /\ Last(x, <<x1>> \o ps) = x2
      BY <2>10, <3>1, PlanThen
    <3> HIDE DEF ps, x2
    <3>3. /\ x3 \in Disk /\ SamePointers(x2, x3) /\ SameTrees(x2, x3)
          /\ x3.reg = [x.reg EXCEPT ![r] = [st |-> "staged", gen |-> g]]
      <4>1. [x.reg EXCEPT ![r] = [st |-> "staged", gen |-> g]]
              \in [Releases -> [st : STATUSES, gen : 0..MaxGens]]
        <5>1. [st |-> "staged", gen |-> g] \in [st : STATUSES, gen : 0..MaxGens]
          BY <2>1 DEF STATUSES
        <5> QED  BY <1>0, <5>1
      <4>2. x2 \in Disk /\ x2.reg = x.reg
        BY <2>2, <3>1 DEF Sound
      <4> QED  BY <4>1, <4>2 DEF Disk, SamePointers, SameTrees
    <3> HIDE DEF x3
    <3>4. /\ x3.reg[r] = [st |-> "staged", gen |-> g]
          /\ \A q \in Releases \ {r} : x3.reg[q] = x.reg[q]
      BY <1>0, <3>3
    <3>5. \A p : CanRun(x3, p) <=> CanRun(x2, p)
      BY <3>3 DEF SameTrees, CanRun, Reusable
    <3>6. \A p \in Named(x2) \ {NoPtr} : CanRun(x3, p) /\ Registered(x3, p.rel)
      BY <2>2, <3>1, <3>4, <3>5, SoundFacts DEF Registered
    <3>7. StagedRuns(x3)
      <4> SUFFICES ASSUME NEW q \in Releases, <<q, x3.reg[q].gen>> \in x3.gens
                   PROVE  CanRun(x3, Candidate(x3, q))
        BY DEF StagedRuns
      <4>1. CASE q = r
        <5>1. Candidate(x3, q) = [rel |-> r, gen |-> g]
          BY <3>4, <4>1 DEF Candidate
        <5>2. x2.slot[SlotOf[r]] = r
          BY <2>2, <2>11, <3>1 DEF SlotVerifies
        <5> QED  BY <2>2, <3>1, <3>5, <5>1, <5>2 DEF CanRun
      <4>2. CASE q # r
        <5>1. /\ <<q, x2.reg[q].gen>> \in x2.gens
              /\ Candidate(x3, q) = Candidate(x2, q)
          BY <2>2, <3>1, <3>3, <3>4, <4>2 DEF Candidate, SameTrees
        <5> QED  BY <3>1, <3>5, <5>1, SoundFacts
      <4> QED  BY <4>1, <4>2
    <3>8. GensAreFresh(x3)
      <4>1. \A h \in x3.gens : h[2] < x3.nextgen
        BY <3>1, <3>3 DEF Sound, GensAreFresh, SameTrees
      <4>2. \A q \in Releases : x3.reg[q].gen < x3.nextgen
        BY <1>0, <2>2, <2>3, <3>1, <3>3, <3>4 DEF SameTrees
      <4>3. \A q \in Releases : ~Registered(x3, q) => x3.reg[q].gen = 0
        BY <3>4 DEF Sound, GensAreFresh, Registered
      <4> QED  BY <4>1, <4>2, <4>3 DEF GensAreFresh
    <3>9. Sound(x3)
      <4>1. SlotsAreKnown(x3)
        <5>1. \A q \in Releases : Registered(x2, q) => Registered(x3, q)
          BY <2>2, <3>1, <3>4 DEF Registered
        <5>2. \A s \in Slots : x3.slot[s] = x2.slot[s]
          BY <3>3 DEF SameTrees
        <5> QED  BY <3>1, <5>1, <5>2, SlotsKept
      <4> QED  BY <3>1, <3>3, <3>6, <3>7, <3>8, <4>1, KeepNames
    <3>10. MayWrite(x2, x3, A)
      BY <3>3, Unmoved
    <3> QED  BY <3>2, <3>9, <3>10, PlanAdd
  <2> QED  BY <2>6, <2>7, <2>10, <2>11
<1> QED  BY <1>1, <1>2
-----------------------------------------------------------------------------
(* Activate, recover and roll back. *)

LEMMA RecoverSound ==
    ASSUME UpdaterAssumption, NEW x, Sound(x), NEW A
    PROVE  LET y == Last(x, Recover(x)) IN
           /\ SoundPlan(x, Recover(x), A) /\ Sound(y) /\ ~y.journal.on
           /\ y.pins = x.pins /\ y.frozen = x.frozen
<1> DEFINE x1 == [x EXCEPT !.active = x.journal.old]
           x2 == Status(x1, x.journal.cand.rel, "quarantined")
           x3 == [x2 EXCEPT !.journal = NoJournal]
<1>0. x \in Disk
  BY DEF Sound
<1>1. CASE ~x.journal.on
  <2>1. Recover(x) = <<>>
    BY <1>1 DEF Recover
  <2> QED  BY <1>1, <2>1, PlanNone
<1>2. CASE x.journal.on
  <2>1. /\ x.journal.old \in Pointers /\ x.journal.cand \in Pointers
        /\ x.journal.cand.rel \in Releases \cup {None}
    BY <1>0, DiskTypes, PointerTypes
  <2>2. /\ x1 \in Disk /\ SameTrees(x, x1) /\ x1.reg = x.reg
        /\ x1.lkg = x.lkg /\ x1.pins = x.pins /\ x1.journal = x.journal
        /\ x1.active = x.journal.old /\ x1.frozen = x.frozen
    BY <1>0, <2>1 DEF Disk, SameTrees
  <2> HIDE DEF x1
  <2>3. Sound(x1)
    <3>1. Named(x1) \subseteq Named(x)
      BY <1>2, <2>2 DEF Named
    <3>2. FallbackHasActive(x1)
      BY <1>2, <2>2 DEF FallbackHasActive, Sound
    <3> QED  BY <2>2, <3>1, <3>2, KeepTrees
  <2>4. MayWrite(x, x1, A)
    BY <1>2, <2>2 DEF MayWrite
  <2>5. Sound(x2) /\ SamePointers(x1, x2) /\ x2.frozen = x1.frozen
    BY <2>1, <2>3, StatusKeeps DEF STATUSES
  <2> HIDE DEF x2
  <2>6. x2.journal = x.journal /\ x2.active = x.journal.old
    BY <2>2, <2>5 DEF SamePointers
  <2>7. /\ x3 \in Disk /\ SameTrees(x2, x3) /\ x3.reg = x2.reg
        /\ x3.lkg = x2.lkg /\ x3.pins = x2.pins /\ x3.journal = NoJournal
        /\ x3.active = x2.active /\ x3.frozen = x2.frozen
    <3>1. NoJournal \in [on : BOOLEAN, old : Pointers, cand : Pointers]
      BY DEF NoJournal, Pointers
    <3>2. x2 \in Disk
      BY <2>5 DEF Sound
    <3> QED  BY <3>1, <3>2 DEF Disk, SameTrees
  <2>8. ~x3.journal.on
    BY <2>7 DEF NoJournal
  <2> HIDE DEF x3
  <2>9. Sound(x3)
    <3>1. Named(x3) \subseteq Named(x2)
      BY <2>7, <2>8 DEF Named
    <3>2. FallbackHasActive(x3)
      BY <2>5, <2>7, <2>8 DEF FallbackHasActive, Sound
    <3> QED  BY <2>5, <2>7, <3>1, <3>2, KeepTrees
  <2>10. MayWrite(x1, x2, A)
    BY <2>5, Unmoved
  <2>11. MayWrite(x2, x3, A)
    BY <2>6, <2>7 DEF MayWrite
  <2>12. /\ SoundPlan(x, <<x1, x2, x3>>, A)
         /\ Last(x, <<x1, x2, x3>>) = x3
    BY <2>3, <2>4, <2>5, <2>9, <2>10, <2>11, PlanThree
  <2>13. Recover(x) = <<x1, x2, x3>>
    BY <1>2 DEF Recover, x1, x2, x3
  <2>14. x3.pins = x.pins /\ x3.frozen = x.frozen
    BY <2>2, <2>5, <2>7 DEF SamePointers
  <2> QED  BY <2>8, <2>9, <2>12, <2>13, <2>14
<1> QED  BY <1>1, <1>2

\* The candidate runs when a probe passed; until the journal is closed the
\* pointer it replaced runs, too, and is the one that comes back.
LEMMA SwitchSound ==
    ASSUME UpdaterAssumption, NEW x, Sound(x), ~x.journal.on,
           NEW r \in Releases, NEW k \in 0..2, MayActivate(x, r)
    PROVE  SoundPlan(x, Switch(x, r, k), approved)
<1> DEFINE A == approved
           old == x.active
           cand == Candidate(x, r)
           probes == Probes(x, cand, k)
           x1 == [x EXCEPT !.journal = [on |-> TRUE, old |-> old, cand |-> cand]]
           x2 == Status(x1, r, "certified")
           x3 == [x2 EXCEPT !.active = cand]
           x4 == [x3 EXCEPT !.lkg = IF old = NoPtr THEN @ ELSE old]
           x5 == Status(Status(x4, old.rel, "last_known_good"), r, "active")
           x6 == [x5 EXCEPT !.journal = NoJournal]
<1>0. /\ x \in Disk /\ old \in Pointers /\ old.rel \in Releases \cup {None}
      /\ x.reg \in [Releases -> [st : STATUSES, gen : 0..MaxGens]]
  BY DiskTypes, PointerTypes DEF Sound
<1>1. /\ cand \in Pointers /\ cand # NoPtr /\ cand.rel = r
      /\ cand.gen = x.reg[r].gen /\ r \in A /\ Registered(x, r)
  <2>1. x.reg[r].gen # 0 /\ Registered(x, r) /\ r \in A
    BY DEF MayActivate, Verifies, SlotVerifies, Approved
  <2>2. x.reg[r].gen \in 1..MaxGens
    BY <1>0, <2>1 DEF UpdaterAssumption
  <2> QED  BY <2>1, <2>2 DEF Candidate, Pointers, NoPtr
<1>2. probes # 0 => CanRun(x, cand)
  BY <1>1 DEF Probes, Sound, StagedRuns
<1> HIDE DEF cand, old, probes
<1>3. /\ x1 \in Disk /\ SameTrees(x, x1) /\ x1.reg = x.reg
      /\ x1.active = old /\ x1.lkg = x.lkg /\ x1.pins = x.pins
      /\ x1.journal = [on |-> TRUE, old |-> old, cand |-> cand]
  <2>1. [on |-> TRUE, old |-> old, cand |-> cand]
           \in [on : BOOLEAN, old : Pointers, cand : Pointers]
    BY <1>0, <1>1
  <2> QED  BY <1>0, <2>1 DEF Disk, SameTrees, old
<1> HIDE DEF x1
<1>4. Sound(x1) /\ MayWrite(x, x1, A)
  <2>1. Named(x1) \subseteq Named(x)
    BY <1>3 DEF Named, old
  <2>2. FallbackHasActive(x1)
    BY <1>3 DEF FallbackHasActive, Sound, old
  <2>3. Sound(x1)
    BY <1>3, <2>1, <2>2, KeepTrees
  <2> QED  BY <1>3, <2>3 DEF MayWrite, old
<1>5. /\ Sound(x2) /\ SamePointers(x1, x2) /\ SameTrees(x1, x2)
      /\ Registered(x2, r) /\ MayWrite(x1, x2, A)
  <2>1. Registered(x1, r)
    BY <1>1, <1>3 DEF Registered
  <2> QED  BY <1>4, <2>1, StatusKeeps, Unmoved DEF STATUSES
<1> HIDE DEF x2
<1>6. /\ x3 \in Disk /\ SameTrees(x2, x3) /\ x3.reg = x2.reg
      /\ x3.active = cand /\ x3.lkg = x.lkg /\ x3.pins = x2.pins
      /\ x3.journal = x2.journal /\ x2.journal = x1.journal
  <2>1. x2 \in Disk /\ x2.lkg = x.lkg /\ x2.journal = x1.journal
    BY <1>3, <1>5 DEF Sound, SamePointers
  <2> QED  BY <1>1, <2>1 DEF Disk, SameTrees
<1> HIDE DEF x3
<1>7. ASSUME probes # 0
      PROVE  Sound(x3) /\ MayWrite(x2, x3, A)
  <2>1. CanRun(x2, cand) /\ Registered(x2, cand.rel)
    BY <1>1, <1>2, <1>3, <1>5, <1>7 DEF SameTrees, CanRun, Reusable
  <2>2. \A p \in Named(x3) : p = cand \/ p \in Named(x2)
    BY <1>3, <1>6, <1>5 DEF Named, SamePointers
  <2>3. FallbackHasActive(x3)
    BY <1>1, <1>3, <1>4, <1>6 DEF FallbackHasActive, Sound
  <2>4. Sound(x3)
    BY <1>5, <1>6, <2>1, <2>2, <2>3, KeepTrees
  <2>5. MayWrite(x2, x3, A)
    BY <1>1, <1>3, <1>6 DEF MayWrite
  <2> QED  BY <2>4, <2>5
<1>8. CASE probes = 0
  <2>1. Switch(x, r, k) = <<x1>> \o Recover(x1)
    BY <1>8 DEF Switch, probes, cand, old, x1
  <2>2. SoundPlan(x, <<x1>>, A) /\ Last(x, <<x1>>) = x1
    BY <1>4, PlanOne
  <2>3. SoundPlan(x1, Recover(x1), A)
    BY <1>4, RecoverSound
  <2>4. SoundPlan(x, <<x1>> \o Recover(x1), A)
    BY <2>2, <2>3, PlanThen
  <2> QED  BY <2>1, <2>4
<1>9. CASE probes = 1
  <2>1. Switch(x, r, k) = <<x1, x2, x3>> \o Recover(x3)
    BY <1>9 DEF Switch, probes, cand, old, x1, x2, x3
  <2>2. Sound(x3) /\ MayWrite(x2, x3, A)
    BY <1>7, <1>9
  <2>3. SoundPlan(x, <<x1, x2, x3>>, A) /\ Last(x, <<x1, x2, x3>>) = x3
    BY <1>4, <1>5, <2>2, PlanThree
  <2>4. SoundPlan(x3, Recover(x3), A)
    BY <2>2, RecoverSound
  <2>5. SoundPlan(x, <<x1, x2, x3>> \o Recover(x3), A)
    BY <2>3, <2>4, PlanThen
  <2> QED  BY <2>1, <2>5
<1>10. CASE probes \notin {0, 1}
  <2>1. Switch(x, r, k) = <<x1, x2, x3, x4, x5, x6>>
    <3> DEFINE Undo == Recover(IF probes = 0 THEN x1 ELSE x3)
    <3>1. Switch(x, r, k) =
             CASE probes = 0 -> <<x1>> \o Undo
               [] probes = 1 -> <<x1, x2, x3>> \o Undo
               [] OTHER -> <<x1, x2, x3, x4, x5, x6>>
      BY DEF Switch, probes, cand, old, x1, x2, x3
    <3> HIDE DEF Undo, x4, x5, x6
    <3> QED  BY <1>10, <3>1
  <2>2. Sound(x3) /\ MayWrite(x2, x3, A)
    BY <1>7, <1>10
  <2>3. /\ x4 \in Disk /\ SameTrees(x3, x4) /\ x4.reg = x3.reg
        /\ x4.active = cand /\ x4.pins = x3.pins /\ x4.journal = x3.journal
        /\ x4.lkg = IF old = NoPtr THEN x3.lkg ELSE old
    <3>1. (IF old = NoPtr THEN x3.lkg ELSE old) \in Pointers
      BY <1>0, <1>6, DiskTypes
    <3>2. x4 = [x3 EXCEPT !.lkg = IF old = NoPtr THEN x3.lkg ELSE old]
      BY <1>6 DEF Disk
    <3> HIDE DEF x4
    <3> QED  BY <1>6, <3>1, <3>2 DEF Disk, SameTrees
  <2> HIDE DEF x4
  <2>4. Sound(x4) /\ MayWrite(x3, x4, A)
    <3>1. x4.journal = [on |-> TRUE, old |-> old, cand |-> cand]
          /\ x3.journal = x4.journal
      BY <1>3, <1>6, <2>3
    <3>2. Named(x4) \subseteq Named(x3)
      BY <1>6, <2>3, <3>1 DEF Named
    <3>3. FallbackHasActive(x4)
      <4>1. x4.lkg # NoPtr => old # NoPtr
        BY <2>2, <2>3, <3>1 DEF FallbackHasActive, Sound
      <4> QED  BY <1>1, <2>3, <3>1, <4>1 DEF FallbackHasActive
    <3>4. Sound(x4)
      BY <2>2, <2>3, <3>2, <3>3, KeepTrees
    <3> QED  BY <1>6, <2>3, <3>4 DEF MayWrite
  <2> DEFINE u == Status(x4, old.rel, "last_known_good")
  <2>5. /\ Sound(u) /\ SamePointers(x4, u) /\ Registered(u, r)
    <3>1. Registered(x4, r)
      BY <1>5, <1>6, <2>3 DEF Registered
    <3> QED  BY <1>0, <2>4, <3>1, StatusKeeps DEF STATUSES
  <2> HIDE DEF u
  <2>6. /\ Sound(x5) /\ SamePointers(u, x5) /\ x5.reg[r].st = "active"
    <3>1. x5 = Status(u, r, "active")
      BY DEF u
    <3>2. r # None
      BY DEF UpdaterAssumption
    <3> QED  BY <2>5, <3>1, <3>2, StatusKeeps DEF STATUSES
  <2> HIDE DEF x5
  <2>7. SamePointers(x4, x5) /\ MayWrite(x4, x5, A)
    <3>1. SamePointers(x4, x5)
      BY <2>5, <2>6 DEF SamePointers
    <3> QED  BY <3>1, Unmoved
  <2>8. /\ x5.journal = [on |-> TRUE, old |-> old, cand |-> cand]
        /\ x5.active = cand
    BY <1>3, <1>6, <2>3, <2>7 DEF SamePointers
  <2>9. /\ x6 \in Disk /\ SameTrees(x5, x6) /\ x6.reg = x5.reg
        /\ x6.lkg = x5.lkg /\ x6.pins = x5.pins /\ x6.journal = NoJournal
        /\ x6.active = x5.active /\ ~x6.journal.on
    <3>1. NoJournal \in [on : BOOLEAN, old : Pointers, cand : Pointers]
      BY DEF NoJournal, Pointers
    <3>2. x5 \in Disk
      BY <2>6 DEF Sound
    <3> QED  BY <3>1, <3>2 DEF Disk, SameTrees, NoJournal
  <2> HIDE DEF x6
  <2>10. Sound(x6) /\ MayWrite(x5, x6, A)
    <3>1. Named(x6) \subseteq Named(x5)
      BY <2>9 DEF Named
    <3>2. FallbackHasActive(x6)
      BY <2>6, <2>9 DEF FallbackHasActive, Sound
    <3>3. Sound(x6)
      BY <2>6, <2>9, <3>1, <3>2, KeepTrees
    <3>4. MayWrite(x5, x6, A)
      BY <1>1, <2>6, <2>8, <2>9 DEF MayWrite
    <3> QED  BY <3>3, <3>4
  <2>11. SoundPlan(x, <<x1, x2, x3, x4, x5, x6>>, A)
    BY <1>4, <1>5, <2>2, <2>4, <2>6, <2>7, <2>10, PlanSix
  <2> QED  BY <2>1, <2>11
<1> QED  BY <1>8, <1>9, <1>10

LEMMA ActivateSound ==
    ASSUME UpdaterAssumption, NEW x, Sound(x), NEW r \in Releases, NEW k \in 0..2
    PROVE  SoundPlan(x, Activate(x, r, k), approved)
<1> DEFINE x1 == Last(x, Recover(x))
<1>1. /\ SoundPlan(x, Recover(x), approved) /\ Sound(x1) /\ ~x1.journal.on
  BY RecoverSound
<1>2. Activate(x, r, k) = IF MayActivate(x1, r)
         THEN Recover(x) \o Switch(x1, r, k) ELSE Recover(x)
  BY DEF Activate
<1> HIDE DEF x1
<1>3. CASE MayActivate(x1, r)
  <2>1. SoundPlan(x1, Switch(x1, r, k), approved)
    BY <1>1, <1>3, SwitchSound
  <2>2. SoundPlan(x, Recover(x) \o Switch(x1, r, k), approved)
    BY <1>1, <2>1, PlanThen DEF x1
  <2> QED  BY <1>2, <1>3, <2>2
<1> QED  BY <1>1, <1>2, <1>3

LEMMA RollbackSound ==
    ASSUME UpdaterAssumption, NEW x, Sound(x)
    PROVE  SoundPlan(x, Rollback(x), approved)
<1> DEFINE A == approved
           x1 == Last(x, Recover(x))
           x2 == [x1 EXCEPT !.active = x1.lkg]
           x3 == [x2 EXCEPT !.lkg = x1.active]
           x4 == Status(Status(x3, x1.lkg.rel, "active"), x1.active.rel,
                        "last_known_good")
<1>1. /\ SoundPlan(x, Recover(x), A) /\ Sound(x1) /\ ~x1.journal.on
  BY RecoverSound
<1>2. Rollback(x) = IF MayRollback(x1) THEN Recover(x) \o <<x2, x3, x4>>
                    ELSE Recover(x)
  BY DEF Rollback
<1>3. CASE MayRollback(x1)
  <2> HIDE DEF x1
  <2>1. /\ x1 \in Disk /\ x1.lkg \in Pointers /\ x1.active \in Pointers
        /\ x1.lkg # NoPtr /\ x1.lkg.rel \in A /\ x1.active # NoPtr
        /\ x1.lkg.rel \in Releases \cup {None}
        /\ x1.active.rel \in Releases \cup {None}
    <3>1. x1 \in Disk /\ x1.lkg # NoPtr /\ x1.lkg.rel \in A
      BY <1>1, <1>3 DEF Sound, MayRollback, Approved
    <3>2. x1.active # NoPtr
      BY <1>1, <3>1 DEF Sound, FallbackHasActive
    <3> QED  BY <3>1, <3>2, DiskTypes, PointerTypes
  <2>2. /\ x2 \in Disk /\ SameTrees(x1, x2) /\ x2.reg = x1.reg
        /\ x2.active = x1.lkg /\ x2.lkg = x1.lkg /\ x2.pins = x1.pins
        /\ x2.journal = x1.journal
    BY <2>1 DEF Disk, SameTrees
  <2> HIDE DEF x2
  <2>3. /\ x3 \in Disk /\ SameTrees(x2, x3) /\ x3.reg = x2.reg
        /\ x3.active = x1.lkg /\ x3.lkg = x1.active /\ x3.pins = x1.pins
        /\ x3.journal = x1.journal
    BY <2>1, <2>2 DEF Disk, SameTrees
  <2> HIDE DEF x3
  <2>4. Sound(x2)
    <3>1. Named(x2) \subseteq Named(x1)
      BY <2>2 DEF Named
    <3>2. FallbackHasActive(x2)
      BY <1>1, <2>1, <2>2 DEF FallbackHasActive
    <3> QED  BY <1>1, <2>2, <3>1, <3>2, KeepTrees
  <2>5. Sound(x3)
    <3>1. \A p \in Named(x3) \ {NoPtr} : p \in Named(x1)
      BY <2>3 DEF Named
    <3>2. \A p \in Named(x1) \ {NoPtr} : CanRun(x2, p) /\ Registered(x2, p.rel)
      <4>1. \A p \in Named(x1) \ {NoPtr} : CanRun(x1, p) /\ Registered(x1, p.rel)
        BY <1>1, SoundFacts
      <4>2. \A p : CanRun(x1, p) => CanRun(x2, p)
        BY <2>2 DEF CanRun, Reusable, SameTrees
      <4>3. \A p : Registered(x1, p.rel) => Registered(x2, p.rel)
        BY <2>2 DEF Registered
      <4> QED  BY <4>1, <4>2, <4>3
    <3>3. FallbackHasActive(x3)
      BY <1>1, <2>1, <2>3 DEF FallbackHasActive
    <3> QED  BY <2>3, <2>4, <3>1, <3>2, <3>3, KeepTrees
  <2> DEFINE u == Status(x3, x1.lkg.rel, "active")
  <2>6. Sound(u) /\ SamePointers(x3, u)
    BY <2>1, <2>5, StatusKeeps DEF STATUSES
  <2>7. Sound(x4) /\ SamePointers(u, x4)
    <3>1. x4 = Status(u, x1.active.rel, "last_known_good")
      OBVIOUS
    <3> HIDE DEF u, x4
    <3> QED  BY <2>1, <2>6, <3>1, StatusKeeps DEF STATUSES
  <2> HIDE DEF u, x4
  <2>8. SamePointers(x3, x4)
    BY <2>6, <2>7 DEF SamePointers
  <2>9. MayWrite(x1, x2, A) /\ MayWrite(x2, x3, A) /\ MayWrite(x3, x4, A)
    <3>1. MayWrite(x1, x2, A)
      BY <2>1, <2>2 DEF MayWrite
    <3>2. MayWrite(x2, x3, A)
      BY <2>2, <2>3 DEF MayWrite
    <3> QED  BY <2>8, <3>1, <3>2, Unmoved
  <2>10. SoundPlan(x1, <<x2, x3, x4>>, A)
    BY <2>4, <2>5, <2>7, <2>9, PlanThree
  <2>11. SoundPlan(x, Recover(x) \o <<x2, x3, x4>>, A)
    BY <1>1, <2>10, PlanThen DEF x1
  <2> QED  BY <1>2, <1>3, <2>11
<1>4. CASE ~MayRollback(x1)
  BY <1>1, <1>2, <1>4
<1> QED  BY <1>3, <1>4
-----------------------------------------------------------------------------
(* Prune. *)

\* What is named is protected from pruning, and so is its slot and its
\* interpreter.
LEMMA NamedIsKept ==
    ASSUME UpdaterAssumption, NEW x, Sound(x), ~x.journal.on, NEW k
    PROVE  \A p \in Named(x) \ {NoPtr} : p.rel \in Kept(x, k)
<1> SUFFICES ASSUME NEW p \in Named(x) \ {NoPtr}
             PROVE  p.rel \in Protected(x)
  BY DEF Kept
<1> QED  BY DEF Named, Protected

\* No named or staged release has one of these slots, and a prune knows them.
Droppable(x, gone) ==
    /\ \A p \in Named(x) \ {NoPtr} : SlotOf[p.rel] \notin gone
    /\ \A q \in Releases : <<q, x.reg[q].gen>> \in x.gens => SlotOf[q] \notin gone
    /\ \A s \in gone : \E r \in Releases : Registered(x, r) /\ SlotOf[r] = s

LEMMA DropSlotsSound ==
    ASSUME UpdaterAssumption, NEW x, Sound(x), NEW A, NEW gone, Droppable(x, gone)
    PROVE  LET y == Last(x, DropSlots(x, gone)) IN
           /\ SoundPlan(x, DropSlots(x, gone), A) /\ Sound(y)
           /\ SamePointers(x, y) /\ y.reg = x.reg /\ y.gens = x.gens
           /\ y.tree = x.tree /\ y.pin = x.pin /\ y.seq = x.seq
           /\ y.frozen = x.frozen
           /\ \A s \in Slots :
                 y.slot[s] = IF s \in gone THEN None ELSE x.slot[s]
<1> DEFINE f1 == [s \in Slots |-> IF s \in gone /\ x.slot[s] # None
                                  THEN Torn ELSE x.slot[s]]
           x1 == [x EXCEPT !.slot = f1]
           f2 == [s \in Slots |-> IF s \in gone THEN None ELSE f1[s]]
           x2 == [x1 EXCEPT !.slot = f2]
<1>0. x \in Disk
  BY DEF Sound
<1>1. /\ f1 \in [Slots -> Releases \cup {None, Torn}]
      /\ f2 \in [Slots -> Releases \cup {None, Torn}]
      /\ \A s \in Slots \ gone : f1[s] = x.slot[s] /\ f2[s] = x.slot[s]
      /\ \A s \in Slots : s \in gone => f2[s] = None
      /\ \A s \in Slots : /\ f1[s] \in {x.slot[s], Torn}
                           /\ f2[s] \in {x.slot[s], None}
  BY <1>0, DiskTypes
<1> HIDE DEF f1, f2
<1>2. \A y \in {x1, x2} :
         /\ y \in Disk /\ SamePointers(x, y) /\ y.reg = x.reg
         /\ y.gens = x.gens /\ y.nextgen = x.nextgen
         /\ y.tree = x.tree /\ y.pin = x.pin
         /\ y.seq = x.seq /\ y.frozen = x.frozen
         /\ \A s \in Slots \ gone : y.slot[s] = x.slot[s]
         /\ \A s \in Slots : y.slot[s] \in {x.slot[s], None, Torn}
  <2>1. /\ x1 \in Disk /\ SamePointers(x, x1) /\ x1.reg = x.reg
        /\ x1.gens = x.gens /\ x1.nextgen = x.nextgen
        /\ x1.tree = x.tree /\ x1.pin = x.pin /\ x1.slot = f1
        /\ x1.seq = x.seq /\ x1.frozen = x.frozen
    BY <1>0, <1>1 DEF Disk, SamePointers
  <2> HIDE DEF x1
  <2>2. /\ x2 \in Disk /\ SamePointers(x, x2) /\ x2.reg = x.reg
        /\ x2.gens = x.gens /\ x2.nextgen = x.nextgen
        /\ x2.tree = x.tree /\ x2.pin = x.pin /\ x2.slot = f2
        /\ x2.seq = x.seq /\ x2.frozen = x.frozen
    BY <1>1, <2>1 DEF Disk, SamePointers
  <2> HIDE DEF x2
  <2> QED  BY <1>1, <2>1, <2>2
<1>3. \A y \in {x1, x2} : Sound(y)
  <2> SUFFICES ASSUME NEW y \in {x1, x2}
               PROVE  Sound(y)
    OBVIOUS
  <2> HIDE DEF x1, x2
  <2>1. \A p : /\ p.rel \in Releases /\ SlotOf[p.rel] \notin gone
               /\ CanRun(x, p)
               => CanRun(y, p)
    BY <1>2 DEF CanRun, Reusable, UpdaterAssumption
  <2>2. \A p \in Named(x) \ {NoPtr} : CanRun(y, p) /\ Registered(y, p.rel)
    BY <1>2, <2>1, SoundFacts DEF Registered, Droppable
  <2>3. StagedRuns(y)
    BY <1>2, <2>1, SoundFacts DEF StagedRuns, Candidate, Droppable
  <2>4. GensAreFresh(y)
    BY <1>2 DEF GensAreFresh, Registered, Sound
  <2>5. SlotsAreKnown(y)
    <3> SUFFICES ASSUME NEW s \in Slots
                 PROVE  /\ y.slot[s] = Torn =>
                              \E r \in Releases : Registered(y, r) /\ SlotOf[r] = s
                        /\ y.slot[s] \in Releases => SlotOf[y.slot[s]] = s
      BY DEF SlotsAreKnown
    <3>1. y.slot[s] \in Releases => y.slot[s] = x.slot[s]
      BY <1>2 DEF UpdaterAssumption
    <3>2. s \notin gone => y.slot[s] = x.slot[s]
      BY <1>2
    <3>3. \A r \in Releases : Registered(x, r) => Registered(y, r)
      BY <1>2 DEF Registered
    <3> QED  BY <3>1, <3>2, <3>3 DEF SlotsAreKnown, Sound, Droppable
  <2> QED  BY <1>2, <2>2, <2>3, <2>4, <2>5, KeepNames
<1>4. CASE gone = {}
  <2>1. DropSlots(x, gone) = <<>>
    BY <1>4 DEF DropSlots
  <2> QED  BY <1>4, <2>1, PlanNone DEF SamePointers
<1>5. CASE gone # {}
  <2>1. DropSlots(x, gone) = <<x1, x2>>
    <3>1. x1.slot = f1
      BY <1>0 DEF Disk
    <3> QED  BY <1>5, <3>1 DEF DropSlots, f1, f2
  <2> HIDE DEF x1, x2
  <2>2. MayWrite(x, x1, A) /\ MayWrite(x1, x2, A)
    <3>1. SamePointers(x, x1) /\ SamePointers(x1, x2)
      BY <1>2 DEF SamePointers
    <3> QED  BY <3>1, Unmoved
  <2>3. /\ SoundPlan(x, <<x1, x2>>, A) /\ Last(x, <<x1, x2>>) = x2
    BY <1>3, <2>2, PlanTwo
  <2>4. \A t \in Slots : x2.slot[t] = IF t \in gone THEN None ELSE x.slot[t]
    <3>1. x2.slot = f2
      BY <1>0 DEF Disk, x1, x2
    <3> QED  BY <1>1, <3>1
  <2> QED  BY <1>2, <1>3, <2>1, <2>3, <2>4
<1> QED  BY <1>4, <1>5

LEMMA DropInterpsSound ==
    ASSUME UpdaterAssumption, NEW x, Sound(x), NEW A, NEW gone,
           \A p \in Named(x) \ {NoPtr} : InterpOf[p.rel] \notin gone,
           \A q \in Releases : <<q, x.reg[q].gen>> \in x.gens => InterpOf[q] \notin gone
    PROVE  LET y == Last(x, DropInterps(x, gone)) IN
           /\ SoundPlan(x, DropInterps(x, gone), A) /\ Sound(y)
           /\ SamePointers(x, y) /\ y.reg = x.reg /\ y.gens = x.gens
           /\ y.slot = x.slot /\ y.seq = x.seq /\ y.frozen = x.frozen
           /\ \A i \in Interps : i \in gone => ~y.pin[i]
<1> DEFINE f1 == [i \in Interps |-> IF i \in gone /\ x.tree[i] # None
                                    THEN Torn ELSE x.tree[i]]
           x1 == [x EXCEPT !.tree = f1]
           f2 == [i \in Interps |-> IF i \in gone THEN None ELSE f1[i]]
           x2 == [x1 EXCEPT !.tree = f2]
           f3 == [i \in Interps |-> i \notin gone /\ x.pin[i]]
           x3 == [x2 EXCEPT !.pin = f3]
<1>0. x \in Disk
  BY DEF Sound
<1>1. /\ f1 \in [Interps -> {None, Torn, "whole"}]
      /\ f2 \in [Interps -> {None, Torn, "whole"}]
      /\ \A i \in Interps \ gone : f1[i] = x.tree[i] /\ f2[i] = x.tree[i]
  BY <1>0, DiskTypes
<1>2. /\ f3 \in [Interps -> BOOLEAN]
      /\ \A i \in Interps \ gone : f3[i] = x.pin[i]
      /\ \A i \in Interps : i \in gone => ~f3[i]
  BY <1>0, DiskTypes
<1> HIDE DEF f1, f2, f3
<1>3. \A y \in {x1, x2, x3} :
         /\ y \in Disk /\ SamePointers(x, y) /\ y.reg = x.reg
         /\ y.gens = x.gens /\ y.nextgen = x.nextgen /\ y.slot = x.slot
         /\ y.seq = x.seq /\ y.frozen = x.frozen
         /\ \A i \in Interps \ gone : y.tree[i] = x.tree[i] /\ y.pin[i] = x.pin[i]
  <2>1. /\ x1 \in Disk /\ SamePointers(x, x1) /\ x1.reg = x.reg
        /\ x1.gens = x.gens /\ x1.nextgen = x.nextgen /\ x1.slot = x.slot
        /\ x1.seq = x.seq /\ x1.frozen = x.frozen
        /\ x1.tree = f1 /\ x1.pin = x.pin
    BY <1>0, <1>1 DEF Disk, SamePointers
  <2> HIDE DEF x1
  <2>2. /\ x2 \in Disk /\ SamePointers(x, x2) /\ x2.reg = x.reg
        /\ x2.gens = x.gens /\ x2.nextgen = x.nextgen /\ x2.slot = x.slot
        /\ x2.seq = x.seq /\ x2.frozen = x.frozen
        /\ x2.tree = f2 /\ x2.pin = x.pin
    BY <1>1, <2>1 DEF Disk, SamePointers
  <2> HIDE DEF x2
  <2>3. /\ x3 \in Disk /\ SamePointers(x, x3) /\ x3.reg = x.reg
        /\ x3.gens = x.gens /\ x3.nextgen = x.nextgen /\ x3.slot = x.slot
        /\ x3.seq = x.seq /\ x3.frozen = x.frozen
        /\ x3.tree = f2 /\ x3.pin = f3
    BY <1>2, <2>2 DEF Disk, SamePointers
  <2> HIDE DEF x3
  <2> QED  BY <1>1, <1>2, <2>1, <2>2, <2>3
<1>4. \A y \in {x1, x2, x3} : Sound(y)
  <2> SUFFICES ASSUME NEW y \in {x1, x2, x3}
               PROVE  Sound(y)
    OBVIOUS
  <2> HIDE DEF x1, x2, x3
  <2>1. \A p : /\ p.rel \in Releases /\ InterpOf[p.rel] \notin gone
               /\ CanRun(x, p)
               => CanRun(y, p)
    BY <1>3 DEF CanRun, Reusable, UpdaterAssumption
  <2>2. \A p \in Named(x) \ {NoPtr} : CanRun(y, p) /\ Registered(y, p.rel)
    BY <1>3, <2>1, SoundFacts DEF Registered
  <2>3. StagedRuns(y)
    BY <1>3, <2>1, SoundFacts DEF StagedRuns, Candidate
  <2>4. GensAreFresh(y)
    BY <1>3 DEF GensAreFresh, Registered, Sound
  <2>5. SlotsAreKnown(y)
    BY <1>3, SlotsKept DEF Registered
  <2> QED  BY <1>3, <2>2, <2>3, <2>4, <2>5, KeepNames
<1>5. CASE gone = {}
  <2>1. DropInterps(x, gone) = <<>>
    BY <1>5 DEF DropInterps
  <2> QED  BY <1>5, <2>1, PlanNone DEF SamePointers
<1>6. CASE gone # {}
  <2>1. DropInterps(x, gone) = <<x1, x2, x3>>
    <3>1. x1.tree = f1 /\ x2.pin = x.pin
      BY <1>0 DEF Disk
    <3> QED  BY <1>6, <3>1 DEF DropInterps, f1, f2, f3
  <2> HIDE DEF x1, x2, x3
  <2>2. MayWrite(x, x1, A) /\ MayWrite(x1, x2, A) /\ MayWrite(x2, x3, A)
    <3>1. SamePointers(x, x1) /\ SamePointers(x1, x2) /\ SamePointers(x2, x3)
      BY <1>3 DEF SamePointers
    <3> QED  BY <3>1, Unmoved
  <2>3. SoundPlan(x, <<x1, x2, x3>>, A) /\ Last(x, <<x1, x2, x3>>) = x3
    BY <1>4, <2>2, PlanThree
  <2>4. x3.pin = f3
    <3>1. x2 \in Disk
      BY <1>3
    <3> QED  BY <3>1 DEF Disk, x3
  <2> QED  BY <1>2, <1>3, <1>4, <2>1, <2>3, <2>4
<1> QED  BY <1>5, <1>6

\* What a prune keeps of the registry, and the slots it empties.
Staying(x, k) == {q \in Kept(x, k) \cap Releases : Registered(x, q)}
Emptied(x, k) == {SlotOf[r] : r \in Dropped(x, k)} \ {SlotOf[r] : r \in Staying(x, k)}

\* Where a prune that begins, after its recovery, in state x leaves the disk.
PruneEnds(x, k, y) ==
    /\ SamePointers(x, y) /\ y.seq = x.seq /\ y.frozen = x.frozen
    /\ \A s \in Slots : y.slot[s] = IF s \in Emptied(x, k) THEN None ELSE x.slot[s]
    /\ \A i \in Interps : y.pin[i] =>
          \E q \in Staying(x, k) : i = InterpOf[y.slot[SlotOf[q]]]

\* Pruning takes away nothing that is named, or that is staged and kept.
LEMMA PruneSound ==
    ASSUME UpdaterAssumption, NEW x, Sound(x), NEW A, NEW k
    PROVE  /\ SoundPlan(x, Prune(x, k), A)
           /\ Sound(Last(x, Prune(x, k)))
           /\ PruneEnds(Last(x, Recover(x)), k, Last(x, Prune(x, k)))
<1> DEFINE rs == Recover(x)
           x1 == Last(x, rs)
           out == Dropped(x1, k)
           kept == Kept(x1, k)
           x2 == [x1 EXCEPT !.gens = {h \in @ : h[1] \notin out}]
           slots == {SlotOf[r] : r \in out}
                    \ {SlotOf[r] : r \in {q \in kept \cap Releases : Registered(x1, q)}}
           ss == DropSlots(x2, slots)
           x3 == Last(x2, ss)
           interps == Interps \ Referenced(x3, kept)
           is == DropInterps(x3, interps)
           x4 == Last(x3, is)
           f == [r \in Releases |-> IF r \in out THEN Unknown ELSE x4.reg[r]]
           x5 == [x4 EXCEPT !.reg = f]
<1>1. /\ SoundPlan(x, rs, A) /\ Sound(x1) /\ ~x1.journal.on
  BY RecoverSound
<1>2. Prune(x, k) = rs \o <<x2>> \o ss \o is \o <<x5>>
  BY DEF Prune
<1>2a. /\ {q \in kept \cap Releases : Registered(x1, q)} = Staying(x1, k)
       /\ slots = Emptied(x1, k)
  BY DEF Staying, Emptied
<1> HIDE DEF rs, x1
<1>3. /\ \A p \in Named(x1) \ {NoPtr} : p.rel \in kept /\ p.rel \notin out
      /\ \A r \in Releases : Registered(x1, r) /\ r \notin out => r \in kept
      /\ out \subseteq Releases
      /\ \A r \in out : Registered(x1, r) /\ r \notin kept
  BY <1>1, NamedIsKept DEF Dropped
<1> HIDE DEF out, kept
<1>4. /\ x1 \in Disk /\ x1.gens \in SUBSET (Releases \X (1..MaxGens))
      /\ x1.reg \in [Releases -> [st : STATUSES, gen : 0..MaxGens]]
  BY <1>1, DiskTypes DEF Sound
<1>5. /\ x2 \in Disk /\ SamePointers(x1, x2) /\ x2.reg = x1.reg
      /\ x2.slot = x1.slot /\ x2.tree = x1.tree /\ x2.pin = x1.pin
      /\ x2.nextgen = x1.nextgen
      /\ x2.seq = x1.seq /\ x2.frozen = x1.frozen
      /\ x2.gens = {h \in x1.gens : h[1] \notin out}
  <2>1. {h \in x1.gens : h[1] \notin out} \in SUBSET (Releases \X (1..MaxGens))
    BY <1>4
  <2> QED  BY <1>4, <2>1 DEF Disk, SamePointers
<1> HIDE DEF x2
<1>6. \A p : p.rel \notin out /\ CanRun(x1, p) => CanRun(x2, p)
  BY <1>5 DEF CanRun, Reusable
<1>7. \A q \in Releases : <<q, x2.reg[q].gen>> \in x2.gens =>
         /\ q \notin out /\ <<q, x1.reg[q].gen>> \in x1.gens
         /\ Registered(x1, q) /\ q \in kept
  <2> TAKE q \in Releases
  <2> HAVE <<q, x2.reg[q].gen>> \in x2.gens
  <2>1. q \notin out /\ <<q, x1.reg[q].gen>> \in x1.gens
    BY <1>5
  <2> QED  BY <1>1, <1>3, <2>1, SoundFacts
<1>8. Sound(x2) /\ MayWrite(x1, x2, A)
  <2>1. \A p \in Named(x1) \ {NoPtr} : CanRun(x2, p) /\ Registered(x2, p.rel)
    BY <1>1, <1>3, <1>5, <1>6, SoundFacts DEF Registered
  <2>2. StagedRuns(x2)
    <3> SUFFICES ASSUME NEW q \in Releases, <<q, x2.reg[q].gen>> \in x2.gens
                 PROVE  CanRun(x2, Candidate(x2, q))
      BY DEF StagedRuns
    <3>1. CanRun(x1, Candidate(x1, q)) /\ q \notin out
      BY <1>1, <1>7, SoundFacts
    <3>2. Candidate(x2, q) = Candidate(x1, q) /\ Candidate(x1, q).rel = q
      BY <1>5 DEF Candidate
    <3> QED  BY <1>6, <3>1, <3>2
  <2>3. GensAreFresh(x2)
    BY <1>1, <1>5 DEF GensAreFresh, Registered, Sound
  <2>4. SlotsAreKnown(x2)
    BY <1>1, <1>5, SlotsKept DEF Registered
  <2> QED  BY <1>1, <1>5, <2>1, <2>2, <2>3, <2>4, KeepNames, Unmoved
<1>9. Named(x2) = Named(x1)
  BY <1>5 DEF SamePointers, Named
<1>10. /\ SoundPlan(x2, ss, A) /\ Sound(x3) /\ SamePointers(x2, x3)
       /\ x3.reg = x2.reg /\ x3.gens = x2.gens
       /\ x3.seq = x2.seq /\ x3.frozen = x2.frozen
       /\ \A s \in Slots : x3.slot[s] = IF s \in slots THEN None ELSE x2.slot[s]
  <2>0. \A s \in slots : \E r \in Releases : Registered(x2, r) /\ SlotOf[r] = s
    BY <1>3, <1>5 DEF Registered
  <2>1. \A r \in Releases : r \in kept /\ Registered(x1, r) => SlotOf[r] \notin slots
    OBVIOUS
  <2> HIDE DEF slots
  <2>2. \A p \in Named(x2) \ {NoPtr} : SlotOf[p.rel] \notin slots
    BY <1>1, <1>3, <1>9, <2>1, SoundFacts
  <2>3. \A q \in Releases : <<q, x2.reg[q].gen>> \in x2.gens => SlotOf[q] \notin slots
    BY <1>7, <2>1
  <2> HIDE DEF ss
  <2>4. ss = DropSlots(x2, slots)
    BY DEF ss
  <2>5. LET y == Last(x2, DropSlots(x2, slots)) IN
        /\ SoundPlan(x2, DropSlots(x2, slots), A) /\ Sound(y)
        /\ SamePointers(x2, y) /\ y.reg = x2.reg /\ y.gens = x2.gens
        /\ y.seq = x2.seq /\ y.frozen = x2.frozen
        /\ \A s \in Slots : y.slot[s] = IF s \in slots THEN None ELSE x2.slot[s]
    <3> HIDE DEF x3
    <3>1. Droppable(x2, slots)
      BY <2>0, <2>2, <2>3 DEF Droppable
    <3> QED  BY <1>8, <3>1, DropSlotsSound
  <2> QED  BY <2>4, <2>5
<1> HIDE DEF ss, x3
<1>11. Named(x3) = Named(x1)
  BY <1>9, <1>10 DEF SamePointers, Named
<1>12. /\ SoundPlan(x3, is, A) /\ Sound(x4) /\ SamePointers(x3, x4)
       /\ x4.reg = x3.reg /\ x4.gens = x3.gens
       /\ x4.slot = x3.slot /\ x4.seq = x3.seq /\ x4.frozen = x3.frozen
       /\ \A i \in Interps : i \in interps => ~x4.pin[i]
  <2>1. \A r \in Releases : r \in kept /\ Registered(x3, r) /\ x3.slot[SlotOf[r]] = r
                               => InterpOf[r] \notin interps
    <3> SUFFICES ASSUME NEW r \in Releases, r \in kept, Registered(x3, r),
                        x3.slot[SlotOf[r]] = r
                 PROVE  InterpOf[r] \in Referenced(x3, kept)
      OBVIOUS
    <3>1. r \in {q \in kept \cap Releases :
                   Registered(x3, q) /\ x3.slot[SlotOf[q]] \in Releases}
      OBVIOUS
    <3> QED  BY <3>1 DEF Referenced
  <2> HIDE DEF interps
  <2>2. \A p \in Named(x3) \ {NoPtr} : InterpOf[p.rel] \notin interps
    BY <1>3, <1>10, <1>11, <2>1, SoundFacts DEF CanRun
  <2>3. \A q \in Releases : <<q, x3.reg[q].gen>> \in x3.gens => InterpOf[q] \notin interps
    <3> TAKE q \in Releases
    <3> HAVE <<q, x3.reg[q].gen>> \in x3.gens
    <3>1. q \in kept
      BY <1>7, <1>10
    <3>2. CanRun(x3, Candidate(x3, q)) /\ Registered(x3, q)
      BY <1>10, SoundFacts
    <3>3. x3.slot[SlotOf[q]] = q
      BY <3>2 DEF CanRun, Candidate
    <3> QED  BY <2>1, <3>1, <3>2, <3>3
  <2> QED  BY <1>10, <2>2, <2>3, DropInterpsSound
<1> HIDE DEF is, x4
<1>13. /\ x4 \in Disk /\ x4.reg = x1.reg /\ x4.gens = x2.gens
       /\ Named(x4) = Named(x1)
  BY <1>5, <1>10, <1>11, <1>12 DEF Sound, SamePointers, Named
<1>14. /\ x5 \in Disk /\ SamePointers(x4, x5) /\ SameTrees(x4, x5)
       /\ x5.seq = x4.seq /\ x5.frozen = x4.frozen
       /\ \A r \in Releases : x5.reg[r] = IF r \in out THEN Unknown ELSE x4.reg[r]
  <2>1. Unknown \in [st : STATUSES, gen : 0..MaxGens]
    BY DEF Unknown, STATUSES, UpdaterAssumption
  <2>2. /\ f \in [Releases -> [st : STATUSES, gen : 0..MaxGens]]
        /\ \A r \in Releases : f[r] = IF r \in out THEN Unknown ELSE x4.reg[r]
    BY <1>4, <1>13, <2>1
  <2> HIDE DEF f
  <2> QED  BY <1>13, <2>2 DEF Disk, SamePointers, SameTrees
<1> HIDE DEF x5
<1>15. Sound(x5) /\ MayWrite(x4, x5, A)
  <2>1. \A p : CanRun(x5, p) <=> CanRun(x4, p)
    BY <1>14 DEF SameTrees, CanRun, Reusable
  <2>2. \A p \in Named(x4) \ {NoPtr} : CanRun(x5, p) /\ Registered(x5, p.rel)
    BY <1>3, <1>12, <1>13, <1>14, <2>1, SoundFacts DEF Registered
  <2>3. StagedRuns(x5)
    <3> SUFFICES ASSUME NEW q \in Releases, <<q, x5.reg[q].gen>> \in x5.gens
                 PROVE  CanRun(x5, Candidate(x5, q))
      BY DEF StagedRuns
    <3>1. x5.gens = x4.gens /\ x4.gens \in SUBSET (Releases \X (1..MaxGens))
      BY <1>13, <1>14, DiskTypes DEF SameTrees
    <3>2. q \notin out
      <4>1. <<q, 0>> \notin x4.gens
        BY <3>1
      <4> QED  BY <1>14, <3>1, <4>1 DEF Unknown
    <3>3. /\ <<q, x4.reg[q].gen>> \in x4.gens
          /\ Candidate(x5, q) = Candidate(x4, q)
      BY <1>14, <3>1, <3>2 DEF Candidate
    <3> QED  BY <1>12, <2>1, <3>3, SoundFacts
  <2>4. GensAreFresh(x5)
    <3>1. x4.nextgen \in 1..(MaxGens + 1) /\ MaxGens \in Nat
      BY <1>13, DiskTypes DEF UpdaterAssumption
    <3>2. Unknown.gen = 0 /\ 0 < x4.nextgen
      BY <3>1 DEF Unknown
    <3>3. /\ \A h \in x4.gens : h[2] < x4.nextgen
          /\ \A r \in Releases : x4.reg[r].gen < x4.nextgen
          /\ \A r \in Releases : ~Registered(x4, r) => x4.reg[r].gen = 0
      BY <1>12 DEF Sound, GensAreFresh
    <3>4. \A r \in Releases : x5.reg[r].gen < x5.nextgen
      BY <1>14, <3>2, <3>3 DEF SameTrees
    <3>5. \A r \in Releases : ~Registered(x5, r) => x5.reg[r].gen = 0
      BY <1>14, <3>2, <3>3 DEF Registered
    <3> QED  BY <1>14, <3>3, <3>4, <3>5 DEF GensAreFresh, SameTrees
  <2>5. SlotsAreKnown(x5)
    <3>0. \A s \in Slots : x5.slot[s] \in Releases => SlotOf[x5.slot[s]] = s
      BY <1>12, <1>14 DEF Sound, SlotsAreKnown, SameTrees
    <3> SUFFICES ASSUME NEW s \in Slots, x5.slot[s] = Torn
                 PROVE  \E r \in Releases : Registered(x5, r) /\ SlotOf[r] = s
      BY <3>0 DEF SlotsAreKnown
    <3>1. x4.slot[s] = Torn
      BY <1>14 DEF SameTrees
    <3>2. PICK r \in Releases : Registered(x4, r) /\ SlotOf[r] = s
      BY <1>12, <3>1 DEF Sound, SlotsAreKnown
    <3>3. s \notin slots
      BY <1>10, <1>12, <3>1 DEF None, Torn
    <3>4. CASE r \notin out
      BY <1>14, <3>2, <3>4 DEF Registered
    <3>5. CASE r \in out
      <4>1. PICK q \in kept \cap Releases : Registered(x1, q) /\ SlotOf[q] = s
        BY <3>2, <3>3, <3>5
      <4>2. Registered(x5, q)
        BY <1>3, <1>13, <1>14, <4>1 DEF Registered
      <4> QED  BY <4>1, <4>2
    <3> QED  BY <3>4, <3>5
  <2> QED  BY <1>12, <1>14, <2>2, <2>3, <2>4, <2>5, KeepNames, Unmoved
<1>16. SoundPlan(x, rs \o <<x2>>, A) /\ Last(x, rs \o <<x2>>) = x2
  BY <1>1, <1>8, PlanAdd DEF x1
<1>17. SoundPlan(x, rs \o <<x2>> \o ss, A) /\ Last(x, rs \o <<x2>> \o ss) = x3
  BY <1>10, <1>16, PlanThen DEF x3
<1>18. /\ SoundPlan(x, rs \o <<x2>> \o ss \o is, A)
       /\ Last(x, rs \o <<x2>> \o ss \o is) = x4
  BY <1>12, <1>17, PlanThen DEF x4
<1>19. /\ SoundPlan(x, rs \o <<x2>> \o ss \o is \o <<x5>>, A)
       /\ Last(x, rs \o <<x2>> \o ss \o is \o <<x5>>) = x5
  BY <1>15, <1>18, PlanAdd
<1>20. /\ SamePointers(x1, x5) /\ x5.slot = x3.slot
       /\ x5.seq = x1.seq /\ x5.frozen = x1.frozen
  BY <1>5, <1>10, <1>12, <1>14 DEF SamePointers, SameTrees
<1>21. PruneEnds(x1, k, x5)
  <2>1. \A s \in Slots : x5.slot[s] = IF s \in slots THEN None ELSE x1.slot[s]
    BY <1>5, <1>10, <1>20
  <2>2. \A i \in Interps : x5.pin[i] =>
           \E q \in Staying(x1, k) : i = InterpOf[x5.slot[SlotOf[q]]]
    <3> TAKE i \in Interps
    <3> HAVE x5.pin[i]
    <3>1. i \in Referenced(x3, kept)
      BY <1>12, <1>14 DEF SameTrees
    <3>2. PICK q \in kept \cap Releases :
             Registered(x3, q) /\ i = InterpOf[x3.slot[SlotOf[q]]]
      BY <3>1 DEF Referenced
    <3>3. Registered(x1, q)
      BY <1>5, <1>10, <3>2 DEF Registered
    <3> QED  BY <1>20, <1>2a, <3>2, <3>3
  <2> HIDE DEF slots
  <2> QED  BY <1>20, <1>2a, <2>1, <2>2 DEF PruneEnds
<1> QED  BY <1>2, <1>15, <1>19, <1>21 DEF rs, x1
-----------------------------------------------------------------------------
(* Pins and the freeze. *)

LEMMA PinSound ==
    ASSUME UpdaterAssumption, NEW x, Sound(x), NEW a \in Attempts
    PROVE  SoundPlan(x, PinAttempt(x, a), approved)
<1> DEFINE y == [x EXCEPT !.pins[a] = x.active]
<1>0. x \in Disk
  BY DEF Sound
<1>1. CASE ~(Identity(x, x.active) /\ x.pins[a] \in {NoPtr, x.active})
  <2>1. PinAttempt(x, a) = <<>>
    BY <1>1 DEF PinAttempt
  <2> QED  BY <2>1, PlanNone
<1>2. CASE Identity(x, x.active) /\ x.pins[a] \in {NoPtr, x.active}
  <2>1. PinAttempt(x, a) = <<y>>
    BY <1>2 DEF PinAttempt
  <2> DEFINE f == [x.pins EXCEPT ![a] = x.active]
  <2>2. /\ f \in [Attempts -> Pointers] /\ f[a] = x.active
        /\ \A b \in Attempts \ {a} : f[b] = x.pins[b]
    BY <1>0, DiskTypes
  <2>3. y = [x EXCEPT !.pins = f]
    OBVIOUS
  <2> HIDE DEF f, y
  <2>4. /\ y \in Disk /\ SameTrees(x, y) /\ y.reg = x.reg
        /\ y.active = x.active /\ y.lkg = x.lkg /\ y.journal = x.journal
        /\ y.pins = f
    BY <1>0, <2>2, <2>3 DEF Disk, SameTrees
  <2>5. Named(y) \subseteq Named(x)
    BY <2>2, <2>4 DEF Named
  <2>6. FallbackHasActive(y)
    BY <2>4 DEF FallbackHasActive, Sound
  <2>7. Sound(y)
    BY <2>4, <2>5, <2>6, KeepTrees
  <2>8. MayWrite(x, y, approved)
    BY <1>2, <2>2, <2>4 DEF MayWrite, Identity, Approved
  <2> QED  BY <2>1, <2>7, <2>8, PlanOne
<1> QED  BY <1>1, <1>2

LEMMA FinishSound ==
    ASSUME UpdaterAssumption, NEW x, Sound(x), NEW a \in Attempts
    PROVE  SoundPlan(x, FinishAttempt(x, a), approved)
<1> DEFINE y == [x EXCEPT !.pins[a] = NoPtr]
<1>0. x \in Disk
  BY DEF Sound
<1>1. CASE ~Identity(x, x.pins[a])
  <2>1. FinishAttempt(x, a) = <<>>
    BY <1>1 DEF FinishAttempt
  <2> QED  BY <2>1, PlanNone
<1>2. CASE Identity(x, x.pins[a])
  <2>1. FinishAttempt(x, a) = <<y>>
    BY <1>2 DEF FinishAttempt
  <2> DEFINE f == [x.pins EXCEPT ![a] = NoPtr]
  <2>2. /\ f \in [Attempts -> Pointers] /\ f[a] = NoPtr
        /\ \A b \in Attempts \ {a} : f[b] = x.pins[b]
    BY <1>0, DiskTypes DEF Pointers
  <2>3. y = [x EXCEPT !.pins = f]
    OBVIOUS
  <2> HIDE DEF f, y
  <2>4. /\ y \in Disk /\ SameTrees(x, y) /\ y.reg = x.reg
        /\ y.active = x.active /\ y.lkg = x.lkg /\ y.journal = x.journal
        /\ y.pins = f
    BY <1>0, <2>2, <2>3 DEF Disk, SameTrees
  <2>5. \A p \in Named(y) \ {NoPtr} : p \in Named(x)
    BY <2>2, <2>4 DEF Named
  <2>6. FallbackHasActive(y)
    BY <2>4 DEF FallbackHasActive, Sound
  <2>7. Sound(y)
    BY <2>4, <2>5, <2>6, KeepTrees
  <2>8. MayWrite(x, y, approved)
    BY <2>2, <2>4 DEF MayWrite
  <2> QED  BY <2>1, <2>7, <2>8, PlanOne
<1> QED  BY <1>1, <1>2

LEMMA FreezeSound ==
    ASSUME UpdaterAssumption, NEW x, Sound(x), NEW A, NEW on \in BOOLEAN
    PROVE  SoundPlan(x, Freeze(x, on), A)
<1> DEFINE y == [x EXCEPT !.frozen = on]
<1>0. x \in Disk
  BY DEF Sound
<1>1. /\ y \in Disk /\ SameTrees(x, y) /\ SamePointers(x, y) /\ y.reg = x.reg
  BY <1>0 DEF Disk, SameTrees, SamePointers
<1> HIDE DEF y
<1>2. Named(y) \subseteq Named(x) /\ FallbackHasActive(y)
  BY <1>1 DEF SamePointers, Named, FallbackHasActive, Sound
<1>3. Sound(y) /\ MayWrite(x, y, A)
  BY <1>1, <1>2, KeepTrees, Unmoved
<1> QED  BY <1>3, PlanOne DEF Freeze, y

-----------------------------------------------------------------------------
(* The invariant. *)

LEMMA InitSound ==
    ASSUME UpdaterAssumption, Init
    PROVE  IInv
<1>1. d \in Disk
  <2>1. NoPtr \in Pointers /\ 1 \in 1..(MaxGens + 1) /\ 0 \in 0..MaxGens
    BY DEF Pointers, UpdaterAssumption
  <2>2. [r \in Releases |-> Unknown]
           \in [Releases -> [st : STATUSES, gen : 0..MaxGens]]
    BY <2>1 DEF Unknown, STATUSES
  <2>3. NoJournal \in [on : BOOLEAN, old : Pointers, cand : Pointers]
    BY <2>1 DEF NoJournal
  <2> QED  BY <2>1, <2>2, <2>3 DEF Init, Disk
<1>2. Named(d) = {NoPtr} /\ d.gens = {} /\ d.nextgen = 1 /\ d.lkg = NoPtr
      /\ \A r \in Releases : d.reg[r] = Unknown
  BY DEF Init, Named, NoJournal
<1>3. Unknown.gen = 0 /\ 0 < 1
  BY DEF Unknown
<1>4. NamedRuns(d) /\ StagedRuns(d) /\ GensAreFresh(d) /\ FallbackHasActive(d)
  BY <1>2, <1>3 DEF NamedRuns, StagedRuns, GensAreFresh, FallbackHasActive
<1>5. Sound(d)
  <2>1. SlotsAreKnown(d)
    BY DEF Init, SlotsAreKnown, None, Torn, UpdaterAssumption
  <2> QED  BY <1>1, <1>4, <2>1 DEF Sound
<1> QED  BY <1>5, PlanNone DEF IInv, Init

LEMMA PlansSound ==
    ASSUME UpdaterAssumption, Sound(d)
    PROVE  /\ \A plan \in Plans(d) \cup Dispatches(d) : SoundPlan(d, plan, approved)
           /\ SoundPlan(d, Recover(d), approved)
BY ImportSound, StageSound, ActivateSound, RollbackSound, PruneSound,
   FreezeSound, PinSound, FinishSound, RecoverSound DEF Plans, Dispatches

\* Every step keeps the invariant and is a write the command may do.
LEMMA NextSound ==
    ASSUME UpdaterAssumption, IInv, [Next]_vars
    PROVE  IInv' /\ (d' # d => MayWrite(d, d', vetted'))
<1> USE DEF IInv
<1>1. CASE Command
  <2>1. d' = d /\ vetted' = approved /\ todo' \in Plans(d)
    BY <1>1 DEF Command
  <2>2. SoundPlan(d, todo', approved)
    BY <2>1, PlansSound
  <2> QED  BY <2>1, <2>2 DEF Sound, SoundPlan
<1>2. CASE Inspect
  <2>1. d' = d /\ vetted' = approved /\ todo' = Recover(d)
    BY <1>2 DEF Inspect
  <2>2. SoundPlan(d, todo', approved)
    BY <2>1, PlansSound
  <2> QED  BY <2>1, <2>2 DEF Sound, SoundPlan
<1>3. CASE Dispatch
  <2>1. /\ todo' = <<>> /\ vetted' = approved
        /\ \E plan \in Dispatches(d) : plan # <<>> /\ d' = plan[1]
    BY <1>3 DEF Dispatch, Changes
  <2>2. Sound(d') /\ MayWrite(d, d', approved)
    <3>1. PICK plan \in Dispatches(d) : plan # <<>> /\ d' = plan[1]
      BY <2>1
    <3>2. SoundPlan(d, plan, approved)
      BY PlansSound
    <3>3. Head(plan) = plan[1]
      BY <3>1
    <3> QED  BY <3>1, <3>2, <3>3, PlanRest
  <2>3. SoundPlan(d', todo', vetted')
    BY <2>1, PlanNone
  <2> QED  BY <2>1, <2>2, <2>3
<1>4. CASE Write
  <2>1. todo # <<>> /\ d' = Head(todo) /\ todo' = Tail(todo) /\ vetted' = vetted
    BY <1>4 DEF Write
  <2>2. Sound(d') /\ MayWrite(d, d', vetted) /\ SoundPlan(d', todo', vetted)
    BY <2>1, PlanRest
  <2> QED  BY <2>1, <2>2
<1>5. CASE Crash
  <2>1. d' = d /\ todo' = <<>>
    BY <1>5 DEF Crash
  <2>2. SoundPlan(d', todo', vetted')
    BY <2>1, PlanNone
  <2> QED  BY <2>1, <2>2
<1>6. CASE \E r \in Releases : Decide(r)
  <2>1. d' = d /\ todo' = todo /\ vetted' = vetted
    BY <1>6 DEF Decide
  <2> QED  BY <2>1
<1>7. CASE UNCHANGED vars
  <2>1. d' = d /\ todo' = todo /\ vetted' = vetted
    BY <1>7 DEF vars
  <2> QED  BY <2>1
<1> QED  BY <1>1, <1>2, <1>3, <1>4, <1>5, <1>6, <1>7 DEF Next

LEMMA AlwaysSound ==
    ASSUME UpdaterAssumption
    PROVE  Spec => []IInv
<1>1. Init => IInv
  BY InitSound
<1>2. IInv /\ [Next]_vars => IInv'
  BY NextSound
<1> QED  BY <1>1, <1>2, PTL DEF Spec

-----------------------------------------------------------------------------
(* Theorems. *)

\* The pointers and the pins are pointers, a last-known-good release goes with
\* an active one, and the registry knows what they name (the files of
\* RuntimeUpdateService).
THEOREM UpdaterTypes ==
    ASSUME UpdaterAssumption
    PROVE  Spec => []TypeOK
<1>1. IInv => TypeOK
  <2> SUFFICES ASSUME Sound(d)
               PROVE  TypeOK
    BY DEF IInv
  <2>1. d \in Disk
    BY DEF Sound
  <2>2. /\ d.active \in Pointers /\ d.lkg \in Pointers
        /\ d.pins \in [Attempts -> Pointers]
    BY <2>1, DiskTypes
  <2>3. d.lkg # NoPtr => d.active # NoPtr
    BY DEF Sound, FallbackHasActive
  <2>4. \A r \in Protected(d) \ {None} : Registered(d, r)
    <3> TAKE r \in Protected(d) \ {None}
    <3>1. PICK p \in Named(d) : r = p.rel
      BY DEF Protected, Named
    <3>2. p # NoPtr
      BY <3>1 DEF NoPtr
    <3> QED  BY <3>1, <3>2, SoundFacts
  <2> QED  BY <2>2, <2>3, <2>4 DEF TypeOK
<1> QED  BY <1>1, AlwaysSound, PTL

\* Between any two writes of any command, and after any crash, what the active
\* and last-known-good pointers and the pins name is there to run: the slot,
\* the generation and a whole interpreter (activate, rollback, prune, stage).
THEOREM WhatIsNamedRuns ==
    ASSUME UpdaterAssumption
    PROVE  Spec => []PointersResolve
<1>1. IInv => PointersResolve
  <2> SUFFICES ASSUME Sound(d),
                      NEW p \in {d.active, d.lkg} \cup {d.pins[a] : a \in Attempts},
                      p # NoPtr
               PROVE  Resolves(p)
    BY DEF IInv, PointersResolve
  <2>1. p \in Named(d) \ {NoPtr}
    BY DEF Named
  <2> QED  BY <2>1, SoundFacts DEF CanRun, Resolves
<1> QED  BY <1>1, AlwaysSound, PTL

\* No write moves the active pointer or a pin to a release that was not
\* approved when its command began, except the journal's recovery; and the
\* journal is closed only on the pointer it names as the old one, or on the
\* candidate once it is registered as active.
THEOREM ApprovalsAndJournal ==
    ASSUME UpdaterAssumption
    PROVE  Spec => [][ApprovedOnly /\ RecoversExactly]_vars
<1>1. IInv /\ [Next]_vars => [ApprovedOnly /\ RecoversExactly]_vars
  <2> SUFFICES ASSUME IInv, [Next]_vars
               PROVE  ApprovedOnly /\ RecoversExactly
    OBVIOUS
  <2>1. CASE d' = d
    BY <2>1 DEF ApprovedOnly, RecoversExactly
  <2>2. CASE d' # d
    <3>1. MayWrite(d, d', vetted')
      BY <2>2, NextSound
    <3> QED  BY <3>1 DEF MayWrite, ApprovedOnly, RecoversExactly
  <2> QED  BY <2>1, <2>2
<1> QED  BY <1>1, AlwaysSound, PTL DEF Spec

-----------------------------------------------------------------------------
(* The operator's repair. *)

\* A prune that retains nothing keeps exactly what is protected.
LEMMA KeptNone ==
    ASSUME UpdaterAssumption, NEW x
    PROVE  Kept(x, 0) = Protected(x)
<1> DEFINE others == {r \in Releases : Registered(x, r)} \ Protected(x)
           newer(r) == {q \in others : SeqOf[q] > SeqOf[r]}
<1>1. \A r : Cardinality(newer(r)) \in Nat
  <2> TAKE r
  <2>1. newer(r) \subseteq Releases /\ IsFiniteSet(Releases)
    BY DEF UpdaterAssumption
  <2> HIDE DEF newer
  <2>2. IsFiniteSet(newer(r))
    BY <2>1, FS_Subset
  <2> QED  BY <2>2, FS_CardinalityType
<1>2. {r \in others : Cardinality(newer(r)) < 0} = {}
  <2> HIDE DEF newer, others
  <2> QED  BY <1>1
<1>3. Kept(x, 0) = Protected(x) \cup {r \in others : Cardinality(newer(r)) < 0}
  BY DEF Kept
<1> QED  BY <1>2, <1>3

\* Who is protected is named, and so runs.
LEMMA ProtectedRuns ==
    ASSUME UpdaterAssumption, NEW x, Sound(x), NEW q \in Protected(x) \ {None}
    PROVE  \E p \in Named(x) \ {NoPtr} : p.rel = q /\ CanRun(x, p)
<1>1. PICK p \in Named(x) : q = p.rel
  BY DEF Protected, Named
<1>2. p # NoPtr
  BY <1>1 DEF NoPtr
<1> QED  BY <1>1, <1>2, SoundFacts

\* After such a prune the release's slot is free or its own, unless a
\* protected release, or one that was never registered, holds it.
LEMMA SlotIsFree ==
    ASSUME UpdaterAssumption, NEW x, Sound(x), NEW r \in Releases,
           NEW y, PruneEnds(x, 0, y),
           \A q \in Protected(x) \ {None, r} : SlotOf[q] # SlotOf[r],
           Foreign(x, r) => Registered(x, x.slot[SlotOf[r]])
    PROVE  y.slot[SlotOf[r]] \in {None, r}
<1> DEFINE s == SlotOf[r]
<1>0. s \in Slots /\ x.slot[s] \in Releases \cup {None, Torn}
  BY DiskTypes DEF UpdaterAssumption, Sound
<1>1. y.slot[s] = IF s \in Emptied(x, 0) THEN None ELSE x.slot[s]
  BY <1>0 DEF PruneEnds
<1> SUFFICES ASSUME x.slot[s] # r, x.slot[s] # None
             PROVE  s \in Emptied(x, 0)
  BY <1>1
<1>2. \A q \in Protected(x) \ {None} : SlotOf[q] # s
  <2> SUFFICES ASSUME r \in Protected(x) \ {None}
               PROVE  FALSE
    OBVIOUS
  <2>1. PICK p \in Named(x) \ {NoPtr} : p.rel = r /\ CanRun(x, p)
    BY ProtectedRuns
  <2> QED  BY <2>1 DEF CanRun
<1>3. \A q \in Staying(x, 0) : SlotOf[q] # s
  BY <1>2, KeptNone DEF Staying, UpdaterAssumption
<1>4. \E q \in Releases : Registered(x, q) /\ SlotOf[q] = s
  <2>1. CASE x.slot[s] = Torn
    BY <1>0, <2>1 DEF Sound, SlotsAreKnown
  <2>2. CASE x.slot[s] \in Releases
    <3>1. Registered(x, x.slot[s])
      BY <2>2 DEF Foreign
    <3>2. SlotOf[x.slot[s]] = s
      BY <1>0, <2>2 DEF Sound, SlotsAreKnown
    <3> QED  BY <2>2, <3>1, <3>2
  <2> QED  BY <1>0, <2>1, <2>2
<1>5. PICK q \in Releases : Registered(x, q) /\ SlotOf[q] = s
  BY <1>4
<1>6. q \in Dropped(x, 0)
  BY <1>2, <1>5, KeptNone DEF Dropped, UpdaterAssumption
<1> QED  BY <1>3, <1>5, <1>6 DEF Emptied

\* After such a prune no pinned interpreter is torn.
LEMMA PinsAreWhole ==
    ASSUME UpdaterAssumption, NEW x, Sound(x), ~x.journal.on,
           NEW y, Sound(y), PruneEnds(x, 0, y), NEW i \in Interps, y.pin[i]
    PROVE  Reusable(y, i)
<1>1. PICK q \in Staying(x, 0) : i = InterpOf[y.slot[SlotOf[q]]]
  BY DEF PruneEnds
<1>2. q \in Protected(y) \ {None}
  <2>1. q \in Protected(x) \ {None}
    BY <1>1, KeptNone DEF Staying, UpdaterAssumption
  <2> QED  BY <2>1 DEF PruneEnds, SamePointers, Protected
<1>3. PICK p \in Named(y) \ {NoPtr} : p.rel = q /\ CanRun(y, p)
  BY <1>2, ProtectedRuns
<1> QED  BY <1>1, <1>3 DEF CanRun

\* Staging what was just imported, with the first generation number.
LEMMA StageEnds ==
    ASSUME UpdaterAssumption, NEW x, Sound(x), NEW r \in Releases,
           x.reg[r] = [st |-> "verified", gen |-> 0],
           x.slot[SlotOf[r]] = r, x.pin[InterpOf[r]] => Reusable(x, InterpOf[r])
    PROVE  LET y == Last(x, Stage([x EXCEPT !.nextgen = 1], r, TRUE)) IN
           /\ y \in Disk /\ SamePointers(x, y) /\ y.frozen = x.frozen
           /\ y.reg[r] = [st |-> "staged", gen |-> 1]
           /\ <<r, 1>> \in y.gens
           /\ y.slot[SlotOf[r]] = r /\ Reusable(y, InterpOf[r])
<1> DEFINE z == [x EXCEPT !.nextgen = 1]
           i == InterpOf[r]
           z1 == [z EXCEPT !.gens = @ \union {<<r, 1>>}, !.nextgen = 1 + 1]
           ps == Provision(z1, i)
           z2 == Last(z1, ps)
           z3 == [z2 EXCEPT !.reg[r] = [st |-> "staged", gen |-> 1]]
<1>0. x \in Disk /\ i \in Interps /\ 1 \in 1..MaxGens /\ ~(1 > MaxGens)
  BY DEF Sound, UpdaterAssumption
<1>1. /\ z \in Disk /\ z.nextgen = 1 /\ SamePointers(x, z)
      /\ z.reg = x.reg /\ z.slot = x.slot /\ z.tree = x.tree /\ z.pin = x.pin
      /\ z.gens = x.gens /\ z.frozen = x.frozen
  <2>1. 1 \in 1..(MaxGens + 1)
    BY DEF UpdaterAssumption
  <2> QED  BY <1>0, <2>1 DEF Disk, SamePointers
<1> HIDE DEF z
<1>2. /\ z1 \in Disk /\ SamePointers(z, z1)
      /\ z1.reg = z.reg /\ z1.slot = z.slot /\ z1.tree = z.tree /\ z1.pin = z.pin
      /\ z1.frozen = z.frozen /\ <<r, 1>> \in z1.gens
  <2>1. /\ 1 + 1 \in 1..(MaxGens + 1)
        /\ z.gens \cup {<<r, 1>>} \in SUBSET (Releases \X (1..MaxGens))
    BY <1>0, <1>1, DiskTypes DEF UpdaterAssumption
  <2> QED  BY <1>1, <2>1 DEF Disk, SamePointers
<1> HIDE DEF z1
<1>3. /\ ps \in Seq(Disk) /\ z2 \in Disk /\ z2.frozen = z1.frozen
      /\ SamePointers(z1, z2) /\ z2.reg = z1.reg /\ z2.slot = z1.slot
      /\ z2.gens = z1.gens /\ Reusable(z2, i)
  BY <1>0, <1>2, ProvisionSound
<1> HIDE DEF ps, z2
<1>4. /\ z3 \in Disk /\ SamePointers(z2, z3) /\ z3.frozen = z2.frozen
      /\ z3.slot = z2.slot /\ z3.gens = z2.gens
      /\ z3.tree = z2.tree /\ z3.pin = z2.pin
      /\ z3.reg[r] = [st |-> "staged", gen |-> 1]
  <2> DEFINE f == [z2.reg EXCEPT ![r] = [st |-> "staged", gen |-> 1]]
  <2>1. [st |-> "staged", gen |-> 1] \in [st : STATUSES, gen : 0..MaxGens]
    BY <1>0 DEF STATUSES
  <2>2. /\ f \in [Releases -> [st : STATUSES, gen : 0..MaxGens]]
        /\ f[r] = [st |-> "staged", gen |-> 1]
    BY <1>3, <2>1, DiskTypes
  <2>3. z3 = [z2 EXCEPT !.reg = f]
    OBVIOUS
  <2> HIDE DEF f, z3
  <2> QED  BY <1>3, <2>2, <2>3 DEF Disk, SamePointers
<1> HIDE DEF z3
<1>5. Stage(z, r, TRUE) = <<z1>> \o ps \o <<z3>>
  <2>1. ~Refuses(z1, i)
    BY <1>1, <1>2 DEF Refuses, Reusable, Torn
  <2>2. SlotVerifies(z, r) /\ z.reg[r].st \in {"verified", "staged", "quarantined"}
    BY <1>1 DEF SlotVerifies, Registered
  <2> QED  BY <1>0, <1>1, <2>1, <2>2 DEF Stage, z1, z2, z3, ps
<1>6. Last(x, <<z1>> \o ps \o <<z3>>) = z3
  <2>1. <<z1>> \o ps \in Seq(Disk)
    BY <1>2, <1>3
  <2> QED  BY <2>1, LastOfMore
<1>7. SamePointers(x, z3)
  BY <1>1, <1>2, <1>3, <1>4 DEF SamePointers
<1>8. Reusable(z3, i)
  BY <1>3, <1>4 DEF Reusable
<1> QED  BY <1>1, <1>2, <1>3, <1>4, <1>5, <1>6, <1>7, <1>8 DEF z

\* Two answered probes make the candidate active.
LEMMA SwitchEnds ==
    ASSUME UpdaterAssumption, NEW x \in Disk, NEW r \in Releases,
           x.reg[r].gen \in 1..MaxGens, <<r, x.reg[r].gen>> \in x.gens
    PROVE  /\ Switch(x, r, 2) \in Seq(Disk)
           /\ Last(x, Switch(x, r, 2)).active.rel = r
<1> DEFINE old == x.active
           cand == Candidate(x, r)
           x1 == [x EXCEPT !.journal = [on |-> TRUE, old |-> old, cand |-> cand]]
           x2 == Status(x1, r, "certified")
           x3 == [x2 EXCEPT !.active = cand]
           x4 == [x3 EXCEPT !.lkg = IF old = NoPtr THEN @ ELSE old]
           y5 == Status(x4, old.rel, "last_known_good")
           x5 == Status(y5, r, "active")
           x6 == [x5 EXCEPT !.journal = NoJournal]
           p == <<x1, x2, x3, x4, x5, x6>>
<1>1. Switch(x, r, 2) = p
  <2>1. Probes(x, cand, 2) = 2 /\ 2 # 0 /\ 2 # 1
    BY DEF Probes, Candidate
  <2> QED  BY <2>1 DEF Switch
<1>2. Last(x, p) = x6
  <2> HIDE DEF x1, x2, x3, x4, x5, x6
  <2>1. p # <<>> /\ Len(p) = 6 /\ p[6] = x6
    OBVIOUS
  <2> QED  BY <2>1 DEF Last
<1>3. /\ old \in Pointers /\ cand \in Pointers /\ cand.rel = r
      /\ old.rel \in Releases \cup {None}
  BY DiskTypes, PointerTypes DEF Candidate, Pointers
<1> HIDE DEF old, cand, p
<1>4. x1 \in Disk
  BY <1>3 DEF Disk
<1> HIDE DEF x1
<1>5. x2 \in Disk
  BY <1>4, StatusWrites DEF STATUSES
<1> HIDE DEF x2
<1>6. x3 \in Disk /\ x3.active = cand
  BY <1>3, <1>5 DEF Disk
<1> HIDE DEF x3
<1>7. x4 \in Disk /\ x4.active = cand
  BY <1>3, <1>6 DEF Disk
<1> HIDE DEF x4
<1>8. y5 \in Disk /\ y5.active = cand
  <2>1. y5 \in Disk /\ SamePointers(x4, y5)
    BY <1>3, <1>7, StatusWrites DEF STATUSES
  <2> QED  BY <1>7, <2>1 DEF SamePointers
<1> HIDE DEF y5
<1>9. x5 \in Disk /\ x5.active = cand
  <2>1. x5 \in Disk /\ SamePointers(y5, x5)
    BY <1>8, StatusWrites DEF STATUSES
  <2> QED  BY <1>8, <2>1 DEF SamePointers
<1> HIDE DEF x5
<1>10. x6 \in Disk /\ x6.active = cand
  <2>1. NoJournal \in [on : BOOLEAN, old : Pointers, cand : Pointers]
    BY DEF NoJournal, Pointers
  <2> QED  BY <1>9, <2>1 DEF Disk
<1> HIDE DEF x6
<1>11. p \in Seq(Disk)
  BY <1>4, <1>5, <1>6, <1>7, <1>9, <1>10 DEF p
<1> QED  BY <1>1, <1>2, <1>3, <1>10, <1>11

LEMMA ApprovedAreReleases ==
    Spec => [](approved \subseteq Releases)
<1>1. Init => approved \subseteq Releases
  BY DEF Init
<1>2. approved \subseteq Releases /\ [Next]_vars => (approved \subseteq Releases)'
  BY DEF Next, vars, Command, Inspect, Dispatch, Write, Crash, Decide
<1> QED  BY <1>1, <1>2, PTL DEF Spec

\* Whatever the crashes left, prune, import, stage and activate make an
\* approved release active, unless it is older than the active one or its slot
\* is taken by a release in use or by one an interrupted import left there.
THEOREM RepairWorks ==
    ASSUME UpdaterAssumption
    PROVE  Spec => []Repairable
<1>1. IInv /\ approved \subseteq Releases => Repairable
  <2> SUFFICES ASSUME Sound(d), approved \subseteq Releases,
                      ~d.frozen, NoAttempts(d),
                      NEW r \in approved, NEW c \in Catalogs,
                      NEW b, b = Last(d, Recover(d)),
                      CatalogAccepted(b, c, r),
                      b.active # NoPtr => SeqOf[r] >= SeqOf[b.active.rel],
                      \A q \in Protected(b) \ {None, r} : SlotOf[q] # SlotOf[r],
                      Foreign(b, r) => Registered(b, b.slot[SlotOf[r]])
               PROVE  Repair(r, c).active.rel = r
    BY DEF IInv, Repairable
  <2> DEFINE x1 == Last(d, Prune(d, 0))
             x2 == Last(x1, Import(x1, r, c))
             x3 == Last(x2, Stage([x2 EXCEPT !.nextgen = 1], r, TRUE))
  <2>0. r \in Releases /\ InterpOf[r] \in Interps
    BY DEF UpdaterAssumption
  <2>1. /\ Sound(b) /\ ~b.journal.on
        /\ b.pins = d.pins /\ b.frozen = d.frozen
    BY RecoverSound
  <2>2. Sound(x1) /\ PruneEnds(b, 0, x1)
    BY PruneSound
  <2> HIDE DEF x1
  <2>3. x1.slot[SlotOf[r]] \in {None, r}
    BY <2>0, <2>1, <2>2, SlotIsFree
  <2>4. x1.pin[InterpOf[r]] => Reusable(x1, InterpOf[r])
    BY <2>0, <2>1, <2>2, PinsAreWhole
  <2>5. CatalogAccepted(x1, c, r) /\ SlotUsable(x1, SlotOf[r])
    BY <2>0, <2>2, <2>3
       DEF CatalogAccepted, SlotUsable, PruneEnds, UpdaterAssumption, None, Torn
  <2>6. /\ Sound(x2) /\ SamePointers(x1, x2) /\ x2.frozen = x1.frozen
        /\ x2.reg[r] = [st |-> "verified", gen |-> 0]
        /\ x2.slot[SlotOf[r]] = r
        /\ x2.tree = x1.tree /\ x2.pin = x1.pin
    <3> HIDE DEF x2
    <3>1. LET y == Last(x1, Import(x1, r, c)) IN
          /\ Sound(y) /\ SamePointers(x1, y)
          /\ y.reg[r] = [st |-> "verified", gen |-> 0]
          /\ x1.slot[SlotOf[r]] \in {None, r} => y.slot[SlotOf[r]] = r
          /\ y.tree = x1.tree /\ y.pin = x1.pin /\ y.frozen = x1.frozen
      BY <2>0, <2>2, <2>5, ImportSound
    <3>2. x2 = Last(x1, Import(x1, r, c))
      BY DEF x2
    <3> QED  BY <2>3, <3>1, <3>2
  <2> HIDE DEF x2
  <2>7. x2.pin[InterpOf[r]] => Reusable(x2, InterpOf[r])
    BY <2>4, <2>6 DEF Reusable
  <2>8. /\ x3 \in Disk /\ SamePointers(x2, x3) /\ x3.frozen = x2.frozen
        /\ x3.reg[r] = [st |-> "staged", gen |-> 1]
        /\ <<r, 1>> \in x3.gens
        /\ x3.slot[SlotOf[r]] = r /\ Reusable(x3, InterpOf[r])
    BY <2>0, <2>6, <2>7, StageEnds
  <2> HIDE DEF x3
  <2>9. /\ x3.active = b.active /\ ~x3.journal.on /\ ~x3.frozen
        /\ NoAttempts(x3)
    BY <2>1, <2>2, <2>6, <2>8 DEF PruneEnds, SamePointers, NoAttempts
  <2>10. Repair(r, c) = Last(x3, Activate(x3, r, 2))
    BY DEF Repair, x1, x2, x3
  <2>11. Recover(x3) = <<>> /\ Last(x3, <<>>) = x3
    BY <2>9 DEF Recover, Last
  <2>12. CASE x3.active.rel = r
    <3>1. Activate(x3, r, 2) = <<>>
      BY <2>11, <2>12 DEF Activate, MayActivate
    <3> QED  BY <2>10, <2>11, <2>12, <3>1
  <2>13. CASE x3.active.rel # r
    <3>1. Verifies(x3, r)
      BY <2>8 DEF Verifies, SlotVerifies, InterpreterRoot, Registered, Reusable,
                  None
    <3>2. MayActivate(x3, r)
      BY <2>8, <2>9, <2>13, <3>1 DEF MayActivate, Approved
    <3>3. x3.reg[r].gen = 1 /\ 1 \in 1..MaxGens
      BY <2>8 DEF UpdaterAssumption
    <3>4. /\ Switch(x3, r, 2) \in Seq(Disk)
          /\ Last(x3, Switch(x3, r, 2)).active.rel = r
      BY <2>0, <2>8, <3>3, SwitchEnds
    <3>5. Activate(x3, r, 2) = Switch(x3, r, 2)
      <4>1. Activate(x3, r, 2) = <<>> \o Switch(x3, r, 2)
        BY <2>11, <3>2 DEF Activate
      <4> HIDE DEF Disk
      <4> QED  BY <3>4, <4>1
    <3> QED  BY <2>10, <3>4, <3>5
  <2> QED  BY <2>12, <2>13
<1> QED  BY <1>1, AlwaysSound, ApprovedAreReleases, PTL
=============================================================================
