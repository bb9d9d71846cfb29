------------------------- MODULE MaterializerProofs -------------------------
(***************************************************************************)
(* Any number of processes that publish any number of operations to paths   *)
(* they may share, with any number of calls, crashes and strangers.  What   *)
(* each call has established is stated of it (Called, Holds, Writing,       *)
(* Passed, Staged); what is on disk is stated of the files (Signed,         *)
(* FinalOwned, IntentKeepsBytes).  A call changes only what its two locks   *)
(* cover, so a step of one leaves what the others established.              *)
(***************************************************************************)
EXTENDS Materializer, TLAPS

PCs == {"idle", "locks", "op", "target", "final", "stage", "publish", "link",
        "unlink", "settle"}
Manifests == [by : Ops \union {None}, phase : {None, "torn", "temp", "both", "done"}]
Calls == [pc : PCs, op : Ops \union {None}, bytes : {None, "good", "bad"},
          mid : BOOLEAN, existed : SUBSET Kinds]

Types ==
    /\ man \in [Keys -> Manifests]
    /\ stage \in [Ops -> {None, "torn", "good"}]
    /\ final \in [Paths -> Ops \union {None, Stranger}]
    /\ lock \in [LockKeys -> Procs \union {None}]
    /\ proc \in [Procs -> Calls]
    /\ ok \subseteq Ops

Inside(p) == proc[p].pc \notin {"idle", "locks"}
Done(kind, o) == man[Key(kind, o)] = [by |-> o, phase |-> "done"]

(* What a call has established when it is where it is. *)
Called(p) == proc[p].pc # "idle" => proc[p].op \in Ops

Holds(p) ==
    Inside(p) => /\ lock[Key("op", proc[p].op)] = p
                 /\ lock[Key("target", proc[p].op)] = p

Writing(p) ==
    proc[p].pc \in Kinds /\ proc[p].mid =>
        man[Key(proc[p].pc, proc[p].op)].phase # "done"

Passed(p) ==
    /\ Inside(p) /\ proc[p].pc # "op" => Done("op", proc[p].op)
    /\ Inside(p) /\ proc[p].pc \notin {"op", "target"} => Done("target", proc[p].op)
    /\ proc[p].pc \in {"link", "unlink"} => Done("publish", proc[p].op)

Staged(p) ==
    LET o == proc[p].op
    IN  /\ proc[p].pc \in {"publish", "link"} => stage[o] = "good"
        /\ proc[p].pc = "stage" => final[Path[o]] # o
        /\ proc[p].pc = "stage" /\ proc[p].mid => stage[o] = "torn"
        /\ proc[p].pc = "unlink" => final[Path[o]] = o

CallInv(p) == Called(p) /\ Holds(p) /\ Writing(p) /\ Passed(p) /\ Staged(p)

(* A manifest is signed, and one of an operation only by that operation. *)
Signed ==
    /\ \A k \in Keys : man[k].phase # None => man[k].by \in Ops
    /\ \A o \in Ops, kind \in {"op", "publish"} : man[Key(kind, o)].by \in {None, o}

DiskInv == Types /\ Signed /\ FinalOwned /\ IntentKeepsBytes

IInv == DiskInv /\ \A p \in Procs : CallInv(p)

-----------------------------------------------------------------------------
LEMMA KeyFacts ==
    ASSUME NEW o \in Ops
    PROVE  /\ Key("op", o) = <<"op", o>> /\ Key("publish", o) = <<"publish", o>>
           /\ Key("target", o) = <<"target", Path[o]>>
           /\ Key("op", o) \in LockKeys /\ Key("target", o) \in LockKeys
           /\ \A kind \in Kinds : Key(kind, o) \in Keys
           /\ Path[o] \in Paths
  BY MaterializerAssumption DEF Key, Keys, LockKeys, Kinds

(* Two calls inside at once have different operations and targets. *)
LEMMA Exclusive ==
    ASSUME IInv, NEW p \in Procs, NEW q \in Procs, p # q, Inside(p), Inside(q)
    PROVE  /\ proc[p].op # proc[q].op
           /\ Path[proc[p].op] # Path[proc[q].op]
           /\ \A j, k \in Kinds : Key(j, proc[p].op) # Key(k, proc[q].op)
<1>1. proc[p].op \in Ops /\ proc[q].op \in Ops
  BY DEF IInv, CallInv, Called, Inside
<1>2. /\ lock[Key("op", proc[p].op)] = p /\ lock[Key("target", proc[p].op)] = p
      /\ lock[Key("op", proc[q].op)] = q /\ lock[Key("target", proc[q].op)] = q
  BY DEF IInv, CallInv, Holds
<1>3. Key("op", proc[p].op) # Key("op", proc[q].op) /\ Key("target", proc[p].op) # Key("target", proc[q].op)
  BY <1>2
<1>4. proc[p].op # proc[q].op /\ Path[proc[p].op] # Path[proc[q].op]
  BY <1>1, <1>3, KeyFacts
<1> QED
  BY <1>4 DEF Key, Kinds

(* What the other calls established survives a step that touches none of   *)
(* their files, completes what it writes and publishes over nothing.       *)
LEMMA Others ==
    ASSUME IInv, NEW q \in Procs,
           proc'[q] = proc[q],
           \A k \in LockKeys : lock[k] = q => lock'[k] = q,
           \A k \in Keys : man[k].phase = "done" => man'[k] = man[k],
           Inside(q) => /\ \A k \in Kinds : man'[Key(k, proc[q].op)] = man[Key(k, proc[q].op)]
                        /\ stage'[proc[q].op] = stage[proc[q].op]
                        /\ \/ final'[Path[proc[q].op]] = final[Path[proc[q].op]]
                           \/ /\ final[Path[proc[q].op]] = None
                              /\ final'[Path[proc[q].op]] # proc[q].op
    PROVE  CallInv(q)'
<1>1. CallInv(q)
  BY DEF IInv
<1>2. CASE ~Inside(q)
  BY <1>1, <1>2 DEF CallInv, Called, Holds, Writing, Passed, Staged, Inside, Kinds
<1>3. CASE Inside(q)
  <2> DEFINE o == proc[q].op
  <2>1. o \in Ops /\ o # None
    BY <1>1, <1>3, MaterializerAssumption DEF CallInv, Called, Inside
  <2>2. Called(q)' /\ Holds(q)'
    BY <1>1, <1>3, <2>1, KeyFacts DEF CallInv, Called, Holds, Inside
  <2>3. \A k \in Kinds : man'[Key(k, o)] = man[Key(k, o)]
    BY <1>3
  <2>4. Writing(q)'
    BY <1>1, <2>3 DEF CallInv, Writing, Key
  <2>5. Passed(q)'
    BY <1>1, <2>3 DEF CallInv, Passed, Inside, Done, Kinds, Key
  <2>6. Staged(q)'
    BY <1>1, <1>3, <2>1 DEF CallInv, Staged
  <2> QED
    BY <2>2, <2>4, <2>5, <2>6 DEF CallInv
<1> QED
  BY <1>2, <1>3

(* The others, when call p takes a step: only p's files change. *)
LEMMA OthersOf ==
    ASSUME IInv, NEW p \in Procs, NEW q \in Procs, p # q,
           proc'[q] = proc[q],
           \A k \in LockKeys : lock[k] = q => lock'[k] = q,
           \A k \in Keys : man[k].phase = "done" => man'[k] = man[k],
           \A k \in Keys : man'[k] # man[k] =>
              Inside(p) /\ \E kind \in Kinds : k = Key(kind, proc[p].op),
           \A o \in Ops : stage'[o] # stage[o] => Inside(p) /\ o = proc[p].op,
           \A x \in Paths : final'[x] # final[x] => Inside(p) /\ x = Path[proc[p].op]
    PROVE  CallInv(q)'
<1>1. CASE ~Inside(q)
  BY <1>1, Others
<1>2. CASE Inside(q)
  <2>1. proc[q].op \in Ops
    BY <1>2 DEF IInv, CallInv, Called, Inside
  <2>2. \A k \in Kinds : man'[Key(k, proc[q].op)] = man[Key(k, proc[q].op)]
    <3> SUFFICES ASSUME NEW k \in Kinds, man'[Key(k, proc[q].op)] # man[Key(k, proc[q].op)]
                 PROVE  FALSE
      OBVIOUS
    <3>1. Key(k, proc[q].op) \in Keys
      BY <2>1, KeyFacts
    <3>2. Inside(p) /\ \E kind \in Kinds : Key(k, proc[q].op) = Key(kind, proc[p].op)
      BY <3>1
    <3> QED
      BY <1>2, <3>2, Exclusive
  <2>3. stage'[proc[q].op] = stage[proc[q].op]
    BY <1>2, <2>1, Exclusive
  <2>4. final'[Path[proc[q].op]] = final[Path[proc[q].op]]
    BY <1>2, <2>1, KeyFacts, Exclusive
  <2> QED
    BY <1>2, <2>2, <2>3, <2>4, Others
<1> QED
  BY <1>1, <1>2

Implements == [Atomic!Next]_(Atomic!vars)

(* A call that ends frees its locks, its own invariant is trivial.         *)
LEMMA Ending ==
    ASSUME Types, NEW p \in Procs, Return(p)
    PROVE  /\ lock' \in [LockKeys -> Procs \union {None}]
           /\ proc' \in [Procs -> Calls]
           /\ CallInv(p)'
           /\ \A q \in Procs : q # p => /\ proc'[q] = proc[q]
                                       /\ \A k \in LockKeys : lock[k] = q => lock'[k] = q
<1>1. Idle \in Calls
  BY DEF Idle, Calls, PCs
<1>2. proc'[p] = Idle /\ proc' \in [Procs -> Calls]
  BY <1>1 DEF Return, Types
<1>3. CallInv(p)'
  BY <1>2 DEF CallInv, Called, Holds, Writing, Passed, Staged, Inside, Idle, Kinds
<1> QED
  BY <1>2, <1>3 DEF Return, Freed, Types

(* A call that ends and changes no file: it raised, or it died.            *)
LEMMA EndingQuietly ==
    ASSUME IInv, NEW p \in Procs, Return(p), UNCHANGED disk, ok' \subseteq Ops
    PROVE  IInv'
<1>1. \A q \in Procs : q # p => CallInv(q)'
  <2> SUFFICES ASSUME NEW q \in Procs, q # p PROVE CallInv(q)'
    OBVIOUS
  <2>1. /\ proc'[q] = proc[q] /\ \A k \in LockKeys : lock[k] = q => lock'[k] = q
    BY Ending DEF IInv, DiskInv
  <2> QED
    BY <2>1, OthersOf DEF disk
<1>2. CallInv(p)' /\ Types'
  BY Ending DEF IInv, DiskInv, Types, disk
<1>3. Signed' /\ FinalOwned' /\ IntentKeepsBytes'
  BY DEF IInv, DiskInv, Signed, FinalOwned, IntentKeepsBytes, disk
<1> QED
  BY <1>1, <1>2, <1>3 DEF IInv, DiskInv

LEMMA RaiseKeeps ==
    ASSUME IInv, NEW p \in Procs, Raise(p)
    PROVE  IInv' /\ Implements
<1>1. Return(p) /\ UNCHANGED disk /\ ok' = ok
  BY DEF Raise
<1> QED
  BY <1>1, EndingQuietly DEF IInv, DiskInv, Types, Implements, Atomic!vars, disk

LEMMA CrashKeeps ==
    ASSUME IInv, NEW p \in Procs, Crash(p)
    PROVE  IInv' /\ Implements
<1>1. Return(p) /\ UNCHANGED disk /\ ok' = ok
  BY DEF Crash
<1> QED
  BY <1>1, EndingQuietly DEF IInv, DiskInv, Types, Implements, Atomic!vars, disk

(* A call that goes on and changes no file needs only its own invariant.   *)
LEMMA GoingOn ==
    ASSUME IInv, NEW p \in Procs, UNCHANGED <<disk, ok>>,
           proc' \in [Procs -> Calls], lock' \in [LockKeys -> Procs \union {None}],
           \A q \in Procs : q # p =>
              proc'[q] = proc[q] /\ \A k \in LockKeys : lock[k] = q => lock'[k] = q,
           CallInv(p)'
    PROVE  IInv' /\ Implements
<1>1. \A q \in Procs : q # p => CallInv(q)'
  BY OthersOf DEF disk
<1>2. Types' /\ Signed' /\ FinalOwned' /\ IntentKeepsBytes'
  BY DEF IInv, DiskInv, Types, Signed, FinalOwned, IntentKeepsBytes, disk
<1> QED
  BY <1>1, <1>2 DEF IInv, DiskInv, Implements, Atomic!vars, disk

LEMMA CallKeeps ==
    ASSUME IInv, NEW p \in Procs, NEW o \in Ops, NEW bytes \in {None, "good", "bad"},
           Call(p, o, bytes)
    PROVE  IInv' /\ Implements
<1>1. proc'[p] = [Idle EXCEPT !.pc = "locks", !.op = o, !.bytes = bytes]
  BY DEF Call, IInv, DiskInv, Types
<1>2. proc'[p] \in Calls /\ proc'[p].pc = "locks" /\ proc'[p].op = o
  BY <1>1 DEF Idle, Calls, PCs
<1>3. CallInv(p)'
  BY <1>2 DEF CallInv, Called, Holds, Writing, Passed, Staged, Inside, Kinds
<1>4. proc' \in [Procs -> Calls]
  BY <1>2 DEF Call, IInv, DiskInv, Types
<1> QED
  BY <1>3, <1>4, GoingOn DEF Call, IInv, DiskInv, Types

LEMMA TakeLockKeeps ==
    ASSUME IInv, NEW p \in Procs, TakeLock(p)
    PROVE  IInv' /\ Implements
<1> DEFINE o == proc[p].op
           k == Key(NextLock(p), o)
<1>1. o \in Ops /\ proc[p].pc = "locks" /\ lock[k] = None
  BY DEF TakeLock, IInv, CallInv, Called
<1>2. k \in LockKeys
  BY <1>1, KeyFacts DEF NextLock
<1>3. /\ lock' \in [LockKeys -> Procs \union {None}]
      /\ lock'[k] = p
      /\ \A j \in LockKeys : lock[j] # None => lock'[j] = lock[j]
  BY <1>1, <1>2 DEF TakeLock, IInv, DiskInv, Types
<1>4. \A q \in Procs : \A j \in LockKeys : lock[j] = q => lock'[j] = q
  BY <1>3, MaterializerAssumption
<1>5. \A q \in Procs : q # p => proc'[q] = proc[q]
  BY DEF TakeLock, Goto, IInv, DiskInv, Types
<1>6. CASE NextLock(p) = "target"
  <2>1. proc'[p] = [proc[p] EXCEPT !.pc = "op", !.mid = FALSE]
    BY <1>6 DEF TakeLock, Goto, IInv, DiskInv, Types
  <2>2. proc[p] \in Calls
    BY DEF IInv, DiskInv, Types
  <2>3. proc'[p] \in Calls /\ proc'[p].pc = "op" /\ proc'[p].mid = FALSE /\ proc'[p].op = o
    BY <2>1, <2>2 DEF Calls, PCs
  <2>4. lock'[Key("op", o)] = p /\ lock'[Key("target", o)] = p
    BY <1>1, <1>3, <1>4, <1>6, KeyFacts DEF NextLock
  <2>5. CallInv(p)'
    BY <1>1, <2>3, <2>4 DEF CallInv, Called, Holds, Writing, Passed, Staged, Inside, Key, Kinds
  <2>6. proc' \in [Procs -> Calls]
    BY <1>6, <2>3 DEF TakeLock, Goto, IInv, DiskInv, Types
  <2> QED
    BY <1>3, <1>4, <1>5, <2>5, <2>6, GoingOn DEF TakeLock
<1>7. CASE NextLock(p) # "target"
  <2>1. proc' = proc
    BY <1>7 DEF TakeLock
  <2>2. CallInv(p)'
    BY <1>1, <2>1 DEF CallInv, Called, Holds, Writing, Passed, Staged, Inside, Kinds
  <2> QED
    BY <1>3, <1>4, <2>1, <2>2, GoingOn DEF TakeLock, IInv, DiskInv, Types
<1> QED
  BY <1>6, <1>7

LEMMA CallFacts ==
    ASSUME IInv, NEW p \in Procs, Inside(p)
    PROVE  /\ proc[p] \in Calls /\ proc[p].op \in Ops
           /\ proc[p].op \notin {None, Stranger}
           /\ Path[proc[p].op] \in Paths
           /\ \A kind \in Kinds : Key(kind, proc[p].op) \in Keys
  BY KeyFacts, MaterializerAssumption DEF IInv, DiskInv, Types, CallInv, Called, Inside

LEMMA GotoFacts ==
    ASSUME Types, NEW p \in Procs, NEW pc \in PCs, Goto(p, pc)
    PROVE  /\ proc' \in [Procs -> Calls]
           /\ proc'[p].pc = pc /\ proc'[p].mid = FALSE /\ proc'[p].op = proc[p].op
           /\ proc'[p].existed = proc[p].existed
           /\ \A q \in Procs : q # p => proc'[q] = proc[q]
<1>1. proc'[p] = [proc[p] EXCEPT !.pc = pc, !.mid = FALSE] /\ proc[p] \in Calls
  BY DEF Goto, Types
<1>2. proc'[p] \in Calls
  BY <1>1 DEF Calls
<1> QED
  BY <1>1, <1>2 DEF Goto, Types, Calls

(* A step that only moves the call on.                                     *)
LEMMA Moving ==
    ASSUME IInv, NEW p \in Procs, NEW pc \in PCs \ {"idle", "locks"}, Inside(p), Goto(p, pc),
           UNCHANGED <<disk, lock, ok>>,
           Passed(p)', Staged(p)'
    PROVE  IInv' /\ Implements
<1>1. Types
  BY DEF IInv, DiskInv
<1>2. /\ proc' \in [Procs -> Calls]
      /\ proc'[p].pc = pc /\ proc'[p].mid = FALSE /\ proc'[p].op = proc[p].op
      /\ \A q \in Procs : q # p => proc'[q] = proc[q]
  BY <1>1, GotoFacts
<1>3. Called(p)' /\ Holds(p)' /\ Writing(p)'
  BY <1>2, CallFacts DEF IInv, CallInv, Called, Holds, Writing, Inside, Key
<1> QED
  BY <1>1, <1>2, <1>3, GoingOn DEF CallInv, Types

LEMMA EnterManifestKeeps ==
    ASSUME IInv, NEW p \in Procs, EnterManifest(p)
    PROVE  IInv' /\ Implements
<1> DEFINE kind == proc[p].pc
           o == proc[p].op
           m == man[Key(kind, o)]
<1>1. kind \in Kinds /\ ~proc[p].mid
  BY DEF EnterManifest
<1>2. Inside(p) /\ CallInv(p) /\ Types
  BY <1>1 DEF Inside, Kinds, IInv, DiskInv
<1>3. proc[p] \in Calls /\ o \in Ops /\ o # None /\ Key(kind, o) \in Keys
  BY <1>1, <1>2, CallFacts
<1>4. CASE Conflicts(m, o)
  <2>1. Raise(p)
    BY <1>4 DEF EnterManifest
  <2> QED
    BY <2>1, RaiseKeeps
<1>5. CASE ~Conflicts(m, o)
  <2> DEFINE pc == IF m.phase = "done" THEN After[kind] ELSE kind
             e == IF m.phase = None THEN proc[p].existed ELSE proc[p].existed \union {kind}
  <2>1. /\ proc' = [proc EXCEPT ![p].mid = m.phase # "done", ![p].pc = pc,
                       ![p].existed = e]
        /\ UNCHANGED <<disk, lock, ok, spent>>
    BY <1>5 DEF EnterManifest
  <2>2. After[kind] \in PCs \ {"idle", "locks"}
    BY <1>1 DEF After, Kinds, PCs
  <2>3. pc \in PCs \ {"idle", "locks"}
    BY <1>1, <2>2 DEF Kinds, PCs
  <2>4. proc'[p] = [proc[p] EXCEPT !.mid = m.phase # "done", !.pc = pc,
                      !.existed = e]
    BY <2>1, <1>2 DEF Types
  <2>5. /\ proc'[p].pc = pc /\ proc'[p].mid = (m.phase # "done") /\ proc'[p].op = o
        /\ proc'[p] \in Calls
    <3> DEFINE b == m.phase # "done"
    <3>1. e \in SUBSET Kinds /\ b \in BOOLEAN
      BY <1>1, <1>3 DEF Calls
    <3>2. pc \in PCs /\ proc[p] \in Calls
      BY <1>3, <2>3
    <3>3. proc'[p] = [proc[p] EXCEPT !.mid = b, !.pc = pc, !.existed = e]
      BY <2>4
    <3> HIDE DEF e, pc, b
    <3>4. proc'[p] \in Calls /\ proc'[p].pc = pc /\ proc'[p].mid = b /\ proc'[p].op = o
      BY <3>1, <3>2, <3>3 DEF Calls
    <3> QED
      BY <3>4 DEF b
  <2>6. proc' \in [Procs -> Calls] /\ \A q \in Procs : q # p => proc'[q] = proc[q]
    BY <1>2, <2>1, <2>5 DEF Types
  <2>7. Called(p)' /\ Holds(p)'
    BY <1>2, <1>3, <2>1, <2>5 DEF CallInv, Called, Holds, Inside, Key
  <2>8. CASE m.phase = "done"
    <3>1. Done(kind, o)
      <4>1. m \in Manifests /\ m.by \in Ops
        BY <1>2, <1>3, <2>8 DEF Types, Signed, IInv, DiskInv, None
      <4>2. m.by = o
        BY <4>1, <1>5, MaterializerAssumption DEF Conflicts
      <4> QED
        BY <4>1, <4>2, <2>8 DEF Manifests, Done
    <3>2. proc'[p].pc = After[kind] /\ proc'[p].mid = FALSE
      BY <2>5, <2>8
    <3>3. ASSUME kind = "op" PROVE CallInv(p)'
      <4>1. proc'[p].pc = "target" /\ proc'[p].mid = FALSE /\ proc'[p].op = o
        BY <2>5, <3>2, <3>3 DEF After
      <4>2. Staged(p)' /\ Writing(p)'
        BY <1>2, <2>1, <3>3, <4>1 DEF CallInv, Staged, Writing, Kinds, disk
      <4>3. man' = man
        BY <2>1 DEF disk
      <4>4. Done("op", o)
        BY <3>1, <3>3
      <4>6. Passed(p)'
        BY <4>1, <4>3, <4>4 DEF Passed, Inside, Done, Key
      <4> QED
        BY <2>7, <4>2, <4>6 DEF CallInv
    <3>4. ASSUME kind = "target" PROVE CallInv(p)'
      <4>1. proc'[p].pc = "final" /\ proc'[p].mid = FALSE /\ proc'[p].op = o
        BY <2>5, <3>2, <3>4 DEF After
      <4>2. Staged(p)' /\ Writing(p)'
        BY <1>2, <2>1, <3>4, <4>1 DEF CallInv, Staged, Writing, Kinds, disk
      <4>3. man' = man
        BY <2>1 DEF disk
      <4>4. Done("target", o)
        BY <3>1, <3>4
      <4>5. Done("op", o)
        BY <1>2, <3>4 DEF CallInv, Passed
      <4>6. Passed(p)'
        BY <4>1, <4>3, <4>4, <4>5 DEF Passed, Inside, Done, Key
      <4> QED
        BY <2>7, <4>2, <4>6 DEF CallInv
    <3>5. ASSUME kind = "publish" PROVE CallInv(p)'
      <4>1. proc'[p].pc = "link" /\ proc'[p].mid = FALSE /\ proc'[p].op = o
        BY <2>5, <3>2, <3>5 DEF After
      <4>2. Staged(p)' /\ Writing(p)'
        BY <1>2, <2>1, <3>5, <4>1 DEF CallInv, Staged, Writing, Kinds, disk
      <4>3. man' = man
        BY <2>1 DEF disk
      <4>4. Done("publish", o)
        BY <3>1, <3>5
      <4>5. Done("op", o) /\ Done("target", o)
        BY <1>2, <3>5 DEF CallInv, Passed
      <4>6. Passed(p)'
        BY <4>1, <4>3, <4>4, <4>5 DEF Passed, Inside, Done, Key
      <4> QED
        BY <2>7, <4>2, <4>6 DEF CallInv
    <3>6. CallInv(p)'
      BY <1>1, <3>3, <3>4, <3>5 DEF Kinds
    <3> QED
      BY <1>2, <2>1, <2>6, <3>6, GoingOn DEF Types
  <2>9. CASE m.phase # "done"
    <3>1. proc'[p].pc = kind /\ man' = man /\ stage' = stage /\ final' = final
      BY <2>1, <2>5, <2>9 DEF disk
    <3>2. Writing(p)' /\ Passed(p)'
      BY <1>2, <2>5, <2>9, <3>1 DEF CallInv, Writing, Passed, Inside, Done, Key
    <3>3. Staged(p)'
      BY <1>1, <1>2, <2>5, <3>1 DEF CallInv, Staged, Kinds
    <3>4. CallInv(p)'
      BY <2>7, <3>2, <3>3 DEF CallInv
    <3> QED
      BY <1>2, <2>1, <2>6, <3>4, GoingOn DEF Types
  <2> QED
    BY <2>8, <2>9
<1> QED
  BY <1>4, <1>5

LEMMA WriteManifestKeeps ==
    ASSUME IInv, NEW p \in Procs, WriteManifest(p)
    PROVE  IInv' /\ Implements
<1> DEFINE kind == proc[p].pc
           o == proc[p].op
           k == Key(kind, o)
<1>1. kind \in Kinds /\ proc[p].mid
  BY DEF WriteManifest
<1>2. Inside(p) /\ CallInv(p) /\ Types
  BY <1>1 DEF Inside, Kinds, IInv, DiskInv
<1>3. proc[p] \in Calls /\ o \in Ops /\ o # None /\ k \in Keys
  BY <1>1, <1>2, CallFacts
<1>4. man[k] \in Manifests /\ man[k].phase # "done"
  BY <1>1, <1>2, <1>3 DEF Types, CallInv, Writing
<1>5. /\ Phases[man[k].phase] \in {"torn", "temp", "both", "done"}
  BY <1>4 DEF Manifests, Phases, None
<1>6. /\ man' = [man EXCEPT ![k] = [by |-> o, phase |-> Phases[man[k].phase]]]
      /\ UNCHANGED <<stage, final, lock, ok, spent>>
  BY DEF WriteManifest
<1>7. /\ man'[k] = [by |-> o, phase |-> Phases[man[k].phase]]
      /\ man' \in [Keys -> Manifests]
      /\ \A j \in Keys : j # k => man'[j] = man[j]
  BY <1>2, <1>3, <1>5, <1>6 DEF Types, Manifests
<1>8. \A j \in Keys : man[j].phase = "done" => man'[j] = man[j]
  BY <1>4, <1>7
<1>9. /\ proc' \in [Procs -> Calls] /\ proc'[p].op = o
      /\ \A q \in Procs : q # p => proc'[q] = proc[q]
      /\ IF man'[k].phase = "done" THEN proc'[p].pc = After[kind] /\ proc'[p].mid = FALSE
                                  ELSE proc'[p] = proc[p]
  <2>1. CASE man'[k].phase = "done"
    <3>1. After[kind] \in PCs
      BY <1>1 DEF After, Kinds, PCs
    <3>2. Goto(p, After[kind])
      BY <2>1 DEF WriteManifest
    <3> QED
      BY <1>2, <2>1, <3>1, <3>2, GotoFacts
  <2>2. CASE man'[k].phase # "done"
    BY <1>2, <2>2 DEF WriteManifest, Types
  <2> QED
    BY <2>1, <2>2
<1>10. \A j \in Kinds : Done(j, o) => man'[Key(j, o)] = [by |-> o, phase |-> "done"]
  <2> SUFFICES ASSUME NEW j \in Kinds, Done(j, o)
               PROVE  man'[Key(j, o)] = [by |-> o, phase |-> "done"]
    OBVIOUS
  <2>1. Key(j, o) \in Keys /\ man[Key(j, o)] = [by |-> o, phase |-> "done"]
    BY <1>3, KeyFacts DEF Done
  <2> QED
    BY <1>8, <2>1
<1>11. CallInv(p)'
  <2>1. Called(p)' /\ Holds(p)'
    BY <1>1, <1>2, <1>3, <1>6, <1>9 DEF CallInv, Called, Holds, Inside, Key, Kinds
  <2>2. CASE man'[k].phase = "done"
    <3>1. man'[k] = [by |-> o, phase |-> "done"]
      BY <1>7, <2>2
    <3>2. proc'[p].pc = After[kind] /\ proc'[p].mid = FALSE
      BY <1>9, <2>2
    <3>3. Writing(p)' /\ Staged(p)'
      BY <1>1, <1>2, <1>6, <1>9, <3>2 DEF CallInv, Writing, Staged, After, Kinds
    <3>4. ASSUME kind = "op" PROVE Passed(p)'
      BY <1>9, <3>1, <3>2, <3>4 DEF Passed, Done, After, Inside, Key
    <3>5. ASSUME kind = "target" PROVE Passed(p)'
      BY <1>2, <1>9, <1>10, <3>1, <3>2, <3>5 DEF CallInv, Passed, Done, After, Inside, Kinds, Key
    <3>6. ASSUME kind = "publish" PROVE Passed(p)'
      BY <1>2, <1>9, <1>10, <3>1, <3>2, <3>6 DEF CallInv, Passed, Done, After, Inside, Kinds, Key
    <3> QED
      BY <1>1, <2>1, <3>3, <3>4, <3>5, <3>6 DEF CallInv, Kinds
  <2>3. CASE man'[k].phase # "done"
    <3>1. proc'[p] = proc[p]
      BY <1>9, <2>3
    <3>2. Writing(p)'
      BY <2>3, <3>1 DEF Writing, Key
    <3>3. Passed(p)'
      BY <1>2, <1>10, <3>1 DEF CallInv, Passed, Done, Inside, Kinds, Key
    <3>4. Staged(p)'
      BY <1>2, <1>6, <3>1 DEF CallInv, Staged
    <3> QED
      BY <2>1, <3>2, <3>3, <3>4 DEF CallInv
  <2> QED
    BY <2>2, <2>3
<1>12. \A q \in Procs : q # p => CallInv(q)'
  BY <1>1, <1>2, <1>6, <1>7, <1>8, <1>9, OthersOf
<1>13. Types'
  BY <1>2, <1>6, <1>7, <1>9 DEF Types
<1>14. Signed'
  <2>1. \A j \in Keys : man'[j].phase # None => man'[j].by \in Ops
    BY <1>3, <1>7 DEF IInv, DiskInv, Signed
  <2>2. \A i \in Ops, j \in {"op", "publish"} : man'[Key(j, i)].by \in {None, i}
    <3> SUFFICES ASSUME NEW i \in Ops, NEW j \in {"op", "publish"}
                 PROVE  man'[Key(j, i)].by \in {None, i}
      OBVIOUS
    <3>1. Key(j, i) \in Keys
      BY KeyFacts DEF Kinds
    <3>2. CASE Key(j, i) = k
      BY <1>1, <1>7, <3>2 DEF Key, Kinds
    <3>3. CASE Key(j, i) # k
      BY <1>7, <3>1, <3>3 DEF IInv, DiskInv, Signed
    <3> QED
      BY <3>2, <3>3
  <2> QED
    BY <2>1, <2>2 DEF Signed, Key
<1>15. FinalOwned'
  <2> SUFFICES ASSUME NEW x \in Paths, final'[x] \in Ops
               PROVE  /\ Path[final'[x]] = x
                      /\ \A j \in Kinds : man'[Key(j, final'[x])] = [by |-> final'[x], phase |-> "done"]
    BY DEF FinalOwned, Key
  <2>1. /\ final'[x] = final[x] /\ Path[final[x]] = x
        /\ \A j \in Kinds : man[Key(j, final[x])] = [by |-> final[x], phase |-> "done"]
    BY <1>6 DEF IInv, DiskInv, FinalOwned
  <2> QED
    BY <1>8, <2>1, KeyFacts
<1>16. IntentKeepsBytes'
  <2> SUFFICES ASSUME NEW i \in Ops, man'[<<"publish", i>>].phase # None
               PROVE  stage[i] = "good" \/ final[Path[i]] = i
    BY <1>6 DEF IntentKeepsBytes
  <2>1. <<"publish", i>> \in Keys
    BY DEF Keys
  <2>2. CASE <<"publish", i>> = k
    BY <1>1, <1>2, <2>2 DEF CallInv, Staged, Key, Kinds
  <2>3. CASE <<"publish", i>> # k
    BY <1>7, <2>1, <2>3 DEF IInv, DiskInv, IntentKeepsBytes
  <2> QED
    BY <2>2, <2>3
<1> QED
  BY <1>6, <1>11, <1>12, <1>13, <1>14, <1>15, <1>16 DEF IInv, DiskInv, Implements, Atomic!vars

LEMMA LookFinalKeeps ==
    ASSUME IInv, NEW p \in Procs, LookFinal(p)
    PROVE  IInv' /\ Implements
<1> DEFINE o == proc[p].op
           pc == IF final[Path[o]] # None THEN "settle" ELSE "stage"
<1>1. proc[p].pc = "final" /\ Goto(p, pc) /\ UNCHANGED <<disk, lock, ok>>
  BY DEF LookFinal
<1>2. Inside(p) /\ CallInv(p) /\ Types
  BY <1>1 DEF Inside, IInv, DiskInv
<1>3. o \in Ops /\ o # None
  BY <1>2, CallFacts
<1>4. pc \in PCs \ {"idle", "locks"} /\ pc \in {"settle", "stage"}
  BY DEF PCs
<1>5. proc'[p].pc = pc /\ proc'[p].mid = FALSE /\ proc'[p].op = o
  BY <1>1, <1>2, <1>4, GotoFacts
<1>6. Passed(p)'
  BY <1>1, <1>2, <1>4, <1>5 DEF CallInv, Passed, Inside, Done, Key, disk
<1>7. Staged(p)'
  BY <1>1, <1>3, <1>5 DEF Staged, disk
<1> QED
  BY <1>1, <1>2, <1>4, <1>6, <1>7, Moving

LEMMA FindStageKeeps ==
    ASSUME IInv, NEW p \in Procs, FindStage(p)
    PROVE  IInv' /\ Implements
<1>1. proc[p].pc = "stage"
  BY DEF FindStage
<1>2. Inside(p) /\ CallInv(p) /\ Types
  BY <1>1 DEF Inside, IInv, DiskInv
<1>3. CASE ~KnownStage(p)
  <2>1. Raise(p)
    BY <1>3 DEF FindStage
  <2> QED
    BY <2>1, RaiseKeeps
<1>4. CASE KnownStage(p)
  <2>1. Goto(p, "publish") /\ UNCHANGED <<disk, lock, ok>> /\ stage[proc[p].op] = "good"
    BY <1>4 DEF FindStage, KnownStage
  <2>2. "publish" \in PCs \ {"idle", "locks"}
    BY DEF PCs
  <2>3. proc'[p].pc = "publish" /\ proc'[p].mid = FALSE /\ proc'[p].op = proc[p].op
    BY <1>2, <2>1, <2>2, GotoFacts
  <2>4. Passed(p)'
    BY <1>1, <1>2, <2>1, <2>3 DEF CallInv, Passed, Inside, Done, Key, disk
  <2>5. Staged(p)'
    BY <2>1, <2>3 DEF Staged, disk
  <2> QED
    BY <1>2, <2>1, <2>2, <2>4, <2>5, Moving
<1> QED
  BY <1>3, <1>4

(* A step that changes the stage of the call's own operation only.         *)
LEMMA Staging ==
    ASSUME IInv, NEW p \in Procs, Inside(p), NEW s \in {None, "torn", "good"},
           stage' = [stage EXCEPT ![proc[p].op] = s],
           UNCHANGED <<man, final>>, ok' \subseteq Ops,
           proc' \in [Procs -> Calls], lock' \in [LockKeys -> Procs \union {None}],
           \A q \in Procs : q # p =>
              proc'[q] = proc[q] /\ \A k \in LockKeys : lock[k] = q => lock'[k] = q,
           \/ s = "good"
           \/ stage[proc[p].op] # "good"
           \/ final[Path[proc[p].op]] = proc[p].op,
           CallInv(p)'
    PROVE  IInv'
<1> DEFINE o == proc[p].op
<1>1. o \in Ops /\ Types
  BY CallFacts DEF IInv, DiskInv
<1>2. stage' \in [Ops -> {None, "torn", "good"}] /\ stage'[o] = s
      /\ \A i \in Ops : i # o => stage'[i] = stage[i]
  BY <1>1 DEF Types
<1>3. \A q \in Procs : q # p => CallInv(q)'
  <2> SUFFICES ASSUME NEW q \in Procs, q # p PROVE CallInv(q)'
    OBVIOUS
  <2>1. \A i \in Ops : stage'[i] # stage[i] => i = o
    BY <1>2
  <2> QED
    BY <2>1, OthersOf
<1>4. Types'
  BY <1>1, <1>2 DEF Types
<1>5. Signed' /\ FinalOwned'
  BY DEF IInv, DiskInv, Signed, FinalOwned
<1>6. IntentKeepsBytes'
  BY <1>1, <1>2 DEF IInv, DiskInv, IntentKeepsBytes
<1> QED
  BY <1>3, <1>4, <1>5, <1>6 DEF IInv, DiskInv

LEMMA CreateStageKeeps ==
    ASSUME IInv, NEW p \in Procs, CreateStage(p)
    PROVE  IInv' /\ Implements
<1> DEFINE o == proc[p].op
<1>1. proc[p].pc = "stage" /\ ~proc[p].mid /\ stage[o] = None
  BY DEF CreateStage
<1>2. Inside(p) /\ CallInv(p) /\ Types
  BY <1>1 DEF Inside, IInv, DiskInv
<1>3. o \in Ops /\ proc[p] \in Calls
  BY <1>2, CallFacts
<1>4. CASE proc[p].bytes = None
  <2>1. Raise(p)
    BY <1>4 DEF CreateStage
  <2> QED
    BY <2>1, RaiseKeeps
<1>5. CASE proc[p].bytes # None
  <2>1. /\ stage' = [stage EXCEPT ![o] = "torn"] /\ proc' = [proc EXCEPT ![p].mid = TRUE]
        /\ UNCHANGED <<man, final, lock, ok>>
    BY <1>5 DEF CreateStage
  <2>2. proc'[p] = [proc[p] EXCEPT !.mid = TRUE]
    BY <1>2, <2>1 DEF Types
  <2>3. proc'[p] \in Calls /\ proc'[p].pc = "stage" /\ proc'[p].op = o
    BY <1>1, <1>3, <2>2 DEF Calls
  <2>4. proc' \in [Procs -> Calls] /\ \A q \in Procs : q # p => proc'[q] = proc[q]
    BY <1>2, <2>1, <2>3 DEF Types
  <2>5. stage'[o] = "torn"
    BY <1>2, <1>3, <2>1 DEF Types
  <2>6. Called(p)' /\ Holds(p)' /\ Writing(p)'
    BY <1>2, <1>3, <2>1, <2>3 DEF CallInv, Called, Holds, Writing, Inside, Kinds, Key
  <2>7. Passed(p)'
    BY <1>1, <1>2, <2>1, <2>3 DEF CallInv, Passed, Inside, Done, Key
  <2>8. Staged(p)'
    BY <1>1, <1>2, <2>1, <2>3, <2>5 DEF CallInv, Staged
  <2>9. CallInv(p)'
    BY <2>6, <2>7, <2>8 DEF CallInv
  <2>10. lock' \in [LockKeys -> Procs \union {None}] /\ ok' \subseteq Ops
    BY <1>2, <2>1 DEF Types
  <2>11. IInv'
    BY <1>1, <1>2, <2>1, <2>4, <2>9, <2>10, Staging DEF None
  <2> QED
    BY <2>1, <2>11 DEF Implements, Atomic!vars
<1> QED
  BY <1>4, <1>5

LEMMA WriteStageKeeps ==
    ASSUME IInv, NEW p \in Procs, WriteStage(p)
    PROVE  IInv' /\ Implements
<1> DEFINE o == proc[p].op
           s == IF proc[p].bytes = "good" THEN "good" ELSE None
<1>1. /\ proc[p].pc = "stage" /\ proc[p].mid /\ stage' = [stage EXCEPT ![o] = s]
      /\ UNCHANGED <<man, final, ok>>
  BY DEF WriteStage
<1>2. Inside(p) /\ CallInv(p) /\ Types
  BY <1>1 DEF Inside, IInv, DiskInv
<1>3. o \in Ops /\ stage[o] = "torn" /\ ok' \subseteq Ops
  BY <1>1, <1>2, CallFacts DEF CallInv, Staged, Types
<1>4. CASE proc[p].bytes = "good"
  <2>1. Goto(p, "publish") /\ lock' = lock /\ stage' = [stage EXCEPT ![o] = "good"]
    BY <1>1, <1>4 DEF WriteStage
  <2>2. "publish" \in PCs
    BY DEF PCs
  <2>3. /\ proc'[p].pc = "publish" /\ proc'[p].mid = FALSE /\ proc'[p].op = o
        /\ proc' \in [Procs -> Calls] /\ \A q \in Procs : q # p => proc'[q] = proc[q]
    BY <1>2, <2>1, <2>2, GotoFacts
  <2>4. stage'[o] = "good"
    BY <1>2, <1>3, <2>1 DEF Types
  <2>5. Called(p)' /\ Holds(p)' /\ Writing(p)'
    BY <1>2, <1>3, <2>1, <2>3 DEF CallInv, Called, Holds, Writing, Inside, Key
  <2>6. Passed(p)'
    BY <1>1, <1>2, <2>3 DEF CallInv, Passed, Inside, Done, Key
  <2>7. Staged(p)'
    BY <2>3, <2>4 DEF Staged
  <2>8. CallInv(p)'
    BY <2>5, <2>6, <2>7 DEF CallInv
  <2>9. IInv'
    BY <1>1, <1>2, <1>3, <2>1, <2>3, <2>8, Staging DEF Types
  <2> QED
    BY <1>1, <2>9 DEF Implements, Atomic!vars
<1>5. CASE proc[p].bytes # "good"
  <2>1. Return(p) /\ stage' = [stage EXCEPT ![o] = None]
    BY <1>1, <1>5 DEF WriteStage
  <2>2. IInv'
    BY <1>1, <1>2, <1>3, <2>1, Ending, Staging
  <2> QED
    BY <1>1, <2>2 DEF Implements, Atomic!vars
<1> QED
  BY <1>4, <1>5

LEMMA LinkFinalKeeps ==
    ASSUME IInv, NEW p \in Procs, LinkFinal(p)
    PROVE  IInv' /\ Implements
<1> DEFINE o == proc[p].op
<1>1. proc[p].pc = "link" /\ UNCHANGED <<man, stage, lock, ok>>
  BY DEF LinkFinal
<1>2. Inside(p) /\ CallInv(p) /\ Types
  BY <1>1 DEF Inside, IInv, DiskInv
<1>3. o \in Ops /\ o \notin {None, Stranger} /\ Path[o] \in Paths
  BY <1>2, CallFacts
<1>4. Done("op", o) /\ Done("target", o) /\ Done("publish", o)
  BY <1>1, <1>2 DEF CallInv, Passed
<1>5. CASE final[Path[o]] # None
  <2>1. Goto(p, "settle") /\ UNCHANGED <<disk, lock, ok>>
    BY <1>1, <1>5 DEF LinkFinal, disk
  <2>2. "settle" \in PCs \ {"idle", "locks"}
    BY DEF PCs
  <2>3. proc'[p].pc = "settle" /\ proc'[p].op = o
    BY <1>2, <2>1, <2>2, GotoFacts
  <2>4. Passed(p)' /\ Staged(p)'
    BY <1>1, <1>4, <2>3 DEF Passed, Staged, Inside, Done, Key
  <2> QED
    BY <1>2, <2>1, <2>2, <2>4, Moving
<1>6. CASE final[Path[o]] = None
  <2>1. Goto(p, "unlink") /\ final' = [final EXCEPT ![Path[o]] = o]
    BY <1>6 DEF LinkFinal
  <2>2. "unlink" \in PCs
    BY DEF PCs
  <2>3. /\ proc'[p].pc = "unlink" /\ proc'[p].mid = FALSE /\ proc'[p].op = o
        /\ proc' \in [Procs -> Calls] /\ \A q \in Procs : q # p => proc'[q] = proc[q]
    BY <1>2, <2>1, <2>2, GotoFacts
  <2>4. /\ final'[Path[o]] = o /\ final' \in [Paths -> Ops \union {None, Stranger}]
        /\ \A x \in Paths : x # Path[o] => final'[x] = final[x]
    BY <1>2, <1>3, <2>1 DEF Types
  <2>5. CallInv(p)'
    <3>1. Called(p)' /\ Holds(p)' /\ Writing(p)'
      BY <1>1, <1>2, <1>3, <2>3 DEF CallInv, Called, Holds, Writing, Inside, Key, Kinds
    <3>2. Passed(p)'
      BY <1>1, <1>4, <2>3 DEF Passed, Inside, Done, Key
    <3>3. Staged(p)'
      BY <2>3, <2>4 DEF Staged
    <3> QED
      BY <3>1, <3>2, <3>3 DEF CallInv
  <2>6. \A q \in Procs : q # p => CallInv(q)'
    <3> SUFFICES ASSUME NEW q \in Procs, q # p PROVE CallInv(q)'
      OBVIOUS
    <3>1. \A x \in Paths : final'[x] # final[x] => x = Path[o]
      BY <2>4
    <3> QED
      BY <1>1, <1>2, <2>3, <3>1, OthersOf
  <2>7. Types' /\ Signed'
    BY <1>1, <1>2, <2>3, <2>4 DEF Types, Signed, IInv, DiskInv
  <2>8. FinalOwned'
    <3> SUFFICES ASSUME NEW x \in Paths, final'[x] \in Ops
                 PROVE  /\ Path[final'[x]] = x
                        /\ \A kind \in Kinds : man[Key(kind, final'[x])] = [by |-> final'[x], phase |-> "done"]
      BY <1>1 DEF FinalOwned, Key
    <3>1. CASE x = Path[o]
      BY <1>4, <2>4, <3>1 DEF Done, Kinds
    <3>2. CASE x # Path[o]
      BY <2>4, <3>2 DEF IInv, DiskInv, FinalOwned
    <3> QED
      BY <3>1, <3>2
  <2>9. IntentKeepsBytes'
    <3> SUFFICES ASSUME NEW i \in Ops, man[<<"publish", i>>].phase # None
                 PROVE  stage[i] = "good" \/ final'[Path[i]] = i
      BY <1>1 DEF IntentKeepsBytes
    <3>1. stage[i] = "good" \/ final[Path[i]] = i
      BY DEF IInv, DiskInv, IntentKeepsBytes
    <3>2. Path[i] \in Paths /\ i # None
      BY MaterializerAssumption
    <3> QED
      BY <1>6, <2>4, <3>1, <3>2
  <2>10. Atomic!Publish(o)
    BY <1>1, <1>6, <2>1 DEF Atomic!Publish
  <2> QED
    BY <1>3, <2>5, <2>6, <2>7, <2>8, <2>9, <2>10 DEF IInv, DiskInv, Implements, Atomic!Next
<1> QED
  BY <1>5, <1>6

LEMMA UnlinkStageKeeps ==
    ASSUME IInv, NEW p \in Procs, UnlinkStage(p)
    PROVE  IInv' /\ Implements
<1> DEFINE o == proc[p].op
<1>1. /\ proc[p].pc = "unlink" /\ stage' = [stage EXCEPT ![o] = None]
      /\ Return(p) /\ ok' = ok \union {o} /\ UNCHANGED <<man, final>>
  BY DEF UnlinkStage, Succeed
<1>2. Inside(p) /\ CallInv(p) /\ Types
  BY <1>1 DEF Inside, IInv, DiskInv
<1>3. o \in Ops /\ final[Path[o]] = o /\ ok' \subseteq Ops
  BY <1>1, <1>2, CallFacts DEF CallInv, Staged, Types
<1>4. IInv'
  BY <1>1, <1>2, <1>3, Ending, Staging
<1>5. Atomic!Succeed(o)
  BY <1>1, <1>3 DEF Atomic!Succeed
<1> QED
  BY <1>3, <1>4, <1>5 DEF Implements, Atomic!Next

LEMMA SettleKeeps ==
    ASSUME IInv, NEW p \in Procs, Settle(p)
    PROVE  IInv' /\ Implements
<1> DEFINE o == proc[p].op
<1>1. proc[p].pc = "settle"
  BY DEF Settle
<1>2. Inside(p) /\ CallInv(p) /\ Types
  BY <1>1 DEF Inside, IInv, DiskInv
<1>3. o \in Ops
  BY <1>2, CallFacts
<1>4. CASE ~(Owned(p) /\ final[Path[o]] = o)
  <2>1. Raise(p)
    BY <1>4 DEF Settle
  <2> QED
    BY <2>1, RaiseKeeps
<1>5. CASE Owned(p) /\ final[Path[o]] = o /\ stage[o] # None
  <2>1. Goto(p, "unlink") /\ UNCHANGED <<disk, lock, ok>>
    BY <1>5 DEF Settle
  <2>2. "unlink" \in PCs \ {"idle", "locks"}
    BY DEF PCs
  <2>3. proc'[p].pc = "unlink" /\ proc'[p].op = o
    BY <1>2, <2>1, <2>2, GotoFacts
  <2>4. Done("op", o) /\ Done("target", o) /\ Done("publish", o)
    BY <1>5 DEF Owned, Done, Kinds
  <2>5. Passed(p)'
    BY <2>1, <2>3, <2>4 DEF Passed, Inside, Done, Key, disk
  <2>6. Staged(p)'
    BY <1>5, <2>1, <2>3 DEF Staged, disk
  <2> QED
    BY <1>2, <2>1, <2>2, <2>5, <2>6, Moving
<1>6. CASE Owned(p) /\ final[Path[o]] = o /\ stage[o] = None
  <2>1. Return(p) /\ ok' = ok \union {o} /\ UNCHANGED disk
    BY <1>6 DEF Settle, Succeed
  <2>2. IInv'
    BY <1>2, <1>3, <2>1, EndingQuietly DEF Types
  <2>3. Atomic!Succeed(o)
    BY <1>6, <2>1 DEF Atomic!Succeed, disk
  <2> QED
    BY <1>3, <2>2, <2>3 DEF Implements, Atomic!Next
<1> QED
  BY <1>4, <1>5, <1>6

LEMMA StrangerKeeps ==
    ASSUME IInv, NEW x \in Paths, StrangerWrites(x)
    PROVE  IInv' /\ Implements
<1>1. /\ final[x] = None /\ final' = [final EXCEPT ![x] = Stranger]
      /\ UNCHANGED <<man, stage, lock, proc, ok>>
  BY DEF StrangerWrites
<1>2. Types
  BY DEF IInv, DiskInv
<1>3. /\ final' \in [Paths -> Ops \union {None, Stranger}] /\ final'[x] = Stranger
      /\ \A y \in Paths : y # x => final'[y] = final[y]
  BY <1>1, <1>2 DEF Types
<1>4. \A q \in Procs : CallInv(q)'
  <2> SUFFICES ASSUME NEW q \in Procs PROVE CallInv(q)'
    OBVIOUS
  <2>1. CASE Inside(q)
    <3> DEFINE o == proc[q].op
    <3>1. Path[o] \in Paths /\ o # Stranger
      BY <2>1, CallFacts
    <3>2. \/ final'[Path[o]] = final[Path[o]]
          \/ final[Path[o]] = None /\ final'[Path[o]] # o
      BY <1>1, <1>3, <3>1
    <3> QED
      BY <1>1, <3>2, Others
  <2>2. CASE ~Inside(q)
    BY <1>1, <2>2, Others
  <2> QED
    BY <2>1, <2>2
<1>5. Types' /\ Signed'
  BY <1>1, <1>2, <1>3 DEF Types, Signed, IInv, DiskInv
<1>6. FinalOwned'
  <2> SUFFICES ASSUME NEW y \in Paths, final'[y] \in Ops
               PROVE  /\ Path[final'[y]] = y
                      /\ \A kind \in Kinds : man[Key(kind, final'[y])] = [by |-> final'[y], phase |-> "done"]
    BY <1>1 DEF FinalOwned, Key
  <2>1. y # x
    BY <1>3, MaterializerAssumption
  <2> QED
    BY <1>3, <2>1 DEF IInv, DiskInv, FinalOwned
<1>7. IntentKeepsBytes'
  <2> SUFFICES ASSUME NEW i \in Ops, man[<<"publish", i>>].phase # None
               PROVE  stage[i] = "good" \/ final'[Path[i]] = i
    BY <1>1 DEF IntentKeepsBytes
  <2>1. stage[i] = "good" \/ final[Path[i]] = i
    BY DEF IInv, DiskInv, IntentKeepsBytes
  <2>2. Path[i] \in Paths /\ i # None
    BY MaterializerAssumption
  <2> QED
    BY <1>1, <1>3, <2>1, <2>2
<1>8. Atomic!Squat(x)
  BY <1>1 DEF Atomic!Squat
<1> QED
  BY <1>4, <1>5, <1>6, <1>7, <1>8 DEF IInv, DiskInv, Implements, Atomic!Next

-----------------------------------------------------------------------------
LEMMA InitHolds ==
    ASSUME Init
    PROVE  IInv /\ Atomic!Init
<1>1. Idle \in Calls /\ NoManifest \in Manifests
  BY DEF Idle, Calls, PCs, NoManifest, Manifests
<1>2. Types
  BY <1>1 DEF Init, Types
<1>3. \A k \in Keys : man[k].phase = None /\ man[k].by = None
  BY DEF Init, NoManifest
<1>4. Signed
  <2>1. \A o \in Ops, kind \in {"op", "publish"} : Key(kind, o) \in Keys
    BY KeyFacts DEF Kinds
  <2> QED
    BY <1>3, <2>1 DEF Signed
<1>5. FinalOwned
  BY MaterializerAssumption DEF Init, FinalOwned
<1>6. IntentKeepsBytes
  BY <1>3 DEF IntentKeepsBytes, Keys
<1>7. \A p \in Procs : CallInv(p)
  BY DEF Init, CallInv, Called, Holds, Writing, Passed, Staged, Inside, Idle, Kinds
<1>8. Atomic!Init
  BY DEF Init, Atomic!Init
<1> QED
  BY <1>2, <1>4, <1>5, <1>6, <1>7, <1>8 DEF IInv, DiskInv

LEMMA NextKeeps ==
    ASSUME IInv, [Next]_vars
    PROVE  IInv' /\ Implements
<1>1. ASSUME NEW p \in Procs, NEW o \in Ops, NEW bytes \in {None, "good", "bad"}, Call(p, o, bytes)
      PROVE  IInv' /\ Implements
  BY <1>1, CallKeeps
<1>2. ASSUME NEW p \in Procs, Step(p)
      PROVE  IInv' /\ Implements
  BY <1>2, TakeLockKeeps, EnterManifestKeeps, WriteManifestKeeps, LookFinalKeeps,
     FindStageKeeps, CreateStageKeeps, WriteStageKeeps, LinkFinalKeeps,
     UnlinkStageKeeps, SettleKeeps DEF Step
<1>3. ASSUME NEW p \in Procs, Crash(p)
      PROVE  IInv' /\ Implements
  BY <1>3, CrashKeeps
<1>4. ASSUME NEW x \in Paths, StrangerWrites(x)
      PROVE  IInv' /\ Implements
  BY <1>4, StrangerKeeps
<1>5. CASE UNCHANGED vars
  <2>1. Types' /\ Signed' /\ FinalOwned' /\ IntentKeepsBytes'
    BY <1>5 DEF vars, IInv, DiskInv, Types, Signed, FinalOwned, IntentKeepsBytes
  <2>2. \A p \in Procs : CallInv(p)'
    BY <1>5, Others DEF vars
  <2> QED
    BY <1>5, <2>1, <2>2 DEF vars, IInv, DiskInv, Implements, Atomic!vars
<1> QED
  BY <1>1, <1>2, <1>3, <1>4, <1>5 DEF Next

LEMMA Invariant == Spec => []IInv
<1>1. Init => IInv
  BY InitHolds
<1>2. IInv /\ [Next]_vars => IInv'
  BY NextKeeps
<1> QED
  BY <1>1, <1>2, PTL DEF Spec

(* Files are absent, torn or whole, and a call past its locks holds both:   *)
(* at most one process works on an operation, or on a target (_open_lock). *)
THEOREM LocksHold == Spec => []TypeOK
<1>1. IInv => TypeOK
  BY DEF IInv, DiskInv, Types, TypeOK, CallInv, Holds, Inside, Manifests
<1> QED
  BY <1>1, Invariant, PTL

(* Whatever process dies wherever, a published path belongs to one          *)
(* operation whose three manifests are whole on disk (materialize).        *)
THEOREM PublishedIsOwned == Spec => []FinalOwned
<1>1. IInv => FinalOwned
  BY DEF IInv, DiskInv
<1> QED
  BY <1>1, Invariant, PTL

(* Once the publish intent is written, the bytes are staged whole or        *)
(* published: a retry can do without the caller (_materialize_under_lock). *)
THEOREM IntentHasBytes == Spec => []IntentKeepsBytes
<1>1. IInv => IntentKeepsBytes
  BY DEF IInv, DiskInv
<1> QED
  BY <1>1, Invariant, PTL

(* The materializer implements PublishOnce: a path is written whole, once,  *)
(* by one operation, and a call that succeeds published its own bytes.     *)
THEOREM MaterializerPublishesOnce == Spec => Publishes
<1>1. Init => Atomic!Init
  BY InitHolds
<1>2. IInv /\ [Next]_vars => [Atomic!Next]_(Atomic!vars)
  BY NextKeeps DEF Implements
<1> QED
  BY <1>1, <1>2, Invariant, PTL DEF Spec, Publishes, Atomic!Spec
=============================================================================
