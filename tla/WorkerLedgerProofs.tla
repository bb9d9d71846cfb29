------------------------- MODULE WorkerLedgerProofs -------------------------
(***************************************************************************)
(* What is proved of WorkerLedger, for any number of operations, request   *)
(* digests and processes and any number of kills, power losses and failed  *)
(* appends.                                                                *)
(*                                                                         *)
(* IInv says who is up, what each thread has on its way, and where the     *)
(* record of an operation that was begun lies in the file: synced and on a *)
(* line of its own, or on a line that stops every replay.  It gives the    *)
(* types, the flock and RunOnce.                                           *)
(*                                                                         *)
(* Calm says what more holds until an append fails: the file's lines are   *)
(* tidy, memory is what a replay would yield but for the records being     *)
(* synced, every record on its way may follow what memory holds of its     *)
(* operation, and the one fragment of the file is its last line or the     *)
(* quarantined one.  It gives LedgerAnswers and the refinement of          *)
(* OperationLog.                                                           *)
(***************************************************************************)
EXTENDS WorkerLedger, FiniteSetTheorems, TLAPS

Tokens == Records \union {Newline, Fragment}
Sides == {NoSidecar, Malformed} \union
         [st : {"present"}, offset : Nat \ {0}, fragment : Seq(Tokens)]

(* What memory holds of an operation: nothing, or a record of it.          *)
Known == {Unknown} \union [phase : PHASES, digest : Digests]

Procs == [pc : {"down", "torn", "newline", "promote", "serving"},
          mem : [Ops -> Known], needs_newline : BOOLEAN,
          io : [Threads -> IOs], turn : TurnStates]

Types == TypeOK /\ side \in Sides /\ worker \in [Workers -> Procs]

Up(w) == worker[w].pc # "down"
Pends(w, t) == worker[w].io[t] # NoIO
TokenOf(w, t) == worker[w].io[t].token

(* The request loop is about to begin a turn.                              *)
Begins(w) ==
    /\ Serving(w) /\ Pends(w, "main")
    /\ TokenOf(w, "main").op \in Turns /\ TokenOf(w, "main").phase = "in_progress"

(* Only the process that holds the flock is up.                            *)
Exclusive == \A w \in Workers : Up(w) => lock = w

(* What a process may have pending where it is.                            *)
MainInv(w) ==
    /\ ~Up(w) => worker[w] = Down
    /\ worker[w].pc = "torn" => ~Pends(w, "main") /\ Unterminated(file)
    /\ worker[w].pc = "newline" => Pends(w, "main") /\ TokenOf(w, "main") = Newline
    /\ worker[w].pc \in {"promote", "serving"} /\ Pends(w, "main") =>
            TokenOf(w, "main") \in Records
    /\ Begins(w) => worker[w].turn = NoTurn

TurnInv(w) ==
    Pends(w, "turn") =>
        /\ Serving(w) /\ TokenOf(w, "turn") \in Records
        /\ worker[w].turn.st = "finishing" /\ worker[w].turn.op = TokenOf(w, "turn").op

(* The place of the newline that ends the quarantined line.                *)
Ends(q) == q.offset + Len(q.fragment)

(* The quarantined line is terminated, or its newline is being written.    *)
Terminated ==
    side.st = "present" => Ends(side) <= Len(file) /\ file[Ends(side)] = Newline

SideInv(w) ==
    /\ worker[w].pc \in {"promote", "serving"} => Terminated
    /\ worker[w].pc = "newline" =>
        /\ side.st = "present"
        /\ worker[w].io["main"].st = "write" => Ends(side) = Len(file) + 1
        /\ worker[w].io["main"].st = "sync" => Terminated

(* An appended record that is not synced yet lies past the quarantine.     *)
Past(i) == side.st = "present" => i > Ends(side)

Placed(w, t) ==
    worker[w].io[t].st = "sync" /\ TokenOf(w, t) \in Records =>
        \E i \in 1..(Len(file) - 1) :
            file[i] = TokenOf(w, t) /\ file[i + 1] = Newline /\ Past(i)

WorkerInv(w) ==
    MainInv(w) /\ TurnInv(w) /\ SideInv(w) /\ \A t \in Threads : Placed(w, t)

(* The record at i shares its terminated line with what is before it.      *)
Buried(i) ==
    /\ i > 1 /\ file[i - 1] # Newline /\ Past(i - 1)
    /\ \A w \in Workers : worker[w].pc \in {"down", "serving"}

(* The ledger never loses that op was begun: a synced, terminated record   *)
(* of it is read by every replay, or no replay gets past its line.         *)
Durable(op) ==
    \E i \in 1..(synced - 1) :
        /\ file[i].tok = "record" /\ file[i].op = op /\ file[i + 1] = Newline
        /\ IsRecordLine(file, i) \/ Buried(i)

RunInv(op) ==
    /\ runs[op] <= 1
    /\ runs[op] > 0 => /\ Durable(op)
                       /\ \A w \in Workers : Up(w) => worker[w].mem[op] # Unknown
    /\ \A w \in Workers : Begins(w) /\ TokenOf(w, "main").op = op => runs[op] = 0

IInv ==
    /\ Types /\ Exclusive
    /\ \A w \in Workers : WorkerInv(w)
    /\ \A op \in Turns : RunInv(op)

-----------------------------------------------------------------------------

LEMMA HasMax ==
    ASSUME NEW n \in Nat, NEW S \in SUBSET (0..n), S # {}
    PROVE  Max(S) \in S /\ \A y \in S : y <= Max(S)
<1> DEFINE Above(x) == {y \in S : y > x}
           T == {Above(x) : x \in S}
           R == StrictSubsetOrdering(0..n)
<1>1. T \subseteq FiniteSubsetsOf(0..n)
  <2>1. IsFiniteSet(0..n)
    BY FS_Interval
  <2>2. FiniteSubsetsOf(0..n) = SUBSET (0..n)
    BY <2>1, FS_FiniteSubsetsOfFinite, Zenon
  <2>3. \A x \in S : Above(x) \in SUBSET (0..n)
    OBVIOUS
  <2> HIDE DEF Above
  <2> QED
    BY <2>2, <2>3
<1>2. T # {}
  OBVIOUS
<1>3. IsWellFoundedOn(R, FiniteSubsetsOf(0..n))
  BY FS_StrictSubsetOrderingWellFounded
<1>4. PICK U \in T : \A V \in T : <<V, U>> \notin R
  <2> HIDE DEF R, T
  <2> QED
    BY <1>1, <1>2, <1>3, WFMin, Zenon
<1>5. PICK x \in S : U = Above(x)
  OBVIOUS
<1>6. \A y \in S : y <= x
  <2> SUFFICES ASSUME NEW y \in S, y > x PROVE FALSE
    OBVIOUS
  <2>0. x \in Int /\ y \in Int /\ \A z \in S : z \in Int
    OBVIOUS
  <2>1. Above(y) \subseteq Above(x) /\ y \in Above(x) /\ y \notin Above(y)
    <3>1. ASSUME NEW z \in S, z > y PROVE z > x
      BY <2>0, <3>1
    <3>2. y \in Above(x) /\ ~(y > y)
      BY <2>0
    <3> QED
      BY <3>1, <3>2
  <2>2. Above(y) \in SUBSET (0..n) /\ Above(x) \in SUBSET (0..n)
    OBVIOUS
  <2>3. <<Above(y), Above(x)>> \in R
    <3> HIDE DEF Above
    <3> QED
      BY <2>1, <2>2 DEF StrictSubsetOrdering
  <2> QED
    BY <1>4, <1>5, <2>3
<1>7. \A y \in S : x >= y
  BY <1>6
<1>8. Max(S) \in S /\ \A y \in S : Max(S) >= y
  BY <1>7 DEF Max
<1> QED
  BY <1>8

-----------------------------------------------------------------------------
(* Types.                                                                  *)

LEMMA TokenFacts ==
    /\ Newline \in Tokens /\ Fragment \in Tokens /\ Newline # Fragment
    /\ \A r \in Records : /\ r \in Tokens /\ r.tok = "record" /\ r # Newline /\ r # Fragment
                          /\ r.op \in Ops /\ r.phase \in PHASES /\ r.digest \in Digests
    /\ \A x \in Tokens : x.tok = "record" => x \in Records
    /\ \A x \in Tokens : x.tok = "newline" => x = Newline
    /\ \A op \in Ops, phase \in PHASES, d \in Digests : Record(op, phase, d) \in Records
  BY DEF Tokens, Records, Newline, Fragment, Record

LEMMA DownType == Down \in Procs /\ Down.pc = "down" /\ \A t \in Threads : Down.io[t] = NoIO
  BY DEF Down, Procs, Unknown, Known, IOs, NoIO, TurnStates, NoTurn, Threads

LEMMA PayloadType ==
    ASSUME Types, NEW w \in Workers, NEW token \in Records \union {Newline}
    PROVE  /\ Payload(w, token) \in Seq(Tokens)
           /\ Payload(w, token) # <<>>
           /\ token = Newline => Payload(w, token) = <<Newline>>
           /\ token # Newline =>
                \/ Payload(w, token) = <<token, Newline>>
                \/ Payload(w, token) = <<Newline, token, Newline>>
  BY TokenFacts DEF Payload

(* What follows the old end of the file leaves what was there.             *)
LEMMA Extension ==
    ASSUME NEW f \in Seq(Tokens), NEW p \in Seq(Tokens)
    PROVE  /\ f \o p \in Seq(Tokens) /\ Len(f \o p) = Len(f) + Len(p)
           /\ \A i \in 1..Len(f) : (f \o p)[i] = f[i]
           /\ \A i \in 1..Len(p) : (f \o p)[Len(f) + i] = p[i]
  OBVIOUS

LEMMA InterruptedType ==
    ASSUME NEW p \in Seq(Tokens), NEW q \in Interrupted(p)
    PROVE  q \in Seq(Tokens)
<1>1. \A k \in 0..(Len(p) - 1) : SubSeq(p, 1, k) \in Seq(Tokens)
  OBVIOUS
<1>2. <<Fragment>> \in Seq(Tokens)
  BY TokenFacts
<1>3. \A k \in 0..(Len(p) - 1) : SubSeq(p, 1, k) \o <<Fragment>> \in Seq(Tokens)
  BY <1>1, <1>2, Extension
<1> QED
  BY <1>1, <1>3 DEF Interrupted

LEMMA TornOffsetFacts ==
    ASSUME NEW f \in Seq(Tokens), Unterminated(f)
    PROVE  /\ TornOffset(f) \in 1..Len(f)
           /\ SubSeq(f, TornOffset(f), Len(f)) \in Seq(Tokens)
           /\ TornOffset(f) + Len(SubSeq(f, TornOffset(f), Len(f))) = Len(f) + 1
<1> DEFINE S == {0} \union {i \in DOMAIN f : f[i] = Newline}
<1>1. Len(f) \in Nat \ {0} /\ S \in SUBSET (0..(Len(f) - 1)) /\ S # {}
  BY DEF Unterminated
<1>2. Max(S) \in S
  <2> HIDE DEF S
  <2>1. Len(f) - 1 \in Nat
    BY <1>1
  <2> QED
    BY <1>1, <2>1, HasMax
<1>3. TornOffset(f) \in 1..Len(f)
  BY <1>1, <1>2 DEF TornOffset
<1> QED
  BY <1>3

LEMMA ReplayKnown ==
    ASSUME NEW f \in Seq(Tokens), NEW op \in Ops, NEW i \in 1..Len(f),
           IsRecordLine(f, i), f[i].op = op
    PROVE  replay(f, op) # Unknown
<1> DEFINE lines == {j \in DOMAIN f : IsRecordLine(f, j) /\ f[j].op = op}
<1>1. i \in lines /\ lines \in SUBSET (0..Len(f)) /\ Len(f) \in Nat
  BY DEF IsRecordLine
<1>2. Max(lines) \in lines
  <2> HIDE DEF lines
  <2> QED
    BY <1>1, HasMax
<1>3. f[Max(lines)] \in Records
  BY <1>2, TokenFacts DEF IsRecordLine
<1>4. replay(f, op).phase \in PHASES
  <2>1. replay(f, op) = [phase |-> f[Max(lines)].phase, digest |-> f[Max(lines)].digest]
    BY <1>1 DEF replay
  <2> HIDE DEF lines
  <2> QED
    BY <1>3, <2>1, TokenFacts
<1> QED
  BY <1>4 DEF Unknown, PHASES, OpenPhases, FinalPhases

LEMMA ReplayType ==
    ASSUME NEW f \in Seq(Tokens), NEW op \in Ops
    PROVE  replay(f, op) \in Known
<1> DEFINE lines == {j \in DOMAIN f : IsRecordLine(f, j) /\ f[j].op = op}
<1>1. CASE lines = {}
  BY <1>1 DEF replay, Known
<1>2. CASE lines # {}
  <2>1. lines \in SUBSET (0..Len(f)) /\ Len(f) \in Nat
    OBVIOUS
  <2>2. Max(lines) \in lines
    <3> HIDE DEF lines
    <3> QED
      BY <1>2, <2>1, HasMax
  <2>3. f[Max(lines)] \in Records
    BY <2>2, TokenFacts DEF IsRecordLine
  <2>4. replay(f, op) = [phase |-> f[Max(lines)].phase, digest |-> f[Max(lines)].digest]
    BY <1>2 DEF replay
  <2> HIDE DEF lines
  <2> QED
    BY <2>3, <2>4, TokenFacts DEF Known
<1> QED
  BY <1>1, <1>2

-----------------------------------------------------------------------------
(* What steps keep.                                                        *)

LEMMA DownIsIdle ==
    ASSUME NEW w \in Workers, worker'[w] = Down
    PROVE  WorkerInv(w)' /\ ~(Up(w)')
  BY DownType DEF WorkerInv, MainInv, TurnInv, Begins, SideInv, Placed, Up, Pends, Serving,
     Down, NoIO, Threads

(* The others are down while w is up.                                      *)
LEMMA OthersDown ==
    ASSUME IInv, NEW w \in Workers, Up(w)
    PROVE  \A v \in Workers \ {w} : ~Up(v) /\ worker[v] = Down
  BY DEF IInv, Exclusive, WorkerInv, MainInv

(* A step that changes neither the files nor the workers.                  *)
LEMMA WorkersKept ==
    ASSUME IInv, UNCHANGED <<file, synced, side, worker>>
    PROVE  \A v \in Workers : WorkerInv(v)'
  BY DEF IInv, WorkerInv, MainInv, TurnInv, Begins, SideInv, Placed, Up, Pends, TokenOf,
     Serving, Terminated, Past, Unterminated

(* A begun operation stays durable if what was synced stays, and the       *)
(* sidecar moves only while a process opens the ledger.                    *)
LEMMA DurableKept ==
    ASSUME IInv, NEW op \in Turns, Durable(op),
           synced' \in Nat, synced <= synced', synced' <= Len(file'),
           \A i \in 1..synced : file'[i] = file[i],
           file' \in Seq(Tokens),
           (\A w \in Workers : worker[w].pc \in {"down", "serving"}) =>
                /\ side' = side
                /\ \A w \in Workers : worker'[w].pc \in {"down", "serving"}
    PROVE  Durable(op)'
<1>1. PICK i \in 1..(synced - 1) :
        /\ file[i].tok = "record" /\ file[i].op = op /\ file[i + 1] = Newline
        /\ IsRecordLine(file, i) \/ Buried(i)
  BY DEF Durable
<1>2. synced \in Nat /\ synced <= Len(file) /\ file \in Seq(Tokens)
  BY DEF IInv, Types, TypeOK, Tokens
<1>3. i \in 1..(synced' - 1) /\ i \in 1..synced /\ i + 1 \in 1..synced
      /\ (i > 1 => i - 1 \in 1..synced)
  BY <1>2
<1>4. file'[i] = file[i] /\ file'[i + 1] = file[i + 1]
      /\ (i > 1 => file'[i - 1] = file[i - 1])
  BY <1>3
<1>5. CASE IsRecordLine(file, i)
  <2>1. IsRecordLine(file', i)
    BY <1>1, <1>2, <1>3, <1>4, <1>5 DEF IsRecordLine
  <2> QED
    BY <1>1, <1>3, <1>4, <2>1 DEF Durable
<1>6. CASE Buried(i)
  <2>1. Buried(i)'
    BY <1>4, <1>6 DEF Buried, Past
  <2> QED
    BY <1>1, <1>3, <1>4, <2>1 DEF Durable
<1> QED
  BY <1>1, <1>5, <1>6

(* RunInv when nothing new is started.                                     *)
LEMMA RunKept ==
    ASSUME IInv, NEW op \in Turns, runs' = runs,
           Durable(op) => Durable(op)',
           \A w \in Workers : Up(w)' =>
                Up(w) /\ (worker[w].mem[op] # Unknown => worker'[w].mem[op] # Unknown),
           \A w \in Workers :
                Begins(w)' /\ TokenOf(w, "main")'.op = op =>
                 \/ worker[w].mem[op] = Unknown /\ Up(w)
                 \/ Begins(w) /\ TokenOf(w, "main") = TokenOf(w, "main")'
    PROVE  RunInv(op)'
<1>1. RunInv(op) /\ runs[op] \in Nat
  BY DEF IInv, Types, TypeOK
<1>2. \A w \in Workers : Up(w) /\ worker[w].mem[op] = Unknown => runs[op] = 0
  BY <1>1 DEF RunInv
<1> QED
  BY <1>1, <1>2 DEF RunInv

(* When one process acts the others are down, and stay so.                 *)
LEMMA OneActs ==
    ASSUME IInv, NEW w \in Workers, \A v \in Workers \ {w} : ~Up(v),
           \A v \in Workers \ {w} : worker'[v] = worker[v],
           WorkerInv(w)', Up(w)' => lock' = w
    PROVE  /\ Exclusive' /\ \A v \in Workers : WorkerInv(v)'
           /\ \A v \in Workers : Up(v)' => v = w
<1>1. \A v \in Workers \ {w} : worker'[v] = Down
  BY DEF IInv, WorkerInv, MainInv
<1>2. \A v \in Workers \ {w} : WorkerInv(v)' /\ ~(Up(v)')
  BY <1>1, DownIsIdle
<1> QED
  BY <1>2 DEF Exclusive

LEMMA ProcTypes ==
    /\ Types => worker \in [Workers -> Procs]
    /\ worker' \in [Workers -> Procs] =>
            worker' \in [Workers ->
                [pc : {"down", "torn", "newline", "promote", "serving"},
                 mem : [Ops -> Entries], needs_newline : BOOLEAN,
                 io : [Threads -> IOs], turn : TurnStates]]
<1>1. Known \subseteq Entries
  BY DEF Known, Entries, Unknown
<1> QED
  BY <1>1 DEF Types, Procs

LEMMA IsTornFacts ==
    ASSUME NEW f, IsTorn(f)
    PROVE  Unterminated(f)
  BY DEF IsTorn

(* A sequence without its n + 1 elements from o on.                        *)
CutAway(f, o, n) == SubSeq(f, 1, o - 1) \o SubSeq(f, o + n + 1, Len(f))

LEMMA CutOut ==
    ASSUME NEW f \in Seq(Tokens), NEW o \in Nat \ {0}, NEW n \in Nat, o + n <= Len(f)
    PROVE  /\ CutAway(f, o, n) \in Seq(Tokens) /\ Len(CutAway(f, o, n)) = Len(f) - n - 1
           /\ \A m \in 1..(o - 1) : CutAway(f, o, n)[m] = f[m]
           /\ \A m \in (o + n + 1)..Len(f) : CutAway(f, o, n)[m - n - 1] = f[m]
<1> DEFINE x == CutAway(f, o, n)
           a == SubSeq(f, 1, o - 1)
           b == SubSeq(f, o + n + 1, Len(f))
<1>1. a \in Seq(Tokens) /\ Len(a) = o - 1 /\ \A m \in 1..(o - 1) : a[m] = f[m]
  OBVIOUS
<1>2. b \in Seq(Tokens) /\ Len(b) = Len(f) - (o + n)
  OBVIOUS
<1>3. \A m \in 1..(Len(f) - (o + n)) : b[m] = f[o + n + m]
  OBVIOUS
<1> HIDE DEF a, b
<1>4. a \in Seq(Tokens) /\ b \in Seq(Tokens)
  BY <1>1, <1>2
<1>5. /\ a \o b \in Seq(Tokens) /\ Len(a \o b) = Len(a) + Len(b)
      /\ \A i \in 1..Len(a) : (a \o b)[i] = a[i]
      /\ \A i \in 1..Len(b) : (a \o b)[Len(a) + i] = b[i]
  BY <1>4, Extension
<1>7. x = a \o b
  BY DEF a, b, CutAway
<1>6. ASSUME NEW m \in (o + n + 1)..Len(f) PROVE x[m - n - 1] = f[m]
  <2>1. m - (o + n) \in 1..Len(b) /\ Len(a) + (m - (o + n)) = m - n - 1
        /\ o + n + (m - (o + n)) = m
    BY <1>1, <1>2
  <2> QED
    BY <1>2, <1>3, <1>5, <1>7, <2>1
<1>8. Len(a \o b) = Len(f) - n - 1
  BY <1>1, <1>2, <1>5
<1>9. \A m \in 1..(o - 1) : (a \o b)[m] = f[m]
  BY <1>1, <1>5
<1> QED
  BY <1>5, <1>6, <1>7, <1>8, <1>9

(* No replay gets past a buried record.                                    *)
LEMMA BuriedUnreadable ==
    ASSUME IInv, NEW i \in 1..(synced - 1), file[i].tok = "record",
           file[i + 1] = Newline, Buried(i)
    PROVE  ~Readable(file, side)
<1>0. file \in Seq(Tokens) /\ side \in Sides /\ i + 1 \in 1..Len(file) /\ i \in Nat
  BY DEF IInv, Types, TypeOK, Tokens
<1>1. SUFFICES ASSUME Readable(file, side) PROVE FALSE
  OBVIOUS
<1>2. i > 1 /\ file[i - 1] # Newline
  BY DEF Buried
<1>3. CASE side.st = "present"
  <2> DEFINE o == side.offset
             n == Len(side.fragment)
             x == exclude_quarantine(file, side)
             k == i - n - 1
  <2>1. o \in Nat \ {0} /\ n \in Nat
    BY <1>0, <1>3 DEF Sides, NoSidecar, Malformed
  <2>2. o + n <= Len(file) /\ file[o + n] = Newline
    BY <1>1, <1>3, <2>1 DEF Readable, SidecarMatches
  <2>3. i - 1 > o + n
    BY <1>3 DEF Buried, Past, Ends
  <2>4. x = CutAway(file, o, n)
    BY <1>3 DEF exclude_quarantine, NoSidecar, CutAway
  <2>5. /\ x \in Seq(Tokens) /\ Len(x) = Len(file) - n - 1
        /\ \A m \in (o + n + 1)..Len(file) : x[m - n - 1] = file[m]
    <3> HIDE DEF o, n, x
    <3>1. file \in Seq(Tokens) /\ o \in Nat \ {0} /\ n \in Nat /\ o + n <= Len(file)
      BY <1>0, <2>1, <2>2
    <3> QED
      BY <2>4, <3>1, CutOut
  <2> HIDE DEF o, n, x
  <2>6. i - 1 \in (o + n + 1)..Len(file) /\ i \in (o + n + 1)..Len(file)
        /\ i + 1 \in (o + n + 1)..Len(file)
    BY <1>0, <2>1, <2>2, <2>3
  <2>7. x[k - 1] = file[i - 1] /\ x[k] = file[i] /\ x[k + 1] = file[i + 1]
    <3>1. (i - 1) - n - 1 = k - 1 /\ i - n - 1 = k /\ (i + 1) - n - 1 = k + 1
      BY <1>0, <2>1
    <3> QED
      BY <2>5, <2>6, <3>1
  <2>8. k \in Nat /\ k > 1 /\ k + 1 <= Len(x) /\ Len(x) \in Nat
    BY <1>0, <2>1, <2>2, <2>3, <2>5
  <2> HIDE DEF k
  <2>9. ~IsRecordLine(x, k)
    BY <1>2, <2>7, <2>8 DEF IsRecordLine
  <2>10. k + 1 \in DOMAIN x /\ (k + 1) - 1 = k
    BY <2>5, <2>8
  <2>11. HasBadLine(x)
    BY <2>7, <2>9, <2>10 DEF HasBadLine
  <2> QED
    BY <1>1, <2>11 DEF Readable, x
<1>4. CASE side.st # "present"
  <2>1. side = NoSidecar
    BY <1>0, <1>1, <1>4 DEF Readable, Sides, Malformed
  <2>2. exclude_quarantine(file, side) = file
    BY <2>1 DEF exclude_quarantine, NoSidecar
  <2>3. HasBadLine(file)
    BY <1>0, <1>2 DEF HasBadLine, IsRecordLine
  <2> QED
    BY <1>1, <2>2, <2>3 DEF Readable
<1> QED
  BY <1>3, <1>4

(* A readable ledger names every operation that was begun.                 *)
LEMMA DurableIsRead ==
    ASSUME IInv, NEW op \in Turns, Durable(op), Readable(file, side)
    PROVE  /\ replay(file, op) # Unknown
           /\ \E i \in 1..(synced - 1) :
                /\ file[i].tok = "record" /\ file[i].op = op /\ file[i + 1] = Newline
                /\ IsRecordLine(file, i)
<1>1. PICK i \in 1..(synced - 1) :
        /\ file[i].tok = "record" /\ file[i].op = op /\ file[i + 1] = Newline
        /\ IsRecordLine(file, i)
  BY BuriedUnreadable DEF Durable
<1>2. i \in 1..Len(file) /\ file \in Seq(Tokens) /\ op \in Ops
  BY DEF IInv, Types, TypeOK, Tokens, Ops
<1> QED
  BY <1>1, <1>2, ReplayKnown

-----------------------------------------------------------------------------
(* One step per action.                                                    *)

LEMMA OpenKeeps ==
    ASSUME IInv, LedgerAssumption, NEW w \in Workers, open(w)
    PROVE  IInv'
<1>0. Types /\ file \in Seq(Tokens)
  BY DEF IInv, Types, TypeOK, Tokens
<1>1. \A v \in Workers : ~Up(v) /\ worker[v].pc = "down"
  BY DEF open, CanLock, IInv, Exclusive, LedgerAssumption, Up
<1>2. /\ worker' \in [Workers -> Procs]
      /\ \A v \in Workers \ {w} : worker'[v] = worker[v]
      /\ worker'[w].pc = IF IsTorn(file) THEN "torn" ELSE "promote"
      /\ worker'[w].mem = [op \in Ops |-> replay(file, op)]
      /\ \A t \in Threads : worker'[w].io[t] = NoIO
      /\ Readable(file, side) /\ lock' = w
      /\ UNCHANGED <<file, synced, side, runs>>
  <2>1. [op \in Ops |-> replay(file, op)] \in [Ops -> Known] /\ needs_newline(file) \in BOOLEAN
    BY <1>0, ReplayType DEF needs_newline, Unterminated, IsRecordLine
  <2> QED
    BY <1>0, <2>1, DownType, ProcTypes DEF open, Procs, disk
<1>3. Types'
  BY <1>0, <1>2, ProcTypes DEF open, Types, TypeOK, disk, faults
<1>4. WorkerInv(w)'
  <2>1. worker'[w].pc = "promote" => Terminated'
    BY <1>0, <1>2 DEF Readable, SidecarMatches, Terminated, Ends, Types, Sides, NoSidecar, Malformed
  <2>2. worker'[w].pc = "torn" => Unterminated(file)
    BY <1>2, IsTornFacts
  <2> QED
    BY <1>2, <2>1, <2>2 DEF WorkerInv, MainInv, TurnInv, Begins, SideInv, Placed, Up, Pends,
       Serving, Threads, NoIO
<1>5. Exclusive' /\ (\A v \in Workers : WorkerInv(v)') /\ \A v \in Workers : Up(v)' => v = w
  BY <1>1, <1>2, <1>4, OneActs
<1>6. ASSUME NEW op \in Turns PROVE RunInv(op)'
  <2>1. RunInv(op) /\ op \in Ops /\ runs[op] \in Nat
    BY <1>0 DEF IInv, Ops, Types, TypeOK
  <2>2. ASSUME runs[op] > 0 PROVE Durable(op)' /\ worker'[w].mem[op] # Unknown
    <3>1. Durable(op)
      BY <2>1, <2>2 DEF RunInv
    <3>2. PICK i \in 1..(synced - 1) :
            /\ file[i].tok = "record" /\ file[i].op = op /\ file[i + 1] = Newline
            /\ IsRecordLine(file, i)
      BY <1>2, <3>1, DurableIsRead
    <3>3. replay(file, op) # Unknown
      BY <1>2, <3>1, DurableIsRead
    <3>4. Durable(op)'
      BY <1>2, <3>2 DEF Durable
    <3> QED
      BY <1>2, <2>1, <3>3, <3>4
  <2>3. \A v \in Workers : ~(Begins(v)')
    BY <1>2, <1>5 DEF Begins, Serving, Up
  <2> QED
    BY <1>2, <1>5, <2>1, <2>2, <2>3 DEF RunInv
<1> QED
  BY <1>3, <1>5, <1>6 DEF IInv

LEMMA WriteQuarantineKeeps ==
    ASSUME IInv, LedgerAssumption, NEW w \in Workers, write_quarantine(w)
    PROVE  IInv'
<1>0. Types /\ file \in Seq(Tokens) /\ worker[w] \in Procs
  BY ProcTypes DEF IInv, Types, TypeOK, Tokens
<1>1. Up(w) /\ WorkerInv(w) /\ Unterminated(file) /\ ~Pends(w, "turn")
  BY DEF write_quarantine, IInv, WorkerInv, MainInv, TurnInv, Begins, Up, Serving
<1>2. /\ worker' \in [Workers -> Procs]
      /\ \A v \in Workers \ {w} : worker'[v] = worker[v]
      /\ worker'[w].pc = "newline" /\ worker'[w].mem = worker[w].mem
      /\ worker'[w].io["main"] = [st |-> "write", token |-> Newline]
      /\ worker'[w].io["turn"] = worker[w].io["turn"]
      /\ UNCHANGED <<file, synced, lock, runs>>
  BY <1>0, ProcTypes DEF write_quarantine, Procs, Threads, IOs
<1>3. side' = TornLine(file) /\ side' \in Sides /\ side'.st = "present"
      /\ Ends(side') = Len(file) + 1
  BY <1>0, <1>1, TornOffsetFacts DEF write_quarantine, TornLine, Quarantine, Sides, Ends
<1>4. Types'
  BY <1>0, <1>2, <1>3, ProcTypes DEF write_quarantine, Types, TypeOK, backend, faults
<1>5. WorkerInv(w)'
  BY <1>1, <1>2, <1>3 DEF WorkerInv, MainInv, TurnInv, Begins, SideInv, Placed, Up, Pends,
     TokenOf, Serving, Threads, NoIO, Newline, Records
<1>6. Exclusive' /\ (\A v \in Workers : WorkerInv(v)') /\ \A v \in Workers : Up(v)' => v = w
  <2>1. lock' = w /\ \A v \in Workers \ {w} : ~Up(v)
    BY <1>1, <1>2, OthersDown DEF IInv, Exclusive
  <2> QED
    BY <1>2, <1>5, <2>1, OneActs
<1>7. ASSUME NEW op \in Turns PROVE RunInv(op)'
  <2>1. Durable(op) => Durable(op)'
    <3>1. synced \in Nat /\ synced <= Len(file)
      BY <1>0 DEF Types, TypeOK
    <3>2. worker[w].pc = "torn"
      BY DEF write_quarantine
    <3> QED
      BY <1>0, <1>2, <3>1, <3>2, DurableKept
  <2>2. \A v \in Workers : ~(Begins(v)')
    BY <1>2, <1>6 DEF Begins, Serving, Up
  <2> QED
    BY <1>1, <1>2, <1>6, <2>1, <2>2, RunKept
<1> QED
  BY <1>4, <1>6, <1>7 DEF IInv

LEMMA PromoteKeeps ==
    ASSUME IInv, LedgerAssumption, NEW w \in Workers, promote(w)
    PROVE  IInv'
<1>0. Types /\ file \in Seq(Tokens) /\ worker[w] \in Procs
  BY ProcTypes DEF IInv, Types, TypeOK, Tokens
<1>1. Up(w) /\ WorkerInv(w) /\ ~Pends(w, "turn")
  BY DEF promote, IInv, WorkerInv, TurnInv, Up, Serving
<1>2. PICK op \in Ops :
        /\ worker[w].mem[op].phase = "in_progress"
        /\ Pending(w, "main", Record(op, "uncertain", worker[w].mem[op].digest))
  BY DEF promote
<1> DEFINE token == Record(op, "uncertain", worker[w].mem[op].digest)
<1>3. token \in Records
  <2>1. worker[w].mem[op] \in Known
    BY <1>0 DEF Procs
  <2>2. worker[w].mem[op].digest \in Digests
    BY <1>2, <2>1 DEF Known, Unknown
  <2> QED
    BY <2>2, TokenFacts DEF PHASES, OpenPhases
<1> HIDE DEF token
<1>4. /\ worker' \in [Workers -> Procs]
      /\ \A v \in Workers \ {w} : worker'[v] = worker[v]
      /\ worker'[w].pc = "promote" /\ worker'[w].mem = worker[w].mem
      /\ worker'[w].io["main"] = [st |-> "write", token |-> token]
      /\ worker'[w].io["turn"] = worker[w].io["turn"]
      /\ UNCHANGED <<file, synced, side, lock, runs>>
  <2>1. worker' = [worker EXCEPT ![w].io["main"] = [st |-> "write", token |-> token]]
    BY <1>2 DEF Pending, token
  <2> QED
    BY <1>0, <1>3, <2>1, ProcTypes DEF promote, Procs, Threads, IOs, disk
<1>5. Types'
  BY <1>0, <1>4, ProcTypes DEF promote, Types, TypeOK, backend, faults
<1>6. WorkerInv(w)'
  <2>1. Terminated'
    BY <1>1, <1>4 DEF WorkerInv, SideInv, promote, Terminated
  <2> QED
    BY <1>1, <1>3, <1>4, <2>1 DEF WorkerInv, MainInv, TurnInv, Begins, SideInv, Placed, Up,
       Pends, TokenOf, Serving, Threads, NoIO
<1>7. Exclusive' /\ (\A v \in Workers : WorkerInv(v)') /\ \A v \in Workers : Up(v)' => v = w
  <2>1. lock' = w /\ \A v \in Workers \ {w} : ~Up(v)
    BY <1>1, <1>4, OthersDown DEF IInv, Exclusive
  <2> QED
    BY <1>4, <1>6, <2>1, OneActs
<1>8. ASSUME NEW o \in Turns PROVE RunInv(o)'
  <2>1. Durable(o) => Durable(o)'
    <3>1. synced \in Nat /\ synced <= Len(file)
      BY <1>0 DEF Types, TypeOK
    <3>2. worker[w].pc = "promote"
      BY DEF promote
    <3> QED
      BY <1>0, <1>4, <3>1, <3>2, DurableKept
  <2>2. \A v \in Workers : ~(Begins(v)')
    BY <1>4, <1>7 DEF Begins, Serving, Up
  <2> QED
    BY <1>1, <1>4, <1>7, <2>1, <2>2, RunKept
<1> QED
  BY <1>5, <1>7, <1>8 DEF IInv

LEMMA OpenedKeeps ==
    ASSUME IInv, LedgerAssumption, NEW w \in Workers, opened(w)
    PROVE  IInv'
<1>0. Types /\ file \in Seq(Tokens) /\ worker[w] \in Procs
  BY ProcTypes DEF IInv, Types, TypeOK, Tokens
<1>1. Up(w) /\ WorkerInv(w) /\ ~Pends(w, "turn") /\ ~Pends(w, "main")
  BY DEF opened, IInv, WorkerInv, TurnInv, Up, Serving, Idle, Pends
<1>2. /\ worker' \in [Workers -> Procs]
      /\ \A v \in Workers \ {w} : worker'[v] = worker[v]
      /\ worker'[w].pc = "serving" /\ worker'[w].mem = worker[w].mem
      /\ worker'[w].io = worker[w].io
      /\ UNCHANGED <<file, synced, side, lock, runs>>
  BY <1>0, ProcTypes DEF opened, Procs, disk
<1>3. Types'
  BY <1>0, <1>2, ProcTypes DEF opened, Types, TypeOK, backend, faults
<1>4. WorkerInv(w)'
  <2>1. Terminated'
    BY <1>1, <1>2 DEF WorkerInv, SideInv, opened, Terminated
  <2> QED
    BY <1>1, <1>2, <2>1 DEF WorkerInv, MainInv, TurnInv, Begins, SideInv, Placed, Up,
       Pends, TokenOf, Serving, Threads, NoIO
<1>5. Exclusive' /\ (\A v \in Workers : WorkerInv(v)') /\ \A v \in Workers : Up(v)' => v = w
  <2>1. lock' = w /\ \A v \in Workers \ {w} : ~Up(v)
    BY <1>1, <1>2, OthersDown DEF IInv, Exclusive
  <2> QED
    BY <1>2, <1>4, <2>1, OneActs
<1>6. ASSUME NEW o \in Turns PROVE RunInv(o)'
  <2>1. Durable(o) => Durable(o)'
    <3>1. synced \in Nat /\ synced <= Len(file)
      BY <1>0 DEF Types, TypeOK
    <3>2. worker[w].pc = "promote"
      BY DEF opened
    <3> QED
      BY <1>0, <1>2, <3>1, <3>2, DurableKept
  <2>2. \A v \in Workers : ~(Begins(v)')
    BY <1>1, <1>2, <1>5 DEF Begins, Serving, Up, Pends
  <2> QED
    BY <1>1, <1>2, <1>5, <2>1, <2>2, RunKept
<1> QED
  BY <1>3, <1>5, <1>6 DEF IInv

(* The file grows behind what was synced.                                  *)
LEMMA GrowsKeepsDurable ==
    ASSUME IInv, NEW p \in Seq(Tokens), file' = file \o p, UNCHANGED <<synced, side>>,
           (\A w \in Workers : worker[w].pc \in {"down", "serving"}) =>
                \A w \in Workers : worker'[w].pc \in {"down", "serving"},
           NEW op \in Turns, Durable(op)
    PROVE  Durable(op)'
<1>1. file \in Seq(Tokens) /\ synced \in Nat /\ synced <= Len(file)
  BY DEF IInv, Types, TypeOK, Tokens
<1>2. file' \in Seq(Tokens) /\ Len(file') = Len(file) + Len(p) /\ Len(p) \in Nat
      /\ \A i \in 1..Len(file) : file'[i] = file[i]
  BY <1>1, Extension
<1>3. \A i \in 1..synced : file'[i] = file[i]
  BY <1>1, <1>2
<1>4. synced' \in Nat /\ synced <= synced' /\ synced' <= Len(file')
  BY <1>1, <1>2
<1> QED
  BY <1>2, <1>3, <1>4, DurableKept

(* What is pending or terminated stays so when the file grows.             *)
LEMMA GrowsKeepsPlaces ==
    ASSUME Types, NEW p \in Seq(Tokens), file' = file \o p, UNCHANGED side
    PROVE  /\ Terminated => Terminated'
           /\ \A w \in Workers, t \in Threads :
                worker'[w].io[t] = worker[w].io[t] /\ Placed(w, t) => Placed(w, t)'
<1>1. file \in Seq(Tokens) /\ Len(file) \in Nat /\ side \in Sides
  BY DEF Types, TypeOK, Tokens
<1>2. Len(file') = Len(file) + Len(p) /\ Len(p) \in Nat
      /\ \A i \in 1..Len(file) : file'[i] = file[i]
  BY <1>1, Extension
<1>3. Terminated => Terminated'
  <2> SUFFICES ASSUME Terminated, side.st = "present" PROVE Terminated'
    BY DEF Terminated
  <2>1. Ends(side) \in 1..Len(file)
    BY <1>1 DEF Ends, Sides, NoSidecar, Malformed, Terminated
  <2> QED
    BY <1>1, <1>2, <2>1 DEF Terminated
<1>4. ASSUME NEW w \in Workers, NEW t \in Threads, worker'[w].io[t] = worker[w].io[t],
             Placed(w, t), worker[w].io[t].st = "sync", TokenOf(w, t) \in Records
      PROVE  Placed(w, t)'
  <2>1. PICK i \in 1..(Len(file) - 1) :
            file[i] = TokenOf(w, t) /\ file[i + 1] = Newline /\ Past(i)
    BY <1>4 DEF Placed
  <2>2. i \in 1..(Len(file') - 1) /\ file'[i] = file[i] /\ file'[i + 1] = file[i + 1]
    BY <1>1, <1>2
  <2> QED
    BY <1>4, <2>1, <2>2 DEF Placed, TokenOf, Past
<1>5. ASSUME NEW w \in Workers, NEW t \in Threads, worker'[w].io[t] = worker[w].io[t],
             Placed(w, t), ~(worker[w].io[t].st = "sync" /\ TokenOf(w, t) \in Records)
      PROVE  Placed(w, t)'
  BY <1>5 DEF Placed, TokenOf
<1> QED
  BY <1>3, <1>4, <1>5

LEMMA PendingFacts ==
    ASSUME IInv, NEW w \in Workers, NEW t \in Threads, Pends(w, t)
    PROVE  /\ Up(w) /\ TokenOf(w, t) \in Records \union {Newline}
           /\ t = "turn" => Serving(w) /\ TokenOf(w, t) \in Records
           /\ worker[w].pc # "torn"
           /\ worker[w].pc = "newline" => t = "main" /\ TokenOf(w, t) = Newline
           /\ worker[w].pc \in {"promote", "serving"} => TokenOf(w, t) \in Records
<1>1. WorkerInv(w) /\ t \in {"main", "turn"} /\ worker[w] \in Procs
  BY ProcTypes DEF IInv, Threads
<1>2. Up(w)
  BY <1>1, DownType DEF WorkerInv, MainInv, Pends
<1> QED
  BY <1>1, <1>2 DEF WorkerInv, MainInv, TurnInv, Begins, Serving, Up, Procs

LEMMA WriteKeeps ==
    ASSUME IInv, LedgerAssumption, NEW w \in Workers, NEW t \in Threads, write(w, t)
    PROVE  IInv'
<1> DEFINE token == TokenOf(w, t)
           p == Payload(w, token)
<1>0. Types /\ file \in Seq(Tokens) /\ Len(file) \in Nat /\ worker[w] \in Procs /\ WorkerInv(w)
  BY ProcTypes DEF IInv, Types, TypeOK, Tokens
<1>1. Pends(w, t) /\ Up(w) /\ worker[w].io[t].st = "write"
  BY PendingFacts DEF write, Pends, NoIO
<1>2. p \in Seq(Tokens) /\ file' = file \o p
  BY <1>0, <1>1, PendingFacts, PayloadType DEF write, TokenOf
<1>3. /\ worker' \in [Workers -> Procs]
      /\ \A v \in Workers \ {w} : worker'[v] = worker[v]
      /\ worker'[w].pc = worker[w].pc /\ worker'[w].mem = worker[w].mem
      /\ worker'[w].turn = worker[w].turn
      /\ worker'[w].io[t] = [st |-> "sync", token |-> token]
      /\ \A u \in Threads \ {t} : worker'[w].io[u] = worker[w].io[u]
      /\ UNCHANGED <<synced, side, lock, runs>>
  <2>1. worker[w].io[t] \in [st : {"write", "sync"}, token : Records \union {Newline}]
    BY <1>0, <1>1 DEF Procs, IOs, NoIO
  <2>2. worker' = [worker EXCEPT ![w].io[t].st = "sync"]
    BY DEF write
  <2> DEFINE done == [worker[w].io[t] EXCEPT !.st = "sync"]
             io == [worker[w].io EXCEPT ![t] = done]
             after == [worker[w] EXCEPT !.io = io]
  <2>3. done = [st |-> "sync", token |-> token] /\ done \in IOs
    BY <2>1 DEF TokenOf, IOs
  <2>4. worker' = [worker EXCEPT ![w] = after]
    BY <2>2
  <2> HIDE DEF done
  <2>5. io \in [Threads -> IOs] /\ io[t] = done
        /\ \A u \in Threads \ {t} : io[u] = worker[w].io[u]
    BY <1>0, <2>3 DEF Procs
  <2> HIDE DEF io
  <2>6. /\ after \in Procs /\ after.io = io /\ after.pc = worker[w].pc
        /\ after.mem = worker[w].mem /\ after.turn = worker[w].turn
    BY <1>0, <2>5 DEF Procs
  <2> HIDE DEF after
  <2>7. UNCHANGED <<synced, side, lock, runs>>
    BY DEF write
  <2> QED
    BY <1>0, <2>3, <2>4, <2>5, <2>6, <2>7, ProcTypes
<1>4. /\ file' \in Seq(Tokens) /\ Len(file') = Len(file) + Len(p) /\ Len(p) \in Nat
      /\ \A i \in 1..Len(p) : file'[Len(file) + i] = p[i]
  BY <1>0, <1>2, Extension
<1>5. Types'
  <2>1. synced' \in 0..Len(file')
    BY <1>0, <1>3, <1>4 DEF Types, TypeOK
  <2> QED
    BY <1>0, <1>3, <1>4, <2>1, ProcTypes DEF write, Types, TypeOK, backend, faults, Tokens
<1>6. Placed(w, t)'
  <2> SUFFICES ASSUME token \in Records
               PROVE  \E i \in 1..(Len(file') - 1) :
                         file'[i] = token /\ file'[i + 1] = Newline /\ Past(i)'
    BY <1>3 DEF Placed, TokenOf
  <2>1. Terminated /\ token # Newline
    BY <1>0, <1>1, PendingFacts, TokenFacts DEF WorkerInv, SideInv, Up, Procs
  <2>2. \A i \in Nat : i > Len(file) => Past(i)'
    BY <1>0, <1>3, <2>1 DEF Past, Terminated, Types, Sides, Ends, NoSidecar, Malformed
  <2>3. CASE p = <<token, Newline>>
    <3>1. Len(p) = 2 /\ p[1] = token /\ p[2] = Newline
      BY <2>3
    <3>2. file'[Len(file) + 1] = token /\ file'[Len(file) + 2] = Newline
          /\ Len(file) + 1 \in 1..(Len(file') - 1) /\ Len(file) + 1 > Len(file)
          /\ (Len(file) + 1) + 1 = Len(file) + 2
      BY <1>0, <1>4, <3>1
    <3> QED
      BY <1>0, <2>2, <3>2
  <2>4. CASE p = <<Newline, token, Newline>>
    <3>1. Len(p) = 3 /\ p[2] = token /\ p[3] = Newline
      BY <2>4
    <3>2. file'[Len(file) + 2] = token /\ file'[Len(file) + 3] = Newline
          /\ Len(file) + 2 \in 1..(Len(file') - 1) /\ Len(file) + 2 > Len(file)
          /\ (Len(file) + 2) + 1 = Len(file) + 3
      BY <1>0, <1>4, <3>1
    <3> QED
      BY <1>0, <2>2, <3>2
  <2> QED
    BY <1>0, <2>1, <2>3, <2>4, PayloadType
<1>7. (Terminated => Terminated') /\ \A u \in Threads : Placed(w, u)'
  <2>1. \A u \in Threads \ {t} : worker'[w].io[u] = worker[w].io[u] /\ Placed(w, u)
    BY <1>0, <1>3 DEF WorkerInv
  <2>2. side' = side
    BY <1>3
  <2> QED
    BY <1>0, <1>2, <1>6, <2>1, <2>2, GrowsKeepsPlaces
<1>8. SideInv(w)'
  <2>1. CASE worker[w].pc \in {"promote", "serving"}
    BY <1>0, <1>3, <1>7, <2>1 DEF WorkerInv, SideInv
  <2>2. CASE worker[w].pc = "newline"
    <3>1. t = "main" /\ token = Newline /\ p = <<Newline>>
      BY <1>0, <1>1, <2>2, PendingFacts, PayloadType
    <3>2. side.st = "present" /\ Ends(side) = Len(file) + 1
      BY <1>0, <1>1, <2>2, <3>1 DEF WorkerInv, SideInv
    <3>3. Len(file') = Len(file) + 1 /\ file'[Len(file) + 1] = Newline
      BY <1>0, <1>4, <3>1
    <3>4. Terminated'
      BY <1>0, <1>3, <3>2, <3>3 DEF Terminated
    <3> QED
      BY <1>3, <2>2, <3>1, <3>2, <3>4 DEF SideInv
  <2>3. CASE worker[w].pc \in {"down", "torn"}
    BY <1>3, <2>3 DEF SideInv
  <2> QED
    BY <1>0, <2>1, <2>2, <2>3 DEF Procs
<1>9. WorkerInv(w)'
  <2>1. MainInv(w)'
    BY <1>0, <1>1, <1>3, PendingFacts DEF WorkerInv, MainInv, Begins, Serving, Up, Pends, TokenOf, NoIO, Threads
  <2>2. TurnInv(w)'
    BY <1>0, <1>1, <1>3, PendingFacts DEF WorkerInv, TurnInv, Serving, Pends, TokenOf, NoIO, Threads
  <2> QED
    BY <1>7, <1>8, <2>1, <2>2 DEF WorkerInv
<1>10. Exclusive' /\ (\A v \in Workers : WorkerInv(v)') /\ \A v \in Workers : Up(v)' => v = w
  <2>1. lock' = w /\ \A v \in Workers \ {w} : ~Up(v)
    BY <1>1, <1>3, OthersDown DEF IInv, Exclusive
  <2> QED
    BY <1>3, <1>9, <2>1, OneActs
<1>11. ASSUME NEW o \in Turns PROVE RunInv(o)'
  <2>1. Durable(o) => Durable(o)'
    <3>1. (\A v \in Workers : worker[v].pc \in {"down", "serving"}) =>
                \A v \in Workers : worker'[v].pc \in {"down", "serving"}
      BY <1>3
    <3> QED
      BY <1>2, <1>3, <3>1, GrowsKeepsDurable
  <2>2. \A v \in Workers : Begins(v)' => Begins(v) /\ TokenOf(v, "main") = TokenOf(v, "main")'
    BY <1>1, <1>3, <1>10 DEF Begins, Serving, Up, Pends, TokenOf, Threads, NoIO
  <2> QED
    BY <1>1, <1>3, <1>10, <2>1, <2>2, RunKept
<1> QED
  BY <1>5, <1>10, <1>11 DEF IInv

LEMMA SyncKeeps ==
    ASSUME IInv, LedgerAssumption, NEW w \in Workers, NEW t \in Threads, sync(w, t)
    PROVE  IInv'
<1> DEFINE token == TokenOf(w, t)
           isEntry == token # Newline
           starts == /\ t = "main" /\ Serving(w) /\ isEntry
                     /\ token.phase = "in_progress" /\ token.op \in Turns
<1>0. Types /\ file \in Seq(Tokens) /\ Len(file) \in Nat /\ worker[w] \in Procs /\ WorkerInv(w)
  BY ProcTypes DEF IInv, Types, TypeOK, Tokens
<1>1. Pends(w, t) /\ Up(w) /\ worker[w].io[t].st = "sync" /\ t \in {"main", "turn"}
  <2>1. worker[w].io[t].st = "sync" /\ Pends(w, t)
    BY DEF sync, Pends, NoIO
  <2>2. Up(w)
    BY <2>1, PendingFacts
  <2> QED
    BY <2>1, <2>2 DEF Threads
<1>2. \A v \in Workers \ {w} : ~Up(v)
  BY <1>1, OthersDown
<1>3. isEntry => token \in Records
  BY <1>1, PendingFacts
<1>4. starts <=> t = "main" /\ Begins(w)
  <2>1. CASE t = "main"
    <3>1. Serving(w) => token \in Records
      BY <1>0, <1>1, <2>1 DEF WorkerInv, MainInv, Serving
    <3>2. Serving(w) => isEntry
      BY <3>1, TokenFacts
    <3> QED
      BY <1>1, <2>1, <3>2 DEF Begins
  <2>2. CASE t # "main"
    BY <2>2
  <2> QED
    BY <2>1, <2>2
<1> DEFINE entry == [phase |-> token.phase, digest |-> token.digest]
           io == [worker[w].io EXCEPT ![t] = NoIO]
           mem == IF isEntry THEN [worker[w].mem EXCEPT ![token.op] = entry] ELSE worker[w].mem
           turn == IF starts
                   THEN [st |-> "running", op |-> token.op, outcome |-> "committed"]
                   ELSE IF t = "turn" THEN [worker[w].turn EXCEPT !.st = "reporting"]
                   ELSE worker[w].turn
<1>5. /\ worker' = [worker EXCEPT ![w] =
            [worker[w] EXCEPT !.io = io, !.needs_newline = FALSE, !.mem = mem,
                !.pc = IF worker[w].pc = "newline" THEN "promote" ELSE worker[w].pc,
                !.turn = turn]]
      /\ synced' = Len(file)
      /\ runs' = IF starts THEN [runs EXCEPT ![token.op] = @ + 1] ELSE runs
      /\ UNCHANGED <<file, side, lock, chan, told, harm, kills, losses, errors>>
      /\ call' = IF starts /\ call[token.op] = [st |-> "begun", on |-> w]
                 THEN [call EXCEPT ![token.op].st = "running"]
                 ELSE call
  BY DEF sync, TokenOf, faults
<1>6. io \in [Threads -> IOs] /\ io[t] = NoIO
      /\ \A u \in Threads \ {t} : io[u] = worker[w].io[u]
  BY <1>0 DEF Procs, IOs
<1>7. /\ mem \in [Ops -> Known]
      /\ \A op \in Ops : worker[w].mem[op] # Unknown => mem[op] # Unknown
      /\ isEntry => mem[token.op] # Unknown
  <2>1. isEntry => /\ token.op \in Ops /\ entry \in Known /\ entry.phase \in PHASES
    BY <1>3, TokenFacts DEF Known
  <2>2. entry.phase \in PHASES => entry # Unknown
    BY DEF Unknown, PHASES, OpenPhases, FinalPhases
  <2>3. worker[w].mem \in [Ops -> Known]
    BY <1>0 DEF Procs
  <2> HIDE DEF entry, isEntry, token
  <2> QED
    BY <2>1, <2>2, <2>3
<1>8. turn \in TurnStates
  <2>1. worker[w].turn \in TurnStates
    BY <1>0 DEF Procs
  <2>2. CASE starts
    BY <2>2 DEF TurnStates, FinalPhases
  <2>3. CASE ~starts /\ t = "turn"
    <3>1. worker[w].turn.st = "finishing"
      BY <1>0, <1>1, <2>3 DEF WorkerInv, TurnInv
    <3> QED
      BY <2>1, <2>3, <3>1 DEF TurnStates, NoTurn
  <2> QED
    BY <2>1, <2>2, <2>3
<1> HIDE DEF token, entry, io, mem, turn
<1>9. /\ worker' \in [Workers -> Procs]
      /\ \A v \in Workers \ {w} : worker'[v] = worker[v]
      /\ worker'[w].io = io /\ worker'[w].mem = mem /\ worker'[w].turn = turn
      /\ worker'[w].pc = IF worker[w].pc = "newline" THEN "promote" ELSE worker[w].pc
  <2> DEFINE after == [worker[w] EXCEPT !.io = io, !.needs_newline = FALSE, !.mem = mem,
                !.pc = IF worker[w].pc = "newline" THEN "promote" ELSE worker[w].pc,
                !.turn = turn]
  <2>1. /\ after \in Procs /\ after.io = io /\ after.mem = mem /\ after.turn = turn
        /\ after.pc = IF worker[w].pc = "newline" THEN "promote" ELSE worker[w].pc
    BY <1>0, <1>6, <1>7, <1>8 DEF Procs
  <2>2. worker' = [worker EXCEPT ![w] = after]
    BY <1>5
  <2> HIDE DEF after
  <2> QED
    BY <1>0, <2>1, <2>2, ProcTypes
<1>10. runs' \in [Turns -> Nat]
  BY <1>0, <1>5 DEF Types, TypeOK
<1>11. Types'
  <2>1. call' \in [Turns -> {NoCall, Returned} \union
            [st : {"begun", "running", "duplicate"}, on : Workers]]
    BY <1>0, <1>5 DEF Types, TypeOK
  <2>2. synced' \in 0..Len(file')
    BY <1>0, <1>5
  <2> QED
    BY <1>0, <1>5, <1>9, <1>10, <2>1, <2>2, ProcTypes DEF Types, TypeOK
<1>12. SideInv(w)'
  <2>1. CASE worker[w].pc = "newline"
    <3>1. t = "main"
      BY <1>1, <2>1, PendingFacts
    <3>2. Terminated'
      BY <1>0, <1>1, <1>5, <2>1, <3>1 DEF WorkerInv, SideInv, Terminated
    <3> QED
      BY <1>9, <2>1, <3>2 DEF SideInv
  <2>2. CASE worker[w].pc # "newline"
    BY <1>0, <1>5, <1>9, <2>2 DEF WorkerInv, SideInv, Terminated
  <2> QED
    BY <2>1, <2>2
<1>13. \A u \in Threads : Placed(w, u)'
  <2>1. Placed(w, t)'
    BY <1>6, <1>9 DEF Placed, NoIO
  <2>2. \A u \in Threads \ {t} : Placed(w, u)'
    BY <1>0, <1>5, <1>6, <1>9 DEF WorkerInv, Placed, TokenOf, Past
  <2> QED
    BY <2>1, <2>2
<1>14. Begins(w)' =>
          t = "turn" /\ Begins(w) /\ TokenOf(w, "main")' = TokenOf(w, "main")
  <2>1. t = "main" => ~(Pends(w, "main")')
    BY <1>6, <1>9 DEF Pends
  <2>2. t = "turn" => worker'[w].io["main"] = worker[w].io["main"]
    BY <1>6, <1>9 DEF Threads
  <2>3. t = "turn" => worker[w].pc = "serving"
    BY <1>0, <1>1 DEF WorkerInv, TurnInv, Serving
  <2> QED
    BY <1>1, <2>1, <2>2, <2>3 DEF Begins, Serving, Pends, TokenOf
<1>15. t = "turn" => ~Begins(w)
  BY <1>0, <1>1 DEF WorkerInv, MainInv, TurnInv, NoTurn
<1>16. MainInv(w)'
  <2>1. worker[w].pc \in {"torn", "newline"} => worker'[w].pc \in {"torn", "promote"}
        /\ (worker[w].pc = "torn" => worker'[w].pc = "torn")
    BY <1>9
  <2>2. worker[w].pc # "torn"
    BY <1>1, PendingFacts
  <2>3. worker'[w].pc \in {"promote", "serving"}
    BY <1>0, <1>1, <1>9, <2>2 DEF Procs, Up
  <2>4. Pends(w, "main")' => t = "turn" /\ Pends(w, "main") /\ Serving(w)
                             /\ TokenOf(w, "main")' = TokenOf(w, "main")
    BY <1>0, <1>1, <1>6, <1>9 DEF Pends, TokenOf, Threads, WorkerInv, TurnInv
  <2>5. Pends(w, "main")' => TokenOf(w, "main")' \in Records
    BY <1>0, <2>4 DEF WorkerInv, MainInv, Serving
  <2> QED
    BY <1>14, <1>15, <2>3, <2>5 DEF MainInv, Up
<1>17. TurnInv(w)'
  <2>1. CASE Pends(w, "turn") /\ t = "main"
    <3>1. ~starts /\ Serving(w)
      BY <1>0, <1>4, <2>1 DEF WorkerInv, TurnInv, MainInv, NoTurn
    <3>2. worker'[w].turn = worker[w].turn /\ worker'[w].io["turn"] = worker[w].io["turn"]
          /\ worker'[w].pc = worker[w].pc
      BY <1>6, <1>9, <2>1, <3>1 DEF turn, Threads, Serving
    <3> QED
      BY <1>0, <2>1, <3>2 DEF WorkerInv, TurnInv, Pends, TokenOf, Serving
  <2>2. CASE ~(Pends(w, "turn") /\ t = "main")
    BY <1>1, <1>6, <1>9, <2>2 DEF TurnInv, Pends, Threads
  <2> QED
    BY <2>1, <2>2
<1>18. WorkerInv(w)'
  BY <1>12, <1>13, <1>16, <1>17 DEF WorkerInv
<1>19. Exclusive' /\ (\A v \in Workers : WorkerInv(v)') /\ \A v \in Workers : Up(v)' => v = w
  <2>1. lock' = w
    BY <1>1, <1>5 DEF IInv, Exclusive
  <2> QED
    BY <1>2, <1>9, <1>18, <2>1, OneActs
<1>20. ASSUME NEW op \in Turns PROVE Durable(op) => Durable(op)'
  <2>1. synced \in Nat /\ synced <= Len(file)
    BY <1>0 DEF Types, TypeOK
  <2>2. (\A v \in Workers : worker[v].pc \in {"down", "serving"}) =>
            \A v \in Workers : worker'[v].pc \in {"down", "serving"}
    BY <1>9
  <2> QED
    BY <1>0, <1>5, <2>1, <2>2, DurableKept
<1>21. ASSUME NEW op \in Turns, ~(starts /\ token.op = op) PROVE RunInv(op)'
  <2>1. runs'[op] = runs[op] /\ RunInv(op) /\ runs[op] \in Nat /\ op \in Ops
    BY <1>0, <1>5, <1>21 DEF IInv, Types, TypeOK, Ops
  <2>2. worker[w].mem[op] # Unknown => worker'[w].mem[op] # Unknown
    BY <1>7, <1>9, <2>1
  <2>3. \A v \in Workers : ~(Begins(v)')
    BY <1>14, <1>15, <1>19 DEF Begins, Serving, Up
  <2> QED
    BY <1>1, <1>19, <1>20, <2>1, <2>2, <2>3 DEF RunInv
<1> HIDE DEF starts, isEntry
<1>22. ASSUME NEW op \in Turns, starts, token.op = op PROVE RunInv(op)'
  <2>1. op \in Ops /\ token \in Records /\ Begins(w) /\ t = "main" /\ Serving(w)
    BY <1>3, <1>4, <1>22 DEF Ops, starts
  <2>2. runs[op] = 0
    <3>1. RunInv(op) /\ TokenOf(w, "main").op = op
      BY <1>22, <2>1 DEF IInv, token
    <3> QED
      BY <2>1, <3>1 DEF RunInv
  <2>3. runs'[op] = 1
    BY <1>0, <1>5, <1>22, <2>1, <2>2 DEF Types, TypeOK
  <2>4. worker'[w].mem[op] # Unknown
    BY <1>7, <1>9, <1>22 DEF starts
  <2>5. \A v \in Workers : ~(Begins(v)')
    BY <1>14, <1>19, <2>1 DEF Begins, Serving, Up
  <2>6. Durable(op)'
    <3>1. PICK i \in 1..(Len(file) - 1) :
              file[i] = token /\ file[i + 1] = Newline /\ Past(i)
      BY <1>0, <1>1, <2>1 DEF WorkerInv, Placed, token
    <3>2. file[i].tok = "record" /\ file[i].op = op /\ file[i] # Newline
      BY <1>22, <2>1, <3>1, TokenFacts
    <3>3. file' = file /\ i \in 1..(synced' - 1) /\ i \in Nat
      BY <1>5, <3>1
    <3>4. CASE i > 1 => file[i - 1] = Newline
      <4>1. IsRecordLine(file, i)
        BY <1>0, <3>1, <3>2, <3>4 DEF IsRecordLine
      <4>2. IsRecordLine(file, i)'
        BY <3>3, <4>1
      <4> QED
        BY <3>1, <3>2, <3>3, <4>2 DEF Durable
    <3>5. CASE i > 1 /\ file[i - 1] # Newline
      <4>1. Terminated
        BY <1>0, <2>1 DEF WorkerInv, SideInv, Serving
      <4>2. side.st = "present" => Ends(side) \in Nat
        BY <1>0 DEF Types, Sides, Ends, NoSidecar, Malformed
      <4>3. Past(i - 1)
        BY <3>1, <3>3, <3>5, <4>1, <4>2 DEF Past, Terminated
      <4>4. \A v \in Workers : worker'[v].pc \in {"down", "serving"}
        BY <1>2, <1>9, <2>1 DEF Up, Serving
      <4>5. Buried(i)'
        BY <1>5, <3>5, <4>3, <4>4 DEF Buried, Past
      <4> QED
        BY <3>1, <3>2, <3>3, <4>5 DEF Durable
    <3> QED
      BY <3>4, <3>5
  <2> QED
    BY <1>19, <2>3, <2>4, <2>5, <2>6 DEF RunInv
<1>23. \A op \in Turns : RunInv(op)'
  BY <1>21, <1>22
<1> QED
  BY <1>11, <1>19, <1>23 DEF IInv

(* A step of the backend alone.                                            *)
LEMMA BackendKeeps ==
    ASSUME IInv, Types', UNCHANGED <<file, synced, side, lock, worker, runs>>
    PROVE  IInv'
<1>1. \A v \in Workers : WorkerInv(v)'
  BY WorkersKept
<1>2. Exclusive'
  BY DEF IInv, Exclusive, Up
<1>3. \A op \in Turns : RunInv(op)'
  BY DEF IInv, RunInv, Durable, Buried, Past, Up, Begins, Serving, Pends, TokenOf
<1> QED
  BY <1>1, <1>2, <1>3 DEF IInv

Calls == [Turns -> {NoCall, Returned} \union
            [st : {"begun", "running", "duplicate"}, on : Workers]]
Answers == [Turns -> SUBSET (FinalPhases \union {"uncertain"})]

(* What the backend knows may change to anything of its type.              *)
LEMMA BackendTypes ==
    ASSUME Types, UNCHANGED <<file, synced, side, lock, worker, runs, harm, kills, losses, errors>>,
           chan' \in Workers \union {Null}, call' \in Calls, told' \in Answers
    PROVE  Types'
  BY DEF Types, TypeOK, Calls, Answers

LEMMA AnswerTypes ==
    ASSUME Types, NEW op \in Turns, NEW outcomes \in SUBSET (FinalPhases \union {"uncertain"}),
           Answer(op, outcomes)
    PROVE  call' \in Calls /\ told' \in Answers
<1>1. call \in Calls /\ told \in Answers
  BY DEF Types, TypeOK, Calls, Answers
<1>2. call' \in Calls
  BY <1>1 DEF Answer, Calls
<1>3. told' \in Answers
  BY <1>1 DEF Answer, Answers
<1> QED
  BY <1>2, <1>3

LEMMA AnsweredKeeps ==
    ASSUME IInv, NEW op \in Turns, NEW outcomes \in SUBSET (FinalPhases \union {"uncertain"}),
           Answer(op, outcomes), UNCHANGED <<disk, lock, worker, chan, runs, harm, faults>>
    PROVE  IInv'
<1>1. Types /\ chan \in Workers \union {Null}
  BY DEF IInv, Types, TypeOK
<1>2. Types'
  BY <1>1, BackendTypes, AnswerTypes DEF disk, faults
<1> QED
  BY <1>2, BackendKeeps DEF disk

LEMMA BeginTimeoutKeeps ==
    ASSUME IInv, NEW op \in Turns, begin_timeout(op)
    PROVE  IInv'
  BY AnsweredKeeps DEF begin_timeout

LEMMA DuplicateResultKeeps ==
    ASSUME IInv, NEW w \in Workers, NEW op \in Turns, duplicate_result(w, op)
    PROVE  IInv'
<1>1. {"committed"} \in SUBSET (FinalPhases \union {"uncertain"})
      /\ {"uncertain"} \in SUBSET (FinalPhases \union {"uncertain"})
  BY DEF FinalPhases
<1> QED
  BY <1>1, AnsweredKeeps DEF duplicate_result

LEMMA TurnSilentKeeps ==
    ASSUME IInv, NEW w \in Workers, NEW op \in Turns, turn_silent(w, op)
    PROVE  IInv'
  BY AnsweredKeeps DEF turn_silent

LEMMA ChannelFailsKeeps ==
    ASSUME IInv, NEW op \in Turns, channel_fails(op)
    PROVE  IInv'
<1>1. {} \in SUBSET (FinalPhases \union {"uncertain"})
      /\ {"uncertain"} \in SUBSET (FinalPhases \union {"uncertain"})
  OBVIOUS
<1> QED
  BY <1>1, AnsweredKeeps DEF channel_fails

LEMMA DaemonDiesKeeps ==
    ASSUME IInv, LedgerAssumption, daemon_dies
    PROVE  IInv'
<1>1. Types
  BY DEF IInv
<1>2. kills' \in 0..MaxKills /\ losses' = losses /\ errors' = errors
  BY <1>1 DEF Types, TypeOK, daemon_dies, LedgerAssumption
<1>3. Types'
  BY <1>1, <1>2 DEF Types, TypeOK, daemon_dies, disk
<1> QED
  BY <1>3, BackendKeeps DEF daemon_dies, disk

(* Process w dies; its last write may have left a part of itself.          *)
LEMMA DeathKeeps ==
    ASSUME IInv, NEW w \in Workers, Up(w), worker' = [worker EXCEPT ![w] = Down],
           Types', runs' = runs,
           NEW p \in Seq(Tokens), file' = file \o p, synced' = synced,
           worker[w].pc = "serving" => side' = side
    PROVE  IInv'
<1>0. Types /\ file \in Seq(Tokens) /\ synced \in Nat /\ synced <= Len(file) /\ Len(file) \in Nat
  BY DEF IInv, Types, TypeOK, Tokens
<1>1. \A v \in Workers : worker'[v] = Down
  BY <1>0, OthersDown, ProcTypes
<1>2. \A v \in Workers : WorkerInv(v)' /\ ~(Up(v)')
  BY <1>1, DownIsIdle
<1>3. Exclusive'
  BY <1>2 DEF Exclusive
<1>4. ASSUME NEW op \in Turns PROVE RunInv(op)'
  <2>1. Durable(op) => Durable(op)'
    <3>1. file' \in Seq(Tokens) /\ Len(file') = Len(file) + Len(p) /\ Len(p) \in Nat
          /\ \A i \in 1..Len(file) : file'[i] = file[i]
      BY <1>0, Extension
    <3>2. \A i \in 1..synced : file'[i] = file[i]
      BY <1>0, <3>1
    <3>3. synced' \in Nat /\ synced <= synced' /\ synced' <= Len(file')
      BY <1>0, <3>1
    <3>4. (\A v \in Workers : worker[v].pc \in {"down", "serving"}) =>
            side' = side /\ \A v \in Workers : worker'[v].pc \in {"down", "serving"}
      BY <1>1, DownType DEF Up
    <3> QED
      BY <3>1, <3>2, <3>3, <3>4, DurableKept
  <2>2. \A v \in Workers : ~(Begins(v)')
    BY <1>2 DEF Begins, Serving, Up
  <2> QED
    BY <1>2, <2>1, <2>2, RunKept
<1> QED
  BY <1>2, <1>3, <1>4 DEF IInv

(* The types a death keeps.                                                *)
LEMMA ExitTypes ==
    ASSUME Types, NEW w \in Workers, Exit(w)
    PROVE  /\ worker' \in [Workers -> Procs] /\ lock' \in Workers \union {Null}
           /\ worker' = [worker EXCEPT ![w] = Down]
<1>1. worker \in [Workers -> Procs] /\ lock \in Workers \union {Null}
  BY DEF Types, TypeOK
<1> QED
  BY <1>1, DownType DEF Exit

LEMMA OrphanExitsKeeps ==
    ASSUME IInv, NEW w \in Workers, orphan_exits(w)
    PROVE  IInv'
<1>1. Types /\ file \in Seq(Tokens)
  BY DEF IInv, Types, TypeOK, Tokens
<1>2. Types'
  BY <1>1, ExitTypes, ProcTypes DEF orphan_exits, Types, TypeOK, disk, backend, faults
<1>3. file' = file \o <<>> /\ <<>> \in Seq(Tokens)
  BY <1>1 DEF orphan_exits, disk
<1> QED
  BY <1>1, <1>2, <1>3, ExitTypes, DeathKeeps DEF orphan_exits, disk, Serving, Up

LEMMA QuarantineFailsKeeps ==
    ASSUME IInv, LedgerAssumption, NEW w \in Workers, quarantine_fails(w)
    PROVE  IInv'
<1>1. Types /\ file \in Seq(Tokens) /\ WorkerInv(w) /\ worker[w].pc = "torn"
  BY DEF IInv, Types, TypeOK, Tokens, quarantine_fails
<1>2. Unterminated(file)
  BY <1>1 DEF WorkerInv, MainInv
<1>3. side' \in Sides
  <2>1. TornLine(file) \in Sides
    BY <1>1, <1>2, TornOffsetFacts DEF TornLine, Quarantine, Sides
  <2> QED
    BY <2>1 DEF quarantine_fails, Sides
<1>4. side'.st \in {"absent", "malformed", "present"}
  BY <1>3 DEF Sides, NoSidecar, Malformed
<1>5. errors' \in 0..MaxErrors
  BY <1>1 DEF Types, TypeOK, quarantine_fails, LedgerAssumption
<1>6. harm' \subseteq {"torn", "torn_again", "repair", "error"}
  BY <1>1 DEF Types, TypeOK, quarantine_fails
<1>7. Types'
  BY <1>1, <1>3, <1>4, <1>5, <1>6, ExitTypes, ProcTypes DEF quarantine_fails, Types, TypeOK
<1>8. file' = file \o <<>> /\ <<>> \in Seq(Tokens)
  BY <1>1 DEF quarantine_fails
<1> QED
  BY <1>1, <1>7, <1>8, ExitTypes, DeathKeeps DEF quarantine_fails, Up

LEMMA KillKeeps ==
    ASSUME IInv, LedgerAssumption, NEW w \in Workers, kill(w)
    PROVE  IInv'
<1>1. Types /\ file \in Seq(Tokens) /\ Up(w) /\ side \in Sides
  BY DEF IInv, Types, TypeOK, Tokens, kill, Up
<1>2. PICK p \in Seq(Tokens) : file' = file \o p
  <2>1. CASE file' = file
    <3>1. file' = file \o <<>> /\ <<>> \in Seq(Tokens)
      BY <1>1, <2>1
    <3> QED
      BY <3>1
  <2>2. CASE file' # file
    <3>1. PICK t \in Threads :
              /\ worker[w].io[t].st = "write"
              /\ \E p \in Interrupted(Payload(w, TokenOf(w, t))) : file' = file \o p
      BY <2>2 DEF kill, TokenOf
    <3>2. Pends(w, t)
      BY <3>1 DEF Pends, NoIO
    <3>3. Payload(w, TokenOf(w, t)) \in Seq(Tokens)
      BY <1>1, <3>2, PendingFacts, PayloadType
    <3> QED
      BY <3>1, <3>3, InterruptedType
  <2> QED
    BY <2>1, <2>2
<1>3. side' \in LeftSidecar(w)
  BY DEF kill
<1>4. side' \in Sides /\ side'.st \in {"absent", "malformed", "present"}
      /\ (worker[w].pc = "serving" => side' = side)
  BY <1>1, <1>3 DEF LeftSidecar, Sides, NoSidecar, Malformed
<1>5. kills' \in 0..MaxKills
  BY <1>1 DEF Types, TypeOK, kill, LedgerAssumption
<1>6. harm' \subseteq {"torn", "torn_again", "repair", "error"}
  <2>1. \A f : Torn(f) \subseteq {"torn", "torn_again"}
    BY DEF Torn
  <2> QED
    BY <1>1, <2>1 DEF Types, TypeOK, kill
<1>7. file' \in Seq(Tokens) /\ Len(file') = Len(file) + Len(p) /\ Len(p) \in Nat
  BY <1>1, <1>2, Extension
<1>8. synced' \in 0..Len(file')
  BY <1>1, <1>7 DEF Types, TypeOK, kill
<1>9. Types'
  BY <1>1, <1>4, <1>5, <1>6, <1>7, <1>8, ExitTypes, ProcTypes DEF kill, Types, TypeOK, Tokens, backend
<1> QED
  BY <1>1, <1>2, <1>4, <1>9, ExitTypes, DeathKeeps DEF kill

LEMMA PowerLossKeeps ==
    ASSUME IInv, LedgerAssumption, power_loss
    PROVE  IInv'
<1>1. Types /\ file \in Seq(Tokens) /\ side \in Sides /\ synced \in Nat /\ synced <= Len(file)
      /\ Len(file) \in Nat
  BY DEF IInv, Types, TypeOK, Tokens
<1>2. /\ file' \in Seq(Tokens) /\ synced <= Len(file')
      /\ \A i \in 1..synced : file'[i] = file[i]
  <2>1. PICK k \in synced..Len(file) :
          \/ file' = SubSeq(file, 1, k)
          \/ file' = Append(SubSeq(file, 1, k), Fragment)
    BY DEF power_loss
  <2>2. SubSeq(file, 1, k) \in Seq(Tokens) /\ Len(SubSeq(file, 1, k)) = k
        /\ \A i \in 1..k : SubSeq(file, 1, k)[i] = file[i]
    BY <1>1
  <2>3. CASE file' = SubSeq(file, 1, k)
    BY <1>1, <2>2, <2>3
  <2>4. CASE file' = Append(SubSeq(file, 1, k), Fragment)
    <3> DEFINE f == SubSeq(file, 1, k)
    <3> HIDE DEF f
    <3>1. f \in Seq(Tokens) /\ Len(f) = k /\ (\A i \in 1..k : f[i] = file[i])
          /\ file' = Append(f, Fragment)
      BY <2>2, <2>4 DEF f
    <3> QED
      BY <1>1, <3>1, TokenFacts
  <2> QED
    BY <2>1, <2>3, <2>4
<1>3. synced' = Len(file') /\ Len(file') \in Nat
  BY <1>2 DEF power_loss
<1>4. side' \in UNION {LeftSidecar(w) : w \in Workers}
  BY DEF power_loss
<1>5. PICK w \in Workers : side' \in LeftSidecar(w)
  BY <1>4
<1>6. side' \in Sides /\ side'.st \in {"absent", "malformed", "present"}
      /\ ((\A v \in Workers : worker[v].pc \in {"down", "serving"}) => side' = side)
  BY <1>1, <1>5 DEF LeftSidecar, Sides, NoSidecar, Malformed
<1>7. losses' \in 0..MaxPowerLosses
  BY <1>1 DEF Types, TypeOK, power_loss, LedgerAssumption
<1>8. harm' \subseteq {"torn", "torn_again", "repair", "error"}
  <2>1. Torn(file') \subseteq {"torn", "torn_again"}
    BY DEF Torn
  <2> QED
    BY <1>1, <2>1 DEF Types, TypeOK, power_loss
<1>9. worker' \in [Workers -> Procs] /\ (\A v \in Workers : worker'[v] = Down) /\ runs' = runs
  BY DownType DEF power_loss
<1>10. Types'
  <2>1. call' \in [Turns -> {NoCall, Returned} \union
            [st : {"begun", "running", "duplicate"}, on : Workers]]
        /\ lock' = Null /\ chan' = Null /\ told' = told /\ kills' = kills /\ errors' = errors
    BY DEF power_loss
  <2> QED
    BY <1>1, <1>2, <1>3, <1>6, <1>7, <1>8, <1>9, <2>1, ProcTypes DEF Types, TypeOK, Tokens
<1>11. \A v \in Workers : WorkerInv(v)' /\ ~(Up(v)')
  BY <1>9, DownIsIdle
<1>12. Exclusive'
  BY <1>11 DEF Exclusive
<1>13. ASSUME NEW op \in Turns PROVE RunInv(op)'
  <2>1. Durable(op) => Durable(op)'
    <3>1. \A v \in Workers : worker'[v].pc \in {"down", "serving"}
      BY <1>9, DownType
    <3> QED
      BY <1>1, <1>2, <1>3, <1>6, <3>1, DurableKept
  <2>2. \A v \in Workers : ~(Begins(v)')
    BY <1>11 DEF Begins, Serving, Up
  <2> QED
    BY <1>9, <1>11, <2>1, <2>2, RunKept
<1> QED
  BY <1>10, <1>11, <1>12, <1>13 DEF IInv

(* The request loop of w starts the append of a record.                    *)
LEMMA RequestKeeps ==
    ASSUME IInv, NEW w \in Workers, Serving(w), ~Pends(w, "main"),
           NEW token \in Records, Pending(w, "main", token),
           UNCHANGED <<file, synced, side, lock, runs, harm, kills, losses, errors>>,
           chan' = chan, told' = told, call' \in Calls,
           token.op \in Turns /\ token.phase = "in_progress" =>
                worker[w].turn = NoTurn /\ worker[w].mem[token.op] = Unknown
    PROVE  IInv'
<1>0. Types /\ file \in Seq(Tokens) /\ worker[w] \in Procs /\ WorkerInv(w) /\ Up(w)
  BY ProcTypes DEF IInv, Types, TypeOK, Tokens, Up, Serving
<1>1. /\ worker' \in [Workers -> Procs]
      /\ \A v \in Workers \ {w} : worker'[v] = worker[v]
      /\ worker'[w].pc = "serving" /\ worker'[w].mem = worker[w].mem
      /\ worker'[w].turn = worker[w].turn
      /\ worker'[w].io["main"] = [st |-> "write", token |-> token]
      /\ worker'[w].io["turn"] = worker[w].io["turn"]
  <2>1. worker' = [worker EXCEPT ![w].io["main"] = [st |-> "write", token |-> token]]
    BY DEF Pending
  <2> QED
    BY <1>0, <2>1, ProcTypes DEF Procs, Threads, IOs, Serving
<1>2. Types'
  BY <1>0, <1>1, ProcTypes DEF Types, TypeOK, Calls
<1>3. MainInv(w)'
  BY <1>0, <1>1 DEF MainInv, Begins, Up, Pends, TokenOf, Serving, NoIO
<1>4. TurnInv(w)'
  BY <1>0, <1>1 DEF WorkerInv, TurnInv, Pends, TokenOf, Serving
<1>5. SideInv(w)'
  <2>1. Terminated'
    BY <1>0 DEF WorkerInv, SideInv, Terminated, Serving
  <2> QED
    BY <1>1, <2>1 DEF SideInv
<1>6. ASSUME NEW t \in Threads PROVE Placed(w, t)'
  BY <1>0, <1>1 DEF WorkerInv, Placed, TokenOf, Past, Threads
<1>7. Exclusive' /\ (\A v \in Workers : WorkerInv(v)') /\ \A v \in Workers : Up(v)' => v = w
  <2>1. lock' = w /\ \A v \in Workers \ {w} : ~Up(v)
    BY <1>0, OthersDown DEF IInv, Exclusive
  <2>2. WorkerInv(w)'
    BY <1>3, <1>4, <1>5, <1>6 DEF WorkerInv
  <2> QED
    BY <1>1, <2>1, <2>2, OneActs
<1>8. ASSUME NEW o \in Turns PROVE RunInv(o)'
  <2>1. Durable(o) => Durable(o)'
    BY <1>1, <1>7 DEF Durable, Buried, Past, Up
  <2>2. ASSUME NEW v \in Workers, Begins(v)', TokenOf(v, "main")'.op = o
        PROVE  worker[v].mem[o] = Unknown /\ Up(v)
    <3>1. v = w
      BY <1>7, <2>2 DEF Begins, Serving, Up
    <3>2. token.phase = "in_progress" /\ token.op = o
      BY <1>1, <2>2, <3>1 DEF Begins, TokenOf
    <3> QED
      BY <1>0, <3>1, <3>2
  <2>3. \A v \in Workers : Up(v)' =>
            Up(v) /\ (worker[v].mem[o] # Unknown => worker'[v].mem[o] # Unknown)
    BY <1>0, <1>1, <1>7
  <2> QED
    BY <2>1, <2>2, <2>3, RunKept
<1> QED
  BY <1>2, <1>7, <1>8 DEF IInv

LEMMA BeginTurnKeeps ==
    ASSUME IInv, NEW w \in Workers, NEW op \in Turns, NEW digest \in Digests,
           begin_turn(w, op, digest)
    PROVE  IInv'
<1>0. Types /\ call \in Calls /\ chan \in Workers \union {Null} /\ told \in Answers
  BY DEF IInv, Types, TypeOK, Calls, Answers
<1>1. Serving(w) /\ ~Pends(w, "main")
      /\ UNCHANGED <<file, synced, side, lock, chan, told, runs, harm, kills, losses, errors>>
  BY DEF begin_turn, Reachable, Idle, Pends, disk, faults
<1>2. call' \in Calls
  BY <1>0 DEF begin_turn, Calls
<1>3. CASE UNCHANGED worker
  <2>1. Types'
    BY <1>0, <1>1, <1>2, <1>3, BackendTypes
  <2> QED
    BY <1>1, <1>3, <2>1, BackendKeeps
<1>4. CASE /\ worker[w].turn = NoTurn /\ worker[w].mem[op] = Unknown
           /\ Pending(w, "main", Record(op, "in_progress", digest))
  <2> DEFINE token == Record(op, "in_progress", digest)
  <2>1. token \in Records /\ token.op = op
    BY TokenFacts DEF Ops, PHASES, OpenPhases, Record
  <2> HIDE DEF token
  <2>2. token.op \in Turns /\ token.phase = "in_progress" =>
            worker[w].turn = NoTurn /\ worker[w].mem[token.op] = Unknown
    BY <1>4, <2>1
  <2>3. Pending(w, "main", token)
    BY <1>4 DEF token
  <2> QED
    BY <1>1, <1>2, <2>1, <2>2, <2>3, RequestKeeps
<1> QED
  BY <1>3, <1>4 DEF begin_turn

LEMMA OperationBeginKeeps ==
    ASSUME IInv, LedgerAssumption, NEW w \in Workers, NEW op \in ProbeIds, NEW digest \in Digests,
           operation_begin(w, op, digest)
    PROVE  IInv'
<1>1. Serving(w) /\ ~Pends(w, "main") /\ call' \in Calls
      /\ UNCHANGED <<file, synced, side, lock, chan, told, runs, harm, kills, losses, errors>>
  BY DEF operation_begin, Reachable, Idle, Pends, disk, backend, faults, IInv, Types, TypeOK, Calls
<1> DEFINE token == Record(op, "in_progress", digest)
<1>2. token \in Records /\ token.op = op
  BY TokenFacts DEF Ops, PHASES, OpenPhases, Record
<1>3. token.op \notin Turns
  BY <1>2 DEF LedgerAssumption
<1>4. Pending(w, "main", token)
  BY DEF operation_begin
<1> HIDE DEF token
<1> QED
  BY <1>1, <1>2, <1>3, <1>4, RequestKeeps

LEMMA OperationFinishKeeps ==
    ASSUME IInv, LedgerAssumption, NEW w \in Workers, NEW op \in ProbeIds,
           NEW outcome \in FinalPhases, operation_finish(w, op, outcome)
    PROVE  IInv'
<1>1. Serving(w) /\ ~Pends(w, "main") /\ call' \in Calls
      /\ UNCHANGED <<file, synced, side, lock, chan, told, runs, harm, kills, losses, errors>>
  BY DEF operation_finish, Reachable, Idle, Pends, disk, backend, faults, IInv, Types, TypeOK, Calls
<1>2. worker[w].mem[op].digest \in Digests
  <2>1. worker[w].mem[op] \in Known
    BY ProcTypes DEF IInv, Procs, Ops
  <2>2. worker[w].mem[op].phase \in OpenPhases
    BY DEF operation_finish
  <2> QED
    BY <2>1, <2>2 DEF Known, Unknown, OpenPhases
<1> DEFINE token == Record(op, outcome, worker[w].mem[op].digest)
<1>3. token \in Records /\ token.op = op
  BY <1>2, TokenFacts DEF Ops, PHASES, Record
<1>4. token.op \notin Turns
  BY <1>3 DEF LedgerAssumption
<1>5. Pending(w, "main", token)
  BY DEF operation_finish
<1> HIDE DEF token
<1> QED
  BY <1>1, <1>3, <1>4, <1>5, RequestKeeps

(* The turn thread of w moves: its append starts, or its turn changes.     *)
LEMMA TurnMoves ==
    ASSUME IInv, NEW w \in Workers, Serving(w), ~Pends(w, "turn"),
           NEW turn \in TurnStates, NEW io \in [Threads -> IOs],
           worker' = [worker EXCEPT ![w] = [worker[w] EXCEPT !.turn = turn, !.io = io]],
           io["main"] = worker[w].io["main"],
           io["turn"] # NoIO =>
                /\ io["turn"].st = "write" /\ io["turn"].token \in Records
                /\ turn.st = "finishing" /\ turn.op = io["turn"].token.op,
           Begins(w) => turn = NoTurn,
           UNCHANGED <<file, synced, side, lock, runs, harm, kills, losses, errors>>,
           chan' \in Workers \union {Null}, call' \in Calls, told' \in Answers
    PROVE  IInv'
<1>0. Types /\ file \in Seq(Tokens) /\ worker[w] \in Procs /\ WorkerInv(w) /\ Up(w)
  BY ProcTypes DEF IInv, Types, TypeOK, Tokens, Up, Serving
<1>1. /\ worker' \in [Workers -> Procs]
      /\ \A v \in Workers \ {w} : worker'[v] = worker[v]
      /\ worker'[w].pc = "serving" /\ worker'[w].mem = worker[w].mem
      /\ worker'[w].turn = turn /\ worker'[w].io = io
  <2> DEFINE after == [worker[w] EXCEPT !.turn = turn, !.io = io]
  <2>1. /\ after \in Procs /\ after.pc = "serving" /\ after.mem = worker[w].mem
        /\ after.turn = turn /\ after.io = io
    BY <1>0 DEF Procs, Serving
  <2>2. worker' = [worker EXCEPT ![w] = after]
    OBVIOUS
  <2> HIDE DEF after
  <2> QED
    BY <1>0, <2>1, <2>2, ProcTypes
<1>2. Types'
  BY <1>0, <1>1, ProcTypes DEF Types, TypeOK, Calls, Answers
<1>3. Begins(w)' => Begins(w) /\ TokenOf(w, "main")' = TokenOf(w, "main")
  BY <1>1 DEF Begins, Serving, Pends, TokenOf
<1>4. MainInv(w)'
  BY <1>0, <1>1, <1>3 DEF WorkerInv, MainInv, Up, Pends, TokenOf, Serving
<1>5. TurnInv(w)'
  BY <1>1 DEF TurnInv, Pends, TokenOf, Serving
<1>6. SideInv(w)'
  <2>1. Terminated'
    BY <1>0 DEF WorkerInv, SideInv, Terminated, Serving
  <2> QED
    BY <1>1, <2>1 DEF SideInv
<1>7. ASSUME NEW t \in Threads PROVE Placed(w, t)'
  <2>1. CASE t = "main"
    BY <1>0, <1>1, <2>1 DEF WorkerInv, Placed, TokenOf, Past, Threads
  <2>2. CASE t = "turn"
    BY <1>1, <2>2 DEF Placed, NoIO
  <2> QED
    BY <2>1, <2>2 DEF Threads
<1>8. Exclusive' /\ (\A v \in Workers : WorkerInv(v)') /\ \A v \in Workers : Up(v)' => v = w
  <2>1. lock' = w /\ \A v \in Workers \ {w} : ~Up(v)
    BY <1>0, OthersDown DEF IInv, Exclusive
  <2>2. WorkerInv(w)'
    BY <1>4, <1>5, <1>6, <1>7 DEF WorkerInv
  <2> QED
    BY <1>1, <2>1, <2>2, OneActs
<1>9. ASSUME NEW o \in Turns PROVE RunInv(o)'
  <2>1. Durable(o) => Durable(o)'
    BY <1>1, <1>8 DEF Durable, Buried, Past, Up
  <2>2. ASSUME NEW v \in Workers, Begins(v)'
        PROVE  Begins(v) /\ TokenOf(v, "main") = TokenOf(v, "main")'
    BY <1>3, <1>8, <2>2 DEF Begins, Serving, Up
  <2>3. \A v \in Workers : Up(v)' =>
            Up(v) /\ (worker[v].mem[o] # Unknown => worker'[v].mem[o] # Unknown)
    BY <1>0, <1>1, <1>8
  <2> QED
    BY <2>1, <2>2, <2>3, RunKept
<1> QED
  BY <1>2, <1>8, <1>9 DEF IInv

LEMMA TurnEndsKeeps ==
    ASSUME IInv, NEW w \in Workers, NEW outcome \in FinalPhases, turn_ends(w, outcome)
    PROVE  IInv'
<1>0. Types /\ worker[w] \in Procs /\ WorkerInv(w) /\ Serving(w)
      /\ worker[w].turn.st = "running" /\ chan \in Workers \union {Null}
      /\ call \in Calls /\ told \in Answers
  BY ProcTypes DEF IInv, Types, TypeOK, Calls, Answers, turn_ends
<1> DEFINE turn == worker[w].turn
           entry == worker[w].mem[turn.op]
           finishable == entry.phase \in OpenPhases
           token == Record(turn.op, outcome, entry.digest)
           after == [turn EXCEPT !.st = IF finishable THEN "finishing" ELSE "reporting",
                                 !.outcome = outcome]
           io == [worker[w].io EXCEPT !["turn"] =
                    IF finishable THEN [st |-> "write", token |-> token]
                    ELSE worker[w].io["turn"]]
<1>1. turn \in [st : {"running", "finishing", "reporting"}, op : Turns, outcome : FinalPhases]
      /\ entry \in Known
  BY <1>0 DEF Procs, TurnStates, NoTurn, Ops
<1>2. finishable => token \in Records /\ token.op = turn.op
  <2>1. finishable => entry.digest \in Digests
    BY <1>1 DEF Known, Unknown, OpenPhases
  <2>2. turn.op \in Ops /\ outcome \in PHASES
    BY <1>1 DEF Ops, PHASES
  <2> HIDE DEF turn, entry
  <2> QED
    BY <2>1, <2>2, TokenFacts DEF Record
<1>3. after \in TurnStates /\ after.op = turn.op
      /\ after.st = IF finishable THEN "finishing" ELSE "reporting"
  <2> HIDE DEF turn, entry
  <2> QED
    BY <1>1 DEF TurnStates
<1>4. ~Pends(w, "turn") /\ ~Begins(w)
  BY <1>0 DEF WorkerInv, TurnInv, MainInv, NoTurn
<1>5. /\ io \in [Threads -> IOs] /\ io["main"] = worker[w].io["main"]
      /\ io["turn"] = IF finishable THEN [st |-> "write", token |-> token]
                      ELSE worker[w].io["turn"]
  <2> HIDE DEF token, finishable
  <2> QED
    BY <1>0, <1>2 DEF Procs, Threads, IOs
<1>6. worker' = [worker EXCEPT ![w] = [worker[w] EXCEPT !.turn = after, !.io = io]]
  BY DEF turn_ends
<1>7. /\ UNCHANGED <<file, synced, side, lock, runs, harm, kills, losses, errors>>
      /\ chan' \in Workers \union {Null} /\ call' \in Calls /\ told' \in Answers
  BY <1>0 DEF turn_ends, disk, backend, faults
<1> HIDE DEF turn, entry, finishable, token, after, io
<1>8. io["turn"] # NoIO =>
        /\ io["turn"].st = "write" /\ io["turn"].token \in Records
        /\ after.st = "finishing" /\ after.op = io["turn"].token.op
  BY <1>2, <1>3, <1>4, <1>5 DEF Pends
<1> QED
  BY <1>0, <1>3, <1>4, <1>5, <1>6, <1>7, <1>8, TurnMoves

LEMMA ReportKeeps ==
    ASSUME IInv, NEW w \in Workers, report(w)
    PROVE  IInv'
<1>0. Types /\ worker[w] \in Procs /\ WorkerInv(w) /\ Serving(w)
      /\ worker[w].turn.st = "reporting" /\ chan \in Workers \union {Null}
      /\ call \in Calls /\ told \in Answers
  BY ProcTypes DEF IInv, Types, TypeOK, Calls, Answers, report
<1>1. ~Pends(w, "turn") /\ ~Begins(w) /\ worker[w].io["turn"] = NoIO
  BY <1>0 DEF WorkerInv, TurnInv, MainInv, NoTurn, Pends
<1>2. worker' = [worker EXCEPT ![w] =
            [worker[w] EXCEPT !.turn = NoTurn, !.io = worker[w].io]]
  BY <1>0 DEF report, Procs
<1>3. NoTurn \in TurnStates /\ worker[w].io \in [Threads -> IOs]
  BY <1>0 DEF TurnStates, Procs
<1>4. call' \in Calls /\ told' \in Answers
  <2> DEFINE turn == worker[w].turn
  <2>1. turn.op \in Turns /\ {turn.outcome} \in SUBSET (FinalPhases \union {"uncertain"})
    BY <1>0 DEF Procs, TurnStates, NoTurn
  <2>2. CASE Answer(turn.op, {turn.outcome})
    <3> HIDE DEF turn
    <3> QED
      BY <1>0, <2>1, <2>2, AnswerTypes
  <2>3. CASE UNCHANGED <<call, told>>
    BY <1>0, <2>3
  <2> QED
    BY <2>2, <2>3 DEF report
<1>5. /\ UNCHANGED <<file, synced, side, lock, runs, harm, kills, losses, errors>>
      /\ chan' = chan
  BY DEF report, disk, faults
<1> QED
  BY <1>0, <1>1, <1>2, <1>3, <1>4, <1>5, TurnMoves

(* An append fails in a process that goes on serving.                      *)
LEMMA AppendFailsServing ==
    ASSUME IInv, LedgerAssumption, NEW w \in Workers, NEW t \in Threads,
           append_fails(w, t), Serving(w)
    PROVE  IInv'
<1>0. Types /\ file \in Seq(Tokens) /\ worker[w] \in Procs /\ WorkerInv(w) /\ Up(w)
      /\ call \in Calls
  BY ProcTypes DEF IInv, Types, TypeOK, Tokens, Up, Serving, Calls
<1>1. Pends(w, t) /\ worker[w].io[t].st = "write"
  BY DEF append_fails, Pends, NoIO
<1>2. PICK p \in Seq(Tokens) : file' = file \o p
  <2>1. Payload(w, TokenOf(w, t)) \in Seq(Tokens)
    BY <1>0, <1>1, PendingFacts, PayloadType
  <2>2. PICK p \in Interrupted(Payload(w, TokenOf(w, t))) \union {Payload(w, TokenOf(w, t))} :
            file' = file \o p
    BY DEF append_fails, TokenOf
  <2> QED
    BY <2>1, <2>2, InterruptedType
<1>3. file' \in Seq(Tokens) /\ Len(file') = Len(file) + Len(p) /\ Len(p) \in Nat
      /\ Len(file) \in Nat
  BY <1>0, <1>2, Extension
<1> DEFINE io == [worker[w].io EXCEPT ![t] = NoIO]
           turn == IF t = "turn" THEN [worker[w].turn EXCEPT !.st = "reporting"]
                   ELSE worker[w].turn
<1>4. io \in [Threads -> IOs] /\ io[t] = NoIO
      /\ \A u \in Threads \ {t} : io[u] = worker[w].io[u]
  BY <1>0 DEF Procs, IOs
<1>5. turn \in TurnStates
  <2>1. worker[w].turn \in TurnStates
    BY <1>0 DEF Procs
  <2>2. t = "turn" => worker[w].turn.st = "finishing"
    BY <1>0, <1>1 DEF WorkerInv, TurnInv
  <2> QED
    BY <2>1, <2>2 DEF TurnStates, NoTurn
<1>6. worker' = [worker EXCEPT ![w] = [worker[w] EXCEPT !.io = io, !.turn = turn]]
  BY DEF append_fails
<1>7. UNCHANGED <<synced, side, lock, chan, runs, told, kills, losses>>
  BY DEF append_fails
<1> HIDE DEF io
<1>8. /\ worker' \in [Workers -> Procs]
      /\ \A v \in Workers \ {w} : worker'[v] = worker[v]
      /\ worker'[w].pc = "serving" /\ worker'[w].mem = worker[w].mem
      /\ worker'[w].turn = turn /\ worker'[w].io = io
  <2> HIDE DEF turn
  <2> DEFINE after == [worker[w] EXCEPT !.io = io, !.turn = turn]
  <2>1. /\ after \in Procs /\ after.pc = "serving" /\ after.mem = worker[w].mem
        /\ after.turn = turn /\ after.io = io
    BY <1>0, <1>4, <1>5 DEF Procs, Serving
  <2>2. worker' = [worker EXCEPT ![w] = after]
    BY <1>6
  <2> HIDE DEF after
  <2> QED
    BY <1>0, <2>1, <2>2, ProcTypes
<1>9. call' \in Calls
  BY <1>0 DEF append_fails, Calls
<1>10. errors' \in 0..MaxErrors /\ harm' \subseteq {"torn", "torn_again", "repair", "error"}
  BY <1>0 DEF Types, TypeOK, append_fails, LedgerAssumption
<1>11. Types'
  <2>1. synced' \in 0..Len(file')
    BY <1>0, <1>3, <1>7 DEF Types, TypeOK
  <2> QED
    BY <1>0, <1>3, <1>7, <1>8, <1>9, <1>10, <2>1, ProcTypes DEF Types, TypeOK, Tokens, Calls
<1>12. Begins(w)' => Begins(w) /\ t = "turn" /\ TokenOf(w, "main")' = TokenOf(w, "main")
  <2>1. t = "main" => ~(Pends(w, "main")')
    BY <1>4, <1>8 DEF Pends
  <2>2. t = "turn" => worker'[w].io["main"] = worker[w].io["main"]
    BY <1>4, <1>8 DEF Threads
  <2> QED
    BY <1>8, <2>1, <2>2 DEF Begins, Serving, Pends, TokenOf, Threads
<1>13. t = "turn" => ~Begins(w)
  BY <1>0, <1>1 DEF WorkerInv, MainInv, TurnInv, NoTurn
<1>14. MainInv(w)'
  <2>1. Pends(w, "main")' => Pends(w, "main") /\ TokenOf(w, "main")' = TokenOf(w, "main")
    BY <1>4, <1>8 DEF Pends, TokenOf, Threads
  <2> QED
    BY <1>0, <1>8, <1>12, <1>13, <2>1 DEF WorkerInv, MainInv, Up, Serving
<1>15. TurnInv(w)'
  <2>1. CASE t = "main"
    BY <1>0, <1>4, <1>8, <2>1 DEF WorkerInv, TurnInv, Pends, TokenOf, Serving, Threads
  <2>2. CASE t = "turn"
    BY <1>4, <1>8, <2>2 DEF TurnInv, Pends
  <2> QED
    BY <2>1, <2>2 DEF Threads
<1>16. (Terminated => Terminated') /\ \A u \in Threads : Placed(w, u)'
  <2>1. \A u \in Threads \ {t} : worker'[w].io[u] = worker[w].io[u] /\ Placed(w, u)
    BY <1>0, <1>4, <1>8 DEF WorkerInv
  <2>2. Placed(w, t)'
    BY <1>4, <1>8 DEF Placed, NoIO
  <2> QED
    BY <1>0, <1>2, <1>7, <2>1, <2>2, GrowsKeepsPlaces
<1>17. SideInv(w)'
  BY <1>0, <1>8, <1>16 DEF WorkerInv, SideInv, Serving
<1>18. Exclusive' /\ (\A v \in Workers : WorkerInv(v)') /\ \A v \in Workers : Up(v)' => v = w
  <2>1. lock' = w /\ \A v \in Workers \ {w} : ~Up(v)
    BY <1>0, <1>7, OthersDown DEF IInv, Exclusive
  <2>2. WorkerInv(w)'
    BY <1>14, <1>15, <1>16, <1>17 DEF WorkerInv
  <2> QED
    BY <1>8, <2>1, <2>2, OneActs
<1>19. ASSUME NEW o \in Turns PROVE RunInv(o)'
  <2>1. Durable(o) => Durable(o)'
    <3>1. \A v \in Workers : worker[v].pc = "down" \/ v = w
      BY <1>0, OthersDown DEF Up
    <3>2. (\A v \in Workers : worker[v].pc \in {"down", "serving"}) =>
                \A v \in Workers : worker'[v].pc \in {"down", "serving"}
      BY <1>8
    <3> QED
      BY <1>2, <1>7, <3>2, GrowsKeepsDurable
  <2>2. \A v \in Workers : ~(Begins(v)')
    BY <1>12, <1>13, <1>18 DEF Begins, Serving, Up
  <2> QED
    BY <1>0, <1>7, <1>8, <1>18, <2>1, <2>2, RunKept
<1> QED
  BY <1>11, <1>18, <1>19 DEF IInv

LEMMA AppendFailsKeeps ==
    ASSUME IInv, LedgerAssumption, NEW w \in Workers, NEW t \in Threads, append_fails(w, t)
    PROVE  IInv'
<1>0. Types /\ file \in Seq(Tokens)
  BY DEF IInv, Types, TypeOK, Tokens
<1>1. Pends(w, t)
  BY DEF append_fails, Pends, NoIO
<1>2. PICK p \in Seq(Tokens) : file' = file \o p
  <2>1. Payload(w, TokenOf(w, t)) \in Seq(Tokens)
    BY <1>0, <1>1, PendingFacts, PayloadType
  <2>2. PICK p \in Interrupted(Payload(w, TokenOf(w, t))) \union {Payload(w, TokenOf(w, t))} :
            file' = file \o p
    BY DEF append_fails, TokenOf
  <2> QED
    BY <2>1, <2>2, InterruptedType
<1>3. file' \in Seq(Tokens) /\ Len(file') = Len(file) + Len(p) /\ Len(p) \in Nat
      /\ Len(file) \in Nat
  BY <1>0, <1>2, Extension
<1>4. CASE ~Serving(w)
  <2>1. Exit(w) /\ chan' = Null /\ call' = call
        /\ UNCHANGED <<synced, side, runs, told, kills, losses>>
    BY <1>4 DEF append_fails
  <2>2. errors' \in 0..MaxErrors /\ harm' \subseteq {"torn", "torn_again", "repair", "error"}
    BY <1>0 DEF Types, TypeOK, append_fails, LedgerAssumption
  <2>3. synced' \in 0..Len(file')
    BY <1>0, <1>3, <2>1 DEF Types, TypeOK
  <2>4. Types'
    BY <1>0, <1>3, <2>1, <2>2, <2>3, ExitTypes, ProcTypes DEF Types, TypeOK, Tokens
  <2>5. Up(w)
    BY <1>1, PendingFacts
  <2> QED
    BY <1>0, <1>2, <2>1, <2>4, <2>5, ExitTypes, DeathKeeps
<1> QED
  BY <1>4, AppendFailsServing
-----------------------------------------------------------------------------
(* The whole specification.                                                *)

LEMMA InitHolds ==
    ASSUME LedgerAssumption, Init
    PROVE  IInv
<1>1. worker \in [Workers -> Procs] /\ \A w \in Workers : worker[w] = Down
  BY DownType DEF Init
<1>2. /\ file = <<>> /\ synced = 0 /\ side = NoSidecar /\ lock = Null /\ chan = Null
      /\ call = [op \in Turns |-> NoCall] /\ told = [op \in Turns |-> {}]
      /\ runs = [op \in Turns |-> 0] /\ harm = {} /\ kills = 0 /\ losses = 0 /\ errors = 0
  BY DEF Init
<1>3. file \in Seq(Tokens) /\ synced \in 0..Len(file)
  BY <1>2
<1>4. kills \in 0..MaxKills /\ losses \in 0..MaxPowerLosses /\ errors \in 0..MaxErrors
  BY <1>2 DEF LedgerAssumption
<1>5. Types
  <2>1. worker \in [Workers ->
            [pc : {"down", "torn", "newline", "promote", "serving"},
             mem : [Ops -> Entries], needs_newline : BOOLEAN,
             io : [Threads -> IOs], turn : TurnStates]]
    <3>1. Known \subseteq Entries
      BY DEF Known, Entries, Unknown
    <3> QED
      BY <1>1, <3>1 DEF Procs
  <2>2. call \in [Turns -> {NoCall, Returned} \union
            [st : {"begun", "running", "duplicate"}, on : Workers]]
        /\ told \in [Turns -> SUBSET (FinalPhases \union {"uncertain"})]
        /\ runs \in [Turns -> Nat]
    BY <1>2
  <2> QED
    BY <1>1, <1>2, <1>3, <1>4, <2>1, <2>2 DEF Types, TypeOK, Sides, NoSidecar, Tokens
<1>6. \A w \in Workers : WorkerInv(w) /\ ~Up(w)
  BY <1>1, DownType DEF WorkerInv, MainInv, TurnInv, Begins, SideInv, Placed, Up, Pends, Serving,
     Down, NoIO, Threads
<1>7. \A op \in Turns : RunInv(op)
  BY <1>2, <1>6 DEF RunInv, Begins, Serving, Up
<1> QED
  BY <1>5, <1>6, <1>7 DEF IInv, Exclusive

LEMMA WorkerStepKeeps ==
    ASSUME IInv, LedgerAssumption, NEW w \in Workers, WorkerStep(w)
    PROVE  IInv'
<1>1. CASE open(w)
  BY <1>1, OpenKeeps
<1>2. CASE write_quarantine(w)
  BY <1>2, WriteQuarantineKeeps
<1>3. CASE quarantine_fails(w)
  BY <1>3, QuarantineFailsKeeps
<1>4. CASE promote(w)
  BY <1>4, PromoteKeeps
<1>5. CASE opened(w)
  BY <1>5, OpenedKeeps
<1>6. ASSUME NEW t \in Threads, write(w, t) \/ sync(w, t) \/ append_fails(w, t)
      PROVE  IInv'
  BY <1>6, WriteKeeps, SyncKeeps, AppendFailsKeeps
<1>7. ASSUME NEW outcome \in FinalPhases, turn_ends(w, outcome) PROVE IInv'
  BY <1>7, TurnEndsKeeps
<1>8. CASE report(w)
  BY <1>8, ReportKeeps
<1>9. CASE kill(w)
  BY <1>9, KillKeeps
<1>10. CASE orphan_exits(w)
  BY <1>10, OrphanExitsKeeps
<1> QED
  BY <1>1, <1>2, <1>3, <1>4, <1>5, <1>6, <1>7, <1>8, <1>9, <1>10 DEF WorkerStep

LEMMA BackendStepKeeps ==
    ASSUME IInv, LedgerAssumption, BackendStep
    PROVE  IInv'
<1>1. ASSUME NEW w \in Workers, NEW op \in Turns, NEW d \in Digests, begin_turn(w, op, d)
      PROVE  IInv'
  BY <1>1, BeginTurnKeeps
<1>2. ASSUME NEW w \in Workers, NEW op \in Turns, duplicate_result(w, op) \/ turn_silent(w, op)
      PROVE  IInv'
  BY <1>2, DuplicateResultKeeps, TurnSilentKeeps
<1>3. ASSUME NEW op \in Turns, begin_timeout(op) \/ channel_fails(op)
      PROVE  IInv'
  BY <1>3, BeginTimeoutKeeps, ChannelFailsKeeps
<1>4. ASSUME NEW w \in Workers, NEW op \in ProbeIds, NEW d \in Digests, operation_begin(w, op, d)
      PROVE  IInv'
  BY <1>4, OperationBeginKeeps
<1>5. ASSUME NEW w \in Workers, NEW op \in ProbeIds, NEW o \in FinalPhases,
             operation_finish(w, op, o)
      PROVE  IInv'
  BY <1>5, OperationFinishKeeps
<1>6. CASE daemon_dies
  BY <1>6, DaemonDiesKeeps
<1> QED
  BY <1>1, <1>2, <1>3, <1>4, <1>5, <1>6 DEF BackendStep

LEMMA Stuttering ==
    ASSUME IInv, UNCHANGED vars
    PROVE  IInv'
<1>1. Types'
  BY DEF IInv, Types, TypeOK, vars
<1> QED
  BY <1>1, BackendKeeps DEF vars

LEMMA AlwaysIInv ==
    ASSUME LedgerAssumption
    PROVE  Spec => []IInv
<1>1. Init => IInv
  BY InitHolds
<1>2. IInv /\ [Next]_vars => IInv'
  <2>1. ASSUME IInv, NEW w \in Workers, WorkerStep(w) PROVE IInv'
    BY <2>1, WorkerStepKeeps
  <2>2. ASSUME IInv, BackendStep PROVE IInv'
    BY <2>2, BackendStepKeeps
  <2>3. ASSUME IInv, power_loss PROVE IInv'
    BY <2>3, PowerLossKeeps
  <2>4. ASSUME IInv, UNCHANGED vars PROVE IInv'
    BY <2>4, Stuttering
  <2> QED
    BY <2>1, <2>2, <2>3, <2>4 DEF Next
<1> QED
  BY <1>1, <1>2, PTL DEF Spec

(* The file, its sidecar, the processes and the calls keep their shapes    *)
(* (ledger.py, serve.py, turn.py).                                         *)
THEOREM LedgerShapes ==
    ASSUME LedgerAssumption
    PROVE  Spec => []TypeOK
<1>1. IInv => TypeOK
  BY DEF IInv, Types
<1> QED
  BY <1>1, AlwaysIInv, PTL

(* The runner is started at most once for an operation id, however many    *)
(* processes die, appends tear, disks fail and daemons restart in between: *)
(* the record of its begin is durable before the runner starts, and no     *)
(* later open gets past the file without reading it (begin, open).         *)
THEOREM RunsOnce ==
    ASSUME LedgerAssumption
    PROVE  Spec => []RunOnce
<1>1. IInv => RunOnce
  <2>1. IInv => DOMAIN runs = Turns
    BY DEF IInv, Types, TypeOK
  <2> QED
    BY <2>1 DEF IInv, RunInv, RunOnce
<1> QED
  BY <1>1, AlwaysIInv, PTL

(* Two processes never have the ledger open at once: the one that holds    *)
(* the flock is the only one that is up (open, _acquire_lock).             *)
THEOREM OneProcessAtATime ==
    ASSUME LedgerAssumption
    PROVE  Spec => []Exclusive
<1>1. IInv => Exclusive
  BY DEF IInv
<1> QED
  BY <1>1, AlwaysIInv, PTL

-----------------------------------------------------------------------------
(* What holds of the ledger until an append fails.                         *)

(* Lines and their newlines alternate: every line holds one token.         *)
Tidy(f) == \A i \in 1..Len(f) : f[i] = Newline <=> i > 1 /\ f[i - 1] # Newline

(* What token says of its operation.                                       *)
Entry(token) == [phase |-> token.phase, digest |-> token.digest]

Writes(w, t) == worker[w].io[t].st = "write" /\ TokenOf(w, t) \in Records
Syncs(w, t) == worker[w].io[t].st = "sync" /\ TokenOf(w, t) \in Records

(* An open process knows where the file's last line stands.                *)
LineInv(w) ==
    /\ worker[w].pc = "torn" => IsTorn(file)
    /\ worker[w].pc = "newline" /\ worker[w].io["main"].st = "write" => Unterminated(file)
    /\ worker[w].pc = "newline" /\ worker[w].io["main"].st = "sync" => ~Unterminated(file)
    /\ worker[w].pc \in {"promote", "serving"} =>
        /\ ~IsTorn(file)
        /\ worker[w].io["main"].st = "sync" => ~Unterminated(file)
        /\ worker[w].io["main"].st # "sync" =>
                (worker[w].needs_newline <=> Unterminated(file))
        /\ worker[w].turn # NoTurn => ~worker[w].needs_newline

(* Memory is what a replay yields, but for the records being synced, and   *)
(* every record on its way may follow what memory holds.                   *)
SeenInv(w) ==
    Up(w) =>
        /\ \A op \in Ops :
            (\A t \in Threads : Syncs(w, t) => TokenOf(w, t).op # op) =>
                worker[w].mem[op] = replay(file, op)
        /\ \A t \in Threads :
            /\ Writes(w, t) \/ Syncs(w, t) =>
                Entry(TokenOf(w, t)) \in Log!Successors(worker[w].mem[TokenOf(w, t).op])
            /\ Syncs(w, t) => replay(file, TokenOf(w, t).op) = Entry(TokenOf(w, t))

(* The turn of a serving process and the record of its operation.          *)
LiveInv(w) ==
    /\ Up(w) /\ ~Serving(w) => worker[w].turn = NoTurn
    /\ Serving(w) /\ Pends(w, "main") => TokenOf(w, "main").op \in ProbeIds \/ Begins(w)
    /\ Serving(w) /\ worker[w].turn # NoTurn =>
        /\ worker[w].turn.st # "reporting" =>
            worker[w].mem[worker[w].turn.op].phase = "in_progress"
        /\ worker[w].turn.st = "finishing" =>
            Pends(w, "turn") /\ TokenOf(w, "turn").phase = worker[w].turn.outcome
        /\ worker[w].turn.st = "reporting" =>
            worker[w].mem[worker[w].turn.op].phase = worker[w].turn.outcome
    /\ \A op \in Turns :
        Serving(w) /\ worker[w].mem[op].phase = "in_progress" =>
            worker[w].turn # NoTurn /\ worker[w].turn.op = op

(* The only fragment of the file is the quarantined line or the last line. *)
RepairInv ==
    harm \cap {"torn_again", "repair", "error"} = {} =>
        /\ side.st # "malformed"
        /\ \A i \in 1..Len(file) : file[i] = Fragment => "torn" \in harm
        /\ side.st = "absent" => \A i \in 1..Len(file) : file[i] = Fragment => i = Len(file)
        /\ side.st = "present" =>
            /\ "torn" \in harm
            /\ side.fragment = <<Fragment>>
            /\ side.offset \in 1..Len(file) /\ file[side.offset] = Fragment
            /\ \A i \in 1..Len(file) : file[i] = Fragment => i = side.offset
            /\ Ends(side) <= synced \/ \E w \in Workers : InRepair(w)

Calm ==
    /\ "error" \in harm <=> errors > 0
    /\ errors = 0 =>
        /\ Tidy(file)
        /\ \A w \in Workers : LineInv(w) /\ SeenInv(w) /\ LiveInv(w)
        /\ RepairInv
        /\ ReportedIsRecorded
-----------------------------------------------------------------------------
(* Tidy files, and what replaying them yields.                             *)

LEMMA TidyLines ==
    ASSUME NEW f \in Seq(Tokens), Tidy(f), NEW i \in 1..Len(f)
    PROVE  IsRecordLine(f, i) <=> f[i].tok = "record"
<1>1. ASSUME f[i].tok = "record" PROVE IsRecordLine(f, i)
  <2>1. f[i] # Newline
    BY <1>1 DEF Newline
  <2>2. i > 1 => i - 1 \in 1..Len(f) /\ f[i - 1] = Newline
    BY <2>1 DEF Tidy
  <2>3. i < Len(f) => f[i + 1] = Newline
    <3>1. i < Len(f) => i + 1 \in 1..Len(f) /\ i + 1 > 1 /\ (i + 1) - 1 = i
      OBVIOUS
    <3> QED
      BY <2>1, <3>1 DEF Tidy
  <2> QED
    BY <1>1, <2>2, <2>3 DEF IsRecordLine
<1> QED
  BY <1>1 DEF IsRecordLine

LEMMA ReplayLast ==
    ASSUME NEW f \in Seq(Tokens), NEW op \in Ops, NEW i \in 1..Len(f),
           IsRecordLine(f, i), f[i].op = op,
           \A j \in 1..Len(f) : IsRecordLine(f, j) /\ f[j].op = op => j <= i
    PROVE  replay(f, op) = Entry(f[i])
<1> DEFINE lines == {j \in DOMAIN f : IsRecordLine(f, j) /\ f[j].op = op}
<1>1. i \in lines /\ lines \in SUBSET (0..Len(f)) /\ Len(f) \in Nat
      /\ \A j \in lines : j <= i
  OBVIOUS
<1>2. replay(f, op) = [phase |-> f[Max(lines)].phase, digest |-> f[Max(lines)].digest]
  BY <1>1 DEF replay
<1> HIDE DEF lines
<1>3. Max(lines) \in lines /\ \A y \in lines : y <= Max(lines)
  BY <1>1, HasMax
<1>4. Max(lines) = i
  <2>0. \A y \in lines : y \in Nat
    BY <1>1
  <2>1. Max(lines) \in Nat /\ i \in Nat /\ Max(lines) <= i /\ i <= Max(lines)
    BY <1>1, <1>3, <2>0
  <2> QED
    BY <2>1
<1> QED
  BY <1>2, <1>4 DEF Entry

LEMMA ReplayNone ==
    ASSUME NEW f \in Seq(Tokens), NEW op \in Ops,
           \A j \in 1..Len(f) : ~(IsRecordLine(f, j) /\ f[j].op = op)
    PROVE  replay(f, op) = Unknown
  BY DEF replay

(* Replaying depends only on the record lines.                             *)
LEMMA ReplaySame ==
    ASSUME NEW f \in Seq(Tokens), NEW g \in Seq(Tokens), NEW op \in Ops,
           Len(f) <= Len(g), \A i \in 1..Len(f) : g[i] = f[i] /\
                (IsRecordLine(g, i) <=> IsRecordLine(f, i)),
           \A i \in 1..Len(g) : IsRecordLine(g, i) /\ g[i].op = op => i <= Len(f)
    PROVE  replay(g, op) = replay(f, op)
<1>1. CASE \A j \in 1..Len(f) : ~(IsRecordLine(f, j) /\ f[j].op = op)
  <2>1. \A j \in 1..Len(g) : ~(IsRecordLine(g, j) /\ g[j].op = op)
    BY <1>1
  <2> QED
    BY <1>1, <2>1, ReplayNone
<1>2. CASE \E j \in 1..Len(f) : IsRecordLine(f, j) /\ f[j].op = op
  <2> DEFINE lines == {j \in 1..Len(f) : IsRecordLine(f, j) /\ f[j].op = op}
  <2>1. lines \in SUBSET (0..Len(f)) /\ lines # {} /\ Len(f) \in Nat
    BY <1>2
  <2>2. Max(lines) \in lines /\ \A y \in lines : y <= Max(lines)
    <3> HIDE DEF lines
    <3> QED
      BY <2>1, HasMax
  <2>3. PICK i \in lines : \A y \in lines : y <= i
    BY <2>2
  <2>4. i \in 1..Len(f) /\ IsRecordLine(f, i) /\ f[i].op = op
        /\ \A j \in 1..Len(f) : IsRecordLine(f, j) /\ f[j].op = op => j <= i
    BY <2>3
  <2> HIDE DEF lines
  <2>5. replay(f, op) = Entry(f[i])
    BY <2>4, ReplayLast
  <2>6. i \in 1..Len(g) /\ IsRecordLine(g, i) /\ g[i].op = op /\ g[i] = f[i]
    BY <2>4
  <2>7. \A j \in 1..Len(g) : IsRecordLine(g, j) /\ g[j].op = op => j <= i
    BY <2>4
  <2>8. replay(g, op) = Entry(g[i])
    BY <2>6, <2>7, ReplayLast
  <2> QED
    BY <2>5, <2>6, <2>8
<1> QED
  BY <1>1, <1>2

(* g reads as f does, after record x if x is one.                          *)
Reads(f, g, x) ==
    \A op \in Ops : replay(g, op) = IF x \in Records /\ x.op = op THEN Entry(x)
                                    ELSE replay(f, op)

(* One more token, where it belongs.                                       *)
LEMMA AppendOne ==
    ASSUME NEW f \in Seq(Tokens), Tidy(f), NEW x \in Tokens, x = Newline <=> Unterminated(f)
    PROVE  /\ Append(f, x) \in Seq(Tokens) /\ Tidy(Append(f, x))
           /\ Len(Append(f, x)) = Len(f) + 1 /\ Append(f, x)[Len(f) + 1] = x
           /\ \A i \in 1..Len(f) : Append(f, x)[i] = f[i]
           /\ Unterminated(Append(f, x)) <=> x # Newline
           /\ Reads(f, Append(f, x), x)
<1> DEFINE g == Append(f, x)
<1>1. g \in Seq(Tokens) /\ Len(g) = Len(f) + 1 /\ g[Len(f) + 1] = x
      /\ (\A i \in 1..Len(f) : g[i] = f[i]) /\ Len(f) \in Nat
  OBVIOUS
<1> HIDE DEF g
<1>2. Unterminated(f) <=> Len(f) > 0 /\ f[Len(f)] # Newline
  BY DEF Unterminated
<1>3. Tidy(g)
  <2> SUFFICES ASSUME NEW i \in 1..Len(g)
               PROVE  g[i] = Newline <=> i > 1 /\ g[i - 1] # Newline
    BY DEF Tidy
  <2>1. CASE i \in 1..Len(f)
    BY <1>1, <2>1 DEF Tidy
  <2>2. CASE i = Len(f) + 1
    BY <1>1, <1>2, <2>2
  <2> QED
    BY <1>1, <2>1, <2>2
<1>4. Unterminated(g) <=> x # Newline
  BY <1>1 DEF Unterminated
<1>5. \A i \in 1..Len(f) : IsRecordLine(g, i) <=> IsRecordLine(f, i)
  <2> SUFFICES ASSUME NEW i \in 1..Len(f) PROVE IsRecordLine(g, i) <=> IsRecordLine(f, i)
    OBVIOUS
  <2>1. i \in 1..Len(g) /\ g[i] = f[i]
    BY <1>1
  <2> QED
    BY <1>1, <1>3, <2>1, TidyLines
<1>6. x.tok = "record" <=> x \in Records
  BY TokenFacts
<1>7. IsRecordLine(g, Len(g)) <=> x \in Records
  <2>1. Len(g) \in 1..Len(g) /\ g[Len(g)] = x
    BY <1>1
  <2> QED
    BY <1>1, <1>3, <1>6, <2>1, TidyLines
<1>8. Reads(f, g, x)
  <2> SUFFICES ASSUME NEW op \in Ops
               PROVE  replay(g, op) = IF x \in Records /\ x.op = op THEN Entry(x)
                                      ELSE replay(f, op)
    BY DEF Reads
  <2>1. CASE x \in Records /\ x.op = op
    <3>1. Len(g) \in 1..Len(g) /\ g[Len(g)] = x /\ IsRecordLine(g, Len(g))
          /\ \A j \in 1..Len(g) : IsRecordLine(g, j) /\ g[j].op = op => j <= Len(g)
      BY <1>1, <1>7, <2>1
    <3> QED
      BY <1>1, <2>1, <3>1, ReplayLast
  <2>2. CASE ~(x \in Records /\ x.op = op)
    <3>1. \A i \in 1..Len(g) : IsRecordLine(g, i) /\ g[i].op = op => i <= Len(f)
      <4> SUFFICES ASSUME NEW i \in 1..Len(g), IsRecordLine(g, i), g[i].op = op, i > Len(f)
                   PROVE  FALSE
        BY <1>1
      <4>1. i = Len(g) /\ g[i] = x
        BY <1>1
      <4> QED
        BY <1>7, <2>2, <4>1
    <3>2. Len(f) <= Len(g)
      BY <1>1
    <3> QED
      BY <1>1, <1>5, <2>2, <3>1, <3>2, ReplaySame
  <2> QED
    BY <2>1, <2>2
<1> QED
  BY <1>1, <1>3, <1>4, <1>8 DEF g

(* The start of a tidy file.                                               *)
LEMMA PrefixTidy ==
    ASSUME NEW f \in Seq(Tokens), Tidy(f), NEW k \in 0..Len(f)
    PROVE  /\ SubSeq(f, 1, k) \in Seq(Tokens) /\ Tidy(SubSeq(f, 1, k))
           /\ Len(SubSeq(f, 1, k)) = k /\ \A i \in 1..k : SubSeq(f, 1, k)[i] = f[i]
           /\ k < Len(f) /\ f[k + 1] # Newline => ~Unterminated(SubSeq(f, 1, k))
<1> DEFINE g == SubSeq(f, 1, k)
<1>1. g \in Seq(Tokens) /\ Len(g) = k /\ (\A i \in 1..k : g[i] = f[i]) /\ k \in Nat
  OBVIOUS
<1> HIDE DEF g
<1>2. Tidy(g)
  BY <1>1 DEF Tidy
<1>3. ASSUME k < Len(f), f[k + 1] # Newline PROVE ~Unterminated(g)
  <2>1. k + 1 \in 1..Len(f) /\ (k > 0 => f[k] = Newline)
    BY <1>1, <1>3 DEF Tidy
  <2> QED
    BY <1>1, <2>1 DEF Unterminated
<1> QED
  BY <1>1, <1>2, <1>3 DEF g

LEMMA Concats ==
    ASSUME NEW f \in Seq(Tokens), NEW x \in Tokens, NEW y \in Tokens, NEW z \in Tokens
    PROVE  /\ f \o <<>> = f /\ f \o <<x>> = Append(f, x)
           /\ f \o <<x, y>> = Append(Append(f, x), y)
           /\ f \o <<x, y, z>> = Append(Append(Append(f, x), y), z)
  OBVIOUS

LEMMA Tuples ==
    /\ \A s \in Seq(Tokens) : Len(s) = 0 => s = <<>>
    /\ \A s \in Seq(Tokens) : Len(s) = 1 => s = <<s[1]>>
    /\ \A s \in Seq(Tokens) : Len(s) = 2 => s = <<s[1], s[2]>>
    /\ \A s \in Seq(Tokens), k \in Nat : k <= Len(s) =>
            /\ SubSeq(s, 1, k) \in Seq(Tokens) /\ Len(SubSeq(s, 1, k)) = k
            /\ \A i \in 1..k : SubSeq(s, 1, k)[i] = s[i]
  OBVIOUS

LEMMA Pair ==
    ASSUME NEW x \in Tokens, NEW y \in Tokens
    PROVE  <<x>> \o <<y>> = <<x, y>>
<1> DEFINE s == <<x>> \o <<y>>
<1>1. s \in Seq(Tokens) /\ Len(s) = 2 /\ s[1] = x /\ s[2] = y
  OBVIOUS
<1> HIDE DEF s
<1>2. s = <<x, y>>
  BY <1>1, Tuples
<1> QED
  BY <1>2 DEF s

(* What an interrupted write of two or three tokens can add to the file.   *)
LEMMA PiecesOf ==
    ASSUME NEW p \in Seq(Tokens), NEW q \in Interrupted(p)
    PROVE  /\ Len(p) = 1 /\ p[1] = Newline => q = <<>>
           /\ Len(p) = 2 /\ p[2] = Newline =>
                q = <<>> \/ q = <<p[1]>> \/ q = <<Fragment>>
           /\ Len(p) = 3 /\ p[1] = Newline /\ p[3] = Newline =>
                q = <<>> \/ q = <<Newline>> \/ q = <<Newline, p[2]>> \/ q = <<Newline, Fragment>>
<1>1. Newline.tok # "record" /\ Fragment \in Tokens
  BY TokenFacts DEF Newline
<1>2. PICK k \in 0..(Len(p) - 1) :
        \/ q = SubSeq(p, 1, k)
        \/ q = SubSeq(p, 1, k) \o <<Fragment>> /\ p[k + 1].tok = "record"
  BY DEF Interrupted
<1> DEFINE s == SubSeq(p, 1, k)
<1>3. k \in Nat /\ k <= Len(p) - 1 /\ k <= Len(p) /\ Len(p) \in Nat
  OBVIOUS
<1>4. s \in Seq(Tokens) /\ Len(s) = k /\ \A i \in 1..k : s[i] = p[i]
  BY <1>3, Tuples
<1>5. (q = s) \/ (q = s \o <<Fragment>> /\ p[k + 1].tok = "record")
  BY <1>2
<1> HIDE DEF s
<1>6. CASE k = 0
  <2>1. s = <<>>
    BY <1>4, <1>6, Tuples
  <2>2. <<>> \o <<Fragment>> = <<Fragment>>
    OBVIOUS
  <2> QED
    BY <1>1, <1>5, <1>6, <2>1, <2>2
<1>7. CASE k = 1
  <2>1. s = <<p[1]>>
    BY <1>4, <1>7, Tuples
  <2>2. p[1] \in Tokens /\ Len(p) >= 2
    BY <1>3, <1>7
  <2>3. <<p[1]>> \o <<Fragment>> = <<p[1], Fragment>>
    BY <1>1, <2>2, Pair, Zenon
  <2>4. (q = <<p[1]>>) \/ (q = <<p[1], Fragment>> /\ p[2].tok = "record")
    BY <1>5, <1>7, <2>1, <2>3
  <2>5. Len(p) # 1
    <3> DEFINE n == Len(p)
    <3>1. n \in Nat /\ n >= 2
      BY <1>3, <2>2
    <3> HIDE DEF n
    <3>2. n # 1
      BY <3>1
    <3> QED
      BY <3>2 DEF n
  <2> QED
    BY <1>1, <2>4, <2>5, Zenon
<1>8. CASE k = 2
  <2>1. s = <<p[1], p[2]>> /\ Len(p) >= 3
    BY <1>3, <1>4, <1>8, Tuples
  <2>2. p[3] = Newline => q = s
    BY <1>1, <1>5, <1>8
  <2> QED
    BY <2>1, <2>2
<1>9. CASE k > 2
  <2> DEFINE n == Len(p)
  <2>1. n \in Nat /\ k \in Nat /\ k <= n - 1 /\ k > 2
    BY <1>3, <1>9
  <2> HIDE DEF n
  <2>2. n # 1 /\ n # 2 /\ n # 3
    BY <2>1
  <2> QED
    BY <2>2 DEF n
<1>10. k = 0 \/ k = 1 \/ k = 2 \/ k > 2
  BY <1>3
<1> QED
  BY <1>6, <1>7, <1>8, <1>9, <1>10

(* g reads as f does.                                                      *)
Same(f, g) == \A op \in Ops : replay(g, op) = replay(f, op)

(* Every fragment of g is one of f, or g's last token.                     *)
Whole(f, g) == \A i \in 1..Len(g) : g[i] = Fragment => i \in 1..Len(f) /\ f[i] = Fragment
Broken(f, g) ==
    \A i \in 1..Len(g) : g[i] = Fragment => (i \in 1..Len(f) /\ f[i] = Fragment) \/ i = Len(g)

LEMMA ReadsChain ==
    ASSUME NEW f, NEW g, NEW h, NEW x \in Tokens, NEW token \in Records
    PROVE  /\ Reads(f, g, Newline) => Same(f, g)
           /\ Reads(f, g, Fragment) => Same(f, g)
           /\ Same(f, g) /\ Reads(g, h, token) => Reads(f, h, token)
           /\ Reads(f, g, token) /\ Same(g, h) => Reads(f, h, token)
           /\ Same(f, g) /\ Same(g, h) => Same(f, h)
<1>1. Newline \notin Records /\ Fragment \notin Records
  BY TokenFacts
<1> QED
  BY <1>1 DEF Reads, Same

(* Appending a token that is no fragment, or a fragment.                   *)
LEMMA AppendWhole ==
    ASSUME NEW f \in Seq(Tokens), Tidy(f), NEW x \in Tokens, x = Newline <=> Unterminated(f)
    PROVE  /\ x # Fragment => Whole(f, Append(f, x))
           /\ Broken(f, Append(f, x))
<1> DEFINE g == Append(f, x)
<1>1. Len(g) = Len(f) + 1 /\ g[Len(f) + 1] = x /\ (\A i \in 1..Len(f) : g[i] = f[i])
      /\ Len(f) \in Nat
  OBVIOUS
<1> HIDE DEF g
<1>2. \A i \in 1..Len(g) : i \in 1..Len(f) \/ i = Len(f) + 1
  BY <1>1
<1>3. x # Fragment => Whole(f, g)
  BY <1>1, <1>2 DEF Whole
<1>4. Broken(f, g)
  BY <1>1, <1>2 DEF Broken
<1> QED
  BY <1>3, <1>4 DEF g

LEMMA WholeChain ==
    ASSUME NEW f, NEW g, NEW h, Whole(f, g)
    PROVE  /\ Whole(g, h) => Whole(f, h)
           /\ Broken(g, h) => Broken(f, h)
  BY DEF Whole, Broken

(* The write of token falls where the file's last line asks for it.        *)
Fits(w, token) ==
    IF token = Newline THEN Unterminated(file)
    ELSE worker[w].needs_newline <=> Unterminated(file)

LEMMA WholeWrite ==
    ASSUME file \in Seq(Tokens), Tidy(file), NEW w \in Workers, worker[w].needs_newline \in BOOLEAN,
           NEW token \in Records \union {Newline}, Fits(w, token),
           NEW g, g = file \o Payload(w, token)
    PROVE  /\ g \in Seq(Tokens) /\ Tidy(g) /\ ~Unterminated(g) /\ Whole(file, g)
           /\ token = Newline => Same(file, g)
           /\ token \in Records => Reads(file, g, token)
<1> DEFINE f1 == Append(file, Newline)
<1>0. Newline \in Tokens /\ Newline # Fragment
  BY TokenFacts
<1>1. ASSUME Unterminated(file)
      PROVE  f1 \in Seq(Tokens) /\ Tidy(f1) /\ ~Unterminated(f1) /\ Same(file, f1) /\ Whole(file, f1)
  <2>1. Reads(file, f1, Newline)
    BY <1>0, <1>1, AppendOne
  <2>2. Same(file, f1)
    <3>1. Newline \notin Records
      BY TokenFacts
    <3> QED
      BY <2>1, <3>1 DEF Reads, Same
  <2> QED
    BY <1>0, <1>1, <2>2, AppendOne, AppendWhole
<1>2. CASE token = Newline
  <2>1. g = f1
    BY <1>0, <1>2, Concats DEF Payload
  <2>2. token \notin Records
    BY <1>2, TokenFacts
  <2> QED
    BY <1>1, <1>2, <2>1, <2>2 DEF Fits
<1>3. ASSUME token # Newline, NEW f \in Seq(Tokens), Tidy(f), ~Unterminated(f), Same(file, f),
             Whole(file, f), g = Append(Append(f, token), Newline)
      PROVE  g \in Seq(Tokens) /\ Tidy(g) /\ ~Unterminated(g) /\ Whole(file, g)
             /\ Reads(file, g, token)
  <2> DEFINE f2 == Append(f, token)
  <2>1. token \in Records /\ token \in Tokens /\ token # Fragment
    BY <1>3, TokenFacts
  <2>2. f2 \in Seq(Tokens) /\ Tidy(f2) /\ Unterminated(f2) /\ Reads(f, f2, token) /\ Whole(f, f2)
    BY <1>3, <2>1, AppendOne, AppendWhole
  <2> HIDE DEF f2
  <2>3. g = Append(f2, Newline)
    BY <1>3 DEF f2
  <2>4. g \in Seq(Tokens) /\ Tidy(g) /\ ~Unterminated(g) /\ Reads(f2, g, Newline) /\ Whole(f2, g)
    BY <1>0, <2>2, <2>3, AppendOne, AppendWhole
  <2>5. Reads(file, g, token)
    BY <1>0, <1>3, <2>1, <2>2, <2>4, ReadsChain
  <2>6. Whole(file, g)
    BY <1>3, <2>2, <2>4, WholeChain
  <2> QED
    BY <2>4, <2>5, <2>6
<1>4. CASE token # Newline /\ ~worker[w].needs_newline
  <2>1. g = Append(Append(file, token), Newline)
    BY <1>0, <1>4, TokenFacts, Concats DEF Payload
  <2>2. Same(file, file) /\ Whole(file, file) /\ ~Unterminated(file)
    BY <1>4 DEF Same, Whole, Fits
  <2> QED
    BY <1>3, <1>4, <2>1, <2>2
<1>5. CASE token # Newline /\ worker[w].needs_newline
  <2>1. g = Append(Append(f1, token), Newline)
    BY <1>0, <1>5, TokenFacts, Concats DEF Payload
  <2>2. Unterminated(file)
    BY <1>5 DEF Fits
  <2> HIDE DEF f1
  <2> QED
    BY <1>1, <1>3, <1>5, <2>1, <2>2
<1> QED
  BY <1>2, <1>4, <1>5

LEMMA PartWrite ==
    ASSUME file \in Seq(Tokens), Tidy(file), NEW w \in Workers, worker[w].needs_newline \in BOOLEAN,
           NEW token \in Records \union {Newline}, Fits(w, token),
           NEW p \in Interrupted(Payload(w, token)), NEW g, g = file \o p
    PROVE  /\ g \in Seq(Tokens) /\ Tidy(g) /\ Broken(file, g)
           /\ Same(file, g) \/ (token \in Records /\ Reads(file, g, token))
<1> DEFINE f1 == Append(file, Newline)
<1>0. Newline \in Tokens /\ Newline # Fragment /\ Fragment \in Tokens /\ Newline \notin Records
      /\ Fragment \notin Records /\ \A r \in Records : r \in Tokens /\ r # Newline /\ r # Fragment
  BY TokenFacts
<1>1. ASSUME p = <<>> PROVE g = file
  BY <1>1
<1>2. Same(file, file) /\ Broken(file, file) /\ Whole(file, file)
  BY DEF Same, Broken, Whole
<1>3. ASSUME NEW f \in Seq(Tokens), Tidy(f), Same(file, f), Whole(file, f),
             NEW x \in Tokens, x = Newline <=> Unterminated(f), g = Append(f, x),
             x = Newline \/ x = Fragment \/ (x = token /\ x \in Records)
      PROVE  /\ g \in Seq(Tokens) /\ Tidy(g) /\ Broken(file, g)
             /\ Same(file, g) \/ (token \in Records /\ Reads(file, g, token))
  <2>1. g \in Seq(Tokens) /\ Tidy(g) /\ Reads(f, g, x) /\ Broken(f, g)
    BY <1>3, AppendOne, AppendWhole
  <2>2. Broken(file, g)
    BY <1>3, <2>1, WholeChain
  <2>3. CASE x = token /\ x \in Records
    BY <1>0, <1>3, <2>1, <2>2, <2>3, ReadsChain
  <2>4. CASE x \notin Records
    <3>1. Same(f, g)
      BY <2>1, <2>4 DEF Reads, Same
    <3>2. Same(file, g)
      BY <1>3, <3>1 DEF Same
    <3> QED
      BY <2>1, <2>2, <3>2
  <2> QED
    BY <1>0, <1>3, <2>3, <2>4
<1>4. CASE token = Newline
  <2>1. Payload(w, token) = <<Newline>>
    BY <1>4 DEF Payload
  <2>2. p = <<>>
    <3>1. <<Newline>> \in Seq(Tokens) /\ Len(<<Newline>>) = 1 /\ <<Newline>>[1] = Newline
      BY <1>0
    <3> QED
      BY <2>1, <3>1, PiecesOf
  <2> QED
    BY <1>1, <1>2, <2>2
<1>5. CASE token # Newline /\ ~worker[w].needs_newline
  <2>1. Payload(w, token) = <<token, Newline>> /\ token \in Records
    BY <1>5 DEF Payload
  <2>2. <<token, Newline>> \in Seq(Tokens) /\ Len(<<token, Newline>>) = 2
        /\ <<token, Newline>>[1] = token /\ <<token, Newline>>[2] = Newline
    BY <1>0, <2>1
  <2>3. p = <<>> \/ p = <<token>> \/ p = <<Fragment>>
    BY <2>1, <2>2, PiecesOf
  <2>4. ~Unterminated(file)
    BY <1>5 DEF Fits
  <2>5. CASE p = <<token>>
    <3>1. g = Append(file, token)
      BY <2>5
    <3> QED
      BY <1>0, <1>2, <1>3, <2>1, <2>4, <3>1
  <2>6. CASE p = <<Fragment>>
    <3>1. g = Append(file, Fragment)
      BY <2>6
    <3> QED
      BY <1>0, <1>2, <1>3, <2>4, <3>1
  <2> QED
    BY <1>1, <1>2, <2>3, <2>5, <2>6
<1>6. CASE token # Newline /\ worker[w].needs_newline
  <2>1. Payload(w, token) = <<Newline, token, Newline>> /\ token \in Records
    BY <1>6 DEF Payload
  <2>2. <<Newline, token, Newline>> \in Seq(Tokens) /\ Len(<<Newline, token, Newline>>) = 3
        /\ <<Newline, token, Newline>>[1] = Newline /\ <<Newline, token, Newline>>[2] = token
        /\ <<Newline, token, Newline>>[3] = Newline
    BY <1>0, <2>1
  <2>3. p = <<>> \/ p = <<Newline>> \/ p = <<Newline, token>> \/ p = <<Newline, Fragment>>
    BY <2>1, <2>2, PiecesOf
  <2>4. Unterminated(file)
    BY <1>6 DEF Fits
  <2>5. f1 \in Seq(Tokens) /\ Tidy(f1) /\ ~Unterminated(f1) /\ Whole(file, f1) /\ Same(file, f1)
    <3>1. Reads(file, f1, Newline)
      BY <1>0, <2>4, AppendOne
    <3>2. Same(file, f1)
      BY <1>0, <3>1 DEF Reads, Same
    <3> QED
      BY <1>0, <2>4, <3>2, AppendOne, AppendWhole
  <2>6. CASE p = <<Newline>>
    <3>1. g = Append(file, Newline)
      BY <2>6
    <3> QED
      BY <1>0, <1>2, <1>3, <2>4, <3>1
  <2>7. CASE p = <<Newline, token>>
    <3>1. g = Append(f1, token)
      BY <1>0, <2>1, <2>7, Concats
    <3> HIDE DEF f1
    <3> QED
      BY <1>0, <1>3, <2>1, <2>5, <3>1
  <2>8. CASE p = <<Newline, Fragment>>
    <3>1. g = Append(f1, Fragment)
      BY <1>0, <2>8, Concats
    <3> HIDE DEF f1
    <3> QED
      BY <1>0, <1>3, <2>5, <3>1
  <2> QED
    BY <1>1, <1>2, <2>3, <2>6, <2>7, <2>8
<1> QED
  BY <1>4, <1>5, <1>6

LEMMA SuccessorFacts ==
    /\ \A d \in Digests :
        [phase |-> "in_progress", digest |-> d] \in Log!Successors(Unknown)
    /\ \A r \in Known : r.phase \in FinalPhases => Log!Successors(r) = {}
    /\ \A r \in Known, phase \in FinalPhases \union {"uncertain"} : r.phase = "in_progress" =>
        [phase |-> phase, digest |-> r.digest] \in Log!Successors(r)
    /\ \A r \in Known, phase \in FinalPhases : r.phase = "uncertain" =>
        [phase |-> phase, digest |-> r.digest] \in Log!Successors(r)
<1>1. ASSUME NEW d \in Digests
      PROVE  [phase |-> "in_progress", digest |-> d] \in Log!Successors(Unknown)
  BY DEF Log!Successors, Log!Unknown, Unknown
<1>2. ASSUME NEW r \in Known, r.phase \in FinalPhases PROVE Log!Successors(r) = {}
  <2>1. r # Log!Unknown /\ r.phase # "in_progress" /\ r.phase # "uncertain"
    BY <1>2 DEF Log!Unknown, Unknown, FinalPhases
  <2> QED
    BY <2>1 DEF Log!Successors
<1>3. ASSUME NEW r \in Known, NEW phase \in FinalPhases \union {"uncertain"}, r.phase = "in_progress"
      PROVE  [phase |-> phase, digest |-> r.digest] \in Log!Successors(r)
  <2>1. r # Log!Unknown
    BY <1>3 DEF Log!Unknown
  <2> QED
    BY <1>3, <2>1 DEF Log!Successors, Log!FinalPhases, FinalPhases
<1>4. ASSUME NEW r \in Known, NEW phase \in FinalPhases, r.phase = "uncertain"
      PROVE  [phase |-> phase, digest |-> r.digest] \in Log!Successors(r)
  <2>1. r # Log!Unknown
    BY <1>4 DEF Log!Unknown
  <2> QED
    BY <1>4, <2>1 DEF Log!Successors, Log!FinalPhases, FinalPhases
<1> QED
  BY <1>1, <1>2, <1>3, <1>4

-----------------------------------------------------------------------------
(* What every kind of step keeps of Calm.                                  *)

Quiet(w) == LineInv(w) /\ SeenInv(w) /\ LiveInv(w)

LEMMA DownIsQuiet ==
    ASSUME NEW w \in Workers, worker'[w] = Down
    PROVE  Quiet(w)'
<1>1. worker'[w].pc = "down"
  BY DEF Down
<1> QED
  BY <1>1 DEF Quiet, LineInv, SeenInv, LiveInv, Up, Serving

(* Only w is up: the others are calm.                                      *)
LEMMA OneIsQuiet ==
    ASSUME IInv, IInv', NEW w \in Workers, Up(w)', Quiet(w)'
    PROVE  \A v \in Workers : Quiet(v)'
<1>1. \A v \in Workers \ {w} : worker'[v] = Down
  BY DEF IInv, Exclusive, WorkerInv, MainInv
<1> QED
  BY <1>1, DownIsQuiet

(* What run() returned stays true when the log moves as it may.            *)
LEMMA ToldKept ==
    ASSUME IInv, IInv', errors = 0 => ReportedIsRecorded,
           errors' = 0 => errors = 0, losses' = 0 => losses = 0, told' = told,
           losses' = 0 /\ errors' = 0 => \A op \in Turns :
                \/ replay(file', op) = replay(file, op)
                \/ replay(file', op) \in Log!Successors(replay(file, op))
    PROVE  ReportedIsRecorded'
<1> SUFFICES ASSUME losses' = 0, errors' = 0, NEW op \in DOMAIN told',
                    NEW outcome \in told'[op] \cap FinalPhases
             PROVE  replay(file', op).phase = outcome
  BY DEF ReportedIsRecorded
<1>1. op \in Turns /\ op \in DOMAIN told /\ op \in Ops /\ file \in Seq(Tokens)
  BY DEF IInv, Types, TypeOK, Tokens, Ops
<1>2. replay(file, op).phase = outcome
  BY <1>1 DEF ReportedIsRecorded
<1>3. replay(file, op) \in Known
  BY <1>1, ReplayType
<1>4. Log!Successors(replay(file, op)) = {}
  BY <1>2, <1>3, SuccessorFacts
<1> QED
  BY <1>1, <1>2, <1>4

(* The repair's invariant when the files and the history stay.             *)
LEMMA RepairKept ==
    ASSUME RepairInv, UNCHANGED <<file, synced, side, harm>>,
           (\E w \in Workers : InRepair(w)) => \E w \in Workers : InRepair(w)'
    PROVE  RepairInv'
  BY DEF RepairInv, Ends

(* The file and its history stay, w alone acts.                            *)
LEMMA CalmKept ==
    ASSUME IInv, IInv', Calm, UNCHANGED <<file, side, harm, told, losses, errors>>,
           errors = 0 => (\A v \in Workers : Quiet(v)') /\ RepairInv'
    PROVE  Calm'
<1>1. errors = 0 => ReportedIsRecorded'
  BY DEF Calm, ReportedIsRecorded
<1> QED
  BY <1>1 DEF Calm, Quiet, Tidy

LEMMA AnsweredCalm ==
    ASSUME IInv, Calm, NEW op \in Turns, NEW outcomes, Answer(op, outcomes),
           UNCHANGED <<disk, lock, worker, chan, runs, harm, faults>>,
           losses = 0 /\ errors = 0 =>
                \A o \in outcomes \cap FinalPhases : replay(file, op).phase = o
    PROVE  Calm'
<1>1. UNCHANGED <<file, synced, side, worker, harm, losses, errors>>
  BY DEF disk, faults
<1>2. told' = [told EXCEPT ![op] = @ \union outcomes] /\ DOMAIN told = Turns
  BY DEF Answer, IInv, Types, TypeOK
<1>3. errors = 0 => ReportedIsRecorded'
  BY <1>1, <1>2 DEF Calm, ReportedIsRecorded
<1>4. errors = 0 => \A v \in Workers : Quiet(v)'
  BY <1>1 DEF Calm, Quiet, LineInv, SeenInv, LiveInv, Up, Serving, Begins, Pends, TokenOf,
     Writes, Syncs
<1>5. errors = 0 => RepairInv'
  <2>1. (\E w \in Workers : InRepair(w)) => \E w \in Workers : InRepair(w)'
    BY <1>1 DEF InRepair
  <2> QED
    BY <1>1, <2>1, RepairKept DEF Calm
<1> QED
  BY <1>1, <1>3, <1>4, <1>5 DEF Calm, Quiet, Tidy

LEMMA BeginTimeoutCalm ==
    ASSUME IInv, Calm, NEW op \in Turns, begin_timeout(op)
    PROVE  Calm'
  BY AnsweredCalm DEF begin_timeout

LEMMA TurnSilentCalm ==
    ASSUME IInv, Calm, NEW w \in Workers, NEW op \in Turns, turn_silent(w, op)
    PROVE  Calm'
<1>1. {"uncertain"} \cap FinalPhases = {}
  BY DEF FinalPhases
<1> QED
  BY <1>1, AnsweredCalm DEF turn_silent

LEMMA ChannelFailsCalm ==
    ASSUME IInv, Calm, NEW op \in Turns, channel_fails(op)
    PROVE  Calm'
<1>1. {"uncertain"} \cap FinalPhases = {} /\ {} \cap FinalPhases = {}
  BY DEF FinalPhases
<1> QED
  BY <1>1, AnsweredCalm DEF channel_fails

(* A finished operation of a serving process is finished in the file.      *)
LEMMA FinishedIsReplayed ==
    ASSUME IInv, NEW w \in Workers, Serving(w), SeenInv(w), NEW op \in Ops,
           worker[w].mem[op].phase \in FinalPhases
    PROVE  worker[w].mem[op] = replay(file, op)
<1>1. worker[w].mem[op] \in Known
  BY ProcTypes DEF IInv, Procs
<1>2. Log!Successors(worker[w].mem[op]) = {}
  BY <1>1, SuccessorFacts
<1>3. \A t \in Threads : Syncs(w, t) => TokenOf(w, t).op # op
  BY <1>2 DEF SeenInv, Up, Serving
<1> QED
  BY <1>3 DEF SeenInv, Up, Serving

LEMMA DuplicateResultCalm ==
    ASSUME IInv, Calm, NEW w \in Workers, NEW op \in Turns, duplicate_result(w, op)
    PROVE  Calm'
<1> DEFINE outcomes == IF worker[w].mem[op].phase = "committed" THEN {"committed"} ELSE {"uncertain"}
<1>1. Answer(op, outcomes) /\ UNCHANGED <<disk, lock, worker, chan, runs, harm, faults>>
      /\ Serving(w) /\ op \in Ops
  BY DEF duplicate_result, Reachable, Ops
<1>2. ASSUME errors = 0, NEW o \in outcomes \cap FinalPhases PROVE replay(file, op).phase = o
  <2>1. worker[w].mem[op].phase = "committed" /\ o = "committed"
    BY DEF FinalPhases
  <2>2. worker[w].mem[op] = replay(file, op)
    BY <1>1, <1>2, <2>1, FinishedIsReplayed DEF FinalPhases, Calm
  <2> QED
    BY <2>1, <2>2
<1> HIDE DEF outcomes
<1> QED
  BY <1>1, <1>2, AnsweredCalm

LEMMA DaemonDiesCalm ==
    ASSUME IInv, Calm, daemon_dies
    PROVE  Calm'
<1>1. UNCHANGED <<file, synced, side, worker, harm, losses, errors, told>>
  BY DEF daemon_dies, disk
<1>2. errors = 0 => \A v \in Workers : Quiet(v)'
  BY <1>1 DEF Calm, Quiet, LineInv, SeenInv, LiveInv, Up, Serving, Begins, Pends, TokenOf,
     Writes, Syncs
<1>3. errors = 0 => RepairInv'
  <2>1. (\E w \in Workers : InRepair(w)) => \E w \in Workers : InRepair(w)'
    BY <1>1 DEF InRepair
  <2> QED
    BY <1>1, <2>1, RepairKept DEF Calm
<1>4. ReportedIsRecorded => ReportedIsRecorded'
  BY <1>1 DEF ReportedIsRecorded
<1> QED
  BY <1>1, <1>2, <1>3, <1>4 DEF Calm, Quiet, Tidy

(* The request loop starts the append of a record that may follow.         *)
LEMMA RequestCalm ==
    ASSUME IInv, IInv', Calm, NEW w \in Workers, Serving(w), ~Pends(w, "main"),
           NEW token \in Records, Pending(w, "main", token),
           UNCHANGED <<file, synced, side, harm, told, losses, errors>>,
           errors = 0 => Entry(token) \in Log!Successors(worker[w].mem[token.op]),
           \/ token.op \in ProbeIds
           \/ token.op \in Turns /\ token.phase = "in_progress"
    PROVE  Calm'
<1>0. worker[w] \in Procs /\ worker \in [Workers -> Procs] /\ Up(w)
  BY ProcTypes DEF IInv, Up, Serving
<1>1. /\ worker'[w].pc = "serving" /\ worker'[w].mem = worker[w].mem
      /\ worker'[w].turn = worker[w].turn
      /\ worker'[w].needs_newline = worker[w].needs_newline
      /\ worker'[w].io["main"] = [st |-> "write", token |-> token]
      /\ worker'[w].io["turn"] = worker[w].io["turn"]
      /\ \A v \in Workers \ {w} : worker'[v] = worker[v]
  BY <1>0 DEF Pending, Procs, Threads, Serving
<1>2. worker[w].io["main"].st # "sync"
  BY DEF Pends, NoIO
<1>3. ASSUME errors = 0 PROVE Quiet(w)'
  <2>1. LineInv(w) /\ SeenInv(w) /\ LiveInv(w)
    BY <1>3 DEF Calm
  <2>2. LineInv(w)'
    BY <1>1, <1>2, <2>1 DEF LineInv, Serving
  <2>3. SeenInv(w)'
    <3>1. \A t \in Threads : Syncs(w, t)' => Syncs(w, t) /\ TokenOf(w, t)' = TokenOf(w, t)
      BY <1>1 DEF Syncs, TokenOf, Threads
    <3>2. \A t \in Threads : Writes(w, t)' =>
            \/ Writes(w, t) /\ TokenOf(w, t)' = TokenOf(w, t)
            \/ TokenOf(w, t)' = token
      BY <1>1 DEF Writes, TokenOf, Threads
    <3>3. \A t \in Threads : Syncs(w, t) => Syncs(w, t)' /\ TokenOf(w, t)' = TokenOf(w, t)
      BY <1>1, <1>2 DEF Syncs, TokenOf, Threads
    <3> QED
      BY <1>0, <1>1, <1>3, <2>1, <3>1, <3>2, <3>3 DEF SeenInv
  <2>4. LiveInv(w)'
    <3>1. token.op \in ProbeIds \/ Begins(w)'
      BY <1>1 DEF Begins, Serving, Pends, TokenOf, NoIO
    <3>2. Pends(w, "turn")' = Pends(w, "turn") /\ TokenOf(w, "turn")' = TokenOf(w, "turn")
          /\ TokenOf(w, "main")' = token
      BY <1>1 DEF Pends, TokenOf
    <3> QED
      BY <1>1, <2>1, <3>1, <3>2 DEF LiveInv, Up, Serving
  <2> QED
    BY <2>2, <2>3, <2>4 DEF Quiet
<1>4. errors = 0 => \A v \in Workers : Quiet(v)'
  BY <1>1, <1>3, OneIsQuiet DEF Up
<1>5. errors = 0 => RepairInv'
  <2>1. (\E v \in Workers : InRepair(v)) => \E v \in Workers : InRepair(v)'
    BY <1>1 DEF InRepair, Serving
  <2> QED
    BY <2>1, RepairKept DEF Calm
<1> QED
  BY <1>4, <1>5, CalmKept

LEMMA BeginTurnCalm ==
    ASSUME IInv, IInv', Calm, NEW w \in Workers, NEW op \in Turns, NEW digest \in Digests,
           begin_turn(w, op, digest)
    PROVE  Calm'
<1>1. Serving(w) /\ ~Pends(w, "main")
      /\ UNCHANGED <<file, synced, side, told, harm, losses, errors>>
  BY DEF begin_turn, Reachable, Idle, Pends, disk, faults
<1>2. CASE UNCHANGED worker
  <2>1. errors = 0 => \A v \in Workers : Quiet(v)'
    BY <1>1, <1>2 DEF Calm, Quiet, LineInv, SeenInv, LiveInv, Up, Serving, Begins, Pends, TokenOf,
       Writes, Syncs
  <2>2. errors = 0 => RepairInv'
    <3>1. (\E v \in Workers : InRepair(v)) => \E v \in Workers : InRepair(v)'
      BY <1>2 DEF InRepair
    <3> QED
      BY <1>1, <3>1, RepairKept DEF Calm
  <2> QED
    BY <1>1, <2>1, <2>2, CalmKept
<1>3. CASE worker[w].mem[op] = Unknown /\ Pending(w, "main", Record(op, "in_progress", digest))
  <2> DEFINE token == Record(op, "in_progress", digest)
  <2>1. token \in Records /\ token.op = op /\ token.phase = "in_progress"
        /\ Entry(token) = [phase |-> "in_progress", digest |-> digest]
    BY TokenFacts DEF Ops, PHASES, OpenPhases, Record, Entry
  <2>2. Pending(w, "main", token)
    BY <1>3
  <2> HIDE DEF token
  <2>3. Entry(token) \in Log!Successors(worker[w].mem[token.op])
    BY <1>3, <2>1, SuccessorFacts
  <2> QED
    BY <1>1, <2>1, <2>2, <2>3, RequestCalm
<1> QED
  BY <1>2, <1>3 DEF begin_turn

LEMMA OperationBeginCalm ==
    ASSUME IInv, IInv', Calm, NEW w \in Workers, NEW op \in ProbeIds, NEW digest \in Digests,
           operation_begin(w, op, digest)
    PROVE  Calm'
<1>1. Serving(w) /\ ~Pends(w, "main")
      /\ UNCHANGED <<file, synced, side, told, harm, losses, errors>>
  BY DEF operation_begin, Reachable, Idle, Pends, disk, backend, faults
<1> DEFINE token == Record(op, "in_progress", digest)
<1>2. token \in Records /\ token.op = op
      /\ Entry(token) = [phase |-> "in_progress", digest |-> digest]
  BY TokenFacts DEF Ops, PHASES, OpenPhases, Record, Entry
<1>3. Pending(w, "main", token) /\ worker[w].mem[op] = Unknown
  BY DEF operation_begin
<1> HIDE DEF token
<1>4. Entry(token) \in Log!Successors(worker[w].mem[token.op])
  BY <1>2, <1>3, SuccessorFacts
<1> QED
  BY <1>1, <1>2, <1>3, <1>4, RequestCalm

LEMMA OperationFinishCalm ==
    ASSUME IInv, IInv', Calm, NEW w \in Workers, NEW op \in ProbeIds, NEW outcome \in FinalPhases,
           operation_finish(w, op, outcome)
    PROVE  Calm'
<1>1. Serving(w) /\ ~Pends(w, "main")
      /\ UNCHANGED <<file, synced, side, told, harm, losses, errors>>
  BY DEF operation_finish, Reachable, Idle, Pends, disk, backend, faults
<1>2. worker[w].mem[op] \in Known /\ worker[w].mem[op].phase \in OpenPhases
  BY ProcTypes DEF IInv, Procs, Ops, operation_finish
<1>3. worker[w].mem[op].digest \in Digests
  BY <1>2 DEF Known, Unknown, OpenPhases
<1> DEFINE token == Record(op, outcome, worker[w].mem[op].digest)
<1>4. token \in Records /\ token.op = op
      /\ Entry(token) = [phase |-> outcome, digest |-> worker[w].mem[op].digest]
  BY <1>3, TokenFacts DEF Ops, PHASES, Record, Entry
<1>5. Pending(w, "main", token)
  BY DEF operation_finish
<1> HIDE DEF token
<1>6. Entry(token) \in Log!Successors(worker[w].mem[token.op])
  BY <1>2, <1>4, SuccessorFacts DEF OpenPhases
<1> QED
  BY <1>1, <1>4, <1>5, <1>6, RequestCalm

(* What a step of w that leaves the file alone keeps of what memory and    *)
(* the appends on their way say of it.                                     *)
LEMMA SeenKept ==
    ASSUME NEW w \in Workers, Up(w), SeenInv(w), file' = file,
           worker'[w].mem = worker[w].mem,
           \A t \in Threads : Syncs(w, t)' <=> Syncs(w, t),
           \A t \in Threads : Syncs(w, t) => TokenOf(w, t)' = TokenOf(w, t),
           \A t \in Threads : Writes(w, t)' =>
                \/ Writes(w, t) /\ TokenOf(w, t)' = TokenOf(w, t)
                \/ Entry(TokenOf(w, t)') \in Log!Successors(worker[w].mem[TokenOf(w, t)'.op])
    PROVE  SeenInv(w)'
<1>1. \A op \in Ops : (\A t \in Threads : Syncs(w, t)' => TokenOf(w, t)'.op # op) =>
            worker[w].mem[op] = replay(file, op)
  BY DEF SeenInv
<1> QED
  BY <1>1 DEF SeenInv, Entry

(* The repair stays where it is while w, past it, acts.                    *)
LEMMA NoRepair ==
    ASSUME IInv, NEW w \in Workers, worker[w].pc \in {"promote", "serving"}
    PROVE  ~\E v \in Workers : InRepair(v)
  BY OthersDown DEF InRepair, Up

LEMMA TurnEndsCalm ==
    ASSUME IInv, IInv', Calm, NEW w \in Workers, NEW outcome \in FinalPhases,
           turn_ends(w, outcome)
    PROVE  Calm'
<1>0. worker \in [Workers -> Procs] /\ worker[w] \in Procs /\ WorkerInv(w) /\ Serving(w) /\ Up(w)
      /\ worker[w].turn.st = "running" /\ worker[w].turn # NoTurn
      /\ UNCHANGED <<file, synced, side, harm, told, losses, errors>>
  <2>1. worker \in [Workers -> Procs] /\ worker[w] \in Procs /\ WorkerInv(w)
    BY ProcTypes DEF IInv
  <2>2. Serving(w) /\ worker[w].turn.st = "running"
        /\ UNCHANGED <<file, synced, side, harm, told, losses, errors>>
    BY DEF turn_ends, disk, backend, faults
  <2> QED
    BY <2>1, <2>2 DEF Up, Serving, NoTurn
<1>1. ~Pends(w, "turn") /\ ~Begins(w)
  BY <1>0 DEF WorkerInv, TurnInv, MainInv
<1>2. errors = 0 => LineInv(w) /\ SeenInv(w) /\ LiveInv(w)
  BY DEF Calm
<1> DEFINE turn == worker[w].turn
           entry == worker[w].mem[turn.op]
           token == Record(turn.op, outcome, entry.digest)
           ended == [turn EXCEPT !.st = "finishing", !.outcome = outcome]
<1>3. turn \in [st : {"running", "finishing", "reporting"}, op : Turns, outcome : FinalPhases]
      /\ entry \in Known
  BY <1>0 DEF Procs, TurnStates, NoTurn, Ops
<1>4. errors = 0 => entry.phase = "in_progress"
  BY <1>0, <1>2 DEF LiveInv
<1>5. errors = 0 => token \in Records /\ token.op = turn.op /\ token.phase = outcome
                    /\ Entry(token) = [phase |-> outcome, digest |-> entry.digest]
  <2>1. errors = 0 => entry.digest \in Digests
    BY <1>3, <1>4 DEF Known, Unknown
  <2>2. turn.op \in Ops /\ outcome \in PHASES
    BY <1>3 DEF Ops, PHASES
  <2> HIDE DEF turn, entry
  <2> QED
    BY <2>1, <2>2, TokenFacts DEF Record, Entry
<1>6. errors = 0 =>
        /\ worker'[w].pc = "serving" /\ worker'[w].mem = worker[w].mem
        /\ worker'[w].turn = ended
        /\ worker'[w].needs_newline = worker[w].needs_newline
        /\ worker'[w].io["main"] = worker[w].io["main"]
        /\ worker'[w].io["turn"] = [st |-> "write", token |-> token]
        /\ \A v \in Workers \ {w} : worker'[v] = worker[v]
  <2> DEFINE io == [worker[w].io EXCEPT !["turn"] = [st |-> "write", token |-> token]]
             after == [worker[w] EXCEPT !.turn = ended, !.io = io]
  <2>1. errors = 0 => worker' = [worker EXCEPT ![w] = after]
    BY <1>4 DEF turn_ends, OpenPhases
  <2> HIDE DEF token, ended
  <2>2. io["main"] = worker[w].io["main"] /\ io["turn"] = [st |-> "write", token |-> token]
    BY <1>0 DEF Procs, Threads
  <2> HIDE DEF io
  <2>3. /\ after.pc = "serving" /\ after.mem = worker[w].mem /\ after.turn = ended
        /\ after.needs_newline = worker[w].needs_newline /\ after.io = io
    BY <1>0 DEF Procs, Serving
  <2> HIDE DEF after
  <2>4. errors = 0 => worker'[w] = after /\ \A v \in Workers \ {w} : worker'[v] = worker[v]
    BY <1>0, <2>1
  <2> QED
    BY <2>2, <2>3, <2>4
<1>7. ended.st = "finishing" /\ ended.op = turn.op /\ ended.outcome = outcome /\ ended # NoTurn
  <2> HIDE DEF turn, entry
  <2> QED
    BY <1>3 DEF NoTurn
<1> HIDE DEF turn, entry, token, ended
<1>8. ASSUME errors = 0 PROVE Quiet(w)'
  <2>1. LineInv(w)'
    BY <1>0, <1>2, <1>6, <1>8 DEF LineInv, Serving
  <2>2. SeenInv(w)'
    <3>1. worker[w].io["turn"] = NoIO
      BY <1>1 DEF Pends
    <3>2. \A t \in Threads : Syncs(w, t)' <=> Syncs(w, t)
      BY <1>6, <1>8, <3>1 DEF Syncs, TokenOf, Threads, NoIO
    <3>3. \A t \in Threads : Syncs(w, t) => TokenOf(w, t)' = TokenOf(w, t)
      BY <1>6, <1>8, <3>1 DEF Syncs, TokenOf, Threads, NoIO
    <3>4. Entry(token) \in Log!Successors(worker[w].mem[token.op])
      BY <1>3, <1>4, <1>5, <1>8, SuccessorFacts DEF entry
    <3>5. \A t \in Threads : Writes(w, t)' =>
            \/ Writes(w, t) /\ TokenOf(w, t)' = TokenOf(w, t)
            \/ TokenOf(w, t)' = token
      BY <1>6, <1>8 DEF Writes, TokenOf, Threads
    <3>6. \A t \in Threads : Writes(w, t)' =>
            \/ Writes(w, t) /\ TokenOf(w, t)' = TokenOf(w, t)
            \/ Entry(TokenOf(w, t)') \in Log!Successors(worker[w].mem[TokenOf(w, t)'.op])
      BY <3>4, <3>5
    <3> QED
      BY <1>0, <1>2, <1>6, <1>8, <3>2, <3>3, <3>6, SeenKept
  <2>3. LiveInv(w)'
    <3>1. Pends(w, "main")' = Pends(w, "main") /\ TokenOf(w, "main")' = TokenOf(w, "main")
          /\ Pends(w, "turn")' /\ TokenOf(w, "turn")' = token
      BY <1>6, <1>8 DEF Pends, TokenOf, NoIO
    <3>2. Pends(w, "main") => TokenOf(w, "main").op \in ProbeIds
      BY <1>0, <1>1, <1>2, <1>8 DEF LiveInv
    <3>3. Serving(w)' /\ Up(w)'
      BY <1>6, <1>8 DEF Serving, Up
    <3>4. \A op \in Turns : worker[w].mem[op].phase = "in_progress" => turn.op = op
      BY <1>0, <1>2, <1>8 DEF LiveInv, turn
    <3>5. entry = worker[w].mem[turn.op]
      BY DEF entry
    <3> QED
      BY <1>4, <1>5, <1>6, <1>7, <1>8, <3>1, <3>2, <3>3, <3>4, <3>5 DEF LiveInv
  <2> QED
    BY <2>1, <2>2, <2>3 DEF Quiet
<1>9. errors = 0 => \A v \in Workers : Quiet(v)'
  BY <1>6, <1>8, OneIsQuiet DEF Up
<1>10. errors = 0 => RepairInv'
  BY <1>0, NoRepair, RepairKept DEF Calm, Serving
<1> QED
  BY <1>0, <1>9, <1>10, CalmKept

LEMMA ReportCalm ==
    ASSUME IInv, IInv', Calm, NEW w \in Workers, report(w)
    PROVE  Calm'
<1>0. worker \in [Workers -> Procs] /\ worker[w] \in Procs /\ WorkerInv(w) /\ Serving(w) /\ Up(w)
      /\ worker[w].turn.st = "reporting" /\ worker[w].turn # NoTurn
      /\ UNCHANGED <<file, synced, side, harm, losses, errors>>
  BY ProcTypes DEF IInv, Up, Serving, report, disk, faults, NoTurn
<1>1. ~Pends(w, "turn") /\ ~Begins(w)
  BY <1>0 DEF WorkerInv, TurnInv, MainInv
<1>2. errors = 0 => LineInv(w) /\ SeenInv(w) /\ LiveInv(w)
  BY DEF Calm
<1> DEFINE turn == worker[w].turn
<1>3. turn \in [st : {"running", "finishing", "reporting"}, op : Turns, outcome : FinalPhases]
  BY <1>0 DEF Procs, TurnStates, NoTurn
<1>4. errors = 0 => worker[w].mem[turn.op].phase = turn.outcome
  BY <1>0, <1>2 DEF LiveInv
<1>5. /\ worker'[w].pc = "serving" /\ worker'[w].mem = worker[w].mem
      /\ worker'[w].turn = NoTurn /\ worker'[w].io = worker[w].io
      /\ worker'[w].needs_newline = worker[w].needs_newline
      /\ \A v \in Workers \ {w} : worker'[v] = worker[v]
  BY <1>0 DEF report, Procs, Serving
<1>6. ASSUME errors = 0 PROVE Quiet(w)'
  <2>1. LineInv(w)'
    BY <1>0, <1>2, <1>5, <1>6 DEF LineInv, Serving
  <2>2. SeenInv(w)'
    <3>1. \A t \in Threads : (Syncs(w, t)' <=> Syncs(w, t)) /\ (Writes(w, t)' <=> Writes(w, t))
            /\ TokenOf(w, t)' = TokenOf(w, t)
      BY <1>5 DEF Syncs, Writes, TokenOf
    <3> QED
      BY <1>0, <1>2, <1>5, <1>6, <3>1, SeenKept
  <2>3. LiveInv(w)'
    <3>1. Pends(w, "main")' = Pends(w, "main") /\ TokenOf(w, "main")' = TokenOf(w, "main")
      BY <1>5 DEF Pends, TokenOf
    <3>2. Pends(w, "main") => TokenOf(w, "main").op \in ProbeIds
      BY <1>0, <1>1, <1>2, <1>6 DEF LiveInv
    <3>3. \A op \in Turns : worker[w].mem[op].phase # "in_progress"
      <4>1. \A op \in Turns : worker[w].mem[op].phase = "in_progress" => turn.op = op
        BY <1>0, <1>2, <1>6 DEF LiveInv
      <4>2. turn.outcome # "in_progress"
        BY <1>3 DEF FinalPhases
      <4> QED
        BY <1>4, <1>6, <4>1, <4>2
    <3> QED
      BY <1>5, <3>1, <3>2, <3>3 DEF LiveInv, Up, Serving
  <2> QED
    BY <2>1, <2>2, <2>3 DEF Quiet
<1>7. errors = 0 => \A v \in Workers : Quiet(v)'
  BY <1>5, <1>6, OneIsQuiet DEF Up
<1>8. errors = 0 => RepairInv'
  BY <1>0, NoRepair, RepairKept DEF Calm, Serving
<1>9. errors = 0 => ReportedIsRecorded'
  <2> SUFFICES ASSUME errors = 0, losses = 0, NEW op \in DOMAIN told',
                      NEW outcome \in told'[op] \cap FinalPhases
               PROVE  replay(file, op).phase = outcome
    BY <1>0 DEF ReportedIsRecorded
  <2>1. DOMAIN told = Turns /\ turn.op \in Turns /\ turn.op \in Ops
    BY <1>3 DEF IInv, Types, TypeOK, Ops
  <2>2. \A o \in Turns : \A x \in told[o] \cap FinalPhases : replay(file, o).phase = x
    BY <2>1 DEF Calm, ReportedIsRecorded
  <2>3. replay(file, turn.op).phase = turn.outcome
    <3>1. worker[w].mem[turn.op] = replay(file, turn.op)
      BY <1>0, <1>2, <1>3, <1>4, <2>1, FinishedIsReplayed
    <3> QED
      BY <1>4, <3>1
  <2>4. told' = told \/ told' = [told EXCEPT ![turn.op] = @ \union {turn.outcome}]
    BY DEF report, Answer
  <2> HIDE DEF turn
  <2> QED
    BY <2>1, <2>2, <2>3, <2>4
<1> QED
  BY <1>0, <1>7, <1>8, <1>9 DEF Calm, Quiet, Tidy

(* The torn line of a tidy file is its last token, a fragment.             *)
LEMMA TornToken ==
    ASSUME NEW f \in Seq(Tokens), Tidy(f), IsTorn(f)
    PROVE  /\ Len(f) \in Nat \ {0} /\ f[Len(f)] = Fragment
           /\ TornLine(f) = Quarantine(Len(f), <<Fragment>>)
<1> DEFINE n == Len(f)
           S == {0} \union {i \in DOMAIN f : f[i] = Newline}
<1>1. n \in Nat \ {0} /\ n \in 1..n /\ f[n] \in Tokens /\ f[n] # Newline
  BY DEF IsTorn, Unterminated
<1>2. f[n] = Fragment
  <2>1. f[n].tok # "record"
    BY <1>1, TidyLines DEF IsTorn
  <2> HIDE DEF n
  <2> QED
    BY <1>1, <2>1, TokenFacts DEF Tokens
<1>3. S \in SUBSET (0..(n - 1)) /\ S # {} /\ n - 1 \in S
  <2>1. n > 1 => n - 1 \in 1..n /\ f[n - 1] = Newline
    BY <1>1 DEF Tidy
  <2>2. DOMAIN f = 1..n
    OBVIOUS
  <2> HIDE DEF n
  <2>3. \A i \in 1..n : f[i] = Newline => i \in 0..(n - 1)
    BY <1>1
  <2>4. n - 1 \in 0..(n - 1) /\ (n = 1 => n - 1 = 0) /\ (n # 1 => n > 1 /\ n - 1 \in 1..n)
    BY <1>1
  <2>5. n - 1 \in S
    BY <2>1, <2>2, <2>4
  <2> QED
    BY <2>2, <2>3, <2>4, <2>5
<1>4. Max(S) = n - 1
  <2> HIDE DEF S, n
  <2>1. n - 1 \in Nat
    BY <1>1
  <2>2. Max(S) \in S /\ \A y \in S : y <= Max(S)
    BY <1>3, <2>1, HasMax
  <2> DEFINE m == Max(S)
  <2>3. m \in 0..(n - 1) /\ n - 1 <= m
    BY <1>3, <2>2
  <2> HIDE DEF m
  <2>4. m = n - 1
    BY <1>1, <2>3
  <2> QED
    BY <2>4 DEF m
<1>5. TornOffset(f) = n
  BY <1>1, <1>4 DEF TornOffset
<1>6. SubSeq(f, n, n) = <<Fragment>>
  <2>1. SubSeq(f, n, n) \in Seq(Tokens) /\ Len(SubSeq(f, n, n)) = 1 /\ SubSeq(f, n, n)[1] = f[n]
    BY <1>1
  <2> HIDE DEF n
  <2> QED
    BY <1>2, <2>1, Tuples
<1> QED
  BY <1>1, <1>2, <1>5, <1>6 DEF TornLine

LEMMA OpenCalm ==
    ASSUME IInv, IInv', Calm, LedgerAssumption, NEW w \in Workers, open(w)
    PROVE  Calm'
<1>0. Types /\ file \in Seq(Tokens) /\ worker \in [Workers -> Procs]
      /\ UNCHANGED <<file, synced, side, harm, told, losses, errors>>
  BY ProcTypes DEF IInv, Types, TypeOK, Tokens, open, disk, faults
<1>1. \A v \in Workers : ~InRepair(v)
  BY DEF open, CanLock, IInv, Exclusive, LedgerAssumption, Up, InRepair
<1>2. /\ worker'[w].pc = IF IsTorn(file) THEN "torn" ELSE "promote"
      /\ worker'[w].mem = [op \in Ops |-> replay(file, op)]
      /\ worker'[w].needs_newline = needs_newline(file)
      /\ worker'[w].turn = NoTurn
      /\ \A t \in Threads : worker'[w].io[t] = NoIO
  BY <1>0 DEF open, Down
<1>3. Quiet(w)'
  <2>1. LineInv(w)'
    <3>1. worker'[w].io["main"].st = "none"
      BY <1>2 DEF Threads, NoIO
    <3>2. ~IsTorn(file) => (needs_newline(file) <=> Unterminated(file))
      BY DEF needs_newline, IsTorn
    <3>3. IsTorn(file') <=> IsTorn(file)
      BY <1>0
    <3>4. Unterminated(file') <=> Unterminated(file)
      BY <1>0
    <3> QED
      BY <1>2, <3>1, <3>2, <3>3, <3>4 DEF LineInv
  <2>2. SeenInv(w)'
    BY <1>0, <1>2 DEF SeenInv, Writes, Syncs, Threads, NoIO
  <2>3. LiveInv(w)'
    BY <1>2 DEF LiveInv, Serving
  <2> QED
    BY <2>1, <2>2, <2>3 DEF Quiet
<1>4. \A v \in Workers : Quiet(v)'
  BY <1>2, <1>3, OneIsQuiet DEF Up
<1>5. errors = 0 => RepairInv'
  BY <1>0, <1>1, RepairKept DEF Calm
<1> QED
  BY <1>0, <1>4, <1>5, CalmKept

LEMMA WriteQuarantineCalm ==
    ASSUME IInv, IInv', Calm, NEW w \in Workers, write_quarantine(w)
    PROVE  Calm'
<1>0. Types /\ file \in Seq(Tokens) /\ worker \in [Workers -> Procs] /\ worker[w] \in Procs
      /\ UNCHANGED <<file, synced, harm, told, losses, errors>>
  BY ProcTypes DEF IInv, Types, TypeOK, Tokens, write_quarantine, backend, faults
<1>1. worker[w].pc = "torn" /\ Up(w) /\ Unterminated(file) /\ ~Pends(w, "main")
      /\ ~Pends(w, "turn")
  BY DEF write_quarantine, IInv, WorkerInv, MainInv, TurnInv, Up, Serving
<1>2. /\ worker'[w].pc = "newline" /\ worker'[w].mem = worker[w].mem
      /\ worker'[w].turn = worker[w].turn
      /\ worker'[w].io["main"] = [st |-> "write", token |-> Newline]
      /\ worker'[w].io["turn"] = NoIO
  BY <1>0, <1>1 DEF write_quarantine, Procs, Threads, Pends
<1>3. ASSUME errors = 0 PROVE (\A v \in Workers : Quiet(v)') /\ RepairInv'
  <2>1. LineInv(w) /\ SeenInv(w) /\ LiveInv(w) /\ Tidy(file) /\ RepairInv
    BY <1>3 DEF Calm
  <2>2. LineInv(w)'
    BY <1>0, <1>1, <1>2 DEF LineInv
  <2>3. SeenInv(w)'
    <3>1. \A t \in Threads : ~Syncs(w, t) /\ ~(Syncs(w, t)') /\ ~(Writes(w, t)')
      BY <1>1, <1>2, TokenFacts DEF Syncs, Writes, TokenOf, Threads, Pends, NoIO
    <3> QED
      BY <1>0, <1>1, <1>2, <2>1, <3>1, SeenKept
  <2>4. LiveInv(w)'
    BY <1>1, <1>2, <2>1 DEF LiveInv, Up, Serving
  <2>5. \A v \in Workers : Quiet(v)'
    BY <1>2, <2>2, <2>3, <2>4, OneIsQuiet DEF Quiet, Up
  <2>6. Len(file) \in Nat \ {0} /\ file[Len(file)] = Fragment
        /\ side' = Quarantine(Len(file), <<Fragment>>)
    BY <1>0, <1>1, <2>1, TornToken DEF LineInv, write_quarantine
  <2>7. side'.st = "present" /\ side'.offset = Len(file) /\ side'.fragment = <<Fragment>>
    BY <2>6 DEF Quarantine
  <2>8. RepairInv'
    <3> SUFFICES ASSUME harm \cap {"torn_again", "repair", "error"} = {}
                 PROVE  /\ "torn" \in harm
                        /\ \A i \in 1..Len(file) : file[i] = Fragment => i = Len(file)
                        /\ \A i \in 1..Len(file) : file[i] = Fragment => "torn" \in harm
                        /\ InRepair(w)'
      BY <1>0, <2>6, <2>7 DEF RepairInv
    <3>1. InRepair(w)'
      BY <1>2 DEF InRepair
    <3>2. Len(file) \in 1..Len(file)
      BY <2>6
    <3>3. side.st \in {"absent", "present", "malformed"}
      BY <1>0 DEF Types, TypeOK
    <3> QED
      BY <2>1, <2>6, <3>1, <3>2, <3>3 DEF RepairInv
  <2> QED
    BY <2>5, <2>8
<1>4. errors = 0 => ReportedIsRecorded'
  BY <1>0 DEF Calm, ReportedIsRecorded
<1> QED
  BY <1>0, <1>3, <1>4 DEF Calm, Quiet, Tidy

LEMMA PromoteCalm ==
    ASSUME IInv, IInv', Calm, NEW w \in Workers, promote(w)
    PROVE  Calm'
<1>0. Types /\ worker \in [Workers -> Procs] /\ worker[w] \in Procs
      /\ UNCHANGED <<file, synced, side, harm, told, losses, errors>>
  BY ProcTypes DEF IInv, Types, promote, disk, backend, faults
<1>1. worker[w].pc = "promote" /\ Up(w) /\ ~Pends(w, "main") /\ ~Pends(w, "turn")
  BY DEF promote, IInv, WorkerInv, TurnInv, Up, Serving, Idle, Pends
<1>2. PICK op \in Ops :
        /\ worker[w].mem[op].phase = "in_progress"
        /\ Pending(w, "main", Record(op, "uncertain", worker[w].mem[op].digest))
  BY DEF promote
<1> DEFINE token == Record(op, "uncertain", worker[w].mem[op].digest)
<1>3. token \in Records /\ token.op = op /\ worker[w].mem[op] \in Known
      /\ Entry(token) = [phase |-> "uncertain", digest |-> worker[w].mem[op].digest]
  <2>1. worker[w].mem[op] \in Known
    BY <1>0 DEF Procs
  <2>2. worker[w].mem[op].digest \in Digests
    BY <1>2, <2>1 DEF Known, Unknown
  <2> QED
    BY <2>1, <2>2, TokenFacts DEF PHASES, OpenPhases, Record, Entry
<1>4. worker' = [worker EXCEPT ![w].io["main"] = [st |-> "write", token |-> token]]
  BY <1>2 DEF Pending
<1> HIDE DEF token
<1>5. /\ worker'[w].pc = "promote" /\ worker'[w].mem = worker[w].mem
      /\ worker'[w].turn = worker[w].turn
      /\ worker'[w].needs_newline = worker[w].needs_newline
      /\ worker'[w].io["main"] = [st |-> "write", token |-> token]
      /\ worker'[w].io["turn"] = NoIO
  BY <1>0, <1>1, <1>4 DEF Procs, Threads, Pends
<1>6. ASSUME errors = 0 PROVE Quiet(w)'
  <2>1. LineInv(w) /\ SeenInv(w) /\ LiveInv(w)
    BY <1>6 DEF Calm
  <2>2. LineInv(w)'
    BY <1>0, <1>1, <1>5, <2>1 DEF LineInv, Pends, NoIO
  <2>3. SeenInv(w)'
    <3>1. \A t \in Threads : ~Syncs(w, t) /\ ~(Syncs(w, t)')
      BY <1>1, <1>5 DEF Syncs, TokenOf, Threads, Pends, NoIO
    <3>2. \A t \in Threads : Writes(w, t)' => TokenOf(w, t)' = token
      BY <1>5 DEF Writes, TokenOf, Threads, NoIO
    <3>3. Entry(token) \in Log!Successors(worker[w].mem[token.op])
      BY <1>2, <1>3, SuccessorFacts
    <3>4. \A t \in Threads : Writes(w, t)' =>
            Entry(TokenOf(w, t)') \in Log!Successors(worker[w].mem[TokenOf(w, t)'.op])
      BY <3>2, <3>3
    <3> QED
      BY <1>0, <1>1, <1>5, <2>1, <3>1, <3>4, SeenKept
  <2>4. LiveInv(w)'
    BY <1>1, <1>5, <2>1 DEF LiveInv, Up, Serving
  <2> QED
    BY <2>2, <2>3, <2>4 DEF Quiet
<1>7. errors = 0 => \A v \in Workers : Quiet(v)'
  BY <1>5, <1>6, OneIsQuiet DEF Up
<1>8. errors = 0 => RepairInv'
  BY <1>0, <1>1, NoRepair, RepairKept DEF Calm
<1> QED
  BY <1>0, <1>7, <1>8, CalmKept

LEMMA OpenedCalm ==
    ASSUME IInv, IInv', Calm, NEW w \in Workers, opened(w)
    PROVE  Calm'
<1>0. Types /\ worker \in [Workers -> Procs] /\ worker[w] \in Procs
      /\ UNCHANGED <<file, synced, side, harm, told, losses, errors>>
  BY ProcTypes DEF IInv, Types, opened, disk, backend, faults
<1>1. worker[w].pc = "promote" /\ Up(w) /\ ~Pends(w, "main") /\ ~Pends(w, "turn")
  BY DEF opened, IInv, WorkerInv, TurnInv, Up, Serving, Idle, Pends
<1>2. /\ worker'[w].pc = "serving" /\ worker'[w].mem = worker[w].mem
      /\ worker'[w].turn = worker[w].turn /\ worker'[w].io = worker[w].io
      /\ worker'[w].needs_newline = worker[w].needs_newline
  BY <1>0 DEF opened, Procs
<1>3. ASSUME errors = 0 PROVE Quiet(w)'
  <2>1. LineInv(w) /\ SeenInv(w) /\ LiveInv(w)
    BY <1>3 DEF Calm
  <2>2. LineInv(w)'
    BY <1>0, <1>1, <1>2, <2>1 DEF LineInv
  <2>3. SeenInv(w)'
    <3>1. \A t \in Threads : (Syncs(w, t)' <=> Syncs(w, t)) /\ (Writes(w, t)' <=> Writes(w, t))
            /\ TokenOf(w, t)' = TokenOf(w, t)
      BY <1>2 DEF Syncs, Writes, TokenOf
    <3> QED
      BY <1>0, <1>1, <1>2, <2>1, <3>1, SeenKept
  <2>4. LiveInv(w)'
    <3>1. \A op \in Turns : worker[w].mem[op].phase # "in_progress"
      BY DEF opened, Ops
    <3>2. worker'[w].turn = NoTurn /\ ~(Pends(w, "main")')
      BY <1>1, <1>2, <2>1 DEF LiveInv, Serving, Pends
    <3> QED
      BY <1>2, <3>1, <3>2 DEF LiveInv, Serving
  <2> QED
    BY <2>2, <2>3, <2>4 DEF Quiet
<1>4. errors = 0 => \A v \in Workers : Quiet(v)'
  BY <1>2, <1>3, OneIsQuiet DEF Up
<1>5. errors = 0 => RepairInv'
  BY <1>0, <1>1, NoRepair, RepairKept DEF Calm
<1> QED
  BY <1>0, <1>4, <1>5, CalmKept

(* The file moves as the abstract log may: not at all, or by one record    *)
(* that may follow what the file held of its operation.                    *)
Advances(f, g) ==
    \/ Same(f, g)
    \/ \E token \in Records :
        Reads(f, g, token) /\ Entry(token) \in Log!Successors(replay(f, token.op))

(* The appends of the request loop and of the turn thread are about        *)
(* different operations.                                                   *)
LEMMA OtherOperation ==
    ASSUME IInv, LedgerAssumption, NEW w \in Workers, LiveInv(w),
           NEW t \in Threads, NEW u \in Threads \ {t}, Pends(w, t), Pends(w, u)
    PROVE  TokenOf(w, t).op # TokenOf(w, u).op /\ TokenOf(w, t) \in Records
           /\ TokenOf(w, u) \in Records
<1>1. Pends(w, "main") /\ Pends(w, "turn") /\ worker[w] \in Procs /\ WorkerInv(w)
  BY ProcTypes DEF Threads, IInv
<1>2. Serving(w) /\ worker[w].turn.st = "finishing" /\ TokenOf(w, "turn") \in Records
      /\ worker[w].turn.op = TokenOf(w, "turn").op
  BY <1>1 DEF WorkerInv, TurnInv
<1>3. worker[w].turn # NoTurn /\ TokenOf(w, "turn").op \in Turns
  BY <1>1, <1>2 DEF Procs, TurnStates, NoTurn
<1>4. TokenOf(w, "main").op \in ProbeIds /\ TokenOf(w, "main") \in Records
  BY <1>1, <1>2, <1>3 DEF LiveInv, WorkerInv, MainInv, Serving
<1>5. TokenOf(w, "main").op # TokenOf(w, "turn").op
  BY <1>3, <1>4 DEF LedgerAssumption
<1> QED
  BY <1>2, <1>4, <1>5 DEF Threads

(* An append that is about to be written fits the file and its log.        *)
LEMMA WriteFits ==
    ASSUME IInv, LedgerAssumption, NEW w \in Workers, LineInv(w), SeenInv(w), LiveInv(w),
           NEW t \in Threads, worker[w].io[t].st = "write"
    PROVE  /\ TokenOf(w, t) \in Records \union {Newline} /\ Fits(w, TokenOf(w, t))
           /\ worker[w].needs_newline \in BOOLEAN
           /\ TokenOf(w, t) \in Records =>
                Entry(TokenOf(w, t)) \in Log!Successors(replay(file, TokenOf(w, t).op))
           /\ \A u \in Threads : Syncs(w, u) /\ TokenOf(w, t) \in Records =>
                TokenOf(w, u).op # TokenOf(w, t).op
           /\ worker[w].pc \in {"promote", "serving"} => ~IsTorn(file)
           /\ side.st = "absent" => worker[w].pc # "newline"
<1>1. Pends(w, t) /\ Up(w) /\ worker[w] \in Procs /\ WorkerInv(w)
  <2>1. Pends(w, t)
    BY DEF Pends, NoIO
  <2> QED
    BY <2>1, ProcTypes, PendingFacts DEF IInv
<1>2. TokenOf(w, t) \in Records \union {Newline}
  BY <1>1, PendingFacts
<1>3. \A u \in Threads : Syncs(w, u) /\ TokenOf(w, t) \in Records =>
                TokenOf(w, u).op # TokenOf(w, t).op
  <2> SUFFICES ASSUME NEW u \in Threads, Syncs(w, u) PROVE TokenOf(w, u).op # TokenOf(w, t).op
    OBVIOUS
  <2>1. u # t /\ Pends(w, u)
    BY DEF Syncs, Pends, NoIO
  <2> QED
    BY <1>1, <2>1, OtherOperation
<1>4. TokenOf(w, t) \in Records =>
            Entry(TokenOf(w, t)) \in Log!Successors(replay(file, TokenOf(w, t).op))
  <2> SUFFICES ASSUME TokenOf(w, t) \in Records
               PROVE  Entry(TokenOf(w, t)) \in Log!Successors(replay(file, TokenOf(w, t).op))
    OBVIOUS
  <2>1. TokenOf(w, t).op \in Ops
    BY TokenFacts
  <2>2. worker[w].mem[TokenOf(w, t).op] = replay(file, TokenOf(w, t).op)
    BY <1>1, <1>3, <2>1 DEF SeenInv
  <2>3. Entry(TokenOf(w, t)) \in Log!Successors(worker[w].mem[TokenOf(w, t).op])
    BY <1>1 DEF SeenInv, Writes
  <2> QED
    BY <2>2, <2>3
<1>5. worker[w].pc \in {"newline", "promote", "serving"}
  BY <1>1, PendingFacts DEF Procs, Up
<1>6. Fits(w, TokenOf(w, t))
  <2>1. CASE worker[w].pc = "newline"
    <3>1. t = "main" /\ TokenOf(w, t) = Newline
      BY <1>1, <2>1, PendingFacts
    <3> QED
      BY <2>1, <3>1 DEF LineInv, Fits
  <2>2. CASE worker[w].pc # "newline"
    <3>1. TokenOf(w, t) \in Records /\ TokenOf(w, t) # Newline
      BY <1>1, <1>5, <2>2, PendingFacts, TokenFacts
    <3>2. worker[w].io["main"].st # "sync" => (worker[w].needs_newline <=> Unterminated(file))
      BY <1>5, <2>2 DEF LineInv
    <3>3. worker[w].io["main"].st = "sync" => ~worker[w].needs_newline /\ ~Unterminated(file)
      <4> SUFFICES ASSUME worker[w].io["main"].st = "sync"
                   PROVE  ~worker[w].needs_newline /\ ~Unterminated(file)
        OBVIOUS
      <4>1. t = "turn"
        BY DEF Threads
      <4>2. worker[w].turn # NoTurn
        BY <1>1, <4>1 DEF WorkerInv, TurnInv, NoTurn
      <4> QED
        BY <1>5, <2>2, <4>2 DEF LineInv
    <3> QED
      BY <3>1, <3>2, <3>3 DEF Fits
  <2> QED
    BY <2>1, <2>2
<1>7. worker[w].needs_newline \in BOOLEAN
  BY <1>1 DEF Procs
<1>8. worker[w].pc \in {"promote", "serving"} => ~IsTorn(file)
  BY DEF LineInv
<1>9. side.st = "absent" => worker[w].pc # "newline"
  BY <1>1 DEF WorkerInv, SideInv
<1> QED
  BY <1>2, <1>3, <1>4, <1>6, <1>7, <1>8, <1>9

(* A write tears nothing: a fragment it leaves behind has its sidecar.     *)
LEMMA FragmentIsQuarantined ==
    ASSUME IInv, Tidy(file), RepairInv, harm \cap {"torn_again", "repair", "error"} = {},
           NEW w \in Workers, worker[w].pc \in {"newline", "promote", "serving"},
           worker[w].pc \in {"promote", "serving"} => ~IsTorn(file),
           side.st = "absent" => worker[w].pc # "newline",
           NEW i \in 1..Len(file), file[i] = Fragment
    PROVE  side.st = "present"
<1>1. file \in Seq(Tokens) /\ side.st \in {"absent", "malformed", "present"}
  BY DEF IInv, Types, TypeOK, Tokens
<1>2. SUFFICES ASSUME side.st = "absent" PROVE FALSE
  BY <1>1 DEF RepairInv
<1>3. i = Len(file) /\ ~IsTorn(file)
  BY <1>2 DEF RepairInv
<1>4. file[i].tok # "record" /\ file[i] # Newline /\ file # <<>>
  BY DEF Fragment, Newline
<1> QED
  BY <1>3, <1>4 DEF IsTorn, Unterminated, IsRecordLine

(* What run() returned stays recorded while the log advances.              *)
LEMMA AdvancesKeepTold ==
    ASSUME IInv, IInv', errors = 0 => ReportedIsRecorded,
           errors' = 0 => errors = 0, losses' = 0 => losses = 0, told' = told,
           losses' = 0 /\ errors' = 0 => Advances(file, file')
    PROVE  ReportedIsRecorded'
<1>1. ASSUME losses' = 0, errors' = 0, NEW op \in Turns
      PROVE  \/ replay(file', op) = replay(file, op)
             \/ replay(file', op) \in Log!Successors(replay(file, op))
  <2>1. op \in Ops
    BY DEF Ops
  <2>2. CASE Same(file, file')
    BY <2>1, <2>2 DEF Same
  <2>3. ASSUME NEW token \in Records, Reads(file, file', token),
               Entry(token) \in Log!Successors(replay(file, token.op))
        PROVE  \/ replay(file', op) = replay(file, op)
               \/ replay(file', op) \in Log!Successors(replay(file, op))
    BY <2>1, <2>3 DEF Reads
  <2> QED
    BY <1>1, <2>2, <2>3 DEF Advances
<1> QED
  BY <1>1, ToldKept

(* The facts of a write that the lemmas below share.                       *)
LEMMA WriteFacts ==
    ASSUME IInv, NEW w \in Workers, NEW t \in Threads, write(w, t)
    PROVE  /\ worker[w].io[t].st = "write" /\ Pends(w, t) /\ Up(w)
           /\ worker'[w].pc = worker[w].pc /\ worker'[w].mem = worker[w].mem
           /\ worker'[w].turn = worker[w].turn
           /\ worker'[w].needs_newline = worker[w].needs_newline
           /\ worker'[w].io[t] = [st |-> "sync", token |-> TokenOf(w, t)]
           /\ \A u \in Threads \ {t} : worker'[w].io[u] = worker[w].io[u]
           /\ \A v \in Workers \ {w} : worker'[v] = worker[v]
           /\ file' = file \o Payload(w, TokenOf(w, t))
           /\ UNCHANGED <<synced, side, told, harm, losses, errors>>
<1>1. Pends(w, t) /\ Up(w) /\ worker[w].io[t].st = "write"
  BY PendingFacts DEF write, Pends, NoIO
<1>2. worker \in [Workers -> Procs] /\ worker[w] \in Procs
  BY ProcTypes DEF IInv
<1>3. worker[w].io[t] \in [st : {"write", "sync"}, token : Records \union {Newline}]
  BY <1>1, <1>2 DEF Procs, IOs, NoIO
<1> DEFINE done == [worker[w].io[t] EXCEPT !.st = "sync"]
           io == [worker[w].io EXCEPT ![t] = done]
           after == [worker[w] EXCEPT !.io = io]
<1>4. done = [st |-> "sync", token |-> TokenOf(w, t)]
  BY <1>3 DEF TokenOf
<1>5. worker' = [worker EXCEPT ![w] = after]
  BY DEF write
<1> HIDE DEF done
<1>6. io[t] = done /\ \A u \in Threads \ {t} : io[u] = worker[w].io[u]
  BY <1>2 DEF Procs
<1> HIDE DEF io
<1>7. after.io = io /\ after.pc = worker[w].pc /\ after.mem = worker[w].mem
      /\ after.turn = worker[w].turn /\ after.needs_newline = worker[w].needs_newline
  BY <1>2 DEF Procs
<1> HIDE DEF after
<1>8. worker'[w] = after /\ \A v \in Workers \ {w} : worker'[v] = worker[v]
  BY <1>2, <1>5
<1>9. file' = file \o Payload(w, TokenOf(w, t))
      /\ UNCHANGED <<synced, side, told, harm, losses, errors>>
  BY DEF write, TokenOf, backend, faults
<1> QED
  BY <1>1, <1>4, <1>6, <1>7, <1>8, <1>9

(* The log a write leaves behind.                                          *)
LEMMA WriteAdvances ==
    ASSUME IInv, LedgerAssumption, Calm, errors = 0,
           NEW w \in Workers, NEW t \in Threads, write(w, t)
    PROVE  /\ Tidy(file') /\ ~Unterminated(file') /\ Whole(file, file') /\ Advances(file, file')
           /\ TokenOf(w, t) = Newline => Same(file, file')
           /\ TokenOf(w, t) \in Records => Reads(file, file', TokenOf(w, t))
<1>1. LineInv(w) /\ SeenInv(w) /\ LiveInv(w) /\ Tidy(file) /\ file \in Seq(Tokens)
  BY DEF Calm, IInv, Types, TypeOK, Tokens
<1>2. worker[w].io[t].st = "write" /\ file' = file \o Payload(w, TokenOf(w, t))
  BY WriteFacts
<1>3. /\ TokenOf(w, t) \in Records \union {Newline} /\ Fits(w, TokenOf(w, t))
      /\ worker[w].needs_newline \in BOOLEAN
      /\ TokenOf(w, t) \in Records =>
            Entry(TokenOf(w, t)) \in Log!Successors(replay(file, TokenOf(w, t).op))
  BY <1>1, <1>2, WriteFits
<1>4. /\ Tidy(file') /\ ~Unterminated(file') /\ Whole(file, file')
      /\ TokenOf(w, t) = Newline => Same(file, file')
      /\ TokenOf(w, t) \in Records => Reads(file, file', TokenOf(w, t))
  BY <1>1, <1>2, <1>3, WholeWrite
<1>5. Advances(file, file')
  BY <1>3, <1>4 DEF Advances
<1> QED
  BY <1>4, <1>5

LEMMA WriteCalm ==
    ASSUME IInv, IInv', LedgerAssumption, Calm, NEW w \in Workers, NEW t \in Threads, write(w, t)
    PROVE  Calm'
<1>0. /\ worker[w].io[t].st = "write" /\ Pends(w, t) /\ Up(w)
      /\ worker'[w].pc = worker[w].pc /\ worker'[w].mem = worker[w].mem
      /\ worker'[w].turn = worker[w].turn
      /\ worker'[w].needs_newline = worker[w].needs_newline
      /\ worker'[w].io[t] = [st |-> "sync", token |-> TokenOf(w, t)]
      /\ \A u \in Threads \ {t} : worker'[w].io[u] = worker[w].io[u]
      /\ \A v \in Workers \ {w} : worker'[v] = worker[v]
      /\ file' = file \o Payload(w, TokenOf(w, t))
      /\ UNCHANGED <<synced, side, told, harm, losses, errors>>
  BY WriteFacts
<1> DEFINE token == TokenOf(w, t)
<1>1. Types /\ file \in Seq(Tokens) /\ file' \in Seq(Tokens) /\ WorkerInv(w) /\ worker[w] \in Procs
  BY ProcTypes DEF IInv, Types, TypeOK, Tokens
<1>2. t \in {"main", "turn"} /\ worker[w].pc \in {"newline", "promote", "serving"}
      /\ (t = "turn" => Serving(w)) /\ token \in Records \union {Newline}
      /\ (worker[w].pc = "newline" => t = "main" /\ token = Newline)
  BY <1>0, <1>1, PendingFacts DEF Threads, Procs, Up
<1>3. /\ \A u \in Threads : TokenOf(w, u)' = TokenOf(w, u) /\ Pends(w, u)' = Pends(w, u)
      /\ \A u \in Threads : Syncs(w, u)' <=> Syncs(w, u) \/ (u = t /\ token \in Records)
      /\ \A u \in Threads : Writes(w, u)' => Writes(w, u)
  <2>1. \A u \in Threads : TokenOf(w, u)' = TokenOf(w, u)
    BY <1>0 DEF TokenOf
  <2>2. \A u \in Threads : Pends(w, u)' = Pends(w, u)
    <3>1. Pends(w, t)'
      BY <1>0 DEF Pends, NoIO
    <3> QED
      BY <1>0, <3>1 DEF Pends
  <2>3. \A u \in Threads : Syncs(w, u)' <=> Syncs(w, u) \/ (u = t /\ token \in Records)
    <3>1. Syncs(w, t)' <=> token \in Records
      BY <1>0, <2>1 DEF Syncs
    <3>2. ~Syncs(w, t)
      BY <1>0 DEF Syncs
    <3>3. \A u \in Threads \ {t} : Syncs(w, u)' <=> Syncs(w, u)
      BY <1>0, <2>1 DEF Syncs
    <3> QED
      BY <3>1, <3>2, <3>3
  <2>4. \A u \in Threads : Writes(w, u)' => Writes(w, u)
    <3>1. ~(Writes(w, t)')
      BY <1>0 DEF Writes
    <3>2. \A u \in Threads \ {t} : Writes(w, u)' <=> Writes(w, u)
      BY <1>0, <2>1 DEF Writes
    <3> QED
      BY <3>1, <3>2
  <2> QED
    BY <2>1, <2>2, <2>3, <2>4
<1>4. ASSUME errors = 0 PROVE (\A v \in Workers : Quiet(v)') /\ RepairInv'
  <2>1. LineInv(w) /\ SeenInv(w) /\ LiveInv(w) /\ Tidy(file) /\ RepairInv
    BY <1>4 DEF Calm
  <2>2. /\ Tidy(file') /\ ~Unterminated(file') /\ Whole(file, file')
        /\ token = Newline => Same(file, file')
        /\ token \in Records => Reads(file, file', token)
    BY <1>4, WriteAdvances
  <2>3. /\ \A u \in Threads : Syncs(w, u) /\ token \in Records => TokenOf(w, u).op # token.op
        /\ worker[w].pc \in {"promote", "serving"} => ~IsTorn(file)
        /\ side.st = "absent" => worker[w].pc # "newline"
    BY <1>0, <2>1, WriteFits
  <2>4. LineInv(w)'
    <3>1. ~IsTorn(file')
      BY <2>2 DEF IsTorn
    <3>2. worker[w].pc = "newline" => worker'[w].io["main"].st = "sync"
      BY <1>0, <1>2
    <3>3. worker'[w].io["main"].st # "sync" => worker'[w].turn # NoTurn
      BY <1>0, <1>1, <1>2 DEF WorkerInv, TurnInv, NoTurn
    <3>4. worker[w].pc \in {"promote", "serving"} /\ worker'[w].turn # NoTurn =>
            ~worker'[w].needs_newline
      BY <1>0, <2>1 DEF LineInv
    <3> QED
      BY <1>0, <1>2, <2>2, <3>1, <3>2, <3>3, <3>4 DEF LineInv
  <2>5. SeenInv(w)'
    <3>1. ASSUME NEW op \in Ops, \A u \in Threads : Syncs(w, u)' => TokenOf(w, u)'.op # op
          PROVE  worker[w].mem[op] = replay(file', op)
      <4>1. worker[w].mem[op] = replay(file, op)
        BY <1>0, <1>3, <2>1, <3>1 DEF SeenInv
      <4>2. token \in Records => token.op # op
        BY <1>3, <3>1
      <4> QED
        BY <1>2, <2>2, <4>1, <4>2 DEF Reads, Same
    <3>2. ASSUME NEW u \in Threads, Syncs(w, u)'
          PROVE  replay(file', TokenOf(w, u).op) = Entry(TokenOf(w, u))
      <4>1. TokenOf(w, u) \in Records /\ TokenOf(w, u).op \in Ops
        BY <1>3, <3>2, TokenFacts DEF Syncs
      <4>2. CASE u = t /\ token \in Records
        BY <2>2, <4>1, <4>2 DEF Reads
      <4>3. CASE Syncs(w, u)
        <5>1. replay(file, TokenOf(w, u).op) = Entry(TokenOf(w, u))
          BY <1>0, <2>1, <4>3 DEF SeenInv
        <5> QED
          BY <1>2, <2>2, <2>3, <4>1, <4>3, <5>1 DEF Reads, Same
      <4> QED
        BY <1>3, <3>2, <4>2, <4>3
    <3>3. ASSUME NEW u \in Threads, Writes(w, u)' \/ Syncs(w, u)'
          PROVE  Entry(TokenOf(w, u)) \in Log!Successors(worker[w].mem[TokenOf(w, u).op])
      <4>1. Writes(w, u) \/ Syncs(w, u)
        BY <1>0, <1>3, <3>3 DEF Writes
      <4> QED
        BY <1>0, <2>1, <4>1 DEF SeenInv
    <3>4. \A u \in Threads : Entry(TokenOf(w, u))' = Entry(TokenOf(w, u))
      BY <1>3 DEF Entry
    <3> QED
      BY <1>0, <1>3, <3>1, <3>2, <3>3, <3>4 DEF SeenInv
  <2>6. LiveInv(w)'
    <3>1. "main" \in Threads /\ "turn" \in Threads
      BY DEF Threads
    <3>2. (Begins(w)' <=> Begins(w)) /\ (Serving(w)' <=> Serving(w)) /\ (Up(w)' <=> Up(w))
      BY <1>0, <1>3, <3>1 DEF Begins, Serving, Up
    <3> QED
      BY <1>0, <1>3, <2>1, <3>1, <3>2 DEF LiveInv
  <2>7. \A v \in Workers : Quiet(v)'
    BY <1>0, <2>4, <2>5, <2>6, OneIsQuiet DEF Quiet, Up
  <2>8. RepairInv'
    <3> SUFFICES ASSUME harm \cap {"torn_again", "repair", "error"} = {} PROVE RepairInv'
      BY <1>0 DEF RepairInv
    <3>1. \A i \in 1..Len(file') : file'[i] = Fragment =>
                i \in 1..Len(file) /\ file[i] = Fragment /\ side.st = "present"
      BY <1>2, <2>1, <2>2, <2>3, FragmentIsQuarantined DEF Whole
    <3>2. \A v \in Workers : InRepair(v) => InRepair(v)'
      BY <1>0 DEF InRepair
    <3>3. Ends(side)' = Ends(side)
      BY <1>0 DEF Ends
    <3>4. Len(file) <= Len(file') /\ Len(file) \in Nat /\ Len(file') \in Nat
          /\ \A i \in 1..Len(file) : file'[i] = file[i]
      <4>1. Payload(w, token) \in Seq(Tokens)
        BY <1>0, <1>1, <1>2, PayloadType
      <4> HIDE DEF token
      <4> QED
        BY <1>0, <1>1, <4>1, Extension DEF token
    <3>5. side.st = "present" => side.offset \in 1..Len(file') /\ file'[side.offset] = file[side.offset]
      BY <2>1, <3>4 DEF RepairInv
    <3> QED
      BY <1>0, <2>1, <3>1, <3>2, <3>3, <3>5 DEF RepairInv
  <2> QED
    BY <2>7, <2>8
<1>5. errors = 0 => Tidy(file') /\ Advances(file, file')
  BY WriteAdvances
<1>6. errors = 0 => ReportedIsRecorded'
  BY <1>0, <1>5, AdvancesKeepTold DEF Calm
<1> QED
  BY <1>0, <1>4, <1>5, <1>6 DEF Calm, Quiet, Tidy

(* An fsync that starts a turn.                                            *)
Starts(w, t) == t = "main" /\ Begins(w)

(* The facts of an fsync that the lemma below needs.                       *)
LEMMA SyncFacts ==
    ASSUME IInv, NEW w \in Workers, NEW t \in Threads, sync(w, t)
    PROVE  /\ worker[w].io[t].st = "sync" /\ Pends(w, t) /\ Up(w)
           /\ worker'[w].pc = IF worker[w].pc = "newline" THEN "promote" ELSE worker[w].pc
           /\ ~worker'[w].needs_newline
           /\ worker'[w].io[t] = NoIO
           /\ \A u \in Threads \ {t} : worker'[w].io[u] = worker[w].io[u]
           /\ \A op \in Ops : worker'[w].mem[op] =
                IF TokenOf(w, t) \in Records /\ TokenOf(w, t).op = op THEN Entry(TokenOf(w, t))
                ELSE worker[w].mem[op]
           /\ Starts(w, t) => worker'[w].turn =
                [st |-> "running", op |-> TokenOf(w, t).op, outcome |-> "committed"]
           /\ t = "turn" => worker'[w].turn = [worker[w].turn EXCEPT !.st = "reporting"]
           /\ t # "turn" /\ ~Starts(w, t) => worker'[w].turn = worker[w].turn
           /\ synced' = Len(file)
           /\ UNCHANGED <<file, side, told, harm, losses, errors>>
<1> DEFINE token == TokenOf(w, t)
           isEntry == token # Newline
           starts == /\ t = "main" /\ Serving(w) /\ isEntry
                     /\ token.phase = "in_progress" /\ token.op \in Turns
<1>1. Pends(w, t) /\ Up(w) /\ worker[w].io[t].st = "sync"
  <2>1. worker[w].io[t].st = "sync" /\ Pends(w, t)
    BY DEF sync, Pends, NoIO
  <2> QED
    BY <2>1, PendingFacts
<1>2. worker \in [Workers -> Procs] /\ worker[w] \in Procs /\ WorkerInv(w)
  BY ProcTypes DEF IInv
<1>3. isEntry <=> token \in Records
  BY <1>1, PendingFacts, TokenFacts
<1>4. starts <=> Starts(w, t)
  <2>1. Serving(w) /\ t = "main" => token \in Records
    BY <1>1, <1>2 DEF WorkerInv, MainInv, Serving
  <2>2. Serving(w) /\ t = "main" => isEntry
    BY <2>1, TokenFacts
  <2> QED
    BY <1>1, <2>2 DEF Begins, Starts
<1> DEFINE entry == [phase |-> token.phase, digest |-> token.digest]
           io == [worker[w].io EXCEPT ![t] = NoIO]
           mem == IF isEntry THEN [worker[w].mem EXCEPT ![token.op] = entry] ELSE worker[w].mem
           turn == IF starts
                   THEN [st |-> "running", op |-> token.op, outcome |-> "committed"]
                   ELSE IF t = "turn" THEN [worker[w].turn EXCEPT !.st = "reporting"]
                   ELSE worker[w].turn
           after == [worker[w] EXCEPT !.io = io, !.needs_newline = FALSE, !.mem = mem,
                !.pc = IF worker[w].pc = "newline" THEN "promote" ELSE worker[w].pc,
                !.turn = turn]
<1>5. /\ worker' = [worker EXCEPT ![w] = after]
      /\ synced' = Len(file)
      /\ UNCHANGED <<file, side, told, harm, losses, errors>>
  BY DEF sync, TokenOf, faults
<1>6. io[t] = NoIO /\ \A u \in Threads \ {t} : io[u] = worker[w].io[u]
  BY <1>2 DEF Procs
<1>7. \A op \in Ops : mem[op] =
          IF token \in Records /\ token.op = op THEN Entry(token) ELSE worker[w].mem[op]
  <2>1. worker[w].mem \in [Ops -> Known] /\ entry = Entry(token)
    BY <1>2 DEF Procs, Entry
  <2>2. \A op \in Ops : [worker[w].mem EXCEPT ![token.op] = entry][op] =
            IF token.op = op THEN entry ELSE worker[w].mem[op]
    BY <2>1
  <2> HIDE DEF entry, token
  <2> QED
    BY <1>3, <2>1, <2>2
<1>8. /\ starts => turn = [st |-> "running", op |-> token.op, outcome |-> "committed"]
      /\ t = "turn" => turn = [worker[w].turn EXCEPT !.st = "reporting"]
      /\ t # "turn" /\ ~starts => turn = worker[w].turn
  OBVIOUS
<1> HIDE DEF io, mem, turn
<1>9. /\ after.io = io /\ after.mem = mem /\ after.turn = turn /\ after.needs_newline = FALSE
      /\ after.pc = IF worker[w].pc = "newline" THEN "promote" ELSE worker[w].pc
  BY <1>2 DEF Procs
<1> HIDE DEF after, starts
<1>10. worker'[w] = after
  BY <1>2, <1>5
<1> QED
  BY <1>1, <1>4, <1>5, <1>6, <1>7, <1>8, <1>9, <1>10

LEMMA SyncCalm ==
    ASSUME IInv, IInv', LedgerAssumption, Calm, NEW w \in Workers, NEW t \in Threads, sync(w, t)
    PROVE  Calm'
<1> DEFINE token == TokenOf(w, t)
           mem == worker'[w].mem
<1>0. /\ worker[w].io[t].st = "sync" /\ Pends(w, t) /\ Up(w)
      /\ worker'[w].pc = IF worker[w].pc = "newline" THEN "promote" ELSE worker[w].pc
      /\ ~worker'[w].needs_newline
      /\ worker'[w].io[t] = NoIO
      /\ \A u \in Threads \ {t} : worker'[w].io[u] = worker[w].io[u]
      /\ \A op \in Ops : mem[op] =
           IF token \in Records /\ token.op = op THEN Entry(token) ELSE worker[w].mem[op]
      /\ Starts(w, t) => worker'[w].turn =
           [st |-> "running", op |-> token.op, outcome |-> "committed"]
      /\ t = "turn" => worker'[w].turn = [worker[w].turn EXCEPT !.st = "reporting"]
      /\ t # "turn" /\ ~Starts(w, t) => worker'[w].turn = worker[w].turn
      /\ synced' = Len(file)
      /\ UNCHANGED <<file, side, told, harm, losses, errors>>
  BY SyncFacts
<1>1. Types /\ file \in Seq(Tokens) /\ WorkerInv(w) /\ worker[w] \in Procs
      /\ synced \in Nat /\ synced <= Len(file) /\ Len(file) \in Nat
  BY ProcTypes DEF IInv, Types, TypeOK, Tokens
<1>2. t \in {"main", "turn"} /\ worker[w].pc \in {"newline", "promote", "serving"}
      /\ (t = "turn" => Serving(w)) /\ token \in Records \union {Newline}
      /\ (worker[w].pc = "newline" => t = "main" /\ token = Newline)
      /\ (worker[w].pc # "newline" => token \in Records) /\ Newline \notin Records
  BY <1>0, <1>1, PendingFacts, TokenFacts DEF Threads, Procs, Up
<1>3. t = "turn" => worker[w].turn.st = "finishing" /\ worker[w].turn.op = token.op
                    /\ worker[w].turn # NoTurn /\ ~Begins(w)
  BY <1>0, <1>1 DEF WorkerInv, TurnInv, MainInv, NoTurn
<1>4. "main" \in Threads /\ "turn" \in Threads /\ \A u \in Threads : u = "main" \/ u = "turn"
  BY DEF Threads
<1>5. /\ \A u \in Threads \ {t} : TokenOf(w, u)' = TokenOf(w, u)
            /\ Pends(w, u)' = Pends(w, u)
            /\ (Syncs(w, u)' <=> Syncs(w, u)) /\ (Writes(w, u)' <=> Writes(w, u))
      /\ ~(Pends(w, t)') /\ ~(Syncs(w, t)') /\ ~(Writes(w, t)')
  BY <1>0 DEF TokenOf, Pends, Syncs, Writes, NoIO
<1>6. ASSUME errors = 0 PROVE Quiet(w)'
  <2>1. LineInv(w) /\ SeenInv(w) /\ LiveInv(w)
    BY <1>6 DEF Calm
  <2>2. LineInv(w)'
    <3>1. CASE worker[w].pc = "newline"
      <4>1. ~Unterminated(file) /\ worker'[w].pc = "promote" /\ worker'[w].io["main"].st = "none"
        BY <1>0, <1>2, <2>1, <3>1 DEF LineInv, NoIO
      <4> QED
        BY <1>0, <4>1 DEF LineInv, IsTorn
    <3>2. CASE worker[w].pc # "newline"
      <4>1. worker'[w].pc = worker[w].pc /\ worker[w].pc \in {"promote", "serving"}
        BY <1>0, <1>2, <3>2
      <4>2. /\ ~IsTorn(file)
            /\ worker[w].io["main"].st = "sync" => ~Unterminated(file)
            /\ worker[w].io["main"].st # "sync" =>
                    (worker[w].needs_newline <=> Unterminated(file))
            /\ worker[w].turn # NoTurn => ~worker[w].needs_newline
        BY <2>1, <4>1 DEF LineInv
      <4>3. CASE t = "main"
        BY <1>0, <4>1, <4>2, <4>3 DEF LineInv, NoIO
      <4>4. CASE t = "turn"
        <5>1. worker'[w].io["main"] = worker[w].io["main"]
          BY <1>0, <1>4, <4>4
        <5> QED
          BY <1>0, <1>3, <4>1, <4>2, <4>4, <5>1 DEF LineInv
      <4> QED
        BY <1>2, <4>3, <4>4
    <3> QED
      BY <3>1, <3>2
  <2>3. \A u \in Threads \ {t} : Pends(w, u) => token \in Records
            /\ TokenOf(w, u) \in Records /\ TokenOf(w, u).op # token.op
    BY <1>0, <2>1, OtherOperation
  <2>4. SeenInv(w)'
    <3>1. ASSUME NEW op \in Ops, \A u \in Threads : Syncs(w, u)' => TokenOf(w, u)'.op # op
          PROVE  mem[op] = replay(file, op)
      <4>1. CASE token \in Records /\ token.op = op
        <5>1. replay(file, op) = Entry(token)
          BY <1>0, <2>1, <4>1 DEF SeenInv, Syncs
        <5> QED
          BY <1>0, <4>1, <5>1
      <4>2. CASE ~(token \in Records /\ token.op = op)
        <5>1. \A u \in Threads : Syncs(w, u) => TokenOf(w, u).op # op
          BY <1>5, <3>1, <4>2 DEF Syncs
        <5>2. worker[w].mem[op] = replay(file, op)
          BY <1>0, <2>1, <5>1 DEF SeenInv
        <5> QED
          BY <1>0, <4>2, <5>2
      <4> QED
        BY <4>1, <4>2
    <3>2. ASSUME NEW u \in Threads, Syncs(w, u)' \/ Writes(w, u)'
          PROVE  /\ u # t /\ (Syncs(w, u) \/ Writes(w, u))
                 /\ TokenOf(w, u)' = TokenOf(w, u)
                 /\ mem[TokenOf(w, u).op] = worker[w].mem[TokenOf(w, u).op]
      <4>1. u # t /\ (Syncs(w, u) \/ Writes(w, u)) /\ TokenOf(w, u)' = TokenOf(w, u)
        BY <1>5, <3>2
      <4>2. Pends(w, u)
        BY <4>1 DEF Syncs, Writes, Pends, NoIO
      <4>3. TokenOf(w, u).op \in Ops /\ TokenOf(w, u).op # token.op
        BY <2>3, <4>1, <4>2, TokenFacts
      <4> QED
        BY <1>0, <4>1, <4>3
    <3>3. ASSUME NEW u \in Threads, Syncs(w, u)' \/ Writes(w, u)'
          PROVE  Entry(TokenOf(w, u)') \in Log!Successors(mem[TokenOf(w, u)'.op])
      BY <1>0, <2>1, <3>2, <3>3 DEF SeenInv
    <3>4. ASSUME NEW u \in Threads, Syncs(w, u)'
          PROVE  replay(file, TokenOf(w, u)'.op) = Entry(TokenOf(w, u)')
      BY <1>0, <1>5, <2>1, <3>4 DEF SeenInv
    <3> HIDE DEF token
    <3> QED
      BY <1>0, <3>1, <3>3, <3>4 DEF SeenInv, Entry
  <2>5. LiveInv(w)'
    <3>1. CASE worker[w].pc # "serving"
      <4>1. t = "main" /\ worker'[w].turn = worker[w].turn /\ worker[w].turn = NoTurn
            /\ worker'[w].pc # "serving"
        BY <1>0, <1>2, <2>1, <3>1 DEF LiveInv, Starts, Begins, Serving
      <4> QED
        BY <4>1 DEF LiveInv, Serving
    <3>2. CASE worker[w].pc = "serving" /\ Starts(w, t)
      <4>1. /\ worker'[w].turn = [st |-> "running", op |-> token.op, outcome |-> "committed"]
            /\ t = "main" /\ token.op \in Turns /\ token.phase = "in_progress"
            /\ token \in Records /\ worker[w].turn = NoTurn
        BY <1>0, <1>1, <1>2, <3>2 DEF Starts, Begins, WorkerInv, MainInv
      <4>2. mem[token.op].phase = "in_progress"
        BY <1>0, <4>1 DEF Entry, Ops
      <4>3. \A op \in Turns : mem[op].phase = "in_progress" => token.op = op
        <5>1. \A op \in Turns : worker[w].mem[op].phase # "in_progress"
          BY <2>1, <3>2, <4>1 DEF LiveInv, Serving
        <5> QED
          BY <1>0, <5>1 DEF Ops
      <4>4. worker'[w].turn.st = "running" /\ worker'[w].turn.op = token.op
            /\ worker'[w].turn # NoTurn
        BY <4>1 DEF NoTurn
      <4>5. ~(Pends(w, "main")') /\ worker'[w].pc = "serving"
        BY <1>0, <1>5, <3>2, <4>1
      <4> QED
        BY <4>2, <4>3, <4>4, <4>5 DEF LiveInv, Up, Serving
    <3>3. CASE worker[w].pc = "serving" /\ t = "turn"
      <4>1. /\ worker[w].turn.st = "finishing" /\ worker[w].turn.op = token.op
            /\ token.phase = worker[w].turn.outcome /\ token \in Records
            /\ worker[w].turn \in [st : {"running", "finishing", "reporting"}, op : Turns,
                                   outcome : FinalPhases]
        BY <1>1, <1>2, <1>3, <2>1, <3>3 DEF LiveInv, Serving, Procs, TurnStates
      <4>2. /\ worker'[w].turn.st = "reporting" /\ worker'[w].turn.op = token.op
            /\ worker'[w].turn.outcome = token.phase /\ worker'[w].turn # NoTurn
            /\ token.phase \in FinalPhases /\ token.op \in Turns
        <5> DEFINE after == [worker[w].turn EXCEPT !.st = "reporting"]
        <5>1. after.st = "reporting" /\ after.op = worker[w].turn.op
              /\ after.outcome = worker[w].turn.outcome
          BY <4>1
        <5>2. worker'[w].turn = after
          BY <1>0, <3>3
        <5> HIDE DEF after
        <5> QED
          BY <4>1, <5>1, <5>2 DEF NoTurn
      <4>3. mem[token.op].phase = token.phase
        BY <1>0, <4>1, <4>2 DEF Entry, Ops
      <4>4. \A op \in Turns : mem[op].phase # "in_progress"
        <5>1. \A op \in Turns : worker[w].mem[op].phase = "in_progress" => token.op = op
          BY <2>1, <3>3, <4>1 DEF LiveInv, Serving
        <5>2. "in_progress" \notin FinalPhases
          BY DEF FinalPhases
        <5> QED
          BY <1>0, <4>2, <4>3, <5>1, <5>2 DEF Ops
      <4>5. Pends(w, "main")' => Pends(w, "main") /\ TokenOf(w, "main")' = TokenOf(w, "main")
        BY <1>4, <1>5, <3>3
      <4>6. Pends(w, "main") => TokenOf(w, "main").op \in ProbeIds
        BY <1>3, <2>1, <3>3 DEF LiveInv, Serving
      <4>7. worker'[w].pc = "serving"
        BY <1>0, <3>3
      <4> HIDE DEF token, mem
      <4> QED
        BY <4>2, <4>3, <4>4, <4>5, <4>6, <4>7 DEF LiveInv, Up, Serving, mem
    <3>4. CASE worker[w].pc = "serving" /\ t = "main" /\ ~Starts(w, t)
      <4>1. token.op \in ProbeIds /\ worker'[w].turn = worker[w].turn /\ worker'[w].pc = "serving"
        BY <1>0, <1>2, <2>1, <3>4 DEF LiveInv, Starts, Serving
      <4>2. \A op \in Turns : mem[op] = worker[w].mem[op]
        BY <1>0, <4>1 DEF LedgerAssumption, Ops
      <4>3. Pends(w, "turn")' = Pends(w, "turn") /\ TokenOf(w, "turn")' = TokenOf(w, "turn")
            /\ ~(Pends(w, "main")')
        BY <1>4, <1>5, <3>4
      <4>4. worker[w].turn # NoTurn => worker[w].turn.op \in Turns
        BY <1>1 DEF Procs, TurnStates
      <4> QED
        BY <2>1, <3>4, <4>1, <4>2, <4>3, <4>4 DEF LiveInv, Up, Serving
    <3> QED
      BY <1>2, <3>1, <3>2, <3>3, <3>4
  <2> QED
    BY <2>2, <2>4, <2>5 DEF Quiet
<1>7. errors = 0 => \A v \in Workers : Quiet(v)'
  <2>1. Up(w)'
    BY <1>0, <1>2 DEF Up
  <2> QED
    BY <1>6, <2>1, OneIsQuiet
<1>8. ASSUME errors = 0 PROVE RepairInv'
  <2> SUFFICES ASSUME side.st = "present", harm \cap {"torn_again", "repair", "error"} = {}
               PROVE  Ends(side) <= Len(file)
    BY <1>0, <1>8 DEF Calm, RepairInv, Ends
  <2>1. CASE worker[w].pc = "newline"
    BY <1>0, <1>1, <1>2, <2>1 DEF WorkerInv, SideInv, Terminated
  <2>2. CASE worker[w].pc # "newline"
    <3>1. Ends(side) <= synced
      BY <1>2, <1>8, <2>2, NoRepair DEF Calm, RepairInv
    <3>2. Ends(side) \in Nat
      BY <1>1 DEF Types, Sides, Ends, NoSidecar, Malformed
    <3> QED
      BY <1>1, <3>1, <3>2
  <2> QED
    BY <2>1, <2>2
<1> QED
  BY <1>0, <1>7, <1>8, CalmKept

(* The log a death in the middle of a write leaves behind.                 *)
LEMMA KillAdvances ==
    ASSUME IInv, LedgerAssumption, Calm, errors = 0, NEW w \in Workers, kill(w)
    PROVE  /\ Tidy(file') /\ Broken(file, file') /\ Advances(file, file')
           /\ file' # file =>
                /\ worker[w].pc \in {"newline", "promote", "serving"}
                /\ worker[w].pc \in {"promote", "serving"} => ~IsTorn(file)
                /\ side.st = "absent" => worker[w].pc # "newline"
           /\ Len(file) \in Nat /\ Len(file') \in Nat /\ Len(file) <= Len(file')
           /\ \A i \in 1..Len(file) : file'[i] = file[i]
<1>1. LineInv(w) /\ SeenInv(w) /\ LiveInv(w) /\ Tidy(file) /\ file \in Seq(Tokens)
      /\ Len(file) \in Nat /\ Types
  BY DEF Calm, IInv, Types, TypeOK, Tokens
<1>2. CASE file' = file
  BY <1>1, <1>2 DEF Broken, Advances, Same
<1>3. CASE file' # file
  <2>1. PICK t \in Threads :
            /\ worker[w].io[t].st = "write"
            /\ \E p \in Interrupted(Payload(w, TokenOf(w, t))) : file' = file \o p
    BY <1>3 DEF kill, TokenOf
  <2>2. PICK p \in Interrupted(Payload(w, TokenOf(w, t))) : file' = file \o p
    BY <2>1
  <2>3. /\ TokenOf(w, t) \in Records \union {Newline} /\ Fits(w, TokenOf(w, t))
        /\ worker[w].needs_newline \in BOOLEAN
        /\ TokenOf(w, t) \in Records =>
            Entry(TokenOf(w, t)) \in Log!Successors(replay(file, TokenOf(w, t).op))
        /\ worker[w].pc \in {"promote", "serving"} => ~IsTorn(file)
        /\ side.st = "absent" => worker[w].pc # "newline"
    BY <1>1, <2>1, WriteFits
  <2>4. worker[w].pc \in {"newline", "promote", "serving"}
    <3>1. Pends(w, t)
      BY <2>1 DEF Pends, NoIO
    <3>2. worker[w] \in Procs
      BY ProcTypes DEF IInv
    <3> QED
      BY <3>1, <3>2, PendingFacts DEF Procs, Up
  <2>5. p \in Seq(Tokens)
    BY <1>1, <2>3, PayloadType, InterruptedType
  <2>6. /\ Tidy(file') /\ Broken(file, file')
        /\ Same(file, file') \/ (TokenOf(w, t) \in Records /\ Reads(file, file', TokenOf(w, t)))
    BY <1>1, <2>2, <2>3, PartWrite
  <2>7. Advances(file, file')
    BY <2>3, <2>6 DEF Advances
  <2>8. /\ Len(file') \in Nat /\ Len(file) <= Len(file')
        /\ \A i \in 1..Len(file) : file'[i] = file[i]
    <3>1. Len(file') = Len(file) + Len(p) /\ Len(p) \in Nat
          /\ \A i \in 1..Len(file) : file'[i] = file[i]
      BY <1>1, <2>2, <2>5, Extension
    <3> QED
      BY <1>1, <3>1
  <2> QED
    BY <1>1, <2>3, <2>4, <2>6, <2>7, <2>8
<1> QED
  BY <1>2, <1>3

LEMMA KillCalm ==
    ASSUME IInv, IInv', LedgerAssumption, Calm, NEW w \in Workers, kill(w)
    PROVE  Calm'
<1>0. Types /\ file \in Seq(Tokens) /\ file' \in Seq(Tokens) /\ Up(w)
      /\ worker[w].pc # "down" /\ side.st \in {"absent", "malformed", "present"}
  BY DEF IInv, Types, TypeOK, Tokens, kill, Up
<1>1. \A v \in Workers : worker'[v] = Down
  BY <1>0, OthersDown, ExitTypes, ProcTypes DEF kill
<1>2. \A v \in Workers : Quiet(v)'
  BY <1>1, DownIsQuiet
<1>3. /\ side' \in LeftSidecar(w)
      /\ harm' = harm \union (IF file' # file THEN Torn(file') ELSE {})
                      \union (IF InRepair(w) \/ side' = Malformed THEN {"repair"} ELSE {})
      /\ UNCHANGED <<synced, told, losses, errors>>
  BY DEF kill, backend
<1>4. "error" \in harm' <=> "error" \in harm
  <2>1. "error" \notin Torn(file')
    BY DEF Torn
  <2> QED
    BY <1>3, <2>1
<1>5. ASSUME errors = 0
      PROVE  /\ Tidy(file') /\ Broken(file, file') /\ Advances(file, file')
             /\ file' # file =>
                  /\ worker[w].pc \in {"newline", "promote", "serving"}
                  /\ worker[w].pc \in {"promote", "serving"} => ~IsTorn(file)
                  /\ side.st = "absent" => worker[w].pc # "newline"
             /\ Len(file) \in Nat /\ Len(file') \in Nat /\ Len(file) <= Len(file')
             /\ \A i \in 1..Len(file) : file'[i] = file[i]
  BY <1>5, KillAdvances
<1>6. ASSUME errors = 0 PROVE RepairInv'
  <2>1. LineInv(w) /\ SeenInv(w) /\ LiveInv(w) /\ Tidy(file) /\ RepairInv
    BY <1>6 DEF Calm
  <2> SUFFICES ASSUME harm' \cap {"torn_again", "repair", "error"} = {} PROVE RepairInv'
    BY DEF RepairInv
  <2>2. harm \cap {"torn_again", "repair", "error"} = {} /\ ~InRepair(w) /\ side' # Malformed
        /\ harm \subseteq harm' /\ (file' # file => Torn(file') \subseteq harm')
    BY <1>3
  <2>3. \A v \in Workers : ~InRepair(v)
    BY <1>0, <2>2, OthersDown DEF InRepair, Up
  <2>4. CASE worker[w].pc = "torn"
    <3>1. file' = file /\ side' = NoSidecar
      BY <1>3, <1>5, <1>6, <2>2, <2>4 DEF LeftSidecar
    <3>2. Len(file) \in Nat \ {0} /\ Len(file) \in 1..Len(file) /\ file[Len(file)] = Fragment
      BY <1>0, <2>1, <2>4, TornToken DEF LineInv
    <3>3. \A i \in 1..Len(file) : file[i] = Fragment => i = Len(file) /\ "torn" \in harm
      BY <1>0, <2>1, <2>2, <3>2 DEF RepairInv
    <3> QED
      BY <2>2, <3>1, <3>3 DEF RepairInv, NoSidecar
  <2>5. CASE worker[w].pc # "torn" /\ file' = file
    <3>1. side' = side
      BY <1>3, <2>5 DEF LeftSidecar
    <3> QED
      BY <1>3, <2>1, <2>2, <2>3, <2>5, <3>1 DEF RepairInv, Ends
  <2>6. CASE worker[w].pc # "torn" /\ file' # file /\ file'[Len(file')] = Fragment
    <3>1. side' = side
      BY <1>3, <2>6 DEF LeftSidecar
    <3>2. "torn" \notin harm /\ "torn" \in harm'
      <4>1. file' # <<>>
        BY <1>0, <1>5, <1>6, <2>6
      <4>2. Torn(file') = IF "torn" \in harm THEN {"torn", "torn_again"} ELSE {"torn"}
        BY <2>6, <4>1 DEF Torn
      <4> QED
        BY <2>2, <2>6, <4>2
    <3>3. (\A i \in 1..Len(file) : file[i] # Fragment) /\ side.st = "absent"
      BY <1>0, <2>1, <2>2, <3>2 DEF RepairInv
    <3>4. \A i \in 1..Len(file') : file'[i] = Fragment => i = Len(file')
      BY <1>5, <1>6, <3>3 DEF Broken
    <3> QED
      BY <3>1, <3>2, <3>3, <3>4 DEF RepairInv
  <2>7. CASE worker[w].pc # "torn" /\ file' # file /\ file'[Len(file')] # Fragment
    <3>1. side' = side
      BY <1>3, <2>7 DEF LeftSidecar
    <3>2. \A i \in 1..Len(file') : file'[i] = Fragment => i \in 1..Len(file) /\ file[i] = Fragment
      BY <1>5, <1>6, <2>7 DEF Broken
    <3>3. \A i \in 1..Len(file) : file[i] = Fragment => side.st = "present"
      BY <1>5, <1>6, <2>1, <2>2, <2>7, FragmentIsQuarantined
    <3>4. side.st = "present" => side.offset \in 1..Len(file') /\ file'[side.offset] = file[side.offset]
      BY <1>5, <1>6, <2>1, <2>2 DEF RepairInv
    <3>5. Ends(side)' = Ends(side)
      BY <3>1 DEF Ends
    <3> QED
      BY <1>0, <1>3, <2>1, <2>2, <2>3, <3>1, <3>2, <3>3, <3>4, <3>5 DEF RepairInv
  <2> QED
    BY <2>4, <2>5, <2>6, <2>7
<1>7. errors = 0 => ReportedIsRecorded'
  BY <1>3, <1>5, AdvancesKeepTold DEF Calm
<1> QED
  BY <1>2, <1>3, <1>4, <1>5, <1>6, <1>7 DEF Calm, Quiet, Tidy

LEMMA OrphanExitsCalm ==
    ASSUME IInv, IInv', Calm, NEW w \in Workers, orphan_exits(w)
    PROVE  Calm'
<1>0. Types /\ Up(w) /\ worker[w].pc = "serving"
      /\ UNCHANGED <<file, synced, side, harm, told, losses, errors>>
  BY DEF IInv, orphan_exits, Up, Serving, disk, backend, faults
<1>1. \A v \in Workers : worker'[v] = Down
  BY <1>0, OthersDown, ExitTypes, ProcTypes DEF orphan_exits
<1>2. \A v \in Workers : Quiet(v)'
  BY <1>1, DownIsQuiet
<1>3. errors = 0 => RepairInv'
  BY <1>0, NoRepair, RepairKept DEF Calm
<1> QED
  BY <1>0, <1>2, <1>3, CalmKept

(* After a failed append Calm only says that one failed.                   *)
LEMMA ErrorIsCalm ==
    ASSUME IInv, IInv', harm' = harm \union {"error"}, errors' = errors + 1
    PROVE  Calm'
<1>1. errors \in Nat
  BY DEF IInv, Types, TypeOK
<1>2. errors' > 0 /\ errors' # 0
  BY <1>1
<1> QED
  BY <1>2 DEF Calm

LEMMA AppendFailsCalm ==
    ASSUME IInv, IInv', NEW w \in Workers, NEW t \in Threads, append_fails(w, t)
    PROVE  Calm'
  BY ErrorIsCalm DEF append_fails

LEMMA QuarantineFailsCalm ==
    ASSUME IInv, IInv', NEW w \in Workers, quarantine_fails(w)
    PROVE  Calm'
  BY ErrorIsCalm DEF quarantine_fails

(* The file a power loss leaves behind.                                    *)
LEMMA PowerLossLeaves ==
    ASSUME IInv, power_loss
    PROVE  /\ Tidy(file) => Tidy(file')
           /\ Broken(file, file')
           /\ synced <= Len(file') /\ Len(file') <= Len(file) /\ Len(file') \in Nat
           /\ \A i \in 1..synced : file'[i] = file[i]
           /\ synced' = Len(file')
<1>1. Types /\ file \in Seq(Tokens) /\ synced \in Nat /\ synced <= Len(file) /\ Len(file) \in Nat
  BY DEF IInv, Types, TypeOK, Tokens
<1>2. PICK k \in synced..Len(file) :
        \/ file' = SubSeq(file, 1, k)
        \/ k < Len(file) /\ file[k + 1] # Newline /\ file' = Append(SubSeq(file, 1, k), Fragment)
  BY DEF power_loss
<1> DEFINE f == SubSeq(file, 1, k)
<1>3. k \in Nat /\ k \in 0..Len(file) /\ f \in Seq(Tokens) /\ Len(f) = k
      /\ \A i \in 1..k : f[i] = file[i]
  BY <1>1
<1>4. Tidy(file) => Tidy(f) /\ (k < Len(file) /\ file[k + 1] # Newline => ~Unterminated(f))
  BY <1>1, <1>3, PrefixTidy
<1>5. synced' = Len(file')
  BY DEF power_loss
<1> HIDE DEF f
<1>6. CASE file' = f
  <2>1. Broken(file, file')
    BY <1>3, <1>6 DEF Broken
  <2> QED
    BY <1>1, <1>3, <1>4, <1>5, <1>6, <2>1
<1>7. CASE k < Len(file) /\ file[k + 1] # Newline /\ file' = Append(f, Fragment)
  <2>1. Len(file') = k + 1 /\ \A i \in 1..k : file'[i] = file[i]
    BY <1>3, <1>7
  <2>2. Tidy(file) => Tidy(file')
    BY <1>3, <1>4, <1>7, AppendOne, TokenFacts
  <2>3. Broken(file, file')
    <3>1. \A i \in 1..(k + 1) : i \in 1..k \/ i = k + 1
      BY <1>3
    <3> QED
      BY <1>1, <1>3, <2>1, <3>1 DEF Broken
  <2> QED
    BY <1>1, <1>3, <1>5, <1>7, <2>1, <2>2, <2>3
<1> QED
  BY <1>2, <1>6, <1>7 DEF f

LEMMA PowerLossCalm ==
    ASSUME IInv, IInv', Calm, power_loss
    PROVE  Calm'
<1>0. Types /\ file \in Seq(Tokens) /\ side \in Sides /\ side.st \in {"absent", "malformed", "present"}
      /\ synced \in Nat /\ synced <= Len(file) /\ Len(file) \in Nat
  BY DEF IInv, Types, TypeOK, Tokens
<1>1. /\ Tidy(file) => Tidy(file')
      /\ Broken(file, file')
      /\ synced <= Len(file') /\ Len(file') <= Len(file) /\ Len(file') \in Nat
      /\ \A i \in 1..synced : file'[i] = file[i]
      /\ synced' = Len(file')
  BY PowerLossLeaves
<1>2. \A v \in Workers : Quiet(v)'
  BY DownIsQuiet DEF power_loss
<1>3. /\ side' \in UNION {LeftSidecar(w) : w \in Workers}
      /\ harm' = harm \union (IF file' # file THEN Torn(file') ELSE {}) \union
            (IF side' = Malformed \/ \E w \in Workers : InRepair(w) THEN {"repair"} ELSE {})
      /\ told' = told /\ errors' = errors /\ losses' = losses + 1
  BY DEF power_loss
<1>4. "error" \in harm' <=> "error" \in harm
  <2>1. "error" \notin Torn(file')
    BY DEF Torn
  <2> QED
    BY <1>3, <2>1
<1>5. ASSUME errors = 0 PROVE RepairInv'
  <2>1. Tidy(file) /\ RepairInv /\ \A w \in Workers : LineInv(w)
    BY <1>5 DEF Calm
  <2> SUFFICES ASSUME harm' \cap {"torn_again", "repair", "error"} = {} PROVE RepairInv'
    BY DEF RepairInv
  <2>2. harm \cap {"torn_again", "repair", "error"} = {} /\ side' # Malformed
        /\ (\A w \in Workers : ~InRepair(w))
        /\ harm \subseteq harm' /\ (file' # file => Torn(file') \subseteq harm')
    BY <1>3
  <2>3. side.st = "present" => Ends(side) <= synced /\ side.fragment = <<Fragment>>
            /\ side.offset \in 1..Len(file)
    BY <2>1, <2>2 DEF RepairInv
  <2>4. side.st = "present" => side.offset + 1 <= synced /\ side.offset \in 1..synced
    <3> SUFFICES ASSUME side.st = "present"
                 PROVE  side.offset + 1 <= synced /\ side.offset \in 1..synced
      OBVIOUS
    <3> DEFINE o == side.offset
    <3>1. o \in Nat /\ o >= 1
      BY <1>0, <2>3
    <3>2. o + Len(side.fragment) <= synced /\ Len(side.fragment) = 1
      BY <2>3 DEF Ends
    <3> HIDE DEF o
    <3>3. o + 1 <= synced
      BY <3>2
    <3>4. o \in 1..synced
      BY <1>0, <3>1, <3>3
    <3> QED
      BY <3>3, <3>4 DEF o
  <2>5. ASSUME NEW w \in Workers, worker[w].pc = "torn" PROVE side = NoSidecar
    <3>1. Len(file) \in Nat \ {0} /\ Len(file) \in 1..Len(file) /\ file[Len(file)] = Fragment
      BY <1>0, <2>1, <2>5, TornToken DEF LineInv
    <3>2. side.st = "present" => side.offset = Len(file)
      BY <2>1, <2>2, <3>1 DEF RepairInv
    <3>3. side.st = "absent"
      BY <1>0, <2>1, <2>2, <2>4, <3>2 DEF RepairInv
    <3> QED
      BY <1>0, <3>3 DEF Sides, Malformed
  <2>6. side' = side
    <3>1. PICK w \in Workers : side' \in LeftSidecar(w)
      BY <1>3
    <3>2. CASE worker[w].pc = "torn"
      BY <2>2, <2>5, <3>1, <3>2 DEF LeftSidecar
    <3>3. CASE worker[w].pc # "torn"
      BY <3>1, <3>3 DEF LeftSidecar
    <3> QED
      BY <3>2, <3>3
  <2>7. side.st = "present" => Ends(side)' <= synced' /\ Ends(side)' = Ends(side)
    BY <1>0, <1>1, <2>3, <2>4, <2>6 DEF Ends
  <2>8. CASE file' = file
    BY <2>1, <2>2, <2>6, <2>7, <2>8 DEF RepairInv
  <2>9. CASE file' # file /\ file'[Len(file')] = Fragment /\ Len(file') > 0
    <3>1. "torn" \notin harm /\ "torn" \in harm'
      <4>1. file' # <<>>
        BY <2>9
      <4>2. Torn(file') = IF "torn" \in harm THEN {"torn", "torn_again"} ELSE {"torn"}
        BY <2>9, <4>1 DEF Torn
      <4> QED
        BY <2>2, <2>9, <4>2
    <3>2. (\A i \in 1..Len(file) : file[i] # Fragment) /\ side.st = "absent"
      BY <1>0, <2>1, <2>2, <3>1 DEF RepairInv
    <3>3. \A i \in 1..Len(file') : file'[i] = Fragment => i = Len(file')
      BY <1>1, <3>2 DEF Broken
    <3> QED
      BY <2>6, <3>1, <3>2, <3>3 DEF RepairInv
  <2>10. CASE file' # file /\ ~(file'[Len(file')] = Fragment /\ Len(file') > 0)
    <3>1. \A i \in 1..Len(file') : file'[i] = Fragment =>
                i \in 1..Len(file) /\ file[i] = Fragment /\ i # Len(file')
      BY <1>1, <2>10 DEF Broken
    <3>2. side.st = "present" => side.offset \in 1..Len(file') /\ file'[side.offset] = file[side.offset]
      <4> SUFFICES ASSUME side.st = "present"
                   PROVE  side.offset \in 1..Len(file') /\ file'[side.offset] = file[side.offset]
        OBVIOUS
      <4> DEFINE o == side.offset
                 n == Len(file')
      <4>1. o \in 1..synced
        BY <2>4
      <4>2. file'[o] = file[o]
        BY <1>1, <4>1
      <4>3. n \in Nat /\ synced <= n
        BY <1>1
      <4> HIDE DEF o, n
      <4>4. o \in 1..n
        BY <1>0, <4>1, <4>3
      <4> QED
        BY <4>2, <4>4 DEF o, n
    <3>3. side.st = "absent" => \A i \in 1..Len(file') : file'[i] # Fragment
      <4>1. side.st = "absent" => \A i \in 1..Len(file') : file'[i] = Fragment =>
                i = Len(file) /\ i # Len(file')
        BY <2>1, <2>2, <3>1 DEF RepairInv
      <4> QED
        BY <1>0, <1>1, <4>1
    <3> QED
      BY <2>1, <2>2, <2>6, <2>7, <3>1, <3>2, <3>3 DEF RepairInv
  <2> QED
    BY <1>1, <2>8, <2>9, <2>10
<1>6. ReportedIsRecorded'
  <2>1. losses' # 0
    <3>1. losses \in Nat
      BY <1>0 DEF Types, TypeOK
    <3> QED
      BY <1>3, <3>1
  <2> QED
    BY <2>1 DEF ReportedIsRecorded
<1> QED
  BY <1>1, <1>2, <1>3, <1>4, <1>5, <1>6 DEF Calm, Quiet, Tidy

-----------------------------------------------------------------------------
(* The whole specification is calm.                                        *)

LEMMA InitCalm ==
    ASSUME LedgerAssumption, Init
    PROVE  Calm
<1>1. /\ file = <<>> /\ side = NoSidecar /\ told = [op \in Turns |-> {}]
      /\ harm = {} /\ errors = 0 /\ \A w \in Workers : worker[w] = Down
  BY DEF Init
<1>2. \A w \in Workers : LineInv(w) /\ SeenInv(w) /\ LiveInv(w)
  BY <1>1 DEF LineInv, SeenInv, LiveInv, Up, Serving, Down
<1>3. RepairInv
  BY <1>1 DEF RepairInv, NoSidecar
<1>4. Tidy(file) /\ ReportedIsRecorded
  BY <1>1 DEF Tidy, ReportedIsRecorded
<1> QED
  BY <1>1, <1>2, <1>3, <1>4 DEF Calm

LEMMA WorkerStepCalm ==
    ASSUME IInv, IInv', LedgerAssumption, Calm, NEW w \in Workers, WorkerStep(w)
    PROVE  Calm'
<1>1. CASE open(w)
  BY <1>1, OpenCalm
<1>2. CASE write_quarantine(w)
  BY <1>2, WriteQuarantineCalm
<1>3. CASE quarantine_fails(w)
  BY <1>3, QuarantineFailsCalm
<1>4. CASE promote(w)
  BY <1>4, PromoteCalm
<1>5. CASE opened(w)
  BY <1>5, OpenedCalm
<1>6. ASSUME NEW t \in Threads, write(w, t) \/ sync(w, t) \/ append_fails(w, t)
      PROVE  Calm'
  BY <1>6, WriteCalm, SyncCalm, AppendFailsCalm
<1>7. ASSUME NEW outcome \in FinalPhases, turn_ends(w, outcome) PROVE Calm'
  BY <1>7, TurnEndsCalm
<1>8. CASE report(w)
  BY <1>8, ReportCalm
<1>9. CASE kill(w)
  BY <1>9, KillCalm
<1>10. CASE orphan_exits(w)
  BY <1>10, OrphanExitsCalm
<1> QED
  BY <1>1, <1>2, <1>3, <1>4, <1>5, <1>6, <1>7, <1>8, <1>9, <1>10 DEF WorkerStep

LEMMA BackendStepCalm ==
    ASSUME IInv, IInv', Calm, BackendStep
    PROVE  Calm'
<1>1. ASSUME NEW w \in Workers, NEW op \in Turns, NEW d \in Digests, begin_turn(w, op, d)
      PROVE  Calm'
  BY <1>1, BeginTurnCalm
<1>2. ASSUME NEW w \in Workers, NEW op \in Turns, duplicate_result(w, op) \/ turn_silent(w, op)
      PROVE  Calm'
  BY <1>2, DuplicateResultCalm, TurnSilentCalm
<1>3. ASSUME NEW op \in Turns, begin_timeout(op) \/ channel_fails(op)
      PROVE  Calm'
  BY <1>3, BeginTimeoutCalm, ChannelFailsCalm
<1>4. ASSUME NEW w \in Workers, NEW op \in ProbeIds, NEW d \in Digests, operation_begin(w, op, d)
      PROVE  Calm'
  BY <1>4, OperationBeginCalm
<1>5. ASSUME NEW w \in Workers, NEW op \in ProbeIds, NEW o \in FinalPhases,
             operation_finish(w, op, o)
      PROVE  Calm'
  BY <1>5, OperationFinishCalm
<1>6. CASE daemon_dies
  BY <1>6, DaemonDiesCalm
<1> QED
  BY <1>1, <1>2, <1>3, <1>4, <1>5, <1>6 DEF BackendStep

LEMMA StutteringCalm ==
    ASSUME IInv, IInv', Calm, UNCHANGED vars
    PROVE  Calm'
<1>1. UNCHANGED <<file, synced, side, worker, harm, losses, errors, told>>
  BY DEF vars
<1>2. errors = 0 => \A v \in Workers : Quiet(v)'
  BY <1>1 DEF Calm, Quiet, LineInv, SeenInv, LiveInv, Up, Serving, Begins, Pends, TokenOf,
     Writes, Syncs
<1>3. errors = 0 => RepairInv'
  <2>1. (\E w \in Workers : InRepair(w)) => \E w \in Workers : InRepair(w)'
    BY <1>1 DEF InRepair
  <2> QED
    BY <1>1, <2>1, RepairKept DEF Calm
<1> QED
  BY <1>1, <1>2, <1>3, CalmKept

LEMMA AlwaysCalm ==
    ASSUME LedgerAssumption
    PROVE  Spec => []Calm
<1>1. Init => Calm
  BY InitCalm
<1>2. IInv /\ IInv' /\ Calm /\ [Next]_vars => Calm'
  <2>1. ASSUME IInv, IInv', Calm, NEW w \in Workers, WorkerStep(w) PROVE Calm'
    BY <2>1, WorkerStepCalm
  <2>2. ASSUME IInv, IInv', Calm, BackendStep PROVE Calm'
    BY <2>2, BackendStepCalm
  <2>3. ASSUME IInv, IInv', Calm, power_loss PROVE Calm'
    BY <2>3, PowerLossCalm
  <2>4. ASSUME IInv, IInv', Calm, UNCHANGED vars PROVE Calm'
    BY <2>4, StutteringCalm
  <2> QED
    BY <2>1, <2>2, <2>3, <2>4 DEF Next
<1> QED
  BY <1>1, <1>2, AlwaysIInv, PTL DEF Spec

-----------------------------------------------------------------------------
(* Reading the ledger back.                                                *)

(* A tidy file without a fragment is read to its end.                      *)
LEMMA CleanIsRead ==
    ASSUME NEW f \in Seq(Tokens), Tidy(f), NEW last \in BOOLEAN,
           \A i \in 1..Len(f) : f[i] = Fragment => last /\ i = Len(f)
    PROVE  ~HasBadLine(f) /\ (~last => ~IsTorn(f))
<1>1. Len(f) \in Nat /\ \A i \in 1..Len(f) : f[i] \in Tokens
  OBVIOUS
<1>2. \A i \in 1..Len(f) : f[i].tok # "record" => f[i] = Newline \/ f[i] = Fragment
  BY <1>1, TokenFacts DEF Tokens
<1>3. ASSUME NEW i \in 1..Len(f), f[i] = Newline PROVE i > 1 /\ IsRecordLine(f, i - 1)
  <2>1. i > 1 /\ f[i - 1] # Newline /\ i - 1 \in 1..Len(f) /\ i - 1 # Len(f)
    BY <1>1, <1>3 DEF Tidy
  <2>2. f[i - 1].tok = "record"
    BY <1>2, <2>1
  <2> QED
    BY <2>1, <2>2, TidyLines
<1>4. ~HasBadLine(f)
  <2>1. DOMAIN f = 1..Len(f)
    OBVIOUS
  <2> QED
    BY <1>3, <2>1 DEF HasBadLine
<1>5. ~last => ~IsTorn(f)
  <2> SUFFICES ASSUME ~last, IsTorn(f) PROVE FALSE
    OBVIOUS
  <2>1. Len(f) \in 1..Len(f) /\ f[Len(f)] = Fragment
    BY TornToken
  <2> QED
    BY <2>1
<1> QED
  BY <1>4, <1>5

(* A tidy file without the terminated line at o is tidy.                   *)
LEMMA CutIsTidy ==
    ASSUME NEW f \in Seq(Tokens), Tidy(f), NEW o \in 1..Len(f), o + 1 <= Len(f), f[o] # Newline
    PROVE  /\ CutAway(f, o, 1) \in Seq(Tokens) /\ Tidy(CutAway(f, o, 1))
           /\ \A i \in 1..Len(CutAway(f, o, 1)) : \E j \in 1..Len(f) :
                j # o /\ CutAway(f, o, 1)[i] = f[j]
<1> DEFINE x == CutAway(f, o, 1)
           n == Len(f)
<1>1. n \in Nat /\ o \in Nat /\ o >= 1 /\ o + 1 <= n
  OBVIOUS
<1>2. x \in Seq(Tokens) /\ Len(x) = n - 2
      /\ (\A m \in 1..(o - 1) : x[m] = f[m])
      /\ (\A m \in (o + 2)..n : x[m - 2] = f[m])
  <2>1. /\ x \in Seq(Tokens) /\ Len(x) = Len(f) - 1 - 1
        /\ \A m \in 1..(o - 1) : x[m] = f[m]
        /\ \A m \in (o + 1 + 1)..Len(f) : x[m - 1 - 1] = f[m]
    <3>1. o \in Nat \ {0} /\ 1 \in Nat
      OBVIOUS
    <3>2. /\ CutAway(f, o, 1) \in Seq(Tokens) /\ Len(CutAway(f, o, 1)) = Len(f) - 1 - 1
          /\ \A m \in 1..(o - 1) : CutAway(f, o, 1)[m] = f[m]
          /\ \A m \in (o + 1 + 1)..Len(f) : CutAway(f, o, 1)[m - 1 - 1] = f[m]
      BY <3>1, CutOut
    <3> QED
      BY <3>2
  <2> HIDE DEF x
  <2> QED
    BY <1>1, <2>1
<1>3. \A i \in 1..n : f[i] = Newline <=> i > 1 /\ f[i - 1] # Newline
  BY DEF Tidy
<1> HIDE DEF x, n
<1>4. \A i \in 1..(n - 2) : i < o => i \in 1..(o - 1) /\ i \in 1..n
  BY <1>1
<1>5. \A i \in 1..(n - 2) : i >= o => i + 2 \in (o + 2)..n /\ i + 2 \in 1..n /\ (i + 2) - 2 = i
            /\ (i + 2) - 1 = i + 1
  BY <1>1
<1>6. \A i \in 1..(n - 2) : (i < o => x[i] = f[i]) /\ (i >= o => x[i] = f[i + 2])
  BY <1>2, <1>4, <1>5
<1>7. o \in 1..n /\ o + 1 \in 1..n /\ (o + 1) - 1 = o /\ o + 1 > 1
  BY <1>1
<1>8. f[o + 1] = Newline /\ (o > 1 => f[o - 1] = Newline)
  <2>1. f[o + 1] = Newline
    BY <1>3, <1>7
  <2> QED
    BY <1>3, <1>7, <2>1
<1>9. ASSUME NEW i \in 1..(n - 2) PROVE x[i] = Newline <=> i > 1 /\ x[i - 1] # Newline
  <2>1. CASE i < o
    <3>1. i > 1 => i - 1 \in 1..(n - 2) /\ i - 1 < o
      BY <1>1, <2>1
    <3> QED
      BY <1>3, <1>4, <1>6, <2>1, <3>1
  <2>2. CASE i = o
    <3>1. f[o + 2] # Newline
      <4>1. o + 2 \in 1..n /\ (o + 2) - 1 = o + 1
        BY <1>1, <2>2
      <4> QED
        BY <1>3, <1>8, <4>1
    <3>2. x[i] = f[o + 2]
      BY <1>1, <1>6, <2>2
    <3>3. i > 1 => x[i - 1] = f[o - 1]
      <4>1. i > 1 => i - 1 \in 1..(n - 2) /\ i - 1 < o /\ i - 1 = o - 1
        BY <1>1, <2>2
      <4> QED
        BY <1>6, <4>1
    <3> QED
      BY <1>8, <2>2, <3>1, <3>2, <3>3
  <2>3. CASE i > o
    <3>1. i > 1 /\ i - 1 \in 1..(n - 2) /\ i - 1 >= o /\ (i - 1) + 2 = i + 1 /\ i >= o
      BY <1>1, <2>3
    <3>2. x[i] = f[i + 2] /\ x[i - 1] = f[i + 1]
      BY <1>6, <3>1
    <3>3. i + 2 \in 1..n /\ (i + 2) - 1 = i + 1 /\ i + 2 > 1
      BY <1>5, <3>1
    <3> QED
      BY <1>3, <3>1, <3>2, <3>3
  <2> QED
    BY <1>1, <2>1, <2>2, <2>3
<1>10. ASSUME NEW i \in 1..(n - 2) PROVE \E j \in 1..n : j # o /\ x[i] = f[j]
  <2>1. CASE i < o
    BY <1>1, <1>4, <1>6, <2>1
  <2>2. CASE i >= o
    <3>1. i + 2 # o
      BY <1>1, <2>2
    <3> QED
      BY <1>5, <1>6, <2>2, <3>1
  <2> QED
    BY <1>1, <2>1, <2>2
<1> QED
  BY <1>2, <1>9, <1>10 DEF Tidy, x, n

(* One tear, quarantined or not yet, never keeps the ledger from opening.  *)
LEMMA CalmIsRepairable ==
    ASSUME IInv, Calm
    PROVE  Repairable
<1> SUFFICES ASSUME harm \cap {"torn_again", "repair", "error"} = {},
                    ~\E w \in Workers : InRepair(w)
             PROVE  Readable(file, side)
  BY DEF Repairable
<1>1. Types /\ file \in Seq(Tokens) /\ side \in Sides /\ synced \in Nat /\ synced <= Len(file)
      /\ Len(file) \in Nat /\ side.st \in {"absent", "malformed", "present"} /\ errors \in Nat
  BY DEF IInv, Types, TypeOK, Tokens
<1>2. errors = 0
  BY <1>1 DEF Calm
<1>3. Tidy(file) /\ RepairInv
  BY <1>2 DEF Calm
<1>4. CASE side.st = "absent"
  <2>1. exclude_quarantine(file, side) = file
    BY <1>4 DEF exclude_quarantine
  <2>2. \A i \in 1..Len(file) : file[i] = Fragment => TRUE /\ i = Len(file)
    BY <1>3, <1>4 DEF RepairInv
  <2>3. ~HasBadLine(file)
    BY <1>1, <1>3, <2>2, CleanIsRead
  <2> QED
    BY <1>4, <2>1, <2>3 DEF Readable
<1>5. CASE side.st = "present"
  <2> DEFINE o == side.offset
             x == exclude_quarantine(file, side)
  <2>1. /\ side.fragment = <<Fragment>> /\ o \in 1..Len(file) /\ file[o] = Fragment
        /\ (\A i \in 1..Len(file) : file[i] = Fragment => i = o)
        /\ Ends(side) <= synced
    BY <1>3, <1>5 DEF RepairInv
  <2>2. Len(side.fragment) = 1 /\ side.fragment[1] = Fragment
    BY <2>1
  <2>3. o + 1 <= Len(file) /\ o + 1 \in 1..Len(file) /\ o + 1 > 1 /\ (o + 1) - 1 = o /\ o \in Nat
    <3>1. o + 1 <= synced
      BY <2>1, <2>2 DEF Ends
    <3>2. o \in Nat /\ o >= 1
      BY <2>1
    <3> HIDE DEF o
    <3> QED
      BY <1>1, <3>1, <3>2
  <2>4. file[o] # Newline /\ Fragment.tok # "record"
    BY <2>1, TokenFacts DEF Fragment
  <2>5. file[o + 1] = Newline /\ (o > 1 => file[o - 1] = Newline)
    <3>1. \A i \in 1..Len(file) : file[i] = Newline <=> i > 1 /\ file[i - 1] # Newline
      BY <1>3 DEF Tidy
    <3> HIDE DEF o
    <3> QED
      BY <2>1, <2>3, <2>4, <3>1
  <2>6. SubSeq(file, o, o) = <<Fragment>>
    <3>1. SubSeq(file, o, o) \in Seq(Tokens) /\ Len(SubSeq(file, o, o)) = 1
          /\ SubSeq(file, o, o)[1] = file[o]
      BY <1>1, <2>1
    <3> HIDE DEF o
    <3> QED
      BY <2>1, <3>1, Tuples
  <2>7. SidecarMatches(file, side)
    <3>1. o + Len(side.fragment) - 1 = o /\ o < Len(file)
      BY <1>1, <2>2, <2>3
    <3> QED
      BY <2>1, <2>2, <2>4, <2>5, <2>6, <3>1 DEF SidecarMatches
  <2>8. x = CutAway(file, o, 1)
    BY <1>5, <2>2 DEF exclude_quarantine, CutAway
  <2>9. x \in Seq(Tokens) /\ Tidy(x) /\ \A i \in 1..Len(x) : x[i] # Fragment
    <3> HIDE DEF o, x
    <3> QED
      BY <1>1, <1>3, <2>1, <2>3, <2>4, <2>8, CutIsTidy
  <2>10. ~HasBadLine(x) /\ ~IsTorn(x)
    <3> HIDE DEF x
    <3>1. \A i \in 1..Len(x) : x[i] = Fragment => FALSE /\ i = Len(x)
      BY <2>9
    <3> QED
      BY <2>9, <3>1, CleanIsRead
  <2> QED
    BY <1>5, <2>7, <2>10 DEF Readable
<1>6. side.st # "malformed"
  BY <1>3 DEF RepairInv
<1> QED
  BY <1>1, <1>4, <1>5, <1>6

(* What the ledger answers is what happened.  One torn append never costs  *)
(* it: the next open succeeds unless a second one followed, the repair of  *)
(* the first was cut short or an append failed.  Until a power loss or a   *)
(* failed append, an outcome run() returned is the one the file records,   *)
(* and until a failed append no operation a serving process shows as in    *)
(* progress is a dead one's (open, _replay, _exclude_quarantine, finish).  *)
THEOREM LedgerIsTruthful ==
    ASSUME LedgerAssumption
    PROVE  Spec => []LedgerAnswers
<1>1. IInv /\ Calm => LedgerAnswers
  <2> SUFFICES ASSUME IInv, Calm PROVE LedgerAnswers
    OBVIOUS
  <2>1. Repairable
    BY CalmIsRepairable
  <2>2. ReportedIsRecorded
    BY DEF Calm, ReportedIsRecorded
  <2>3. InProgressIsLive
    <3>1. DOMAIN runs = Turns
      BY DEF IInv, Types, TypeOK
    <3> QED
      BY <3>1 DEF Calm, LiveInv, InProgressIsLive
  <2> QED
    BY <2>1, <2>2, <2>3 DEF LedgerAnswers
<1> QED
  BY <1>1, AlwaysIInv, AlwaysCalm, PTL

(* A file that advances is a step of the abstract log, or none.            *)
LEMMA AdvanceIsLogged ==
    ASSUME file \in Seq(Tokens), Advances(file, file')
    PROVE  [Log!Next]_(Log!vars)
<1> DEFINE log == [op \in Ops |-> replay(file, op)]
           next == [op \in Ops |-> replay(file', op)]
<1>1. CASE Same(file, file')
  <2>1. next = log
    BY <1>1 DEF Same
  <2> QED
    BY <2>1 DEF Log!vars
<1>2. ASSUME NEW token \in Records, Reads(file, file', token),
             Entry(token) \in Log!Successors(replay(file, token.op))
      PROVE  Log!Next
  <2>1. token.op \in Ops
    BY TokenFacts
  <2>2. next = [log EXCEPT ![token.op] = Entry(token)]
    BY <1>2, <2>1 DEF Reads
  <2>3. log[token.op] = replay(file, token.op)
    BY <2>1
  <2> QED
    BY <1>2, <2>1, <2>2, <2>3 DEF Log!Next
<1> QED
  BY <1>1, <1>2 DEF Advances

(* The records of the ledger file, through every tear, repair and restart, *)
(* move as OperationLog allows, until a power loss or a failed append.     *)
(* Every append that starts may follow what the file records of its        *)
(* operation (begin, finish, open), and a death leaves all of it or none.  *)
THEOREM LedgerImplementsLog ==
    ASSUME LedgerAssumption
    PROVE  Spec => ImplementsLog
<1>1. Init => Log!Init
  <2> SUFFICES ASSUME Init PROVE Log!Init
    OBVIOUS
  <2>1. \A op \in Ops : replay(file, op) = Log!Unknown
    BY DEF Init, replay, Unknown, Log!Unknown
  <2> QED
    BY <2>1 DEF Log!Init
<1> DEFINE Advancing == file' # file /\ losses' = 0 /\ errors' = 0 => [Log!Next]_(Log!vars)
<1>2. IInv /\ Calm /\ [Next]_vars => [Advancing]_vars
  <2> SUFFICES ASSUME IInv, Calm, Next, file' # file, losses' = 0, errors' = 0
               PROVE  [Log!Next]_(Log!vars)
    OBVIOUS
  <2>0. file \in Seq(Tokens) /\ losses \in Nat /\ errors \in Nat
    BY DEF IInv, Types, TypeOK, Tokens
  <2>1. ASSUME NEW w \in Workers, NEW t \in Threads, write(w, t) PROVE [Log!Next]_(Log!vars)
    <3>1. errors = 0
      BY <2>1 DEF write, faults
    <3> QED
      BY <2>0, <2>1, <3>1, WriteAdvances, AdvanceIsLogged
  <2>2. ASSUME NEW w \in Workers, kill(w) PROVE [Log!Next]_(Log!vars)
    <3>1. errors = 0
      BY <2>2 DEF kill
    <3> QED
      BY <2>0, <2>2, <3>1, KillAdvances, AdvanceIsLogged
  <2>3. ASSUME NEW w \in Workers, NEW t \in Threads, append_fails(w, t) PROVE FALSE
    BY <2>0, <2>3 DEF append_fails
  <2>4. ASSUME power_loss PROVE FALSE
    BY <2>0, <2>4 DEF power_loss
  <2>5. ASSUME BackendStep PROVE file' = file
    BY <2>5 DEF BackendStep, begin_turn, duplicate_result, turn_silent, begin_timeout,
       channel_fails, operation_begin, operation_finish, daemon_dies, disk
  <2>6. ASSUME NEW w \in Workers, WorkerStep(w),
               ~kill(w), \A t \in Threads : ~write(w, t) /\ ~append_fails(w, t)
        PROVE  file' = file
    <3>1. CASE open(w) \/ promote(w) \/ opened(w) \/ report(w) \/ orphan_exits(w)
      BY <3>1 DEF open, promote, opened, report, orphan_exits, disk
    <3>2. CASE write_quarantine(w) \/ quarantine_fails(w)
      BY <3>2 DEF write_quarantine, quarantine_fails
    <3>3. ASSUME NEW outcome \in FinalPhases, turn_ends(w, outcome) PROVE file' = file
      BY <3>3 DEF turn_ends, disk
    <3>4. ASSUME NEW t \in Threads, sync(w, t) PROVE file' = file
      BY <3>4 DEF sync
    <3> QED
      BY <2>6, <3>1, <3>2, <3>3, <3>4 DEF WorkerStep
  <2> QED
    BY <2>1, <2>2, <2>3, <2>4, <2>5, <2>6 DEF Next
<1>3. ImplementsLog <=> Log!Init /\ [][Advancing]_vars
  BY DEF ImplementsLog
<1> HIDE DEF Advancing
<1> QED
  BY <1>1, <1>2, <1>3, AlwaysIInv, AlwaysCalm, PTL DEF Spec

=============================================================================
