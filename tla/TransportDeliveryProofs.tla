----------------------- MODULE TransportDeliveryProofs ------------------------
(***************************************************************************)
(* Theorems about the outbound delivery ledger: nothing is sent twice      *)
(* blindly, chunks go out in order, under the window they name and through *)
(* one ledger only, what is settled stays settled, and the ledger          *)
(* implements Delivery.  The proofs count, for every chunk, the posts, the *)
(* frames on the wire and the permits together (Used); IInv bounds the sum *)
(* by the state of the row.  A step that permits no send does not raise    *)
(* the sum and writes a row only where its state lets it (Calm, May), and  *)
(* all such steps are dealt with together; the other one is BeginSend      *)
(* (PermittedKeeps).  Each action has a lemma that it Keeps the invariant, *)
(* what is settled, and the promise of Delivery.                           *)
(***************************************************************************)
EXTENDS TransportDelivery, FiniteSetTheorems, TLAPS

ChunkPcs == {"verify", "observe", "begin", "send", "settle"}
LegacyPcs == {"old_send", "old_done", "old_release"}
Pcs == {"idle", "dead", "freeze", "next"} \union ChunkPcs \union LegacyPcs

Counts == [Messages -> [Chunks -> Nat]]

WorkerRecords ==
    [pc : Pcs, m : Messages \union {Nil}, i : 0 .. NChunks, epoch : Nat,
     rev : Nat, window : 0 .. MaxWindows, answer : Answers \union {Nil}]

LegacyRecords ==
    [state : {"none", "pending", "claimed", "delivered"},
     owner : Workers \union {Nil}, epoch : Nat, live : BOOLEAN]

\* The types of the chunk ledger and its workers, and of the rest.
CoreType ==
    /\ parent \in [Messages -> ParentStates]
    /\ chunk \in [Messages -> [Chunks -> Rows]]
    /\ worker \in [Workers -> WorkerRecords]

RestType ==
    /\ wire \in Counts /\ posted \in Counts
    /\ granted \in Counts /\ retried \in Counts /\ seen \in Counts
    /\ window \in 0 .. MaxWindows /\ opened \in 0 .. MaxWindows
    /\ legacy \in [Messages -> LegacyRecords]
    /\ oldPosted \subseteq Events
    /\ faults \in 0 .. MaxFaults

\* The permits of a chunk that are not used up, and all that was or may still
\* be posted of it.
Holds(p, m, i) == p.pc = "send" /\ p.m = m /\ p.i = i

Holders(m, i) == {w \in Workers : Holds(worker[w], m, i)}

Used(m, i) == posted[m][i] + wire[m][i] + Permits(m, i)

InFront(m, i) == \A j \in Chunks : j < i => chunk[m][j].state = "delivered"

RowOK(m, i) ==
    /\ Used(m, i) <= 1 + retried[m][i]
    /\ chunk[m][i].state \notin {"sending_unknown", "delivered"} =>
          Used(m, i) <= retried[m][i]
    /\ chunk[m][i].state # "pending" \/ Used(m, i) > 0 => InFront(m, i)
    /\ chunk[m][i].window # 0 => /\ chunk[m][i].state = "delivered"
                                 /\ chunk[m][i].window = granted[m][i]

\* The message's row says what its chunks say, and is there before anything
\* is sent.
ParentOK(m) ==
    IF parent[m] = "none"
    THEN \A i \in Chunks : chunk[m][i].state = "pending" /\ Used(m, i) = 0
    ELSE parent[m] = ParentOf(chunk[m])

LegacyOK(m) ==
    /\ legacy[m].state # "none" => parent[m] = "none"
    /\ m \in oldPosted => legacy[m].state # "none"

\* The send of chunk i that worker w was permitted is still unsettled.
Owns(w, m, i) == chunk[m][i].state = "sending_unknown" /\ chunk[m][i].owner = w

\* The answers that prove that nothing was posted.
Refusals == {"rate_limited", "retryable_before_send", "refused_before_send",
             "rejected"}

WorkerOK(w) ==
    LET p == worker[w]
    IN  /\ p.pc \in ChunkPcs \union {"next"} =>
              p.m \in Messages /\ parent[p.m] # "none"
        /\ p.pc \in ChunkPcs => p.i \in Chunks
        /\ p.pc = "next" => p.i + 1 \in Chunks
        /\ p.pc = "freeze" => p.m \in Events
        /\ p.pc = "settle" => p.answer \in Answers
        /\ p.pc \in LegacyPcs => p.m \in Events /\ legacy[p.m].state # "none"
        /\ p.pc \in {"send", "settle"} /\ Owns(w, p.m, p.i) =>
              p.window = granted[p.m][p.i]
        /\ p.pc = "settle" /\ p.answer \in Refusals /\ Owns(w, p.m, p.i) =>
              Used(p.m, p.i) <= retried[p.m][p.i]

FiniteHolders == \A m \in Messages, i \in Chunks : IsFiniteSet(Holders(m, i))

IInv ==
    /\ CoreType /\ RestType /\ FiniteHolders
    /\ \A m \in Messages : ParentOK(m) /\ LegacyOK(m)
    /\ \A m \in Messages, i \in Chunks : RowOK(m, i)
    /\ \A w \in Workers : WorkerOK(w)

-----------------------------------------------------------------------------
(* One row is written, one worker turns, and what it means for the count.   *)

Turns(w, p) == worker' = [worker EXCEPT ![w] = p]

LEMMA ChunksExist == ASSUME DeliveryAssumption PROVE 1 \in Chunks
BY DEF DeliveryAssumption, Chunks

LEMMA TurnIs ==
    ASSUME CoreType, NEW w \in Workers, NEW p \in WorkerRecords, Turns(w, p)
    PROVE  /\ worker' \in [Workers -> WorkerRecords]
           /\ worker'[w] = p
           /\ \A v \in Workers : v # w => worker'[v] = worker[v]
BY DEF CoreType, Turns

LEMMA ParentStatesOf ==
    ASSUME NEW f
    PROVE  ParentOf(f) \in ParentStates \ {"none"}
BY DEF ParentOf, ParentStates

\* The message's row depends on the states of the chunks only.
LEMMA ParentSame ==
    ASSUME NEW f, NEW g, \A i \in Chunks : f[i].state = g[i].state
    PROVE  ParentOf(f) = ParentOf(g)
<1>1. {f[i].state : i \in Chunks} = {g[i].state : i \in Chunks}
  OBVIOUS
<1> QED  BY <1>1 DEF ParentOf

LEMMA PutRowIs ==
    ASSUME CoreType, NEW m \in Messages, NEW i \in Chunks, NEW row \in Rows,
           PutRow(m, i, row)
    PROVE  /\ chunk' \in [Messages -> [Chunks -> Rows]]
           /\ parent' \in [Messages -> ParentStates]
           /\ chunk'[m][i] = row
           /\ \A n \in Messages : n # m =>
                 chunk'[n] = chunk[n] /\ parent'[n] = parent[n]
           /\ \A j \in Chunks : j # i => chunk'[m][j] = chunk[m][j]
           /\ parent'[m] = ParentOf(chunk'[m]) /\ parent'[m] # "none"
<1>1. /\ chunk' = [chunk EXCEPT ![m] = [chunk[m] EXCEPT ![i] = row]]
      /\ parent' = [parent EXCEPT ![m] = ParentOf([chunk[m] EXCEPT ![i] = row])]
  BY DEF PutRow
<1>2. chunk'[m] = [chunk[m] EXCEPT ![i] = row]
  BY <1>1 DEF CoreType
<1>3. [chunk[m] EXCEPT ![i] = row] \in [Chunks -> Rows]
  BY DEF CoreType
<1>4. parent'[m] = ParentOf(chunk'[m])
  BY <1>1, <1>2 DEF CoreType
<1>5. parent'[m] \in ParentStates \ {"none"}
  BY <1>4, ParentStatesOf
<1>6. /\ \A n \in Messages : n # m => chunk'[n] = chunk[n]
      /\ chunk' \in [Messages -> [Chunks -> Rows]]
  BY <1>1, <1>3 DEF CoreType
<1>7. /\ \A n \in Messages : n # m => parent'[n] = parent[n]
      /\ parent' \in [Messages -> ParentStates]
  BY <1>1, <1>4, <1>5 DEF CoreType
<1>8. /\ chunk'[m][i] = row
      /\ \A j \in Chunks : j # i => chunk'[m][j] = chunk[m][j]
  BY <1>2 DEF CoreType
<1> QED  BY <1>4, <1>5, <1>6, <1>7, <1>8

LEMMA UsedType ==
    ASSUME RestType, FiniteHolders, NEW m \in Messages, NEW i \in Chunks
    PROVE  /\ Used(m, i) \in Nat /\ Permits(m, i) \in Nat
           /\ Permits(m, i) = Cardinality(Holders(m, i))
           /\ posted[m][i] \in Nat /\ wire[m][i] \in Nat
<1>1. Permits(m, i) = Cardinality(Holders(m, i))
  BY DEF Permits, Holders, Holds, At
<1>2. Cardinality(Holders(m, i)) \in Nat
  BY FS_CardinalityType DEF FiniteHolders
<1>3. posted[m][i] \in Nat /\ wire[m][i] \in Nat
  BY DEF RestType, Counts
<1> QED  BY <1>1, <1>2, <1>3 DEF Used

\* The holders after a worker's turn.
LEMMA HoldersMove ==
    ASSUME CoreType, FiniteHolders, NEW w \in Workers, NEW p \in WorkerRecords,
           Turns(w, p), NEW m \in Messages, NEW i \in Chunks
    PROVE  /\ IsFiniteSet(Holders(m, i)')
           /\ Permits(m, i)' = Cardinality(Holders(m, i)')
           /\ Holders(m, i)' = IF Holds(p, m, i) THEN Holders(m, i) \union {w}
                               ELSE Holders(m, i) \ {w}
<1>1. Holders(m, i)' = {v \in Workers : Holds(worker'[v], m, i)}
  BY DEF Holders, Holds
<1>2. worker'[w] = p /\ \A v \in Workers : v # w => worker'[v] = worker[v]
  BY TurnIs
<1>3. Holders(m, i)' = IF Holds(p, m, i) THEN Holders(m, i) \union {w}
                       ELSE Holders(m, i) \ {w}
  BY <1>1, <1>2 DEF Holders
<1>4. IsFiniteSet(Holders(m, i)')
  BY <1>3, FS_AddElement, FS_RemoveElement DEF FiniteHolders
<1>5. Permits(m, i)' = Cardinality(Holders(m, i)')
  BY <1>1 DEF Permits, Holds, At
<1> QED  BY <1>3, <1>4, <1>5

UsedSame ==
    /\ FiniteHolders'
    /\ \A m \in Messages, i \in Chunks : Used(m, i)' = Used(m, i)

LEMMA QuietTurn ==
    ASSUME CoreType, RestType, FiniteHolders, UNCHANGED <<posted, wire>>,
           NEW w \in Workers, NEW p \in WorkerRecords, Turns(w, p),
           p.pc # "send", worker[w].pc # "send"
    PROVE  UsedSame
<1>1. ASSUME NEW m \in Messages, NEW i \in Chunks
      PROVE  IsFiniteSet(Holders(m, i)') /\ Used(m, i)' = Used(m, i)
  <2>1. ~Holds(p, m, i) /\ w \notin Holders(m, i)
    BY DEF Holders, Holds
  <2>3. Holders(m, i)' = Holders(m, i) \ {w}
    BY <2>1, HoldersMove
  <2>4. Holders(m, i)' = Holders(m, i)
    BY <2>1, <2>3
  <2>2. Permits(m, i)' = Permits(m, i)
    BY <2>4, HoldersMove, UsedType
  <2> QED  BY <2>2, HoldersMove DEF Used
<1> QED  BY <1>1 DEF UsedSame, FiniteHolders

LEMMA QuietWorkers ==
    ASSUME FiniteHolders, UNCHANGED <<posted, wire, worker>>
    PROVE  UsedSame
BY DEF UsedSame, FiniteHolders, Holders, Holds, Used, Permits, At

\* A permit is used up, or given.
LEMMA PermitGoes ==
    ASSUME CoreType, RestType, FiniteHolders, NEW w \in Workers,
           NEW p \in WorkerRecords, Turns(w, p), p.pc # "send",
           NEW m \in Messages, NEW i \in Chunks, Holds(worker[w], m, i)
    PROVE  /\ FiniteHolders'
           /\ Permits(m, i) >= 1 /\ Permits(m, i)' = Permits(m, i) - 1
           /\ \A n \in Messages, j \in Chunks : ~(n = m /\ j = i) =>
                 Permits(n, j)' = Permits(n, j)
<1>1. ASSUME NEW n \in Messages, NEW j \in Chunks
      PROVE  /\ IsFiniteSet(Holders(n, j)')
             /\ Permits(n, j)' = IF n = m /\ j = i THEN Permits(n, j) - 1
                                 ELSE Permits(n, j)
  <2>1. Holders(n, j)' = Holders(n, j) \ {w}
    BY HoldersMove DEF Holds
  <2>2. w \in Holders(n, j) <=> n = m /\ j = i
    BY DEF Holders, Holds
  <2>3. IsFiniteSet(Holders(n, j))
    BY DEF FiniteHolders
  <2>4. Cardinality(Holders(n, j) \ {w}) =
           IF w \in Holders(n, j) THEN Cardinality(Holders(n, j)) - 1
           ELSE Cardinality(Holders(n, j))
    BY <2>3, FS_RemoveElement
  <2> QED  BY <2>1, <2>2, <2>4, HoldersMove, UsedType
<1>2. Permits(m, i) # 0
  <2>1. w \in Holders(m, i)
    BY DEF Holders
  <2>2. Cardinality(Holders(m, i)) # 0
    BY <2>1, FS_EmptySet DEF FiniteHolders
  <2> QED  BY <2>2, UsedType
<1>3. Permits(m, i) \in Nat
  BY UsedType
<1> QED  BY <1>1, <1>2, <1>3 DEF FiniteHolders

LEMMA PermitComes ==
    ASSUME CoreType, RestType, FiniteHolders, NEW w \in Workers,
           NEW p \in WorkerRecords, Turns(w, p), worker[w].pc # "send",
           NEW m \in Messages, NEW i \in Chunks, Holds(p, m, i)
    PROVE  /\ FiniteHolders'
           /\ Permits(m, i)' = Permits(m, i) + 1
           /\ \A n \in Messages, j \in Chunks : ~(n = m /\ j = i) =>
                 Permits(n, j)' = Permits(n, j)
<1>1. ASSUME NEW n \in Messages, NEW j \in Chunks
      PROVE  /\ IsFiniteSet(Holders(n, j)')
             /\ Permits(n, j)' = IF n = m /\ j = i THEN Permits(n, j) + 1
                                 ELSE Permits(n, j)
  <2>1. w \notin Holders(n, j)
    BY DEF Holders, Holds
  <2>2. IsFiniteSet(Holders(n, j))
    BY DEF FiniteHolders
  <2>3. Holders(n, j)' = IF n = m /\ j = i THEN Holders(n, j) \union {w}
                         ELSE Holders(n, j)
    BY <2>1, HoldersMove DEF Holds
  <2>4. Cardinality(Holders(n, j) \union {w}) = Cardinality(Holders(n, j)) + 1
    BY <2>1, <2>2, FS_AddElement
  <2>5. /\ IsFiniteSet(Holders(n, j)')
        /\ Permits(n, j)' = Cardinality(Holders(n, j)')
    BY HoldersMove
  <2>6. Permits(n, j) = Cardinality(Holders(n, j))
    BY UsedType
  <2> QED  BY <2>3, <2>4, <2>5, <2>6
<1> QED  BY <1>1 DEF FiniteHolders

-----------------------------------------------------------------------------
(* What a step does to the rows that Delivery speaks of.                    *)

Adds(f, g, m, i) == g = [f EXCEPT ![m][i] = @ + 1]

\* What the person who reads the chat sees of a row.
Seen(s) ==
    CASE s = "sending_unknown" -> "maybe"
      [] s = "delivered" -> "done"
      [] s = "failed" -> "refused"
      [] OTHER -> "owed"

Face == [m \in Messages |-> [i \in Chunks |-> Seen(chunk[m][i].state)]]

Shows(m, i, s) == Face' = [Face EXCEPT ![m][i] = s]

Simulated == Owed!Next \/ UNCHANGED <<Face, posted, retried>>

LEMMA SimPermit ==
    ASSUME NEW m \in Messages, NEW i \in Chunks, Face[m][i] = "owed",
           \A j \in Chunks : j < i => Face[m][j] = "done",
           Shows(m, i, "maybe"), UNCHANGED <<posted, retried>>
    PROVE  Simulated
<1>1. Owed!Permit(m, i)
  BY DEF Owed!Permit, Owed!Set, Shows, Face, Seen
<1> QED  BY <1>1 DEF Owed!Next, Simulated

LEMMA SimPost ==
    ASSUME NEW m \in Messages, NEW i \in Chunks,
           Face[m][i] \in {"maybe", "done"} \/ retried[m][i] > 0,
           posted[m][i] <= retried[m][i], Adds(posted, posted', m, i),
           UNCHANGED <<Face, retried>>
    PROVE  Simulated
<1>1. Owed!Post(m, i)
  BY DEF Owed!Post, Adds, Face, Seen
<1> QED  BY <1>1 DEF Owed!Next, Simulated

LEMMA SimSettle ==
    ASSUME NEW m \in Messages, NEW i \in Chunks,
           NEW s \in {"owed", "done", "refused"}, Shows(m, i, s),
           Face[m][i] = "maybe" \/ (Face[m][i] = "owed" /\ s = "refused"),
           UNCHANGED <<posted, retried>>
    PROVE  Simulated
<1>1. Owed!Settle(m, i)
  BY DEF Owed!Settle, Owed!Set, Owed!States, Shows, Face, Seen
<1> QED  BY <1>1 DEF Owed!Next, Simulated

LEMMA SimAsk ==
    ASSUME NEW m \in Messages, NEW i \in Chunks,
           Face[m][i] = "maybe", Shows(m, i, "owed"),
           Adds(retried, retried', m, i), UNCHANGED posted
    PROVE  Simulated
<1>1. Owed!AskAgain(m, i)
  BY DEF Owed!AskAgain, Owed!Set, Adds, Shows, Face, Seen
<1> QED  BY <1>1 DEF Owed!Next, Simulated

LEMMA SimIs == Simulated <=> [Owed!Next]_Owed!vars
BY DEF Simulated, Owed!vars, Face, Seen

LEMMA FaceSame ==
    ASSUME UNCHANGED <<posted, retried>>,
           \A m \in Messages, i \in Chunks : chunk'[m][i].state = chunk[m][i].state
    PROVE  Simulated
<1>1. UNCHANGED Face
  BY DEF Face
<1> QED  BY <1>1 DEF Simulated

LEMMA PutShows ==
    ASSUME CoreType, NEW m \in Messages, NEW i \in Chunks, NEW row \in Rows,
           PutRow(m, i, row)
    PROVE  /\ Shows(m, i, Seen(row.state)) /\ Face[m][i] = Seen(chunk[m][i].state)
           /\ Seen(row.state) = Face[m][i] => UNCHANGED Face
<1>1. /\ chunk'[m][i] = row
      /\ \A n \in Messages : n # m => chunk'[n] = chunk[n]
      /\ \A j \in Chunks : j # i => chunk'[m][j] = chunk[m][j]
  BY PutRowIs
<1>2. Face[m][i] = Seen(chunk[m][i].state)
  BY DEF Face
<1>3. \A n \in Messages, j \in Chunks :
         Seen(chunk'[n][j].state) =
            IF n = m /\ j = i THEN Seen(row.state) ELSE Seen(chunk[n][j].state)
  BY <1>1
<1>4. Face' = [Face EXCEPT ![m] = [Face[m] EXCEPT ![i] = Seen(row.state)]]
  BY <1>3 DEF Face
<1>5. Seen(row.state) = Face[m][i] => UNCHANGED Face
  BY <1>2, <1>3 DEF Face
<1> QED  BY <1>2, <1>4, <1>5 DEF Shows

-----------------------------------------------------------------------------
(* A calm step: no send is permitted, and every row that changes goes where *)
(* its state lets it.                                                       *)

RowGoes(m, i) ==
    LET old == chunk[m][i]
        new == chunk'[m][i]
    IN  \/ new.state = old.state /\ new.owner = old.owner /\ new.window = old.window
        \/ /\ parent[m] # "none"
           /\ old.state \in {"pending", "claimed", "sending_unknown"}
           /\ new.state \in {"pending", "claimed", "delivered", "failed"}
           /\ new.state = "delivered" => old.state = "sending_unknown"
           /\ old.state = "sending_unknown" /\ new.state # "delivered" =>
                 Used(m, i)' <= retried'[m][i]
           /\ new.state # "pending" => InFront(m, i)
           /\ new.window # 0 =>
                 new.state = "delivered" /\ new.window = granted[m][i]

ParentGoes(m) ==
    \/ /\ parent'[m] = parent[m]
       /\ \A i \in Chunks : chunk'[m][i].state = chunk[m][i].state
    \/ /\ parent[m] # "none" /\ parent'[m] # "none"
       /\ parent'[m] = ParentOf(chunk'[m])
    \/ /\ parent[m] = "none" /\ parent'[m] = "pending"
       /\ legacy[m].state = "none"
       /\ \A i \in Chunks : chunk'[m][i].state = chunk[m][i].state

Calm ==
    /\ UNCHANGED granted
    /\ \A m \in Messages : ParentGoes(m)
    /\ \A m \in Messages : legacy[m].state # "none" => legacy'[m].state # "none"
    /\ \A m \in Messages, i \in Chunks :
          /\ RowGoes(m, i)
          /\ Used(m, i)' <= Used(m, i) /\ retried[m][i] <= retried'[m][i]

Typed == CoreType' /\ RestType' /\ FiniteHolders'

LEMMA CountTypes ==
    ASSUME IInv, Typed, NEW m \in Messages, NEW i \in Chunks
    PROVE  /\ Used(m, i) \in Nat /\ Used(m, i)' \in Nat
           /\ retried[m][i] \in Nat /\ retried'[m][i] \in Nat
<1>1. Used(m, i) \in Nat
  BY UsedType DEF IInv
<1>2. /\ Permits(m, i) = Cardinality(Holders(m, i))
      /\ Permits(m, i)' = Cardinality(Holders(m, i)')
  BY DEF Permits, Holders, Holds, At
<1>3. Cardinality(Holders(m, i)') \in Nat
  BY FS_CardinalityType DEF Typed, FiniteHolders
<1>4. posted'[m][i] \in Nat /\ wire'[m][i] \in Nat /\ retried'[m][i] \in Nat
  BY DEF Typed, RestType, Counts
<1>5. retried[m][i] \in Nat
  BY DEF IInv, RestType, Counts
<1> QED  BY <1>1, <1>2, <1>3, <1>4, <1>5 DEF Used

LEMMA FrontStays ==
    ASSUME Calm, NEW m \in Messages, NEW i \in Chunks, InFront(m, i)
    PROVE  InFront(m, i)'
<1>1. ASSUME NEW j \in Chunks, j < i
      PROVE  chunk'[m][j].state = "delivered"
  <2>1. chunk[m][j].state = "delivered"
    BY <1>1 DEF InFront
  <2>2. RowGoes(m, j)
    BY DEF Calm
  <2> QED  BY <2>1, <2>2 DEF RowGoes
<1> QED  BY <1>1 DEF InFront

LEMMA CalmRow ==
    ASSUME IInv, Typed, Calm, NEW m \in Messages, NEW i \in Chunks
    PROVE  RowOK(m, i)'
<1>1. RowOK(m, i) /\ RowGoes(m, i)
  BY DEF IInv, Calm
<1>2. /\ Used(m, i)' <= Used(m, i) /\ retried[m][i] <= retried'[m][i]
      /\ granted'[m][i] = granted[m][i]
  BY DEF Calm
<1>3. /\ Used(m, i) \in Nat /\ Used(m, i)' \in Nat
      /\ retried[m][i] \in Nat /\ retried'[m][i] \in Nat
  BY CountTypes
<1>4. Used(m, i)' <= 1 + retried'[m][i]
  BY <1>1, <1>2, <1>3 DEF RowOK
<1>5. chunk'[m][i].state \notin {"sending_unknown", "delivered"} =>
         Used(m, i)' <= retried'[m][i]
  BY <1>1, <1>2, <1>3 DEF RowOK, RowGoes
<1>6. chunk'[m][i].state # "pending" \/ Used(m, i)' > 0 => InFront(m, i)
  BY <1>1, <1>2, <1>3 DEF RowOK, RowGoes
<1>7. chunk'[m][i].window # 0 => /\ chunk'[m][i].state = "delivered"
                                 /\ chunk'[m][i].window = granted'[m][i]
  BY <1>1, <1>2 DEF RowOK, RowGoes
<1> QED  BY <1>4, <1>5, <1>6, <1>7, FrontStays DEF RowOK

LEMMA AllPending ==
    ASSUME NEW f, \A i \in Chunks : f[i].state = "pending"
    PROVE  ParentOf(f) = "pending"
BY DEF ParentOf

LEMMA CalmParent ==
    ASSUME IInv, Typed, Calm, NEW m \in Messages
    PROVE  ParentOK(m)'
<1>1. ParentOK(m) /\ ParentGoes(m)
  BY DEF IInv, Calm
<1>2. CASE parent[m] = "none" /\ parent'[m] = "none"
  <2>1. ASSUME NEW i \in Chunks
        PROVE  chunk'[m][i].state = "pending" /\ Used(m, i)' = 0
    <3>1. chunk[m][i].state = "pending" /\ Used(m, i) = 0
      BY <1>1, <1>2 DEF ParentOK
    <3>2. chunk'[m][i].state = chunk[m][i].state
      BY <1>1, <1>2 DEF ParentGoes
    <3>3. Used(m, i)' <= Used(m, i)
      BY DEF Calm
    <3> QED  BY <3>1, <3>2, <3>3, CountTypes
  <2> QED  BY <1>2, <2>1 DEF ParentOK
<1>3. CASE parent[m] = "none" /\ parent'[m] # "none"
  <2>1. /\ parent'[m] = "pending"
        /\ \A i \in Chunks : chunk'[m][i].state = chunk[m][i].state
    BY <1>1, <1>3 DEF ParentGoes
  <2>2. \A i \in Chunks : chunk[m][i].state = "pending"
    BY <1>1, <1>3 DEF ParentOK
  <2>3. ParentOf(chunk'[m]) = "pending"
    BY <2>1, <2>2, AllPending
  <2> QED  BY <1>3, <2>1, <2>3 DEF ParentOK
<1>4. CASE parent[m] # "none"
  <2>1. parent[m] = ParentOf(chunk[m])
    BY <1>1, <1>4 DEF ParentOK
  <2>2. parent'[m] # "none" /\ parent'[m] = ParentOf(chunk'[m])
    <3>1. CASE /\ parent'[m] = parent[m]
               /\ \A i \in Chunks : chunk'[m][i].state = chunk[m][i].state
      <4>1. ParentOf(chunk'[m]) = ParentOf(chunk[m])
        BY <3>1, ParentSame
      <4> QED  BY <3>1, <4>1, <2>1, <1>4
    <3> QED  BY <1>1, <1>4, <3>1 DEF ParentGoes
  <2> QED  BY <2>2 DEF ParentOK
<1> QED  BY <1>2, <1>3, <1>4

\* A worker that does not turn.
LEMMA CalmWorker ==
    ASSUME IInv, Typed, Calm, NEW v \in Workers, worker'[v] = worker[v]
    PROVE  WorkerOK(v)'
<1> DEFINE p == worker[v]
<1>1. WorkerOK(v)
  BY DEF IInv
<1>2. p.pc \in ChunkPcs \union {"next"} => p.m \in Messages /\ parent'[p.m] # "none"
  <2>1. p.m \in Messages => ParentGoes(p.m)
    BY DEF Calm
  <2> QED  BY <1>1, <2>1 DEF WorkerOK, ParentGoes
<1>3. p.pc \in LegacyPcs => p.m \in Events /\ legacy'[p.m].state # "none"
  BY <1>1 DEF WorkerOK, Calm, Messages
<1>4. ASSUME p.pc \in {"send", "settle"}, Owns(v, p.m, p.i)'
      PROVE  /\ p.m \in Messages /\ p.i \in Chunks /\ Owns(v, p.m, p.i)
             /\ p.window = granted'[p.m][p.i]
  <2>1. p.m \in Messages /\ p.i \in Chunks
    BY <1>1, <1>4 DEF WorkerOK, ChunkPcs
  <2>2. RowGoes(p.m, p.i)
    BY <2>1 DEF Calm
  <2>3. chunk'[p.m][p.i].state = "sending_unknown" /\ chunk'[p.m][p.i].owner = v
    BY <1>4 DEF Owns
  <2>4. Owns(v, p.m, p.i)
    BY <2>2, <2>3 DEF RowGoes, Owns
  <2> QED  BY <1>1, <1>4, <2>1, <2>4 DEF WorkerOK, Calm
<1>5. ASSUME p.pc = "settle", p.answer \in Refusals, Owns(v, p.m, p.i)'
      PROVE  Used(p.m, p.i)' <= retried'[p.m][p.i]
  <2>1. p.m \in Messages /\ p.i \in Chunks /\ Owns(v, p.m, p.i)
    BY <1>4, <1>5
  <2>2. Used(p.m, p.i) <= retried[p.m][p.i]
    BY <1>1, <1>5, <2>1 DEF WorkerOK
  <2>3. /\ Used(p.m, p.i)' <= Used(p.m, p.i)
        /\ retried[p.m][p.i] <= retried'[p.m][p.i]
    BY <2>1 DEF Calm
  <2> QED  BY <2>1, <2>2, <2>3, CountTypes
<1> QED  BY <1>1, <1>2, <1>3, <1>4, <1>5 DEF WorkerOK

LEMMA CalmStep ==
    ASSUME IInv, Typed, Calm, \A m \in Messages : LegacyOK(m)',
           \A v \in Workers : worker'[v] = worker[v] \/ WorkerOK(v)'
    PROVE  IInv'
BY CalmRow, CalmParent, CalmWorker DEF IInv, Typed

LEMMA CalmFinal ==
    ASSUME IInv, Calm
    PROVE  SettledIsFinal
<1>1. ASSUME NEW m \in Messages, NEW i \in Chunks,
             chunk[m][i].state \in {"delivered", "failed"}
      PROVE  chunk'[m][i].state = chunk[m][i].state
  BY <1>1 DEF Calm, RowGoes
<1>2. ASSUME NEW m \in Messages, parent[m] \in {"delivered", "failed"}
      PROVE  parent'[m] = parent[m]
  <2>1. ParentGoes(m) /\ parent[m] = ParentOf(chunk[m])
    BY <1>2 DEF IInv, ParentOK, Calm
  <2>2. CASE parent[m] = "delivered"
    <3>1. \A i \in Chunks : chunk[m][i].state = "delivered"
      BY <2>1, <2>2 DEF ParentOf
    <3>2. \A i \in Chunks : chunk'[m][i].state = chunk[m][i].state
      BY <1>1, <3>1
    <3> QED  BY <1>2, <2>1, <3>2, ParentSame DEF ParentGoes
  <2>3. CASE parent[m] = "failed"
    <3>1. /\ \E i \in Chunks : chunk[m][i].state = "failed"
          /\ \A i \in Chunks : chunk[m][i].state # "sending_unknown"
      <4> DEFINE states == {chunk[m][i].state : i \in Chunks}
      <4>1. "failed" \in states /\ "sending_unknown" \notin states
        BY <2>1, <2>3 DEF ParentOf
      <4> QED  BY <4>1
    <3>2. \A i \in Chunks : RowGoes(m, i)
      BY DEF Calm
    <3>3. \A i \in Chunks : chunk'[m][i].state # "sending_unknown"
      BY <3>1, <3>2 DEF RowGoes
    <3>4. \E i \in Chunks : chunk'[m][i].state = "failed"
      BY <1>1, <3>1
    <3>5. ParentOf(chunk'[m]) = "failed"
      BY <3>3, <3>4 DEF ParentOf
    <3> QED  BY <1>2, <2>1, <2>3, <3>5 DEF ParentGoes
  <2> QED  BY <1>2, <2>2, <2>3
<1> QED  BY <1>1, <1>2 DEF SettledIsFinal

\* What every step of the program does: the invariant, the promise of
\* Delivery, and what is settled stays so.
Keeps == IInv' /\ Simulated /\ SettledIsFinal

LEMMA CalmLegacy ==
    ASSUME IInv, Calm, UNCHANGED <<legacy, oldPosted>>, NEW m \in Messages
    PROVE  LegacyOK(m)'
<1>1. LegacyOK(m) /\ ParentGoes(m)
  BY DEF IInv, Calm
<1> QED  BY <1>1 DEF LegacyOK, ParentGoes

\* What a row may be written to, when the operator asked `again' times.
May(m, i, row, again) ==
    LET old == chunk[m][i]
    IN  /\ parent[m] # "none"
        /\ old.state \in {"pending", "claimed", "sending_unknown"}
        /\ row.state \in {"pending", "claimed", "delivered", "failed"}
        /\ row.state = "delivered" => old.state = "sending_unknown"
        /\ old.state = "sending_unknown" /\ row.state # "delivered" =>
              Used(m, i) <= again
        /\ row.state # "pending" => InFront(m, i)
        /\ row.window # 0 =>
              row.state = "delivered" /\ row.window = granted[m][i]

NoMoreSent ==
    \A m \in Messages, i \in Chunks :
        Used(m, i)' <= Used(m, i) /\ retried[m][i] <= retried'[m][i]

LEMMA WriteCalm ==
    ASSUME IInv, Typed, UNCHANGED <<granted, legacy>>, NoMoreSent,
           NEW m \in Messages, NEW i \in Chunks, NEW row \in Rows,
           PutRow(m, i, row), May(m, i, row, retried'[m][i])
    PROVE  Calm
<1>1. CoreType
  BY DEF IInv
<1>2. ASSUME NEW n \in Messages
      PROVE  ParentGoes(n)
  BY <1>1, PutRowIs DEF ParentGoes, May
<1>3. ASSUME NEW n \in Messages, NEW j \in Chunks
      PROVE  RowGoes(n, j)
  <2>1. CASE n = m /\ j = i
    <3>1. chunk'[m][i] = row
      BY <1>1, PutRowIs
    <3>2. /\ Used(m, i)' <= Used(m, i)
          /\ Used(m, i) \in Nat /\ Used(m, i)' \in Nat /\ retried'[m][i] \in Nat
      BY CountTypes DEF NoMoreSent
    <3> QED  BY <2>1, <3>1, <3>2 DEF RowGoes, May
  <2>2. CASE ~(n = m /\ j = i)
    <3>1. chunk'[n][j] = chunk[n][j]
      BY <1>1, <2>2, PutRowIs
    <3> QED  BY <3>1 DEF RowGoes
  <2> QED  BY <2>1, <2>2
<1> QED  BY <1>2, <1>3 DEF Calm, NoMoreSent

LEMMA WriteSimulates ==
    ASSUME IInv, NEW m \in Messages, NEW i \in Chunks, NEW row \in Rows,
           PutRow(m, i, row), NEW again, May(m, i, row, again),
           UNCHANGED <<posted, retried>>
    PROVE  Simulated
<1> DEFINE old == chunk[m][i]
<1>1. /\ Shows(m, i, Seen(row.state)) /\ Face[m][i] = Seen(old.state)
      /\ Seen(row.state) = Face[m][i] => UNCHANGED Face
  BY PutShows DEF IInv
<1>2. CASE old.state = "sending_unknown"
  <2>1. Face[m][i] = "maybe" /\ Seen(row.state) \in {"owed", "done", "refused"}
    BY <1>1, <1>2 DEF Seen, May
  <2> QED  BY <1>1, <2>1, SimSettle
<1>3. CASE old.state # "sending_unknown" /\ row.state = "failed"
  <2>1. Face[m][i] = "owed" /\ Seen(row.state) = "refused"
    BY <1>1, <1>3 DEF Seen, May
  <2> QED  BY <1>1, <2>1, SimSettle
<1>4. CASE old.state # "sending_unknown" /\ row.state # "failed"
  <2>1. Face[m][i] = "owed" /\ Seen(row.state) = "owed"
    BY <1>1, <1>4 DEF Seen, May
  <2> QED  BY <1>1, <2>1 DEF Simulated
<1> QED  BY <1>2, <1>3, <1>4

LEMMA KeepCalm ==
    ASSUME UNCHANGED granted, NoMoreSent, UNCHANGED parent,
           \A m \in Messages : legacy[m].state # "none" => legacy'[m].state # "none",
           \A m \in Messages, i \in Chunks :
              /\ chunk'[m][i].state = chunk[m][i].state
              /\ chunk'[m][i].owner = chunk[m][i].owner
              /\ chunk'[m][i].window = chunk[m][i].window
    PROVE  Calm
<1>1. \A m \in Messages : ParentGoes(m)
  BY DEF ParentGoes
<1>2. \A m \in Messages, i \in Chunks : RowGoes(m, i)
  BY DEF RowGoes
<1> QED  BY <1>1, <1>2 DEF Calm, NoMoreSent

LEMMA FreezeCalm ==
    ASSUME IInv, UNCHANGED <<granted, legacy>>, NoMoreSent,
           NEW m \in Messages, FreezeProjection(m)
    PROVE  /\ Calm
           /\ parent' \in [Messages -> ParentStates] /\ UNCHANGED chunk
           /\ legacy[m].state = "none" => parent'[m] # "none"
<1>1. CASE parent[m] = "none" /\ legacy[m].state = "none"
  <2>1. /\ parent' = [parent EXCEPT ![m] = "pending"] /\ UNCHANGED chunk
        /\ parent \in [Messages -> ParentStates]
    BY <1>1 DEF FreezeProjection, IInv, CoreType
  <2>2. /\ parent' \in [Messages -> ParentStates] /\ parent'[m] = "pending"
        /\ \A n \in Messages : n # m => parent'[n] = parent[n]
    BY <2>1 DEF ParentStates
  <2>3. \A n \in Messages : ParentGoes(n)
    BY <1>1, <2>1, <2>2 DEF ParentGoes
  <2>4. \A n \in Messages, i \in Chunks : RowGoes(n, i)
    BY <2>1 DEF RowGoes
  <2> QED  BY <2>1, <2>2, <2>3, <2>4 DEF Calm, NoMoreSent
<1>2. CASE ~(parent[m] = "none" /\ legacy[m].state = "none")
  <2>1. UNCHANGED ledger
    BY <1>2 DEF FreezeProjection
  <2> QED  BY <1>2, <2>1, KeepCalm DEF IInv, CoreType, ledger
<1> QED  BY <1>1, <1>2

-----------------------------------------------------------------------------
(* A worker's turn in which no permit is given or used.                     *)

Around ==
    /\ UNCHANGED <<legacy, gate, chat, granted, operator>>
    /\ faults' \in 0 .. MaxFaults

\* Where a worker may go: p is no permit and no answer to one.
MayBe(p) ==
    /\ p.pc \in {"idle", "dead", "freeze", "next", "verify", "observe", "begin"}
    /\ p.pc \in ChunkPcs \union {"next"} => p.m \in Messages /\ parent'[p.m] # "none"
    /\ p.pc \in ChunkPcs => p.i \in Chunks
    /\ p.pc = "next" => p.i + 1 \in Chunks
    /\ p.pc = "freeze" => p.m \in Events

LEMMA MayBeOK ==
    ASSUME NEW w \in Workers, NEW p, worker'[w] = p, MayBe(p)
    PROVE  WorkerOK(w)'
BY DEF MayBe, WorkerOK, LegacyPcs

LEMMA FaultCounts ==
    ASSUME DeliveryAssumption, RestType, Fault \/ UNCHANGED faults
    PROVE  faults' \in 0 .. MaxFaults
BY DEF DeliveryAssumption, RestType, Fault

\* What the turn does to the ledger.
Books ==
    \/ UNCHANGED ledger
    \/ \E m \in Messages : FreezeProjection(m)
    \/ \E m \in Messages, i \in Chunks : \E row \in Rows :
          PutRow(m, i, row) /\ May(m, i, row, retried[m][i])

LEMMA TurnKeeps ==
    ASSUME IInv, NEW w \in Workers, NEW p \in WorkerRecords, Turns(w, p),
           worker[w].pc # "send", Around, Books, MayBe(p)
    PROVE  Keeps
<1>1. CoreType /\ RestType /\ FiniteHolders
  BY DEF IInv
<1>2. RestType'
  BY <1>1 DEF RestType, Around, gate, chat, operator
<1>3. UsedSame
  <2>1. UNCHANGED <<posted, wire>> /\ p.pc # "send"
    BY DEF Around, chat, MayBe
  <2> QED  BY <1>1, <2>1, QuietTurn
<1>4. /\ worker' \in [Workers -> WorkerRecords] /\ worker'[w] = p
      /\ \A v \in Workers : v # w => worker'[v] = worker[v]
  BY <1>1, TurnIs
<1>5. /\ UNCHANGED <<granted, legacy, oldPosted, retried>>
  BY DEF Around, chat, operator
<1>s. UNCHANGED <<posted, retried>>
  BY DEF Around, chat, operator
<1>6. NoMoreSent
  <2>1. ASSUME NEW m \in Messages, NEW i \in Chunks
        PROVE  Used(m, i)' <= Used(m, i) /\ retried[m][i] <= retried'[m][i]
    <3>1. Used(m, i) \in Nat /\ retried[m][i] \in Nat
      BY <1>1, UsedType DEF RestType, Counts
    <3> QED  BY <3>1, <1>3, <1>5 DEF UsedSame
  <2> QED  BY <2>1 DEF NoMoreSent
<1>7. Typed /\ Calm /\ Simulated
  <2>1. CASE UNCHANGED ledger
    <3>1. Typed
      BY <1>1, <1>2, <1>3, <1>4, <2>1 DEF Typed, UsedSame, CoreType, ledger
    <3>2. Calm
      BY <1>5, <1>6, <2>1, KeepCalm DEF ledger
    <3>3. Simulated
      BY <1>s, <2>1, FaceSame DEF ledger
    <3> QED  BY <3>1, <3>2, <3>3
  <2>2. ASSUME NEW m \in Messages, FreezeProjection(m)
        PROVE  Typed /\ Calm /\ Simulated
    <3>1. /\ Calm /\ parent' \in [Messages -> ParentStates] /\ UNCHANGED chunk
      BY <1>5, <1>6, <2>2, FreezeCalm
    <3>2. Simulated
      BY <1>s, <3>1, FaceSame
    <3> QED  BY <1>1, <1>2, <1>3, <1>4, <3>1, <3>2 DEF Typed, UsedSame, CoreType
  <2>3. ASSUME NEW m \in Messages, NEW i \in Chunks, NEW row \in Rows,
               PutRow(m, i, row), May(m, i, row, retried[m][i])
        PROVE  Typed /\ Calm /\ Simulated
    <3>1. chunk' \in [Messages -> [Chunks -> Rows]] /\ parent' \in [Messages -> ParentStates]
      BY <1>1, <2>3, PutRowIs
    <3>2. Typed
      BY <1>2, <1>3, <1>4, <3>1 DEF Typed, UsedSame, CoreType
    <3>3. May(m, i, row, retried'[m][i])
      BY <1>5, <2>3
    <3>4. Calm
      BY <1>5, <1>6, <2>3, <3>2, <3>3, WriteCalm
    <3>5. Simulated
      BY <1>s, <2>3, WriteSimulates
    <3> QED  BY <3>2, <3>4, <3>5
  <2> QED  BY <2>1, <2>2, <2>3 DEF Books
<1>8. WorkerOK(w)'
  BY <1>4, MayBeOK
<1>9. \A v \in Workers : worker'[v] = worker[v] \/ WorkerOK(v)'
  BY <1>4, <1>8
<1> QED  BY <1>5, <1>7, <1>9, CalmLegacy, CalmStep, CalmFinal DEF Keeps

-----------------------------------------------------------------------------
(* The turns of a worker with the chunk client.                             *)

LEMMA RowFacts ==
    ASSUME IInv, NEW m \in Messages, NEW i \in Chunks
    PROVE  /\ chunk[m][i] \in Rows
           /\ chunk[m][i].window # 0 => chunk[m][i].state = "delivered"
           /\ chunk[m][i].state # "pending" => InFront(m, i)
           /\ chunk[m][i].state \notin {"sending_unknown", "delivered"} =>
                 Used(m, i) <= retried[m][i]
BY DEF IInv, CoreType, RowOK

LEMMA Bounds ==
    ASSUME DeliveryAssumption
    PROVE  /\ NChunks \in Nat /\ MaxWindows \in Nat
           /\ 0 \in 0 .. NChunks /\ 0 \in 0 .. MaxWindows
BY DEF DeliveryAssumption

LEMMA IdleIs ==
    ASSUME DeliveryAssumption
    PROVE  /\ Idle \in WorkerRecords /\ MayBe(Idle)
           /\ Dead \in WorkerRecords /\ MayBe(Dead)
<1>1. Idle \in WorkerRecords /\ Idle.pc = "idle"
  BY Bounds DEF Idle, WorkerRecords, Pcs
<1>2. Dead = [pc |-> "dead", m |-> Nil, i |-> 0, epoch |-> 0, rev |-> 0,
              window |-> 0, answer |-> Nil]
  BY DEF Dead, Idle
<1>3. Dead \in WorkerRecords /\ Dead.pc = "dead"
  BY <1>2, Bounds DEF WorkerRecords, Pcs
<1> QED  BY <1>1, <1>3 DEF MayBe, ChunkPcs

LEMMA ClaimableIs ==
    ASSUME IInv, NEW m \in Messages, NEW i \in Chunks, ClaimStatus(m, i) = "claimable"
    PROVE  chunk[m][i].state \in {"pending", "claimed"} /\ InFront(m, i)
<1>1. chunk[m][i].state \in ChunkStates
  BY RowFacts DEF Rows
<1>2. \A j \in Chunks : chunk[m][j].state \in ChunkStates
  BY RowFacts DEF Rows
<1>3. chunk[m][i].state \notin {"sending_unknown", "delivered", "failed"}
  BY DEF ClaimStatus
<1>4. ~ \E j \in Chunks : j < i /\ chunk[m][j].state # "delivered"
  BY <1>3 DEF ClaimStatus
<1> QED  BY <1>1, <1>3, <1>4 DEF ChunkStates, InFront

LEMMA ClaimedRowIs ==
    ASSUME NEW row \in Rows, NEW w \in Workers
    PROVE  /\ ClaimedRow(row, w) \in Rows
           /\ ClaimedRow(row, w).state = "claimed"
           /\ ClaimedRow(row, w).owner = w
           /\ ClaimedRow(row, w).window = row.window
<1> DEFINE st == "claimed"
           lv == TRUE
           df == FALSE
           rv == row.rev + 1
           ep == row.epoch + 1
           new == [row EXCEPT !.state = st, !.rev = rv, !.owner = w,
                               !.epoch = ep, !.live = lv, !.deferred = df]
<1>1. st \in ChunkStates /\ lv \in BOOLEAN /\ df \in BOOLEAN /\ rv \in Nat /\ ep \in Nat
  BY DEF ChunkStates, Rows
<1>2. ClaimedRow(row, w) = new
  BY DEF ClaimedRow
<1> HIDE DEF st, lv, df, rv, ep
<1>3. new \in Rows /\ new.state = st /\ new.owner = w /\ new.window = row.window
  BY <1>1 DEF Rows
<1> HIDE DEF new
<1> QED  BY <1>2, <1>3 DEF st, lv, df, rv, ep

LEMMA ReleasedRowIs ==
    ASSUME NEW row \in Rows, NEW deferred \in BOOLEAN
    PROVE  /\ ReleasedRow(row, deferred) \in Rows
           /\ ReleasedRow(row, deferred).state = "pending"
           /\ ReleasedRow(row, deferred).window = row.window
<1> DEFINE st == "pending"
           lv == FALSE
           rv == row.rev + 1
           new == [row EXCEPT !.state = st, !.rev = rv, !.owner = Nil,
                               !.live = lv, !.deferred = deferred]
<1>1. st \in ChunkStates /\ lv \in BOOLEAN /\ rv \in Nat
  BY DEF ChunkStates, Rows
<1>2. ReleasedRow(row, deferred) = new
  BY DEF ReleasedRow
<1> HIDE DEF st, lv, rv
<1>3. new \in Rows /\ new.state = st /\ new.window = row.window
  BY <1>1 DEF Rows
<1> HIDE DEF new
<1> QED  BY <1>2, <1>3 DEF st, lv, rv

LEMMA FailedRowIs ==
    ASSUME NEW row \in Rows
    PROVE  /\ FailedRow(row) \in Rows
           /\ FailedRow(row).state = "failed"
           /\ FailedRow(row).window = row.window
<1> DEFINE st == "failed"
           lv == FALSE
           df == FALSE
           rv == row.rev + 1
           new == [row EXCEPT !.state = st, !.rev = rv, !.owner = Nil,
                               !.live = lv, !.deferred = df]
<1>1. st \in ChunkStates /\ lv \in BOOLEAN /\ df \in BOOLEAN /\ rv \in Nat
  BY DEF ChunkStates, Rows
<1>2. FailedRow(row) = new
  BY DEF FailedRow
<1> HIDE DEF st, lv, df, rv
<1>3. new \in Rows /\ new.state = st /\ new.window = row.window
  BY <1>1 DEF Rows
<1> HIDE DEF new
<1> QED  BY <1>2, <1>3 DEF st, lv, df, rv

LEMMA DeliveredRowIs ==
    ASSUME NEW row \in Rows, NEW authorizing \in 0 .. MaxWindows
    PROVE  /\ DeliveredRow(row, authorizing) \in Rows
           /\ DeliveredRow(row, authorizing).state = "delivered"
           /\ DeliveredRow(row, authorizing).window =
                 IF authorizing = 0 THEN row.window ELSE authorizing
<1> DEFINE st == "delivered"
           wd == IF authorizing = 0 THEN row.window ELSE authorizing
           rv == row.rev + 1
           new == [row EXCEPT !.state = st, !.rev = rv, !.owner = Nil,
                               !.window = wd]
<1>1. st \in ChunkStates /\ wd \in 0 .. MaxWindows /\ rv \in Nat
  BY DEF ChunkStates, Rows
<1>2. DeliveredRow(row, authorizing) = new
  BY DEF DeliveredRow
<1> HIDE DEF st, wd, rv
<1>3. new \in Rows /\ new.state = st /\ new.window = wd
  BY <1>1 DEF Rows
<1> HIDE DEF new
<1> QED  BY <1>2, <1>3 DEF st, wd, rv

LEMMA MayClaim ==
    ASSUME IInv, NEW m \in Messages, NEW i \in Chunks, NEW w \in Workers,
           parent[m] # "none", ClaimStatus(m, i) = "claimable"
    PROVE  May(m, i, ClaimedRow(chunk[m][i], w), retried[m][i])
BY ClaimableIs, RowFacts, ClaimedRowIs DEF May

LEMMA MayRelease ==
    ASSUME IInv, NEW m \in Messages, NEW i \in Chunks, NEW deferred \in BOOLEAN,
           parent[m] # "none",
           \/ chunk[m][i].state = "claimed"
           \/ chunk[m][i].state = "sending_unknown" /\ Used(m, i) <= retried[m][i]
    PROVE  May(m, i, ReleasedRow(chunk[m][i], deferred), retried[m][i])
BY RowFacts, ReleasedRowIs DEF May

LEMMA MayFail ==
    ASSUME IInv, NEW m \in Messages, NEW i \in Chunks, parent[m] # "none",
           \/ chunk[m][i].state = "claimed"
           \/ chunk[m][i].state = "sending_unknown" /\ Used(m, i) <= retried[m][i]
    PROVE  May(m, i, FailedRow(chunk[m][i]), retried[m][i])
BY RowFacts, FailedRowIs DEF May

LEMMA MayDeliver ==
    ASSUME IInv, NEW m \in Messages, NEW i \in Chunks, parent[m] # "none",
           chunk[m][i].state = "sending_unknown",
           NEW authorizing \in 0 .. MaxWindows,
           authorizing = 0 \/ authorizing = granted[m][i], NEW again
    PROVE  May(m, i, DeliveredRow(chunk[m][i], authorizing), again)
BY RowFacts, DeliveredRowIs DEF May

\* After Books, a message that has a row keeps it.
LEMMA RowStaysThere ==
    ASSUME IInv, Books, UNCHANGED legacy, NEW m \in Messages, parent[m] # "none"
    PROVE  parent'[m] # "none"
<1>1. CoreType
  BY DEF IInv
<1>2. CASE UNCHANGED ledger
  BY <1>2 DEF ledger
<1>3. ASSUME NEW n \in Messages, FreezeProjection(n)
      PROVE  parent'[m] # "none"
  BY <1>1, <1>3 DEF FreezeProjection, ledger, CoreType
<1>4. ASSUME NEW n \in Messages, NEW i \in Chunks, NEW row \in Rows, PutRow(n, i, row)
      PROVE  parent'[m] # "none"
  BY <1>1, <1>4, PutRowIs
<1> QED  BY <1>2, <1>3, <1>4 DEF Books

LEMMA ClaimKeeps ==
    ASSUME DeliveryAssumption, IInv, NEW w \in Workers, NEW m \in Messages, NEW i \in Chunks,
           NEW next \in {"verify", "observe"}, parent[m] # "none",
           worker[w].pc # "send", ClaimChunk(w, m, i, next), Around
    PROVE  Keeps
<1> DEFINE status == ClaimStatus(m, i)
           row == IF status = "claimable" THEN ClaimedRow(chunk[m][i], w)
                  ELSE chunk[m][i]
           holding == [pc |-> next, m |-> m, i |-> i, epoch |-> row.epoch,
                       rev |-> row.rev, window |-> 0, answer |-> Nil]
           p == CASE status = "delivered" /\ i < NChunks -> [holding EXCEPT !.pc = "next"]
                  [] status \in {"claimable", "claimed"} /\ row.owner = w -> holding
                  [] OTHER -> Idle
<1>1. /\ IF status = "claimable" THEN PutRow(m, i, row) ELSE UNCHANGED ledger
      /\ Turns(w, p)
  BY DEF ClaimChunk, Turns
<1>2. row \in Rows
  BY RowFacts, ClaimedRowIs
<1>3. Books
  <2>1. CASE status = "claimable"
    <3>1. May(m, i, row, retried[m][i])
      BY <2>1, MayClaim
    <3> QED  BY <1>1, <1>2, <2>1, <3>1 DEF Books
  <2> QED  BY <1>1, <2>1 DEF Books
<1>4. parent'[m] # "none"
  BY <1>3, RowStaysThere DEF Around
<1> HIDE DEF row, status
<1>5. holding \in WorkerRecords /\ [holding EXCEPT !.pc = "next"] \in WorkerRecords
  <2>1. row.epoch \in Nat /\ row.rev \in Nat
    BY <1>2 DEF Rows
  <2>2. i \in 0 .. NChunks
    BY Bounds DEF Chunks
  <2>3. \A pc \in Pcs : [pc |-> pc, m |-> m, i |-> i, epoch |-> row.epoch,
                         rev |-> row.rev, window |-> 0, answer |-> Nil] \in WorkerRecords
    BY <2>1, <2>2, Bounds DEF WorkerRecords
  <2>4. [holding EXCEPT !.pc = "next"] =
           [pc |-> "next", m |-> m, i |-> i, epoch |-> row.epoch,
            rev |-> row.rev, window |-> 0, answer |-> Nil]
    OBVIOUS
  <2> QED  BY <2>3, <2>4 DEF Pcs, ChunkPcs
<1>6. MayBe(holding)
  BY <1>4 DEF MayBe, ChunkPcs
<1>7. i < NChunks => MayBe([holding EXCEPT !.pc = "next"])
  BY <1>4, Bounds DEF MayBe, ChunkPcs, Chunks
<1> HIDE DEF holding
<1>8. p \in WorkerRecords /\ MayBe(p)
  BY <1>5, <1>6, <1>7, IdleIs
<1> HIDE DEF p
<1> QED  BY <1>1, <1>3, <1>8, TurnKeeps

LEMMA GotoIs ==
    ASSUME CoreType, NEW w \in Workers, NEW pc \in Pcs, Goto(w, pc)
    PROVE  LET p == [worker[w] EXCEPT !.pc = pc]
           IN  /\ p \in WorkerRecords /\ Turns(w, p)
               /\ p.pc = pc /\ p.m = worker[w].m /\ p.i = worker[w].i
               /\ p.answer = worker[w].answer /\ p.window = worker[w].window
<1>1. worker[w] \in WorkerRecords
  BY DEF CoreType
<1>2. Turns(w, [worker[w] EXCEPT !.pc = pc])
  BY DEF Goto, Turns, CoreType
<1> QED  BY <1>1, <1>2 DEF WorkerRecords

\* A worker at a chunk, and where it may go on from there.
LEMMA AtChunk ==
    ASSUME IInv, NEW w \in Workers, worker[w].pc \in ChunkPcs
    PROVE  /\ worker[w].m \in Messages /\ worker[w].i \in Chunks
           /\ parent[worker[w].m] # "none"
           /\ Row(w) = chunk[worker[w].m][worker[w].i]
BY DEF IInv, WorkerOK, Row

LEMMA GoOnKeeps ==
    ASSUME DeliveryAssumption, IInv, NEW w \in Workers,
           worker[w].pc \in ChunkPcs \ {"send"},
           NEW pc \in {"observe", "begin"}, Goto(w, pc), UNCHANGED ledger, Around
    PROVE  Keeps
<1> DEFINE p == [worker[w] EXCEPT !.pc = pc]
<1>1. /\ p \in WorkerRecords /\ Turns(w, p)
      /\ p.pc = pc /\ p.m = worker[w].m /\ p.i = worker[w].i
  BY GotoIs DEF IInv, Pcs, ChunkPcs
<1>2. MayBe(p)
  BY <1>1, AtChunk DEF MayBe, ledger
<1> HIDE DEF p
<1> QED  BY <1>1, <1>2, TurnKeeps DEF Books

\* A claim is given back, or not, and the worker goes home.
LEMMA GiveBackKeeps ==
    ASSUME DeliveryAssumption, IInv, NEW w \in Workers,
           worker[w].pc \in ChunkPcs \ {"send"}, Stop(w), Around,
           IF Fence(Row(w), w, "claimed") /\ Row(w).live
           THEN PutRow(worker[w].m, worker[w].i, ReleasedRow(Row(w), FALSE))
           ELSE UNCHANGED ledger
    PROVE  Keeps
<1> DEFINE m == worker[w].m
           i == worker[w].i
<1>1. /\ m \in Messages /\ i \in Chunks /\ parent[m] # "none"
      /\ Row(w) = chunk[m][i]
  BY AtChunk
<1>2. Turns(w, Idle)
  BY DEF Stop, Turns
<1>3. ASSUME Fence(Row(w), w, "claimed"), PutRow(m, i, ReleasedRow(chunk[m][i], FALSE))
      PROVE  Books
  <2>1. chunk[m][i].state = "claimed"
    BY <1>1, <1>3 DEF Fence
  <2>2. May(m, i, ReleasedRow(chunk[m][i], FALSE), retried[m][i])
    BY <1>1, <2>1, MayRelease
  <2>3. ReleasedRow(chunk[m][i], FALSE) \in Rows
    BY <1>1, RowFacts, ReleasedRowIs
  <2> QED  BY <1>1, <1>3, <2>2, <2>3 DEF Books
<1>4. Books
  BY <1>1, <1>3 DEF Books
<1> QED  BY <1>2, <1>4, IdleIs, TurnKeeps

LEMMA VerifyKeeps ==
    ASSUME DeliveryAssumption, IInv, NEW w \in Workers, VerifyFrozen(w)
    PROVE  Keeps
<1>1. Around
  BY FaultCounts DEF VerifyFrozen, Around, IInv
<1>2. worker[w].pc \in ChunkPcs \ {"send"}
  BY DEF VerifyFrozen, At, ChunkPcs
<1> QED  BY <1>1, <1>2, GoOnKeeps, GiveBackKeeps DEF VerifyFrozen

LEMMA ObserveKeeps ==
    ASSUME DeliveryAssumption, IInv, NEW w \in Workers, ObserveCapability(w)
    PROVE  Keeps
<1>1. Around
  BY FaultCounts DEF ObserveCapability, Around, IInv
<1>2. worker[w].pc \in ChunkPcs \ {"send"}
  BY DEF ObserveCapability, At, ChunkPcs
<1> QED  BY <1>1, <1>2, GoOnKeeps, GiveBackKeeps DEF ObserveCapability

LEMMA StartKeeps ==
    ASSUME DeliveryAssumption, IInv, NEW w \in Workers, NEW m \in Messages,
           StartDelivery(w, m)
    PROVE  Keeps
<1>1. Around /\ worker[w].pc # "send"
  BY FaultCounts DEF StartDelivery, Around, IInv, At
<1>2. CASE parent[m] # "none"
  BY <1>1, <1>2, ChunksExist, ClaimKeeps DEF StartDelivery
<1>3. CASE parent[m] = "none"
  <2> DEFINE p == [pc |-> "freeze", m |-> m, i |-> 0, epoch |-> 0, rev |-> 0,
                   window |-> 0, answer |-> Nil]
  <2>1. m \in Events /\ UNCHANGED ledger /\ Turns(w, p)
    BY <1>3 DEF StartDelivery, Turns, Idle
  <2>2. p \in WorkerRecords
    BY Bounds DEF WorkerRecords, Pcs
  <2>3. MayBe(p)
    BY <2>1 DEF MayBe, ChunkPcs
  <2> HIDE DEF p
  <2> QED  BY <1>1, <2>1, <2>2, <2>3, TurnKeeps DEF Books
<1> QED  BY <1>2, <1>3

LEMMA FreezeEventKeeps ==
    ASSUME DeliveryAssumption, IInv, NEW w \in Workers, FreezeEvent(w)
    PROVE  Keeps
<1> DEFINE m == worker[w].m
           p == [worker[w] EXCEPT !.pc = "next", !.i = 0]
<1>1. /\ Around /\ worker[w].pc = "freeze" /\ FreezeProjection(m)
      /\ \/ Stop(w)
         \/ legacy[m].state = "none" /\ worker' = [worker EXCEPT ![w].pc = "next", ![w].i = 0]
  BY FaultCounts DEF FreezeEvent, Around, IInv, At
<1>2. m \in Messages
  BY <1>1 DEF IInv, WorkerOK, Messages
<1>3. Books
  BY <1>1, <1>2 DEF Books
<1>4. CASE Stop(w)
  <2>1. Turns(w, Idle)
    BY <1>4 DEF Stop, Turns
  <2> QED  BY <1>1, <1>3, <2>1, IdleIs, TurnKeeps
<1>5. CASE /\ legacy[m].state = "none"
           /\ worker' = [worker EXCEPT ![w].pc = "next", ![w].i = 0]
  <2>1. worker[w] \in WorkerRecords /\ Turns(w, p)
    BY <1>5 DEF IInv, CoreType, Turns
  <2>2. \A pc \in Pcs, i \in 0 .. NChunks :
           LET q == [worker[w] EXCEPT !.pc = pc, !.i = i]
           IN  q \in WorkerRecords /\ q.pc = pc /\ q.i = i /\ q.m = m
    BY <2>1 DEF WorkerRecords
  <2>3. p \in WorkerRecords /\ p.pc = "next" /\ p.i = 0 /\ p.m = m
    <3> DEFINE nx == "next"
    <3>1. nx \in Pcs
      BY DEF Pcs
    <3> HIDE DEF nx
    <3>2. LET q == [worker[w] EXCEPT !.pc = nx, !.i = 0]
          IN  q \in WorkerRecords /\ q.pc = nx /\ q.i = 0 /\ q.m = m
      BY <2>2, <3>1, Bounds
    <3> QED  BY <3>2 DEF nx
  <2>4. parent'[m] # "none"
    BY <1>1, <1>2, <1>5 DEF FreezeProjection, IInv, CoreType, ledger
  <2>5. MayBe(p)
    BY <1>2, <2>3, <2>4, ChunksExist DEF MayBe, ChunkPcs
  <2> HIDE DEF p
  <2> QED  BY <1>1, <1>3, <2>1, <2>3, <2>5, TurnKeeps
<1> QED  BY <1>1, <1>4, <1>5

LEMMA ClaimNextKeeps ==
    ASSUME DeliveryAssumption, IInv, NEW w \in Workers, ClaimNext(w)
    PROVE  Keeps
<1>1. Around /\ worker[w].pc = "next"
  BY FaultCounts DEF ClaimNext, Around, IInv, At
<1>2. /\ worker[w].m \in Messages /\ parent[worker[w].m] # "none"
      /\ worker[w].i + 1 \in Chunks
  BY <1>1 DEF IInv, WorkerOK
<1> QED  BY <1>1, <1>2, ClaimKeeps DEF ClaimNext

LEMMA SettledRowMay ==
    ASSUME IInv, NEW w \in Workers, worker[w].pc = "settle",
           worker[w].answer \notin {"unknown", "gate_closed"},
           Fence(Row(w), w, "sending_unknown")
    PROVE  /\ SettledRow(Row(w), worker[w]) \in Rows
           /\ May(worker[w].m, worker[w].i, SettledRow(Row(w), worker[w]),
                  retried[worker[w].m][worker[w].i])
<1> DEFINE m == worker[w].m
           i == worker[w].i
           a == worker[w].answer
           row == chunk[m][i]
<1>1. /\ m \in Messages /\ i \in Chunks /\ parent[m] # "none" /\ Row(w) = row
  BY AtChunk DEF ChunkPcs
<1>2. row \in Rows
  BY <1>1, RowFacts
<1>3. row.state = "sending_unknown" /\ Owns(w, m, i)
  BY <1>1 DEF Fence, Owns
<1>4. /\ worker[w].window = granted[m][i] /\ a \in Answers
      /\ a \in Refusals => Used(m, i) <= retried[m][i]
  BY <1>3 DEF IInv, WorkerOK
<1>5. worker[w].window \in 0 .. MaxWindows
  BY DEF IInv, CoreType, WorkerRecords
<1>6. CASE a = "accepted"
  <2>1. SettledRow(row, worker[w]) = DeliveredRow(row, worker[w].window)
    BY <1>6 DEF SettledRow
  <2>2. DeliveredRow(row, worker[w].window) \in Rows
    BY <1>2, <1>5, DeliveredRowIs
  <2>3. May(m, i, DeliveredRow(row, worker[w].window), retried[m][i])
    BY <1>1, <1>3, <1>4, <1>5, MayDeliver
  <2> QED  BY <1>1, <2>1, <2>2, <2>3
<1>7. CASE a \in {"retryable_before_send", "refused_before_send", "rate_limited"}
  <2>1. \E d \in BOOLEAN : SettledRow(row, worker[w]) = ReleasedRow(row, d)
    BY <1>7 DEF SettledRow
  <2>2. Used(m, i) <= retried[m][i]
    BY <1>4, <1>7 DEF Refusals
  <2> QED  BY <1>1, <1>2, <1>3, <2>1, <2>2, ReleasedRowIs, MayRelease
<1>8. CASE a = "rejected"
  <2>1. SettledRow(row, worker[w]) = FailedRow(row)
    BY <1>8 DEF SettledRow
  <2>2. Used(m, i) <= retried[m][i]
    BY <1>4, <1>8 DEF Refusals
  <2> QED  BY <1>1, <1>2, <1>3, <2>1, <2>2, FailedRowIs, MayFail
<1> QED  BY <1>4, <1>6, <1>7, <1>8 DEF Answers

LEMMA SettleKeeps ==
    ASSUME DeliveryAssumption, IInv, NEW w \in Workers, SettleChunk(w)
    PROVE  Keeps
<1> DEFINE m == worker[w].m
           i == worker[w].i
           fenced == /\ worker[w].answer \notin {"unknown", "gate_closed"}
                     /\ Fence(Row(w), w, "sending_unknown")
           row == SettledRow(Row(w), worker[w])
           onward == [Idle EXCEPT !.pc = "next", !.m = m, !.i = i]
<1>1. /\ Around /\ worker[w].pc = "settle"
      /\ IF fenced THEN PutRow(m, i, row) ELSE UNCHANGED ledger
      /\ \/ Turns(w, Idle)
         \/ i < NChunks /\ Turns(w, onward)
  BY FaultCounts DEF SettleChunk, Around, IInv, At, Stop, Turns
<1>2. m \in Messages /\ i \in Chunks /\ parent[m] # "none"
  BY <1>1, AtChunk DEF ChunkPcs
<1>3. Books
  <2>1. CASE fenced
    <3>1. row \in Rows /\ May(m, i, row, retried[m][i])
      BY <1>1, <2>1, SettledRowMay
    <3> HIDE DEF row
    <3> QED  BY <1>1, <1>2, <2>1, <3>1 DEF Books
  <2> QED  BY <1>1, <2>1 DEF Books
<1>4. parent'[m] # "none"
  BY <1>1, <1>2, <1>3, RowStaysThere DEF Around
<1>5. CASE Turns(w, Idle)
  BY <1>1, <1>3, <1>5, IdleIs, TurnKeeps
<1>6. CASE i < NChunks /\ Turns(w, onward)
  <2>2. i \in 0 .. NChunks /\ i + 1 \in Chunks
    BY <1>2, <1>6, Bounds DEF Chunks
  <2>3. onward \in WorkerRecords /\ onward.pc = "next" /\ onward.m = m /\ onward.i = i
    <3> DEFINE nx == "next"
    <3>1. nx \in Pcs /\ Idle \in WorkerRecords
      BY IdleIs DEF Pcs
    <3> HIDE DEF nx
    <3>2. LET q == [Idle EXCEPT !.pc = nx, !.m = m, !.i = i]
          IN  q \in WorkerRecords /\ q.pc = nx /\ q.m = m /\ q.i = i
      BY <1>2, <2>2, <3>1 DEF WorkerRecords
    <3> QED  BY <3>2 DEF nx
  <2>4. MayBe(onward)
    BY <1>2, <1>4, <2>2, <2>3 DEF MayBe, ChunkPcs
  <2> HIDE DEF onward
  <2> QED  BY <1>1, <1>3, <1>6, <2>3, <2>4, TurnKeeps
<1> QED  BY <1>1, <1>5, <1>6

-----------------------------------------------------------------------------
(* The frame is handed over, is posted late, or dies with its daemon.       *)

LEMMA AddsIs ==
    ASSUME NEW f \in Counts, NEW g, NEW m \in Messages, NEW i \in Chunks,
           Adds(f, g, m, i)
    PROVE  /\ g \in Counts /\ g[m][i] = f[m][i] + 1
           /\ \A n \in Messages, j \in Chunks : ~(n = m /\ j = i) => g[n][j] = f[n][j]
<1>1. g = [f EXCEPT ![m] = [f[m] EXCEPT ![i] = f[m][i] + 1]]
  BY DEF Adds
<1>2. f[m][i] + 1 \in Nat /\ f[m] \in [Chunks -> Nat]
  BY DEF Counts
<1>3. [f[m] EXCEPT ![i] = f[m][i] + 1] \in [Chunks -> Nat]
  BY <1>2
<1>4. g \in Counts /\ g[m] = [f[m] EXCEPT ![i] = f[m][i] + 1]
      /\ \A n \in Messages : n # m => g[n] = f[n]
  BY <1>1, <1>3 DEF Counts
<1> QED  BY <1>2, <1>4

\* The frame of a used permit: posted, on the wire, or neither.
Handed(m, i) ==
    \/ Adds(posted, posted', m, i) /\ UNCHANGED wire
    \/ Adds(wire, wire', m, i) /\ UNCHANGED posted
    \/ UNCHANGED <<posted, wire>>

LEMMA HandedOver ==
    ASSUME IInv, NEW w \in Workers, NEW p \in WorkerRecords, Turns(w, p),
           p.pc # "send", NEW m \in Messages, NEW i \in Chunks,
           Holds(worker[w], m, i), Handed(m, i), UNCHANGED retried
    PROVE  /\ FiniteHolders' /\ NoMoreSent
           /\ posted' \in Counts /\ wire' \in Counts
           /\ UNCHANGED <<posted, wire>> => Used(m, i)' = Used(m, i) - 1
<1>1. CoreType /\ RestType /\ FiniteHolders
  BY DEF IInv
<1>2. /\ FiniteHolders'
      /\ Permits(m, i) >= 1 /\ Permits(m, i)' = Permits(m, i) - 1
      /\ \A n \in Messages, j \in Chunks : ~(n = m /\ j = i) =>
            Permits(n, j)' = Permits(n, j)
  BY <1>1, PermitGoes
<1>3. posted \in Counts /\ wire \in Counts /\ retried \in Counts
  BY <1>1 DEF RestType
<1>4. posted' \in Counts /\ wire' \in Counts
  BY <1>3, AddsIs DEF Handed
<1>5. /\ \/ posted'[m][i] = posted[m][i] + 1 /\ wire'[m][i] = wire[m][i]
         \/ wire'[m][i] = wire[m][i] + 1 /\ posted'[m][i] = posted[m][i]
         \/ UNCHANGED <<posted, wire>>
      /\ \A n \in Messages, j \in Chunks : ~(n = m /\ j = i) =>
            posted'[n][j] = posted[n][j] /\ wire'[n][j] = wire[n][j]
  BY <1>3, AddsIs DEF Handed
<1>6. ASSUME NEW n \in Messages, NEW j \in Chunks
      PROVE  Used(n, j)' <= Used(n, j) /\ retried[n][j] <= retried'[n][j]
  <2>1. /\ posted[n][j] \in Nat /\ wire[n][j] \in Nat /\ Permits(n, j) \in Nat
        /\ retried[n][j] \in Nat
    BY <1>1, UsedType DEF RestType, Counts
  <2>2. CASE n = m /\ j = i
    BY <1>2, <1>5, <2>1, <2>2 DEF Used
  <2>3. CASE ~(n = m /\ j = i)
    BY <1>2, <1>5, <2>1, <2>3 DEF Used
  <2> QED  BY <2>2, <2>3
<1>7. UNCHANGED <<posted, wire>> => Used(m, i)' = Used(m, i) - 1
  <2>1. posted[m][i] \in Nat /\ wire[m][i] \in Nat /\ Permits(m, i) \in Nat
    BY <1>1, UsedType
  <2> QED  BY <1>2, <2>1 DEF Used
<1> QED  BY <1>2, <1>4, <1>6, <1>7 DEF NoMoreSent

LEMMA HandKeeps ==
    ASSUME IInv, NEW w \in Workers, NEW p \in WorkerRecords, Turns(w, p),
           p.pc # "send", NEW m \in Messages, NEW i \in Chunks,
           Holds(worker[w], m, i), Handed(m, i), faults' \in 0 .. MaxFaults,
           UNCHANGED <<ledger, legacy, gate, oldPosted, granted, operator>>,
           WorkerOK(w)'
    PROVE  Keeps
<1>1. /\ FiniteHolders' /\ NoMoreSent
      /\ posted' \in Counts /\ wire' \in Counts
  BY HandedOver DEF operator
<1>2. /\ worker' \in [Workers -> WorkerRecords]
      /\ \A v \in Workers : v # w => worker'[v] = worker[v]
  BY TurnIs DEF IInv
<1>3. Typed
  BY <1>1, <1>2 DEF IInv, CoreType, RestType, Typed, ledger, gate, operator
<1>4. Calm
  BY <1>1, KeepCalm DEF ledger
<1>5. \A n \in Messages : LegacyOK(n)'
  BY <1>4, CalmLegacy
<1>6. IInv' /\ SettledIsFinal
  BY <1>2, <1>3, <1>4, <1>5, CalmStep, CalmFinal
<1>7. CASE Adds(posted, posted', m, i) /\ UNCHANGED wire
  <2>1. /\ posted[m][i] + wire[m][i] + Permits(m, i) <= 1 + retried[m][i]
        /\ chunk[m][i].state \notin {"sending_unknown", "delivered"} =>
              posted[m][i] + wire[m][i] + Permits(m, i) <= retried[m][i]
        /\ chunk[m][i].state \in ChunkStates
    BY RowFacts DEF IInv, RowOK, Used, Rows
  <2>2. /\ posted[m][i] \in Nat /\ wire[m][i] \in Nat /\ Permits(m, i) \in Nat
        /\ retried[m][i] \in Nat /\ Permits(m, i) >= 1
    BY UsedType, PermitGoes DEF IInv, RestType, Counts
  <2>3. UNCHANGED Face
    BY DEF Face, ledger
  <2>4. posted[m][i] <= retried[m][i]
    BY <2>1, <2>2
  <2>5. \/ chunk[m][i].state \in {"sending_unknown", "delivered"}
        \/ retried[m][i] > 0
    BY <2>1, <2>2
  <2>6. Face[m][i] \in {"maybe", "done"} \/ retried[m][i] > 0
    BY <2>5 DEF Face, Seen
  <2>7. Simulated
    BY <1>7, <2>3, <2>4, <2>6, SimPost DEF operator
  <2> QED  BY <1>6, <2>7 DEF Keeps
<1>8. CASE UNCHANGED posted
  <2>1. Simulated
    BY <1>8, FaceSame DEF ledger, operator
  <2> QED  BY <1>6, <2>1 DEF Keeps
<1> QED  BY <1>7, <1>8 DEF Handed

LEMMA SendKeeps ==
    ASSUME DeliveryAssumption, IInv, NEW w \in Workers, SendChunk(w)
    PROVE  Keeps
<1>1. worker[w].pc = "send" /\ worker[w].pc \in ChunkPcs
  BY DEF SendChunk, At, ChunkPcs
<1>m. PICK m \in Messages, i \in Chunks : m = worker[w].m /\ i = worker[w].i
  BY <1>1, AtChunk
<1>2. parent[m] # "none" /\ Holds(worker[w], m, i)
  BY <1>1, <1>m, AtChunk DEF Holds
<1>3. PICK a \in Answers :
         /\ worker' = [worker EXCEPT ![w].pc = "settle", ![w].answer = a]
         /\ posted' = IF a = "accepted"
                      THEN [posted EXCEPT ![m][i] = @ + 1] ELSE posted
         /\ wire' = IF a = "unknown"
                    THEN [wire EXCEPT ![m][i] = @ + 1] ELSE wire
         /\ IF a \in {"accepted", "gate_closed"} THEN UNCHANGED faults ELSE Fault
  BY <1>m DEF SendChunk
<1> DEFINE p == [worker[w] EXCEPT !.pc = "settle", !.answer = a]
<1>4. Turns(w, p)
  BY <1>3 DEF Turns, IInv, CoreType
<1>5. /\ p \in WorkerRecords /\ p.pc = "settle" /\ p.answer = a
      /\ p.m = m /\ p.i = i /\ p.window = worker[w].window
  <2> DEFINE st == "settle"
  <2>1. st \in Pcs /\ worker[w] \in WorkerRecords
    BY DEF Pcs, ChunkPcs, IInv, CoreType
  <2> HIDE DEF st
  <2>2. LET q == [worker[w] EXCEPT !.pc = st, !.answer = a]
        IN  /\ q \in WorkerRecords /\ q.pc = st /\ q.answer = a
            /\ q.m = worker[w].m /\ q.i = worker[w].i
            /\ q.window = worker[w].window
    BY <2>1 DEF WorkerRecords
  <2> QED  BY <1>m, <2>2 DEF st
<1>6. Handed(m, i)
  BY <1>3 DEF Handed, Adds
<1>7. faults' \in 0 .. MaxFaults
  BY <1>3, FaultCounts DEF IInv
<1>8. UNCHANGED <<ledger, legacy, gate, oldPosted, granted, operator>>
  BY DEF SendChunk
<1>9. worker'[w] = p
  BY <1>4, <1>5, TurnIs DEF IInv
<1>10. p.answer \in Refusals /\ Owns(w, m, i)' => Used(m, i)' <= retried'[m][i]
  <2> HAVE p.answer \in Refusals /\ Owns(w, m, i)'
  <2>1. UNCHANGED <<posted, wire>>
    BY <1>3, <1>5 DEF Refusals
  <2>2. Used(m, i)' = Used(m, i) - 1
    <3> HIDE DEF p
    <3> QED  BY <1>2, <1>4, <1>5, <1>6, <1>8, <2>1, HandedOver DEF operator
  <2>3. Used(m, i) <= 1 + retried[m][i]
    BY <1>2 DEF IInv, RowOK
  <2>4. Used(m, i) \in Nat /\ retried[m][i] \in Nat
    BY <1>2, UsedType DEF IInv, RestType, Counts
  <2> QED  BY <1>8, <2>2, <2>3, <2>4 DEF operator
<1>11. Owns(w, m, i)' => p.window = granted'[m][i]
  <2>1. Owns(w, m, i)' <=> Owns(w, m, i)
    BY <1>8 DEF Owns, ledger
  <2>2. Owns(w, m, i) => worker[w].window = granted[m][i]
    BY <1>1, <1>m DEF IInv, WorkerOK
  <2> QED  BY <1>5, <1>8, <2>1, <2>2
<1>12. WorkerOK(w)'
  <2> HIDE DEF p
  <2>1. worker'[w].pc = "settle" /\ worker'[w].answer \in Answers
        /\ worker'[w].m = m /\ worker'[w].i = i /\ worker'[w].window = p.window
    BY <1>5, <1>9
  <2>2. m \in Messages /\ i \in Chunks /\ parent'[m] # "none"
    BY <1>2, <1>8 DEF ledger
  <2>3. /\ Owns(w, worker[w].m, worker[w].i)' <=> Owns(w, m, i)'
        /\ Used(worker[w].m, worker[w].i)' = Used(m, i)'
    BY <2>1 DEF Owns, Used, Permits, At
  <2> QED  BY <1>5, <1>9, <1>10, <1>11, <2>1, <2>2, <2>3 DEF WorkerOK, LegacyPcs
<1> HIDE DEF p
<1> QED  BY <1>2, <1>4, <1>5, <1>6, <1>7, <1>8, <1>12, HandKeeps

LEMMA DieKeeps ==
    ASSUME DeliveryAssumption, IInv, NEW w \in Workers, Die(w)
    PROVE  Keeps
<1>1. /\ Turns(w, Dead)
      /\ UNCHANGED <<ledger, legacy, gate, posted, oldPosted, granted, operator>>
      /\ faults' \in 0 .. MaxFaults
  BY FaultCounts DEF Die, Turns, IInv
<1>2. Dead \in WorkerRecords /\ MayBe(Dead) /\ Dead.pc # "send"
  BY IdleIs DEF Dead, MayBe
<1>3. worker'[w] = Dead
  BY <1>1, <1>2, TurnIs DEF IInv
<1>4. WorkerOK(w)'
  BY <1>2, <1>3, MayBeOK
<1>5. CASE worker[w].pc = "send"
  <2> DEFINE m == worker[w].m
             i == worker[w].i
  <2>1. m \in Messages /\ i \in Chunks /\ Holds(worker[w], m, i)
    BY <1>5, AtChunk DEF Holds, ChunkPcs
  <2>2. Handed(m, i)
    BY <1>1, <1>5 DEF Die, At, Handed, Adds
  <2> HIDE DEF m, i
  <2> QED  BY <1>1, <1>2, <1>4, <2>1, <2>2, HandKeeps
<1>6. CASE worker[w].pc # "send"
  <2>1. UNCHANGED wire
    BY <1>6 DEF Die, At
  <2> QED  BY <1>1, <1>2, <1>6, <2>1, TurnKeeps DEF Around, chat, Books
<1> QED  BY <1>5, <1>6

-----------------------------------------------------------------------------
(* A send is permitted: the count goes up and the row is sending_unknown.   *)

LEMMA SendingRowIs ==
    ASSUME NEW row \in Rows
    PROVE  /\ SendingRow(row) \in Rows
           /\ SendingRow(row).state = "sending_unknown"
           /\ SendingRow(row).owner = row.owner
           /\ SendingRow(row).window = row.window
<1> DEFINE st == "sending_unknown"
           lv == FALSE
           rv == row.rev + 1
           new == [row EXCEPT !.state = st, !.rev = rv, !.live = lv]
<1>1. st \in ChunkStates /\ lv \in BOOLEAN /\ rv \in Nat
  BY DEF ChunkStates, Rows
<1>2. SendingRow(row) = new
  BY DEF SendingRow
<1> HIDE DEF st, lv, rv
<1>3. new \in Rows /\ new.state = st /\ new.owner = row.owner /\ new.window = row.window
  BY <1>1 DEF Rows
<1> HIDE DEF new
<1> QED  BY <1>2, <1>3 DEF st

Marks(m, i) == granted' = [granted EXCEPT ![m][i] = window]

\* What begin_transport_delivery_chunk_send does when it permits.
Permitted(w, m, i, p) ==
    /\ PutRow(m, i, SendingRow(chunk[m][i])) /\ Turns(w, p)
    /\ Marks(m, i)

LEMMA PermittedKeeps ==
    ASSUME IInv, NEW w \in Workers, NEW m \in Messages, NEW i \in Chunks,
           worker[w].pc # "send", parent[m] # "none",
           chunk[m][i].state = "claimed", chunk[m][i].owner = w,
           NEW p \in WorkerRecords, Permitted(w, m, i, p),
           p.pc = "send", p.m = m, p.i = i, p.window = window,
           UNCHANGED <<legacy, gate, chat, operator, faults>>
    PROVE  Keeps
<1>0. CoreType /\ RestType /\ FiniteHolders
  BY DEF IInv
<1>1. SendingRow(chunk[m][i]) \in Rows /\ SendingRow(chunk[m][i]).state = "sending_unknown"
      /\ SendingRow(chunk[m][i]).owner = w
      /\ SendingRow(chunk[m][i]).window = chunk[m][i].window
  BY RowFacts, SendingRowIs
<1>2. /\ chunk' \in [Messages -> [Chunks -> Rows]]
      /\ parent' \in [Messages -> ParentStates]
      /\ chunk'[m][i] = SendingRow(chunk[m][i])
      /\ \A n \in Messages : n # m =>
            chunk'[n] = chunk[n] /\ parent'[n] = parent[n]
      /\ \A j \in Chunks : j # i => chunk'[m][j] = chunk[m][j]
      /\ parent'[m] = ParentOf(chunk'[m]) /\ parent'[m] # "none"
  BY <1>0, <1>1, PutRowIs DEF Permitted
<1>3. /\ worker' \in [Workers -> WorkerRecords] /\ worker'[w] = p
      /\ \A v \in Workers : v # w => worker'[v] = worker[v]
  BY <1>0, TurnIs DEF Permitted
<1>4. /\ granted' \in Counts /\ granted'[m][i] = window
      /\ \A n \in Messages, j \in Chunks : ~(n = m /\ j = i) =>
            granted'[n][j] = granted[n][j]
  <2>1. granted' = [granted EXCEPT ![m] = [granted[m] EXCEPT ![i] = window]]
    BY DEF Permitted, Marks
  <2>2. window \in Nat /\ granted[m] \in [Chunks -> Nat]
    BY <1>0 DEF RestType, Counts
  <2>3. [granted[m] EXCEPT ![i] = window] \in [Chunks -> Nat]
    BY <2>2
  <2>4. /\ granted' \in Counts /\ granted'[m] = [granted[m] EXCEPT ![i] = window]
        /\ \A n \in Messages : n # m => granted'[n] = granted[n]
    BY <1>0, <2>1, <2>3 DEF RestType, Counts
  <2> QED  BY <2>2, <2>4
<1>5. /\ FiniteHolders' /\ Permits(m, i)' = Permits(m, i) + 1
      /\ \A n \in Messages, j \in Chunks : ~(n = m /\ j = i) =>
            Permits(n, j)' = Permits(n, j)
  BY <1>0, PermitComes DEF Permitted, Holds
<1>6. Typed
  BY <1>0, <1>2, <1>3, <1>4, <1>5
     DEF CoreType, RestType, Typed, gate, chat, operator
<1>7. /\ Used(m, i)' = Used(m, i) + 1
      /\ \A n \in Messages, j \in Chunks : ~(n = m /\ j = i) =>
            Used(n, j)' = Used(n, j)
  <2>1. UNCHANGED <<posted, wire>>
    BY DEF chat
  <2>2. posted[m][i] \in Nat /\ wire[m][i] \in Nat /\ Permits(m, i) \in Nat
    BY <1>0, UsedType
  <2> QED  BY <1>5, <2>1, <2>2 DEF Used
<1>8. ASSUME NEW n \in Messages, NEW j \in Chunks, InFront(n, j)
      PROVE  InFront(n, j)'
  <2>1. ASSUME NEW k \in Chunks, k < j
        PROVE  chunk'[n][k].state = "delivered"
    <3>1. chunk[n][k].state = "delivered"
      BY <1>8, <2>1 DEF InFront
    <3>2. chunk'[n][k] = chunk[n][k]
      BY <1>2, <3>1
    <3> QED  BY <3>1, <3>2
  <2> QED  BY <2>1 DEF InFront
<1>9. ASSUME NEW n \in Messages, NEW j \in Chunks
      PROVE  RowOK(n, j)'
  <2>1. RowOK(n, j) /\ retried' = retried
    BY DEF IInv, operator
  <2>2. CASE n = m /\ j = i
    <3>1. Used(m, i) \in Nat /\ retried[m][i] \in Nat
      BY <1>6, CountTypes
    <3>2. /\ Used(m, i) <= retried[m][i] /\ InFront(m, i)
          /\ chunk[m][i].window = 0
      BY RowFacts
    <3>3. /\ chunk'[m][i].state = "sending_unknown" /\ chunk'[m][i].window = 0
          /\ InFront(m, i)'
      BY <1>1, <1>2, <1>8, <3>2
    <3> QED  BY <1>7, <2>1, <2>2, <3>1, <3>2, <3>3 DEF RowOK
  <2>3. CASE ~(n = m /\ j = i)
    <3>1. chunk'[n][j] = chunk[n][j] /\ granted'[n][j] = granted[n][j]
          /\ Used(n, j)' = Used(n, j)
      BY <1>2, <1>4, <1>7, <2>3
    <3> QED  BY <1>8, <2>1, <3>1 DEF RowOK
  <2> QED  BY <2>2, <2>3
<1>10. ASSUME NEW n \in Messages
       PROVE  ParentOK(n)' /\ LegacyOK(n)'
  <2>1. ParentOK(n) /\ LegacyOK(n) /\ UNCHANGED <<legacy, oldPosted>>
    BY DEF IInv, chat
  <2>2. CASE n = m
    <3>1. ParentOK(m)'
      BY <1>2 DEF ParentOK
    <3>2. legacy[m].state = "none"
      BY <2>1, <2>2 DEF LegacyOK
    <3> QED  BY <2>1, <2>2, <3>1, <3>2 DEF LegacyOK
  <2>3. CASE n # m
    <3>1. /\ chunk'[n] = chunk[n] /\ parent'[n] = parent[n]
          /\ \A j \in Chunks : Used(n, j)' = Used(n, j)
      BY <1>2, <1>7, <2>3
    <3> QED  BY <2>1, <3>1 DEF ParentOK, LegacyOK
  <2> QED  BY <2>2, <2>3
<1>11. ASSUME NEW v \in Workers, v # w
       PROVE  WorkerOK(v)'
  <2> DEFINE q == worker[v]
  <2>1. WorkerOK(v) /\ worker'[v] = q /\ UNCHANGED <<legacy, retried>>
    BY <1>3, <1>11 DEF IInv, operator
  <2>2. \A n \in Messages : parent[n] # "none" => parent'[n] # "none"
    BY <1>2
  <2>3. ASSUME q.pc \in {"send", "settle"}, Owns(v, q.m, q.i)'
        PROVE  /\ Owns(v, q.m, q.i) /\ granted'[q.m][q.i] = granted[q.m][q.i]
               /\ Used(q.m, q.i)' = Used(q.m, q.i)
    <3>1. q.m \in Messages /\ q.i \in Chunks
      BY <2>1, <2>3 DEF WorkerOK, ChunkPcs
    <3>2. chunk'[q.m][q.i].owner = v
      BY <2>1, <2>3 DEF Owns
    <3>3. ~(q.m = m /\ q.i = i)
      BY <1>1, <1>2, <1>11, <3>2
    <3>4. chunk'[q.m][q.i] = chunk[q.m][q.i] /\ granted'[q.m][q.i] = granted[q.m][q.i]
      BY <1>2, <1>4, <3>1, <3>3
    <3>5. \A n \in Messages, j \in Chunks : ~(n = m /\ j = i) => Used(n, j)' = Used(n, j)
      BY <1>7
    <3>6. Used(q.m, q.i)' = Used(q.m, q.i)
      <4>1. PICK n \in Messages, j \in Chunks : n = q.m /\ j = q.i
        BY <3>1
      <4>2. Used(n, j)' = Used(n, j)
        BY <3>3, <3>5, <4>1
      <4>3. Used(q.m, q.i)' = Used(n, j)'
        BY <2>1, <4>1 DEF Used, Permits, At
      <4> QED  BY <4>1, <4>2, <4>3
    <3>7. Owns(v, q.m, q.i)
      BY <2>1, <2>3, <3>4 DEF Owns
    <3> QED  BY <3>4, <3>6, <3>7
  <2>4. /\ q.pc \in ChunkPcs \union {"next"} => q.m \in Messages /\ parent'[q.m] # "none"
        /\ q.pc \in ChunkPcs => q.i \in Chunks
        /\ q.pc = "next" => q.i + 1 \in Chunks
        /\ q.pc = "freeze" => q.m \in Events
        /\ q.pc = "settle" => q.answer \in Answers
        /\ q.pc \in LegacyPcs => q.m \in Events /\ legacy'[q.m].state # "none"
    BY <2>1, <2>2 DEF WorkerOK
  <2>5. q.pc \in {"send", "settle"} /\ Owns(v, q.m, q.i)' =>
           q.window = granted'[q.m][q.i]
    BY <2>1, <2>3 DEF WorkerOK
  <2>6. q.pc = "settle" /\ q.answer \in Refusals /\ Owns(v, q.m, q.i)' =>
           Used(q.m, q.i)' <= retried'[q.m][q.i]
    BY <2>1, <2>3 DEF WorkerOK
  <2> QED  BY <2>1, <2>4, <2>5, <2>6 DEF WorkerOK
<1>12. WorkerOK(w)'
  <2>1. p.window = granted'[m][i] /\ parent'[m] # "none"
    BY <1>2, <1>4
  <2> QED  BY <1>3, <2>1 DEF WorkerOK, LegacyPcs
<1>13. Simulated
  <2>1. Shows(m, i, "maybe") /\ Face[m][i] = "owed"
    BY <1>0, <1>1, PutShows DEF Permitted, Seen
  <2>2. \A j \in Chunks : j < i => Face[m][j] = "done"
    BY RowFacts DEF InFront, Face, Seen
  <2>3. UNCHANGED <<posted, retried>>
    BY DEF chat, operator
  <2> QED  BY <2>1, <2>2, <2>3, SimPermit
<1>14. SettledIsFinal
  <2>1. ASSUME NEW n \in Messages, NEW j \in Chunks,
               chunk[n][j].state \in {"delivered", "failed"}
        PROVE  chunk'[n][j].state = chunk[n][j].state
    BY <1>2, <2>1
  <2>2. ASSUME NEW n \in Messages, parent[n] \in {"delivered", "failed"}
        PROVE  parent'[n] = parent[n]
    <3>1. CASE n # m
      BY <1>2, <3>1
    <3>2. CASE n = m
      <4>1. parent[m] = ParentOf(chunk[m])
        BY <2>2, <3>2 DEF IInv, ParentOK
      <4>2. PICK j \in Chunks : chunk[m][j].state = "failed"
        BY <2>2, <3>2, <4>1 DEF ParentOf
      <4>3. InFront(m, j) /\ InFront(m, i)
        BY <4>2, RowFacts
      <4>4. i < j \/ j < i
        BY <4>2 DEF Chunks
      <4> QED  BY <4>2, <4>3, <4>4 DEF InFront
    <3> QED  BY <3>1, <3>2
  <2> QED  BY <2>1, <2>2 DEF SettledIsFinal
<1> QED  BY <1>6, <1>9, <1>10, <1>11, <1>12, <1>13, <1>14 DEF IInv, Typed, Keeps

LEMMA BeginKeeps ==
    ASSUME DeliveryAssumption, IInv, NEW w \in Workers, BeginSend(w)
    PROVE  Keeps
<1>1. worker[w].pc = "begin" /\ worker[w].pc \in ChunkPcs
  BY DEF BeginSend, At, ChunkPcs
<1>2. PICK m \in Messages, i \in Chunks : m = worker[w].m /\ i = worker[w].i
  BY <1>1, AtChunk
<1>3. parent[m] # "none" /\ Row(w) = chunk[m][i] /\ chunk[m][i] \in Rows
  BY <1>1, <1>2, AtChunk, RowFacts
<1>4. UNCHANGED <<legacy, gate, chat, operator>>
  BY DEF BeginSend
<1>5. CASE Stop(w) /\ UNCHANGED <<ledger, granted, faults>>
  <2>1. Around /\ Turns(w, Idle)
    BY <1>4, <1>5, FaultCounts DEF Around, Stop, Turns, IInv
  <2>2. Books /\ worker[w].pc # "send"
    BY <1>1, <1>5 DEF Books
  <2> QED  BY <2>1, <2>2, IdleIs, TurnKeeps
<1>6. CASE /\ Fence(chunk[m][i], w, "claimed")
           /\ Fault /\ PutRow(m, i, FailedRow(chunk[m][i])) /\ Stop(w)
           /\ UNCHANGED granted
  <2>1. Around /\ Turns(w, Idle)
    BY <1>4, <1>6, FaultCounts DEF Around, Stop, Turns, IInv
  <2>2. /\ FailedRow(chunk[m][i]) \in Rows
        /\ May(m, i, FailedRow(chunk[m][i]), retried[m][i])
    BY <1>3, <1>6, FailedRowIs, MayFail DEF Fence
  <2>3. Books
    BY <1>6, <2>2 DEF Books
  <2> QED  BY <1>1, <2>1, <2>3, IdleIs, TurnKeeps
<1>7. CASE /\ Fence(chunk[m][i], w, "claimed")
           /\ PutRow(m, i, SendingRow(chunk[m][i]))
           /\ worker' = [worker EXCEPT ![w].pc = "send",
                            ![w].rev = chunk[m][i].rev + 1, ![w].window = window]
           /\ granted' = [granted EXCEPT ![m][i] = window]
           /\ UNCHANGED faults
  <2> DEFINE rv == chunk[m][i].rev + 1
             st == "send"
             p == [worker[w] EXCEPT !.pc = st, !.rev = rv, !.window = window]
  <2>1. Turns(w, p)
    BY <1>7 DEF Turns, IInv, CoreType
  <2>2. /\ st \in Pcs /\ rv \in Nat /\ window \in 0 .. MaxWindows
        /\ worker[w] \in WorkerRecords
    BY <1>3 DEF Pcs, ChunkPcs, Rows, IInv, CoreType, RestType
  <2>s. st = "send"
    OBVIOUS
  <2> HIDE DEF st, rv
  <2>3. /\ p \in WorkerRecords /\ p.pc = st /\ p.m = worker[w].m /\ p.i = worker[w].i
        /\ p.window = window
    BY <2>2 DEF WorkerRecords
  <2> HIDE DEF p
  <2>4. Permitted(w, m, i, p)
    BY <1>7, <2>1 DEF Permitted, Marks
  <2>5. chunk[m][i].state = "claimed" /\ chunk[m][i].owner = w
    BY <1>7 DEF Fence
  <2> QED  BY <1>1, <1>2, <1>3, <1>4, <1>7, <2>3, <2>4, <2>5, <2>s, PermittedKeeps
<1> QED  BY <1>2, <1>3, <1>5, <1>6, <1>7 DEF BeginSend

-----------------------------------------------------------------------------
(* The older ledger.                                                        *)

\* A step that leaves the chunks, the frames and the permits alone.
LEMMA ElsewhereCalm ==
    ASSUME CoreType, RestType, FiniteHolders, UsedSame, UNCHANGED <<granted, retried, ledger>>,
           \A m \in Messages : legacy[m].state # "none" => legacy'[m].state # "none"
    PROVE  Calm
<1>1. ASSUME NEW m \in Messages, NEW i \in Chunks
      PROVE  Used(m, i)' <= Used(m, i) /\ retried[m][i] <= retried'[m][i]
  <2>1. Used(m, i) \in Nat /\ retried[m][i] \in Nat
    BY UsedType DEF RestType, Counts
  <2> QED  BY <2>1 DEF UsedSame
<1> QED  BY <1>1, KeepCalm DEF NoMoreSent, ledger

LEMMA OldTurnKeeps ==
    ASSUME IInv, NEW w \in Workers, NEW p \in WorkerRecords, Turns(w, p),
           worker[w].pc # "send", p.pc \in LegacyPcs \union {"idle"},
           p.pc \in LegacyPcs => p.m \in Events /\ legacy'[p.m].state # "none",
           legacy' \in [Messages -> LegacyRecords],
           \A m \in Messages : legacy[m].state # "none" => legacy'[m].state # "none",
           \A m \in Messages : LegacyOK(m)',
           oldPosted' \subseteq Events, faults' \in 0 .. MaxFaults,
           UNCHANGED <<ledger, gate, wire, posted, granted, operator>>
    PROVE  Keeps
<1>0. CoreType /\ RestType /\ FiniteHolders
  BY DEF IInv
<1>1. UsedSame
  BY <1>0, QuietTurn DEF LegacyPcs
<1>2. /\ worker' \in [Workers -> WorkerRecords] /\ worker'[w] = p
      /\ \A v \in Workers : v # w => worker'[v] = worker[v]
  BY <1>0, TurnIs
<1>3. Typed
  BY <1>0, <1>1, <1>2
     DEF CoreType, RestType, Typed, UsedSame, ledger, gate, operator
<1>4. Calm
  BY <1>0, <1>1, ElsewhereCalm DEF operator
<1>5. WorkerOK(w)'
  BY <1>2 DEF WorkerOK, LegacyPcs, ChunkPcs
<1>6. Simulated
  BY FaceSame DEF ledger, operator
<1> QED  BY <1>2, <1>3, <1>4, <1>5, <1>6, CalmStep, CalmFinal DEF Keeps

LEMMA ReserveKeeps ==
    ASSUME DeliveryAssumption, IInv, NEW w \in Workers, NEW m \in Messages,
           ReserveDelivery(w, m)
    PROVE  Keeps
<1> DEFINE ep == legacy[m].epoch + 1
           st == "claimed"
           lv == TRUE
           rec == [state |-> st, owner |-> w, epoch |-> ep, live |-> lv]
           pc == "old_send"
           p == [Idle EXCEPT !.pc = pc, !.m = m, !.epoch = ep]
<1>1. /\ m \in Events /\ parent[m] = "none" /\ worker[w].pc = "idle"
      /\ legacy' = [legacy EXCEPT ![m] = rec]
      /\ UNCHANGED <<ledger, gate, chat, granted, operator, faults>>
  BY DEF ReserveDelivery, At
<1>2. Turns(w, p)
  BY DEF ReserveDelivery, Turns
<1>3. /\ ep \in Nat /\ st \in {"none", "pending", "claimed", "delivered"}
      /\ st # "none" /\ lv \in BOOLEAN /\ pc \in Pcs /\ pc \in LegacyPcs /\ pc # "send"
  BY DEF IInv, RestType, LegacyRecords, Pcs, LegacyPcs
<1> HIDE DEF ep, st, lv, pc
<1>4. rec \in LegacyRecords /\ rec.state = st
  BY <1>3 DEF LegacyRecords
<1>5. p \in WorkerRecords /\ p.pc = pc /\ p.m = m
  <2>1. Idle \in WorkerRecords
    BY IdleIs
  <2> QED  BY <1>3, <2>1 DEF WorkerRecords
<1> HIDE DEF rec, p
<1>6. /\ legacy' \in [Messages -> LegacyRecords] /\ legacy'[m].state # "none"
      /\ \A n \in Messages : n # m => legacy'[n] = legacy[n]
  BY <1>1, <1>3, <1>4 DEF IInv, RestType
<1>7. \A n \in Messages : LegacyOK(n)'
  BY <1>1, <1>6 DEF IInv, LegacyOK, ledger, chat
<1>8. oldPosted' \subseteq Events /\ faults' \in 0 .. MaxFaults
  BY <1>1 DEF IInv, RestType, chat
<1>9. \A n \in Messages : legacy[n].state # "none" => legacy'[n].state # "none"
  BY <1>6
<1>10. UNCHANGED <<ledger, gate, wire, posted, granted, operator>> /\ worker[w].pc # "send"
  BY <1>1 DEF chat
<1> QED  BY <1>1, <1>2, <1>3, <1>5, <1>6, <1>7, <1>8, <1>9, <1>10, OldTurnKeeps

LEMMA AtOld ==
    ASSUME IInv, NEW w \in Workers, worker[w].pc \in LegacyPcs
    PROVE  /\ worker[w].m \in Events /\ worker[w].m \in Messages
           /\ legacy[worker[w].m].state # "none" /\ worker[w].pc # "send"
BY DEF IInv, WorkerOK, LegacyPcs, Messages

LEMMA SendWholeKeeps ==
    ASSUME DeliveryAssumption, IInv, NEW w \in Workers, SendWhole(w)
    PROVE  Keeps
<1>1. /\ worker[w].pc \in LegacyPcs
      /\ UNCHANGED <<ledger, legacy, gate, wire, posted, granted, operator>>
      /\ faults' \in 0 .. MaxFaults
      /\ oldPosted' \in {oldPosted, oldPosted \union {worker[w].m}}
  BY FaultCounts DEF SendWhole, At, LegacyPcs, IInv
<1>2. PICK pc \in {"old_done", "old_release"} : Goto(w, pc)
  BY DEF SendWhole
<1>3. pc \in Pcs /\ pc \in LegacyPcs
  BY <1>2 DEF Pcs, LegacyPcs
<1> DEFINE p == [worker[w] EXCEPT !.pc = pc]
<1>4. p \in WorkerRecords /\ Turns(w, p) /\ p.pc = pc /\ p.m = worker[w].m
  BY <1>2, <1>3, GotoIs DEF IInv
<1> HIDE DEF p
<1>5. /\ worker[w].m \in Events /\ legacy[worker[w].m].state # "none"
      /\ worker[w].pc # "send"
  BY <1>1, AtOld
<1>6. \A n \in Messages : LegacyOK(n)'
  BY <1>1, <1>5 DEF IInv, LegacyOK, ledger
<1>7. oldPosted' \subseteq Events /\ legacy' \in [Messages -> LegacyRecords]
  BY <1>1, <1>5 DEF IInv, RestType
<1> QED  BY <1>1, <1>3, <1>4, <1>5, <1>6, <1>7, OldTurnKeeps

\* The older ledger's row is settled or given back, or is not this worker's.
SetsOld(m, st) ==
    legacy' = [legacy EXCEPT ![m].state = st, ![m].owner = Nil, ![m].live = FALSE]

LEMMA SetsOldIs ==
    ASSUME IInv, NEW m \in Messages, NEW st \in {"pending", "delivered"}, SetsOld(m, st)
    PROVE  /\ legacy' \in [Messages -> LegacyRecords] /\ legacy'[m].state # "none"
           /\ \A n \in Messages : n # m => legacy'[n] = legacy[n]
<1> DEFINE lv == FALSE
           rec == [legacy[m] EXCEPT !.state = st, !.owner = Nil, !.live = lv]
<1>1. legacy \in [Messages -> LegacyRecords] /\ lv \in BOOLEAN
  BY DEF IInv, RestType
<1>2. legacy' = [legacy EXCEPT ![m] = rec]
  BY <1>1 DEF SetsOld
<1> HIDE DEF lv
<1>3. rec \in LegacyRecords /\ rec.state = st
  BY <1>1 DEF LegacyRecords
<1> HIDE DEF rec
<1> QED  BY <1>1, <1>2, <1>3

LEMMA CompleteKeeps ==
    ASSUME DeliveryAssumption, IInv, NEW w \in Workers, CompleteDelivery(w)
    PROVE  Keeps
<1>1. /\ worker[w].pc \in LegacyPcs
      /\ UNCHANGED <<ledger, gate, chat, granted, operator, faults>>
  BY DEF CompleteDelivery, At, LegacyPcs
<1>2. /\ worker[w].m \in Events /\ worker[w].m \in Messages
      /\ legacy[worker[w].m].state # "none" /\ worker[w].pc # "send"
  BY <1>1, AtOld
<1>3. /\ oldPosted' \subseteq Events /\ faults' \in 0 .. MaxFaults
      /\ UNCHANGED <<ledger, gate, wire, posted, granted, operator>>
  BY <1>1 DEF IInv, RestType, chat
<1>4. CASE SetsOld(worker[w].m, "delivered") /\ Stop(w)
  <2>1. /\ legacy' \in [Messages -> LegacyRecords]
        /\ legacy'[worker[w].m].state # "none"
        /\ \A n \in Messages : n # worker[w].m => legacy'[n] = legacy[n]
    BY <1>2, <1>4, SetsOldIs
  <2>2. \A n \in Messages : LegacyOK(n)'
    BY <1>1, <1>2, <2>1 DEF IInv, LegacyOK, ledger, chat
  <2>3. Turns(w, Idle) /\ Idle \in WorkerRecords /\ Idle.pc = "idle"
    BY <1>4, IdleIs DEF Stop, Turns, Idle
  <2>4. \A n \in Messages : legacy[n].state # "none" => legacy'[n].state # "none"
    BY <2>1
  <2>5. "idle" \notin LegacyPcs
    BY DEF LegacyPcs
  <2> QED  BY <1>2, <1>3, <2>1, <2>2, <2>3, <2>4, <2>5, OldTurnKeeps
<1>5. CASE Goto(w, "old_release") /\ UNCHANGED legacy
  <2> DEFINE pc == "old_release"
             p == [worker[w] EXCEPT !.pc = pc]
  <2>1. pc \in Pcs /\ pc \in LegacyPcs /\ Goto(w, pc)
    BY <1>5 DEF Pcs, LegacyPcs
  <2> HIDE DEF pc
  <2>2. p \in WorkerRecords /\ Turns(w, p) /\ p.pc = pc /\ p.m = worker[w].m
    BY <2>1, GotoIs DEF IInv
  <2> HIDE DEF p
  <2>3. legacy' \in [Messages -> LegacyRecords] /\ \A n \in Messages : LegacyOK(n)'
    BY <1>1, <1>5 DEF IInv, RestType, LegacyOK, ledger, chat
  <2> QED  BY <1>2, <1>3, <1>5, <2>1, <2>2, <2>3, OldTurnKeeps
<1> QED  BY <1>4, <1>5 DEF CompleteDelivery, SetsOld

LEMMA ReleaseKeeps ==
    ASSUME DeliveryAssumption, IInv, NEW w \in Workers, ReleaseDelivery(w)
    PROVE  Keeps
<1>1. /\ worker[w].pc \in LegacyPcs
      /\ UNCHANGED <<ledger, gate, chat, granted, operator, faults>>
      /\ SetsOld(worker[w].m, "pending") \/ UNCHANGED legacy
      /\ Turns(w, Idle)
  BY DEF ReleaseDelivery, At, LegacyPcs, SetsOld, Stop, Turns
<1>2. /\ worker[w].m \in Events /\ worker[w].m \in Messages
      /\ legacy[worker[w].m].state # "none" /\ worker[w].pc # "send"
  BY <1>1, AtOld
<1>3. /\ oldPosted' \subseteq Events /\ faults' \in 0 .. MaxFaults
      /\ UNCHANGED <<ledger, gate, wire, posted, granted, operator>>
  BY <1>1 DEF IInv, RestType, chat
<1>4. /\ legacy' \in [Messages -> LegacyRecords]
      /\ legacy'[worker[w].m].state # "none"
      /\ \A n \in Messages : n # worker[w].m => legacy'[n] = legacy[n]
  <2>1. CASE SetsOld(worker[w].m, "pending")
    BY <1>2, <2>1, SetsOldIs
  <2>2. CASE UNCHANGED legacy
    BY <1>2, <2>2 DEF IInv, RestType
  <2> QED  BY <1>1, <2>1, <2>2
<1>5. \A n \in Messages : LegacyOK(n)'
  BY <1>1, <1>2, <1>4 DEF IInv, LegacyOK, ledger, chat
<1>6. Idle \in WorkerRecords /\ Idle.pc = "idle" /\ "idle" \notin LegacyPcs
  BY IdleIs DEF Idle, LegacyPcs
<1>7. \A n \in Messages : legacy[n].state # "none" => legacy'[n].state # "none"
  BY <1>4
<1> QED  BY <1>1, <1>2, <1>3, <1>4, <1>5, <1>6, <1>7, OldTurnKeeps

-----------------------------------------------------------------------------
(* The operator, the gate, the wire and time: no worker turns.              *)

LEMMA StillCounts ==
    ASSUME IInv, UNCHANGED <<posted, wire, worker>>, retried' \in Counts,
           \A m \in Messages, i \in Chunks : retried[m][i] <= retried'[m][i]
    PROVE  NoMoreSent /\ FiniteHolders' /\ UsedSame
<1>1. UsedSame
  BY QuietWorkers DEF IInv
<1>2. ASSUME NEW m \in Messages, NEW i \in Chunks
      PROVE  Used(m, i)' <= Used(m, i) /\ retried[m][i] <= retried'[m][i]
  <2>1. Used(m, i) \in Nat
    BY UsedType DEF IInv
  <2> QED  BY <1>1, <2>1 DEF UsedSame
<1> QED  BY <1>1, <1>2 DEF NoMoreSent, UsedSame

LEMMA RetriedSame ==
    ASSUME IInv, UNCHANGED retried
    PROVE  /\ retried' \in Counts
           /\ \A m \in Messages, i \in Chunks : retried[m][i] <= retried'[m][i]
BY DEF IInv, RestType, Counts

\* Nothing but the window, what the operator saw, or time's marks changes.
LEMMA OnlookerKeeps ==
    ASSUME IInv, RestType', UNCHANGED <<parent, worker, chat, granted, retried>>,
           chunk' \in [Messages -> [Chunks -> Rows]],
           \A m \in Messages : legacy[m].state = legacy'[m].state,
           \A m \in Messages, i \in Chunks :
              /\ chunk'[m][i].state = chunk[m][i].state
              /\ chunk'[m][i].owner = chunk[m][i].owner
              /\ chunk'[m][i].window = chunk[m][i].window
    PROVE  Keeps
<1>1. NoMoreSent /\ FiniteHolders'
  BY RetriedSame, StillCounts DEF chat
<1>2. Typed
  BY <1>1 DEF IInv, CoreType, Typed
<1>3. Calm
  BY <1>1, KeepCalm
<1>4. \A m \in Messages : LegacyOK(m)'
  BY DEF IInv, LegacyOK, chat
<1>5. Simulated
  BY FaceSame DEF chat
<1> QED  BY <1>2, <1>3, <1>4, <1>5, CalmStep, CalmFinal DEF Keeps

LEMMA GateKeeps ==
    ASSUME DeliveryAssumption, IInv, OpenWindow \/ CloseWindow
    PROVE  Keeps
<1>1. UNCHANGED <<ledger, legacy, worker, chat, granted, operator, faults>>
  BY DEF OpenWindow, CloseWindow
<1>2. window' \in 0 .. MaxWindows /\ opened' \in 0 .. MaxWindows
  BY Bounds DEF OpenWindow, CloseWindow, IInv, RestType
<1>3. RestType'
  BY <1>1, <1>2 DEF IInv, RestType, chat, operator
<1> QED  BY <1>1, <1>3, OnlookerKeeps DEF IInv, CoreType, ledger, operator

LEMMA LooksKeeps ==
    ASSUME IInv, NEW m \in Messages, NEW i \in Chunks, OperatorLooks(m, i)
    PROVE  Keeps
<1>1. /\ UNCHANGED <<ledger, legacy, worker, gate, chat, granted, retried, faults>>
      /\ seen' = [seen EXCEPT ![m][i] = chunk[m][i].rev]
  BY DEF OperatorLooks
<1>2. seen' \in Counts
  <2>1. chunk[m][i].rev \in Nat
    BY RowFacts DEF Rows
  <2>2. [seen[m] EXCEPT ![i] = chunk[m][i].rev] \in [Chunks -> Nat]
    BY <2>1 DEF IInv, RestType, Counts
  <2>3. seen' = [seen EXCEPT ![m] = [seen[m] EXCEPT ![i] = chunk[m][i].rev]]
    BY <1>1
  <2> QED  BY <2>2, <2>3 DEF IInv, RestType, Counts
<1>3. RestType'
  BY <1>1, <1>2 DEF IInv, RestType, chat, gate
<1> QED  BY <1>1, <1>3, OnlookerKeeps DEF IInv, CoreType, ledger

\* A lease or a deferral ends: one mark of one row.
Unmarks(m, i, row) == chunk' = [chunk EXCEPT ![m][i] = row]

LEMMA UnmarksIs ==
    ASSUME CoreType, NEW m \in Messages, NEW i \in Chunks, NEW row \in Rows,
           Unmarks(m, i, row), row.state = chunk[m][i].state,
           row.owner = chunk[m][i].owner, row.window = chunk[m][i].window
    PROVE  /\ chunk' \in [Messages -> [Chunks -> Rows]]
           /\ \A n \in Messages, j \in Chunks :
                 /\ chunk'[n][j].state = chunk[n][j].state
                 /\ chunk'[n][j].owner = chunk[n][j].owner
                 /\ chunk'[n][j].window = chunk[n][j].window
<1>1. chunk' = [chunk EXCEPT ![m] = [chunk[m] EXCEPT ![i] = row]]
  BY DEF Unmarks
<1>2. [chunk[m] EXCEPT ![i] = row] \in [Chunks -> Rows]
  BY DEF CoreType
<1>3. /\ chunk'[m] = [chunk[m] EXCEPT ![i] = row]
      /\ \A n \in Messages : n # m => chunk'[n] = chunk[n]
      /\ chunk' \in [Messages -> [Chunks -> Rows]]
  BY <1>1, <1>2 DEF CoreType
<1>4. /\ chunk'[m][i] = row
      /\ \A n \in Messages, j \in Chunks : ~(n = m /\ j = i) => chunk'[n][j] = chunk[n][j]
  BY <1>3 DEF CoreType
<1> QED  BY <1>3, <1>4

LEMMA DeferralKeeps ==
    ASSUME IInv, NEW m \in Messages, NEW i \in Chunks, EndDeferral(m, i)
    PROVE  Keeps
<1> DEFINE f == FALSE
           row == [chunk[m][i] EXCEPT !.deferred = f]
<1>1. /\ UNCHANGED <<parent, legacy, worker, gate, chat, granted, operator, faults>>
      /\ Unmarks(m, i, row)
  BY DEF EndDeferral, Unmarks, IInv, CoreType
<1>2. f \in BOOLEAN /\ chunk[m][i] \in Rows
  BY RowFacts
<1> HIDE DEF f
<1>3. /\ row \in Rows /\ row.state = chunk[m][i].state
      /\ row.owner = chunk[m][i].owner /\ row.window = chunk[m][i].window
  BY <1>2 DEF Rows
<1> HIDE DEF row
<1>4. RestType'
  BY <1>1 DEF IInv, RestType, chat, gate, operator
<1> QED  BY <1>1, <1>3, <1>4, UnmarksIs, OnlookerKeeps DEF IInv, operator

LEMMA ExpireKeeps ==
    ASSUME DeliveryAssumption, IInv, NEW m \in Messages, ExpireLease(m)
    PROVE  Keeps
<1>1. /\ UNCHANGED <<parent, worker, gate, chat, granted, operator>>
      /\ faults' \in 0 .. MaxFaults
  BY FaultCounts DEF ExpireLease, IInv
<1>2. ASSUME NEW i \in Chunks, chunk' = [chunk EXCEPT ![m][i].live = FALSE],
             UNCHANGED legacy
      PROVE  Keeps
  <2> DEFINE f == FALSE
             row == [chunk[m][i] EXCEPT !.live = f]
  <2>1. Unmarks(m, i, row)
    BY <1>2 DEF Unmarks, IInv, CoreType
  <2>2. f \in BOOLEAN /\ chunk[m][i] \in Rows
    BY RowFacts
  <2> HIDE DEF f
  <2>3. /\ row \in Rows /\ row.state = chunk[m][i].state
        /\ row.owner = chunk[m][i].owner /\ row.window = chunk[m][i].window
    BY <2>2 DEF Rows
  <2> HIDE DEF row
  <2>4. RestType'
    BY <1>1, <1>2 DEF IInv, RestType, chat, gate, operator
  <2> QED  BY <1>1, <1>2, <2>1, <2>3, <2>4, UnmarksIs, OnlookerKeeps DEF IInv, operator
<1>3. ASSUME legacy' = [legacy EXCEPT ![m].live = FALSE], UNCHANGED chunk
      PROVE  Keeps
  <2> DEFINE f == FALSE
             rec == [legacy[m] EXCEPT !.live = f]
  <2>1. legacy \in [Messages -> LegacyRecords] /\ f \in BOOLEAN
    BY DEF IInv, RestType
  <2>2. legacy' = [legacy EXCEPT ![m] = rec]
    BY <1>3, <2>1
  <2> HIDE DEF f
  <2>3. rec \in LegacyRecords /\ rec.state = legacy[m].state
    BY <2>1 DEF LegacyRecords
  <2> HIDE DEF rec
  <2>4. /\ legacy' \in [Messages -> LegacyRecords]
        /\ \A n \in Messages : legacy[n].state = legacy'[n].state
    BY <2>1, <2>2, <2>3
  <2>5. RestType'
    BY <1>1, <2>4 DEF IInv, RestType, chat, gate, operator
  <2> QED  BY <1>1, <1>3, <2>4, <2>5, OnlookerKeeps DEF IInv, CoreType, operator
<1> QED  BY <1>2, <1>3 DEF ExpireLease

LEMMA FreezeReplyKeeps ==
    ASSUME IInv, NEW m \in Messages, FreezeReply(m)
    PROVE  Keeps
<1>1. /\ FreezeProjection(m)
      /\ UNCHANGED <<legacy, worker, gate, chat, granted, operator, faults>>
  BY DEF FreezeReply
<1>2. NoMoreSent /\ FiniteHolders'
  BY <1>1, RetriedSame, StillCounts DEF chat, operator
<1>3. Calm /\ parent' \in [Messages -> ParentStates] /\ UNCHANGED chunk
  BY <1>1, <1>2, FreezeCalm
<1>4. Typed
  BY <1>1, <1>2, <1>3 DEF IInv, CoreType, RestType, Typed, chat, gate, operator
<1>5. UNCHANGED <<oldPosted, posted, retried>>
  BY <1>1 DEF chat, operator
<1>6. Simulated
  BY <1>3, <1>5, FaceSame
<1> QED  BY <1>1, <1>3, <1>4, <1>5, <1>6, CalmLegacy, CalmStep, CalmFinal DEF Keeps

LEMMA ResolveKeeps ==
    ASSUME DeliveryAssumption, IInv, NEW m \in Messages, NEW i \in Chunks,
           NEW r, ResolveUnknown(m, i, r)
    PROVE  Keeps
<1> DEFINE old == chunk[m][i]
<1>1. /\ old.state = "sending_unknown" /\ old \in Rows /\ CoreType
      /\ UNCHANGED <<legacy, worker, gate, chat, granted, seen, faults>>
  BY RowFacts DEF ResolveUnknown, IInv
<1>2. parent[m] # "none" /\ Used(m, i) <= 1 + retried[m][i]
  BY <1>1 DEF IInv, ParentOK, RowOK
<1>3. \/ PutRow(m, i, DeliveredRow(old, 0)) /\ UNCHANGED retried
      \/ PutRow(m, i, ReleasedRow(old, old.deferred)) /\ Adds(retried, retried', m, i)
  BY DEF ResolveUnknown, Adds
<1>4. /\ retried' \in Counts
      /\ \A n \in Messages, j \in Chunks : retried[n][j] <= retried'[n][j]
      /\ Adds(retried, retried', m, i) => retried'[m][i] = retried[m][i] + 1
  <2>1. retried \in Counts
    BY DEF IInv, RestType
  <2>2. CASE UNCHANGED retried
    BY <2>1, <2>2, AddsIs DEF Counts
  <2>3. CASE Adds(retried, retried', m, i)
    <3>1. /\ retried' \in Counts /\ retried'[m][i] = retried[m][i] + 1
          /\ \A n \in Messages, j \in Chunks :
                ~(n = m /\ j = i) => retried'[n][j] = retried[n][j]
      BY <2>1, <2>3, AddsIs
    <3>2. \A n \in Messages, j \in Chunks : retried[n][j] \in Nat
      BY <2>1 DEF Counts
    <3> QED  BY <3>1, <3>2
  <2> QED  BY <1>3, <2>2, <2>3
<1>5. NoMoreSent /\ FiniteHolders'
  BY <1>1, <1>4, StillCounts DEF chat
<1>6. RestType'
  BY <1>1, <1>4 DEF IInv, RestType, chat, gate
<1>7. PICK row \in Rows : PutRow(m, i, row) /\ May(m, i, row, retried'[m][i])
  <2>1. CASE PutRow(m, i, DeliveredRow(old, 0)) /\ UNCHANGED retried
    <3>1. DeliveredRow(old, 0) \in Rows /\ May(m, i, DeliveredRow(old, 0), retried'[m][i])
      BY <1>1, <1>2, Bounds, DeliveredRowIs, MayDeliver
    <3> QED  BY <2>1, <3>1
  <2>2. CASE PutRow(m, i, ReleasedRow(old, old.deferred)) /\ Adds(retried, retried', m, i)
    <3>1. old.deferred \in BOOLEAN
      BY <1>1 DEF Rows
    <3>2. /\ ReleasedRow(old, old.deferred) \in Rows
          /\ ReleasedRow(old, old.deferred).state = "pending"
          /\ ReleasedRow(old, old.deferred).window = old.window
      BY <1>1, <3>1, ReleasedRowIs
    <3>3. Used(m, i) <= retried'[m][i]
      BY <1>2, <1>4, <2>2 DEF IInv, RestType, Counts
    <3>4. old.window = 0
      BY <1>1, RowFacts
    <3>5. May(m, i, ReleasedRow(old, old.deferred), retried'[m][i])
      BY <1>1, <1>2, <3>2, <3>3, <3>4 DEF May
    <3> QED  BY <2>2, <3>2, <3>5
  <2> QED  BY <1>3, <2>1, <2>2
<1>8. Typed
  <2>1. chunk' \in [Messages -> [Chunks -> Rows]] /\ parent' \in [Messages -> ParentStates]
    BY <1>1, <1>7, PutRowIs
  <2> QED  BY <1>1, <1>5, <1>6, <2>1 DEF CoreType, Typed
<1>9. Calm
  BY <1>1, <1>5, <1>7, <1>8, WriteCalm
<1>10. Simulated
  <2>1. UNCHANGED posted
    BY <1>1 DEF chat
  <2>2. CASE UNCHANGED retried
    BY <1>7, <2>1, <2>2, WriteSimulates
  <2>3. CASE PutRow(m, i, ReleasedRow(old, old.deferred)) /\ Adds(retried, retried', m, i)
    <3>1. old.deferred \in BOOLEAN
      BY <1>1 DEF Rows
    <3>2. /\ ReleasedRow(old, old.deferred) \in Rows
          /\ ReleasedRow(old, old.deferred).state = "pending"
      BY <1>1, <3>1, ReleasedRowIs
    <3>3. Shows(m, i, "owed") /\ Face[m][i] = "maybe"
      BY <1>1, <2>3, <3>2, PutShows DEF Seen
    <3> QED  BY <2>1, <2>3, <3>3, SimAsk
  <2> QED  BY <1>3, <2>2, <2>3
<1> QED  BY <1>1, <1>8, <1>9, <1>10, CalmLegacy, CalmStep, CalmFinal DEF chat, Keeps

LEMMA LateKeeps ==
    ASSUME IInv, NEW m \in Messages, NEW i \in Chunks, LateFrame(m, i)
    PROVE  Keeps
<1>1. /\ wire[m][i] > 0 /\ wire' = [wire EXCEPT ![m][i] = @ - 1]
      /\ posted' = posted \/ Adds(posted, posted', m, i)
      /\ UNCHANGED <<ledger, legacy, worker, gate, oldPosted, granted, operator, faults>>
  BY DEF LateFrame, Adds
<1>2. posted \in Counts /\ wire \in Counts /\ retried \in Counts
  BY DEF IInv, RestType
<1>3. /\ wire' \in Counts /\ wire'[m][i] = wire[m][i] - 1
      /\ \A n \in Messages, j \in Chunks : ~(n = m /\ j = i) => wire'[n][j] = wire[n][j]
  <2>1. wire' = [wire EXCEPT ![m] = [wire[m] EXCEPT ![i] = wire[m][i] - 1]]
    BY <1>1
  <2>2. wire[m][i] - 1 \in Nat /\ wire[m] \in [Chunks -> Nat]
    BY <1>1, <1>2 DEF Counts
  <2>3. [wire[m] EXCEPT ![i] = wire[m][i] - 1] \in [Chunks -> Nat]
    BY <2>2
  <2>4. /\ wire' \in Counts /\ wire'[m] = [wire[m] EXCEPT ![i] = wire[m][i] - 1]
        /\ \A n \in Messages : n # m => wire'[n] = wire[n]
    BY <1>2, <2>1, <2>3 DEF Counts
  <2> QED  BY <2>2, <2>4
<1>4. /\ posted' \in Counts
      /\ posted'[m][i] \in {posted[m][i], posted[m][i] + 1}
      /\ \A n \in Messages, j \in Chunks : ~(n = m /\ j = i) => posted'[n][j] = posted[n][j]
  BY <1>1, <1>2, AddsIs
<1>5. /\ FiniteHolders'
      /\ \A n \in Messages, j \in Chunks : Permits(n, j)' = Permits(n, j)
  BY <1>1 DEF IInv, FiniteHolders, Holders, Holds, Permits, At
<1>6. NoMoreSent
  <2>1. ASSUME NEW n \in Messages, NEW j \in Chunks
        PROVE  Used(n, j)' <= Used(n, j) /\ retried[n][j] <= retried'[n][j]
    <3>1. /\ posted[n][j] \in Nat /\ wire[n][j] \in Nat /\ Permits(n, j) \in Nat
          /\ retried[n][j] \in Nat
      BY <1>2, UsedType DEF IInv, Counts
    <3>2. CASE n = m /\ j = i
      BY <1>1, <1>3, <1>4, <1>5, <3>1, <3>2 DEF Used, operator
    <3>3. CASE ~(n = m /\ j = i)
      BY <1>1, <1>3, <1>4, <1>5, <3>1, <3>3 DEF Used, operator
    <3> QED  BY <3>2, <3>3
  <2> QED  BY <2>1 DEF NoMoreSent
<1>7. Typed
  BY <1>1, <1>3, <1>4, <1>5 DEF IInv, CoreType, RestType, Typed, ledger, gate, operator
<1>8. Calm
  BY <1>1, <1>6, KeepCalm DEF ledger
<1>9. UNCHANGED <<Face, retried>>
  BY <1>1 DEF Face, ledger, operator
<1>10. ASSUME UNCHANGED posted
       PROVE  Simulated
  BY <1>9, <1>10 DEF Simulated
<1>11. ASSUME Adds(posted, posted', m, i)
       PROVE  Simulated
  <2>1. /\ posted[m][i] + wire[m][i] + Permits(m, i) <= 1 + retried[m][i]
        /\ chunk[m][i].state \notin {"sending_unknown", "delivered"} =>
              posted[m][i] + wire[m][i] + Permits(m, i) <= retried[m][i]
    BY DEF IInv, RowOK, Used
  <2>2. /\ posted[m][i] \in Nat /\ wire[m][i] \in Nat /\ Permits(m, i) \in Nat
        /\ retried[m][i] \in Nat
    BY <1>2, UsedType DEF IInv, Counts
  <2>3. posted[m][i] <= retried[m][i]
    BY <1>1, <2>1, <2>2
  <2>4. \/ chunk[m][i].state \in {"sending_unknown", "delivered"}
        \/ retried[m][i] > 0
    BY <1>1, <2>1, <2>2
  <2>5. Face[m][i] \in {"maybe", "done"} \/ retried[m][i] > 0
    BY <2>4 DEF Face, Seen
  <2> QED  BY <1>9, <1>11, <2>3, <2>5, SimPost
<1>12. IInv' /\ SettledIsFinal
  BY <1>1, <1>7, <1>8, CalmLegacy, CalmStep, CalmFinal
<1>13. UNCHANGED posted \/ Adds(posted, posted', m, i)
  BY <1>1
<1> QED  BY <1>10, <1>11, <1>12, <1>13 DEF Keeps

-----------------------------------------------------------------------------
(* The invariant holds from the start, and what follows from it.            *)

LEMMA FreshRowIs ==
    ASSUME DeliveryAssumption
    PROVE  FreshRow \in Rows /\ FreshRow.state = "pending" /\ FreshRow.window = 0
<1> DEFINE st == "pending"
           f == FALSE
<1>1. st \in ChunkStates /\ f \in BOOLEAN /\ st = "pending"
  BY DEF ChunkStates
<1>2. FreshRow = [state |-> st, owner |-> Nil, epoch |-> 0, rev |-> 0,
                  live |-> f, deferred |-> f, window |-> 0]
  BY DEF FreshRow
<1> HIDE DEF st, f
<1>3. /\ [state |-> st, owner |-> Nil, epoch |-> 0, rev |-> 0,
          live |-> f, deferred |-> f, window |-> 0] \in Rows
  BY <1>1, Bounds DEF Rows
<1> QED  BY <1>1, <1>2, <1>3

LEMMA NoDeliveryIs == NoDelivery \in LegacyRecords /\ NoDelivery.state = "none"
<1> DEFINE st == "none"
           f == FALSE
<1>1. st \in {"none", "pending", "claimed", "delivered"} /\ f \in BOOLEAN /\ st = "none"
  OBVIOUS
<1>2. NoDelivery = [state |-> st, owner |-> Nil, epoch |-> 0, live |-> f]
  BY DEF NoDelivery
<1> HIDE DEF st, f
<1>3. [state |-> st, owner |-> Nil, epoch |-> 0, live |-> f] \in LegacyRecords
  BY <1>1 DEF LegacyRecords
<1> QED  BY <1>1, <1>2, <1>3

LEMMA StartsWell ==
    ASSUME DeliveryAssumption, Init
    PROVE  IInv
<1>1. /\ Idle \in WorkerRecords /\ Idle.pc = "idle" /\ "none" \in ParentStates
      /\ FreshRow \in Rows /\ FreshRow.state = "pending" /\ FreshRow.window = 0
      /\ NoDelivery \in LegacyRecords /\ NoDelivery.state = "none"
  BY IdleIs, FreshRowIs, NoDeliveryIs DEF Idle, ParentStates
<1> HIDE DEF Idle, FreshRow, NoDelivery
<1>2. /\ \A m \in Messages : parent[m] = "none" /\ legacy[m].state = "none"
      /\ \A m \in Messages, i \in Chunks :
            /\ chunk[m][i] = FreshRow /\ posted[m][i] = 0 /\ wire[m][i] = 0
            /\ retried[m][i] = 0
      /\ \A w \in Workers : worker[w] = Idle
      /\ oldPosted = {}
  BY <1>1 DEF Init
<1>3. CoreType
  BY <1>1 DEF Init, CoreType
<1>4. RestType
  <2>1. 1 \in 0 .. MaxWindows /\ 0 \in 0 .. MaxFaults
    BY DEF DeliveryAssumption
  <2>2. wire \in Counts
    BY DEF Init, Counts
  <2> QED  BY <1>1, <2>1, <2>2 DEF Init, RestType
<1>5. ASSUME NEW m \in Messages, NEW i \in Chunks
      PROVE  Holders(m, i) = {} /\ Used(m, i) = 0
  <2>1. Holders(m, i) = {}
    BY <1>1, <1>2 DEF Holders, Holds
  <2>2. Permits(m, i) = 0
    BY <2>1, FS_EmptySet DEF Permits, Holders, Holds, At
  <2> QED  BY <1>2, <2>1, <2>2 DEF Used
<1>6. FiniteHolders
  BY <1>5, FS_EmptySet DEF FiniteHolders
<1>7. ASSUME NEW m \in Messages
      PROVE  ParentOK(m) /\ LegacyOK(m)
  BY <1>1, <1>2, <1>5 DEF ParentOK, LegacyOK
<1>8. ASSUME NEW m \in Messages, NEW i \in Chunks
      PROVE  RowOK(m, i)
  BY <1>1, <1>2, <1>5 DEF RowOK
<1>9. ASSUME NEW w \in Workers
      PROVE  WorkerOK(w)
  BY <1>1, <1>2 DEF WorkerOK, ChunkPcs, LegacyPcs
<1> QED  BY <1>3, <1>4, <1>6, <1>7, <1>8, <1>9 DEF IInv

LEMMA StepKeeps ==
    ASSUME DeliveryAssumption, IInv, Next
    PROVE  Keeps
<1>1. ASSUME NEW w \in Workers, Step(w)
      PROVE  Keeps
  BY <1>1, StartKeeps, ReserveKeeps, VerifyKeeps, FreezeEventKeeps,
     ClaimNextKeeps, ObserveKeeps, BeginKeeps, SendKeeps, SettleKeeps,
     SendWholeKeeps, CompleteKeeps, ReleaseKeeps DEF Step
<1>2. ASSUME NEW w \in Workers, Die(w)
      PROVE  Keeps
  BY <1>2, DieKeeps
<1>3. ASSUME NEW m \in Messages, FreezeReply(m) \/ ExpireLease(m)
      PROVE  Keeps
  BY <1>3, FreezeReplyKeeps, ExpireKeeps
<1>4. ASSUME NEW m \in Messages, NEW i \in Chunks,
             \/ OperatorLooks(m, i) \/ LateFrame(m, i) \/ EndDeferral(m, i)
             \/ \E r \in {"assume_delivered", "retry"} : ResolveUnknown(m, i, r)
      PROVE  Keeps
  BY <1>4, LooksKeeps, LateKeeps, DeferralKeeps, ResolveKeeps
<1>5. ASSUME OpenWindow \/ CloseWindow
      PROVE  Keeps
  BY <1>5, GateKeeps
<1> QED  BY <1>1, <1>2, <1>3, <1>4, <1>5 DEF Next

LEMMA StutterKeeps ==
    ASSUME IInv, UNCHANGED vars
    PROVE  Keeps
<1>1. /\ UNCHANGED <<parent, chunk, legacy, worker, window, opened, wire, posted>>
      /\ UNCHANGED <<oldPosted, granted, retried, seen, faults>>
  BY DEF vars
<1>2. RestType'
  BY <1>1 DEF IInv, RestType
<1> QED  BY <1>1, <1>2, OnlookerKeeps DEF IInv, CoreType, chat

\* The invariant, and what each step does.
LEMMA AlwaysKeeps ==
    ASSUME DeliveryAssumption
    PROVE  Spec => []IInv /\ [][Keeps]_vars
<1>1. Init => IInv
  BY StartsWell
<1>2. IInv /\ [Next]_vars => Keeps
  BY StepKeeps, StutterKeeps
<1>3. Keeps => IInv'
  BY DEF Keeps
<1> QED  BY <1>1, <1>2, <1>3, PTL DEF Spec

LEMMA IInvImplies ==
    ASSUME DeliveryAssumption, IInv
    PROVE  TypeOK /\ NoBlindResend /\ InOrder /\ WindowAttribution /\ OneLedger
<1>1. TypeOK
  <2>1. \A w \in Workers : worker[w] \in WorkerRecords
    BY DEF IInv, CoreType
  <2>2. \A m \in Messages : legacy[m] \in LegacyRecords
    BY DEF IInv, RestType
  <2>3. \A w \in Workers : /\ worker[w].i \in 0 .. NChunks
                           /\ worker[w].answer \in Answers \union {Nil}
    BY <2>1 DEF WorkerRecords
  <2>4. \A m \in Messages :
           legacy[m].state \in {"none", "pending", "claimed", "delivered"}
    BY <2>2 DEF LegacyRecords
  <2> QED  BY <2>3, <2>4 DEF IInv, CoreType, RestType, TypeOK
<1>2. NoBlindResend
  BY DEF IInv, RowOK, Used, NoBlindResend
<1>3. InOrder
  BY DEF IInv, RowOK, Used, InFront, InOrder
<1>4. WindowAttribution
  BY DEF IInv, RowOK, WindowAttribution
<1>5. OneLedger
  <2>1. ASSUME NEW m \in oldPosted, NEW i \in Chunks
        PROVE  posted[m][i] + wire[m][i] = 0
    <3>1. m \in Messages
      BY DEF IInv, RestType, Messages
    <3>2. parent[m] = "none"
      BY <3>1 DEF IInv, LegacyOK
    <3>3. Used(m, i) = 0
      BY <3>1, <3>2 DEF IInv, ParentOK
    <3>4. posted[m][i] \in Nat /\ wire[m][i] \in Nat /\ Permits(m, i) \in Nat
      BY <3>1, UsedType DEF IInv
    <3> QED  BY <3>3, <3>4 DEF Used
  <2> QED  BY <2>1 DEF OneLedger
<1> QED  BY <1>1, <1>2, <1>3, <1>4, <1>5

\* The tables of both ledgers and what the workers remember keep their shapes.
THEOREM LedgerTypes ==
    ASSUME DeliveryAssumption
    PROVE  Spec => []TypeOK
BY AlwaysKeeps, IInvImplies, PTL

\* No chunk is posted, on the wire or permitted more than once, plus once for
\* every time the operator asked for it again: whatever crashes, leases,
\* refusals, lost answers and however many daemons
\* (begin_transport_delivery_chunk_send, telegram.py _send_frozen_chunks).
THEOREM NeverSentTwice ==
    ASSUME DeliveryAssumption
    PROVE  Spec => []NoBlindResend
BY AlwaysKeeps, IInvImplies, PTL

\* A chunk is on its way to the chat only when everything in front of it was
\* delivered (the chunk_order refusal of claim_transport_delivery_chunk).
THEOREM SentInOrder ==
    ASSUME DeliveryAssumption
    PROVE  Spec => []InOrder
BY AlwaysKeeps, IInvImplies, PTL

\* The window a delivered chunk names is the one that permitted its last send
\* (complete_transport_delivery_chunk).
THEOREM NamesItsWindow ==
    ASSUME DeliveryAssumption
    PROVE  Spec => []WindowAttribution
BY AlwaysKeeps, IInvImplies, PTL

\* Nothing that the whole-message ledger may have posted is posted by chunks
\* (the legacy_delivery refusal of freeze_transport_delivery_projection).
THEOREM ThroughOneLedger ==
    ASSUME DeliveryAssumption
    PROVE  Spec => []OneLedger
BY AlwaysKeeps, IInvImplies, PTL

\* No step takes a delivered or failed chunk, or its message, to another
\* state (_require_transport_chunk_fence).
THEOREM SettledForGood ==
    ASSUME DeliveryAssumption
    PROVE  Spec => [][SettledIsFinal]_vars
<1>1. Keeps => SettledIsFinal
  BY DEF Keeps
<1> QED  BY <1>1, AlwaysKeeps, PTL

\* The ledger, its workers, the wire and the operator implement Delivery:
\* every step permits, posts, settles or asks again, or is invisible.
THEOREM LedgerImplementsDelivery ==
    ASSUME DeliveryAssumption
    PROVE  Spec => ImplementsDelivery
<1>1. Init => Owed!Init
  <2> SUFFICES ASSUME Init PROVE Owed!Init
    OBVIOUS
  <2>1. \A m \in Messages, i \in Chunks : chunk[m][i].state = "pending"
    BY DEF Init, FreshRow
  <2>2. /\ posted = [m \in Messages |-> [i \in Chunks |-> 0]]
        /\ retried = posted
    BY DEF Init
  <2> QED  BY <2>1, <2>2 DEF Owed!Init
<1>2. [Keeps]_vars => [Owed!Next]_(Owed!vars)
  <2>1. CASE Keeps
    BY <2>1, SimIs DEF Keeps
  <2>2. CASE UNCHANGED vars
    BY <2>2, FaceSame, SimIs DEF vars
  <2> QED  BY <2>1, <2>2
<1> QED  BY <1>1, <1>2, AlwaysKeeps, PTL DEF Spec, ImplementsDelivery, Owed!Spec
=============================================================================
