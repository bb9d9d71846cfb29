--------------------------- MODULE AccessService ---------------------------
(***************************************************************************)
(* The staged services of private access                                     *)
(* (deployment/private_access/supervision.py): immutable generations, the    *)
(* current and previous pointers, a journalled transaction that swaps them   *)
(* through its history directory, and an uninstall that moves what it owns   *)
(* into a tombstone.  Every command holds the service lock and first         *)
(* recovers; its writes are one by one, and the process may die between any  *)
(* two, or in the middle of a file it is creating.  A command is the         *)
(* sequence of states its writes leave on disk.                              *)
(*                                                                         *)
(* A generation's four files are one item, and its directory another.  Nobody *)
(* else changes the service root.                                            *)
(***************************************************************************)
EXTENDS Naturals, Sequences, FiniteSets

CONSTANTS
    Versions,                   \* generations, numbered by their release sequence
    MaxOps, MaxCrashes          \* bounds

VersionsAssumption == Versions \subseteq Nat \ {0}

VARIABLES
    d,          \* the service root
    todo,       \* the states the running command will still leave there
    publishes,  \* the running command has a candidate generation in the making
    crashes

vars == <<d, todo, publishes, crashes>>

Absent == 0                     \* no pointer, no slot
Torn == 1000                    \* a file that was created but not written
NoTxn == [op |-> "none", id |-> 0, cb |-> 0, pb |-> 0, ca |-> 0, pa |-> 0, items |-> {}]
TornTxn == [NoTxn EXCEPT !.op = "torn"]

(* A transaction's history directory: its two swap slots, and its manifest. *)
NoHistory == [cur |-> Absent, prev |-> Absent, out |-> "open", txn |-> NoTxn]

Init ==
    /\ d = [marker |-> "none", cur |-> Absent, prev |-> Absent, files |-> {}, dirs |-> {}, stray |-> FALSE,
            txn |-> NoTxn, hist |-> [i \in 1..MaxOps |-> NoHistory],
            tomb |-> [i \in 1..MaxOps |-> {}], closed |-> [i \in 1..MaxOps |-> {}], next |-> 1]
    /\ todo = <<>>
    /\ publishes = FALSE
    /\ crashes = 0

Final(x, plan) == IF plan = <<>> THEN x ELSE plan[Len(plan)]

Generation(x, v) == v \in x.files /\ v \in x.dirs
PointersResolve(x) == \A v \in {x.cur, x.prev} \ {Absent} : Generation(x, v)

----------------------------------------------------------------------------
(* Pointer transactions *)

(* _advance_pointer_transaction for one pointer: the new value is staged in
   the slot, created empty first, and exchanged with the live pointer.      *)
Advance(x, f, before, after) ==
    LET i  == x.txn.id
        x1 == [x EXCEPT !.hist[i][f] = Torn]
        x2 == [x EXCEPT !.hist[i][f] = after]
        x3 == [x2 EXCEPT ![f] = after, !.hist[i][f] = before]
    IN  IF before = after THEN <<>> ELSE <<x1, x2, x3>>

(* _validate_pointer_history_slots *)
SlotOk(retained, before, after, outcome) ==
    IF before = after THEN retained = Absent
    ELSE IF outcome = "committed" THEN retained = before
    ELSE retained \in {Absent, after}

SlotsOk(x, t, outcome) ==
    /\ SlotOk(x.hist[t.id].cur, t.cb, t.ca, outcome)
    /\ SlotOk(x.hist[t.id].prev, t.pb, t.pa, outcome)

(* Mutant of Close: the manifest does not say what was retained. *)
Close_Reversed(x, outcome) ==
    LET i == x.txn.id
    IN  <<[x EXCEPT !.hist[i].out = "committed", !.hist[i].txn = x.txn, !.txn = NoTxn]>>

(* _close_pointer_transaction: the journal becomes the history's manifest. *)
Close(x, outcome) ==
    LET i == x.txn.id
    IN  IF SlotsOk(x, x.txn, outcome)
          THEN <<[x EXCEPT !.hist[i].out = outcome, !.hist[i].txn = x.txn, !.txn = NoTxn]>>
          ELSE <<>>

(* _begin_transaction: the journal is created empty, and then written. *)
Begin(x, t) == <<[x EXCEPT !.txn = TornTxn, !.next = @ + 1], [x EXCEPT !.txn = t, !.next = @ + 1]>>

Swap(x, op, cur, prev) ==
    LET t  == [op |-> op, id |-> x.next, cb |-> x.cur, pb |-> x.prev, ca |-> cur, pa |-> prev, items |-> {}]
        bs == Begin(x, t)
        ps == Advance(bs[2], "prev", x.prev, prev)
        x1 == Final(bs[2], ps)
        cs == Advance(x1, "cur", x.cur, cur)
    IN  bs \o ps \o cs \o Close(Final(x1, cs), "committed")

----------------------------------------------------------------------------
(* Uninstall *)

Item(kind, v) == [kind |-> kind, of |-> v]

(* What _build_uninstall_transaction claims: pointers, files, directories. *)
Claims(x) ==
    {Item("ptr", f) : f \in {g \in {"cur", "prev"} : x[g] # Absent}}
    \union {Item("files", v) : v \in x.files}
    \union {Item("dir", v) : v \in x.dirs}

Take(x, i, it) ==
    LET y == [x EXCEPT !.tomb[i] = @ \union {it}]
    IN  CASE it.kind = "ptr" -> [y EXCEPT ![it.of] = Absent]
          [] it.kind = "files" -> [y EXCEPT !.files = @ \ {it.of}]
          [] it.kind = "dir" -> [y EXCEPT !.dirs = @ \ {it.of}]

Rank(it) == CASE it.kind = "ptr" -> IF it.of = "cur" THEN 1 ELSE 2
              [] it.kind = "files" -> 10 + it.of
              [] it.kind = "dir" -> 100 + it.of

(* The claims in the order they are isolated: files before directories. *)
InOrder(items) ==
    LET n == Cardinality(items)
    IN  [k \in 1..n |-> CHOOSE it \in items : Cardinality({o \in items : Rank(o) < Rank(it)}) = k - 1]

(* _complete_uninstall: what is still live is isolated, then the journal
   becomes the tombstone's manifest.                                        *)
Isolate(x) ==
    LET i    == x.txn.id
        left == InOrder(x.txn.items \cap Claims(x))
        step[k \in 0..Len(left)] == IF k = 0 THEN x ELSE Take(step[k - 1], i, left[k])
        last == step[Len(left)]
    IN  [k \in 1..Len(left) |-> step[k]]
          \o <<[last EXCEPT !.closed[i] = x.txn.items, !.txn = NoTxn]>>

----------------------------------------------------------------------------
(* Recovery *)

Before(x) == x.cur = x.txn.cb /\ x.prev = x.txn.pb
After(x) == x.cur = x.txn.ca /\ x.prev = x.txn.pa
Mixed(x) == x.txn.op \in {"install", "upgrade", "rollback"} /\ ~Before(x) /\ ~After(x)

(* _validate_operation_history and _validate_tombstone_store, except for the
   transaction that is pending                                              *)
HistoryOk(x) ==
    \A i \in 1..MaxOps :
        /\ x.hist[i] # NoHistory /\ i # x.txn.id =>
               x.hist[i].out # "open" /\ SlotsOk(x, x.hist[i].txn, x.hist[i].out)
        /\ x.tomb[i] # {} /\ i # x.txn.id => x.tomb[i] = x.closed[i]

Opens(x) ==
    /\ x.marker # "torn"
    /\ x.txn.op # "torn"
    /\ HistoryOk(x)
    /\ ~Mixed(x)
    /\ x.txn.op \in {"install", "upgrade", "rollback"} =>
           PointersResolve(x) /\ SlotsOk(x, x.txn, IF Before(x) THEN "aborted" ELSE "committed")

(* _recover_transaction *)
Recover(x) ==
    CASE x.txn.op = "none" -> <<>>
      [] x.txn.op = "uninstall" -> Isolate(x)
      [] OTHER -> Close(x, IF Before(x) THEN "aborted" ELSE "committed")

(* _locked: the ownership marker of an empty root, and the recovery *)
Locked(x) ==
    (IF x.marker = "none" THEN <<[x EXCEPT !.marker = "torn"], [x EXCEPT !.marker = "ok"]>> ELSE <<>>)
      \o Recover([x EXCEPT !.marker = "ok"])

----------------------------------------------------------------------------
(* Commands: the locked part runs on what the recovery leaves *)

(* _publish_generation *)
Publish(x, v) ==
    IF v \in x.dirs THEN <<>>
    ELSE <<[x EXCEPT !.stray = TRUE],
           [x EXCEPT !.files = @ \union {v}, !.dirs = @ \union {v}]>>

MayInstall(x, v) == PointersResolve(x) /\ (x.cur # Absent => v > x.cur)

Install(x, v) ==
    LET ps == Publish(x, v)
        y  == Final(x, ps)
    IN  IF ~MayInstall(x, v) \/ x.next > MaxOps THEN <<>>
        ELSE ps \o Swap(y, IF x.cur = Absent THEN "install" ELSE "upgrade", v,
                        IF x.cur = Absent THEN x.prev ELSE x.cur)

Rollback(x) ==
    IF x.cur = Absent \/ x.prev = Absent \/ ~PointersResolve(x) \/ x.next > MaxOps THEN <<>>
    ELSE Swap(x, "rollback", x.prev, x.cur)

(* A directory of a candidate that a crash left behind is foreign to it. *)
MayUninstall(x) == ~x.stray /\ PointersResolve(x) /\ Claims(x) # {}

Uninstall(x) ==
    LET t  == [NoTxn EXCEPT !.op = "uninstall", !.id = x.next, !.items = Claims(x)]
        bs == Begin(x, t)
    IN  IF ~MayUninstall(x) \/ x.next > MaxOps THEN <<>> ELSE bs \o Isolate(bs[2])

Under(x, Body(_)) == IF Opens(x) THEN Locked(x) \o Body(Final(x, Locked(x))) ELSE <<>>

----------------------------------------------------------------------------
(* Steps *)

Start(plan, p) ==
    /\ todo = <<>>
    /\ plan # <<>>
    /\ todo' = plan
    /\ publishes' = p
    /\ UNCHANGED <<d, crashes>>

RunInstall == \E v \in Versions : LET I(x) == Install(x, v) IN Start(Under(d, I), v \notin d.dirs)

(* rollback looks at the pointers once more before it takes the lock. *)
RunRollback == d.cur # Absent /\ d.prev # Absent /\ Start(Under(d, Rollback), FALSE)

RunUninstall == Start(Under(d, Uninstall), FALSE)

Write ==
    /\ todo # <<>>
    /\ d' = Head(todo)
    /\ todo' = Tail(todo)
    /\ publishes' = (publishes /\ Tail(todo) # <<>>)
    /\ UNCHANGED crashes

Crash ==
    /\ todo # <<>>
    /\ crashes < MaxCrashes
    /\ crashes' = crashes + 1
    /\ todo' = <<>>
    /\ publishes' = FALSE
    /\ UNCHANGED d

(* A write fails and is reported: a candidate goes to the history, a swap is
   recovered at once.                                                       *)
Fails(x) ==
    IF publishes /\ x.stray /\ x.txn = NoTxn THEN <<[x EXCEPT !.stray = FALSE]>>
    ELSE IF Opens(x) /\ x.marker = "ok" /\ x.txn.op \in {"install", "upgrade", "rollback"} THEN Recover(x)
    ELSE <<>>

Fault ==
    /\ todo # <<>>
    /\ crashes < MaxCrashes
    /\ crashes' = crashes + 1
    /\ todo' = Fails(d)
    /\ publishes' = FALSE
    /\ UNCHANGED d

Next == RunInstall \/ RunRollback \/ RunUninstall \/ Write \/ Crash \/ Fault

Spec == Init /\ [][Next]_vars

----------------------------------------------------------------------------
(* Properties *)

(* The pointers are two different generations or absent, and only a pointer
   transaction that is under way has an open history directory.             *)
TypeOK ==
    /\ {d.cur, d.prev} \subseteq Versions \union {Absent}
    /\ d.cur # Absent /\ ~Mixed(d) => d.cur # d.prev
    /\ \A i \in 1..MaxOps : d.hist[i] # NoHistory /\ d.hist[i].out = "open" => d.txn.id = i
    /\ d.txn.id < d.next

(* Unless an uninstall is under way, what the pointers name is installed, in
   whatever write of whatever command the process died.                     *)
PointersSound == d.txn.op # "uninstall" => PointersResolve(d)

(* Nothing the recovery or a later command reads back from the closed history
   and tombstones is ever found invalid: no crash leaves a directory there
   that would refuse every later command.                                   *)
HistoryStays == HistoryOk(d)

(* An uninstall that was completed, whether by its own command or by the
   recovery after a crash, left nothing live behind.                        *)
UninstallWhole ==
    \A i \in 1..MaxOps : d.closed[i] = {} /\ d'.closed[i] # {} => Claims(d') = {}

(* Nothing is deleted: an object that leaves the live namespace is in the
   pending tombstone, and a pointer that is replaced is in its history.     *)
NothingLost ==
    /\ \A v \in d.files \ d'.files : Item("files", v) \in d'.tomb[d.txn.id]
    /\ \A f \in {"cur", "prev"} :
         d'[f] # d[f] /\ d[f] # Absent =>
             \/ Item("ptr", f) \in d'.tomb[d.txn.id]
             \/ d'.hist[d.txn.id][f] = d[f]

(* A transaction is closed only as a whole: both pointers as they were before
   it, or both as it wanted them.                                           *)
AllOrNothing ==
    d.txn.op \in {"install", "upgrade", "rollback"} /\ d'.txn = NoTxn =>
     d'.hist[d.txn.id].out = (IF After(d) THEN "committed" ELSE "aborted") /\ (Before(d) \/ After(d))

(* Whatever happened, unless a file was torn or the pointers are mixed, the
   uninstall completes and a generation can then be installed.              *)
Reinstalls ==
    (todo = <<>> /\ Opens(d) /\ ~d.stray /\ d.next + 1 <= MaxOps) =>
        LET x == Final(d, Under(d, Uninstall))
        IN  \A v \in Versions :
                LET I(y) == Install(y, v)
                IN  /\ Claims(x) = {}
                    /\ Final(x, Under(x, I)).cur = v

====
