--------------------------- MODULE RuntimeUpdater ---------------------------
(***************************************************************************)
(* The runtime updater (runtime_update/service.py): verified releases in     *)
(* slots, their interpreters (runtime_staging.py), state generations, the    *)
(* active and last-known-good pointers, the activation journal and the       *)
(* attempt pins.  Every command holds the manager's file lock, so one runs   *)
(* at a time; but its files are written one by one and the process may die   *)
(* between any two.  A command is therefore the sequence of states its       *)
(* writes leave on disk.                                                     *)
(*                                                                         *)
(* A release's slot, interpreter archive and order are constants: they are   *)
(* what its manifest says.  A slot holds the manifest of the release that    *)
(* was imported into it first.                                               *)
(***************************************************************************)
EXTENDS Naturals, Sequences, FiniteSets

CONSTANTS
    Releases, Slots, Interps, Attempts,
    SlotOf, InterpOf, SeqOf,        \* what each release's manifest says
    Catalogs,                       \* [seq, certifies]: signed catalogs
    MaxGens, MaxCrashes, MaxDecisions, MaxCommands   \* bounds

VARIABLES
    d,          \* what is on disk under the updater's root
    todo,       \* the states the running command will still leave there
    approved,   \* releases whose manifest the operator's standing decision approves
    vetted,     \* approvals as the running command found them
    budget      \* what is spent of the bounds

vars == <<d, todo, approved, vetted, budget>>

None == "none"
Torn == "torn"
NoPtr == [rel |-> None, gen |-> 0]

\* What the manifests say, and that a marker is not a release.
UpdaterAssumption ==
    /\ \A r \in Releases : SlotOf[r] \in Slots /\ InterpOf[r] \in Interps
    /\ None \notin Releases /\ Torn \notin Releases
    /\ IsFiniteSet(Releases)
    /\ \A c \in Catalogs : c.seq \in Nat
    /\ MaxGens \in Nat \ {0}

NoJournal == [on |-> FALSE, old |-> NoPtr, cand |-> NoPtr]
Unknown == [st |-> "absent", gen |-> 0]

Init ==
    /\ d = [reg |-> [r \in Releases |-> Unknown], seq |-> 0, frozen |-> FALSE,
            slot |-> [s \in Slots |-> None], gens |-> {}, nextgen |-> 1,
            tree |-> [i \in Interps |-> None], pin |-> [i \in Interps |-> FALSE],
            active |-> NoPtr, lkg |-> NoPtr, journal |-> NoJournal,
            pins |-> [a \in Attempts |-> NoPtr]]
    /\ todo = <<>>
    /\ approved = {}
    /\ vetted = {}
    /\ budget = [crashes |-> 0, decisions |-> 0, commands |-> 0]

Registered(x, r) == x.reg[r].st # "absent"
Last(x, plan) == IF plan = <<>> THEN x ELSE plan[Len(plan)]

----------------------------------------------------------------------------
(* Import *)

(* check_catalog and the catalog's high-water mark *)
CatalogAccepted(x, c, r) == r \in c.certifies /\ c.seq >= x.seq

SlotUsable(x, s) == x.slot[s] # Torn

Import(x, r, c) ==
    LET s == SlotOf[r]
        x1 == [x EXCEPT !.slot[s] = IF @ = None THEN r ELSE @]
        x2 == [x1 EXCEPT !.reg[r] = [st |-> "verified", gen |-> 0]]
        x3 == [x2 EXCEPT !.seq = c.seq]
    IN  IF CatalogAccepted(x, c, r) /\ SlotUsable(x, s) THEN <<x1, x2, x3>> ELSE <<>>

----------------------------------------------------------------------------
(* Verification: what every door asks *)

(* slot.json against the registry's record, and the content's tree digest *)
SlotVerifies(x, r) == Registered(x, r) /\ x.slot[SlotOf[r]] = r

(* _verify_interpreter_root: the pin and a directory, whatever is in it *)
InterpreterRoot(x, r) == x.pin[InterpOf[r]] /\ x.tree[InterpOf[r]] # None

Verifies(x, r) == SlotVerifies(x, r) /\ InterpreterRoot(x, r)

Approved(r) == r \in approved

----------------------------------------------------------------------------
(* Stage *)

(* stage_python_runtime publishes a whole tree by rename *)
Expand(x, i) == [x EXCEPT !.tree[i] = "whole"]

(* _provision_interpreter: reuse, refuse, or remove both halves and expand;
   the empty plan is the refusal, except that reuse writes nothing.         *)
Reusable(x, i) == x.pin[i] /\ x.tree[i] = "whole"
Refuses(x, i) == x.pin[i] /\ x.tree[i] = Torn

Provision(x, i) ==
    LET x1 == [x EXCEPT !.tree[i] = None]
        x2 == [x1 EXCEPT !.pin[i] = FALSE]
        x3 == Expand(x2, i)
        x4 == [x3 EXCEPT !.pin[i] = TRUE]
    IN  IF Reusable(x, i) THEN <<>> ELSE <<x1, x2, x3, x4>>

(* A generation whose candidate fails its verification stays on disk; one
   whose interpreter cannot be had is removed again.                        *)
Stage(x, r, expands) ==
    LET g  == x.nextgen
        i  == InterpOf[r]
        x1 == [x EXCEPT !.gens = @ \union {<<r, g>>}, !.nextgen = g + 1]
        ps == Provision(x1, i)
        x2 == Last(x1, ps)
        x3 == [x2 EXCEPT !.reg[r] = [st |-> "staged", gen |-> g]]
        fails == Refuses(x1, i) \/ (ps # <<>> /\ ~expands)
    IN  IF ~(x.reg[r].st \in {"verified", "staged", "quarantined"}) \/ g > MaxGens THEN <<>>
        ELSE IF ~SlotVerifies(x, r) THEN <<x1>>
        ELSE IF fails THEN <<x1, [x1 EXCEPT !.gens = @ \ {<<r, g>>}]>>
        ELSE <<x1>> \o ps \o <<x3>>

----------------------------------------------------------------------------
(* Activate, recover and roll back *)

Status(x, r, st) == IF r = None THEN x ELSE [x EXCEPT !.reg[r].st = IF @ = "absent" THEN @ ELSE st]

(* Mutant of Recover: the journal is removed, but the pointer stays. *)
Recover_KeepsActive(x) ==
    IF x.journal.on
      THEN <<Status(x, x.journal.cand.rel, "quarantined"),
             [Status(x, x.journal.cand.rel, "quarantined") EXCEPT !.journal = NoJournal]>>
      ELSE <<>>

(* _recover_activation_unlocked *)
Recover(x) ==
    LET x1 == [x EXCEPT !.active = x.journal.old]
        x2 == Status(x1, x.journal.cand.rel, "quarantined")
        x3 == [x2 EXCEPT !.journal = NoJournal]
    IN  IF x.journal.on THEN <<x1, x2, x3>> ELSE <<>>

NoAttempts(x) == \A a \in Attempts : x.pins[a] = NoPtr

Candidate(x, r) == [rel |-> r, gen |-> x.reg[r].gen]

MayActivate(x, r) ==
    /\ ~x.frozen
    /\ NoAttempts(x)
    /\ x.reg[r].gen # 0
    /\ Verifies(x, r)
    /\ Approved(r)
    /\ x.active.rel # r
    /\ x.active # NoPtr => SeqOf[r] >= SeqOf[x.active.rel]

(* The health probe runs a worker in the candidate's generation, which must be
   there; answers: how many of the two probes pass if it is.                *)
(* Mutant of Probes: the probe does not need the candidate's generation. *)
Probes_Anywhere(x, cand, answers) == answers

Probes(x, cand, answers) == IF <<cand.rel, cand.gen>> \in x.gens THEN answers ELSE 0

Switch(x, r, answers) ==
    LET old == x.active
        cand == Candidate(x, r)
        probes == Probes(x, cand, answers)
        x1 == [x EXCEPT !.journal = [on |-> TRUE, old |-> old, cand |-> cand]]
        x2 == Status(x1, r, "certified")
        x3 == [x2 EXCEPT !.active = cand]
        x4 == [x3 EXCEPT !.lkg = IF old = NoPtr THEN @ ELSE old]
        x5 == Status(Status(x4, old.rel, "last_known_good"), r, "active")
        undo == Recover(IF probes = 0 THEN x1 ELSE x3)
        x6 == [x5 EXCEPT !.journal = NoJournal]
    IN  CASE probes = 0 -> <<x1>> \o undo
          [] probes = 1 -> <<x1, x2, x3>> \o undo
          [] OTHER -> <<x1, x2, x3, x4, x5, x6>>

Activate(x, r, answers) ==
    LET rs == Recover(x)
        x1 == Last(x, rs)
    IN  IF MayActivate(x1, r) THEN rs \o Switch(x1, r, answers) ELSE rs

MayRollback(x) ==
    /\ NoAttempts(x)
    /\ x.lkg # NoPtr
    /\ Verifies(x, x.lkg.rel)
    /\ Approved(x.lkg.rel)
    /\ <<x.lkg.rel, x.lkg.gen>> \in x.gens

Rollback(x) ==
    LET rs == Recover(x)
        x1 == Last(x, rs)
        x2 == [x1 EXCEPT !.active = x1.lkg]
        x3 == [x2 EXCEPT !.lkg = x1.active]
        x4 == Status(Status(x3, x1.lkg.rel, "active"), x1.active.rel, "last_known_good")
    IN  IF MayRollback(x1) THEN rs \o <<x2, x3, x4>> ELSE rs

----------------------------------------------------------------------------
(* Prune *)

Protected(x) == {x.active.rel, x.lkg.rel} \union {x.pins[a].rel : a \in Attempts}

(* The newest candidates, as many as the operator retains. *)
Kept(x, retain) ==
    LET others == {r \in Releases : Registered(x, r)} \ Protected(x)
    IN  Protected(x) \union {r \in others : Cardinality({q \in others : SeqOf[q] > SeqOf[r]}) < retain}

Dropped(x, retain) == {r \in Releases : Registered(x, r)} \ Kept(x, retain)

(* A manifest that cannot be read names no interpreter. *)
Referenced(x, kept) == {InterpOf[x.slot[SlotOf[r]]] : r \in {q \in kept \cap Releases :
                            Registered(x, q) /\ x.slot[SlotOf[q]] \in Releases}}

(* Each removal of a tree may be seen half done: torn, then gone. *)
DropSlots(x, gone) ==
    LET x1 == [x EXCEPT !.slot = [s \in Slots |-> IF s \in gone /\ @[s] # None THEN Torn ELSE @[s]]]
        x2 == [x1 EXCEPT !.slot = [s \in Slots |-> IF s \in gone THEN None ELSE @[s]]]
    IN  IF gone = {} THEN <<>> ELSE <<x1, x2>>

DropInterps(x, gone) ==
    LET x1 == [x EXCEPT !.tree = [i \in Interps |-> IF i \in gone /\ @[i] # None THEN Torn ELSE @[i]]]
        x2 == [x1 EXCEPT !.tree = [i \in Interps |-> IF i \in gone THEN None ELSE @[i]]]
        x3 == [x2 EXCEPT !.pin = [i \in Interps |-> i \notin gone /\ @[i]]]
    IN  IF gone = {} THEN <<>> ELSE <<x1, x2, x3>>

Prune(x, retain) ==
    LET rs == Recover(x)
        x1 == Last(x, rs)
        out == Dropped(x1, retain)
        kept == Kept(x1, retain)
        x2 == [x1 EXCEPT !.gens = {g \in @ : g[1] \notin out}]
        ss == DropSlots(x2, {SlotOf[r] : r \in out} \ {SlotOf[r] : r \in {q \in kept \cap Releases : Registered(x1, q)}})
        x3 == Last(x2, ss)
        is == DropInterps(x3, Interps \ Referenced(x3, kept))
        x4 == Last(x3, is)
        x5 == [x4 EXCEPT !.reg = [r \in Releases |-> IF r \in out THEN Unknown ELSE @[r]]]
    IN  rs \o <<x2>> \o ss \o is \o <<x5>>

----------------------------------------------------------------------------
(* Pins *)

(* _attempt_pin_from_identity *)
Identity(x, p) == p # NoPtr /\ x.slot[SlotOf[p.rel]] = p.rel /\ Approved(p.rel)

(* An attempt's own pin is read first, and must be the one it would get. *)
PinAttempt(x, a) ==
    IF /\ Identity(x, x.active)
       /\ x.pins[a] \in {NoPtr, x.active}
      THEN <<[x EXCEPT !.pins[a] = x.active]>> ELSE <<>>

(* Reading the pin asks for the approval again. *)
FinishAttempt(x, a) == IF Identity(x, x.pins[a]) THEN <<[x EXCEPT !.pins[a] = NoPtr]>> ELSE <<>>

Freeze(x, on) == <<[x EXCEPT !.frozen = on]>>

----------------------------------------------------------------------------
(* Steps *)

Plans(x) ==
    {Import(x, r, c) : r \in Releases, c \in Catalogs}
    \union {Stage(x, r, e) : r \in Releases, e \in BOOLEAN}
    \union {Activate(x, r, k) : r \in Releases, k \in 0..2}
    \union {Rollback(x)}
    \union {Prune(x, k) : k \in 0..1}
    \union {Freeze(x, on) : on \in BOOLEAN}

(* Dispatch pins and finishes attempts: not an operator's command. *)
Dispatches(x) == {PinAttempt(x, a) : a \in Attempts} \union {FinishAttempt(x, a) : a \in Attempts}

Changes(plan) == plan # <<>> /\ Last(d, plan) # d

Command ==
    /\ todo = <<>>
    /\ budget.commands < MaxCommands
    /\ \E plan \in Plans(d) : plan # <<>> /\ todo' = plan
    /\ vetted' = approved
    /\ budget' = [budget EXCEPT !.commands = @ + 1]
    /\ UNCHANGED <<d, approved>>

(* status, and recover_activation: the journal's recovery alone *)
Inspect ==
    /\ todo = <<>>
    /\ Recover(d) # <<>>
    /\ todo' = Recover(d)
    /\ vetted' = approved
    /\ UNCHANGED <<d, approved, budget>>

Dispatch ==
    /\ todo = <<>>
    /\ \E plan \in Dispatches(d) : Changes(plan) /\ d' = plan[1]
    /\ vetted' = approved
    /\ UNCHANGED <<todo, approved, budget>>

(* One durable write of the running command *)
Write ==
    /\ todo # <<>>
    /\ d' = Head(todo)
    /\ todo' = Tail(todo)
    /\ UNCHANGED <<approved, vetted, budget>>

Crash ==
    /\ todo # <<>>
    /\ budget.crashes < MaxCrashes
    /\ todo' = <<>>
    /\ budget' = [budget EXCEPT !.crashes = @ + 1]
    /\ UNCHANGED <<d, approved, vetted>>

(* approve_runtime_release and revoke_runtime_release, from another process *)
Decide(r) ==
    /\ budget.decisions < MaxDecisions
    /\ approved' = IF r \in approved THEN approved \ {r} ELSE approved \union {r}
    /\ budget' = [budget EXCEPT !.decisions = @ + 1]
    /\ UNCHANGED <<d, todo, vetted>>

Next == Command \/ Inspect \/ Dispatch \/ Write \/ Crash \/ \E r \in Releases : Decide(r)

Spec == Init /\ [][Next]_vars

----------------------------------------------------------------------------
(* Properties *)

Pointers == {NoPtr} \union [rel : Releases, gen : 1..MaxGens]

(* Pointers are pointers, a last-known-good release goes with an active one,
   and the registry knows every release a pointer or a pin names.           *)
TypeOK ==
    /\ d.active \in Pointers /\ d.lkg \in Pointers
    /\ d.pins \in [Attempts -> Pointers]
    /\ d.lkg # NoPtr => d.active # NoPtr
    /\ \A r \in Protected(d) \ {None} : Registered(d, r)

Resolves(p) ==
    /\ d.slot[SlotOf[p.rel]] = p.rel
    /\ <<p.rel, p.gen>> \in d.gens
    /\ Reusable(d, InterpOf[p.rel])

(* At every moment, in the middle of any command and after any crash, what
   the active and last-known-good pointers and the attempts' pins name is
   there to run: the slot with that release's manifest, the generation and a
   whole interpreter.                                                       *)
PointersResolve ==
    \A p \in {d.active, d.lkg} \union {d.pins[a] : a \in Attempts} : p # NoPtr => Resolves(p)

(* No door makes a release run that was not approved when it was opened: the
   active pointer comes only from an approved candidate or from the journal,
   and a pin only from an approved release.                                 *)
ApprovedOnly ==
    /\ d'.active # d.active => d'.active.rel \in vetted' \/ (d.journal.on /\ d'.active = d.journal.old)
    /\ \A a \in Attempts : d'.pins[a] # NoPtr /\ d'.pins[a] # d.pins[a] => d'.pins[a].rel \in vetted'

(* An interrupted activation leaves its journal until it is undone, and the
   recovery restores the very pointer that was active before it: no other
   command finds the candidate's pointer in its place.                      *)
RecoversExactly ==
    d.journal.on /\ ~d'.journal.on =>
     \/ d'.active = d.journal.old
     \/ d'.active = d.journal.cand /\ d'.reg[d.journal.cand.rel].st = "active"

Foreign(x, r) == x.slot[SlotOf[r]] \in Releases \ {r}

Repair(r, c) ==
    LET x1 == Last(d, Prune(d, 0))
        x2 == Last(x1, Import(x1, r, c))
        x3 == Last(x2, Stage([x2 EXCEPT !.nextgen = 1], r, TRUE))
    IN  Last(x3, Activate(x3, r, 2))

(* Whatever crashes left behind, the operator's repair (prune, import, stage,
   activate) makes an approved release active, unless it is older than the
   active one or its slot holds the manifest of another release that is in
   use, or that an interrupted import left there without registering it.    *)
Repairable ==
    (todo = <<>> /\ ~d.frozen /\ NoAttempts(d)) =>
        LET before == Last(d, Recover(d))
        IN  \A r \in approved, c \in Catalogs :
                (/\ CatalogAccepted(before, c, r)
                 /\ before.active # NoPtr => SeqOf[r] >= SeqOf[before.active.rel]
                 /\ \A q \in Protected(before) \ {None, r} : SlotOf[q] # SlotOf[r]
                 /\ Foreign(before, r) => Registered(before, before.slot[SlotOf[r]]))
                => Repair(r, c).active.rel = r

====
