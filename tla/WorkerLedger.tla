---------------------------- MODULE WorkerLedger ----------------------------
(***************************************************************************)
(* The managed worker and its durable operation ledger                     *)
(* (runtime_update/operation_ledger.py, shipped to the worker as           *)
(* worker_payload/cortex_worker/ledger.py), the worker's request loop and  *)
(* turn thread (serve.py, turn.py), and the backend that launches the      *)
(* worker and asks it to run a turn (runtime/managed_hermes.py over        *)
(* runtime_update/supervisor.py).                                          *)
(*                                                                         *)
(* The ledger file is a sequence of tokens: a complete JSON record, a      *)
(* newline, or a fragment (a proper prefix of a record, which never        *)
(* parses).  A write appends tokens; the process can die, or the write can *)
(* fail, after any prefix of them.  `synced' is how much of the file an    *)
(* fsync has covered: a power loss may take anything after it.             *)
(*                                                                         *)
(* An append is three steps: the caller's check, the write, and the fsync  *)
(* with the update of memory that follows it.  The ledger has no lock of   *)
(* its own: the request loop ("main") and the turn thread ("turn") append  *)
(* concurrently.                                                           *)
(***************************************************************************)
EXTENDS Naturals, Sequences, FiniteSetsExt

CONSTANTS
    Turns,          \* operation ids begun by turn.begin
    ProbeIds,       \* operation ids begun by operation.begin
    Digests,        \* request digests
    Workers,        \* worker processes
    MaxKills,       \* bound: deaths of a worker or of the daemon
    MaxPowerLosses, \* bound: power losses
    MaxErrors,      \* bound: OSErrors of an append or of the sidecar's write
    Null

LedgerAssumption ==
    /\ MaxKills \in Nat /\ MaxPowerLosses \in Nat /\ MaxErrors \in Nat
    /\ Turns \cap ProbeIds = {}
    /\ Null \notin Workers /\ Null \notin Turns \union ProbeIds
    /\ Null \notin Digests

VARIABLES
    file,       \* operations.ledger.jsonl
    synced,     \* length of its prefix known to be on disk
    side,       \* operations.ledger.quarantine.json
    lock,       \* the process that holds the flock on worker.lock
    worker,     \* the worker processes
    chan,       \* the worker the backend's supervisor is connected to
    call,       \* the backend's run() of each operation
    runs,       \* how often the runner was started for an operation
    told,       \* the outcomes run() has returned for an operation
    harm,       \* what happened to the ledger that it cannot repair
    kills, losses, errors

disk == <<file, synced, side>>
backend == <<chan, call, told>>
faults == <<kills, losses, errors>>
vars == <<file, synced, side, lock, worker, chan, call, runs, told, harm,
          kills, losses, errors>>

-----------------------------------------------------------------------------
(* Records, tokens and lines of the ledger file.                           *)

Ops == Turns \union ProbeIds
OpenPhases == {"in_progress", "uncertain"}
FinalPhases == {"committed", "failed"}
PHASES == OpenPhases \union FinalPhases

Newline == [tok |-> "newline"]
Fragment == [tok |-> "fragment"]
Records == [tok : {"record"}, op : Ops, phase : PHASES, digest : Digests]
Record(op, phase, digest) ==
    [tok |-> "record", op |-> op, phase |-> phase, digest |-> digest]

Entries == [phase : PHASES \union {"unknown"}, digest : Digests \union {Null}]
Unknown == [phase |-> "unknown", digest |-> Null]

(***************************************************************************)
(* Line structure.  Token i of f is a line that parses if it is a record   *)
(* with nothing else on its line, terminated or at the end of the file.    *)
(***************************************************************************)
IsRecordLine(f, i) ==
    /\ f[i].tok = "record"
    /\ i > 1 => f[i - 1] = Newline
    /\ i < Len(f) => f[i + 1] = Newline

(* A terminated line that is empty or does not parse: _replay refuses it.  *)
HasBadLine(f) ==
    \E i \in DOMAIN f : f[i] = Newline /\ (i > 1 => ~IsRecordLine(f, i - 1))

Unterminated(f) == f # <<>> /\ f[Len(f)] # Newline

(* The last line is unterminated and does not parse: a torn append.        *)
IsTorn(f) == Unterminated(f) /\ ~IsRecordLine(f, Len(f))

(* The last record is whole and only its newline is missing.               *)
needs_newline(f) == Unterminated(f) /\ IsRecordLine(f, Len(f))

(* Where the last, unterminated line starts.                               *)
TornOffset(f) == Max({0} \union {i \in DOMAIN f : f[i] = Newline}) + 1

(* What replaying f yields for op: its last record, or none.               *)
replay(f, op) ==
    LET lines == {i \in DOMAIN f : IsRecordLine(f, i) /\ f[i].op = op}
    IN  IF lines = {} THEN Unknown
        ELSE [phase |-> f[Max(lines)].phase, digest |-> f[Max(lines)].digest]

-----------------------------------------------------------------------------
(* The quarantine sidecar: absent, unusable, or the torn fragment's place  *)
(* and content (the source keeps its length and SHA-256).                  *)

NoSidecar == [st |-> "absent"]
Malformed == [st |-> "malformed"]
Quarantine(offset, fragment) ==
    [st |-> "present", offset |-> offset, fragment |-> fragment]

(* The sidecar of the torn last line of f.                                 *)
TornLine(f) == Quarantine(TornOffset(f), SubSeq(f, TornOffset(f), Len(f)))

(* The sidecar still describes a terminated line of the file that does not *)
(* parse.                                                                  *)
SidecarMatches(f, q) ==
    LET end == q.offset + Len(q.fragment) - 1
    IN  /\ end < Len(f)
        /\ q.offset > 1 => f[q.offset - 1] = Newline
        /\ f[end + 1] = Newline
        /\ SubSeq(f, q.offset, end) = q.fragment
        /\ ~(Len(q.fragment) = 1 /\ q.fragment[1].tok = "record")

exclude_quarantine(f, q) ==
    IF q.st = "absent" THEN f
    ELSE SubSeq(f, 1, q.offset - 1)
            \o SubSeq(f, q.offset + Len(q.fragment) + 1, Len(f))

(* OperationLedger.open does not raise LedgerUnavailable on these files.   *)
Readable(f, q) ==
    /\ q.st # "malformed"
    /\ q.st = "present" => SidecarMatches(f, q)
    /\ ~HasBadLine(exclude_quarantine(f, q))
    /\ q.st = "present" => ~IsTorn(exclude_quarantine(f, q))

-----------------------------------------------------------------------------
(* Worker processes.                                                       *)

Threads == {"main", "turn"}
(***************************************************************************)
(* run() of an operation: not called by this daemon, or returned.  The     *)
(* backend numbers the turns of an attempt in memory, so it names an       *)
(* operation again only after a restart of the daemon.                     *)
(***************************************************************************)
NoCall == [st |-> "idle", on |-> Null]
Returned == [st |-> "returned", on |-> Null]
NoIO == [st |-> "none"]
NoTurn == [st |-> "none"]
Down == [pc |-> "down", mem |-> [op \in Ops |-> Unknown],
         needs_newline |-> FALSE, io |-> [t \in Threads |-> NoIO],
         turn |-> NoTurn]

IOs == {NoIO} \union
       [st : {"write", "sync"}, token : Records \union {Newline}]
TurnStates == {NoTurn} \union
    [st : {"running", "finishing", "reporting"}, op : Turns,
     outcome : FinalPhases]

Pending(w, t, token) ==
    worker' = [worker EXCEPT ![w].io[t] = [st |-> "write", token |-> token]]

(* The process ends; closing its descriptors releases the flock.           *)
Exit(w) ==
    /\ worker' = [worker EXCEPT ![w] = Down]
    /\ lock' = IF lock = w THEN Null ELSE lock

Idle(w, t) == worker[w].io[t] = NoIO
Serving(w) == worker[w].pc = "serving"

Init ==
    /\ file = <<>> /\ synced = 0 /\ side = NoSidecar
    /\ lock = Null /\ worker = [w \in Workers |-> Down]
    /\ chan = Null
    /\ call = [op \in Turns |-> NoCall]
    /\ told = [op \in Turns |-> {}]
    /\ runs = [op \in Turns |-> 0]
    /\ harm = {}
    /\ kills = 0 /\ losses = 0 /\ errors = 0

-----------------------------------------------------------------------------
(* Opening the ledger.                                                     *)

(* The backend launches a worker when it has none or its worker is gone;   *)
(* w is a process no outstanding call refers to.                           *)
CanLaunch(w) ==
    /\ worker[w].pc = "down"
    /\ chan # Null => worker[chan].pc = "down"
    /\ \A op \in Turns : call[op].on # w

(* The exclusive, non-blocking flock on worker.lock.                       *)
CanLock == lock = Null

(* Mutant of open: the flock is not taken.                                 *)
open_Unlocked(w) ==
    /\ CanLaunch(w)
    /\ Readable(file, side)
    /\ lock' = w /\ chan' = w
    /\ worker' = [worker EXCEPT ![w] =
            [Down EXCEPT
                !.pc = IF IsTorn(file) THEN "torn" ELSE "promote",
                !.mem = [op \in Ops |-> replay(file, op)],
                !.needs_newline = needs_newline(file)]]
    /\ UNCHANGED <<disk, call, runs, told, harm, faults>>

(***************************************************************************)
(* The backend launches worker w, which opens the ledger under the flock.  *)
(* A launch that finds the lock taken or the files unreadable fails its    *)
(* health check and is killed: nothing changes.                            *)
(***************************************************************************)
open(w) ==
    /\ CanLaunch(w)
    /\ CanLock
    /\ Readable(file, side)
    /\ lock' = w /\ chan' = w
    /\ worker' = [worker EXCEPT ![w] =
            [Down EXCEPT
                !.pc = IF IsTorn(file) THEN "torn" ELSE "promote",
                !.mem = [op \in Ops |-> replay(file, op)],
                !.needs_newline = needs_newline(file)]]
    /\ UNCHANGED <<disk, call, runs, told, harm, faults>>

(* The torn last line is quarantined: its sidecar is written and synced,   *)
(* then the line is terminated by a newline.                               *)
write_quarantine(w) ==
    /\ worker[w].pc = "torn"
    /\ side' = TornLine(file)
    /\ worker' = [worker EXCEPT
            ![w].pc = "newline",
            ![w].io["main"] = [st |-> "write", token |-> Newline]]
    /\ UNCHANGED <<file, synced, lock, backend, runs, harm, faults>>

(* Every operation the last process left in progress becomes uncertain     *)
(* before open returns.                                                    *)
promote(w) ==
    /\ worker[w].pc = "promote" /\ Idle(w, "main")
    /\ \E op \in Ops :
        /\ worker[w].mem[op].phase = "in_progress"
        /\ Pending(w, "main",
                   Record(op, "uncertain", worker[w].mem[op].digest))
    /\ UNCHANGED <<disk, lock, backend, runs, harm, faults>>

opened(w) ==
    /\ worker[w].pc = "promote" /\ Idle(w, "main")
    /\ \A op \in Ops : worker[w].mem[op].phase # "in_progress"
    /\ worker' = [worker EXCEPT ![w].pc = "serving"]
    /\ UNCHANGED <<disk, lock, backend, runs, harm, faults>>

-----------------------------------------------------------------------------
(* Appending.                                                              *)

Payload(w, token) ==
    IF token = Newline THEN <<Newline>>
    ELSE IF worker[w].needs_newline THEN <<Newline, token, Newline>>
    ELSE <<token, Newline>>

(* What an interrupted write of payload can leave: a proper prefix, its    *)
(* next record possibly cut.                                               *)
Interrupted(payload) ==
    LET cut(k) == SubSeq(payload, 1, k)
    IN  {cut(k) : k \in 0..(Len(payload) - 1)} \union
        {cut(k) \o <<Fragment>> :
            k \in {j \in 0..(Len(payload) - 1) : payload[j + 1].tok = "record"}}

write(w, t) ==
    /\ worker[w].io[t].st = "write"
    /\ file' = file \o Payload(w, worker[w].io[t].token)
    /\ worker' = [worker EXCEPT ![w].io[t].st = "sync"]
    /\ UNCHANGED <<synced, side, lock, backend, runs, harm, faults>>

(***************************************************************************)
(* The fsync returns.  Only now does memory change and the append's caller *)
(* go on: open to its next append, turn.begin to start the runner and to   *)
(* answer, the turn thread to report its outcome.                          *)
(***************************************************************************)
sync(w, t) ==
    LET token == worker[w].io[t].token
        isEntry == token # Newline
        starts == /\ t = "main" /\ Serving(w) /\ isEntry
                  /\ token.phase = "in_progress" /\ token.op \in Turns
        after == [worker[w] EXCEPT
            !.io[t] = NoIO,
            !.needs_newline = FALSE,
            !.mem = IF isEntry
                    THEN [@ EXCEPT ![token.op] =
                            [phase |-> token.phase, digest |-> token.digest]]
                    ELSE @,
            !.pc = IF @ = "newline" THEN "promote" ELSE @,
            !.turn = IF starts
                     THEN [st |-> "running", op |-> token.op,
                           outcome |-> "committed"]
                     ELSE IF t = "turn" THEN [@ EXCEPT !.st = "reporting"]
                     ELSE @]
    IN  /\ worker[w].io[t].st = "sync"
        /\ synced' = Len(file)
        /\ worker' = [worker EXCEPT ![w] = after]
        /\ runs' = IF starts THEN [runs EXCEPT ![token.op] = @ + 1] ELSE runs
        /\ call' = IF starts /\ call[token.op] = [st |-> "begun", on |-> w]
                   THEN [call EXCEPT ![token.op].st = "running"]
                   ELSE call
        /\ UNCHANGED <<file, side, lock, chan, told, harm, faults>>

(***************************************************************************)
(* The write or the fsync raises OSError.  During open the worker never    *)
(* serves; turn.begin answers ledger_unavailable; the turn thread reports  *)
(* its outcome all the same (turn.py, ledger_error).                       *)
(***************************************************************************)
append_fails(w, t) ==
    LET token == worker[w].io[t].token
        payload == Payload(w, token)
    IN  /\ errors < MaxErrors
        /\ worker[w].io[t].st = "write"
        /\ \E p \in Interrupted(payload) \union {payload} : file' = file \o p
        /\ errors' = errors + 1 /\ harm' = harm \union {"error"}
        /\ IF Serving(w)
           THEN /\ worker' = [worker EXCEPT
                        ![w].io[t] = NoIO,
                        ![w].turn = IF t = "turn"
                                    THEN [@ EXCEPT !.st = "reporting"] ELSE @]
                /\ call' = IF t = "main" /\ token.op \in Turns
                              /\ call[token.op] = [st |-> "begun", on |-> w]
                           THEN [call EXCEPT ![token.op] = Returned] ELSE call
                /\ UNCHANGED <<lock, chan>>
           ELSE /\ Exit(w) /\ chan' = Null
                /\ UNCHANGED call
        /\ UNCHANGED <<synced, side, runs, told, kills, losses>>

(* The sidecar cannot be written or synced: what was created of it stays.  *)
quarantine_fails(w) ==
    /\ errors < MaxErrors
    /\ worker[w].pc = "torn"
    /\ side' \in {NoSidecar, Malformed, TornLine(file)}
    /\ errors' = errors + 1 /\ harm' = harm \union {"error"}
    /\ Exit(w) /\ chan' = Null
    /\ UNCHANGED <<file, synced, call, runs, told, kills, losses>>

-----------------------------------------------------------------------------
(* Requests to the worker, and the turn it runs.                           *)

Answer(op, outcomes) ==
    /\ call' = [call EXCEPT ![op] = Returned]
    /\ told' = [told EXCEPT ![op] = @ \union outcomes]

(* The request loop is free and the backend is connected to it.            *)
Reachable(w) == chan = w /\ Serving(w) /\ Idle(w, "main")

(***************************************************************************)
(* run() opens a turn for op.  A known operation with the same digest, or  *)
(* the turn already open, is a duplicate and starts nothing; a different   *)
(* digest, or another open turn, is a conflict and run() raises.           *)
(***************************************************************************)
begin_turn(w, op, digest) ==
    LET open_turn == worker[w].turn
        entry == worker[w].mem[op]
        duplicate == IF open_turn # NoTurn THEN open_turn.op = op
                     ELSE entry # Unknown /\ entry.digest = digest
    IN  /\ Reachable(w) /\ call[op] = NoCall
        /\ \/ /\ duplicate
              /\ call' = [call EXCEPT ![op] = [st |-> "duplicate", on |-> w]]
              /\ UNCHANGED worker
           \/ /\ ~duplicate /\ (open_turn # NoTurn \/ entry # Unknown)
              /\ call' = [call EXCEPT ![op] = Returned]
              /\ UNCHANGED worker
           \/ /\ open_turn = NoTurn /\ entry = Unknown
              /\ call' = [call EXCEPT ![op] = [st |-> "begun", on |-> w]]
              /\ Pending(w, "main", Record(op, "in_progress", digest))
        /\ UNCHANGED <<disk, lock, chan, told, runs, harm, faults>>

(* turn.begin is not answered within TURN_BEGIN_TIMEOUT.                   *)
begin_timeout(op) ==
    /\ call[op].st = "begun"
    /\ Answer(op, {})
    /\ UNCHANGED <<disk, lock, worker, chan, runs, harm, faults>>

(* Mutant of duplicate_result: an uncertain record counts as done.         *)
duplicate_result_Trusting(w, op) ==
    /\ Reachable(w) /\ call[op] = [st |-> "duplicate", on |-> w]
    /\ Answer(op, IF worker[w].mem[op].phase \in {"committed", "uncertain"}
                  THEN {"committed"} ELSE {"uncertain"})
    /\ UNCHANGED <<disk, lock, worker, chan, runs, harm, faults>>

(* _duplicate_result: the durable record is the attempt's outcome.         *)
duplicate_result(w, op) ==
    /\ Reachable(w) /\ call[op] = [st |-> "duplicate", on |-> w]
    /\ Answer(op, IF worker[w].mem[op].phase = "committed"
                  THEN {"committed"} ELSE {"uncertain"})
    /\ UNCHANGED <<disk, lock, worker, chan, runs, harm, faults>>

(* The runner returns or raises, and the turn thread records the outcome.  *)
turn_ends(w, outcome) ==
    LET turn == worker[w].turn
        entry == worker[w].mem[turn.op]
        finishable == entry.phase \in OpenPhases
    IN  /\ Serving(w) /\ turn.st = "running"
        /\ worker' = [worker EXCEPT
                ![w].turn = [turn EXCEPT
                    !.st = IF finishable THEN "finishing" ELSE "reporting",
                    !.outcome = outcome],
                ![w].io["turn"] = IF finishable
                    THEN [st |-> "write",
                          token |-> Record(turn.op, outcome, entry.digest)]
                    ELSE @]
        /\ UNCHANGED <<disk, lock, backend, runs, harm, faults>>

(* The operation.finish frame, the turn's last.  A caller that left is not *)
(* told.                                                                   *)
report(w) ==
    LET turn == worker[w].turn
    IN  /\ Serving(w) /\ turn.st = "reporting"
        /\ worker' = [worker EXCEPT ![w].turn = NoTurn]
        /\ IF call[turn.op] = [st |-> "running", on |-> w]
           THEN Answer(turn.op, {turn.outcome})
           ELSE UNCHANGED <<call, told>>
        /\ UNCHANGED <<disk, lock, chan, runs, harm, faults>>

(* The heartbeat stops before the outcome is appended: a slow disk leaves  *)
(* the channel silent for TURN_LIVENESS_TIMEOUT.                           *)
turn_silent(w, op) ==
    /\ call[op] = [st |-> "running", on |-> w]
    /\ worker[w].turn.st \in {"finishing", "reporting"}
    /\ Answer(op, {"uncertain"})
    /\ UNCHANGED <<disk, lock, worker, chan, runs, harm, faults>>

(* run() learns that its worker is gone: a begun turn is uncertain.        *)
channel_fails(op) ==
    /\ call[op].on # Null /\ worker[call[op].on].pc = "down"
    /\ Answer(op, IF call[op].st = "running" THEN {"uncertain"} ELSE {})
    /\ UNCHANGED <<disk, lock, worker, chan, runs, harm, faults>>

operation_begin(w, op, digest) ==
    /\ Reachable(w)
    /\ worker[w].mem[op] = Unknown
    /\ Pending(w, "main", Record(op, "in_progress", digest))
    /\ UNCHANGED <<disk, lock, backend, runs, harm, faults>>

(* Mutant of operation_finish: any known operation is finishable.          *)
operation_finish_Again(w, op, outcome) ==
    /\ Reachable(w)
    /\ worker[w].mem[op] # Unknown
    /\ Pending(w, "main", Record(op, outcome, worker[w].mem[op].digest))
    /\ UNCHANGED <<disk, lock, backend, runs, harm, faults>>

operation_finish(w, op, outcome) ==
    /\ Reachable(w)
    /\ worker[w].mem[op].phase \in OpenPhases
    /\ Pending(w, "main", Record(op, outcome, worker[w].mem[op].digest))
    /\ UNCHANGED <<disk, lock, backend, runs, harm, faults>>

-----------------------------------------------------------------------------
(* Deaths.                                                                 *)

Torn(f) == IF f # <<>> /\ f[Len(f)] = Fragment
           THEN IF "torn" \in harm THEN {"torn", "torn_again"} ELSE {"torn"}
           ELSE {}

(* What a death leaves of a sidecar that is being written.                 *)
LeftSidecar(w) == IF worker[w].pc = "torn" THEN {NoSidecar, Malformed} ELSE {side}

InRepair(w) == worker[w].pc = "newline"

(* Worker w is killed, possibly in the middle of a write.                  *)
kill(w) ==
    /\ kills < MaxKills
    /\ worker[w].pc # "down"
    /\ \E f \in {file} \union
            UNION {{file \o p : p \in Interrupted(Payload(w, worker[w].io[t].token))} :
                    t \in {u \in Threads : worker[w].io[u].st = "write"}} :
        /\ file' = f
        /\ \E q \in LeftSidecar(w) :
            /\ side' = q
            /\ harm' = harm \union (IF f # file THEN Torn(f) ELSE {})
                  \union (IF InRepair(w) \/ q = Malformed THEN {"repair"} ELSE {})
    /\ kills' = kills + 1
    /\ Exit(w)
    /\ UNCHANGED <<synced, backend, runs, losses, errors>>

(* The daemon dies or closes the backend; the worker's stdin reaches its   *)
(* end, and the worker exits when its request loop comes to read it.       *)
daemon_dies ==
    /\ kills < MaxKills /\ chan # Null
    /\ kills' = kills + 1
    /\ chan' = Null
    /\ call' = [op \in Turns |-> NoCall]
    /\ UNCHANGED <<disk, lock, worker, runs, told, harm, losses, errors>>

orphan_exits(w) ==
    /\ chan # w /\ Serving(w) /\ Idle(w, "main")
    /\ Exit(w)
    /\ UNCHANGED <<disk, backend, runs, harm, faults>>

(* Every process dies, and of the file only what was synced is certain.    *)
power_loss ==
    /\ losses < MaxPowerLosses
    /\ losses' = losses + 1
    /\ \E k \in synced..Len(file) :
        \/ file' = SubSeq(file, 1, k)
        \/ /\ k < Len(file) /\ file[k + 1] # Newline
           /\ file' = Append(SubSeq(file, 1, k), Fragment)
    /\ synced' = Len(file')
    /\ \E q \in UNION {LeftSidecar(w) : w \in Workers} :
        /\ side' = q
        /\ harm' = harm \union (IF file' # file THEN Torn(file') ELSE {}) \union
                (IF q = Malformed \/ \E w \in Workers : InRepair(w)
                 THEN {"repair"} ELSE {})
    /\ worker' = [w \in Workers |-> Down]
    /\ lock' = Null /\ chan' = Null
    /\ call' = [op \in Turns |-> NoCall]
    /\ UNCHANGED <<runs, told, kills, errors>>

-----------------------------------------------------------------------------
WorkerStep(w) ==
    \/ open(w) \/ write_quarantine(w) \/ quarantine_fails(w)
    \/ promote(w) \/ opened(w)
    \/ \E t \in Threads : write(w, t) \/ sync(w, t) \/ append_fails(w, t)
    \/ \E outcome \in FinalPhases : turn_ends(w, outcome)
    \/ report(w)
    \/ kill(w) \/ orphan_exits(w)

BackendStep ==
    \/ \E w \in Workers, op \in Turns, d \in Digests : begin_turn(w, op, d)
    \/ \E w \in Workers, op \in Turns :
            duplicate_result(w, op) \/ turn_silent(w, op)
    \/ \E op \in Turns : begin_timeout(op) \/ channel_fails(op)
    \/ \E w \in Workers, op \in ProbeIds, d \in Digests : operation_begin(w, op, d)
    \/ \E w \in Workers, op \in ProbeIds, o \in FinalPhases :
            operation_finish(w, op, o)
    \/ daemon_dies

Next == (\E w \in Workers : WorkerStep(w)) \/ BackendStep \/ power_loss

Spec == Init /\ [][Next]_vars

(***************************************************************************)
(* Fairness.  The worker's own threads go on while it lives and its disk   *)
(* answers, the runner of a turn returns (turn.cancel and the turn timeout *)
(* bound it), and the supervisor's reader thread sees a closed pipe.       *)
(* Nothing is assumed of launches, requests, faults or deaths.             *)
(***************************************************************************)
Progress(w) ==
    \/ write_quarantine(w) \/ promote(w) \/ opened(w)
    \/ \E outcome \in FinalPhases : turn_ends(w, outcome)
    \/ report(w)

Fairness ==
    /\ \A w \in Workers :
        /\ WF_vars(Progress(w))
        /\ \A t \in Threads : WF_vars(write(w, t)) /\ WF_vars(sync(w, t))
        /\ \A op \in Turns : WF_vars(duplicate_result(w, op))
    /\ \A op \in Turns : WF_vars(channel_fails(op))

FairSpec == Spec /\ Fairness

-----------------------------------------------------------------------------
(* Properties.                                                             *)

(* The shape of the ledger's files, the worker processes and the calls.    *)
TypeOK ==
    /\ file \in Seq(Records \union {Newline, Fragment})
    /\ synced \in 0..Len(file)
    /\ side.st \in {"absent", "malformed", "present"}
    /\ lock \in Workers \union {Null} /\ chan \in Workers \union {Null}
    /\ worker \in [Workers ->
            [pc : {"down", "torn", "newline", "promote", "serving"},
             mem : [Ops -> Entries], needs_newline : BOOLEAN,
             io : [Threads -> IOs], turn : TurnStates]]
    /\ call \in [Turns -> {NoCall, Returned} \union
            [st : {"begun", "running", "duplicate"}, on : Workers]]
    /\ runs \in [Turns -> Nat]
    /\ told \in [Turns -> SUBSET (FinalPhases \union {"uncertain"})]
    /\ harm \subseteq {"torn", "torn_again", "repair", "error"}
    /\ kills \in 0..MaxKills /\ losses \in 0..MaxPowerLosses
    /\ errors \in 0..MaxErrors

(* The runner is started at most once for an operation id, whatever is     *)
(* replayed, killed, lost or refused in between (begin, _begin_turn).      *)
RunOnce == \A op \in DOMAIN runs : runs[op] <= 1

(* One torn append never costs the ledger: unless a second one followed,   *)
(* the repair of the first was cut short or an append failed in a live     *)
(* process, the next open succeeds (open, _replay, _exclude_quarantine).   *)
Repairable ==
    \/ Readable(file, side)
    \/ harm \cap {"torn_again", "repair", "error"} # {}
    \/ \E w \in Workers : InRepair(w)

(* An outcome run() has returned is the one the ledger file records, until *)
(* a power loss or a failed append: a replay of the operation cannot       *)
(* answer otherwise (turn.py, EVENT_FINISH; managed_hermes.py,             *)
(* _duplicate_result).                                                     *)
ReportedIsRecorded ==
    losses = 0 /\ errors = 0 =>
        \A op \in DOMAIN told : \A outcome \in told[op] \cap FinalPhases :
            replay(file, op).phase = outcome

(* An operation a serving worker shows as in progress is the turn it is    *)
(* running, until an append fails: nothing a dead process began is left    *)
(* looking alive (open).                                                   *)
InProgressIsLive ==
    errors = 0 =>
        \A w \in Workers, op \in DOMAIN runs :
            Serving(w) /\ worker[w].mem[op].phase = "in_progress" =>
                worker[w].turn # NoTurn /\ worker[w].turn.op = op

(* What the ledger answers after kills and torn appends is what happened.  *)
LedgerAnswers == Repairable /\ ReportedIsRecorded /\ InProgressIsLive

(* The records of the file, through every tear, repair and restart, move   *)
(* only as the abstract log allows until a power loss or a failed append:  *)
(* begun once, finished at most once, never forgotten (OperationLedger).   *)
Log == INSTANCE OperationLog WITH log <- [op \in Ops |-> replay(file, op)]
ImplementsLog ==
    /\ Log!Init
    /\ [][file' # file /\ losses' = 0 /\ errors' = 0 => [Log!Next]_(Log!vars)]_vars
=============================================================================
