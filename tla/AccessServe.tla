---------------------------- MODULE AccessServe ----------------------------
(***************************************************************************)
(* apply and rollback of the private tailnet endpoint                        *)
(* (deployment/private_access/operations.py): the global operation lock, the *)
(* rollback log of a state directory, and the external Serve configuration   *)
(* they change through a command that may fail, time out or be verified      *)
(* differently.  A process may die at any step, also inside an append.       *)
(*                                                                         *)
(* Serve is empty, a configuration's exact gateway, or foreign: anything an  *)
(* operator set by hand.  Digests, descriptors and the lock's path are       *)
(* abstracted away.                                                          *)
(***************************************************************************)
EXTENDS Naturals, Sequences, FiniteSets

CONSTANTS
    Procs, Dirs, Configs        \* commands, state directories, access configurations

VARIABLES
    serve,      \* what tailscaled serves
    log,        \* the rollback log of each state directory
    lock,       \* the process that holds the operation lock
    p,          \* the commands
    raced       \* history: Serve was changed by hand after the last command read it

vars == <<serve, log, lock, p, raced>>

Idle == "idle"
Empty == "empty"
Foreign == "foreign"
Nobody == "nobody"

NoCommand == [pc |-> Idle, op |-> "none", dir |-> "none", cfg |-> "none", read |-> "none"]
NoLog == [recs |-> <<>>, torn |-> FALSE]

Init ==
    /\ serve = Empty
    /\ log = [s \in Dirs |-> NoLog]
    /\ lock = Nobody
    /\ p = [c \in Procs |-> NoCommand]
    /\ raced = FALSE

Transitions(st) == CASE st = "none" -> {"applying"}
                     [] st = "applying" -> {"failed", "rollback_required", "applied", "rolled_back"}
                     [] st \in {"failed", "rollback_required", "applied"} -> {"rolled_back"}
                     [] OTHER -> {}

(* _load_rollback_log: a torn last frame is ignored *)
Last(l) == IF l.recs = <<>> THEN "none" ELSE l.recs[Len(l.recs)].st

Loads(l) ==
    \A i \in 1..Len(l.recs) :
        /\ l.recs[i].st \in Transitions(IF i = 1 THEN "none" ELSE l.recs[i - 1].st)
        /\ l.recs[i].cfg = l.recs[1].cfg

(* _validate_manifest_identity *)
Identity(l, cfg) == l.recs # <<>> => l.recs[1].cfg = cfg

Step(c, pc) == p' = [p EXCEPT ![c].pc = pc]
Ends(c) == p' = [p EXCEPT ![c] = NoCommand] /\ lock' = Nobody /\ raced' = FALSE

(* append: what a crash cut off is truncated, then the frame is written. *)
Append_(c, st) == [log EXCEPT ![p[c].dir] = [recs |-> Append(@.recs, [st |-> st, cfg |-> p[c].cfg]), torn |-> FALSE]]

----------------------------------------------------------------------------
(* A command takes the operation lock or is refused *)

Begin(c, op, s, cfg) ==
    /\ p[c].pc = Idle
    /\ lock = Nobody
    /\ Loads(log[s])
    /\ Identity(log[s], cfg)
    /\ lock' = c
    /\ p' = [p EXCEPT ![c] = [pc |-> "check", op |-> op, dir |-> s, cfg |-> cfg, read |-> "none"]]
    /\ UNCHANGED <<serve, log, raced>>

BeginApply(c, s, cfg) ==
    Last(log[s]) \in {"none", "applying", "applied"} /\ Begin(c, "apply", s, cfg)

BeginRollback(c, s, cfg) ==
    Last(log[s]) # "none" /\ Begin(c, "rollback", s, cfg)

(* The composition, gateway, binary, tailnet or status check says no. *)
Refused(c) ==
    /\ p[c].pc = "check"
    /\ Ends(c)
    /\ UNCHANGED <<serve, log>>

(* _serve_status *)
ReadServe(c) ==
    /\ p[c].pc = "check"
    /\ p' = [p EXCEPT ![c].pc = "decide", ![c].read = serve]
    /\ raced' = FALSE
    /\ UNCHANGED <<serve, log, lock>>

(* What is served is neither empty nor this gateway, or not what the log
   says: left for manual review.                                            *)
Diverged(c) ==
    LET st == Last(log[p[c].dir])
    IN  /\ p[c].pc = "decide"
        /\ \/ p[c].read \notin {Empty, p[c].cfg}
           \/ p[c].op = "apply" /\ p[c].read = Empty /\ st = "applied"
           \/ p[c].op = "apply" /\ p[c].read = p[c].cfg /\ st = "none"
           \/ p[c].op = "rollback" /\ p[c].read = p[c].cfg /\ st = "rolled_back"
        /\ Ends(c)
        /\ UNCHANGED <<serve, log>>

----------------------------------------------------------------------------
(* _apply_locked after its checks *)

(* Applied already, or the last step of an apply that died. *)
ApplyFound(c) ==
    /\ p[c].pc = "decide" /\ p[c].op = "apply"
    /\ p[c].read = p[c].cfg
    /\ Last(log[p[c].dir]) \in {"applying", "applied"}
    /\ log' = IF Last(log[p[c].dir]) = "applying" THEN Append_(c, "applied") ELSE log
    /\ Ends(c)
    /\ UNCHANGED serve

(* The intent is durable before the command runs. *)
ApplyIntent(c) ==
    /\ p[c].pc = "decide" /\ p[c].op = "apply"
    /\ p[c].read = Empty
    /\ Last(log[p[c].dir]) \in {"none", "applying"}
    /\ log' = IF Last(log[p[c].dir]) = "none" THEN Append_(c, "applying") ELSE log
    /\ Step(c, "serve")
    /\ UNCHANGED <<serve, lock, raced>>

(* The command succeeds, beside what an operator has put there it may leave
   more than the gateway; or it fails or times out, and may have had its effect
   all the same.                                                            *)
RunServe(c) ==
    /\ p[c].pc = "serve"
    /\ serve' \in {serve, p[c].cfg}
    /\ \/ serve' \in {p[c].cfg, Foreign} /\ Step(c, "verify")
       \/ Step(c, "failed")
    /\ UNCHANGED <<log, lock, raced>>

ApplyFails(c) ==
    /\ p[c].pc = "failed"
    /\ log' = Append_(c, "failed")
    /\ Ends(c)
    /\ UNCHANGED serve

(* The status is read back; it may be unavailable. *)
ApplyVerify(c) ==
    /\ p[c].pc = "verify"
    /\ \E seen \in {serve, "unavailable"} :
           log' = Append_(c, IF seen = p[c].cfg THEN "applied" ELSE "rollback_required")
    /\ Ends(c)
    /\ UNCHANGED serve

----------------------------------------------------------------------------
(* _rollback_locked after its checks *)

RollbackFound(c) ==
    /\ p[c].pc = "decide" /\ p[c].op = "rollback"
    /\ p[c].read = Empty
    /\ log' = IF Last(log[p[c].dir]) = "rolled_back" THEN log ELSE Append_(c, "rolled_back")
    /\ Ends(c)
    /\ UNCHANGED serve

RollbackDecide(c) ==
    /\ p[c].pc = "decide" /\ p[c].op = "rollback"
    /\ p[c].read = p[c].cfg
    /\ Last(log[p[c].dir]) # "rolled_back"
    /\ Step(c, "off")
    /\ UNCHANGED <<serve, log, lock, raced>>

RunOff(c) ==
    /\ p[c].pc = "off"
    /\ serve' \in {serve, Empty}
    /\ \/ serve' = Empty /\ Step(c, "gone") /\ UNCHANGED <<lock, raced>>
       \/ Ends(c)
    /\ UNCHANGED log

RollbackVerify(c) ==
    /\ p[c].pc = "gone"
    /\ Ends(c)
    /\ log' \in {log} \union (IF serve = Empty THEN {Append_(c, "rolled_back")} ELSE {})
    /\ UNCHANGED serve

----------------------------------------------------------------------------
(* The process dies; in an append it leaves a torn frame. *)
Crash(c) ==
    /\ p[c].pc # Idle
    /\ Ends(c)
    /\ log' \in {log} \union (IF p[c].pc \in {"decide", "failed", "verify", "gone"}
                             THEN {[log EXCEPT ![p[c].dir].torn = TRUE]} ELSE {})
    /\ UNCHANGED serve

(* The operator changes Serve by hand, also under a running command. *)
Operator ==
    /\ serve' \in {Empty, Foreign} \ {serve}
    /\ raced' = (raced \/ \E c \in Procs : p[c].pc \notin {Idle, "check"})
    /\ UNCHANGED <<log, lock, p>>

Command(c) ==
    \/ \E s \in Dirs, cfg \in Configs : BeginApply(c, s, cfg) \/ BeginRollback(c, s, cfg)
    \/ Refused(c) \/ ReadServe(c) \/ Diverged(c)
    \/ ApplyFound(c) \/ ApplyIntent(c) \/ RunServe(c) \/ ApplyFails(c) \/ ApplyVerify(c)
    \/ RollbackFound(c) \/ RollbackDecide(c) \/ RunOff(c) \/ RollbackVerify(c)

Next == Operator \/ \E c \in Procs : Command(c) \/ Crash(c)

Spec == Init /\ [][Next]_vars

(* Somebody calls rollback again and again, dies sometimes and meets a tool
   that sometimes works.                                                    *)
OffWorks(c) == RunOff(c) /\ serve' = Empty
Sees(c, s) == p[c].op = "rollback" /\ p[c].dir = s /\ ReadServe(c)
Runs(c) == p[c].pc # Idle /\ Command(c)
Insists(c) == WF_vars(Runs(c)) /\ SF_vars(RollbackDecide(c)) /\ SF_vars(OffWorks(c))

LiveSpec ==
    /\ Spec
    /\ \A c \in Procs : Insists(c)
    /\ \A c \in Procs, s \in Dirs, cfg \in Configs : SF_vars(BeginRollback(c, s, cfg)) /\ SF_vars(Sees(c, s))

----------------------------------------------------------------------------
(* Properties *)

Live(s) == Last(log[s]) \notin {"none", "rolled_back"}

(* The lock's holder is the one process that is not idle, and each log is one
   its own loader accepts.                                                  *)
TypeOK ==
    /\ serve \in {Empty, Foreign} \union Configs
    /\ \A s \in Dirs : Loads(log[s])
    /\ \A c \in Procs : p[c].pc # Idle => lock = c

(* What the product put there can be taken back: as long as Serve is a
   configuration's gateway, some state directory has a log of it that is not
   closed, whatever died or timed out in between.                           *)
Revocable ==
    serve \in Configs => \E s \in Dirs : Live(s) /\ log[s].recs[1].cfg = serve

(* rollback and apply leave foreign configuration untouched, unless it was put
   there by hand between the command's look and its call of tailscale: that
   once it is replaced or removed.                                          *)
ForeignUntouched ==
    serve = Foreign /\ serve' # Foreign => UNCHANGED p \/ raced

(* A log is closed only when its gateway is no longer served: nothing stays
   behind that the log would refuse to remove.                              *)
ClosedIsGone ==
    \A s \in Dirs : Live(s) /\ Last(log'[s]) = "rolled_back" => serve # log[s].recs[1].cfg

(* A rollback that is repeated removes the endpoint in the end, in whatever
   step an apply or a rollback died, failed or timed out before.            *)
RollbackReaches == []<>(serve \notin Configs)
====
