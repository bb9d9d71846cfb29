-------------------------- MODULE RecoveryCommands --------------------------
(***************************************************************************)
(* Startup recovery as the Control store sees it: recover_startup           *)
(* (orchestration/service.py) schedules a durable recovery command for      *)
(* every run a previous daemon left in flight, then claims the pending      *)
(* commands one by one, inspects the runtime and records an outcome, each   *)
(* write fenced by the claim and by the run's revision.  A write that loses *)
(* raises out of the whole pass; the bridge's loop (transports/bridge.py)   *)
(* repeats it at its cadence, so a pass never overlaps a turn, while the    *)
(* Control API cancels and retries runs at any time and the daemon may die  *)
(* between any two commits.  The revision of a run is the flag "moved": it  *)
(* says that somebody wrote the run after the pass read it.  The research   *)
(* branch of the pass is not modelled.                                      *)
(***************************************************************************)
EXTENDS Naturals, Sequences, FiniteSets, SequencesExt

CONSTANTS
    Run,          \* runs, in the order of their creation (a sequence)
    MaxAttempt,   \* bound: attempts of a run
    MaxOp,        \* bound: cancels and retries of the operator
    MaxCrash,     \* bound: deaths of the daemon
    MaxSlow,      \* bound: claims that expire while the pass is at work
    Passes,       \* passes a daemon may spend on recovery (10 in the code)
    PromptRestart \* whether a daemon may start within the 30 s of a dead one's claim

Runs == ToSet(Run)

ConstantsAssumption ==
    /\ IsInjective(Run)
    /\ MaxAttempt \in Nat \ {0} /\ Passes \in Nat \ {0}
    /\ {MaxOp, MaxCrash, MaxSlow} \subseteq Nat
    /\ PromptRestart \in BOOLEAN

Terminal == {"completed", "failed", "canceled"}
Recoverable == {"queued", "retrying", "running", "cancel_requested"}

VARIABLES
    run,     \* the run rows: state and active attempt
    att,     \* the attempts of every run: binding, identity and the turn itself
    cmds,    \* the rows of runtime_recovery_commands, in the order of creation
    pass,    \* the recovery pass of the daemon that lives now
    spent    \* the budgets used

vars == <<run, att, cmds, pass, spent>>

\* identity: the release identity recorded with the attempt, "none", "partial"
\* (of an older schema) or "full"; turn: what the worker is doing with it.
NewAttempt == [bound |-> FALSE, identity |-> "none", turn |-> "none"]

NoPass == [pc |-> "due", tries |-> 0, todo |-> <<>>, c |-> 0, bound |-> FALSE,
           identity |-> "none", state |-> "none", moved |-> {}, found |-> "none"]

Init ==
    /\ run = [r \in Runs |-> [state |-> "queued", attempt |-> 1]]
    /\ att = [r \in Runs |-> <<NewAttempt>>]
    /\ cmds = <<>>
    /\ pass = [NoPass EXCEPT !.pc = "converged"]
    /\ spent = [op |-> 0, crash |-> 0, slow |-> 0]

Active(r) == att[r][run[r].attempt]

\* Every commit on a run bumps its revision.
Move(r, state) ==
    run' = [run EXCEPT ![r].state = state]

Moved(p, r) == [p EXCEPT !.moved = @ \cup {r}]

---------------------------------------------------------------------------
(* Turns, the operator and the death of the daemon *)

\* The loop drives turns between passes: the identity is recorded, the attempt
\* is bound and the worker executes it.
Drive(r) ==
    /\ pass.pc \in {"converged", "given up"}
    /\ \/ /\ run[r].state \in {"queued", "retrying"} /\ Active(r).identity = "none"
          /\ \E i \in {"full", "partial"} : att' = [att EXCEPT ![r][run[r].attempt].identity = i]
          /\ UNCHANGED run
       \/ /\ run[r].state \in {"queued", "retrying"} /\ Active(r).identity # "none"
          /\ att' = [att EXCEPT ![r][run[r].attempt].bound = TRUE, ![r][run[r].attempt].turn = "active"]
          /\ Move(r, "running")
    /\ UNCHANGED <<cmds, pass, spent>>

\* The turn ends and its last event closes the run.
TurnEnds(r) ==
    /\ pass.pc \in {"converged", "given up"}
    /\ run[r].state \in {"running", "cancel_requested"}
    /\ Active(r).turn = "active"
    /\ att' = [att EXCEPT ![r][run[r].attempt].turn = "ended"]
    /\ Move(r, IF run[r].state = "running" THEN "completed" ELSE "canceled")
    /\ UNCHANGED <<cmds, pass, spent>>

Operate ==
    /\ spent.op < MaxOp
    /\ spent' = [spent EXCEPT !.op = @ + 1]

Cancel(r) ==
    /\ run[r].state \in Recoverable \ {"cancel_requested"}
    /\ Move(r, "cancel_requested")
    /\ pass' = Moved(pass, r)
    /\ Operate
    /\ UNCHANGED <<att, cmds>>

\* retry_run: a new attempt on the same run.
Retry(r) ==
    /\ run[r].state = "failed" /\ Len(att[r]) < MaxAttempt
    /\ run' = [run EXCEPT ![r] = [state |-> "retrying", attempt |-> Len(att[r]) + 1]]
    /\ att' = [att EXCEPT ![r] = Append(@, NewAttempt)]
    /\ pass' = Moved(pass, r)
    /\ Operate
    /\ UNCHANGED cmds

\* The daemon dies and another starts; of a turn that was executing nobody
\* knows whether its worker has died with it.
Crash ==
    /\ spent.crash < MaxCrash
    /\ spent' = [spent EXCEPT !.crash = @ + 1]
    /\ \E survive \in BOOLEAN :
          att' = [r \in Runs |-> [n \in DOMAIN att[r] |->
                    IF att[r][n].turn = "active" /\ ~survive
                    THEN [att[r][n] EXCEPT !.turn = "lost"] ELSE att[r][n]]]
    /\ pass' = NoPass
    /\ \E expire \in BOOLEAN :
          /\ ~expire => PromptRestart
          /\ cmds' = IF expire THEN [c \in DOMAIN cmds |-> [cmds[c] EXCEPT !.lease = "none"]] ELSE cmds
    /\ UNCHANGED run

\* A claim of 30 seconds passes while the pass handles something else.
Expire(c) ==
    /\ spent.slow < MaxSlow
    /\ cmds[c].lease = "live"
    /\ cmds' = [cmds EXCEPT ![c].lease = "none"]
    /\ spent' = [spent EXCEPT !.slow = @ + 1]
    /\ UNCHANGED <<run, att, pass>>

---------------------------------------------------------------------------
(* The pass *)

\* An exception ends the pass; the loop tries again while its budget lasts.
Raise ==
    pass' = [NoPass EXCEPT !.pc = IF pass.tries < Passes THEN "due" ELSE "given up",
                           !.tries = pass.tries]

\* list_recoverable_runs.
Begin ==
    /\ pass.pc = "due" /\ pass.tries < Passes
    /\ pass' = [NoPass EXCEPT !.pc = "schedule", !.tries = pass.tries + 1,
                  !.todo = SelectSeq(Run, LAMBDA r : run[r].state \in Recoverable)]
    /\ UNCHANGED <<run, att, cmds, spent>>

\* What the recorded identity allows to be done with an attempt.
Kind(a) ==
    CASE a.bound /\ a.identity # "full" -> "manual_recovery"
      [] a.bound -> "inspect_runtime"
      [] a.identity = "full" -> "resume_dispatch"
      [] a.identity = "partial" -> "manual_recovery"
      [] OTHER -> "dispatch"

NewCommand(r) ==
    LET kind == Kind(Active(r)) IN
    [r |-> r, n |-> run[r].attempt, kind |-> kind,
     state |-> IF kind = "manual_recovery" THEN "manual_required" ELSE "pending",
     lease |-> "none", outcome |-> "none"]

Open(r, n) == {c \in DOMAIN cmds : cmds[c].r = r /\ cmds[c].n = n
                                   /\ cmds[c].state \in {"pending", "manual_required"}}

\* schedule_runtime_recovery for the next run of the list: a run that moved
\* since is a revision conflict, an open command of the attempt is used again.
Schedule ==
    /\ pass.pc = "schedule"
    /\ IF pass.todo = <<>>
       THEN pass' = [pass EXCEPT !.pc = "list"] /\ UNCHANGED cmds
       ELSE LET r == Head(pass.todo) IN
            IF r \in pass.moved
            THEN Raise /\ UNCHANGED cmds
            ELSE /\ cmds' = IF Open(r, run[r].attempt) # {} THEN cmds ELSE Append(cmds, NewCommand(r))
                 /\ pass' = [pass EXCEPT !.todo = Tail(@)]
    /\ UNCHANGED <<run, att, spent>>

\* claim_runtime_recovery and list_pending_runtime_recoveries agree on what is
\* free.
Claimable(c) == cmds[c].state = "pending" /\ cmds[c].lease = "none"

ListPending ==
    /\ pass.pc = "list"
    /\ pass' = [pass EXCEPT !.pc = "next",
                  !.todo = SelectSeq([n \in DOMAIN cmds |-> n], Claimable)]
    /\ UNCHANGED <<run, att, cmds, spent>>

\* The attempt is read before the claim, the run after it.
Claim ==
    /\ pass.pc = "next"
    /\ IF pass.todo = <<>>
       THEN pass' = [NoPass EXCEPT !.pc = "converged", !.tries = pass.tries] /\ UNCHANGED cmds
       ELSE LET c == Head(pass.todo)
                a == att[cmds[c].r][cmds[c].n]
            IN IF Claimable(c)
               THEN /\ cmds' = [cmds EXCEPT ![c].lease = "live"]
                    /\ pass' = [pass EXCEPT !.pc = "read", !.c = c, !.todo = Tail(@),
                                  !.bound = a.bound, !.identity = a.identity]
               ELSE pass' = [pass EXCEPT !.todo = Tail(@)] /\ UNCHANGED cmds
    /\ UNCHANGED <<run, att, spent>>

Mine == cmds[pass.c].r

\* get_run: what is written against it later must not have moved since.
Fresh(p, pc) == [p EXCEPT !.pc = pc, !.state = run[Mine].state, !.moved = @ \ {Mine}]

ReadRun ==
    /\ pass.pc = "read"
    /\ pass' = Fresh(pass,
         CASE run[Mine].state = "cancel_requested" /\ ~pass.bound -> "cancel"
           [] run[Mine].state \in Terminal -> "inactive"
           [] ~pass.bound -> "verify"
           [] OTHER -> "inspect")
    /\ UNCHANGED <<run, att, cmds, spent>>

\* The target state of an outcome.
Settled(outcome) ==
    CASE outcome = "manual_required" -> "manual_required"
      [] outcome = "retryable_failed" -> "failed"
      [] OTHER -> "completed"

\* record_runtime_recovery_outcome, refused when the claim has run out or the
\* run has moved.
Record(outcome) ==
    /\ IF cmds[pass.c].state = "pending" /\ cmds[pass.c].lease = "live" /\ Mine \notin pass.moved
       THEN /\ cmds' = [cmds EXCEPT ![pass.c].state = Settled(outcome), ![pass.c].lease = "none",
                                    ![pass.c].outcome = outcome]
            /\ pass' = [pass EXCEPT !.pc = "next"]
       ELSE Raise /\ UNCHANGED cmds
    /\ UNCHANGED <<run, att, spent>>

RecordInactive == pass.pc = "inactive" /\ Record("inactive")
RecordFailed == pass.pc = "record" /\ Record("retryable_failed")
RecordManual == pass.pc = "manual" /\ Record("manual_required")
RecordDispatchable == pass.pc = "dispatchable" /\ Record("dispatchable")

\* Mutant of Fences: the active attempt is not compared.
Fences_AnyAttempt(r, n) == r \notin pass.moved

\* The write on the run the command is about, against its active attempt only.
Fences(r, n) == r \notin pass.moved /\ run[r].attempt = n

\* fail_unbound_run of a canceled run that was never bound.
CancelUnbound ==
    /\ pass.pc = "cancel"
    /\ LET r == Mine
           n == cmds[pass.c].n
       IN IF Fences(r, n) /\ ~att[r][n].bound
          THEN Move(r, "canceled") /\ pass' = [pass EXCEPT !.pc = "inactive"]
          ELSE Raise /\ UNCHANGED run
    /\ UNCHANGED <<att, cmds, spent>>

\* The pin of an attempt that was not bound is checked, or made again.
VerifyUnbound ==
    /\ pass.pc = "verify"
    /\ \E ok \in BOOLEAN :
          /\ ~ok => pass.identity = "full"
          /\ pass' = [pass EXCEPT !.pc = IF ok THEN "dispatchable" ELSE "manual"]
    /\ UNCHANGED <<run, att, cmds, spent>>

\* The pin, the handshake and the inspection of a bound attempt: whether its
\* turn is active, gone, or cannot be told.
Inspection(a) == {IF a.turn = "active" THEN "active" ELSE "gone", "unverified"}

Inspect ==
    /\ pass.pc = "inspect"
    /\ \E f \in Inspection(att[Mine][cmds[pass.c].n]) :
          pass' = [pass EXCEPT !.pc = "found", !.found = f]
    /\ UNCHANGED <<run, att, cmds, spent>>

\* The run is read again after the inspection, and after it was closed.
Reread ==
    /\ pass.pc \in {"found", "failed"}
    /\ pass' = Fresh(pass, CASE pass.pc = "failed" -> "record"
                             [] pass.found = "gone" -> "close"
                             [] OTHER -> "manual")
    /\ UNCHANGED <<run, att, cmds, spent>>

\* Mutant of FailInterrupted: a refused transition is taken for one that was
\* made.
FailInterrupted_Assumed ==
    /\ pass.pc = "close"
    /\ LET r == Mine
           n == cmds[pass.c].n
       IN IF Fences(r, n) /\ run[r].state \notin Terminal
          THEN Move(r, "failed")
          ELSE UNCHANGED run
    /\ pass' = [pass EXCEPT !.pc = "failed"]
    /\ UNCHANGED <<att, cmds, spent>>

\* apply_runtime_transition to failed.
FailInterrupted ==
    /\ pass.pc = "close"
    /\ LET r == Mine
           n == cmds[pass.c].n
       IN IF Fences(r, n) /\ run[r].state \notin Terminal
          THEN Move(r, "failed") /\ pass' = [pass EXCEPT !.pc = "failed"]
          ELSE Raise /\ UNCHANGED run
    /\ UNCHANGED <<att, cmds, spent>>

PassStep ==
    \/ Begin \/ Schedule \/ ListPending \/ Claim \/ ReadRun
    \/ CancelUnbound \/ VerifyUnbound \/ Inspect \/ Reread \/ FailInterrupted
    \/ RecordInactive \/ RecordFailed \/ RecordManual \/ RecordDispatchable

Next ==
    \/ PassStep \/ Crash
    \/ \E r \in Runs : Drive(r) \/ TurnEnds(r) \/ Cancel(r) \/ Retry(r)
    \/ \E c \in DOMAIN cmds : Expire(c)

Spec == Init /\ [][Next]_vars

\* The loop keeps passing while recovery is due; turns and operators are free.
FairSpec == Spec /\ WF_vars(PassStep)

---------------------------------------------------------------------------
(* Properties *)

\* Rows and passes keep their shape, and a pass that holds a command holds one
\* that exists.
TypeOK ==
    /\ \A r \in Runs : /\ run[r].state \in Recoverable \cup Terminal
                       /\ run[r].attempt = Len(att[r])
    /\ \A c \in DOMAIN cmds :
          /\ cmds[c].state \in {"pending", "completed", "failed", "manual_required"}
          /\ cmds[c].lease = "live" => cmds[c].state = "pending"
          /\ cmds[c].n \in DOMAIN att[cmds[c].r]
    /\ pass.c \in DOMAIN cmds \cup {0}
    /\ pass.tries <= Passes

\* Recovery never ends a run whose turn is still executing, and never ends a
\* retried run on what it found out about an earlier attempt, whatever the
\* operator did since the pass read it (recover_startup: without replaying an
\* unknown side effect).
LiveTurnIsKept ==
    \A r \in Runs :
       (pass.pc \in {"close", "cancel"} /\ run[r].state \notin Terminal /\ run'[r].state \in Terminal)
          => Active(r).turn # "active" /\ run[r].attempt = cmds[pass.c].n

\* What a command says of its attempt stays true: an attempt that was recorded
\* closed is not the open attempt of its run, and one that was left to the
\* dispatcher had not been bound when it was looked at.
OutcomeIsTrue ==
    \A c \in DOMAIN cmds :
        cmds[c].outcome \in {"inactive", "retryable_failed"} =>
            \/ run[cmds[c].r].attempt # cmds[c].n
            \/ run[cmds[c].r].state \in Terminal

\* An attempt has one open command, whatever passes were aborted, repeated or
\* killed: a command that waits for the operator is not doubled by one that
\* would act (schedule_runtime_recovery).
OneOpenCommand ==
    \A r \in Runs : \A n \in DOMAIN att[r] : Cardinality(Open(r, n)) <= 1

\* A bound run whose turn died with a daemon and that no command has left to
\* the operator.
Interrupted(r) ==
    /\ run[r].state = "running" /\ Active(r).turn = "lost"
    /\ Open(r, run[r].attempt) \cap {c \in DOMAIN cmds : cmds[c].state = "manual_required"} = {}
===========================================================================
