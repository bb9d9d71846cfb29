--------------------------- MODULE MCRunLifecycle ---------------------------
(***************************************************************************)
(* RunLifecycle on small instances.  One model holds two runs, two         *)
(* attempts, two actions, two dispatchers and a crash; a behaviour is in   *)
(* one part, which leaves some of them out, and TLC explores the sum of    *)
(* the parts.                                                              *)
(***************************************************************************)
EXTENDS RunLifecycle, FiniteSets, TLC

CONSTANT First      \* the dispatcher of the parts that have one

VARIABLE part

Symmetry == Permutations(Runs) \cup Permutations(Actions)

OneRun == Cardinality({r \in Runs : run[r].state # "absent"}) <= 1
OneAction == Cardinality({x \in Actions : act[x].st # "absent"}) <= 1
OneAttempt == \A a \in Attempts \ {1} : att[a].state = "absent"
OneDispatcher == \A w \in Dispatchers \ {First} : disp[w] = Idle
NoCheckpoint ==
    \A a \in Attempts : att[a].state # "paused" /\ ~att[a].ckpt
NoCrash == crashes = 0

\* daemon: one run over a crash.  actions: two operator actions on an attempt.
\* dispatchers: two dispatches of one attempt.  runs: two runs of the thread.
\* checkpoints: a run that pauses and resumes.
Parts == {"daemon", "actions", "dispatchers", "runs", "checkpoints"}

Within ==
    /\ part # "runs" => OneRun
    /\ part # "checkpoints" => NoCheckpoint
    /\ part # "dispatchers" => OneDispatcher
    /\ part \in {"actions", "dispatchers"} => OneAttempt
    /\ part \notin {"actions", "dispatchers"} => OneAction
    /\ part \notin {"daemon", "dispatchers"} => NoCrash

PartInit == Init /\ part \in Parts

PartNext == Next /\ UNCHANGED part /\ Within'

PartSpec == PartInit /\ [][PartNext]_<<vars, part>>

\* The updater pins are neither missing nor lost: a bound attempt that has not
\* ended holds its pin, and while a single daemon dispatches whoever holds one
\* can still bind, or is bound and has not ended, or a release row owes it back
\* (reserve_attempt_dispatch, insert_pin_release, release_pins).  With a second
\* dispatcher a lease can expire between the reservation and the pin.
PinsHold ==
    /\ BoundIsPinned
    /\ part # "dispatchers" => PinIsOwed
=============================================================================
