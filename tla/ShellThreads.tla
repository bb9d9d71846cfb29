---------------------------- MODULE ShellThreads ----------------------------
(***************************************************************************)
(* The web shell's projects, threads and runs (apps/web/app/shell/          *)
(* use-control-state.ts).  Everything on screen is filled by reads that run *)
(* side by side with the operator's gestures, with commands and with the    *)
(* event poller; a read of a thread lands only if the selection generation  *)
(* it started with is still the current one.  Of a generation only that     *)
(* matters, so a call carries the flag "live" and a bump clears the flag of *)
(* every call in flight.  Control is one record: existing and archived      *)
(* threads, the runs of a thread by number, its active run, and a clock of  *)
(* commits that says how old a read is.  Titles, notices, decisions and the *)
(* engine's own projects are left out; a page of the run history holds one  *)
(* run.                                                                     *)
(***************************************************************************)
EXTENDS Naturals, FiniteSets

CONSTANTS
    Workspace, Thread,
    Owner,       \* the project of every thread
    Existing,    \* threads there are when the shell is opened
    Gestures,    \* what the operator does in this instance
    MaxGesture,  \* bound: gestures
    FirstRuns,   \* runs an existing thread has had, the last of them active
    MaxRun,      \* bound: runs of a thread
    MaxEnd,      \* bound: runs that end by themselves
    MaxFail      \* bound: answers that are lost

None == "none"
NoRun == <<None, 0>>
Gesture == {"select", "project", "open", "history", "older", "refresh", "run",
            "action", "decide", "create", "archive", "send"}

ConstantsAssumption ==
    /\ Owner \in [Thread -> Workspace] /\ None \notin Thread \cup Workspace
    /\ Existing \subseteq Thread /\ Gestures \subseteq Gesture
    /\ {FirstRuns, MaxGesture, MaxRun, MaxEnd, MaxFail} \subseteq Nat

VARIABLES
    ctl,    \* Control
    shell,  \* what is on screen and the refs that follow it; the last three
            \* fields are history: what answers without a generation put there
    calls,  \* answers the shell is waiting for
    spent   \* the budgets used

vars == <<ctl, shell, calls, spent>>

Snap(t) == [n |-> ctl.runs[t], active |-> ctl.active[t], at |-> ctl.clock]
NoSnap == [n |-> 0, active |-> 0, at |-> 0]

Call(k, id) == [k |-> k, id |-> id, pc |-> "sent", r |-> NoRun, pref |-> None, live |-> TRUE, snap |-> NoSnap]

\* The empty detail of a thread.
clearThreadDetail(s) ==
    [s EXCEPT !.msgs = {}, !.loaded = None, !.hist = {}, !.more = FALSE,
              !.sel = NoRun, !.run = NoRun, !.research = NoRun,
              !.strayMsgs = {}, !.strayRuns = {}, !.ahead = NoRun]

\* The runs of the history and the run shown beside it.
RunsOf(s) == s.hist \cup ({s.sel, s.run} \ {NoRun})

\* An answer that takes no generation puts run r on whatever screen is open.
Shown(s, r) ==
    [s EXCEPT !.run = r, !.strayRuns = IF r[1] = s.thread THEN @ ELSE @ \cup {r}]
Selected(s, r) ==
    [Shown(s, r) EXCEPT !.sel = r, !.ahead = IF r = s.research THEN @ ELSE r]

NoShell == [ws |-> None, rows |-> None, thread |-> None, loaded |-> None, msgs |-> {}, hist |-> {},
            more |-> FALSE, sel |-> NoRun, run |-> NoRun, research |-> NoRun, at |-> 0,
            pending |-> FALSE, fatal |-> FALSE, strayMsgs |-> {}, strayRuns |-> {}, ahead |-> NoRun]

\* The query names a project, a thread of it or an id that is gone.
Init ==
    /\ ctl = [threads |-> Existing, archived |-> {}, owed |-> {}, clock |-> 1,
              runs |-> [t \in Thread |-> IF t \in Existing THEN FirstRuns ELSE 0],
              active |-> [t \in Thread |-> IF t \in Existing THEN FirstRuns ELSE 0]]
    /\ shell = NoShell
    /\ \E w \in Workspace, t \in Existing \cup {None} : calls = {[Call("all", w) EXCEPT !.pref = t]}
    /\ spent = [gesture |-> 0, end |-> 0, fail |-> 0]

---------------------------------------------------------------------------
(* Reads *)

\* A new selection generation.
Bump(cs) == {[c EXCEPT !.live = @ /\ c.k \notin {"thread", "research"}] : c \in cs}

\* Mutant of loadThread: a reload takes no generation of its own.
loadThread_SameGeneration(cs, t) == cs \cup {[Call("thread", t) EXCEPT !.snap = Snap(t)]}

\* The start of loadThread: a new generation, and four reads as one.
loadThread(cs, t) == Bump(cs) \cup {[Call("thread", t) EXCEPT !.snap = Snap(t)]}

\* The start of loadWorkspace, which takes no generation.
loadWorkspace(cs, w, pref) == cs \cup {[Call("project", w) EXCEPT !.pref = pref]}

ThreadsOf(w) == {t \in ctl.threads : Owner[t] = w}

\* The thread a project is opened on: the preferred one, else any live one; a
\* preferred one that a link named and the project does not hold opens nothing.
Pick(w, pref, fromUrl) ==
    IF pref \in ThreadsOf(w) THEN {pref}
    ELSE IF (fromUrl /\ pref # None) \/ ThreadsOf(w) \subseteq ctl.archived THEN {None}
    ELSE ThreadsOf(w) \ ctl.archived

\* loadWorkspaces has answered; the project of the query is opened.
LandAll(c) ==
    /\ c.k = "all"
    /\ shell' = [shell EXCEPT !.ws = c.id, !.fatal = FALSE]
    /\ calls' = {[d EXCEPT !.pc = IF d.k = "project" /\ d.pref = c.pref THEN "url" ELSE @]
                    : d \in loadWorkspace(calls \ {c}, c.id, c.pref)}
    /\ UNCHANGED <<ctl, spent>>

\* The rest of loadWorkspace: its rows and its thread are put on screen
\* whatever was selected meanwhile.
LandWorkspace(c) ==
    /\ c.k = "project"
    /\ \E t \in Pick(c.id, c.pref, c.pc = "url") :
          LET s == [shell EXCEPT !.rows = c.id, !.thread = t, !.loaded = None,
                                 !.strayRuns = {r \in RunsOf(shell) : r[1] # t}] IN
          IF t = None
          THEN shell' = clearThreadDetail(s) /\ calls' = calls \ {c}
          ELSE shell' = s /\ calls' = loadThread(calls \ {c}, t)
    /\ UNCHANGED <<ctl, spent>>

\* The rest of loadThread: dropped when the generation has moved on or another
\* thread is open; otherwise the run to show is the active one, the one shown
\* so far, or the newest.
LandThread(c) ==
    /\ c.k = "thread"
    /\ IF ~c.live \/ shell.thread # c.id
       THEN calls' = calls \ {c} /\ UNCHANGED shell
       ELSE \E s \in {c.snap, Snap(c.id)} :
            LET t == c.id
                page == IF s.n = 0 THEN {} ELSE {<<t, s.n>>}
                next == page \cup (IF shell.sel \in shell.hist THEN {shell.sel} ELSE {})
                sel == IF s.active # 0 THEN <<t, s.active>>
                       ELSE IF shell.sel \in next THEN shell.sel
                       ELSE IF page # {} THEN <<t, s.n>> ELSE NoRun
            IN /\ shell' = [shell EXCEPT !.msgs = {t}, !.loaded = t, !.hist = next, !.more = s.n > 1, !.at = s.at,
                              !.strayMsgs = {}, !.strayRuns = @ \cap next, !.sel = sel, !.run = IF sel \in next THEN sel ELSE NoRun,
                              !.research = IF sel = @ THEN @ ELSE IF sel = shell.sel /\ sel # NoRun THEN @ ELSE NoRun]
               /\ calls' = (calls \ {c}) \cup (IF sel = NoRun THEN {} ELSE {[Call("research", t) EXCEPT !.r = sel]})
    /\ UNCHANGED <<ctl, spent>>

\* The rest of loadResearch.
LandResearch(c) ==
    /\ c.k = "research"
    /\ shell' = IF c.live /\ shell.sel = c.r THEN [shell EXCEPT !.research = c.r, !.ahead = NoRun] ELSE shell
    /\ calls' = calls \ {c}
    /\ UNCHANGED <<ctl, spent>>

\* loadOlderRuns has answered: guarded by the open thread alone.
LandOlder(c) ==
    /\ c.k = "older"
    /\ shell' = IF shell.thread = c.id
                THEN [shell EXCEPT !.hist = @ \cup {<<c.id, i>> : i \in 1..ctl.runs[c.id]}, !.more = FALSE]
                ELSE shell
    /\ calls' = calls \ {c}
    /\ UNCHANGED <<ctl, spent>>

SelectThread(cs, t) ==
    /\ shell' = [clearThreadDetail(shell) EXCEPT !.thread = t]
    /\ calls' = IF t = None THEN Bump(cs) ELSE loadThread(cs, t)

\* openThread has found out which project the thread belongs to.
LandOpen(c) ==
    /\ c.k = "open"
    /\ IF Owner[c.id] = shell.ws
       THEN SelectThread(calls \ {c}, c.id)
       ELSE /\ shell' = [clearThreadDetail(shell) EXCEPT !.ws = Owner[c.id], !.rows = None, !.thread = None]
            /\ calls' = loadWorkspace(Bump(calls \ {c}), Owner[c.id], c.id)
    /\ UNCHANGED <<ctl, spent>>

---------------------------------------------------------------------------
(* Gestures that only read *)

Does(g) ==
    /\ g \in Gestures /\ spent.gesture < MaxGesture /\ ~shell.fatal
    /\ spent' = [spent EXCEPT !.gesture = @ + 1]

selectThread(t) ==
    /\ Does("select")
    /\ shell.rows # None /\ t \in ThreadsOf(shell.rows)
    /\ SelectThread(calls, t)
    /\ UNCHANGED ctl

selectWorkspace(w) ==
    /\ Does("project") /\ shell.ws # None
    /\ shell' = [clearThreadDetail(shell) EXCEPT !.ws = w, !.rows = None, !.thread = None]
    /\ calls' = loadWorkspace(Bump(calls), w, None)
    /\ UNCHANGED ctl

openThread(t) ==
    /\ Does("open") /\ shell.ws # None /\ t \in ctl.threads
    /\ calls' = calls \cup {Call("open", t)}
    /\ UNCHANGED <<ctl, shell>>

selectRun(r) ==
    /\ Does("history")
    /\ r \in shell.hist /\ r # shell.sel
    /\ shell' = [shell EXCEPT !.sel = r, !.run = r, !.research = NoRun]
    /\ calls' = Bump(calls) \cup {[Call("research", shell.thread) EXCEPT !.r = r]}
    /\ UNCHANGED ctl

loadOlderRuns ==
    /\ Does("older")
    /\ shell.thread # None /\ shell.more
    /\ calls' = calls \cup {Call("older", shell.thread)}
    /\ UNCHANGED <<ctl, shell>>

refreshThread ==
    /\ Does("refresh")
    /\ shell.thread # None
    /\ calls' = loadThread(calls, shell.thread)
    /\ UNCHANGED <<ctl, shell>>

\* retry, offered when the projects could not be read.
retry ==
    /\ shell.fatal /\ ~(\E c \in calls : c.k = "all")
    /\ \E w \in Workspace : calls' = calls \cup {Call("all", w)}
    /\ UNCHANGED <<ctl, shell, spent>>

---------------------------------------------------------------------------
(* Commands *)

\* A command of runPrepared is prepared from what is on screen.
Send(cs, c) == cs \cup {c}

createRun ==
    /\ Does("run") /\ ~shell.pending /\ shell.thread # None
    /\ calls' = Send(calls, Call("run", shell.thread))
    /\ shell' = [shell EXCEPT !.pending = TRUE] /\ UNCHANGED ctl

runAction ==
    /\ Does("action") /\ ~shell.pending /\ shell.thread # None /\ shell.run # NoRun
    /\ calls' = Send(calls, [Call("action", shell.thread) EXCEPT !.r = shell.run])
    /\ shell' = [shell EXCEPT !.pending = TRUE] /\ UNCHANGED ctl

resolveDecision ==
    /\ Does("decide") /\ ~shell.pending /\ shell.thread # None /\ shell.run # NoRun
    /\ calls' = Send(calls, [Call("decide", shell.thread) EXCEPT !.r = shell.run])
    /\ shell' = [shell EXCEPT !.pending = TRUE] /\ UNCHANGED ctl

createThread ==
    /\ Does("create") /\ shell.ws # None
    /\ \E t \in Thread \ ctl.threads :
          Owner[t] = shell.ws /\ calls' = Send(calls, [Call("create", shell.ws) EXCEPT !.pref = t])
    /\ shell' = [shell EXCEPT !.pending = TRUE] /\ UNCHANGED ctl

archiveThread(t) ==
    /\ Does("archive") /\ shell.rows # None /\ t \in ThreadsOf(shell.rows) \ ctl.archived
    /\ calls' = Send(calls, Call("archive", t))
    /\ shell' = [shell EXCEPT !.pending = TRUE] /\ UNCHANGED ctl

\* The composer: append a message, read the thread again, create a run.
onNew ==
    /\ Does("send") /\ ~shell.pending
    /\ shell.thread # None /\ shell.thread \notin ctl.archived
    /\ ~\E c \in calls : c.k = "send"
    /\ calls' = Send(calls, Call("send", shell.thread))
    /\ UNCHANGED <<ctl, shell>>

\* Control executes a command; one that does not fit the thread is refused.
NewRun(t) ==
    [ctl EXCEPT !.runs[t] = @ + 1, !.active[t] = ctl.runs[t] + 1, !.clock = @ + 1,
                !.owed = @ \cup {<<t, ctl.runs[t] + 1>>}]

MayRun(t) == ctl.active[t] = 0 /\ ctl.runs[t] < MaxRun

Executed(c, ok) ==
    CASE ~ok -> ctl
      [] c.k = "run" \/ c.pc = "start" -> NewRun(c.id)
      [] c.k \in {"action", "decide"} -> [ctl EXCEPT !.clock = @ + 1, !.owed = @ \cup {c.r},
                                                     !.active[c.r[1]] = IF @ = c.r[2] THEN 0 ELSE @]
      [] c.k = "create" -> [ctl EXCEPT !.threads = @ \cup {c.pref}, !.clock = @ + 1]
      [] c.k = "archive" -> [ctl EXCEPT !.archived = @ \cup {c.id}, !.clock = @ + 1]
      [] OTHER -> [ctl EXCEPT !.clock = @ + 1]

Fits(c) ==
    /\ c.k = "run" \/ c.pc = "start" => MayRun(c.id)
    /\ c.k = "archive" => ctl.active[c.id] = 0
    /\ c.k \in {"run", "send"} => c.id \notin ctl.archived

Execute(c) ==
    /\ c.k \in {"run", "action", "decide", "create", "archive", "send"} /\ c.pc \in {"sent", "start"}
    /\ \E ok \in BOOLEAN :
          /\ ok => Fits(c)
          /\ ~ok => ~Fits(c) \/ spent.fail < MaxFail
          /\ ctl' = Executed(c, ok)
          /\ calls' = (calls \ {c}) \cup
                {[c EXCEPT !.pc = IF ~ok THEN "refused" ELSE IF c.pc = "start" THEN "started" ELSE "done",
                           !.r = IF ok /\ (c.k = "run" \/ c.pc = "start") THEN <<c.id, ctl.runs[c.id] + 1>> ELSE @]}
    /\ UNCHANGED <<shell, spent>>

\* A revision conflict reads the open thread again, or the project.
Reloaded(cs) ==
    IF shell.thread # None THEN loadThread(cs, shell.thread)
    ELSE IF shell.ws # None THEN loadWorkspace(cs, shell.ws, None) ELSE cs

\* The answer of a command of runPrepared or runRowCommand.  What follows a
\* success acts on the thread the command was sent for.
LandCommand(c) ==
    /\ c.k \in {"run", "action", "decide", "create", "archive"} /\ c.pc \in {"done", "refused"}
    /\ LET s == [shell EXCEPT !.pending = FALSE]
           cs == calls \ {c}
       IN CASE c.pc = "refused" ->
                 /\ shell' = s
                 /\ calls' \in {cs} \cup (IF c.k = "archive" THEN {} ELSE {Reloaded(cs)})
            [] c.k = "run" -> shell' = Selected(s, c.r) /\ calls' = loadThread(cs, c.id)
            [] c.k = "action" -> shell' = Shown(s, c.r) /\ calls' = loadThread(cs, c.id)
            [] c.k = "decide" -> shell' = s /\ calls' = loadThread(cs, c.id)
            [] c.k = "create" -> shell' = s /\ calls' = loadWorkspace(cs, c.id, c.pref)
            [] shell.thread = c.id ->
                 shell' = [clearThreadDetail(s) EXCEPT !.thread = None] /\ calls' = Bump(cs)
            [] OTHER -> shell' = s /\ calls' = cs
    /\ UNCHANGED <<ctl, spent>>

\* messageCommitted: the message joins the list on screen; the thread is read
\* again and, unless it has a run, one is asked for.
MessageCommitted(c) ==
    /\ c.k = "send" /\ c.pc = "done"
    /\ shell' = IF shell.thread = None THEN shell
                ELSE [shell EXCEPT !.msgs = @ \cup {c.id},
                                   !.strayMsgs = @ \cup ({c.id} \ {shell.thread})]
    /\ calls' = (calls \ {c}) \cup (IF ctl.active[c.id] # 0 THEN {} ELSE {[c EXCEPT !.pc = "start"]})
    /\ UNCHANGED <<ctl, spent>>

\* runCreated: the run is selected and the open thread is read again.
RunCreated(c) ==
    /\ c.k = "send" /\ c.pc = "started"
    /\ shell' = Selected(shell, c.r)
    /\ calls' = IF shell.thread = None THEN calls \ {c} ELSE loadThread(calls \ {c}, shell.thread)
    /\ UNCHANGED <<ctl, spent>>

TurnRefused(c) ==
    /\ c.k = "send" /\ c.pc = "refused"
    /\ calls' = calls \ {c}
    /\ UNCHANGED <<ctl, shell, spent>>

\* An answer does not arrive; of the projects' it ends in the unavailable state.
Lose(c) ==
    /\ spent.fail < MaxFail
    /\ spent' = [spent EXCEPT !.fail = @ + 1]
    /\ shell' = [shell EXCEPT !.fatal = @ \/ c.k = "all",
                              !.pending = @ /\ c.k \notin {"run", "action", "decide", "create", "archive"}]
    /\ calls' = calls \ {c}
    /\ UNCHANGED ctl

---------------------------------------------------------------------------
(* Runs and the event lane *)

RunEnds(t) ==
    /\ spent.end < MaxEnd /\ ctl.active[t] # 0
    /\ ctl' = [ctl EXCEPT !.active[t] = 0, !.clock = @ + 1, !.owed = @ \cup {<<t, ctl.active[t]>>}]
    /\ spent' = [spent EXCEPT !.end = @ + 1]
    /\ UNCHANGED <<shell, calls>>

\* onEvents: an event of a run that the open thread's list holds reads the
\* thread again.
onEvents ==
    /\ ctl.owed # {}
    /\ ctl' = [ctl EXCEPT !.owed = {}]
    /\ calls' = IF shell.thread # None /\ ctl.owed \cap shell.hist # {}
                THEN loadThread(calls, shell.thread) ELSE calls
    /\ UNCHANGED <<shell, spent>>

---------------------------------------------------------------------------

Land(c) ==
    \/ LandAll(c) \/ LandWorkspace(c) \/ LandThread(c) \/ LandResearch(c) \/ LandOlder(c) \/ LandOpen(c)
    \/ Execute(c) \/ LandCommand(c) \/ MessageCommitted(c) \/ RunCreated(c) \/ TurnRefused(c)

Landing == \E c \in calls : Land(c)

Next ==
    \/ Landing \/ \E c \in calls : Lose(c)
    \/ \E t \in Thread : selectThread(t) \/ openThread(t) \/ archiveThread(t) \/ RunEnds(t)
    \/ \E w \in Workspace : selectWorkspace(w)
    \/ \E r \in shell.hist : selectRun(r)
    \/ loadOlderRuns \/ refreshThread \/ retry \/ onEvents
    \/ createRun \/ runAction \/ resolveDecision \/ createThread \/ onNew

Spec == Init /\ [][Next]_vars

\* Requests are answered and the poller polls.
FairSpec == Spec /\ WF_vars(Landing) /\ WF_vars(onEvents)

---------------------------------------------------------------------------
(* Properties *)

\* The shell keeps its shape: what is loaded is what is open, and nothing is
\* open before a project is (the sidebar and the main region).
TypeOK ==
    /\ shell.ws \in Workspace \cup {None} /\ shell.thread \in Thread \cup {None}
    /\ shell.loaded \in {None, shell.thread}
    /\ shell.ws = None => shell.thread = None /\ shell.rows = None
    /\ \A c \in calls : c.k = "thread" => c.snap.at <= ctl.clock

\* While a thread stays open, what is on screen is never replaced by an older
\* read of it, however reloads, events and commands overlap (the selection
\* generation of loadThread).
ScreenMovesForward ==
    shell.loaded # None /\ shell'.loaded = shell.loaded => shell'.at >= shell.at

\* The messages on screen are messages of the open thread, but for one sent
\* in a thread the operator has left: it stays until the open one is read
\* again (messageCommitted).
MessagesAreOpen ==
    shell.loaded # None =>
        shell.thread \in shell.msgs /\ shell.msgs \subseteq {shell.thread} \cup shell.strayMsgs

\* The runs of the history, the run that is shown and the projection beside it
\* are the open thread's, and the projection is of the selected run.  Only an
\* answer that takes no generation breaks this: a command's, by the run it
\* shows on another thread or selects ahead of its projection, and that of
\* loadWorkspace, which opens a thread over the detail of the one before.
RunsAreOpen ==
    shell.loaded # None =>
        /\ \A r \in RunsOf(shell) : r[1] = shell.thread \/ r \in shell.strayRuns
        /\ shell.research \in {NoRun, shell.sel} \/ shell.sel = shell.ahead

\* A thread that is open is loaded, unless another one is opened.
OpenThreadLoads ==
    \A t \in Thread : (shell.thread = t) ~> (shell.thread # t \/ shell.loaded = t)
=============================================================================
