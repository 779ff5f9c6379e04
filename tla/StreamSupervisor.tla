------------------------- MODULE StreamSupervisor -------------------------
(***************************************************************************)
(* The worker's StreamSupervisorService                                    *)
(* (backend/src/worker/stream-supervisor.service.ts): the commands it      *)
(* receives, the FFmpeg children it owns, the timers it arms, and the two  *)
(* database rows a channel has (channels.status, stream_processes.state).  *)
(*                                                                         *)
(* Node runs one callback at a time, so the code between two awaits is one *)
(* action here and every await is a point where any other callback may     *)
(* run.  A suspended coroutine is a job: `pc' names the await it is        *)
(* suspended at.  A backoff timer is the job that armed it, at "backoff".  *)
(***************************************************************************)
EXTENDS Naturals

CONSTANTS
    Channels,     \* channel ids
    Procs,        \* handles for FFmpeg children; one is reused when forgotten
    Jobs,         \* coroutine slots: the bound on callbacks in flight
    None,         \* no channel, process, row or state
    AutoStart,    \* channels with auto_start = true
    AutoRestart,  \* channels with auto_restart = true
    RestartMax,   \* restart_max of every channel; 0 is "no limit"
    CountCap,     \* bound: a restart counter saturates here
    Serial,       \* TRUE: commands, stalls and shutdowns meet settled channels
    Events        \* which events of the environment happen

StreamState == {"stopped", "starting", "running", "restarting", "crashed", "error"}

ASSUME ConstantsAssumption ==
    /\ None \notin Channels /\ None \notin Procs /\ None \notin StreamState
    /\ AutoStart \subseteq Channels /\ AutoRestart \subseteq Channels
    /\ RestartMax \in Nat /\ CountCap \in Nat /\ RestartMax <= CountCap
    /\ Serial \in BOOLEAN
    /\ Events \subseteq {"exit", "quickExit", "stall", "badBuild", "badSpawn",
                         "crash", "shutdown", "remove"}

VARIABLES
    channelRow,   \* channelRow[c]: the channels row of c exists
    status,       \* status[c]: channels.status
    processState, \* processState[c]: stream_processes.state, None if no row
    removing,     \* DELETE requests past their status check
    worker,       \* the worker process
    bootQueue,    \* channels onApplicationBootstrap has still to start
    streams,      \* the streams Map: the ManagedStream of a channel
    osState,      \* osState[p]: what the operating system knows of child p
    chanOf,       \* chanOf[p]: ManagedStream.channelId
    manual,       \* manual[p]: ManagedStream.manualStop
    count,        \* count[p]: ManagedStream.restartCount
    killTimer,    \* killTimer[p]: the channel the 8 s escalation timer of p checks
    job,          \* the coroutines in flight
    overlapped,   \* history: channels of which two start() overlapped since the boot
    autoRuns,     \* history: automatic restarts of c since it was asked to run
    split,        \* history: channels whose last updateState met another one, was cut
                  \* off between its writes, or was followed by a write of the status alone
    servedAtDown  \* history: channels the worker was serving when it went down

dbVars   == <<channelRow, status, processState, removing>>
bootVars == <<worker, bootQueue, servedAtDown>>
procVars == <<osState, chanOf, manual, count, killTimer>>
histVars == <<overlapped, autoRuns, split>>
vars     == <<dbVars, bootVars, streams, procVars, job, histVars>>

Live    == {"running", "terminating", "killed"}
OsState == Live \cup {"none", "exited", "failed"}

Pc   == {"idle", "load", "build", "prev", "findRow", "saveRow", "saveStatus",
         "setCount", "exitFind", "backoff", "watchKill"}
Kind == {"start", "restart", "restartStop", "boot", "auto", "stop", "exit",
         "fail", "giveUp", "watchdog"}

Job == [pc : Pc, kind : Kind \cup {None}, chan : Channels \cup {None},
        proc : Procs \cup {None}, target : StreamState \cup {None},
        cnt : 0..CountCap, found : BOOLEAN]

MkJob(pc, kind, c, p, target, n) ==
    [pc |-> pc, kind |-> kind, chan |-> c, proc |-> p, target |-> target,
     cnt |-> n, found |-> FALSE]

IdleJob == MkJob("idle", None, None, None, None, 0)

\* A job in flight works for a channel; in updateState it knows the state to write,
\* between an event of a child and its effect it knows the child.
Writes(r) == r.pc \in {"findRow", "saveRow", "saveStatus"}

JobOK(r) == /\ r.pc # "idle" => r.chan \in Channels
            /\ Writes(r) => r.target # None
            /\ r.pc \in {"prev", "exitFind", "watchKill"} => r.proc # None

TypeOK ==
    /\ channelRow \in [Channels -> BOOLEAN]
    /\ status \in [Channels -> StreamState]
    /\ processState \in [Channels -> StreamState \cup {None}]
    /\ removing \subseteq Channels
    /\ worker \in {"down", "booting", "up", "closing"}
    /\ bootQueue \subseteq Channels
    /\ streams \in [Channels -> Procs \cup {None}]
    /\ osState \in [Procs -> OsState]
    /\ chanOf \in [Procs -> Channels \cup {None}]
    /\ \A p \in Procs : osState[p] # "none" => chanOf[p] # None
    /\ manual \in [Procs -> BOOLEAN]
    /\ count \in [Procs -> 0..CountCap]
    /\ killTimer \in [Procs -> Channels \cup {None}]
    /\ job \in [Jobs -> Job]
    /\ \A j \in Jobs : JobOK(job[j])
    /\ overlapped \subseteq Channels
    /\ autoRuns \in [Channels -> 0..(CountCap + 1)]
    /\ split \subseteq Channels
    /\ servedAtDown \subseteq Channels

----------------------------------------------------------------------------
(* What the code can tell of the state.                                    *)

Idle(j) == job[j].pc = "idle"

\* A start() of c is past its streams.has check and before streams.set.
Starting(j, c) == job[j].chan = c /\ job[j].pc \in {"load", "build", "prev"}

\* A child is spawned but its listeners are not attached yet.
Unheard(p) == \E j \in Jobs : job[j].pc = "prev" /\ job[j].proc = p

Referenced(p) == \/ killTimer[p] # None
                 \/ \E c \in Channels : streams[c] = p
                 \/ \E j \in Jobs : job[j].proc = p

Free(p) == osState[p] = "none" /\ ~Referenced(p)

\* Nothing of c is in flight in the worker.
Settled(c) ==
    /\ \A j \in Jobs : job[j].chan # c
    /\ \A p \in Procs : chanOf[p] = c =>
                            osState[p] \notin {"terminating", "killed", "exited"}

\* The worker is up and has nothing in flight, or to start, for c.
AtRest(c) == worker = "up" /\ c \notin bootQueue /\ Settled(c)

\* When a client sends a command for c: at any time, or once c has settled.
ClientReady(c) == Serial => AtRest(c)

Saturate(n) == IF n < CountCap THEN n + 1 ELSE n

\* A restart of c is decided and has not registered a child yet.
Retrying(j, c) ==
    /\ job[j].chan = c
    /\ \/ job[j].kind = "exit" /\ job[j].target = "restarting"
       \/ job[j].kind = "auto" /\ job[j].pc \in {"load", "build"}

\* onExit(p) of c has begun and has not decided yet.
Ending(j, c) == job[j].chan = c /\ job[j].pc = "exitFind"

PhaseOf(c) ==
    IF streams[c] # None THEN IF manual[streams[c]] THEN "stopping" ELSE "up"
    ELSE IF \E j \in Jobs : Ending(j, c)
         THEN IF \E j \in Jobs : Ending(j, c) /\ manual[job[j].proc] THEN "stopping" ELSE "ending"
    ELSE IF \E j \in Jobs : Retrying(j, c) THEN "retrying"
    ELSE "down"

\* A start or restart a client asked for has not written 'running' yet.
AskedFor(c) == \E j \in Jobs : job[j].chan = c /\ job[j].kind \in {"start", "restart"}

\* The worker owes c a child: the bootstrap has still to start c or is starting it, or c
\* has a child nobody asked to stop, or one that ended and whose restart is not given up.
Serves(c) ==
    \/ c \in bootQueue
    \/ \E j \in Jobs : job[j].chan = c /\ job[j].kind = "boot"
    \/ ~AskedFor(c) /\ PhaseOf(c) \in {"up", "ending", "retrying"}

ServedNow == {c \in Channels : Serves(c)}

\* Channels with an updateState between its two writes.
HalfWritten == {job[j].chan : j \in {k \in Jobs : job[k].pc = "saveStatus"}}

----------------------------------------------------------------------------
Init ==
    /\ channelRow = [c \in Channels |-> TRUE]
    /\ status = [c \in Channels |-> "stopped"]
    /\ processState = [c \in Channels |-> None]
    /\ removing = {}
    /\ worker = "down"
    /\ bootQueue = {}
    /\ streams = [c \in Channels |-> None]
    /\ osState = [p \in Procs |-> "none"]
    /\ chanOf = [p \in Procs |-> None]
    /\ manual = [p \in Procs |-> FALSE]
    /\ count = [p \in Procs |-> 0]
    /\ killTimer = [p \in Procs |-> None]
    /\ job = [j \in Jobs |-> IdleJob]
    /\ overlapped = {}
    /\ autoRuns = [c \in Channels |-> 0]
    /\ split = {}
    /\ servedAtDown = {}

Suspend(j, next) == job' = [job EXCEPT ![j] = next]

(***************************************************************************)
(* The end of the worker: its container goes with it, so the children die  *)
(* too and only the database remains.                                      *)
(***************************************************************************)
WorkerGone ==
    /\ worker' = "down"
    /\ bootQueue' = {}
    /\ streams' = [c \in Channels |-> None]
    /\ osState' = [p \in Procs |-> "none"]
    /\ chanOf' = [p \in Procs |-> None]
    /\ manual' = [p \in Procs |-> FALSE]
    /\ count' = [p \in Procs |-> 0]
    /\ killTimer' = [p \in Procs |-> None]
    /\ job' = [j \in Jobs |-> IdleJob]
    /\ overlapped' = {}
    /\ autoRuns' = [c \in Channels |-> 0]
    /\ split' = split \cup HalfWritten
    /\ servedAtDown' = servedAtDown \cup ServedNow

----------------------------------------------------------------------------
(* start(): the check, the reads, the spawn, the registration.             *)

\* Mutant of BeginStart: start() without its streams.has check.
BeginStartUnchecked(j, c, kind, n) ==
    /\ Suspend(j, MkJob("load", kind, c, None, None, n))
    /\ overlapped' = IF \E k \in Jobs : Starting(k, c)
                     THEN overlapped \cup {c} ELSE overlapped

\* The synchronous prefix of start(): job j takes up a start of channel c.
BeginStart(j, c, kind, n) ==
    IF streams[c] # None
    THEN UNCHANGED <<job, overlapped>>
    ELSE /\ Suspend(j, MkJob("load", kind, c, None, None, n))
         /\ overlapped' = IF \E k \in Jobs : Starting(k, c)
                          THEN overlapped \cup {c} ELSE overlapped

\* What the caller of start() does with an exception.
Throw(j) ==
    LET c == job[j].chan
    IN  CASE job[j].kind \in {"start", "restart"} ->
               Suspend(j, MkJob("findRow", "fail", c, None, "error", 0))
          [] job[j].kind = "auto" ->
               Suspend(j, MkJob("findRow", "giveUp", c, None, "crashed", 0))
          [] OTHER -> Suspend(j, IdleJob)

\* channels.findOne returns.
Load(j) ==
    /\ job[j].pc = "load"
    /\ IF channelRow[job[j].chan]
       THEN Suspend(j, [job[j] EXCEPT !.pc = "build"])
       ELSE Throw(j)
    /\ UNCHANGED <<dbVars, bootVars, streams, procVars, histVars>>

\* The YouTube address, the settings or the concat file: an empty playlist throws.
BuildFails(j) ==
    /\ "badBuild" \in Events
    /\ job[j].pc = "build"
    /\ Throw(j)
    /\ UNCHANGED <<dbVars, bootVars, streams, procVars, histVars>>

\* streams.set and the listeners, then updateState(c, 'running').
Register(j, c, p) ==
    /\ streams' = [streams EXCEPT ![c] = p]
    /\ manual' = [manual EXCEPT ![p] = FALSE]
    /\ count' = [count EXCEPT ![p] = 0]
    /\ autoRuns' = [autoRuns EXCEPT ![c] =
                        IF job[j].kind # "auto" THEN 0
                        ELSE IF @ <= CountCap THEN @ + 1 ELSE @]
    /\ Suspend(j, MkJob("findRow", job[j].kind, c, None, "running", job[j].cnt))

\* spawn(); with keepRestartCount one more await comes before the registration.
Spawn(j, p) ==
    LET c == job[j].chan
    IN  /\ job[j].pc = "build"
        /\ Free(p)
        /\ osState' = [osState EXCEPT ![p] = "running"]
        /\ chanOf' = [chanOf EXCEPT ![p] = c]
        /\ IF job[j].kind = "restart"
           THEN /\ Suspend(j, [job[j] EXCEPT !.pc = "prev", !.proc = p])
                /\ UNCHANGED <<streams, manual, count, autoRuns>>
           ELSE Register(j, c, p)
        /\ UNCHANGED <<dbVars, bootVars, killTimer, overlapped, split>>

\* The binary cannot be executed: the child only ever emits 'error'.
SpawnFails(j, p) ==
    LET c == job[j].chan
    IN  /\ "badSpawn" \in Events
        /\ job[j].pc = "build"
        /\ Free(p)
        /\ IF job[j].kind = "restart"
           THEN WorkerGone
           ELSE /\ osState' = [osState EXCEPT ![p] = "failed"]
                /\ chanOf' = [chanOf EXCEPT ![p] = c]
                /\ Register(j, c, p)
                /\ UNCHANGED <<bootVars, killTimer, overlapped, split>>
        /\ UNCHANGED dbVars

\* processes.findOne returns and the start goes on.
RegisterKept(j) ==
    /\ job[j].pc = "prev"
    /\ Register(j, job[j].chan, job[j].proc)
    /\ UNCHANGED <<dbVars, bootVars, osState, chanOf, killTimer, overlapped, split>>

\* startWithCount after its start() returned: whatever entry the channel has now.
NoteCount(c, n) ==
    count' = IF streams[c] = None THEN count
             ELSE [count EXCEPT ![streams[c]] = n]

\* Mutant of SetCount: the count of the restart is not carried over.
SetCountForgotten(j) ==
    /\ job[j].pc = "setCount"
    /\ Suspend(j, IdleJob)
    /\ UNCHANGED <<dbVars, bootVars, streams, procVars, histVars>>

SetCount(j) ==
    /\ job[j].pc = "setCount"
    /\ NoteCount(job[j].chan, job[j].cnt)
    /\ Suspend(j, IdleJob)
    /\ UNCHANGED <<dbVars, bootVars, streams, osState, chanOf, manual, killTimer,
                   histVars>>

\* The backoff timer fires: startWithCount.
BackoffFires(j) ==
    LET c == job[j].chan
    IN  /\ job[j].pc = "backoff"
        /\ IF streams[c] = None
           THEN BeginStart(j, c, "auto", job[j].cnt) /\ UNCHANGED count
           ELSE /\ NoteCount(c, job[j].cnt)
                /\ Suspend(j, IdleJob)
                /\ UNCHANGED overlapped
        /\ UNCHANGED <<dbVars, bootVars, streams, osState, chanOf, manual,
                       killTimer, autoRuns, split>>

----------------------------------------------------------------------------
(* updateState(): find the process row, save it, then update the channel.  *)

\* The restart command after its stop(): start(keepRestartCount).
RestartAfterStop(j) ==
    IF streams[job[j].chan] # None
    THEN Suspend(j, IdleJob) /\ UNCHANGED overlapped
    ELSE BeginStart(j, job[j].chan, "restart", 0)

FindRow(j) ==
    /\ job[j].pc = "findRow"
    /\ Suspend(j, [job[j] EXCEPT !.pc = "saveRow",
                                 !.found = processState[job[j].chan] # None])
    /\ UNCHANGED <<dbVars, bootVars, streams, procVars, histVars>>

\* The foreign key needs the channel, the unique index forbids a second insert.
RowWritable(j) ==
    /\ channelRow[job[j].chan]
    /\ job[j].found \/ processState[job[j].chan] = None

SaveRow(j) ==
    /\ job[j].pc = "saveRow"
    /\ RowWritable(j)
    /\ processState' = [processState EXCEPT ![job[j].chan] = job[j].target]
    /\ Suspend(j, [job[j] EXCEPT !.pc = "saveStatus"])
    /\ split' = IF job[j].chan \in HalfWritten THEN split \cup {job[j].chan}
                                               ELSE split \ {job[j].chan}
    /\ UNCHANGED <<channelRow, status, removing, bootVars, streams, procVars, overlapped,
                   autoRuns>>

\* save() throws.  onExit and the last updateState of startWithCount run
\* unawaited: their rejection ends the worker.
SaveRowFails(j) ==
    /\ job[j].pc = "saveRow"
    /\ ~RowWritable(j)
    /\ CASE job[j].kind \in {"exit", "giveUp"} -> WorkerGone
         [] job[j].kind = "restartStop" ->
               /\ RestartAfterStop(j)
               /\ UNCHANGED <<bootVars, streams, procVars, autoRuns, split>>
         [] OTHER ->
               /\ Throw(j)
               /\ UNCHANGED <<bootVars, streams, procVars, histVars>>
    /\ UNCHANGED dbVars

\* Mutant of AfterUpdate: the backoff timer is not armed.
AfterUpdateNoTimer(j) ==
    CASE job[j].kind = "auto" ->
           Suspend(j, [job[j] EXCEPT !.pc = "setCount"]) /\ UNCHANGED overlapped
      [] job[j].kind = "restartStop" -> RestartAfterStop(j)
      [] OTHER -> Suspend(j, IdleJob) /\ UNCHANGED overlapped

\* What follows the updateState() of job j.
AfterUpdate(j) ==
    CASE job[j].kind = "auto" ->
           Suspend(j, [job[j] EXCEPT !.pc = "setCount"]) /\ UNCHANGED overlapped
      [] job[j].kind = "exit" /\ job[j].target = "restarting" ->
           Suspend(j, [job[j] EXCEPT !.pc = "backoff"]) /\ UNCHANGED overlapped
      [] job[j].kind = "restartStop" -> RestartAfterStop(j)
      [] OTHER -> Suspend(j, IdleJob) /\ UNCHANGED overlapped

\* Mutant of SaveStatus: the channel keeps its status when a start fails.
SaveStatusNotOnError(j) ==
    /\ job[j].pc = "saveStatus"
    /\ status' = IF channelRow[job[j].chan] /\ job[j].target # "error"
                 THEN [status EXCEPT ![job[j].chan] = job[j].target]
                 ELSE status
    /\ AfterUpdate(j)
    /\ UNCHANGED <<channelRow, processState, removing, bootVars, streams, procVars,
                   autoRuns, split>>

\* Mutant of SaveStatus: a channel that waits for its restart is shown as crashed.
SaveStatusCrashed(j) ==
    /\ job[j].pc = "saveStatus"
    /\ status' = IF ~channelRow[job[j].chan] THEN status
                 ELSE [status EXCEPT ![job[j].chan] =
                          IF job[j].target = "restarting" THEN "crashed" ELSE job[j].target]
    /\ AfterUpdate(j)
    /\ UNCHANGED <<channelRow, processState, removing, bootVars, streams, procVars,
                   autoRuns, split>>

SaveStatus(j) ==
    /\ job[j].pc = "saveStatus"
    /\ status' = IF channelRow[job[j].chan]
                 THEN [status EXCEPT ![job[j].chan] = job[j].target]
                 ELSE status
    /\ AfterUpdate(j)
    /\ UNCHANGED <<channelRow, processState, removing, bootVars, streams, procVars,
                   autoRuns, split>>

----------------------------------------------------------------------------
(* handleCommand: the messages of mcp:cmd.                                 *)

ReceiveStart(c) ==
    /\ worker # "down"
    /\ \E j \in Jobs : Idle(j) /\ BeginStart(j, c, "start", 0)
    /\ UNCHANGED <<dbVars, bootVars, streams, procVars, autoRuns, split>>

\* Mutant of Terminate: no escalation to SIGKILL.
TerminateOnce(c, p, force) ==
    /\ manual' = [manual EXCEPT ![p] = TRUE]
    /\ osState' = [osState EXCEPT ![p] =
                      IF @ \notin Live THEN @
                      ELSE IF force THEN "killed"
                      ELSE IF @ = "running" THEN "terminating" ELSE @]
    /\ UNCHANGED killTimer

\* The part of stop() on a managed child.
Terminate(c, p, force) ==
    /\ manual' = [manual EXCEPT ![p] = TRUE]
    /\ osState' = [osState EXCEPT ![p] =
                      IF @ \notin Live THEN @
                      ELSE IF force THEN "killed"
                      ELSE IF @ = "running" THEN "terminating" ELSE @]
    /\ killTimer' = IF force THEN killTimer ELSE [killTimer EXCEPT ![p] = c]

ReceiveStop(c, force) ==
    /\ worker # "down"
    /\ IF streams[c] # None
       THEN Terminate(c, streams[c], force) /\ UNCHANGED job
       ELSE /\ \E j \in Jobs :
                  Idle(j) /\ Suspend(j, MkJob("findRow", "stop", c, None, "stopped", 0))
            /\ UNCHANGED <<manual, osState, killTimer>>
    /\ UNCHANGED <<dbVars, bootVars, streams, chanOf, count, histVars>>

\* stop() of a managed child returns at once, and start() finds its entry.
ReceiveRestart(c) ==
    /\ worker # "down"
    /\ IF streams[c] # None
       THEN Terminate(c, streams[c], FALSE) /\ UNCHANGED job
       ELSE /\ \E j \in Jobs :
                  Idle(j) /\ Suspend(j, MkJob("findRow", "restartStop", c, None, "stopped", 0))
            /\ UNCHANGED <<manual, osState, killTimer>>
    /\ UNCHANGED <<dbVars, bootVars, streams, chanOf, count, histVars>>

----------------------------------------------------------------------------
(* The children: exits, the escalation timer, the watchdog.                *)

\* Child p ends.  Without listeners its exit event is lost.
ProcExit(p) ==
    /\ \/ osState[p] \in {"terminating", "killed"}
       \/ /\ osState[p] = "running"
          /\ \/ "quickExit" \in Events
             \/ "exit" \in Events /\ Settled(chanOf[p])
    /\ osState' = [osState EXCEPT ![p] = IF Unheard(p) THEN "none" ELSE "exited"]
    /\ UNCHANGED <<dbVars, bootVars, streams, chanOf, manual, count, killTimer, job,
                   histVars>>

\* Mutant of OnExit: the entry stays in the map.
OnExitKeepsEntry(p) ==
    LET c == chanOf[p]
    IN  /\ osState[p] = "exited"
        /\ osState' = [osState EXCEPT ![p] = "none"]
        /\ chanOf' = [chanOf EXCEPT ![p] = None]
        /\ killTimer' = [killTimer EXCEPT ![p] = None]
        /\ \E j \in Jobs : Idle(j) /\ Suspend(j, MkJob("exitFind", "exit", c, p, None, 0))
        /\ UNCHANGED <<dbVars, bootVars, streams, manual, count, histVars>>

\* onExit, up to its first await.
OnExit(p) ==
    LET c == chanOf[p]
    IN  /\ osState[p] = "exited"
        /\ osState' = [osState EXCEPT ![p] = "none"]
        /\ chanOf' = [chanOf EXCEPT ![p] = None]
        /\ streams' = [streams EXCEPT ![c] = None]
        \* its escalation timer would only find a dead child
        /\ killTimer' = [killTimer EXCEPT ![p] = None]
        /\ \E j \in Jobs : Idle(j) /\ Suspend(j, MkJob("exitFind", "exit", c, p, None, 0))
        /\ UNCHANGED <<dbVars, bootVars, manual, count, histVars>>

CanRestart(c, p) ==
    /\ channelRow[c]
    /\ c \in AutoRestart
    /\ RestartMax = 0 \/ count[p] < RestartMax

\* Mutant of ExitFind: a child that was asked to stop is restarted like any other.
ExitFindAlwaysCrash(j) ==
    LET c == job[j].chan
        p == job[j].proc
    IN  /\ job[j].pc = "exitFind"
        /\ Suspend(j, IF CanRestart(c, p)
                      THEN MkJob("findRow", "exit", c, None, "restarting", Saturate(count[p]))
                      ELSE MkJob("findRow", "exit", c, None, "crashed", 0))
        /\ manual' = [manual EXCEPT ![p] = FALSE]
        /\ count' = [count EXCEPT ![p] = 0]
        /\ UNCHANGED <<dbVars, bootVars, streams, osState, chanOf, killTimer, histVars>>

\* onExit, from its findOne to its updateState.
ExitFind(j) ==
    LET c == job[j].chan
        p == job[j].proc
    IN  /\ job[j].pc = "exitFind"
        /\ Suspend(j, CASE manual[p] -> MkJob("findRow", "exit", c, None, "stopped", 0)
                        [] ~manual[p] /\ CanRestart(c, p) ->
                             MkJob("findRow", "exit", c, None, "restarting",
                                   Saturate(count[p]))
                        [] OTHER -> MkJob("findRow", "exit", c, None, "crashed", 0))
        \* the last use of the ManagedStream of p
        /\ manual' = [manual EXCEPT ![p] = FALSE]
        /\ count' = [count EXCEPT ![p] = 0]
        /\ UNCHANGED <<dbVars, bootVars, streams, osState, chanOf, killTimer, histVars>>

Kill(p) == osState' = [osState EXCEPT ![p] = IF @ \in Live THEN "killed" ELSE @]

KillTimerFires(p) ==
    /\ killTimer[p] # None
    /\ killTimer' = [killTimer EXCEPT ![p] = None]
    /\ IF streams[killTimer[p]] # None THEN Kill(p) ELSE UNCHANGED osState
    /\ UNCHANGED <<dbVars, bootVars, streams, chanOf, manual, count, job, histVars>>

\* watchdogTick meets an entry without progress, and awaits the channel and the log.
\* A stall takes two minutes: longer, if Serial, than anything in flight.
WatchdogStall(c) ==
    /\ "stall" \in Events
    /\ streams[c] # None
    /\ \A k \in Jobs : job[k].chan = c => ~Serial /\ job[k].kind # "watchdog"
    /\ \E j \in Jobs :
          Idle(j) /\ Suspend(j, MkJob("watchKill", "watchdog", c, streams[c], None, 0))
    /\ UNCHANGED <<dbVars, bootVars, streams, procVars, histVars>>

WatchdogKill(j) ==
    LET p == job[j].proc
    IN  /\ job[j].pc = "watchKill"
        /\ manual' = [manual EXCEPT ![p] = FALSE]
        /\ Kill(p)
        /\ Suspend(j, IdleJob)
        /\ UNCHANGED <<dbVars, bootVars, streams, chanOf, count, killTimer, histVars>>

----------------------------------------------------------------------------
(* The worker process: its bootstrap, its shutdown, its crash.             *)

WorkerSubscribes ==
    /\ worker = "down"
    /\ worker' = "booting"
    /\ UNCHANGED <<dbVars, bootQueue, servedAtDown, streams, procVars, job, histVars>>

\* Mutant of Recoverable: not those marked 'starting'.
RecoverableSettled(c) ==
    /\ channelRow[c]
    /\ c \in AutoStart \/ status[c] \in {"running", "restarting"}

Recoverable(c) ==
    /\ channelRow[c]
    /\ c \in AutoStart \/ status[c] \in {"running", "starting", "restarting"}

BootQuery ==
    /\ worker = "booting"
    /\ worker' = "up"
    /\ bootQueue' = {c \in Channels : Recoverable(c)}
    /\ servedAtDown' = {}
    /\ UNCHANGED <<dbVars, streams, procVars, job, histVars>>

\* The bootstrap awaits each start() before the next.
BootStart(c) ==
    /\ c \in bootQueue
    /\ \A k \in Jobs : job[k].kind # "boot"
    /\ bootQueue' = bootQueue \ {c}
    /\ \E j \in Jobs : Idle(j) /\ BeginStart(j, c, "boot", 0)
    /\ UNCHANGED <<dbVars, worker, servedAtDown, streams, procVars, autoRuns, split>>

\* onApplicationShutdown: stop(c, false) of every entry.
Shutdown ==
    LET managed == {streams[c] : c \in Channels}
    IN  /\ "shutdown" \in Events
        /\ worker = "up" /\ bootQueue = {}
        /\ \A j \in Jobs : job[j].kind # "boot"
        /\ Serial => \A c \in Channels : Settled(c)
        /\ worker' = "closing"
        /\ servedAtDown' = ServedNow
        /\ manual' = [p \in Procs |-> p \in managed \/ manual[p]]
        /\ killTimer' = [p \in Procs |-> IF p \in managed THEN chanOf[p] ELSE killTimer[p]]
        /\ osState' = [p \in Procs |->
                          IF p \in managed /\ osState[p] = "running"
                          THEN "terminating" ELSE osState[p]]
        /\ UNCHANGED <<dbVars, bootQueue, streams, chanOf, count, job, histVars>>

\* The process ends some time after its shutdown hooks have run.
WorkerExits ==
    /\ worker = "closing"
    /\ WorkerGone
    /\ UNCHANGED dbVars

WorkerCrashes ==
    /\ "crash" \in Events
    /\ worker \in {"booting", "up"}
    /\ WorkerGone
    /\ UNCHANGED dbVars

----------------------------------------------------------------------------
(* The API process deletes a channel the worker may be working for.         *)

\* DELETE /channels/:id reads the status, refuses a running or starting channel ...
RemoveCheck(c) ==
    /\ "remove" \in Events
    /\ channelRow[c]
    /\ status[c] \notin {"running", "starting"}
    /\ removing' = removing \cup {c}
    /\ UNCHANGED <<channelRow, status, processState, bootVars, streams, procVars, job,
                   histVars>>

\* ... and deletes the row later; its process row is deleted with it.
RemoveChannel(c) ==
    /\ c \in removing
    /\ removing' = removing \ {c}
    /\ channelRow' = [channelRow EXCEPT ![c] = FALSE]
    /\ processState' = [processState EXCEPT ![c] = None]
    /\ UNCHANGED <<status, bootVars, streams, procVars, job, histVars>>

----------------------------------------------------------------------------
JobStep(j) ==
    \/ Load(j) \/ BuildFails(j) \/ RegisterKept(j) \/ SetCount(j) \/ BackoffFires(j)
    \/ \E p \in Procs : Spawn(j, p) \/ SpawnFails(j, p)
    \/ FindRow(j) \/ SaveRow(j) \/ SaveRowFails(j) \/ SaveStatus(j)
    \/ ExitFind(j) \/ WatchdogKill(j)

Receive(c) ==
    ReceiveStart(c) \/ ReceiveRestart(c) \/ \E force \in BOOLEAN : ReceiveStop(c, force)

\* A command that arrives when its client may send one.
Command(c) == ClientReady(c) /\ Receive(c)

ProcStep(p) == ProcExit(p) \/ OnExit(p) \/ KillTimerFires(p)

Boot == WorkerSubscribes \/ BootQuery \/ \E c \in Channels : BootStart(c)

WorkerEnds == Shutdown \/ WorkerExits \/ WorkerCrashes

Remove(c) == RemoveCheck(c) \/ RemoveChannel(c)

Next ==
    \/ \E j \in Jobs : JobStep(j)
    \/ \E p \in Procs : ProcStep(p)
    \/ \E c \in Channels : Command(c) \/ WatchdogStall(c) \/ Remove(c)
    \/ Boot
    \/ WorkerEnds

Spec == Init /\ [][Next]_vars

(***************************************************************************)
(* Fairness.  Node runs every callback that is due and every query         *)
(* returns, so each job, timer and pending exit event gets its turn; the   *)
(* operating system ends a child that was sent SIGKILL; the container is   *)
(* restarted.  A child is never obliged to end by itself or on SIGTERM,    *)
(* and nobody is obliged to send a command.  OnExit is given strong         *)
(* fairness because it waits for a job slot here and for nothing in Node.  *)
(***************************************************************************)
Killed(p) == osState[p] = "killed" /\ ProcExit(p)

Fairness ==
    /\ \A j \in Jobs : WF_vars(JobStep(j))
    /\ \A p \in Procs : SF_vars(OnExit(p)) /\ WF_vars(KillTimerFires(p)) /\ WF_vars(Killed(p))
    /\ WF_vars(Boot) /\ WF_vars(WorkerExits)

FairSpec == Spec /\ Fairness

----------------------------------------------------------------------------
(* Properties.                                                             *)

\* The child p of c exists, or its exit event has still to be handled.
Held(p, c) == chanOf[p] = c /\ osState[p] \in Live \cup {"exited"}

\* Unless two start() of a channel overlapped, the channel has at most one FFmpeg
\* child, and the worker can find it: it is the entry of the streams map, or a
\* restart that is in flight is about to enter it (start() lines 128-182, onExit).
SingleStream ==
    \A c \in Channels \ overlapped :
        \A p, q \in Procs :
            Held(p, c) /\ Held(q, c) =>
                p = q /\ (streams[c] = p \/ Unheard(p))

\* Why it holds, per channel: only one start is in flight, only while the map has no
\* entry, and a child that is held is the entry or the one the start just spawned.
Accounted(c) ==
    /\ \A j, k \in Jobs : Starting(j, c) /\ Starting(k, c) => j = k
    /\ \A j \in Jobs : Starting(j, c) => streams[c] = None
    /\ \A p \in Procs : Held(p, c) =>
          \/ streams[c] = p
          \/ \E j \in Jobs : job[j].chan = c /\ job[j].pc = "prev" /\ job[j].proc = p

SingleStreamInv ==
    /\ \A p \in Procs : Unheard(p) => osState[p] # "exited"
    /\ \A j \in Jobs : job[j].pc = "prev" => chanOf[job[j].proc] = job[j].chan
    /\ \A c \in Channels \ overlapped : Accounted(c)

\* "One managed child process per channel", the class comment: no channel ever has
\* two live children.
OneProcessPerChannel ==
    \A p, q \in Procs :
        osState[p] \in Live /\ osState[q] \in Live /\ chanOf[p] = chanOf[q] => p = q

\* restart_max bounds the automatic restarts since a channel was last asked to run.
RestartLimit ==
    RestartMax > 0 => \A c \in Channels : autoRuns[c] <= RestartMax

\* With nothing in flight for a channel its rows say what the map says: the status is
\* 'running' exactly when the channel has an entry, and of a channel with an entry the
\* process row says so too.  The recovery from a crash restores this even where the crash
\* came between the two writes of an updateState (lines 337-338).
StatusAgrees ==
    \A c \in Channels :
        AtRest(c) /\ channelRow[c] =>
            /\ status[c] = "running" <=> streams[c] # None
            /\ streams[c] # None => processState[c] = "running"

\* The two rows of a channel differ only while an updateState is between its two writes,
\* or after one that another updateState of the channel met there, that the end of the
\* worker cut off there (lines 337-338), or that an API 'starting' mark followed; and the
\* next updateState that is left alone makes them equal again.
RowsAgree ==
    \A c \in Channels \ (split \cup HalfWritten) :
        processState[c] # None => processState[c] = status[c]

\* Whatever the worker was doing for a channel when it was lost, the rows it left tell the
\* next bootstrap: a channel it had still to start, whose child it held, whose exit it was
\* deciding or whose restart it had announced or begun is taken up by the bootstrap query,
\* unless it was deleted meanwhile.  Excepted is a start a client asked for that has not
\* written 'running': its mark is the API's (StartAnswered).
RecoversRunning ==
    [][worker = "booting" /\ worker' = "up" =>
          {c \in servedAtDown : channelRow[c]} \subseteq bootQueue']_vars

\* A stop completes: the child leaves the map even when it ignores SIGTERM.
StopCompletes ==
    \A c \in Channels :
        (streams[c] # None /\ manual[streams[c]]) ~> (streams[c] = None)

\* While the worker stays up no channel stays 'restarting': the backoff ends in a
\* start or in 'crashed'.
RestartingEnds ==
    <>[](worker = "up") =>
        \A c \in Channels :
            (status[c] = "restarting") ~> (status[c] # "restarting" \/ ~channelRow[c])
----------------------------------------------------------------------------
(* The promise, StreamLifecycle, and how the state of the worker maps to it. *)

Lifecycle == INSTANCE StreamLifecycle WITH
    phase   <- [c \in Channels |-> PhaseOf(c)],
    retries <- [c \in Channels |-> IF RestartMax = 0 THEN 0 ELSE autoRuns[c]]

\* The worker keeps the promise of StreamLifecycle.
KeepsLifecycle == Lifecycle!LifecycleSpec
=============================================================================
