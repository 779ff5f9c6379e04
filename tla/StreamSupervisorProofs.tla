---------------------- MODULE StreamSupervisorProofs ----------------------
(***************************************************************************)
(* Proofs about StreamSupervisor, for any channels, children and job slots. *)
(* Types and SingleStream hold of every schedule.  The rest is about the   *)
(* worker whose clients wait for a channel to settle (Settling): from       *)
(* SerialInv follow the restart limit, the status, the two rows and the     *)
(* refinement of StreamLifecycle, each with an invariant of its own; the    *)
(* recovery has AwayInv.                                                    *)
(***************************************************************************)
EXTENDS StreamControl, TLAPS

(***************************************************************************)
(* Type correctness.  Every record a job becomes is one of the Job type,   *)
(* and a job that is about to write the rows knows which state to write.   *)
(***************************************************************************)
JobsOK(f) == f \in [Jobs -> Job] /\ \A j \in Jobs : JobOK(f[j])

\* The conjuncts of TypeOK that are not about the jobs.
RestOK ==
    /\ channelRow \in [Channels -> BOOLEAN]
    /\ status \in [Channels -> StreamState]
    /\ processState \in [Channels -> StreamState \cup {None}]
    /\ removing \subseteq Channels
    /\ worker \in {"down", "booting", "up", "closing"}
    /\ bootQueue \subseteq Channels
    /\ streams \in [Channels -> Procs \cup {None}]
    /\ osState \in [Procs -> OsState]
    /\ chanOf \in [Procs -> Channels \cup {None}]
    /\ \A p \in Procs : osState[p] # "none" => chanOf[p] # None
    /\ manual \in [Procs -> BOOLEAN]
    /\ count \in [Procs -> 0..CountCap]
    /\ killTimer \in [Procs -> Channels \cup {None}]
    /\ overlapped \subseteq Channels
    /\ autoRuns \in [Channels -> 0..(CountCap + 1)]
    /\ split \subseteq Channels
    /\ servedAtDown \subseteq Channels

LEMMA TypeSplit == TypeOK <=> RestOK /\ JobsOK(job)
  BY DEF TypeOK, RestOK, JobsOK

LEMMA ZeroCount == 0 \in 0..CountCap
  BY ConstantsAssumption

LEMMA MkJobType ==
    ASSUME NEW pc \in Pc, NEW kind \in Kind \cup {None}, NEW c \in Channels \cup {None},
           NEW p \in Procs \cup {None}, NEW target \in StreamState \cup {None},
           NEW n \in 0..CountCap
    PROVE  MkJob(pc, kind, c, p, target, n) \in Job
  BY DEF MkJob, Job

LEMMA IdleJobType == IdleJob \in Job /\ JobOK(IdleJob)
  <1>1. IdleJob \in Job
    BY MkJobType, ZeroCount DEF IdleJob, Pc
  <1>2. JobOK(IdleJob)
    BY DEF IdleJob, MkJob, JobOK, Writes
  <1> QED
    BY <1>1, <1>2

\* The record MkJob builds for a job in flight.
LEMMA RecordType ==
    ASSUME NEW kind \in Kind \cup {None}, NEW c \in Channels,
           NEW p \in Procs \cup {None}, NEW n \in 0..CountCap
    PROVE  /\ \A target \in StreamState :
                /\ MkJob("findRow", kind, c, p, target, n) \in Job
                /\ JobOK(MkJob("findRow", kind, c, p, target, n))
           /\ \A pc \in {"load", "exitFind", "watchKill"} : pc = "load" \/ p # None =>
                /\ MkJob(pc, kind, c, p, None, n) \in Job
                /\ JobOK(MkJob(pc, kind, c, p, None, n))
  <1>1. \A target \in StreamState :
           /\ MkJob("findRow", kind, c, p, target, n) \in Job
           /\ JobOK(MkJob("findRow", kind, c, p, target, n))
    <2> TAKE target \in StreamState
    <2>1. MkJob("findRow", kind, c, p, target, n) \in Job
      BY MkJobType DEF Pc
    <2> QED
      BY <2>1, ConstantsAssumption DEF MkJob, JobOK
  <1>2. \A pc \in {"load", "exitFind", "watchKill"} : pc = "load" \/ p # None =>
           /\ MkJob(pc, kind, c, p, None, n) \in Job
           /\ JobOK(MkJob(pc, kind, c, p, None, n))
    <2> TAKE pc \in {"load", "exitFind", "watchKill"}
    <2> HAVE pc = "load" \/ p # None
    <2>1. MkJob(pc, kind, c, p, None, n) \in Job
      BY MkJobType DEF Pc
    <2> QED
      BY <2>1 DEF MkJob, JobOK, Writes
  <1> QED
    BY <1>1, <1>2

LEMMA JobFields ==
    ASSUME JobsOK(job), NEW j \in Jobs
    PROVE  /\ job[j] \in Job
           /\ job[j].kind \in Kind \cup {None}
           /\ job[j].proc \in Procs \cup {None}
           /\ job[j].cnt \in 0..CountCap
           /\ job[j].pc # "idle" => job[j].chan \in Channels
           /\ Writes(job[j]) => job[j].target \in StreamState
           /\ job[j].pc \in {"prev", "exitFind", "watchKill"} => job[j].proc \in Procs
  BY DEF JobsOK, JobOK, Job

LEMMA SuspendType ==
    ASSUME JobsOK(job), NEW j \in Jobs, NEW r \in Job, JobOK(r), Suspend(j, r)
    PROVE  JobsOK(job')
  BY DEF JobsOK, Suspend

\* Moving a job from one await of a start or an update to the next.
LEMMA AdvanceType ==
    ASSUME JobsOK(job), NEW j \in Jobs,
           NEW pc \in {"build", "saveStatus", "setCount", "backoff"}, job[j].pc # "idle",
           Writes(job[j]) \/ pc \notin {"findRow", "saveRow", "saveStatus"},
           Suspend(j, [job[j] EXCEPT !.pc = pc])
    PROVE  JobsOK(job')
  <1> DEFINE r == [job[j] EXCEPT !.pc = pc]
  <1>1. r \in Job /\ r.pc = pc /\ r.target = job[j].target /\ r.chan = job[j].chan
    BY JobFields DEF Job, Pc
  <1>2. JobOK(r)
    BY <1>1 DEF Writes, JobsOK, JobOK
  <1> QED
    BY <1>1, <1>2, SuspendType

LEMMA ThrowType ==
    ASSUME JobsOK(job), NEW j \in Jobs, job[j].pc # "idle", Throw(j)
    PROVE  JobsOK(job')
  <1> DEFINE c == job[j].chan
  <1>1. /\ MkJob("findRow", "fail", c, None, "error", 0) \in Job
        /\ JobOK(MkJob("findRow", "fail", c, None, "error", 0))
        /\ MkJob("findRow", "giveUp", c, None, "crashed", 0) \in Job
        /\ JobOK(MkJob("findRow", "giveUp", c, None, "crashed", 0))
    BY JobFields, ZeroCount, RecordType DEF Kind, StreamState
  <1>2. \/ Suspend(j, MkJob("findRow", "fail", c, None, "error", 0))
        \/ Suspend(j, MkJob("findRow", "giveUp", c, None, "crashed", 0))
        \/ Suspend(j, IdleJob)
    BY Zenon DEF Throw
  <1> QED
    BY <1>1, <1>2, IdleJobType, SuspendType

LEMMA BeginStartType ==
    ASSUME RestOK, JobsOK(job), NEW j \in Jobs, NEW c \in Channels,
           NEW kind \in Kind, NEW n \in 0..CountCap, BeginStart(j, c, kind, n)
    PROVE  JobsOK(job') /\ overlapped' \subseteq Channels
  <1>1. /\ MkJob("load", kind, c, None, None, n) \in Job
        /\ JobOK(MkJob("load", kind, c, None, None, n))
    BY RecordType
  <1> QED
    BY <1>1, SuspendType DEF BeginStart, RestOK

LEMMA RestartAfterStopType ==
    ASSUME RestOK, JobsOK(job), NEW j \in Jobs, job[j].pc # "idle", RestartAfterStop(j)
    PROVE  JobsOK(job') /\ overlapped' \subseteq Channels
  <1>1. CASE streams[job[j].chan] # None
    BY <1>1, IdleJobType, SuspendType DEF RestartAfterStop, RestOK
  <1>2. CASE streams[job[j].chan] = None
    <2>1. BeginStart(j, job[j].chan, "restart", 0)
      BY <1>2 DEF RestartAfterStop
    <2> QED
      BY <2>1, JobFields, ZeroCount, BeginStartType DEF Kind
  <1> QED
    BY <1>1, <1>2

LEMMA RegisterType ==
    ASSUME RestOK, JobsOK(job), NEW j \in Jobs, NEW c \in Channels, NEW p \in Procs \cup {None},
           Register(j, c, p)
    PROVE  /\ JobsOK(job')
           /\ streams' \in [Channels -> Procs \cup {None}]
           /\ manual' \in [Procs -> BOOLEAN]
           /\ count' \in [Procs -> 0..CountCap]
           /\ autoRuns' \in [Channels -> 0..(CountCap + 1)]
  <1> DEFINE r == MkJob("findRow", job[j].kind, c, None, "running", job[j].cnt)
  <1>1. r \in Job /\ JobOK(r)
    BY JobFields, RecordType DEF StreamState
  <1>2. JobsOK(job')
    BY <1>1, SuspendType DEF Register
  <1>3. autoRuns' \in [Channels -> 0..(CountCap + 1)]
    BY ConstantsAssumption DEF Register, RestOK
  <1> QED
    BY <1>2, <1>3, ZeroCount DEF Register, RestOK

LEMMA WorkerGoneType ==
    ASSUME RestOK, JobsOK(job), UNCHANGED dbVars, WorkerGone
    PROVE  RestOK' /\ JobsOK(job')
  <1>1. JobsOK(job')
    BY IdleJobType DEF WorkerGone, JobsOK
  <1>2. HalfWritten \subseteq Channels /\ ServedNow \subseteq Channels
    BY JobFields DEF HalfWritten, ServedNow
  <1>3. RestOK'
    BY <1>2, ConstantsAssumption DEF RestOK, WorkerGone, dbVars, OsState
  <1> QED
    BY <1>1, <1>3

LEMMA TypeInit == Init => TypeOK
  <1> SUFFICES ASSUME Init PROVE TypeOK
    OBVIOUS
  <1>1. JobsOK(job)
    BY IdleJobType DEF Init, JobsOK
  <1>2. RestOK
    BY ConstantsAssumption DEF Init, RestOK, StreamState, OsState
  <1> QED
    BY <1>1, <1>2, TypeSplit

\* One step of a job.
LEMMA TypeJobStep ==
    ASSUME RestOK, JobsOK(job), NEW j \in Jobs, JobStep(j)
    PROVE  RestOK' /\ JobsOK(job')
  <1> USE DEF dbVars, bootVars, procVars, histVars
  <1> DEFINE c == job[j].chan
  <1>1. CASE Load(j)
    <2>1. RestOK'
      BY <1>1 DEF Load, RestOK
    <2>2. CASE Suspend(j, [job[j] EXCEPT !.pc = "build"])
      BY <1>1, <2>1, <2>2, AdvanceType DEF Load, Writes
    <2>3. CASE Throw(j)
      BY <1>1, <2>1, <2>3, ThrowType DEF Load
    <2> QED
      BY <1>1, <2>1, <2>2, <2>3 DEF Load
  <1>2. CASE BuildFails(j)
    BY <1>2, ThrowType DEF BuildFails, RestOK
  <1>3. ASSUME NEW p \in Procs, Spawn(j, p)
        PROVE  RestOK' /\ JobsOK(job')
    <2>1. c \in Channels /\ job[j].pc = "build"
      BY <1>3, JobFields DEF Spawn
    <2>2. /\ osState' \in [Procs -> OsState]
          /\ chanOf' \in [Procs -> Channels \cup {None}]
          /\ \A q \in Procs : osState'[q] # "none" => chanOf'[q] # None
          /\ UNCHANGED <<dbVars, bootVars, killTimer, overlapped, split>>
      BY <1>3, <2>1, ConstantsAssumption DEF Spawn, RestOK, OsState, Live
    <2>3. CASE /\ Suspend(j, [job[j] EXCEPT !.pc = "prev", !.proc = p])
               /\ UNCHANGED <<streams, manual, count, autoRuns>>
      <3> DEFINE r == [job[j] EXCEPT !.pc = "prev", !.proc = p]
      <3>1. r \in Job /\ r.pc = "prev" /\ r.chan = c /\ r.proc = p
        BY JobFields DEF Job, Pc
      <3>2. JobOK(r)
        BY <1>3, <2>1, <3>1, ConstantsAssumption DEF JobOK, Writes
      <3>3. JobsOK(job')
        BY <2>3, <3>1, <3>2, SuspendType
      <3> QED
        BY <2>1, <2>2, <2>3, <3>3 DEF RestOK
    <2>4. CASE Register(j, c, p)
      <3>1. UNCHANGED <<dbVars, bootVars, killTimer, overlapped, split>>
        BY <2>2
      <3> QED
        BY <2>1, <2>2, <2>4, RegisterType DEF RestOK
    <2> QED
      BY <1>3, <2>3, <2>4 DEF Spawn
  <1>4. ASSUME NEW p \in Procs, SpawnFails(j, p)
        PROVE  RestOK' /\ JobsOK(job')
    <2>1. c \in Channels /\ UNCHANGED dbVars
      BY <1>4, JobFields DEF SpawnFails
    <2>2. CASE WorkerGone
      BY <2>1, <2>2, WorkerGoneType
    <2>3. CASE /\ osState' = [osState EXCEPT ![p] = "failed"]
               /\ chanOf' = [chanOf EXCEPT ![p] = c]
               /\ Register(j, c, p)
               /\ UNCHANGED <<bootVars, killTimer, overlapped, split>>
      <3>1. /\ osState' \in [Procs -> OsState]
            /\ chanOf' \in [Procs -> Channels \cup {None}]
            /\ \A q \in Procs : osState'[q] # "none" => chanOf'[q] # None
        BY <2>1, <2>3, ConstantsAssumption DEF RestOK, OsState
      <3> QED
        BY <2>1, <2>3, <3>1, RegisterType DEF RestOK
    <2> QED
      BY <1>4, <2>2, <2>3 DEF SpawnFails
  <1>5. CASE RegisterKept(j)
    <2>1. c \in Channels /\ job[j].proc \in Procs \cup {None}
      BY <1>5, JobFields DEF RegisterKept
    <2> QED
      BY <1>5, <2>1, RegisterType DEF RegisterKept, RestOK
  <1>6. CASE SetCount(j)
    <2>1. count' \in [Procs -> 0..CountCap]
      BY <1>6, JobFields DEF SetCount, NoteCount, RestOK
    <2> QED
      BY <1>6, <2>1, IdleJobType, SuspendType DEF SetCount, RestOK
  <1>7. CASE BackoffFires(j)
    <2>1. c \in Channels /\ job[j].cnt \in 0..CountCap
      BY <1>7, JobFields DEF BackoffFires
    <2>2. CASE BeginStart(j, c, "auto", job[j].cnt) /\ UNCHANGED count
      BY <1>7, <2>1, <2>2, BeginStartType DEF BackoffFires, RestOK, Kind
    <2>3. CASE NoteCount(c, job[j].cnt) /\ Suspend(j, IdleJob) /\ UNCHANGED overlapped
      <3>1. count' \in [Procs -> 0..CountCap]
        BY <2>1, <2>3 DEF NoteCount, RestOK
      <3> QED
        BY <1>7, <2>3, <3>1, IdleJobType, SuspendType DEF BackoffFires, RestOK
    <2> QED
      BY <1>7, <2>2, <2>3 DEF BackoffFires
  <1>8. CASE FindRow(j)
    <2> DEFINE r == [job[j] EXCEPT !.pc = "saveRow", !.found = processState[c] # None]
    <2>1. r \in Job /\ r.pc = "saveRow" /\ r.chan = c /\ r.target = job[j].target
      BY JobFields DEF Job, Pc
    <2>2. JobOK(r)
      BY <1>8, <2>1 DEF FindRow, JobOK, JobsOK, Writes
    <2> QED
      BY <1>8, <2>1, <2>2, SuspendType DEF FindRow, RestOK
  <1>9. CASE SaveRow(j)
    <2>1. job[j].target \in StreamState /\ job[j].pc = "saveRow"
      BY <1>9, JobFields DEF SaveRow, Writes
    <2>2. JobsOK(job')
      BY <1>9, <2>1, AdvanceType DEF SaveRow, Pc, Writes
    <2>3. c \in Channels /\ split' \subseteq split \cup {c}
      BY <1>9, JobFields DEF SaveRow
    <2> QED
      BY <1>9, <2>1, <2>2, <2>3 DEF SaveRow, RestOK
  <1>10. CASE SaveRowFails(j)
    <2>1. job[j].pc # "idle" /\ UNCHANGED dbVars
      BY <1>10 DEF SaveRowFails
    <2>2. CASE WorkerGone
      BY <2>1, <2>2, WorkerGoneType
    <2>3. CASE RestartAfterStop(j) /\ UNCHANGED <<bootVars, streams, procVars, autoRuns, split>>
      BY <2>1, <2>3, RestartAfterStopType DEF RestOK
    <2>4. CASE Throw(j) /\ UNCHANGED <<bootVars, streams, procVars, histVars>>
      BY <2>1, <2>4, ThrowType DEF RestOK
    <2> QED
      BY <1>10, <2>2, <2>3, <2>4 DEF SaveRowFails
  <1>11. CASE SaveStatus(j)
    <2>1. job[j].target \in StreamState /\ job[j].pc = "saveStatus"
      BY <1>11, JobFields DEF SaveStatus, Writes
    <2>2. status' \in [Channels -> StreamState]
      BY <1>11, <2>1 DEF SaveStatus, RestOK
    <2>3. JobsOK(job') /\ overlapped' \subseteq Channels
      <3>1. CASE Suspend(j, [job[j] EXCEPT !.pc = "setCount"]) /\ UNCHANGED overlapped
        BY <2>1, <3>1, AdvanceType DEF Pc, RestOK
      <3>2. CASE Suspend(j, [job[j] EXCEPT !.pc = "backoff"]) /\ UNCHANGED overlapped
        BY <2>1, <3>2, AdvanceType DEF Pc, RestOK
      <3>3. CASE RestartAfterStop(j)
        BY <2>1, <3>3, RestartAfterStopType
      <3>4. CASE Suspend(j, IdleJob) /\ UNCHANGED overlapped
        BY <3>4, IdleJobType, SuspendType DEF RestOK
      <3> QED
        BY <1>11, <3>1, <3>2, <3>3, <3>4 DEF SaveStatus, AfterUpdate
    <2> QED
      BY <1>11, <2>2, <2>3 DEF SaveStatus, RestOK
  <1>12. CASE ExitFind(j)
    <2> DEFINE p == job[j].proc
    <2>1. c \in Channels
      BY <1>12, JobFields DEF ExitFind
    <2>2. p \in Procs
      BY <1>12, JobFields DEF ExitFind
    <2>3. Saturate(count[p]) \in 0..CountCap
      BY <2>2, ConstantsAssumption DEF Saturate, RestOK
    <2>4. \A target \in {"stopped", "crashed", "restarting"}, n \in 0..CountCap :
             /\ MkJob("findRow", "exit", c, None, target, n) \in Job
             /\ JobOK(MkJob("findRow", "exit", c, None, target, n))
      BY <2>1, RecordType DEF Kind, StreamState
    <2>5. \E target \in {"stopped", "crashed", "restarting"}, n \in 0..CountCap :
             Suspend(j, MkJob("findRow", "exit", c, None, target, n))
      <3>1. \/ Suspend(j, MkJob("findRow", "exit", c, None, "stopped", 0))
            \/ Suspend(j, MkJob("findRow", "exit", c, None, "restarting", Saturate(count[p])))
            \/ Suspend(j, MkJob("findRow", "exit", c, None, "crashed", 0))
        BY <1>12, Zenon DEF ExitFind
      <3> QED
        BY <2>3, <3>1, ZeroCount
    <2>6. JobsOK(job')
      BY <2>4, <2>5, SuspendType
    <2>7. manual' \in [Procs -> BOOLEAN] /\ count' \in [Procs -> 0..CountCap]
      BY <1>12, ZeroCount DEF ExitFind, RestOK
    <2> QED
      BY <1>12, <2>6, <2>7 DEF ExitFind, RestOK
  <1>13. CASE WatchdogKill(j)
    BY <1>13, IdleJobType, SuspendType DEF WatchdogKill, Kill, RestOK, OsState, Live
  <1> QED
    BY <1>1, <1>2, <1>3, <1>4, <1>5, <1>6, <1>7, <1>8, <1>9, <1>10, <1>11, <1>12, <1>13
       DEF JobStep

\* A command, an event of a child, a timer, the watchdog.
LEMMA TypeReceive ==
    ASSUME RestOK, JobsOK(job), NEW c \in Channels, Receive(c) \/ WatchdogStall(c)
    PROVE  RestOK' /\ JobsOK(job')
  <1> USE DEF dbVars, bootVars, procVars, histVars
  <1>1. ASSUME NEW p \in Procs, NEW force \in BOOLEAN, Terminate(c, p, force)
        PROVE  /\ manual' \in [Procs -> BOOLEAN]
               /\ osState' \in [Procs -> OsState]
               /\ \A q \in Procs : osState'[q] # "none" => osState[q] # "none"
               /\ killTimer' \in [Procs -> Channels \cup {None}]
    BY <1>1 DEF Terminate, RestOK, OsState, Live
  <1>2. \A kind \in Kind : /\ MkJob("findRow", kind, c, None, "stopped", 0) \in Job
                           /\ JobOK(MkJob("findRow", kind, c, None, "stopped", 0))
    BY RecordType, ZeroCount DEF StreamState
  <1>3. CASE ReceiveStart(c)
    <2>1. PICK j \in Jobs : BeginStart(j, c, "start", 0)
      BY <1>3 DEF ReceiveStart
    <2> QED
      BY <1>3, <2>1, BeginStartType, ZeroCount DEF ReceiveStart, RestOK, Kind
  <1>4. ASSUME NEW force \in BOOLEAN, ReceiveStop(c, force)
        PROVE  RestOK' /\ JobsOK(job')
    <2>1. CASE streams[c] # None
      <3>1. streams[c] \in Procs /\ Terminate(c, streams[c], force)
        BY <1>4, <2>1 DEF ReceiveStop, RestOK
      <3> QED
        BY <1>1, <1>4, <2>1, <3>1 DEF ReceiveStop, RestOK, JobsOK
    <2>2. CASE streams[c] = None
      <3>1. PICK j \in Jobs : Suspend(j, MkJob("findRow", "stop", c, None, "stopped", 0))
        BY <1>4, <2>2 DEF ReceiveStop
      <3>2. JobsOK(job')
        BY <1>2, <3>1, SuspendType DEF Kind
      <3> QED
        BY <1>4, <2>2, <3>2 DEF ReceiveStop, RestOK
    <2> QED
      BY <2>1, <2>2
  <1>5. CASE ReceiveRestart(c)
    <2>1. CASE streams[c] # None
      <3>1. streams[c] \in Procs /\ Terminate(c, streams[c], FALSE)
        BY <1>5, <2>1 DEF ReceiveRestart, RestOK
      <3> QED
        BY <1>1, <1>5, <2>1, <3>1 DEF ReceiveRestart, RestOK, JobsOK
    <2>2. CASE streams[c] = None
      <3>1. PICK j \in Jobs :
               Suspend(j, MkJob("findRow", "restartStop", c, None, "stopped", 0))
        BY <1>5, <2>2 DEF ReceiveRestart
      <3>2. JobsOK(job')
        BY <1>2, <3>1, SuspendType DEF Kind
      <3> QED
        BY <1>5, <2>2, <3>2 DEF ReceiveRestart, RestOK
    <2> QED
      BY <2>1, <2>2
  <1>6. CASE WatchdogStall(c)
    <2>1. streams[c] \in Procs
      BY <1>6 DEF WatchdogStall, RestOK
    <2>2. PICK j \in Jobs : Suspend(j, MkJob("watchKill", "watchdog", c, streams[c], None, 0))
      BY <1>6 DEF WatchdogStall
    <2>3. /\ MkJob("watchKill", "watchdog", c, streams[c], None, 0) \in Job
          /\ JobOK(MkJob("watchKill", "watchdog", c, streams[c], None, 0))
      BY <2>1, RecordType, ZeroCount, ConstantsAssumption DEF Kind
    <2> QED
      BY <1>6, <2>2, <2>3, SuspendType DEF WatchdogStall, RestOK
  <1> QED
    BY <1>3, <1>4, <1>5, <1>6 DEF Receive

LEMMA TypeProcStep ==
    ASSUME RestOK, JobsOK(job), NEW p \in Procs, ProcStep(p)
    PROVE  RestOK' /\ JobsOK(job')
  <1> USE DEF dbVars, bootVars, procVars, histVars
  <1>1. CASE ProcExit(p)
    BY <1>1 DEF ProcExit, RestOK, OsState, JobsOK
  <1>2. CASE OnExit(p)
    <2> DEFINE c == chanOf[p]
    <2>1. PICK j \in Jobs : Suspend(j, MkJob("exitFind", "exit", c, p, None, 0))
      BY <1>2 DEF OnExit
    <2>2. c \in Channels
      BY <1>2 DEF OnExit, RestOK
    <2>3. /\ MkJob("exitFind", "exit", c, p, None, 0) \in Job
          /\ JobOK(MkJob("exitFind", "exit", c, p, None, 0))
      BY <2>2, RecordType, ZeroCount, ConstantsAssumption DEF Kind
    <2> QED
      BY <1>2, <2>1, <2>3, SuspendType DEF OnExit, RestOK, OsState
  <1>3. CASE KillTimerFires(p)
    BY <1>3 DEF KillTimerFires, Kill, RestOK, OsState, Live, JobsOK
  <1> QED
    BY <1>1, <1>2, <1>3 DEF ProcStep

\* The bootstrap, the end of the worker, the deletion of a channel.
LEMMA TypeOthers ==
    ASSUME RestOK, JobsOK(job), Boot \/ WorkerEnds \/ \E c \in Channels : Remove(c)
    PROVE  RestOK' /\ JobsOK(job')
  <1> USE DEF dbVars, bootVars, procVars, histVars
  <1>1. CASE WorkerSubscribes
    BY <1>1 DEF WorkerSubscribes, RestOK, JobsOK
  <1>2. CASE BootQuery
    BY <1>2 DEF BootQuery, RestOK, JobsOK
  <1>3. ASSUME NEW c \in Channels, BootStart(c)
        PROVE  RestOK' /\ JobsOK(job')
    <2>1. PICK j \in Jobs : BeginStart(j, c, "boot", 0)
      BY <1>3 DEF BootStart
    <2> QED
      BY <1>3, <2>1, BeginStartType, ZeroCount DEF BootStart, RestOK, Kind
  <1>4. CASE Shutdown
    <2>1. /\ manual' \in [Procs -> BOOLEAN]
          /\ killTimer' \in [Procs -> Channels \cup {None}]
          /\ osState' \in [Procs -> OsState]
          /\ \A p \in Procs : osState'[p] # "none" => osState[p] # "none"
      BY <1>4 DEF Shutdown, RestOK, OsState, Live
    <2>2. servedAtDown' \subseteq Channels
      BY <1>4 DEF Shutdown, ServedNow
    <2> QED
      BY <1>4, <2>1, <2>2 DEF Shutdown, RestOK, JobsOK
  <1>5. CASE WorkerExits \/ WorkerCrashes
    <2>1. WorkerGone /\ UNCHANGED dbVars
      BY <1>5 DEF WorkerExits, WorkerCrashes
    <2> QED
      BY <2>1, WorkerGoneType
  <1>6. ASSUME NEW c \in Channels, Remove(c)
        PROVE  RestOK' /\ JobsOK(job')
    <2>1. CASE RemoveCheck(c)
      BY <2>1 DEF RemoveCheck, RestOK, JobsOK
    <2>2. CASE RemoveChannel(c)
      BY <2>2 DEF RemoveChannel, RestOK, JobsOK
    <2> QED
      BY <1>6, <2>1, <2>2 DEF Remove
  <1> QED
    BY <1>1, <1>2, <1>3, <1>4, <1>5, <1>6 DEF Boot, WorkerEnds

\* No step of the worker, its children or the API leaves the types.
LEMMA TypeNext == TypeOK /\ [Next]_vars => TypeOK'
  <1> SUFFICES ASSUME RestOK, JobsOK(job), [Next]_vars PROVE RestOK' /\ JobsOK(job')
    BY TypeSplit DEF TypeOK, RestOK, JobsOK
  <1>1. CASE Next
    BY <1>1, TypeJobStep, TypeProcStep, TypeReceive, TypeOthers DEF Next, Command
  <1>2. CASE UNCHANGED vars
    BY <1>2 DEF vars, dbVars, bootVars, procVars, histVars, RestOK, JobsOK
  <1> QED
    BY <1>1, <1>2

\* Every variable keeps its type; a coroutine in flight always knows its channel, the
\* state it is about to write and the child it works for; and a child that has not been
\* forgotten always knows its channel (start, stop, onExit, updateState, watchdogTick).
THEOREM TypeCorrect == Spec => []TypeOK
  <1>1. Init => TypeOK
    BY TypeInit
  <1>2. TypeOK /\ [Next]_vars => TypeOK'
    BY TypeNext
  <1> QED
    BY <1>1, <1>2, PTL DEF Spec

(***************************************************************************)
(* SingleStream.  The proof is about three things only: which jobs are     *)
(* between the check and the registration of a start, which children are   *)
(* held, and the map.  A step that adds to none of them keeps the          *)
(* invariant (Quiet); what is left is the steps of a start, the exits and  *)
(* the end of the worker.                                                  *)
(***************************************************************************)
HeldState == Live \cup {"exited"}

\* No job enters a start, or enters, leaves or changes at the await of the
\* registration.
QuietJobs ==
    /\ \A k \in Jobs, c \in Channels : Starting(k, c)' => Starting(k, c)
    /\ \A k \in Jobs : job[k].pc = "prev" \/ job'[k].pc = "prev" => job'[k] = job[k]

\* No child comes to be held, and only a child with listeners comes to have exited.
QuietProcs ==
    \A p \in Procs : /\ osState'[p] \in HeldState => osState[p] \in HeldState
                     /\ osState'[p] = "exited" => osState[p] = "exited" \/ ~Unheard(p)

LEMMA SameJobs == UNCHANGED job => QuietJobs
  BY DEF QuietJobs, Starting

LEMMA SameProcs == UNCHANGED osState => QuietProcs
  BY DEF QuietProcs

LEMMA QuietSuspend ==
    ASSUME JobsOK(job), NEW j \in Jobs, NEW r, Suspend(j, r), job[j].pc # "prev",
           r.pc \notin {"load", "build", "prev"}
    PROVE  QuietJobs
  <1>1. \A k \in Jobs : job'[k] = IF k = j THEN r ELSE job[k]
    BY DEF Suspend, JobsOK
  <1> QED
    BY <1>1 DEF QuietJobs, Starting

LEMMA QuietThrow ==
    ASSUME JobsOK(job), NEW j \in Jobs, Throw(j), job[j].pc # "prev"
    PROVE  QuietJobs
  <1> DEFINE c == job[j].chan
  <1>1. \/ Suspend(j, MkJob("findRow", "fail", c, None, "error", 0))
        \/ Suspend(j, MkJob("findRow", "giveUp", c, None, "crashed", 0))
        \/ Suspend(j, IdleJob)
    BY Zenon DEF Throw
  <1> QED
    BY <1>1, QuietSuspend DEF MkJob, IdleJob

LEMMA Quiet ==
    ASSUME SingleStreamInv, QuietJobs, QuietProcs, UNCHANGED <<streams, chanOf>>,
           overlapped \subseteq overlapped'
    PROVE  SingleStreamInv'
  <1>1. \A p \in Procs : Unheard(p)' => Unheard(p)
    BY DEF QuietJobs, Unheard
  <1>2. \A p \in Procs : Unheard(p)' => osState'[p] # "exited"
    BY <1>1 DEF QuietProcs, SingleStreamInv
  <1>3. \A j \in Jobs : job'[j].pc = "prev" => chanOf'[job'[j].proc] = job'[j].chan
    BY DEF QuietJobs, SingleStreamInv
  <1>4. ASSUME NEW c \in Channels, c \notin overlapped'
        PROVE  Accounted(c)'
    <2>1. Accounted(c)
      BY <1>4 DEF SingleStreamInv
    <2>2. \A j, k \in Jobs : Starting(j, c)' /\ Starting(k, c)' => j = k
      BY <2>1 DEF QuietJobs, Accounted
    <2>3. \A j \in Jobs : Starting(j, c)' => streams'[c] = None
      BY <2>1 DEF QuietJobs, Accounted
    <2>4. ASSUME NEW p \in Procs, Held(p, c)'
          PROVE  \/ streams'[c] = p
                 \/ \E j \in Jobs : job'[j].chan = c /\ job'[j].pc = "prev" /\ job'[j].proc = p
      <3>1. Held(p, c)
        BY <2>4 DEF Held, QuietProcs, HeldState
      <3> QED
        BY <2>1, <3>1 DEF Accounted, QuietJobs
    <2> QED
      BY <2>2, <2>3, <2>4 DEF Accounted
  <1> QED
    BY <1>2, <1>4, <1>3 DEF SingleStreamInv

\* A start begins: if another one of the channel is in flight they overlap.
LEMMA BeginKeeps ==
    ASSUME RestOK, JobsOK(job), SingleStreamInv, NEW j \in Jobs, NEW c \in Channels,
           NEW kind, NEW n, BeginStart(j, c, kind, n), job[j].pc # "prev", QuietProcs,
           UNCHANGED <<streams, chanOf>>
    PROVE  SingleStreamInv'
  <1>1. CASE streams[c] # None
    BY <1>1, Quiet, SameJobs DEF BeginStart
  <1>2. CASE streams[c] = None
    <2> DEFINE r == MkJob("load", kind, c, None, None, n)
    <2>1. \A k \in Jobs : job'[k] = IF k = j THEN r ELSE job[k]
      BY <1>2 DEF BeginStart, Suspend, JobsOK
    <2>2. r.pc = "load" /\ r.chan = c
      BY DEF MkJob
    <2>3. \A p \in Procs : Unheard(p)' => Unheard(p)
      BY <2>1, <2>2 DEF Unheard
    <2>4. \A p \in Procs : Unheard(p)' => osState'[p] # "exited"
      BY <2>3 DEF QuietProcs, SingleStreamInv
    <2>5. overlapped \subseteq overlapped'
      BY <1>2 DEF BeginStart
    <2>6. \A k \in Jobs : job'[k].pc = "prev" => chanOf'[job'[k].proc] = job'[k].chan
      BY <2>1, <2>2 DEF SingleStreamInv
    <2>7. ASSUME NEW d \in Channels, d \notin overlapped'
          PROVE  Accounted(d)'
      <3>1. Accounted(d)
        BY <2>5, <2>7 DEF SingleStreamInv
      <3>2. \A k \in Jobs : Starting(k, d)' => Starting(k, d) \/ (k = j /\ d = c)
        BY <2>1, <2>2 DEF Starting
      <3>3. d = c => \A k \in Jobs : ~Starting(k, d)
        BY <1>2, <2>7 DEF BeginStart
      <3>4. \A k, l \in Jobs : Starting(k, d)' /\ Starting(l, d)' => k = l
        BY <3>1, <3>2, <3>3 DEF Accounted
      <3>5. \A k \in Jobs : Starting(k, d)' => streams'[d] = None
        BY <1>2, <3>1, <3>2 DEF Accounted
      <3>6. ASSUME NEW p \in Procs, Held(p, d)'
            PROVE  \/ streams'[d] = p
                   \/ \E k \in Jobs : job'[k].chan = d /\ job'[k].pc = "prev" /\ job'[k].proc = p
        <4>1. Held(p, d)
          BY <3>6 DEF Held, QuietProcs, HeldState
        <4>2. \A k \in Jobs : job[k].pc = "prev" => job'[k] = job[k]
          BY <2>1
        <4> QED
          BY <3>1, <4>1, <4>2 DEF Accounted
      <3> QED
        BY <3>4, <3>5, <3>6 DEF Accounted
    <2> QED
      BY <2>4, <2>7, <2>6 DEF SingleStreamInv
  <1> QED
    BY <1>1, <1>2

\* The restart command after its stop().
LEMMA RestartAfterStopKeeps ==
    ASSUME RestOK, JobsOK(job), SingleStreamInv, NEW j \in Jobs, RestartAfterStop(j),
           job[j].pc \in {"saveRow", "saveStatus"}, UNCHANGED <<streams, chanOf, osState>>
    PROVE  SingleStreamInv'
  <1>1. CASE streams[job[j].chan] # None
    BY <1>1, Quiet, QuietSuspend, SameProcs DEF RestartAfterStop, IdleJob, MkJob
  <1>2. CASE streams[job[j].chan] = None
    BY <1>2, BeginKeeps, SameProcs, JobFields DEF RestartAfterStop
  <1> QED
    BY <1>1, <1>2

LEMMA WorkerGoneKeeps == WorkerGone => SingleStreamInv'
  <1> SUFFICES ASSUME WorkerGone PROVE SingleStreamInv'
    OBVIOUS
  <1>1. \A k \in Jobs : job'[k].pc = "idle"
    BY DEF WorkerGone, IdleJob, MkJob
  <1>2. \A p \in Procs : osState'[p] = "none"
    BY DEF WorkerGone
  <1> QED
    BY <1>1, <1>2 DEF SingleStreamInv, Accounted, Unheard, Starting, Held, Live

\* The one start in flight enters its child p in the map.
LEMMA RegisterKeeps ==
    ASSUME RestOK, JobsOK(job), SingleStreamInv, NEW j \in Jobs, NEW c \in Channels,
           NEW p \in Procs, Starting(j, c), Register(j, c, p),
           chanOf'[p] = c,
           \A q \in Procs : Unheard(q) => (osState'[q] = "exited" => osState[q] = "exited"),
           \A q \in Procs \ {p} : osState'[q] = osState[q] /\ chanOf'[q] = chanOf[q],
           job[j].pc = "prev" => job[j].proc = p /\ UNCHANGED chanOf,
           job[j].pc # "prev" => \A q \in Jobs : job[q].proc # p,
           UNCHANGED overlapped
    PROVE  SingleStreamInv'
  <1> DEFINE r == MkJob("findRow", job[j].kind, c, None, "running", job[j].cnt)
  <1>1. \A k \in Jobs : job'[k] = IF k = j THEN r ELSE job[k]
    BY DEF Register, Suspend, JobsOK
  <1>2. r.pc = "findRow"
    BY DEF MkJob
  <1>3. \A d \in Channels : streams'[d] = IF d = c THEN p ELSE streams[d]
    BY DEF Register, RestOK
  <1>4. \A q \in Procs : Unheard(q)' => osState'[q] # "exited"
    BY <1>1, <1>2 DEF Unheard, SingleStreamInv
  <1>5. \A k \in Jobs : job'[k].pc = "prev" => chanOf'[job'[k].proc] = job'[k].chan
    BY <1>1, <1>2, JobFields DEF SingleStreamInv
  <1>6. ASSUME NEW d \in Channels, d \notin overlapped'
        PROVE  Accounted(d)'
    <2>1. Accounted(d)
      BY <1>6 DEF SingleStreamInv
    <2>2. \A k \in Jobs : Starting(k, d)' => k # j /\ Starting(k, d)
      BY <1>1, <1>2 DEF Starting
    <2>3. d = c => \A k \in Jobs : ~Starting(k, d)'
      BY <2>1, <2>2 DEF Accounted
    <2>4. \A k, l \in Jobs : Starting(k, d)' /\ Starting(l, d)' => k = l
      BY <2>1, <2>2 DEF Accounted
    <2>5. \A k \in Jobs : Starting(k, d)' => streams'[d] = None
      BY <1>3, <2>1, <2>2, <2>3 DEF Accounted
    <2>6. ASSUME NEW q \in Procs, Held(q, d)'
          PROVE  \/ streams'[d] = q
                 \/ \E k \in Jobs : job'[k].chan = d /\ job'[k].pc = "prev" /\ job'[k].proc = q
      <3>1. CASE q = p
        BY <1>3, <2>6, <3>1 DEF Held
      <3>2. CASE q # p
        <4>1. Held(q, d)
          BY <2>6, <3>2 DEF Held
        <4>2. CASE d = c
          <5>1. streams[d] = None
            BY <2>1, <4>2 DEF Accounted
          <5>2. PICK k \in Jobs : job[k].chan = d /\ job[k].pc = "prev" /\ job[k].proc = q
            BY <2>1, <4>1, <5>1, ConstantsAssumption DEF Accounted
          <5>3. k = j
            BY <2>1, <4>2, <5>2 DEF Accounted, Starting
          <5> QED
            BY <3>2, <5>2, <5>3
        <4>3. CASE d # c
          BY <1>1, <1>3, <2>1, <4>1, <4>3 DEF Accounted, Starting
        <4> QED
          BY <4>2, <4>3
      <3> QED
        BY <3>1, <3>2
    <2> QED
      BY <2>4, <2>5, <2>6 DEF Accounted
  <1> QED
    BY <1>4, <1>6, <1>5 DEF SingleStreamInv

\* spawn(): the child is either registered at once or held by the restart in flight.
LEMMA SpawnKeeps ==
    ASSUME RestOK, JobsOK(job), SingleStreamInv, NEW j \in Jobs, NEW p \in Procs, Spawn(j, p)
    PROVE  SingleStreamInv'
  <1> DEFINE c == job[j].chan
  <1>1. c \in Channels /\ Starting(j, c) /\ job[j].pc = "build"
    BY JobFields DEF Spawn, Starting
  <1>2. /\ osState'[p] = "running" /\ chanOf'[p] = c
        /\ \A q \in Procs \ {p} : osState'[q] = osState[q] /\ chanOf'[q] = chanOf[q]
    BY DEF Spawn, RestOK
  <1>3. (\A k \in Jobs : job[k].proc # p) /\ UNCHANGED overlapped
    BY DEF Spawn, Free, Referenced
  <1>4. CASE Register(j, c, p)
    <2>1. \A q \in Procs : Unheard(q) => (osState'[q] = "exited" => osState[q] = "exited")
      BY <1>2
    <2> QED
      BY <1>1, <1>2, <1>3, <1>4, <2>1, RegisterKeeps
  <1>5. CASE Suspend(j, [job[j] EXCEPT !.pc = "prev", !.proc = p]) /\ UNCHANGED streams
    <2> DEFINE r == [job[j] EXCEPT !.pc = "prev", !.proc = p]
    <2>1. \A k \in Jobs : job'[k] = IF k = j THEN r ELSE job[k]
      BY <1>5 DEF Suspend, JobsOK
    <2>2. r.pc = "prev" /\ r.chan = c /\ r.proc = p
      BY JobFields DEF Job
    <2>3. \A q \in Procs \ {p} : Unheard(q)' => Unheard(q)
      BY <2>1, <2>2 DEF Unheard
    <2>4. \A q \in Procs : Unheard(q)' => osState'[q] # "exited"
      BY <1>2, <2>3 DEF SingleStreamInv
    <2>5. \A k \in Jobs : job'[k].pc = "prev" => chanOf'[job'[k].proc] = job'[k].chan
      <3> SUFFICES ASSUME NEW k \in Jobs, job'[k].pc = "prev"
                   PROVE  chanOf'[job'[k].proc] = job'[k].chan
        OBVIOUS
      <3>1. CASE k = j
        BY <1>2, <2>1, <2>2, <3>1
      <3>2. CASE k # j
        <4>1. job'[k] = job[k] /\ job[k].proc \in Procs \ {p}
          BY <1>3, <2>1, <3>2, JobFields
        <4> QED
          BY <1>2, <4>1 DEF SingleStreamInv
      <3> QED
        BY <3>1, <3>2
    <2>6. ASSUME NEW d \in Channels, d \notin overlapped'
          PROVE  Accounted(d)'
      <3>1. Accounted(d)
        BY <1>3, <2>6 DEF SingleStreamInv
      <3>2. \A k \in Jobs : Starting(k, d)' => Starting(k, d)
        BY <1>1, <2>1, <2>2 DEF Starting
      <3>3. ASSUME NEW q \in Procs, Held(q, d)'
            PROVE  \/ streams'[d] = q
                   \/ \E k \in Jobs : job'[k].chan = d /\ job'[k].pc = "prev" /\ job'[k].proc = q
        <4>1. CASE q = p
          BY <1>2, <2>1, <2>2, <3>3, <4>1 DEF Held
        <4>2. CASE q # p
          <5>1. Held(q, d)
            BY <1>2, <3>3, <4>2 DEF Held
          <5>2. \A k \in Jobs : job[k].pc = "prev" => job'[k] = job[k]
            BY <1>1, <2>1
          <5> QED
            BY <1>5, <3>1, <5>1, <5>2 DEF Accounted
        <4> QED
          BY <4>1, <4>2
      <3> QED
        BY <1>5, <3>1, <3>2, <3>3 DEF Accounted
    <2> QED
      BY <2>4, <2>6, <2>5 DEF SingleStreamInv
  <1> QED
    BY <1>4, <1>5 DEF Spawn

\* onExit: the entry it deletes is that of the child that exited.
LEMMA OnExitKeeps ==
    ASSUME RestOK, JobsOK(job), SingleStreamInv, NEW p \in Procs, OnExit(p)
    PROVE  SingleStreamInv'
  <1> DEFINE c == chanOf[p]
  <1>1. c \in Channels /\ osState[p] = "exited" /\ Held(p, c)
    BY DEF OnExit, RestOK, Held
  <1>2. PICK j \in Jobs : Idle(j) /\ Suspend(j, MkJob("exitFind", "exit", c, p, None, 0))
    BY DEF OnExit
  <1>3. QuietJobs
    BY <1>2, QuietSuspend DEF Idle, MkJob
  <1>4. /\ osState'[p] = "none"
        /\ \A q \in Procs \ {p} : osState'[q] = osState[q] /\ chanOf'[q] = chanOf[q]
        /\ \A d \in Channels : streams'[d] = IF d = c THEN None ELSE streams[d]
        /\ UNCHANGED overlapped
    BY DEF OnExit, RestOK, histVars
  <1>5. \A q \in Procs : Unheard(q)' => Unheard(q)
    BY <1>3 DEF QuietJobs, Unheard
  <1>6. \A q \in Procs : Unheard(q)' => osState'[q] # "exited"
    BY <1>4, <1>5 DEF SingleStreamInv
  <1>7. \A k \in Jobs : job'[k].pc = "prev" => chanOf'[job'[k].proc] = job'[k].chan
    <2> SUFFICES ASSUME NEW k \in Jobs, job'[k].pc = "prev"
                 PROVE  chanOf'[job'[k].proc] = job'[k].chan
      OBVIOUS
    <2>1. job'[k] = job[k]
      BY <1>3 DEF QuietJobs
    <2>2. job[k].proc \in Procs /\ job[k].proc # p
      BY <1>1, <2>1, JobFields DEF SingleStreamInv, Unheard
    <2> QED
      BY <1>4, <2>1, <2>2 DEF SingleStreamInv
  <1>8. ASSUME NEW d \in Channels, d \notin overlapped'
        PROVE  Accounted(d)'
    <2>1. Accounted(d)
      BY <1>4, <1>8 DEF SingleStreamInv
    <2>2. \A k, l \in Jobs : Starting(k, d)' /\ Starting(l, d)' => k = l
      BY <1>3, <2>1 DEF QuietJobs, Accounted
    <2>3. \A k \in Jobs : Starting(k, d)' => streams'[d] = None
      BY <1>3, <1>4, <2>1 DEF QuietJobs, Accounted
    <2>4. ASSUME NEW q \in Procs, Held(q, d)'
          PROVE  \/ streams'[d] = q
                 \/ \E k \in Jobs : job'[k].chan = d /\ job'[k].pc = "prev" /\ job'[k].proc = q
      <3>1. q # p /\ Held(q, d)
        BY <1>4, <2>4 DEF Held, Live
      <3>2. ~Unheard(p)
        BY <1>1 DEF SingleStreamInv
      <3>3. d = c => streams[d] # q
        BY <1>1, <2>1, <3>1, <3>2 DEF Accounted, Unheard
      <3> QED
        BY <1>3, <1>4, <2>1, <3>1, <3>3 DEF Accounted, QuietJobs
    <2> QED
      BY <2>2, <2>3, <2>4 DEF Accounted
  <1> QED
    BY <1>6, <1>8, <1>7 DEF SingleStreamInv

LEMMA JobStepKeeps ==
    ASSUME RestOK, JobsOK(job), SingleStreamInv, NEW j \in Jobs, JobStep(j)
    PROVE  SingleStreamInv'
  <1> USE DEF bootVars, procVars, histVars
  <1> DEFINE c == job[j].chan
  <1>1. CASE Load(j)
    <2>1. CASE Suspend(j, [job[j] EXCEPT !.pc = "build"])
      <3> DEFINE r == [job[j] EXCEPT !.pc = "build"]
      <3>1. \A k \in Jobs : job'[k] = IF k = j THEN r ELSE job[k]
        BY <2>1 DEF Suspend, JobsOK
      <3>2. r.pc = "build" /\ r.chan = c /\ job[j].pc = "load"
        BY <1>1, JobFields DEF Job, Load
      <3>3. QuietJobs
        BY <3>1, <3>2 DEF QuietJobs, Starting
      <3> QED
        BY <1>1, <3>3, SameProcs, Quiet DEF Load
    <2>2. CASE Throw(j)
      BY <1>1, <2>2, QuietThrow, SameProcs, Quiet DEF Load
    <2> QED
      BY <1>1, <2>1, <2>2 DEF Load
  <1>2. CASE BuildFails(j)
    BY <1>2, QuietThrow, SameProcs, Quiet DEF BuildFails
  <1>3. ASSUME NEW p \in Procs, Spawn(j, p)
        PROVE  SingleStreamInv'
    BY <1>3, SpawnKeeps
  <1>4. ASSUME NEW p \in Procs, SpawnFails(j, p)
        PROVE  SingleStreamInv'
    <2>1. CASE WorkerGone
      BY <2>1, WorkerGoneKeeps
    <2>2. CASE /\ osState' = [osState EXCEPT ![p] = "failed"]
               /\ chanOf' = [chanOf EXCEPT ![p] = c]
               /\ Register(j, c, p)
               /\ UNCHANGED overlapped
      <3>1. c \in Channels /\ Starting(j, c) /\ job[j].pc # "prev"
        BY <1>4, JobFields DEF SpawnFails, Starting
      <3>2. \A k \in Jobs : job[k].proc # p
        BY <1>4 DEF SpawnFails, Free, Referenced
      <3>3. /\ chanOf'[p] = c /\ osState'[p] = "failed"
            /\ \A q \in Procs \ {p} : osState'[q] = osState[q] /\ chanOf'[q] = chanOf[q]
        BY <2>2 DEF RestOK
      <3> QED
        BY <2>2, <3>1, <3>2, <3>3, RegisterKeeps
    <2> QED
      BY <1>4, <2>1, <2>2 DEF SpawnFails
  <1>5. CASE RegisterKept(j)
    <2> DEFINE p == job[j].proc
    <2>1. c \in Channels /\ p \in Procs /\ Starting(j, c) /\ Unheard(p)
      BY <1>5, JobFields DEF RegisterKept, Starting, Unheard
    <2>2. chanOf[p] = c
      BY <1>5 DEF RegisterKept, SingleStreamInv
    <2> QED
      BY <1>5, <2>1, <2>2, RegisterKeeps DEF RegisterKept
  <1>6. CASE SetCount(j)
    BY <1>6, QuietSuspend, SameProcs, Quiet DEF SetCount, IdleJob, MkJob
  <1>7. CASE BackoffFires(j)
    <2>1. CASE BeginStart(j, c, "auto", job[j].cnt)
      BY <1>7, <2>1, JobFields, SameProcs, BeginKeeps DEF BackoffFires
    <2>2. CASE Suspend(j, IdleJob) /\ UNCHANGED overlapped
      BY <1>7, <2>2, QuietSuspend, SameProcs, Quiet DEF BackoffFires, IdleJob, MkJob
    <2> QED
      BY <1>7, <2>1, <2>2 DEF BackoffFires
  <1>8. CASE FindRow(j)
    <2>1. [job[j] EXCEPT !.pc = "saveRow", !.found = processState[c] # None].pc = "saveRow"
      BY JobFields DEF Job
    <2> QED
      BY <1>8, <2>1, QuietSuspend, SameProcs, Quiet DEF FindRow
  <1>9. CASE SaveRow(j)
    <2>1. [job[j] EXCEPT !.pc = "saveStatus"].pc = "saveStatus"
      BY JobFields DEF Job
    <2> QED
      BY <1>9, <2>1, QuietSuspend, SameProcs, Quiet DEF SaveRow
  <1>10. CASE SaveRowFails(j)
    <2>1. CASE WorkerGone
      BY <2>1, WorkerGoneKeeps
    <2>2. CASE RestartAfterStop(j) /\ UNCHANGED <<streams, procVars>>
      BY <1>10, <2>2, RestartAfterStopKeeps DEF SaveRowFails
    <2>3. CASE Throw(j) /\ UNCHANGED <<streams, procVars, histVars>>
      BY <1>10, <2>3, QuietThrow, SameProcs, Quiet DEF SaveRowFails
    <2> QED
      BY <1>10, <2>1, <2>2, <2>3 DEF SaveRowFails
  <1>11. CASE SaveStatus(j)
    <2>1. UNCHANGED <<streams, procVars>> /\ job[j].pc = "saveStatus"
      BY <1>11 DEF SaveStatus
    <2>2. CASE Suspend(j, [job[j] EXCEPT !.pc = "setCount"]) /\ UNCHANGED overlapped
      <3>1. [job[j] EXCEPT !.pc = "setCount"].pc = "setCount"
        BY JobFields DEF Job
      <3> QED
        BY <2>1, <2>2, <3>1, QuietSuspend, SameProcs, Quiet
    <2>3. CASE Suspend(j, [job[j] EXCEPT !.pc = "backoff"]) /\ UNCHANGED overlapped
      <3>1. [job[j] EXCEPT !.pc = "backoff"].pc = "backoff"
        BY JobFields DEF Job
      <3> QED
        BY <2>1, <2>3, <3>1, QuietSuspend, SameProcs, Quiet
    <2>4. CASE RestartAfterStop(j)
      BY <2>1, <2>4, RestartAfterStopKeeps
    <2>5. CASE Suspend(j, IdleJob) /\ UNCHANGED overlapped
      BY <2>1, <2>5, QuietSuspend, SameProcs, Quiet DEF IdleJob, MkJob
    <2> QED
      BY <1>11, <2>2, <2>3, <2>4, <2>5 DEF SaveStatus, AfterUpdate
  <1>12. CASE ExitFind(j)
    <2> DEFINE p == job[j].proc
    <2>1. \/ Suspend(j, MkJob("findRow", "exit", c, None, "stopped", 0))
          \/ Suspend(j, MkJob("findRow", "exit", c, None, "restarting", Saturate(count[p])))
          \/ Suspend(j, MkJob("findRow", "exit", c, None, "crashed", 0))
      BY <1>12, Zenon DEF ExitFind
    <2> QED
      BY <1>12, <2>1, QuietSuspend, SameProcs, Quiet DEF ExitFind, MkJob
  <1>13. CASE WatchdogKill(j)
    <2>1. QuietProcs
      BY <1>13 DEF WatchdogKill, Kill, QuietProcs, HeldState, Live, RestOK
    <2> QED
      BY <1>13, <2>1, QuietSuspend, Quiet DEF WatchdogKill, IdleJob, MkJob
  <1> QED
    BY <1>1, <1>2, <1>3, <1>4, <1>5, <1>6, <1>7, <1>8, <1>9, <1>10, <1>11, <1>12, <1>13
       DEF JobStep

LEMMA ReceiveKeeps ==
    ASSUME RestOK, JobsOK(job), SingleStreamInv, NEW c \in Channels,
           Receive(c) \/ WatchdogStall(c)
    PROVE  SingleStreamInv'
  <1> USE DEF bootVars, procVars, histVars
  <1>1. ASSUME NEW j \in Jobs, Idle(j), NEW r, Suspend(j, r),
               r.pc \in {"findRow", "watchKill"}
        PROVE  QuietJobs
    BY <1>1, QuietSuspend DEF Idle
  <1>2. ASSUME NEW p, NEW force, Terminate(c, p, force)
        PROVE  QuietProcs
    BY <1>2 DEF Terminate, QuietProcs, HeldState, Live, RestOK
  <1>3. CASE ReceiveStart(c)
    <2>1. PICK j \in Jobs : Idle(j) /\ BeginStart(j, c, "start", 0)
      BY <1>3 DEF ReceiveStart
    <2> QED
      BY <1>3, <2>1, SameProcs, BeginKeeps DEF ReceiveStart, Idle
  <1>4. ASSUME NEW force \in BOOLEAN, ReceiveStop(c, force)
        PROVE  SingleStreamInv'
    <2>1. CASE streams[c] # None
      BY <1>2, <1>4, <2>1, SameJobs, Quiet DEF ReceiveStop
    <2>2. CASE streams[c] = None
      <3>1. QuietJobs
        BY <1>1, <1>4, <2>2 DEF ReceiveStop, MkJob
      <3> QED
        BY <1>4, <2>2, <3>1, SameProcs, Quiet DEF ReceiveStop
    <2> QED
      BY <2>1, <2>2
  <1>5. CASE ReceiveRestart(c)
    <2>1. CASE streams[c] # None
      BY <1>2, <1>5, <2>1, SameJobs, Quiet DEF ReceiveRestart
    <2>2. CASE streams[c] = None
      <3>1. QuietJobs
        BY <1>1, <1>5, <2>2 DEF ReceiveRestart, MkJob
      <3> QED
        BY <1>5, <2>2, <3>1, SameProcs, Quiet DEF ReceiveRestart
    <2> QED
      BY <2>1, <2>2
  <1>6. CASE WatchdogStall(c)
    <2>1. QuietJobs
      BY <1>1, <1>6 DEF WatchdogStall, MkJob
    <2> QED
      BY <1>6, <2>1, SameProcs, Quiet DEF WatchdogStall
  <1> QED
    BY <1>3, <1>4, <1>5, <1>6 DEF Receive

LEMMA ProcStepKeeps ==
    ASSUME RestOK, JobsOK(job), SingleStreamInv, NEW p \in Procs, ProcStep(p)
    PROVE  SingleStreamInv'
  <1> USE DEF bootVars, procVars, histVars
  <1>1. CASE ProcExit(p)
    <2>1. QuietProcs
      BY <1>1 DEF ProcExit, QuietProcs, HeldState, Live, RestOK
    <2> QED
      BY <1>1, <2>1, SameJobs, Quiet DEF ProcExit
  <1>2. CASE OnExit(p)
    BY <1>2, OnExitKeeps
  <1>3. CASE KillTimerFires(p)
    <2>1. QuietProcs
      BY <1>3 DEF KillTimerFires, Kill, QuietProcs, HeldState, Live, RestOK
    <2> QED
      BY <1>3, <2>1, SameJobs, Quiet DEF KillTimerFires
  <1> QED
    BY <1>1, <1>2, <1>3 DEF ProcStep

LEMMA OthersKeep ==
    ASSUME RestOK, JobsOK(job), SingleStreamInv,
           Boot \/ WorkerEnds \/ (\E c \in Channels : Remove(c)) \/ UNCHANGED vars
    PROVE  SingleStreamInv'
  <1> USE DEF bootVars, procVars, histVars
  <1>1. CASE WorkerSubscribes \/ BootQuery
    BY <1>1, SameJobs, SameProcs, Quiet DEF WorkerSubscribes, BootQuery
  <1>2. ASSUME NEW c \in Channels, BootStart(c)
        PROVE  SingleStreamInv'
    <2>1. PICK j \in Jobs : Idle(j) /\ BeginStart(j, c, "boot", 0)
      BY <1>2 DEF BootStart
    <2> QED
      BY <1>2, <2>1, SameProcs, BeginKeeps DEF BootStart, Idle
  <1>3. CASE Shutdown
    <2>1. QuietProcs
      BY <1>3 DEF Shutdown, QuietProcs, HeldState, Live
    <2> QED
      BY <1>3, <2>1, SameJobs, Quiet DEF Shutdown
  <1>4. CASE WorkerExits \/ WorkerCrashes
    BY <1>4, WorkerGoneKeeps DEF WorkerExits, WorkerCrashes
  <1>5. ASSUME NEW c \in Channels, Remove(c)
        PROVE  SingleStreamInv'
    BY <1>5, SameJobs, SameProcs, Quiet DEF Remove, RemoveCheck, RemoveChannel
  <1>6. CASE UNCHANGED vars
    BY <1>6, SameJobs, SameProcs, Quiet DEF vars
  <1> QED
    BY <1>1, <1>2, <1>3, <1>4, <1>5, <1>6 DEF Boot, WorkerEnds

LEMMA InitSingleStream == Init => SingleStreamInv
  BY DEF Init, SingleStreamInv, Accounted, Unheard, Starting, Held, Live, IdleJob, MkJob

\* While no two start() of a channel overlap, every child of it is accounted for: it is
\* the entry of the map or the one the restart in flight has just spawned, and a start is
\* only in flight while the map has no entry (start, startWithCount, onExit).
THEOREM ChildrenAccounted == Spec => []SingleStreamInv
  <1>1. Init => SingleStreamInv
    BY InitSingleStream
  <1>2. TypeOK /\ SingleStreamInv /\ [Next]_vars => SingleStreamInv'
    <2> SUFFICES ASSUME RestOK, JobsOK(job), SingleStreamInv, [Next]_vars
                 PROVE  SingleStreamInv'
      BY DEF TypeOK, RestOK, JobsOK
    <2> QED
      BY JobStepKeeps, ProcStepKeeps, ReceiveKeeps, OthersKeep DEF Next, Command
  <1> QED
    BY <1>1, <1>2, TypeCorrect, PTL DEF Spec

LEMMA AccountedSingle == SingleStreamInv => SingleStream
  <1> SUFFICES ASSUME SingleStreamInv, NEW c \in Channels, c \notin overlapped,
                      NEW p \in Procs, NEW q \in Procs, Held(p, c), Held(q, c)
               PROVE  p = q /\ (streams[c] = p \/ Unheard(p))
    BY DEF SingleStream
  <1>1. Accounted(c)
    BY DEF SingleStreamInv
  <1>2. CASE streams[c] = p
    <2>1. \A j \in Jobs : ~Starting(j, c)
      BY <1>1, <1>2, ConstantsAssumption DEF Accounted
    <2> QED
      BY <1>1, <1>2, <2>1 DEF Accounted, Starting
  <1>3. CASE streams[c] # p
    <2>1. PICK j \in Jobs : job[j].chan = c /\ job[j].pc = "prev" /\ job[j].proc = p
      BY <1>1, <1>3 DEF Accounted
    <2>2. Starting(j, c) /\ streams[c] = None
      BY <1>1, <2>1 DEF Accounted, Starting
    <2>3. PICK k \in Jobs : job[k].chan = c /\ job[k].pc = "prev" /\ job[k].proc = q
      BY <1>1, <2>2, ConstantsAssumption DEF Accounted
    <2>4. j = k
      BY <1>1, <2>1, <2>3 DEF Accounted, Starting
    <2> QED
      BY <2>1, <2>3, <2>4 DEF Unheard
  <1> QED
    BY <1>2, <1>3

\* A channel whose starts never overlapped has at most one FFmpeg child, and the worker
\* can reach it to stop it: for any number of channels, commands and restarts in flight,
\* through crashes of the children and of the worker.
THEOREM SingleStreamHolds == Spec => []SingleStream
  <1>1. SingleStreamInv => SingleStream
    BY AccountedSingle
  <1> QED
    BY <1>1, ChildrenAccounted, PTL

----------------------------------------------------------------------------
(***************************************************************************)
(* What holds when clients, stalls and shutdowns meet settled channels     *)
(* (Serial) and no child dies while its channel is busy: a channel has one *)
(* coroutine at a time beside its watchdog, and this coroutine knows       *)
(* whether the channel has an entry.                                       *)
(***************************************************************************)
Works(q) == q.pc # "idle" /\ q.kind # "watchdog"

Starts == {"start", "restart", "boot", "auto"}

\* The start of q has registered its child.
Entered(q) == q.pc = "setCount" \/ (Writes(q) /\ q.kind \in Starts)

\* The awaits at which a coroutine of a kind may be.
Placed(q) ==
    /\ q.pc = "idle" => q = IdleJob
    /\ q.pc # "idle" => (q.kind = "watchdog" <=> q.pc = "watchKill")
    /\ q.pc \in {"load", "build"} => q.kind \in Starts
    /\ q.pc = "prev" => q.kind = "restart"
    /\ q.pc = "setCount" => q.kind = "auto"
    /\ q.pc = "exitFind" => q.kind = "exit"
    /\ q.pc = "backoff" => q.kind = "exit" /\ q.target = "restarting"
    /\ Writes(q) => (q.target = "running" <=> q.kind \in Starts)

\* Only when its channel is deleted does a start fail with its child registered.
Fits(q) ==
    /\ Entered(q) => streams[q.chan] # None
    /\ ~Entered(q) => \/ streams[q.chan] = None
                      \/ q.kind \in {"fail", "giveUp"} /\ ~channelRow[q.chan]

\* What the coroutine q knows of the children and of the process row.
Knows(q) ==
    /\ q.pc = "prev" => osState[q.proc] = "running" /\ chanOf[q.proc] = q.chan
    /\ q.pc = "watchKill" => osState[q.proc] = "none" \/ chanOf[q.proc] = q.chan
    /\ q.pc = "exitFind" => osState[q.proc] = "none"
    /\ q.pc = "saveRow" /\ channelRow[q.chan] => q.found \/ processState[q.chan] = None

Ends == {"terminating", "killed", "exited"}

JobsAlone ==
    /\ \A j, k \in Jobs :
          Works(job[j]) /\ Works(job[k]) /\ job[j].chan = job[k].chan => j = k
    /\ \A j \in Jobs, p \in Procs :
          Works(job[j]) /\ chanOf[p] = job[j].chan => osState[p] \notin Ends
    /\ \A j \in Jobs :
          job[j].pc # "idle" => worker \in {"up", "closing"} /\ job[j].chan \notin bootQueue
    /\ \A j, k \in Jobs :
          job[j].pc = "watchKill" /\ Works(job[k]) /\ job[j].chan = job[k].chan
             => osState[job[j].proc] = "none"
    /\ \A j, k \in Jobs :
          job[j].pc = "exitFind" /\ job[k].pc = "exitFind" /\ job[j].proc = job[k].proc => j = k

ChildrenKnown ==
    /\ worker \in {"down", "booting"} => bootQueue = {} /\ \A c \in Channels : streams[c] = None
    /\ \A c \in bootQueue : streams[c] = None
    /\ \A p \in Procs : osState[p] # "none" =>
          \/ streams[chanOf[p]] = p
          \/ \E j \in Jobs : job[j].pc = "prev" /\ job[j].proc = p
    /\ \A c \in Channels : streams[c] # None =>
          chanOf[streams[c]] = c /\ osState[streams[c]] # "none"
    /\ \A p \in Procs : killTimer[p] # None => osState[p] # "running"

SerialInv ==
    /\ JobsAlone
    /\ ChildrenKnown
    /\ \A j \in Jobs : Placed(job[j]) /\ Knows(job[j]) /\ (Works(job[j]) => Fits(job[j]))

Settling == Serial /\ "quickExit" \notin Events

LEMMA IdleFields ==
    /\ IdleJob.pc = "idle" /\ IdleJob.kind = None /\ IdleJob.chan = None /\ IdleJob.proc = None
    /\ ~Works(IdleJob) /\ ~Writes(IdleJob) /\ Placed(IdleJob) /\ Knows(IdleJob)
  <1>1. IdleJob.pc = "idle" /\ IdleJob.kind = None /\ IdleJob.chan = None /\ IdleJob.proc = None
    BY DEF IdleJob, MkJob
  <1> QED
    BY <1>1 DEF Works, Writes, Placed, Knows

LEMMA Suspended ==
    ASSUME JobsOK(job), NEW j \in Jobs, NEW r, Suspend(j, r)
    PROVE  /\ \A k \in Jobs : job'[k] = IF k = j THEN r ELSE job[k]
           /\ job'[j] = r
  BY DEF Suspend, JobsOK

LEMMA SerialStart == Init => SerialInv
  <1> SUFFICES ASSUME Init PROVE SerialInv
    OBVIOUS
  <1>1. \A j \in Jobs : job[j] = IdleJob
    BY DEF Init
  <1>2. JobsAlone
    BY <1>1, IdleFields DEF JobsAlone
  <1>3. ChildrenKnown
    BY DEF Init, ChildrenKnown
  <1> QED
    BY <1>1, <1>2, <1>3, IdleFields DEF SerialInv

LEMMA SerialGone == WorkerGone => SerialInv'
  <1> SUFFICES ASSUME WorkerGone PROVE SerialInv'
    OBVIOUS
  <1>1. \A j \in Jobs : job'[j] = IdleJob
    BY DEF WorkerGone
  <1>2. JobsAlone'
    BY <1>1, IdleFields DEF JobsAlone, Works
  <1>3. ChildrenKnown'
    BY DEF WorkerGone, ChildrenKnown
  <1>4. \A j \in Jobs : Placed(job[j])' /\ Knows(job[j])' /\ ~Works(job[j])'
    BY <1>1, IdleFields DEF Placed, Knows, Works, Writes
  <1> QED
    BY <1>2, <1>3, <1>4 DEF SerialInv

\* Job j moves on, or ends, and the children stay as they are.
LEMMA SerialMoves ==
    ASSUME RestOK, JobsOK(job), SerialInv, NEW j \in Jobs, NEW r, Suspend(j, r),
           UNCHANGED <<streams, osState, chanOf, killTimer, worker, bootQueue, channelRow>>,
           Works(job[j]), job[j].pc # "prev",
           \A c \in Channels : c # job[j].chan => processState'[c] = processState[c],
           \/ r = IdleJob
           \/ /\ r.chan = job[j].chan
              /\ r.pc \notin {"idle", "prev", "watchKill", "exitFind", "saveRow"}
              /\ Works(r) /\ Placed(r) /\ Fits(r)
    PROVE  SerialInv'
  <1>1. \A k \in Jobs : job'[k] = IF k = j THEN r ELSE job[k]
    BY Suspended
  <1>2. \A k \in Jobs : Works(job'[k]) => Works(job[k]) /\ job'[k].chan = job[k].chan
    BY <1>1, IdleFields
  <1>3. \A k \in Jobs : job'[k].pc \in {"prev", "watchKill", "exitFind"} => job'[k] = job[k]
    BY <1>1, IdleFields
  <1>4. \A k \in Jobs : job'[k].pc # "idle" => job[k].pc # "idle" /\ job'[k].chan = job[k].chan
    BY <1>1, IdleFields DEF Works
  <1>5. JobsAlone'
    BY <1>2, <1>3, <1>4 DEF SerialInv, JobsAlone, Works
  <1>6. \A k \in Jobs : job[k].pc = "prev" => job'[k] = job[k]
    BY <1>1
  <1>7. ChildrenKnown'
    BY <1>6 DEF SerialInv, ChildrenKnown
  <1>8. ASSUME NEW k \in Jobs
        PROVE  Placed(job[k])' /\ Knows(job[k])' /\ (Works(job[k])' => Fits(job[k])')
    <2>1. CASE k = j
      <3>1. job'[k] = r
        BY <1>1, <2>1
      <3>2. CASE r = IdleJob
        BY <3>1, <3>2, IdleFields DEF Placed, Knows, Works, Writes
      <3>3. CASE r # IdleJob
        <4>1. r.pc \notin {"prev", "watchKill", "exitFind", "saveRow"} /\ Placed(r) /\ Fits(r)
          BY <3>3
        <4> QED
          BY <3>1, <4>1 DEF Placed, Knows, Fits, Works, Writes, Entered
      <3> QED
        BY <3>2, <3>3
    <2>2. CASE k # j
      <3>1. job'[k] = job[k] /\ Placed(job[k]) /\ Knows(job[k]) /\ (Works(job[k]) => Fits(job[k]))
        BY <1>1, <2>2 DEF SerialInv
      <3>2. job[k].pc = "saveRow" => job[k].chan # job[j].chan
        <4>1. job[k].pc = "saveRow" => Works(job[k])
          BY <3>1 DEF Placed, Works
        <4> QED
          BY <2>2, <4>1 DEF SerialInv, JobsAlone
      <3> QED
        BY <3>1, <3>2, JobFields DEF Placed, Knows, Fits, Works, Writes, Entered
    <2> QED
      BY <2>1, <2>2
  <1> QED
    BY <1>5, <1>7, <1>8 DEF SerialInv

\* Job j begins to work for a channel that nobody works for.
LEMMA SerialArrives ==
    ASSUME RestOK, JobsOK(job), SerialInv, NEW j \in Jobs, NEW r, Suspend(j, r), Idle(j),
           NEW c \in Channels, r.chan = c, worker \in {"up", "closing"}, c \notin bootQueue',
           \A k \in Jobs : job[k].chan # c,
           \A p \in Procs : chanOf[p] = c => osState[p] \notin Ends,
           UNCHANGED <<streams, osState, chanOf, killTimer, worker, channelRow, processState>>,
           bootQueue' \subseteq bootQueue,
           r.pc \notin {"idle", "prev", "watchKill", "exitFind", "saveRow"},
           Works(r), Placed(r), Fits(r)
    PROVE  SerialInv'
  <1>1. \A k \in Jobs : job'[k] = IF k = j THEN r ELSE job[k]
    BY Suspended
  <1>2. \A k \in Jobs : job'[k].pc \in {"prev", "watchKill", "exitFind"} => job'[k] = job[k]
    BY <1>1
  <1>3. JobsAlone'
    <2>1. \A k, l \in Jobs :
             Works(job[k])' /\ Works(job[l])' /\ job'[k].chan = job'[l].chan => k = l
      BY <1>1 DEF SerialInv, JobsAlone, Works
    <2>2. \A k \in Jobs, p \in Procs :
             Works(job[k])' /\ chanOf'[p] = job'[k].chan => osState'[p] \notin Ends
      BY <1>1 DEF SerialInv, JobsAlone, Works
    <2>3. \A k \in Jobs :
             job'[k].pc # "idle" => worker' \in {"up", "closing"} /\ job'[k].chan \notin bootQueue'
      BY <1>1 DEF SerialInv, JobsAlone
    <2>4. \A k, l \in Jobs :
             job'[k].pc = "watchKill" /\ Works(job[l])' /\ job'[k].chan = job'[l].chan
                => osState'[job'[k].proc] = "none"
      BY <1>1, <1>2 DEF SerialInv, JobsAlone, Works
    <2>5. \A k, l \in Jobs :
             job'[k].pc = "exitFind" /\ job'[l].pc = "exitFind" /\ job'[k].proc = job'[l].proc => k = l
      BY <1>1, <1>2 DEF SerialInv, JobsAlone
    <2> QED
      BY <2>1, <2>2, <2>3, <2>4, <2>5 DEF JobsAlone
  <1>4. ChildrenKnown'
    <2>1. \A k \in Jobs : job[k].pc = "prev" => job'[k] = job[k]
      BY <1>1 DEF Idle
    <2> QED
      BY <2>1 DEF SerialInv, ChildrenKnown
  <1>5. ASSUME NEW k \in Jobs
        PROVE  Placed(job[k])' /\ Knows(job[k])' /\ (Works(job[k])' => Fits(job[k])')
    <2>1. CASE k = j
      BY <1>1, <2>1 DEF Placed, Knows, Fits, Works, Writes, Entered
    <2>2. CASE k # j
      BY <1>1, <2>2 DEF SerialInv, Placed, Knows, Fits, Works, Writes, Entered
    <2> QED
      BY <2>1, <2>2
  <1> QED
    BY <1>3, <1>4, <1>5 DEF SerialInv

\* Children come nearer to their end, of channels that nobody works for.
LEMMA SerialChildren ==
    ASSUME RestOK, JobsOK(job), SerialInv,
           \A k \in Jobs : job'[k] = job[k] \/ (job[k].pc = "watchKill" /\ job'[k] = IdleJob),
           \A p \in Procs : osState'[p] = osState[p] \/
               /\ osState[p] \in Live /\ osState'[p] \in Ends
               /\ \A k \in Jobs : Works(job[k]) => job[k].chan # chanOf[p],
           \A p \in Procs : killTimer'[p] # None => osState'[p] # "running",
           UNCHANGED <<streams, chanOf, bootQueue, channelRow, processState>>,
           worker' = worker \/ (worker = "up" /\ worker' = "closing")
    PROVE  SerialInv'
  <1>1. \A k \in Jobs : job'[k].pc # "idle" => job'[k] = job[k]
    BY IdleFields
  <1>2. \A k \in Jobs : job[k].pc = "prev" => job'[k] = job[k]
    OBVIOUS
  <1>3. \A p \in Procs : osState'[p] = "none" <=> osState[p] = "none"
    BY DEF Live, Ends
  <1>4. \A k \in Jobs : Works(job[k])' => job'[k] = job[k] /\ Works(job[k])
    BY <1>1 DEF Works
  <1>5. JobsAlone'
    <2>1. \A k \in Jobs, p \in Procs :
             Works(job[k])' /\ chanOf'[p] = job'[k].chan => osState'[p] \notin Ends
      BY <1>4 DEF SerialInv, JobsAlone
    <2>2. \A k, l \in Jobs :
             job'[k].pc = "watchKill" /\ Works(job[l])' /\ job'[k].chan = job'[l].chan
                => osState'[job'[k].proc] = "none"
      <3> SUFFICES ASSUME NEW k \in Jobs, NEW l \in Jobs, job'[k].pc = "watchKill",
                          Works(job[l])', job'[k].chan = job'[l].chan
                   PROVE  osState'[job'[k].proc] = "none"
        OBVIOUS
      <3>1. job'[k] = job[k] /\ job[k].proc \in Procs /\ job'[l] = job[l] /\ Works(job[l])
        BY <1>1, <1>4, JobFields
      <3> QED
        BY <1>3, <3>1 DEF SerialInv, JobsAlone
    <2>3. \A k, l \in Jobs :
             job'[k].pc = "exitFind" /\ job'[l].pc = "exitFind" /\ job'[k].proc = job'[l].proc => k = l
      BY <1>1 DEF SerialInv, JobsAlone
    <2>4. \A k, l \in Jobs :
             Works(job[k])' /\ Works(job[l])' /\ job'[k].chan = job'[l].chan => k = l
      BY <1>4 DEF SerialInv, JobsAlone
    <2>5. \A k \in Jobs :
             job'[k].pc # "idle" => worker' \in {"up", "closing"} /\ job'[k].chan \notin bootQueue'
      BY <1>1 DEF SerialInv, JobsAlone
    <2> QED
      BY <2>1, <2>2, <2>3, <2>4, <2>5 DEF JobsAlone
  <1>6. ChildrenKnown'
    <2>1. \A c \in Channels : streams'[c] # None =>
             chanOf'[streams'[c]] = c /\ osState'[streams'[c]] # "none"
      BY <1>3 DEF SerialInv, ChildrenKnown, RestOK
    <2>2. \A p \in Procs : osState'[p] # "none" =>
             \/ streams'[chanOf'[p]] = p
             \/ \E k \in Jobs : job'[k].pc = "prev" /\ job'[k].proc = p
      BY <1>2, <1>3 DEF SerialInv, ChildrenKnown
    <2> QED
      BY <2>1, <2>2 DEF SerialInv, ChildrenKnown
  <1>7. ASSUME NEW k \in Jobs
        PROVE  Placed(job[k])' /\ Knows(job[k])' /\ (Works(job[k])' => Fits(job[k])')
    <2>1. CASE job'[k] # job[k]
      <3>1. job'[k] = IdleJob
        BY <2>1
      <3> QED
        BY <3>1, IdleFields DEF Placed, Knows, Works, Writes
    <2>2. CASE job'[k] = job[k]
      <3>1. Placed(job[k]) /\ Knows(job[k]) /\ (Works(job[k]) => Fits(job[k]))
        BY DEF SerialInv
      <3>2. Placed(job[k])' /\ (Works(job[k])' => Fits(job[k])')
        BY <2>2, <3>1 DEF Placed, Fits, Works, Writes, Entered
      <3>3. job[k].pc \in {"prev", "exitFind", "watchKill"} => job[k].proc \in Procs
        BY JobFields
      <3>4. job[k].pc = "prev" => osState'[job[k].proc] = "running"
        <4> SUFFICES ASSUME job[k].pc = "prev" PROVE osState'[job[k].proc] = "running"
          OBVIOUS
        <4>1. Works(job[k])
          BY <3>1 DEF Placed, Works
        <4> QED
          BY <3>1, <3>3, <4>1 DEF Knows
      <3> QED
        BY <1>3, <2>2, <3>1, <3>2, <3>3, <3>4 DEF Knows
    <2> QED
      BY <2>1, <2>2
  <1> QED
    BY <1>5, <1>6, <1>7 DEF SerialInv

\* The child of the start j is entered in the map.
LEMMA SerialRegisters ==
    ASSUME RestOK, JobsOK(job), SerialInv, NEW j \in Jobs, NEW p \in Procs,
           job[j].pc \in {"build", "prev"}, Register(j, job[j].chan, p),
           osState'[p] \in {"running", "failed"}, chanOf'[p] = job[j].chan,
           \A q \in Procs \ {p} : osState'[q] = osState[q] /\ chanOf'[q] = chanOf[q],
           job[j].pc = "prev" => job[j].proc = p /\ UNCHANGED <<osState, chanOf>>,
           job[j].pc # "prev" => \A k \in Jobs : job[k].proc # p,
           killTimer[p] = None, \A c \in Channels : streams[c] # p,
           UNCHANGED <<killTimer, worker, bootQueue, channelRow, processState>>
    PROVE  SerialInv'
  <1> DEFINE c == job[j].chan
             r == MkJob("findRow", job[j].kind, c, None, "running", job[j].cnt)
  <1>1. \A k \in Jobs : job'[k] = IF k = j THEN r ELSE job[k]
    BY Suspended DEF Register
  <1>2. r.pc = "findRow" /\ r.kind = job[j].kind /\ r.chan = c /\ r.target = "running"
    BY DEF MkJob
  <1>3. \A d \in Channels : streams'[d] = IF d = c THEN p ELSE streams[d]
    BY DEF Register, RestOK
  <1>4. c \in Channels /\ p # None
    BY JobFields, ConstantsAssumption
  <1>5. job[j].kind \in Starts /\ Works(job[j])
    BY DEF SerialInv, Placed, Works, Starts
  <1>6. streams[c] = None
    BY <1>5 DEF SerialInv, Fits, Entered, Writes, Starts
  <1> HIDE DEF r
  <1>7. Works(r) /\ Placed(r) /\ Entered(r)
    BY <1>2, <1>5 DEF Works, Placed, Entered, Writes, Starts
  <1>8. \A k \in Jobs : Works(job[k])' => Works(job[k]) /\ job'[k].chan = job[k].chan
    BY <1>1, <1>2, <1>5
  <1>9. \A k \in Jobs : job'[k].pc \in {"prev", "watchKill", "exitFind"} => k # j /\ job'[k] = job[k]
    BY <1>1, <1>2
  <1>10. \A k \in Jobs : k # j /\ job[k].pc \in {"prev", "exitFind"} => job[k].proc # p
    <2> SUFFICES ASSUME NEW k \in Jobs, k # j, job[k].pc \in {"prev", "exitFind"}, job[k].proc = p
                 PROVE  FALSE
      OBVIOUS
    <2>1. job[j].pc = "prev" /\ job[j].proc = p
      BY <1>4
    <2>2. osState[p] = "running" /\ chanOf[p] = c
      BY <2>1 DEF SerialInv, Knows
    <2>3. job[k].pc = "prev" /\ job[k].chan = c
      BY <2>2 DEF SerialInv, Knows
    <2>4. Works(job[k])
      BY <2>3 DEF SerialInv, Placed, Works
    <2> QED
      BY <1>5, <2>3, <2>4 DEF SerialInv, JobsAlone
  <1>11. \A k \in Jobs : k # j /\ job[k].pc = "watchKill" =>
            job[k].proc # p \/ (chanOf'[p] = job[k].chan /\ osState'[p] = osState[p])
    BY <1>4 DEF SerialInv, Knows
  <1>13. JobsAlone'
    <2>1. \A k, l \in Jobs :
             Works(job[k])' /\ Works(job[l])' /\ job'[k].chan = job'[l].chan => k = l
      BY <1>8 DEF SerialInv, JobsAlone
    <2>2. \A k \in Jobs, q \in Procs :
             Works(job[k])' /\ chanOf'[q] = job'[k].chan => osState'[q] \notin Ends
      BY <1>8 DEF SerialInv, JobsAlone, Ends
    <2>3. \A k \in Jobs :
             job'[k].pc # "idle" => worker' \in {"up", "closing"} /\ job'[k].chan \notin bootQueue'
      BY <1>1, <1>2 DEF SerialInv, JobsAlone
    <2>4. \A k, l \in Jobs :
             job'[k].pc = "watchKill" /\ Works(job[l])' /\ job'[k].chan = job'[l].chan
                => osState'[job'[k].proc] = "none"
      <3> SUFFICES ASSUME NEW k \in Jobs, NEW l \in Jobs, job'[k].pc = "watchKill",
                          Works(job[l])', job'[k].chan = job'[l].chan
                   PROVE  osState'[job'[k].proc] = "none"
        OBVIOUS
      <3>1. k # j /\ job'[k] = job[k] /\ job[k].proc \in Procs /\ osState[job[k].proc] = "none"
        BY <1>8, <1>9, JobFields DEF SerialInv, JobsAlone
      <3> QED
        BY <1>11, <3>1
    <2>5. \A k, l \in Jobs :
             job'[k].pc = "exitFind" /\ job'[l].pc = "exitFind" /\ job'[k].proc = job'[l].proc => k = l
      BY <1>9 DEF SerialInv, JobsAlone
    <2> QED
      BY <2>1, <2>2, <2>3, <2>4, <2>5 DEF JobsAlone
  <1>14. ChildrenKnown'
    <2>1. ASSUME NEW q \in Procs, osState'[q] # "none"
          PROVE  \/ streams'[chanOf'[q]] = q
                 \/ \E k \in Jobs : job'[k].pc = "prev" /\ job'[k].proc = q
      <3>1. CASE q = p
        BY <1>3, <1>4, <3>1
      <3>2. CASE q # p
        <4>1. osState[q] # "none" /\ chanOf'[q] = chanOf[q] /\ chanOf[q] \in Channels
          BY <2>1, <3>2 DEF RestOK
        <4>2. CASE streams[chanOf[q]] = q
          <5>1. chanOf[q] # c
            BY <1>6, <4>2, ConstantsAssumption
          <5> QED
            BY <1>3, <4>1, <4>2, <5>1
        <4>3. CASE \E k \in Jobs : job[k].pc = "prev" /\ job[k].proc = q
          BY <1>1, <3>2, <4>3
        <4> QED
          BY <4>1, <4>2, <4>3 DEF SerialInv, ChildrenKnown
      <3> QED
        BY <3>1, <3>2
    <2>2. ASSUME NEW d \in Channels, streams'[d] # None
          PROVE  chanOf'[streams'[d]] = d /\ osState'[streams'[d]] # "none"
      BY <1>3, <1>4, <2>2 DEF SerialInv, ChildrenKnown, RestOK
    <2>3. worker \in {"up", "closing"} /\ c \notin bootQueue
      BY DEF SerialInv, JobsAlone
    <2> QED
      BY <1>3, <1>4, <2>1, <2>2, <2>3 DEF SerialInv, ChildrenKnown, RestOK
  <1>15. ASSUME NEW k \in Jobs
         PROVE  Placed(job[k])' /\ Knows(job[k])' /\ (Works(job[k])' => Fits(job[k])')
    <2>1. CASE k = j
      <3>1. job'[k] = r
        BY <1>1, <2>1
      <3>2. Fits(job[k])'
        BY <1>2, <1>3, <1>4, <1>7, <3>1 DEF Fits, Entered, Writes
      <3> QED
        BY <1>2, <1>7, <3>1, <3>2 DEF Placed, Knows, Writes
    <2>2. CASE k # j
      <3>1. job'[k] = job[k] /\ Placed(job[k]) /\ Knows(job[k]) /\ (Works(job[k]) => Fits(job[k]))
        BY <1>1, <2>2 DEF SerialInv
      <3>2. Works(job[k]) => job[k].chan # c /\ job[k].chan \in Channels
        BY <1>5, <2>2, JobFields DEF SerialInv, JobsAlone, Works
      <3>3. Works(job[k])' => Fits(job[k])'
        BY <1>3, <3>1, <3>2 DEF Fits, Works, Writes, Entered
      <3>4. job[k].pc \in {"prev", "exitFind", "watchKill"} => job[k].proc \in Procs
        BY JobFields
      <3>5. Knows(job[k])'
        BY <1>10, <1>11, <2>2, <3>1, <3>4 DEF Knows
      <3> QED
        BY <3>1, <3>3, <3>5 DEF Placed, Writes
    <2> QED
      BY <2>1, <2>2
  <1> QED
    BY <1>13, <1>14, <1>15 DEF SerialInv

LEMMA LoadFits ==
    ASSUME NEW kind \in Starts, NEW c \in Channels, NEW n, streams[c] = None
    PROVE  /\ Works(MkJob("load", kind, c, None, None, n)) /\ Placed(MkJob("load", kind, c, None, None, n))
           /\ Fits(MkJob("load", kind, c, None, None, n))
           /\ MkJob("load", kind, c, None, None, n).chan = c
           /\ MkJob("load", kind, c, None, None, n).pc = "load"
  <1> DEFINE r == MkJob("load", kind, c, None, None, n)
  <1>1. r.pc = "load" /\ r.kind = kind /\ r.chan = c
    BY DEF MkJob
  <1> HIDE DEF r
  <1>2. Works(r) /\ Placed(r) /\ Fits(r)
    BY <1>1 DEF Works, Placed, Fits, Entered, Writes, Starts
  <1> QED
    BY <1>1, <1>2 DEF r

\* The state that a coroutine without a child writes.
LEMMA WriteFits ==
    ASSUME NEW kind \in Kind \ (Starts \cup {"watchdog"}), NEW c \in Channels,
           NEW target \in StreamState \ {"running"}, NEW n,
           \/ streams[c] = None
           \/ kind \in {"fail", "giveUp"} /\ ~channelRow[c]
    PROVE  /\ Works(MkJob("findRow", kind, c, None, target, n))
           /\ Placed(MkJob("findRow", kind, c, None, target, n))
           /\ Fits(MkJob("findRow", kind, c, None, target, n))
           /\ MkJob("findRow", kind, c, None, target, n).chan = c
           /\ MkJob("findRow", kind, c, None, target, n).pc = "findRow"
  <1> DEFINE r == MkJob("findRow", kind, c, None, target, n)
  <1>1. r.pc = "findRow" /\ r.kind = kind /\ r.chan = c /\ r.target = target
    BY DEF MkJob
  <1> HIDE DEF r
  <1>2. Works(r) /\ Placed(r) /\ Fits(r)
    BY <1>1 DEF Works, Placed, Fits, Entered, Writes, Starts
  <1> QED
    BY <1>1, <1>2 DEF r

LEMMA SerialThrows ==
    ASSUME RestOK, JobsOK(job), SerialInv, NEW j \in Jobs, Throw(j),
           UNCHANGED <<streams, osState, chanOf, killTimer, worker, bootQueue, channelRow, processState>>,
           Works(job[j]), job[j].pc # "prev",
           streams[job[j].chan] = None \/ ~channelRow[job[j].chan]
    PROVE  SerialInv'
  <1> DEFINE c == job[j].chan
  <1>1. c \in Channels
    BY JobFields DEF Works
  <1>2. \/ \E kind \in {"fail", "giveUp"}, target \in {"error", "crashed"} :
               Suspend(j, MkJob("findRow", kind, c, None, target, 0))
        \/ Suspend(j, IdleJob)
    BY Zenon DEF Throw
  <1>3. ASSUME NEW kind \in {"fail", "giveUp"}, NEW target \in {"error", "crashed"},
               Suspend(j, MkJob("findRow", kind, c, None, target, 0))
        PROVE  SerialInv'
    <2> DEFINE r == MkJob("findRow", kind, c, None, target, 0)
    <2>1. Works(r) /\ Placed(r) /\ Fits(r) /\ r.chan = c /\ r.pc = "findRow"
      BY <1>1, WriteFits DEF Kind, Starts, StreamState
    <2> HIDE DEF r
    <2>2. Suspend(j, r)
      BY <1>3 DEF r
    <2> QED
      BY <2>1, <2>2, SerialMoves
  <1> QED
    BY <1>2, <1>3, SerialMoves

\* The coroutine j goes on to start its channel.
LEMMA SerialBegins ==
    ASSUME RestOK, JobsOK(job), SerialInv, NEW j \in Jobs, NEW kind \in Starts, NEW n,
           Works(job[j]), job[j].pc # "prev", BeginStart(j, job[j].chan, kind, n),
           streams[job[j].chan] = None,
           UNCHANGED <<streams, osState, chanOf, killTimer, worker, bootQueue, channelRow, processState>>
    PROVE  SerialInv'
  <1> DEFINE c == job[j].chan
             r == MkJob("load", kind, c, None, None, n)
  <1>1. c \in Channels
    BY JobFields DEF Works
  <1>2. Works(r) /\ Placed(r) /\ Fits(r) /\ r.chan = c /\ r.pc = "load"
    BY <1>1, LoadFits
  <1>3. Suspend(j, r)
    BY DEF BeginStart
  <1> HIDE DEF r
  <1> QED
    BY <1>2, <1>3, SerialMoves

\* spawn(): the child runs, or never will; a restart awaits once more before it enters it.
LEMMA SerialSpawns ==
    ASSUME RestOK, JobsOK(job), SerialInv, NEW j \in Jobs, NEW p \in Procs,
           Spawn(j, p) \/ SpawnFails(j, p)
    PROVE  SerialInv'
  <1> DEFINE c == job[j].chan
  <1>1. /\ job[j].pc = "build" /\ c \in Channels /\ p # None
        /\ osState[p] = "none" /\ killTimer[p] = None
        /\ \A d \in Channels : streams[d] # p
        /\ \A k \in Jobs : job[k].proc # p
    BY JobFields, ConstantsAssumption DEF Spawn, SpawnFails, Free, Referenced
  <1>2. Works(job[j])
    BY <1>1 DEF SerialInv, Placed, Works, Starts
  <1>3. CASE WorkerGone
    BY <1>3, SerialGone
  <1>4. CASE Register(j, c, p) /\ ~WorkerGone
    <2>1. /\ osState'[p] \in {"running", "failed"} /\ chanOf'[p] = c
          /\ \A q \in Procs \ {p} : osState'[q] = osState[q] /\ chanOf'[q] = chanOf[q]
          /\ UNCHANGED <<killTimer, worker, bootQueue, channelRow, processState>>
      BY <1>1, <1>4 DEF Spawn, SpawnFails, RestOK, dbVars, bootVars
    <2> QED
      BY <1>1, <1>4, <2>1, SerialRegisters
  <1>5. CASE /\ Suspend(j, [job[j] EXCEPT !.pc = "prev", !.proc = p])
             /\ UNCHANGED streams /\ Spawn(j, p) /\ job[j].kind = "restart"
    <2> DEFINE r == [job[j] EXCEPT !.pc = "prev", !.proc = p]
    <2>1. r.pc = "prev" /\ r.proc = p /\ r.chan = c /\ r.kind = "restart"
      BY <1>5, JobFields DEF Job
    <2>2. \A k \in Jobs : job'[k] = IF k = j THEN r ELSE job[k]
      BY <1>5, Suspended
    <2> HIDE DEF r
    <2>3. /\ osState'[p] = "running" /\ chanOf'[p] = c
          /\ \A q \in Procs \ {p} : osState'[q] = osState[q] /\ chanOf'[q] = chanOf[q]
          /\ UNCHANGED <<streams, killTimer, worker, bootQueue, channelRow, processState>>
      BY <1>1, <1>5 DEF Spawn, RestOK, dbVars, bootVars
    <2>4. \A k \in Jobs : Works(job[k])' => Works(job[k]) /\ job'[k].chan = job[k].chan
      BY <1>2, <2>1, <2>2
    <2>5. \A k \in Jobs : job'[k].pc \in {"watchKill", "exitFind"} =>
             k # j /\ job'[k] = job[k] /\ job[k].proc \in Procs \ {p}
      BY <1>1, <2>1, <2>2, JobFields
    <2>6. JobsAlone'
      <3>1. \A k, l \in Jobs :
               Works(job[k])' /\ Works(job[l])' /\ job'[k].chan = job'[l].chan => k = l
        BY <2>4 DEF SerialInv, JobsAlone
      <3>2. \A k \in Jobs, q \in Procs :
               Works(job[k])' /\ chanOf'[q] = job'[k].chan => osState'[q] \notin Ends
        BY <2>3, <2>4 DEF SerialInv, JobsAlone, Ends
      <3>3. \A k \in Jobs :
               job'[k].pc # "idle" => worker' \in {"up", "closing"} /\ job'[k].chan \notin bootQueue'
        BY <1>1, <2>1, <2>2, <2>3 DEF SerialInv, JobsAlone
      <3>4. \A k, l \in Jobs :
               job'[k].pc = "watchKill" /\ Works(job[l])' /\ job'[k].chan = job'[l].chan
                  => osState'[job'[k].proc] = "none"
        BY <2>3, <2>4, <2>5 DEF SerialInv, JobsAlone
      <3>5. \A k, l \in Jobs :
               job'[k].pc = "exitFind" /\ job'[l].pc = "exitFind" /\ job'[k].proc = job'[l].proc
                  => k = l
        BY <2>5 DEF SerialInv, JobsAlone
      <3> QED
        BY <3>1, <3>2, <3>3, <3>4, <3>5 DEF JobsAlone
    <2>7. ChildrenKnown'
      <3>1. \A d \in Channels : streams[d] # None => streams[d] \in Procs \ {p}
        BY <1>1 DEF RestOK
      <3>2. \A d \in Channels : streams'[d] # None =>
               chanOf'[streams'[d]] = d /\ osState'[streams'[d]] # "none"
        BY <2>3, <3>1 DEF SerialInv, ChildrenKnown
      <3>3. \A q \in Procs : osState'[q] # "none" =>
               \/ streams'[chanOf'[q]] = q
               \/ \E k \in Jobs : job'[k].pc = "prev" /\ job'[k].proc = q
        <4> TAKE q \in Procs
        <4>1. CASE q = p
          BY <2>1, <2>2, <4>1
        <4>2. CASE q # p
          <5>1. \A k \in Jobs : job[k].pc = "prev" => job'[k] = job[k]
            BY <1>1, <2>2
          <5> QED
            BY <2>3, <4>2, <5>1 DEF SerialInv, ChildrenKnown
        <4> QED
          BY <4>1, <4>2
      <3>4. \A q \in Procs : killTimer'[q] # None => osState'[q] # "running"
        BY <1>1, <2>3 DEF SerialInv, ChildrenKnown
      <3> QED
        BY <2>3, <3>2, <3>3, <3>4 DEF SerialInv, ChildrenKnown
    <2>8. ASSUME NEW k \in Jobs
          PROVE  Placed(job[k])' /\ Knows(job[k])' /\ (Works(job[k])' => Fits(job[k])')
      <3>1. CASE k = j
        <4>1. job'[k] = r /\ Fits(job[j])
          BY <1>2, <2>2, <3>1 DEF SerialInv
        <4> QED
          BY <1>1, <1>5, <2>1, <2>3, <4>1 DEF Placed, Knows, Fits, Works, Writes, Entered
      <3>2. CASE k # j
        <4>1. job'[k] = job[k] /\ Placed(job[k]) /\ Knows(job[k]) /\ (Works(job[k]) => Fits(job[k]))
          BY <2>2, <3>2 DEF SerialInv
        <4>2. job[k].pc \in {"prev", "exitFind", "watchKill"} => job[k].proc \in Procs \ {p}
          BY <1>1, JobFields
        <4> QED
          BY <2>3, <4>1, <4>2 DEF Placed, Knows, Fits, Works, Writes, Entered
      <3> QED
        BY <3>1, <3>2
    <2> QED
      BY <2>6, <2>7, <2>8 DEF SerialInv
  <1> QED
    BY <1>3, <1>4, <1>5 DEF Spawn, SpawnFails

\* onExit of a child that its channel's entry leads to.
LEMMA SerialExits ==
    ASSUME RestOK, JobsOK(job), SerialInv, NEW p \in Procs, OnExit(p)
    PROVE  SerialInv'
  <1> DEFINE c == chanOf[p]
             r == MkJob("exitFind", "exit", c, p, None, 0)
  <1>1. osState[p] = "exited" /\ c \in Channels /\ p # None
    BY ConstantsAssumption DEF OnExit, RestOK
  <1>2. PICK j \in Jobs : Idle(j) /\ Suspend(j, r)
    BY DEF OnExit
  <1>3. r.pc = "exitFind" /\ r.kind = "exit" /\ r.chan = c /\ r.proc = p
    BY DEF MkJob
  <1>4. \A k \in Jobs : job'[k] = IF k = j THEN r ELSE job[k]
    BY <1>2, Suspended
  <1> HIDE DEF r
  <1>5. \A k \in Jobs : Works(job[k]) => job[k].chan # c
    BY <1>1 DEF SerialInv, JobsAlone, Ends
  <1>6. /\ osState'[p] = "none" /\ streams'[c] = None /\ killTimer'[p] = None
        /\ \A q \in Procs \ {p} : /\ osState'[q] = osState[q] /\ chanOf'[q] = chanOf[q]
                                  /\ killTimer'[q] = killTimer[q]
        /\ \A d \in Channels \ {c} : streams'[d] = streams[d]
        /\ UNCHANGED <<worker, bootQueue, channelRow, processState>>
    BY <1>1 DEF OnExit, RestOK, dbVars, bootVars
  <1>7. \A k \in Jobs : job[k].pc = "prev" => job[k].proc \in Procs \ {p} /\ k # j
    BY <1>1, <1>2, JobFields DEF SerialInv, Knows, Idle
  <1>8. streams[c] = p
    BY <1>1, <1>7 DEF SerialInv, ChildrenKnown
  <1>9. worker \in {"up", "closing"} /\ c \notin bootQueue
    BY <1>1, <1>8 DEF SerialInv, ChildrenKnown, RestOK
  <1>10. \A k \in Jobs : job[k].pc \in {"exitFind", "watchKill"} => job[k].proc \in Procs /\ k # j
    BY <1>2, JobFields DEF Idle
  <1>11. JobsAlone'
    <2>1. \A k, l \in Jobs :
             Works(job[k])' /\ Works(job[l])' /\ job'[k].chan = job'[l].chan => k = l
      BY <1>3, <1>4, <1>5 DEF SerialInv, JobsAlone
    <2>2. ASSUME NEW k \in Jobs, NEW q \in Procs, Works(job[k])', chanOf'[q] = job'[k].chan
          PROVE  osState'[q] \notin Ends
      <3>1. CASE q = p
        BY <1>6, <3>1 DEF Ends
      <3>2. CASE q # p /\ k # j
        BY <1>4, <1>6, <2>2, <3>2 DEF SerialInv, JobsAlone
      <3>3. CASE q # p /\ k = j
        <4>1. chanOf[q] = c /\ streams[c] # q
          BY <1>3, <1>4, <1>6, <1>8, <2>2, <3>3
        <4>2. osState[q] # "none" => \E l \in Jobs : job[l].pc = "prev" /\ job[l].proc = q
          BY <4>1 DEF SerialInv, ChildrenKnown
        <4>3. osState[q] # "none" => osState[q] = "running"
          BY <4>2 DEF SerialInv, Knows
        <4> QED
          BY <1>6, <3>3, <4>3 DEF Ends
      <3> QED
        BY <3>1, <3>2, <3>3
    <2>3. \A k \in Jobs :
             job'[k].pc # "idle" => worker' \in {"up", "closing"} /\ job'[k].chan \notin bootQueue'
      BY <1>3, <1>4, <1>6, <1>9 DEF SerialInv, JobsAlone
    <2>4. ASSUME NEW k \in Jobs, NEW l \in Jobs, job'[k].pc = "watchKill", Works(job[l])',
                 job'[k].chan = job'[l].chan
          PROVE  osState'[job'[k].proc] = "none"
      <3>1. k # j /\ job'[k] = job[k] /\ job[k].proc \in Procs
        BY <1>3, <1>4, <1>10, <2>4
      <3>2. CASE l # j
        BY <1>4, <1>6, <2>4, <3>1, <3>2 DEF SerialInv, JobsAlone
      <3>3. CASE l = j
        <4>1. job[k].chan = c /\ (osState[job[k].proc] = "none" \/ chanOf[job[k].proc] = c)
          BY <1>3, <1>4, <2>4, <3>1, <3>3 DEF SerialInv, Knows
        <4>2. CASE job[k].proc # p /\ osState[job[k].proc] # "none"
          <5>1. \E m \in Jobs : job[m].pc = "prev" /\ job[m].proc = job[k].proc
            BY <1>8, <3>1, <4>1, <4>2 DEF SerialInv, ChildrenKnown
          <5>2. \E m \in Jobs : job[m].pc = "prev" /\ job[m].chan = c
            BY <4>1, <4>2, <5>1 DEF SerialInv, Knows
          <5> QED
            BY <1>5, <5>2 DEF SerialInv, Placed, Works
        <4> QED
          BY <1>6, <3>1, <4>2
      <3> QED
        BY <3>2, <3>3
    <2>5. \A k, l \in Jobs :
             job'[k].pc = "exitFind" /\ job'[l].pc = "exitFind" /\ job'[k].proc = job'[l].proc => k = l
      <3>1. \A k \in Jobs : job[k].pc = "exitFind" => job[k].proc # p
        BY <1>1 DEF SerialInv, Knows
      <3> QED
        BY <1>3, <1>4, <3>1 DEF SerialInv, JobsAlone
    <2> QED
      BY <2>1, <2>2, <2>3, <2>4, <2>5 DEF JobsAlone
  <1>12. ChildrenKnown'
    <2>1. ASSUME NEW q \in Procs, osState'[q] # "none"
          PROVE  \/ streams'[chanOf'[q]] = q
                 \/ \E k \in Jobs : job'[k].pc = "prev" /\ job'[k].proc = q
      <3>1. q # p /\ osState[q] # "none" /\ chanOf'[q] = chanOf[q] /\ chanOf[q] \in Channels
        BY <1>6, <2>1 DEF RestOK
      <3>2. \A k \in Jobs : job[k].pc = "prev" => job'[k] = job[k]
        BY <1>4, <1>7
      <3> QED
        BY <1>6, <1>8, <3>1, <3>2 DEF SerialInv, ChildrenKnown
    <2>2. ASSUME NEW d \in Channels, streams'[d] # None
          PROVE  chanOf'[streams'[d]] = d /\ osState'[streams'[d]] # "none"
      <3>1. d # c /\ streams'[d] = streams[d] /\ streams[d] \in Procs
        BY <1>6, <2>2 DEF RestOK
      <3>2. chanOf[streams[d]] = d /\ osState[streams[d]] # "none"
        BY <2>2, <3>1 DEF SerialInv, ChildrenKnown
      <3> QED
        BY <1>6, <3>1, <3>2
    <2>3. \A d \in Channels : streams[d] = None => streams'[d] = None
      BY <1>6
    <2> QED
      BY <1>6, <1>9, <2>1, <2>2, <2>3 DEF SerialInv, ChildrenKnown, RestOK
  <1>13. ASSUME NEW k \in Jobs
         PROVE  Placed(job[k])' /\ Knows(job[k])' /\ (Works(job[k])' => Fits(job[k])')
    <2>1. CASE k = j
      BY <1>3, <1>4, <1>6, <2>1 DEF Placed, Knows, Fits, Works, Writes, Entered
    <2>2. CASE k # j
      <3>1. job'[k] = job[k] /\ Placed(job[k]) /\ Knows(job[k]) /\ (Works(job[k]) => Fits(job[k]))
        BY <1>4, <2>2 DEF SerialInv
      <3>2. Works(job[k]) => streams'[job[k].chan] = streams[job[k].chan]
        BY <1>5, <1>6, JobFields DEF Works
      <3>3. Works(job[k])' => Fits(job[k])'
        BY <1>6, <3>1, <3>2 DEF Fits, Works, Writes, Entered
      <3>4. Knows(job[k])'
        BY <1>6, <1>7, <1>10, <3>1 DEF Knows
      <3> QED
        BY <3>1, <3>3, <3>4 DEF Placed, Writes
    <2> QED
      BY <2>1, <2>2
  <1> QED
    BY <1>11, <1>12, <1>13 DEF SerialInv

\* A coroutine goes on from one await to the next.
LEMMA SerialGoesOn ==
    ASSUME RestOK, JobsOK(job), SerialInv, NEW j \in Jobs,
           NEW pc \in {"build", "saveStatus", "setCount", "backoff"},
           Suspend(j, [job[j] EXCEPT !.pc = pc]),
           UNCHANGED <<streams, osState, chanOf, killTimer, worker, bootQueue, channelRow>>,
           \A c \in Channels : c # job[j].chan => processState'[c] = processState[c],
           \/ pc = "build" /\ job[j].pc = "load"
           \/ pc = "saveStatus" /\ job[j].pc = "saveRow"
           \/ pc = "setCount" /\ job[j].pc = "saveStatus" /\ job[j].kind = "auto"
           \/ pc = "backoff" /\ job[j].pc = "saveStatus" /\ job[j].kind = "exit"
                /\ job[j].target = "restarting"
    PROVE  SerialInv'
  <1> DEFINE r == [job[j] EXCEPT !.pc = pc]
  <1>1. /\ r.pc = pc /\ r.chan = job[j].chan /\ r.kind = job[j].kind /\ r.target = job[j].target
        /\ r.proc = job[j].proc
    BY JobFields DEF Job
  <1> HIDE DEF r
  <1>2. Placed(job[j]) /\ (Works(job[j]) => Fits(job[j]))
    BY DEF SerialInv
  <1>3. Works(job[j]) /\ job[j].pc # "prev"
    BY <1>2 DEF Placed, Works, Starts
  <1>4. Works(r) /\ Placed(r) /\ Fits(r)
    BY <1>1, <1>2, <1>3 DEF Works, Placed, Fits, Entered, Writes, Starts
  <1>5. Suspend(j, r)
    BY DEF r
  <1> QED
    BY <1>1, <1>3, <1>4, <1>5, SerialMoves

\* updateState() has been told whether the row exists.
LEMMA SerialFinds ==
    ASSUME RestOK, JobsOK(job), SerialInv, NEW j \in Jobs, FindRow(j)
    PROVE  SerialInv'
  <1> DEFINE r == [job[j] EXCEPT !.pc = "saveRow", !.found = processState[job[j].chan] # None]
  <1>1. /\ r.pc = "saveRow" /\ r.chan = job[j].chan /\ r.kind = job[j].kind
        /\ r.target = job[j].target /\ r.found = (processState[job[j].chan] # None)
    BY JobFields DEF Job
  <1>2. \A k \in Jobs : job'[k] = IF k = j THEN r ELSE job[k]
    BY Suspended DEF FindRow
  <1> HIDE DEF r
  <1>3. /\ job[j].pc = "findRow" /\ Placed(job[j])
        /\ UNCHANGED <<streams, osState, chanOf, killTimer, worker, bootQueue, channelRow, processState>>
    BY DEF SerialInv, FindRow, dbVars, bootVars, procVars
  <1>4. Works(job[j]) /\ Works(r)
    BY <1>1, <1>3 DEF Placed, Works
  <1>5. Fits(job[j])
    BY <1>4 DEF SerialInv
  <1>6. Placed(r) /\ Knows(r) /\ Fits(r)
    BY <1>1, <1>3, <1>5 DEF Placed, Knows, Fits, Entered, Writes
  <1>7. \A k \in Jobs : /\ Works(job[k])' => Works(job[k]) /\ job'[k].chan = job[k].chan
                        /\ job'[k].pc # "idle" => job[k].pc # "idle" /\ job'[k].chan = job[k].chan
                        /\ job'[k].pc \in {"prev", "watchKill", "exitFind"} => job'[k] = job[k]
                        /\ job[k].pc = "prev" => job'[k] = job[k]
    BY <1>1, <1>2, <1>3, <1>4
  <1>8. JobsAlone'
    BY <1>3, <1>7 DEF SerialInv, JobsAlone
  <1>9. ChildrenKnown'
    BY <1>3, <1>7 DEF SerialInv, ChildrenKnown
  <1>10. \A k \in Jobs : Placed(job[k])' /\ Knows(job[k])' /\ (Works(job[k])' => Fits(job[k])')
    BY <1>2, <1>3, <1>6 DEF SerialInv, Placed, Knows, Fits, Works, Writes, Entered
  <1> QED
    BY <1>8, <1>9, <1>10 DEF SerialInv

LEMMA SerialJobStep ==
    ASSUME RestOK, JobsOK(job), SerialInv, NEW j \in Jobs, JobStep(j)
    PROVE  SerialInv'
  <1> DEFINE c == job[j].chan
  <1>1. Placed(job[j]) /\ Knows(job[j]) /\ (Works(job[j]) => Fits(job[j]))
    BY DEF SerialInv
  <1>2. CASE Load(j) \/ BuildFails(j)
    <2>1. job[j].pc \in {"load", "build"}
      BY <1>2 DEF Load, BuildFails
    <2>2. Works(job[j]) /\ streams[c] = None
      BY <1>1, <2>1 DEF Placed, Works, Fits, Entered, Writes, Starts
    <2>3. UNCHANGED <<streams, osState, chanOf, killTimer, worker, bootQueue, channelRow, processState>>
      BY <1>2 DEF Load, BuildFails, dbVars, bootVars, procVars
    <2>4. \/ Throw(j)
          \/ job[j].pc = "load" /\ Suspend(j, [job[j] EXCEPT !.pc = "build"])
      BY <1>2 DEF Load, BuildFails
    <2> QED
      BY <2>1, <2>2, <2>3, <2>4, SerialThrows, SerialGoesOn
  <1>3. CASE RegisterKept(j)
    <2> DEFINE p == job[j].proc
    <2>1. /\ job[j].pc = "prev" /\ p \in Procs /\ osState[p] = "running" /\ chanOf[p] = c
          /\ c \in Channels
      BY <1>1, <1>3, JobFields DEF RegisterKept, Knows
    <2>2. UNCHANGED <<osState, chanOf, killTimer, worker, bootQueue, channelRow, processState>>
      BY <1>3 DEF RegisterKept, dbVars, bootVars
    <2>3. killTimer[p] = None
      BY <2>1 DEF SerialInv, ChildrenKnown
    <2>4. streams[c] = None
      BY <1>1, <2>1 DEF Placed, Works, Fits, Entered, Writes
    <2>5. \A d \in Channels : streams[d] # p
      BY <2>1, <2>4, ConstantsAssumption DEF SerialInv, ChildrenKnown
    <2>6. Register(j, c, p)
      BY <1>3 DEF RegisterKept
    <2> QED
      BY <2>1, <2>2, <2>3, <2>5, <2>6, SerialRegisters
  <1>4. CASE SetCount(j)
    <2>1. /\ job[j].pc = "setCount" /\ Suspend(j, IdleJob)
          /\ UNCHANGED <<streams, osState, chanOf, killTimer, worker, bootQueue, channelRow, processState>>
      BY <1>4 DEF SetCount, dbVars, bootVars
    <2>2. Works(job[j])
      BY <1>1, <2>1 DEF Placed, Works
    <2> QED
      BY <2>1, <2>2, SerialMoves
  <1>5. CASE BackoffFires(j)
    <2>1. /\ job[j].pc = "backoff" /\ job[j].kind = "exit"
          /\ UNCHANGED <<streams, osState, chanOf, killTimer, worker, bootQueue, channelRow, processState>>
      BY <1>1, <1>5 DEF BackoffFires, Placed, dbVars, bootVars
    <2>2. Works(job[j]) /\ streams[c] = None
      BY <1>1, <2>1 DEF Works, Fits, Entered, Writes
    <2>3. BeginStart(j, c, "auto", job[j].cnt)
      BY <1>5, <2>2 DEF BackoffFires
    <2> QED
      BY <2>1, <2>2, <2>3, SerialBegins DEF Starts
  <1>6. ASSUME NEW p \in Procs, Spawn(j, p) \/ SpawnFails(j, p)
        PROVE  SerialInv'
    BY <1>6, SerialSpawns
  <1>7. CASE SaveRow(j)
    <2>1. /\ job[j].pc = "saveRow" /\ Suspend(j, [job[j] EXCEPT !.pc = "saveStatus"])
          /\ UNCHANGED <<streams, osState, chanOf, killTimer, worker, bootQueue, channelRow>>
          /\ \A d \in Channels : d # c => processState'[d] = processState[d]
      BY <1>7 DEF SaveRow, RestOK, bootVars, procVars
    <2> QED
      BY <2>1, SerialGoesOn
  <1>8. ASSUME RestartAfterStop(j), job[j].kind = "restartStop", Writes(job[j]),
               UNCHANGED <<streams, osState, chanOf, killTimer, worker, bootQueue, channelRow, processState>>
        PROVE  SerialInv'
    <2>1. Works(job[j]) /\ job[j].pc # "prev" /\ streams[c] = None
      BY <1>1, <1>8 DEF Works, Fits, Entered, Writes, Starts
    <2>2. BeginStart(j, c, "restart", 0)
      BY <1>8, <2>1 DEF RestartAfterStop
    <2> QED
      BY <1>8, <2>1, <2>2, SerialBegins DEF Starts
  <1>9. CASE SaveRowFails(j)
    <2>1. job[j].pc = "saveRow" /\ Works(job[j]) /\ Writes(job[j])
      BY <1>1, <1>9 DEF SaveRowFails, Placed, Works, Writes
    <2>2. ~channelRow[c]
      BY <1>1, <1>9, <2>1 DEF SaveRowFails, RowWritable, Knows
    <2>3. UNCHANGED <<channelRow, processState>>
      BY <1>9 DEF SaveRowFails, dbVars
    <2>4. \/ WorkerGone
          \/ /\ job[j].kind = "restartStop" /\ RestartAfterStop(j)
             /\ UNCHANGED <<streams, osState, chanOf, killTimer, worker, bootQueue>>
          \/ /\ Throw(j)
             /\ UNCHANGED <<streams, osState, chanOf, killTimer, worker, bootQueue>>
      BY <1>9 DEF SaveRowFails, bootVars, procVars
    <2> QED
      BY <1>8, <2>1, <2>2, <2>3, <2>4, SerialGone, SerialThrows
  <1>10. CASE SaveStatus(j)
    <2>1. /\ job[j].pc = "saveStatus" /\ Works(job[j]) /\ Writes(job[j])
          /\ UNCHANGED <<streams, osState, chanOf, killTimer, worker, bootQueue, channelRow, processState>>
      BY <1>1, <1>10 DEF SaveStatus, Placed, Works, Writes, bootVars, procVars
    <2>2. \/ job[j].kind = "auto" /\ Suspend(j, [job[j] EXCEPT !.pc = "setCount"])
          \/ /\ job[j].kind = "exit" /\ job[j].target = "restarting"
             /\ Suspend(j, [job[j] EXCEPT !.pc = "backoff"])
          \/ job[j].kind = "restartStop" /\ RestartAfterStop(j)
          \/ Suspend(j, IdleJob)
      BY <1>10 DEF SaveStatus, AfterUpdate
    <2>3. CASE job[j].kind = "auto" /\ Suspend(j, [job[j] EXCEPT !.pc = "setCount"])
      BY <2>1, <2>3, SerialGoesOn
    <2>4. CASE /\ job[j].kind = "exit" /\ job[j].target = "restarting"
               /\ Suspend(j, [job[j] EXCEPT !.pc = "backoff"])
      BY <2>1, <2>4, SerialGoesOn
    <2>5. CASE Suspend(j, IdleJob)
      BY <2>1, <2>5, SerialMoves
    <2> QED
      BY <1>8, <2>1, <2>2, <2>3, <2>4, <2>5
  <1>11. CASE ExitFind(j)
    <2>1. /\ job[j].pc = "exitFind" /\ job[j].kind = "exit" /\ Works(job[j]) /\ c \in Channels
          /\ UNCHANGED <<streams, osState, chanOf, killTimer, worker, bootQueue, channelRow, processState>>
      BY <1>1, <1>11, JobFields DEF ExitFind, Placed, Works, dbVars, bootVars
    <2>2. streams[c] = None
      BY <1>1, <2>1 DEF Fits, Entered, Writes
    <2>3. \E target \in {"stopped", "restarting", "crashed"}, n \in {0, Saturate(count[job[j].proc])} :
             Suspend(j, MkJob("findRow", "exit", c, None, target, n))
      <3>1. \/ Suspend(j, MkJob("findRow", "exit", c, None, "stopped", 0))
            \/ Suspend(j, MkJob("findRow", "exit", c, None, "restarting",
                                Saturate(count[job[j].proc])))
            \/ Suspend(j, MkJob("findRow", "exit", c, None, "crashed", 0))
        BY <1>11, Zenon DEF ExitFind
      <3> QED
        BY <3>1
    <2>4. PICK target \in {"stopped", "restarting", "crashed"}, n \in {0, Saturate(count[job[j].proc])} :
             Suspend(j, MkJob("findRow", "exit", c, None, target, n))
      BY <2>3
    <2> DEFINE r == MkJob("findRow", "exit", c, None, target, n)
    <2>5. Works(r) /\ Placed(r) /\ Fits(r) /\ r.chan = c /\ r.pc = "findRow"
      BY <2>1, <2>2, WriteFits DEF Kind, Starts, StreamState
    <2>6. Suspend(j, r)
      BY <2>4
    <2> HIDE DEF r
    <2> QED
      BY <2>1, <2>5, <2>6, SerialMoves
  <1>12. CASE WatchdogKill(j)
    <2> DEFINE p == job[j].proc
    <2>1. /\ job[j].pc = "watchKill" /\ p \in Procs
          /\ osState' = [osState EXCEPT ![p] = IF @ \in Live THEN "killed" ELSE @]
          /\ UNCHANGED <<streams, chanOf, killTimer, bootQueue, worker, channelRow, processState>>
      BY <1>12, JobFields DEF WatchdogKill, Kill, dbVars, bootVars
    <2>2. \A k \in Jobs : job'[k] = IF k = j THEN IdleJob ELSE job[k]
      BY <1>12, Suspended DEF WatchdogKill
    <2>3. \A q \in Procs : osState'[q] = IF q = p /\ osState[p] \in Live THEN "killed" ELSE osState[q]
      BY <2>1 DEF RestOK
    <2>4. osState[p] \in Live => \A k \in Jobs : Works(job[k]) => job[k].chan # chanOf[p]
      <3> SUFFICES ASSUME osState[p] \in Live, NEW k \in Jobs, Works(job[k]), job[k].chan = chanOf[p]
                   PROVE  FALSE
        OBVIOUS
      <3>1. osState[p] # "none" /\ chanOf[p] = c
        BY <1>1, <2>1 DEF Knows, Live
      <3> QED
        BY <2>1, <3>1 DEF SerialInv, JobsAlone
    <2>5. \A q \in Procs : osState'[q] = osState[q] \/
             /\ osState[q] \in Live /\ osState'[q] \in Ends
             /\ \A k \in Jobs : Works(job[k]) => job[k].chan # chanOf[q]
      BY <2>3, <2>4 DEF Ends
    <2>6. \A q \in Procs : killTimer'[q] # None => osState'[q] # "running"
      BY <2>1, <2>3 DEF SerialInv, ChildrenKnown
    <2> QED
      BY <2>1, <2>2, <2>5, <2>6, SerialChildren
  <1>13. CASE FindRow(j)
    BY <1>13, SerialFinds
  <1> QED
    BY <1>2, <1>3, <1>4, <1>5, <1>6, <1>7, <1>9, <1>10, <1>11, <1>12, <1>13 DEF JobStep

\* Nobody works for a settled channel.
LEMMA SettledFree ==
    ASSUME NEW c \in Channels, Settled(c)
    PROVE  /\ \A k \in Jobs : job[k].chan # c
           /\ \A p \in Procs : chanOf[p] = c => osState[p] \notin Ends
  BY DEF Settled, Ends

\* The part of stop() on the child of a settled channel.
LEMMA SerialTerminates ==
    ASSUME RestOK, JobsOK(job), SerialInv, NEW c \in Channels, NEW force \in BOOLEAN,
           streams[c] # None, Terminate(c, streams[c], force), Settled(c),
           UNCHANGED <<job, streams, chanOf, bootQueue, worker, channelRow, processState>>
    PROVE  SerialInv'
  <1> DEFINE p == streams[c]
  <1>1. p \in Procs /\ chanOf[p] = c
    BY DEF RestOK, SerialInv, ChildrenKnown
  <1>2. \A k \in Jobs : job[k].chan # chanOf[p]
    BY <1>1, SettledFree
  <1>3. \A q \in Procs : osState'[q] = osState[q] \/
           (q = p /\ osState[q] \in Live /\ osState'[q] \in {"terminating", "killed"})
    BY <1>1 DEF Terminate, RestOK
  <1>4. \A q \in Procs : killTimer'[q] = killTimer[q] \/ (q = p /\ ~force)
    BY <1>1 DEF Terminate, RestOK
  <1>5. ~force => osState'[p] # "running"
    BY <1>1 DEF Terminate, RestOK, Live
  <1>6. \A q \in Procs : killTimer'[q] # None => osState'[q] # "running"
    BY <1>3, <1>4, <1>5 DEF SerialInv, ChildrenKnown
  <1>7. \A q \in Procs : osState'[q] = osState[q] \/
           /\ osState[q] \in Live /\ osState'[q] \in Ends
           /\ \A k \in Jobs : Works(job[k]) => job[k].chan # chanOf[q]
    BY <1>2, <1>3 DEF Ends
  <1> QED
    BY <1>6, <1>7, SerialChildren

LEMMA SerialReceive ==
    ASSUME RestOK, JobsOK(job), SerialInv, Settling, NEW c \in Channels, Command(c)
    PROVE  SerialInv'
  <1>1. worker = "up" /\ c \notin bootQueue /\ Settled(c)
    BY DEF Command, ClientReady, AtRest, Settling
  <1>2. /\ \A k \in Jobs : job[k].chan # c
        /\ \A p \in Procs : chanOf[p] = c => osState[p] \notin Ends
    BY <1>1, SettledFree
  <1>3. CASE ReceiveStart(c)
    <2>1. PICK j \in Jobs : Idle(j) /\ BeginStart(j, c, "start", 0)
      BY <1>3 DEF ReceiveStart
    <2>2. UNCHANGED <<streams, osState, chanOf, killTimer, worker, bootQueue, channelRow, processState>>
      BY <1>3 DEF ReceiveStart, dbVars, bootVars, procVars
    <2>3. CASE streams[c] # None
      <3>1. UNCHANGED job
        BY <2>1, <2>3 DEF BeginStart
      <3>2. \A p \in Procs : killTimer'[p] # None => osState'[p] # "running"
        BY <2>2 DEF SerialInv, ChildrenKnown
      <3> QED
        BY <2>2, <3>1, <3>2, SerialChildren
    <2>4. CASE streams[c] = None
      <3> DEFINE r == MkJob("load", "start", c, None, None, 0)
      <3>1. Works(r) /\ Placed(r) /\ Fits(r) /\ r.chan = c /\ r.pc = "load"
        BY <2>4, LoadFits DEF Starts
      <3>2. Suspend(j, r)
        BY <2>1, <2>4 DEF BeginStart
      <3> HIDE DEF r
      <3> QED
        BY <1>1, <1>2, <2>1, <2>2, <3>1, <3>2, SerialArrives
    <2> QED
      BY <2>3, <2>4
  <1>4. ASSUME NEW j \in Jobs, Idle(j), NEW kind \in {"stop", "restartStop"}, streams[c] = None,
               Suspend(j, MkJob("findRow", kind, c, None, "stopped", 0)),
               UNCHANGED <<streams, osState, chanOf, killTimer, worker, bootQueue, channelRow, processState>>
        PROVE  SerialInv'
    <2> DEFINE r == MkJob("findRow", kind, c, None, "stopped", 0)
    <2>1. Works(r) /\ Placed(r) /\ Fits(r) /\ r.chan = c /\ r.pc = "findRow"
      BY <1>4, WriteFits DEF Starts, Kind, StreamState
    <2>2. Suspend(j, r)
      BY <1>4
    <2> HIDE DEF r
    <2> QED
      BY <1>1, <1>2, <1>4, <2>1, <2>2, SerialArrives
  <1>5. ASSUME NEW force \in BOOLEAN, ReceiveStop(c, force)
        PROVE  SerialInv'
    <2>1. CASE streams[c] # None
      <3>1. /\ Terminate(c, streams[c], force)
            /\ UNCHANGED <<job, streams, chanOf, bootQueue, worker, channelRow, processState>>
        BY <1>5, <2>1 DEF ReceiveStop, dbVars, bootVars
      <3> QED
        BY <1>1, <2>1, <3>1, SerialTerminates
    <2>2. CASE streams[c] = None
      <3>1. UNCHANGED <<streams, osState, chanOf, killTimer, worker, bootQueue, channelRow, processState>>
        BY <1>5, <2>2 DEF ReceiveStop, dbVars, bootVars
      <3>2. PICK j \in Jobs : Idle(j) /\ Suspend(j, MkJob("findRow", "stop", c, None, "stopped", 0))
        BY <1>5, <2>2 DEF ReceiveStop
      <3> QED
        BY <1>4, <2>2, <3>1, <3>2
    <2> QED
      BY <2>1, <2>2
  <1>6. CASE ReceiveRestart(c)
    <2>1. CASE streams[c] # None
      <3>1. /\ Terminate(c, streams[c], FALSE)
            /\ UNCHANGED <<job, streams, chanOf, bootQueue, worker, channelRow, processState>>
        BY <1>6, <2>1 DEF ReceiveRestart, dbVars, bootVars
      <3> QED
        BY <1>1, <2>1, <3>1, SerialTerminates
    <2>2. CASE streams[c] = None
      <3>1. UNCHANGED <<streams, osState, chanOf, killTimer, worker, bootQueue, channelRow, processState>>
        BY <1>6, <2>2 DEF ReceiveRestart, dbVars, bootVars
      <3>2. PICK j \in Jobs :
               Idle(j) /\ Suspend(j, MkJob("findRow", "restartStop", c, None, "stopped", 0))
        BY <1>6, <2>2 DEF ReceiveRestart
      <3> QED
        BY <1>4, <2>2, <3>1, <3>2
    <2> QED
      BY <2>1, <2>2
  <1> QED
    BY <1>3, <1>5, <1>6 DEF Command, Receive

\* The watchdog awaits beside nothing else of its channel.
LEMMA SerialStalls ==
    ASSUME RestOK, JobsOK(job), SerialInv, Settling, NEW c \in Channels, WatchdogStall(c)
    PROVE  SerialInv'
  <1> DEFINE p == streams[c]
             r == MkJob("watchKill", "watchdog", c, p, None, 0)
  <1>1. p \in Procs /\ p # None /\ chanOf[p] = c
    BY DEF WatchdogStall, RestOK, SerialInv, ChildrenKnown
  <1>2. \A k \in Jobs : job[k].chan # c
    BY DEF WatchdogStall, Settling
  <1>3. PICK j \in Jobs : Idle(j) /\ Suspend(j, r)
    BY DEF WatchdogStall
  <1>4. r.pc = "watchKill" /\ r.kind = "watchdog" /\ r.chan = c /\ r.proc = p
    BY DEF MkJob
  <1>5. \A k \in Jobs : job'[k] = IF k = j THEN r ELSE job[k]
    BY <1>3, Suspended
  <1> HIDE DEF r
  <1>6. /\ UNCHANGED <<streams, osState, chanOf, killTimer, worker, bootQueue, channelRow, processState>>
    BY DEF WatchdogStall, dbVars, bootVars, procVars
  <1>7. \A k \in Jobs : Works(job[k])' => Works(job[k]) /\ job'[k] = job[k]
    BY <1>4, <1>5 DEF Works
  <1>8. worker \in {"up", "closing"} /\ c \notin bootQueue
    BY <1>1 DEF SerialInv, ChildrenKnown, RestOK
  <1>9. \A k \in Jobs : job[k].pc \in {"exitFind", "prev"} => job'[k] = job[k]
    BY <1>3, <1>5 DEF Idle
  <1>10. JobsAlone'
    <2>1. \A k, l \in Jobs :
             job'[k].pc = "watchKill" /\ Works(job[l])' /\ job'[k].chan = job'[l].chan
                => osState'[job'[k].proc] = "none"
      BY <1>2, <1>4, <1>5, <1>6, <1>7 DEF SerialInv, JobsAlone
    <2>2. \A k \in Jobs :
             job'[k].pc # "idle" => worker' \in {"up", "closing"} /\ job'[k].chan \notin bootQueue'
      BY <1>4, <1>5, <1>6, <1>8 DEF SerialInv, JobsAlone
    <2>3. \A k, l \in Jobs :
             job'[k].pc = "exitFind" /\ job'[l].pc = "exitFind" /\ job'[k].proc = job'[l].proc => k = l
      BY <1>4, <1>5 DEF SerialInv, JobsAlone
    <2> QED
      BY <1>6, <1>7, <2>1, <2>2, <2>3 DEF SerialInv, JobsAlone
  <1>11. ChildrenKnown'
    BY <1>6, <1>9 DEF SerialInv, ChildrenKnown
  <1>12. ASSUME NEW k \in Jobs
         PROVE  Placed(job[k])' /\ Knows(job[k])' /\ (Works(job[k])' => Fits(job[k])')
    <2>1. CASE k = j
      BY <1>1, <1>4, <1>5, <1>6, <2>1 DEF Placed, Knows, Works, Writes
    <2>2. CASE k # j
      BY <1>5, <1>6, <2>2 DEF SerialInv, Placed, Knows, Fits, Works, Writes, Entered
    <2> QED
      BY <2>1, <2>2
  <1> QED
    BY <1>10, <1>11, <1>12 DEF SerialInv

LEMMA SerialProcStep ==
    ASSUME RestOK, JobsOK(job), SerialInv, Settling, NEW p \in Procs, ProcStep(p)
    PROVE  SerialInv'
  <1>1. CASE ProcExit(p)
    <2>1. ~Unheard(p)
      <3> SUFFICES ASSUME NEW j \in Jobs, job[j].pc = "prev", job[j].proc = p PROVE FALSE
        BY DEF Unheard
      <3>1. osState[p] = "running" /\ chanOf[p] = job[j].chan
        BY DEF SerialInv, Knows
      <3> QED
        BY <1>1, <3>1 DEF ProcExit, Settling, Settled
    <2>2. \A k \in Jobs : Works(job[k]) => job[k].chan # chanOf[p]
      <3>1. CASE osState[p] \in {"terminating", "killed"}
        BY <3>1 DEF SerialInv, JobsAlone, Ends
      <3>2. CASE Settled(chanOf[p])
        BY <3>2 DEF Settled
      <3> QED
        BY <1>1, <3>1, <3>2 DEF ProcExit, Settling
    <2>3. /\ osState[p] \in Live
          /\ \A q \in Procs : osState'[q] = IF q = p THEN "exited" ELSE osState[q]
          /\ UNCHANGED <<streams, chanOf, killTimer, bootQueue, worker, job, channelRow, processState>>
      BY <1>1, <2>1 DEF ProcExit, RestOK, Live, dbVars, bootVars
    <2>4. \A q \in Procs : killTimer'[q] # None => osState'[q] # "running"
      BY <2>3 DEF SerialInv, ChildrenKnown
    <2> QED
      BY <2>2, <2>3, <2>4, SerialChildren DEF Ends
  <1>2. CASE OnExit(p)
    BY <1>2, SerialExits
  <1>3. CASE KillTimerFires(p)
    <2>1. osState[p] # "running" /\ killTimer'[p] = None
      BY <1>3 DEF KillTimerFires, SerialInv, ChildrenKnown, RestOK
    <2>2. /\ \A q \in Procs : osState'[q] = osState[q] \/
                (q = p /\ osState[p] \in Live /\ osState'[p] = "killed")
          /\ \A q \in Procs : killTimer'[q] # None => killTimer[q] # None
          /\ UNCHANGED <<streams, chanOf, bootQueue, worker, job, channelRow, processState>>
      BY <1>3 DEF KillTimerFires, Kill, RestOK, dbVars, bootVars
    <2>3. osState[p] \in Live => \A k \in Jobs : Works(job[k]) => job[k].chan # chanOf[p]
      BY <2>1 DEF SerialInv, JobsAlone, Ends, Live
    <2>4. \A q \in Procs : killTimer'[q] # None => osState'[q] # "running"
      BY <2>2 DEF SerialInv, ChildrenKnown
    <2>5. \A q \in Procs : osState'[q] = osState[q] \/
             /\ osState[q] \in Live /\ osState'[q] \in Ends
             /\ \A k \in Jobs : Works(job[k]) => job[k].chan # chanOf[q]
      BY <2>2, <2>3 DEF Ends
    <2> QED
      BY <2>2, <2>4, <2>5, SerialChildren
  <1> QED
    BY <1>1, <1>2, <1>3 DEF ProcStep

\* While the worker is away nothing is in flight.
LEMMA AwayIdle ==
    ASSUME SerialInv, worker \in {"down", "booting"}
    PROVE  \A j \in Jobs : job[j] = IdleJob
  BY DEF SerialInv, JobsAlone, Placed

LEMMA SerialBoot ==
    ASSUME RestOK, JobsOK(job), SerialInv, Boot
    PROVE  SerialInv'
  <1>1. CASE WorkerSubscribes \/ BootQuery
    <2>1. /\ worker \in {"down", "booting"} /\ worker' \in {"booting", "up"}
          /\ UNCHANGED <<streams, osState, chanOf, killTimer, job, channelRow, processState>>
          /\ worker' = "booting" => bootQueue' = bootQueue
      BY <1>1 DEF WorkerSubscribes, BootQuery, dbVars, procVars
    <2>2. \A j \in Jobs : job'[j] = IdleJob
      BY <2>1, AwayIdle
    <2>3. \A c \in Channels : streams'[c] = None
      BY <2>1 DEF SerialInv, ChildrenKnown
    <2>4. bootQueue' \subseteq Channels
      BY <1>1 DEF WorkerSubscribes, BootQuery, RestOK
    <2>5. JobsAlone'
      BY <2>2, IdleFields DEF JobsAlone, Works
    <2>6. ChildrenKnown'
      BY <2>1, <2>3, <2>4 DEF SerialInv, ChildrenKnown
    <2> QED
      BY <2>2, <2>5, <2>6, IdleFields DEF SerialInv, Placed, Knows, Works, Writes
  <1>2. ASSUME NEW c \in Channels, BootStart(c)
        PROVE  SerialInv'
    <2>1. c \in bootQueue /\ streams[c] = None /\ worker \in {"up", "closing"}
      BY <1>2 DEF BootStart, SerialInv, ChildrenKnown, RestOK
    <2>2. \A k \in Jobs : job[k].chan # c
      BY <2>1, IdleFields, ConstantsAssumption DEF SerialInv, JobsAlone, Placed
    <2>3. ASSUME NEW p \in Procs, chanOf[p] = c
          PROVE  osState[p] \notin Ends
      <3>1. osState[p] # "none" => p # None /\ \E k \in Jobs : job[k].pc = "prev" /\ job[k].proc = p
        BY <2>1, <2>3, ConstantsAssumption DEF SerialInv, ChildrenKnown
      <3> QED
        BY <3>1 DEF SerialInv, Knows, Ends
    <2>4. PICK j \in Jobs : Idle(j) /\ BeginStart(j, c, "boot", 0)
      BY <1>2 DEF BootStart
    <2> DEFINE r == MkJob("load", "boot", c, None, None, 0)
    <2>5. Works(r) /\ Placed(r) /\ Fits(r) /\ r.chan = c /\ r.pc = "load"
      BY <2>1, LoadFits DEF Starts
    <2>6. Suspend(j, r)
      BY <2>1, <2>4 DEF BeginStart
    <2>7. /\ UNCHANGED <<streams, osState, chanOf, killTimer, worker, channelRow, processState>>
          /\ bootQueue' = bootQueue \ {c}
      BY <1>2 DEF BootStart, dbVars, procVars
    <2> HIDE DEF r
    <2> QED
      BY <2>1, <2>2, <2>3, <2>4, <2>5, <2>6, <2>7, SerialArrives
  <1> QED
    BY <1>1, <1>2 DEF Boot

LEMMA SerialEnds ==
    ASSUME RestOK, JobsOK(job), SerialInv, Settling, WorkerEnds
    PROVE  SerialInv'
  <1>1. CASE Shutdown
    <2> DEFINE managed == {streams[c] : c \in Channels}
    <2>1. \A c \in Channels : \A k \in Jobs : job[k].chan # c
      BY <1>1 DEF Shutdown, Settling, Settled
    <2>2. \A p \in Procs : osState[p] \in Live => \A k \in Jobs : Works(job[k]) => job[k].chan # chanOf[p]
      BY <2>1, JobFields DEF Works
    <2>3. \A p \in Procs : osState'[p] = IF p \in managed /\ osState[p] = "running"
                                        THEN "terminating" ELSE osState[p]
      BY <1>1 DEF Shutdown
    <2>4. \A p \in Procs : killTimer'[p] = IF p \in managed THEN chanOf[p] ELSE killTimer[p]
      BY <1>1 DEF Shutdown
    <2>5. \A p \in Procs : killTimer'[p] # None => osState'[p] # "running"
      BY <2>3, <2>4 DEF SerialInv, ChildrenKnown
    <2>6. \A p \in Procs : osState'[p] = osState[p] \/
             /\ osState[p] \in Live /\ osState'[p] \in Ends
             /\ \A k \in Jobs : Works(job[k]) => job[k].chan # chanOf[p]
      BY <2>2, <2>3 DEF Ends, Live
    <2>7. /\ UNCHANGED <<streams, chanOf, bootQueue, job, channelRow, processState>>
          /\ worker = "up" /\ worker' = "closing"
      BY <1>1 DEF Shutdown, dbVars
    <2> QED
      BY <2>5, <2>6, <2>7, SerialChildren
  <1> QED
    BY <1>1, SerialGone DEF WorkerEnds, WorkerExits, WorkerCrashes

LEMMA SerialRemove ==
    ASSUME RestOK, JobsOK(job), SerialInv, NEW c \in Channels, Remove(c)
    PROVE  SerialInv'
  <1>1. /\ UNCHANGED <<streams, osState, chanOf, killTimer, worker, bootQueue, job>>
        /\ \A d \in Channels : channelRow'[d] => channelRow[d] /\ processState'[d] = processState[d]
    BY DEF Remove, RemoveCheck, RemoveChannel, RestOK, bootVars, procVars
  <1>2. JobsAlone' /\ ChildrenKnown'
    BY <1>1 DEF SerialInv, JobsAlone, ChildrenKnown, Works
  <1>3. ASSUME NEW k \in Jobs
        PROVE  Placed(job[k])' /\ Knows(job[k])' /\ (Works(job[k])' => Fits(job[k])')
    <2>1. Placed(job[k]) /\ Knows(job[k]) /\ (Works(job[k]) => Fits(job[k]))
      BY DEF SerialInv
    <2>2. job[k].pc # "idle" => job[k].chan \in Channels
      BY JobFields
    <2> QED
      BY <1>1, <2>1, <2>2 DEF Placed, Knows, Fits, Works, Writes, Entered
  <1> QED
    BY <1>2, <1>3 DEF SerialInv

LEMMA SerialStep ==
    ASSUME TypeOK, SerialInv, Settling, [Next]_vars
    PROVE  SerialInv'
  <1>1. RestOK /\ JobsOK(job)
    BY TypeSplit
  <1>2. CASE UNCHANGED vars
    BY <1>2 DEF SerialInv, JobsAlone, ChildrenKnown, Placed, Knows, Fits, Works, Writes, Entered,
                vars, dbVars, bootVars, procVars
  <1> QED
    BY <1>1, <1>2, SerialJobStep, SerialReceive, SerialStalls, SerialProcStep, SerialBoot,
       SerialEnds, SerialRemove DEF Next

\* The invariant of the settled worker, for any channels, children and job slots: what the
\* limit, the rows and the lifecycle rest on.
THEOREM SerialInvHolds ==
    ASSUME Settling
    PROVE  Spec => []SerialInv
  <1>1. TypeOK /\ SerialInv /\ [Next]_vars => SerialInv'
    BY SerialStep
  <1> QED
    BY <1>1, SerialStart, TypeCorrect, PTL DEF Spec

----------------------------------------------------------------------------
(***************************************************************************)
(* The restart limit.  The number of automatic restarts is handed on: from *)
(* the entry to onExit, to the backoff, to the start, and back to the      *)
(* entry after its updateState; nowhere is it less than the restarts made. *)
(***************************************************************************)
\* A restart that the coroutine q has decided on and not made yet.
Due(q) == \/ q.kind = "auto" /\ q.pc \in {"load", "build"}
          \/ q.kind = "exit" /\ q.target = "restarting"

\* A restart that q has made and whose entry has not got its number yet.
Made(q) == Entered(q) /\ q.kind = "auto"

\* Coroutine q has the number of restarts of its channel, or of its child.
Counts(q) ==
    /\ Due(q) => autoRuns[q.chan] < RestartMax /\ autoRuns[q.chan] < q.cnt
    /\ Made(q) => autoRuns[q.chan] <= q.cnt
    /\ q.pc = "exitFind" /\ channelRow[q.chan] => autoRuns[q.chan] <= count[q.proc]

EntryCounts(c) ==
    streams[c] # None /\ channelRow[c] /\ (\A j \in Jobs : Made(job[j]) => job[j].chan # c)
    => autoRuns[c] <= count[streams[c]]

LimitInv ==
    /\ \A c \in Channels : autoRuns[c] <= RestartMax
    /\ \A j \in Jobs : Counts(job[j])
    /\ \A c \in Channels : EntryCounts(c)

LEMMA IdleCounts == ~Due(IdleJob) /\ ~Made(IdleJob) /\ IdleJob.pc # "exitFind"
  BY ConstantsAssumption DEF Due, Made, Entered, Writes, IdleJob, MkJob, StreamState

LEMMA LimitStart == Init => LimitInv
  <1> SUFFICES ASSUME Init PROVE LimitInv
    OBVIOUS
  <1>1. /\ \A j \in Jobs : job[j] = IdleJob
        /\ \A c \in Channels : autoRuns[c] = 0 /\ streams[c] = None
    BY DEF Init
  <1> QED
    BY <1>1, IdleCounts, ConstantsAssumption DEF LimitInv, Counts, EntryCounts

LEMMA LimitGone == WorkerGone => LimitInv'
  <1> SUFFICES ASSUME WorkerGone PROVE LimitInv'
    OBVIOUS
  <1>1. /\ \A j \in Jobs : job'[j] = IdleJob
        /\ \A c \in Channels : autoRuns'[c] = 0 /\ streams'[c] = None
    BY DEF WorkerGone
  <1>2. \A j \in Jobs : Counts(job[j])'
    BY <1>1, IdleCounts DEF Counts, Due, Made, Entered, Writes
  <1> QED
    BY <1>1, <1>2, ConstantsAssumption DEF LimitInv, EntryCounts

\* A coroutine goes on, begins or ends, and the entries keep their numbers.
LEMMA LimitMoves ==
    ASSUME RestOK, JobsOK(job), LimitInv, NEW j \in Jobs, NEW r, Suspend(j, r), Counts(r),
           UNCHANGED <<streams, count, autoRuns, channelRow>>,
           Made(job[j]) => (Made(r) /\ r.chan = job[j].chan) \/ ~channelRow[job[j].chan]
    PROVE  LimitInv'
  <1>1. \A k \in Jobs : job'[k] = IF k = j THEN r ELSE job[k]
    BY Suspended
  <1>2. \A k \in Jobs : Counts(job[k])'
    BY <1>1 DEF LimitInv, Counts, Due, Made, Entered, Writes
  <1>3. ASSUME NEW c \in Channels
        PROVE  EntryCounts(c)'
    <2>1. \A k \in Jobs : Made(job[k]) /\ channelRow[job[k].chan] =>
             \E l \in Jobs : Made(job'[l]) /\ job'[l].chan = job[k].chan
      BY <1>1
    <2>2. EntryCounts(c)
      BY DEF LimitInv
    <2>3. \A k \in Jobs : Made(job[k])' <=> Made(job'[k])
      BY DEF Made, Entered, Writes
    <2> QED
      BY <2>1, <2>2, <2>3 DEF EntryCounts
  <1> QED
    BY <1>2, <1>3 DEF LimitInv

\* The records of coroutines that have nothing to do with restarts.
LEMMA PlainCounts ==
    ASSUME NEW r, r.kind \notin {"auto", "exit"}, r.pc # "exitFind"
    PROVE  Counts(r)
  BY DEF Counts, Due, Made

LEMMA LimitThrows ==
    ASSUME RestOK, JobsOK(job), LimitInv, NEW j \in Jobs, Throw(j),
           UNCHANGED <<streams, count, autoRuns, channelRow>>,
           Made(job[j]) => ~channelRow[job[j].chan]
    PROVE  LimitInv'
  <1> DEFINE c == job[j].chan
  <1>1. PICK r : /\ Suspend(j, r)
                 /\ \/ r = MkJob("findRow", "fail", c, None, "error", 0)
                    \/ r = MkJob("findRow", "giveUp", c, None, "crashed", 0)
                    \/ r = IdleJob
    BY Zenon DEF Throw
  <1>2. Counts(r)
    BY <1>1, IdleCounts, PlainCounts DEF MkJob, Counts
  <1> QED
    BY <1>1, <1>2, LimitMoves

LEMMA LimitBegins ==
    ASSUME RestOK, JobsOK(job), LimitInv, NEW j \in Jobs, NEW c \in Channels,
           NEW kind \in {"start", "restart", "boot"}, BeginStart(j, c, kind, 0),
           UNCHANGED <<streams, count, autoRuns, channelRow>>, ~Made(job[j])
    PROVE  LimitInv'
  <1> DEFINE r == MkJob("load", kind, c, None, None, 0)
  <1>1. r.pc = "load" /\ r.kind = kind
    BY DEF MkJob
  <1>2. Counts(r)
    BY <1>1, PlainCounts
  <1>3. CASE Suspend(j, r)
    BY <1>2, <1>3, LimitMoves
  <1>4. CASE UNCHANGED job
    BY <1>4 DEF LimitInv, Counts, EntryCounts, Due, Made, Entered, Writes
  <1> QED
    BY <1>3, <1>4 DEF BeginStart

\* A registration counts the restart, or begins to count anew.
LEMMA LimitRegisters ==
    ASSUME RestOK, JobsOK(job), SerialInv, LimitInv, RestartMax > 0, NEW j \in Jobs,
           NEW p \in Procs, job[j].pc \in {"build", "prev"}, Register(j, job[j].chan, p),
           \A c \in Channels : streams[c] # p,
           \A k \in Jobs : k # j /\ job[k].pc = "exitFind" => job[k].proc # p,
           UNCHANGED channelRow
    PROVE  LimitInv'
  <1> DEFINE c == job[j].chan
             r == MkJob("findRow", job[j].kind, c, None, "running", job[j].cnt)
  <1>1. \A k \in Jobs : job'[k] = IF k = j THEN r ELSE job[k]
    BY Suspended DEF Register
  <1>2. r.pc = "findRow" /\ r.kind = job[j].kind /\ r.chan = c /\ r.cnt = job[j].cnt
    BY DEF MkJob
  <1> HIDE DEF r
  <1>3. c \in Channels /\ p # None /\ job[j].cnt \in Nat
    BY JobFields, ConstantsAssumption
  <1>4. job[j].kind \in Starts /\ Works(job[j]) /\ (job[j].pc = "prev" => job[j].kind = "restart")
    BY DEF SerialInv, Placed, Works, Starts
  <1>5. /\ \A d \in Channels : /\ streams'[d] = IF d = c THEN p ELSE streams[d]
                               /\ autoRuns[d] \in Nat
                               /\ d # c => autoRuns'[d] = autoRuns[d]
        /\ \A q \in Procs : q # p => count'[q] = count[q]
        /\ autoRuns'[c] = IF job[j].kind # "auto" THEN 0
                          ELSE IF autoRuns[c] <= CountCap THEN autoRuns[c] + 1 ELSE autoRuns[c]
    BY <1>3, ConstantsAssumption DEF Register, RestOK
  <1>6. Counts(job[j])
    BY DEF LimitInv
  <1>7. job[j].kind = "auto" => autoRuns'[c] <= RestartMax /\ autoRuns'[c] <= job[j].cnt
    <2> SUFFICES ASSUME job[j].kind = "auto"
                 PROVE  autoRuns'[c] <= RestartMax /\ autoRuns'[c] <= job[j].cnt
      OBVIOUS
    <2>1. autoRuns[c] < RestartMax /\ autoRuns[c] < job[j].cnt
      BY <1>4, <1>6 DEF Counts, Due
    <2> QED
      BY <1>3, <1>5, <2>1, ConstantsAssumption
  <1>8. \A d \in Channels : autoRuns'[d] <= RestartMax
    BY <1>5, <1>7, ConstantsAssumption DEF LimitInv
  <1>9. ASSUME NEW k \in Jobs
        PROVE  Counts(job[k])'
    <2>1. CASE k = j
      BY <1>1, <1>2, <1>4, <1>7, <2>1 DEF Counts, Due, Made, Starts
    <2>2. CASE k # j
      <3>1. job'[k] = job[k] /\ Counts(job[k])
        BY <1>1, <2>2 DEF LimitInv
      <3>2. Due(job[k]) \/ Made(job[k]) \/ job[k].pc = "exitFind" =>
               job[k].chan \in Channels /\ job[k].chan # c
        <4> SUFFICES ASSUME Due(job[k]) \/ Made(job[k]) \/ job[k].pc = "exitFind"
                     PROVE  job[k].chan \in Channels /\ job[k].chan # c
          OBVIOUS
        <4>1. Works(job[k])
          <5>1. job[k].pc # "idle"
            BY IdleCounts DEF SerialInv, Placed
          <5> QED
            BY <5>1 DEF SerialInv, Placed, Works, Due, Made, Entered, Writes
        <4> QED
          BY <1>4, <2>2, <4>1, JobFields DEF SerialInv, JobsAlone, Works
      <3>3. job[k].pc = "exitFind" => job[k].proc \in Procs \ {p}
        BY <2>2, JobFields
      <3>4. (Due(job[k])' => Due(job[k])) /\ (Made(job[k])' => Made(job[k]))
        BY <3>1 DEF Due, Made, Entered, Writes
      <3> QED
        BY <1>5, <3>1, <3>2, <3>3, <3>4 DEF Counts
    <2> QED
      BY <2>1, <2>2
  <1>10. ASSUME NEW d \in Channels
         PROVE  EntryCounts(d)'
    <2>1. CASE d = c
      <3>1. CASE job[j].kind = "auto"
        <4>1. Made(job[j])' /\ job'[j].chan = c
          BY <1>1, <1>2, <3>1 DEF Made, Entered, Writes, Starts
        <4> QED
          BY <2>1, <4>1 DEF EntryCounts
      <3>2. CASE job[j].kind # "auto"
        <4>1. streams'[c] = p /\ count'[p] = 0 /\ autoRuns'[c] = 0
          BY <1>3, <1>5, <3>2 DEF Register, RestOK
        <4> QED
          BY <2>1, <4>1 DEF EntryCounts
      <3> QED
        BY <3>1, <3>2
    <2>2. CASE d # c
      <3>1. \A k \in Jobs : Made(job[k]) /\ job[k].chan = d => Made(job[k])' /\ job'[k].chan = d
        BY <1>1, <2>2 DEF Made, Entered, Writes
      <3>2. EntryCounts(d)
        BY DEF LimitInv
      <3>3. streams[d] # None => streams[d] \in Procs \ {p}
        BY DEF RestOK
      <3> QED
        BY <1>5, <2>2, <3>1, <3>2, <3>3 DEF EntryCounts
    <2> QED
      BY <2>1, <2>2
  <1> QED
    BY <1>8, <1>9, <1>10 DEF LimitInv

\* The entry gets the number of the restart that was made.
LEMMA LimitCounted ==
    ASSUME RestOK, JobsOK(job), SerialInv, LimitInv, NEW j \in Jobs, SetCount(j)
    PROVE  LimitInv'
  <1> DEFINE c == job[j].chan
             p == streams[c]
  <1>1. \A k \in Jobs : job'[k] = IF k = j THEN IdleJob ELSE job[k]
    BY Suspended DEF SetCount
  <1>2. job[j].pc = "setCount" /\ c \in Channels /\ Made(job[j]) /\ Works(job[j])
    BY JobFields DEF SetCount, SerialInv, Placed, Works, Made, Entered
  <1>3. p \in Procs /\ p # None /\ osState[p] # "none" /\ chanOf[p] = c
    BY <1>2 DEF SerialInv, Fits, Entered, RestOK, ChildrenKnown
  <1>4. /\ count' = [count EXCEPT ![p] = job[j].cnt]
        /\ UNCHANGED <<streams, autoRuns, channelRow>>
    BY <1>3 DEF SetCount, NoteCount, dbVars, histVars
  <1>5. \A q \in Procs : count'[q] = IF q = p THEN job[j].cnt ELSE count[q]
    BY <1>4 DEF RestOK
  <1>6. ASSUME NEW k \in Jobs
        PROVE  Counts(job[k])'
    <2>1. CASE k = j
      BY <1>1, <2>1, IdleCounts DEF Counts, Due, Made, Entered, Writes
    <2>2. CASE k # j
      <3>1. job'[k] = job[k] /\ Counts(job[k])
        BY <1>1, <2>2 DEF LimitInv
      <3>2. job[k].pc = "exitFind" => job[k].proc \in Procs \ {p}
        BY <1>3, JobFields DEF SerialInv, Knows
      <3> QED
        BY <1>4, <1>5, <3>1, <3>2 DEF Counts, Due, Made, Entered, Writes
    <2> QED
      BY <2>1, <2>2
  <1>7. ASSUME NEW d \in Channels
        PROVE  EntryCounts(d)'
    <2>1. CASE d = c
      <3>1. autoRuns[c] <= job[j].cnt
        BY <1>2 DEF LimitInv, Counts
      <3> QED
        BY <1>3, <1>4, <1>5, <2>1, <3>1 DEF EntryCounts
    <2>2. CASE d # c
      <3>1. streams[d] # None => streams[d] \in Procs \ {p}
        BY <1>3, <2>2 DEF SerialInv, ChildrenKnown, RestOK
      <3>2. \A k \in Jobs : Made(job[k]) /\ job[k].chan = d => Made(job[k])' /\ job'[k].chan = d
        BY <1>1, <2>2 DEF Made, Entered, Writes
      <3>3. EntryCounts(d)
        BY DEF LimitInv
      <3> QED
        BY <1>4, <1>5, <3>1, <3>2, <3>3 DEF EntryCounts
    <2> QED
      BY <2>1, <2>2
  <1> QED
    BY <1>4, <1>6, <1>7 DEF LimitInv

\* onExit decides: a restart only where the number is below the limit.
LEMMA LimitDecides ==
    ASSUME RestOK, JobsOK(job), SerialInv, LimitInv, RestartMax > 0, NEW j \in Jobs, ExitFind(j)
    PROVE  LimitInv'
  <1> DEFINE c == job[j].chan
             p == job[j].proc
  <1>1. /\ job[j].pc = "exitFind" /\ c \in Channels /\ p \in Procs /\ osState[p] = "none"
        /\ UNCHANGED <<streams, autoRuns, channelRow>>
    BY JobFields DEF ExitFind, SerialInv, Knows, dbVars, histVars
  <1>2. PICK r :
           /\ Suspend(j, r)
           /\ \/ r = MkJob("findRow", "exit", c, None, "stopped", 0)
              \/ /\ CanRestart(c, p)
                 /\ r = MkJob("findRow", "exit", c, None, "restarting", Saturate(count[p]))
              \/ r = MkJob("findRow", "exit", c, None, "crashed", 0)
    BY Zenon DEF ExitFind
  <1>3. /\ r.pc = "findRow" /\ r.kind = "exit" /\ r.chan = c
        /\ r.target = "restarting" => CanRestart(c, p) /\ r.cnt = Saturate(count[p])
    BY <1>2 DEF MkJob
  <1>4. \A k \in Jobs : job'[k] = IF k = j THEN r ELSE job[k]
    BY <1>2, Suspended
  <1>5. \A q \in Procs : q # p => count'[q] = count[q]
    BY DEF ExitFind, RestOK
  <1>6. Due(r) => autoRuns[c] < RestartMax /\ autoRuns[c] < r.cnt
    <2> SUFFICES ASSUME Due(r) PROVE autoRuns[c] < RestartMax /\ autoRuns[c] < r.cnt
      OBVIOUS
    <2>1. CanRestart(c, p) /\ r.cnt = Saturate(count[p])
      BY <1>3 DEF Due
    <2>2. channelRow[c] /\ count[p] < RestartMax
      BY <2>1 DEF CanRestart
    <2>3. autoRuns[c] <= count[p]
      BY <1>1, <2>2 DEF LimitInv, Counts
    <2>4. autoRuns[c] \in Nat /\ count[p] \in Nat
      BY <1>1, ConstantsAssumption DEF RestOK
    <2> QED
      BY <2>1, <2>2, <2>3, <2>4, ConstantsAssumption DEF Saturate
  <1>7. ASSUME NEW k \in Jobs
        PROVE  Counts(job[k])'
    <2>1. CASE k = j
      BY <1>1, <1>3, <1>4, <1>6, <2>1 DEF Counts, Due, Made, Entered, Writes
    <2>2. CASE k # j
      <3>1. job'[k] = job[k] /\ Counts(job[k])
        BY <1>4, <2>2 DEF LimitInv
      <3>2. job[k].pc = "exitFind" => job[k].proc \in Procs \ {p}
        BY <1>1, <2>2, JobFields DEF SerialInv, JobsAlone
      <3> QED
        BY <1>1, <1>5, <3>1, <3>2 DEF Counts, Due, Made, Entered, Writes
    <2> QED
      BY <2>1, <2>2
  <1>8. ASSUME NEW d \in Channels
        PROVE  EntryCounts(d)'
    <2>1. streams[d] # None => streams[d] \in Procs \ {p}
      BY <1>1 DEF SerialInv, ChildrenKnown, RestOK
    <2>2. \A k \in Jobs : Made(job[k]) => Made(job[k])' /\ job'[k] = job[k]
      BY <1>1, <1>4 DEF Made, Entered, Writes
    <2>3. EntryCounts(d)
      BY DEF LimitInv
    <2> QED
      BY <1>1, <1>5, <2>1, <2>2, <2>3 DEF EntryCounts
  <1> QED
    BY <1>1, <1>7, <1>8 DEF LimitInv

\* A child that has exited is the entry of its channel, and nobody works for the channel.
LEMMA ExitedEntry ==
    ASSUME RestOK, SerialInv, NEW p \in Procs, osState[p] = "exited"
    PROVE  /\ chanOf[p] \in Channels /\ streams[chanOf[p]] = p /\ p # None
           /\ \A k \in Jobs : Works(job[k]) => job[k].chan # chanOf[p]
  <1>1. \A k \in Jobs : job[k].pc = "prev" => job[k].proc # p
    BY DEF SerialInv, Knows
  <1>2. chanOf[p] \in Channels /\ p # None
    BY ConstantsAssumption DEF RestOK
  <1> QED
    BY <1>1, <1>2 DEF SerialInv, ChildrenKnown, JobsAlone, Ends

\* onExit takes the number over from the entry.
LEMMA LimitExits ==
    ASSUME RestOK, JobsOK(job), SerialInv, LimitInv, NEW p \in Procs, OnExit(p)
    PROVE  LimitInv'
  <1> DEFINE c == chanOf[p]
             r == MkJob("exitFind", "exit", c, p, None, 0)
  <1>1. /\ c \in Channels /\ streams[c] = p /\ p # None
        /\ \A k \in Jobs : Works(job[k]) => job[k].chan # c
    BY ExitedEntry DEF OnExit
  <1>2. PICK j \in Jobs : Idle(j) /\ Suspend(j, r)
    BY DEF OnExit
  <1>3. r.pc = "exitFind" /\ r.kind = "exit" /\ r.chan = c /\ r.proc = p /\ r.target = None
    BY DEF MkJob
  <1>4. \A k \in Jobs : job'[k] = IF k = j THEN r ELSE job[k]
    BY <1>2, Suspended
  <1> HIDE DEF r
  <1>5. /\ streams'[c] = None
        /\ \A d \in Channels \ {c} : streams'[d] = streams[d]
        /\ UNCHANGED <<count, autoRuns, channelRow>>
    BY <1>1 DEF OnExit, RestOK, dbVars, histVars
  <1>6. channelRow[c] => autoRuns[c] <= count[p]
    <2>1. \A k \in Jobs : Made(job[k]) => job[k].chan # c
      <3> SUFFICES ASSUME NEW k \in Jobs, Made(job[k]) PROVE job[k].chan # c
        OBVIOUS
      <3>1. Works(job[k])
        BY DEF SerialInv, Placed, Works, Made, Entered, Writes
      <3> QED
        BY <1>1, <3>1
    <2> QED
      BY <1>1, <2>1 DEF LimitInv, EntryCounts
  <1>7. ~Due(r) /\ ~Made(r)
    BY <1>3, ConstantsAssumption DEF Due, Made, Entered, Writes, StreamState
  <1>8. ASSUME NEW k \in Jobs
        PROVE  Counts(job[k])'
    BY <1>3, <1>4, <1>5, <1>6, <1>7 DEF LimitInv, Counts, Due, Made, Entered, Writes
  <1>9. \A k \in Jobs : Made(job[k]) => Made(job[k])' /\ job'[k] = job[k]
    BY <1>2, <1>4 DEF Made, Entered, Writes, Idle
  <1>10. \A d \in Channels : EntryCounts(d)'
    BY <1>5, <1>9 DEF LimitInv, EntryCounts
  <1> QED
    BY <1>5, <1>8, <1>10 DEF LimitInv

LEMMA LimitJobStep ==
    ASSUME RestOK, JobsOK(job), SerialInv, LimitInv, RestartMax > 0, NEW j \in Jobs, JobStep(j)
    PROVE  LimitInv'
  <1> DEFINE c == job[j].chan
  <1>1. /\ Placed(job[j]) /\ Knows(job[j]) /\ (Works(job[j]) => Fits(job[j])) /\ Counts(job[j])
        /\ job[j].pc # "idle" => c \in Channels
    BY JobFields DEF SerialInv, LimitInv
  <1>2. ASSUME NEW pc \in {"build", "saveStatus", "setCount", "backoff", "saveRow"}, NEW r,
               r.pc = pc, r.kind = job[j].kind, r.chan = c, r.target = job[j].target,
               r.cnt = job[j].cnt, Suspend(j, r),
               UNCHANGED <<streams, count, autoRuns, channelRow>>,
               \/ pc = "build" /\ job[j].pc = "load"
               \/ pc = "setCount" /\ Writes(job[j]) /\ job[j].kind = "auto"
               \/ pc \in {"saveRow", "saveStatus"} /\ Writes(job[j])
               \/ pc = "backoff" /\ job[j].kind = "exit"
        PROVE  LimitInv'
    <2>1. Made(job[j]) => Made(r)
      BY <1>1, <1>2 DEF Made, Entered, Writes, Placed
    <2>2. Due(r) => Due(job[j])
      BY <1>2 DEF Due
    <2>3. Made(r) => Made(job[j])
      BY <1>2 DEF Made, Entered, Writes, Starts
    <2>4. Counts(r)
      BY <1>1, <1>2, <2>2, <2>3 DEF Counts
    <2> QED
      BY <1>2, <2>1, <2>4, LimitMoves
  <1>3. CASE Load(j) \/ BuildFails(j)
    <2>1. job[j].pc \in {"load", "build"} /\ UNCHANGED <<streams, count, autoRuns, channelRow>>
      BY <1>3 DEF Load, BuildFails, dbVars, procVars, histVars
    <2>2. ~Made(job[j])
      BY <2>1 DEF Made, Entered, Writes
    <2>3. CASE Throw(j)
      BY <2>1, <2>2, <2>3, LimitThrows
    <2>4. CASE ~Throw(j)
      <3> DEFINE r == [job[j] EXCEPT !.pc = "build"]
      <3>1. job[j].pc = "load" /\ Suspend(j, r)
        BY <1>3, <2>4 DEF Load, BuildFails
      <3>2. /\ r.pc = "build" /\ r.kind = job[j].kind /\ r.chan = c /\ r.target = job[j].target
            /\ r.cnt = job[j].cnt
        BY JobFields DEF Job
      <3> HIDE DEF r
      <3> QED
        BY <1>2, <2>1, <3>1, <3>2
    <2> QED
      BY <2>3, <2>4
  <1>4. ASSUME NEW p \in Procs, Spawn(j, p) \/ SpawnFails(j, p)
        PROVE  LimitInv'
    <2>1. /\ job[j].pc = "build"
          /\ \A d \in Channels : streams[d] # p
          /\ \A k \in Jobs : job[k].proc # p
      BY <1>4 DEF Spawn, SpawnFails, Free, Referenced
    <2>2. CASE WorkerGone
      BY <2>2, LimitGone
    <2>3. CASE Register(j, c, p) /\ ~WorkerGone
      <3>1. UNCHANGED channelRow
        BY <1>4 DEF Spawn, SpawnFails, dbVars
      <3> QED
        BY <2>1, <2>3, <3>1, LimitRegisters
    <2>4. CASE /\ Suspend(j, [job[j] EXCEPT !.pc = "prev", !.proc = p])
               /\ UNCHANGED <<streams, count, autoRuns>> /\ job[j].kind = "restart"
               /\ UNCHANGED channelRow
      <3> DEFINE r == [job[j] EXCEPT !.pc = "prev", !.proc = p]
      <3>1. r.pc = "prev" /\ r.kind = "restart"
        BY <2>4, JobFields DEF Job
      <3>2. Suspend(j, r)
        BY <2>4
      <3> HIDE DEF r
      <3>3. Counts(r) /\ ~Made(job[j])
        BY <2>1, <3>1, PlainCounts DEF Made, Entered, Writes
      <3> QED
        BY <2>4, <3>2, <3>3, LimitMoves
    <2> QED
      BY <1>4, <2>2, <2>3, <2>4 DEF Spawn, SpawnFails, dbVars
  <1>5. CASE RegisterKept(j)
    <2> DEFINE p == job[j].proc
    <2>1. /\ job[j].pc = "prev" /\ p \in Procs /\ osState[p] = "running" /\ chanOf[p] = c
          /\ Register(j, c, p) /\ UNCHANGED channelRow
      BY <1>1, <1>5, JobFields DEF RegisterKept, Knows, dbVars
    <2>2. streams[c] = None
      BY <1>1, <2>1 DEF Placed, Works, Fits, Entered, Writes
    <2>3. \A d \in Channels : streams[d] # p
      BY <2>1, <2>2, ConstantsAssumption DEF SerialInv, ChildrenKnown
    <2>4. \A k \in Jobs : job[k].pc = "exitFind" => job[k].proc # p
      BY <2>1 DEF SerialInv, Knows
    <2> QED
      BY <2>1, <2>3, <2>4, LimitRegisters
  <1>6. CASE SetCount(j)
    BY <1>6, LimitCounted
  <1>7. CASE BackoffFires(j)
    <2> DEFINE r == MkJob("load", "auto", c, None, None, job[j].cnt)
    <2>1. job[j].pc = "backoff" /\ Due(job[j]) /\ Works(job[j])
      BY <1>1, <1>7 DEF BackoffFires, Placed, Due, Works
    <2>2. streams[c] = None
      BY <1>1, <2>1 DEF Fits, Entered, Writes, Placed
    <2>3. Suspend(j, r) /\ UNCHANGED <<streams, count, autoRuns, channelRow>>
      BY <1>7, <2>2 DEF BackoffFires, BeginStart, dbVars
    <2>4. r.pc = "load" /\ r.kind = "auto" /\ r.chan = c /\ r.cnt = job[j].cnt
      BY DEF MkJob
    <2> HIDE DEF r
    <2>5. Counts(r) /\ ~Made(job[j])
      BY <1>1, <2>1, <2>4 DEF Counts, Due, Made, Entered, Writes
    <2> QED
      BY <2>3, <2>5, LimitMoves
  <1>8. CASE FindRow(j)
    <2> DEFINE r == [job[j] EXCEPT !.pc = "saveRow", !.found = processState[c] # None]
    <2>1. /\ r.pc = "saveRow" /\ r.kind = job[j].kind /\ r.chan = c /\ r.target = job[j].target
          /\ r.cnt = job[j].cnt
      BY JobFields DEF Job
    <2>2. /\ Suspend(j, r) /\ Writes(job[j])
          /\ UNCHANGED <<streams, count, autoRuns, channelRow>>
      BY <1>8 DEF FindRow, Writes, dbVars, procVars, histVars
    <2> HIDE DEF r
    <2> QED
      BY <1>2, <2>1, <2>2
  <1>9. CASE SaveRow(j)
    <2> DEFINE r == [job[j] EXCEPT !.pc = "saveStatus"]
    <2>1. /\ r.pc = "saveStatus" /\ r.kind = job[j].kind /\ r.chan = c /\ r.target = job[j].target
          /\ r.cnt = job[j].cnt
      BY JobFields DEF Job
    <2>2. /\ Suspend(j, r) /\ Writes(job[j])
          /\ UNCHANGED <<streams, count, autoRuns, channelRow>>
      BY <1>9 DEF SaveRow, Writes, procVars, histVars
    <2> HIDE DEF r
    <2> QED
      BY <1>2, <2>1, <2>2
  <1>10. ASSUME RestartAfterStop(j), job[j].kind = "restartStop", Writes(job[j]),
                UNCHANGED <<streams, count, autoRuns, channelRow>>
         PROVE  LimitInv'
    <2>1. Works(job[j]) /\ ~Made(job[j])
      BY <1>1, <1>10 DEF Works, Made, Writes
    <2>2. streams[c] = None
      BY <1>1, <1>10, <2>1 DEF Fits, Entered, Writes, Starts
    <2>3. BeginStart(j, c, "restart", 0) /\ c \in Channels
      BY <1>1, <1>10, <2>1, <2>2 DEF RestartAfterStop, Works
    <2> QED
      BY <1>10, <2>1, <2>3, LimitBegins
  <1>11. CASE SaveRowFails(j)
    <2>1. job[j].pc = "saveRow" /\ Writes(job[j]) /\ UNCHANGED channelRow
      BY <1>11 DEF SaveRowFails, Writes, dbVars
    <2>2. ~channelRow[c]
      BY <1>1, <1>11, <2>1 DEF SaveRowFails, RowWritable, Knows
    <2>3. \/ WorkerGone
          \/ /\ job[j].kind = "restartStop" /\ RestartAfterStop(j)
             /\ UNCHANGED <<streams, count, autoRuns>>
          \/ /\ Throw(j) /\ UNCHANGED <<streams, count, autoRuns>>
      BY <1>11 DEF SaveRowFails, procVars, histVars
    <2> QED
      BY <1>10, <2>1, <2>2, <2>3, LimitGone, LimitThrows
  <1>12. CASE SaveStatus(j)
    <2>1. /\ job[j].pc = "saveStatus" /\ Writes(job[j])
          /\ UNCHANGED <<streams, count, autoRuns, channelRow>>
      BY <1>12 DEF SaveStatus, Writes, procVars
    <2>2. \/ job[j].kind = "auto" /\ Suspend(j, [job[j] EXCEPT !.pc = "setCount"])
          \/ job[j].kind = "exit" /\ Suspend(j, [job[j] EXCEPT !.pc = "backoff"])
          \/ job[j].kind = "restartStop" /\ RestartAfterStop(j)
          \/ job[j].kind # "auto" /\ Suspend(j, IdleJob)
      BY <1>12 DEF SaveStatus, AfterUpdate
    <2>3. ASSUME NEW r, Suspend(j, r), r.kind = job[j].kind, r.chan = c, r.cnt = job[j].cnt,
                 r.target = job[j].target,
                 (r.pc = "setCount" /\ job[j].kind = "auto") \/ (r.pc = "backoff" /\ job[j].kind = "exit")
          PROVE  LimitInv'
      BY <1>2, <2>1, <2>3
    <2>4. CASE job[j].kind # "auto" /\ Suspend(j, IdleJob)
      <3>1. Counts(IdleJob) /\ ~Made(job[j])
        BY <2>4, IdleCounts DEF Counts, Made
      <3> QED
        BY <2>1, <2>4, <3>1, LimitMoves
    <2>5. CASE job[j].kind = "auto" /\ Suspend(j, [job[j] EXCEPT !.pc = "setCount"])
      <3> DEFINE r == [job[j] EXCEPT !.pc = "setCount"]
      <3>1. /\ r.pc = "setCount" /\ r.kind = job[j].kind /\ r.chan = c /\ r.target = job[j].target
            /\ r.cnt = job[j].cnt
        BY JobFields DEF Job
      <3>2. Suspend(j, r) /\ job[j].kind = "auto"
        BY <2>5
      <3> HIDE DEF r
      <3> QED
        BY <2>3, <3>1, <3>2
    <2>6. CASE job[j].kind = "exit" /\ Suspend(j, [job[j] EXCEPT !.pc = "backoff"])
      <3> DEFINE r == [job[j] EXCEPT !.pc = "backoff"]
      <3>1. /\ r.pc = "backoff" /\ r.kind = job[j].kind /\ r.chan = c /\ r.target = job[j].target
            /\ r.cnt = job[j].cnt
        BY JobFields DEF Job
      <3>2. Suspend(j, r) /\ job[j].kind = "exit"
        BY <2>6
      <3> HIDE DEF r
      <3> QED
        BY <2>3, <3>1, <3>2
    <2>7. CASE job[j].kind = "restartStop" /\ RestartAfterStop(j)
      BY <1>10, <2>1, <2>7 DEF Writes
    <2> QED
      BY <2>2, <2>4, <2>5, <2>6, <2>7
  <1>13. CASE ExitFind(j)
    BY <1>13, LimitDecides
  <1>14. CASE WatchdogKill(j)
    <2>1. /\ job[j].pc = "watchKill" /\ Suspend(j, IdleJob)
          /\ UNCHANGED <<streams, count, autoRuns, channelRow>>
      BY <1>14 DEF WatchdogKill, dbVars, histVars
    <2>2. Counts(IdleJob) /\ ~Made(job[j])
      BY <2>1, IdleCounts DEF Counts, Made, Entered, Writes
    <2> QED
      BY <2>1, <2>2, LimitMoves
  <1> QED
    BY <1>3, <1>4, <1>5, <1>6, <1>7, <1>8, <1>9, <1>11, <1>12, <1>13, <1>14 DEF JobStep

\* Steps of clients, of the watchdog and of the boot begin with no restart made.
LEMMA LimitOthers ==
    ASSUME RestOK, JobsOK(job), SerialInv, LimitInv,
           \/ \E c \in Channels : Command(c) \/ WatchdogStall(c) \/ Remove(c)
           \/ Boot \/ WorkerEnds
           \/ \E p \in Procs : ProcStep(p)
    PROVE  LimitInv'
  <1>1. ASSUME NEW j \in Jobs, Idle(j), NEW r, r.kind \notin {"auto", "exit"}, r.pc # "exitFind",
               Suspend(j, r), UNCHANGED <<streams, count, autoRuns, channelRow>>
        PROVE  LimitInv'
    BY <1>1, PlainCounts, LimitMoves DEF Idle, Made, Entered, Writes
  <1>2. ASSUME UNCHANGED <<job, streams, count, autoRuns>>,
               \A c \in Channels : channelRow'[c] => channelRow[c]
        PROVE  LimitInv'
    <2>1. \A k \in Jobs : job[k].pc = "exitFind" => job[k].chan \in Channels
      BY JobFields
    <2>2. \A k \in Jobs : Counts(job[k])'
      BY <1>2, <2>1 DEF LimitInv, Counts, Due, Made, Entered, Writes
    <2>3. \A c \in Channels : EntryCounts(c)'
      BY <1>2 DEF LimitInv, EntryCounts, Made, Entered, Writes
    <2> QED
      BY <1>2, <2>2, <2>3 DEF LimitInv
  <1>3. ASSUME NEW c \in Channels, Command(c)
        PROVE  LimitInv'
    <2>1. CASE ReceiveStart(c)
      <3>1. PICK j \in Jobs : Idle(j) /\ BeginStart(j, c, "start", 0)
        BY <2>1 DEF ReceiveStart
      <3>2. ~Made(job[j]) /\ UNCHANGED <<streams, count, autoRuns, channelRow>>
        BY <2>1, <3>1 DEF ReceiveStart, Idle, Made, Entered, Writes, dbVars, procVars
      <3> QED
        BY <3>1, <3>2, LimitBegins
    <2>2. CASE ~ReceiveStart(c)
      <3>1. UNCHANGED <<streams, count, autoRuns, channelRow>>
        BY <1>3, <2>2 DEF Command, Receive, ReceiveStop, ReceiveRestart, dbVars, histVars
      <3>2. \/ UNCHANGED job
            \/ \E j \in Jobs, kind \in {"stop", "restartStop"} :
                  Idle(j) /\ Suspend(j, MkJob("findRow", kind, c, None, "stopped", 0))
        BY <1>3, <2>2 DEF Command, Receive, ReceiveStop, ReceiveRestart
      <3>3. \A kind \in {"stop", "restartStop"} :
               /\ MkJob("findRow", kind, c, None, "stopped", 0).kind = kind
               /\ MkJob("findRow", kind, c, None, "stopped", 0).pc = "findRow"
        BY DEF MkJob
      <3> QED
        BY <1>1, <1>2, <3>1, <3>2, <3>3
    <2> QED
      BY <2>1, <2>2
  <1>4. ASSUME NEW c \in Channels, WatchdogStall(c)
        PROVE  LimitInv'
    <2> DEFINE r == MkJob("watchKill", "watchdog", c, streams[c], None, 0)
    <2>1. PICK j \in Jobs : Idle(j) /\ Suspend(j, r)
      BY <1>4 DEF WatchdogStall
    <2>2. r.kind = "watchdog" /\ r.pc = "watchKill"
      BY DEF MkJob
    <2>3. UNCHANGED <<streams, count, autoRuns, channelRow>>
      BY <1>4 DEF WatchdogStall, dbVars, procVars, histVars
    <2> HIDE DEF r
    <2> QED
      BY <1>1, <2>1, <2>2, <2>3
  <1>5. ASSUME NEW c \in Channels, Remove(c)
        PROVE  LimitInv'
    <2>1. /\ UNCHANGED <<job, streams, count, autoRuns>>
          /\ \A d \in Channels : channelRow'[d] => channelRow[d]
      BY <1>5 DEF Remove, RemoveCheck, RemoveChannel, RestOK, procVars, histVars
    <2> QED
      BY <1>2, <2>1
  <1>6. CASE Boot
    <2>1. CASE WorkerSubscribes \/ BootQuery
      BY <1>2, <2>1 DEF WorkerSubscribes, BootQuery, dbVars, procVars, histVars
    <2>2. ASSUME NEW c \in Channels, BootStart(c)
          PROVE  LimitInv'
      <3>1. PICK j \in Jobs : Idle(j) /\ BeginStart(j, c, "boot", 0)
        BY <2>2 DEF BootStart
      <3>2. ~Made(job[j]) /\ UNCHANGED <<streams, count, autoRuns, channelRow>>
        BY <2>2, <3>1 DEF BootStart, Idle, Made, Entered, Writes, dbVars, procVars
      <3> QED
        BY <3>1, <3>2, LimitBegins
    <2> QED
      BY <1>6, <2>1, <2>2 DEF Boot
  <1>7. CASE WorkerEnds
    <2>1. CASE Shutdown
      BY <1>2, <2>1 DEF Shutdown, dbVars, histVars
    <2> QED
      BY <1>7, <2>1, LimitGone DEF WorkerEnds, WorkerExits, WorkerCrashes
  <1>8. ASSUME NEW p \in Procs, ProcStep(p)
        PROVE  LimitInv'
    <2>1. CASE ProcExit(p) \/ KillTimerFires(p)
      BY <1>2, <2>1 DEF ProcExit, KillTimerFires, dbVars, histVars
    <2>2. CASE OnExit(p)
      BY <2>2, LimitExits
    <2> QED
      BY <1>8, <2>1, <2>2 DEF ProcStep
  <1> QED
    BY <1>3, <1>4, <1>5, <1>6, <1>7, <1>8

LEMMA LimitStep ==
    ASSUME TypeOK, SerialInv, LimitInv, RestartMax > 0, [Next]_vars
    PROVE  LimitInv'
  <1>1. RestOK /\ JobsOK(job)
    BY TypeSplit
  <1>2. CASE UNCHANGED vars
    BY <1>2 DEF LimitInv, Counts, EntryCounts, Due, Made, Entered, Writes, vars, dbVars, procVars, histVars
  <1> QED
    BY <1>1, <1>2, LimitJobStep, LimitOthers DEF Next

\* restart_max bounds the automatic restarts of a channel since it was asked to run, for any
\* limit, if clients and stalls meet settled channels and no child dies before its start
\* has ended.
THEOREM RestartsStayLimited ==
    ASSUME Settling
    PROVE  Spec => []RestartLimit
  <1>1. CASE RestartMax > 0
    <2>1. TypeOK /\ SerialInv /\ LimitInv /\ [Next]_vars => LimitInv'
      BY <1>1, LimitStep
    <2>2. LimitInv => RestartLimit
      BY DEF LimitInv, RestartLimit
    <2> QED
      BY <2>1, <2>2, LimitStart, TypeCorrect, SerialInvHolds, PTL DEF Spec
  <1>2. CASE ~(RestartMax > 0)
    <2>1. RestartLimit
      BY <1>2 DEF RestartLimit
    <2> QED
      BY <2>1, PTL
  <1> QED
    BY <1>1, <1>2

----------------------------------------------------------------------------
(***************************************************************************)
(* The status of a channel.  Where nobody but a watchdog works for a       *)
(* channel that the worker has taken up, its status and its entry agree;   *)
(* every coroutine that makes them differ goes on until they agree again.  *)
(***************************************************************************)
Busy(c) == \E j \in Jobs : Works(job[j]) /\ job[j].chan = c

Resting(c) ==
    /\ worker \in {"up", "closing"} /\ c \notin bootQueue /\ channelRow[c]
    /\ ~Busy(c)

Agrees(c) ==
    /\ status[c] = "running" <=> streams[c] # None
    /\ streams[c] # None => processState[c] = "running"

\* What the coroutine q has written of its channel.
Written(q) ==
    /\ q.pc = "saveStatus" => processState[q.chan] = q.target
    /\ q.pc = "setCount" => status[q.chan] = "running" /\ processState[q.chan] = "running"

StatusInv ==
    /\ \A c \in Channels : Resting(c) => Agrees(c)
    /\ \A j \in Jobs : channelRow[job[j].chan] => Written(job[j])

LEMMA StatusStart == Init => StatusInv
  <1> SUFFICES ASSUME Init PROVE StatusInv
    OBVIOUS
  <1>1. /\ \A j \in Jobs : job[j] = IdleJob
        /\ worker = "down"
    BY DEF Init
  <1> QED
    BY <1>1, IdleFields DEF StatusInv, Resting, Written

LEMMA StatusGone == WorkerGone => StatusInv'
  <1> SUFFICES ASSUME WorkerGone PROVE StatusInv'
    OBVIOUS
  <1>1. /\ \A j \in Jobs : job'[j] = IdleJob
        /\ worker' = "down"
    BY DEF WorkerGone
  <1> QED
    BY <1>1, IdleFields DEF StatusInv, Resting, Written

\* Job j, or a slot that was idle, goes on for channel c, or ends with c in agreement.
LEMMA StatusMoves ==
    ASSUME RestOK, JobsOK(job), SerialInv, StatusInv, NEW j \in Jobs, NEW r, Suspend(j, r),
           NEW c \in Channels,
           \/ Works(job[j]) /\ job[j].chan = c
           \/ Idle(j) /\ UNCHANGED <<status, processState>>,
           \/ r = IdleJob /\ (channelRow[c] => Agrees(c)')
           \/ /\ Works(r) /\ r.chan = c
              /\ channelRow[c] =>
                    /\ r.pc = "saveStatus" => processState'[c] = r.target
                    /\ r.pc = "setCount" => status'[c] = "running" /\ processState'[c] = "running",
           \A d \in Channels \ {c} : /\ status'[d] = status[d] /\ processState'[d] = processState[d]
                                     /\ streams'[d] = streams[d]
                                     /\ d \notin bootQueue' => d \notin bootQueue,
           UNCHANGED <<channelRow, worker>>
    PROVE  StatusInv'
  <1>1. \A k \in Jobs : job'[k] = IF k = j THEN r ELSE job[k]
    BY Suspended
  <1>2. Works(r) => r.chan = c
    BY IdleFields
  <1>3. Works(r) => Busy(c)'
    BY <1>1, <1>2 DEF Busy, Works
  <1>4. \A d \in Channels \ {c} : Busy(d) => Busy(d)'
    BY <1>1 DEF Busy, Works, Idle
  <1>5. \A d \in Channels : Resting(d)' => Agrees(d)'
    <2> SUFFICES ASSUME NEW d \in Channels, Resting(d)' PROVE Agrees(d)'
      OBVIOUS
    <2>1. CASE d = c
      BY <1>3, <2>1 DEF Resting
    <2>2. CASE d # c
      BY <1>4, <2>2 DEF StatusInv, Resting, Agrees
    <2> QED
      BY <2>1, <2>2
  <1>6. ASSUME NEW k \in Jobs, channelRow'[job'[k].chan]
        PROVE  Written(job[k])'
    <2>1. CASE k = j
      BY <1>1, <1>6, <2>1, IdleFields DEF Written
    <2>2. CASE k # j
      <3>1. job'[k] = job[k] /\ Written(job[k])
        BY <1>1, <1>6, <2>2 DEF StatusInv
      <3>2. CASE job[k].pc \in {"saveStatus", "setCount"}
        <4>1. job[k].chan \in Channels /\ Works(job[k])
          BY <3>2, JobFields DEF SerialInv, Placed, Works
        <4>2. job[k].chan # c \/ UNCHANGED <<status, processState>>
          BY <2>2, <4>1 DEF SerialInv, JobsAlone
        <4> QED
          BY <3>1, <4>1, <4>2 DEF Written
      <3> QED
        BY <3>1, <3>2 DEF Written
    <2> QED
      BY <2>1, <2>2
  <1> QED
    BY <1>5, <1>6 DEF StatusInv

\* Nobody who works begins or ends.
LEMMA StatusStays ==
    ASSUME RestOK, JobsOK(job), SerialInv, StatusInv,
           \A k \in Jobs : /\ Works(job[k]) => job'[k] = job[k]
                           /\ job'[k].pc \in {"saveStatus", "setCount"} => job'[k] = job[k],
           UNCHANGED <<streams, status, bootQueue>>,
           \A c \in Channels : channelRow'[c] =>
                                  channelRow[c] /\ processState'[c] = processState[c],
           worker' = worker \/ (worker = "up" /\ worker' = "closing")
    PROVE  StatusInv'
  <1>1. \A c \in Channels : Busy(c) => Busy(c)'
    BY DEF Busy, Works
  <1>2. \A c \in Channels : Resting(c)' => Resting(c)
    BY <1>1 DEF Resting
  <1>3. ASSUME NEW c \in Channels, Resting(c)'
        PROVE  Agrees(c)'
    <2>1. channelRow'[c] /\ Agrees(c)
      BY <1>2, <1>3 DEF StatusInv, Resting
    <2>2. processState'[c] = processState[c]
      BY <2>1
    <2> QED
      BY <2>1, <2>2 DEF Agrees
  <1>4. \A k \in Jobs : job'[k].pc \in {"saveStatus", "setCount"} =>
                            job'[k] = job[k] /\ job[k].chan \in Channels
    BY JobFields
  <1>5. \A k \in Jobs : channelRow'[job'[k].chan] => Written(job[k])'
    BY <1>4 DEF StatusInv, Written
  <1> QED
    BY <1>3, <1>5 DEF StatusInv

\* An exception ends a coroutine only when its channel is deleted.
LEMMA StatusThrows ==
    ASSUME RestOK, JobsOK(job), SerialInv, StatusInv, NEW j \in Jobs, Throw(j), Works(job[j]),
           ~channelRow[job[j].chan],
           UNCHANGED <<channelRow, status, processState, streams, worker, bootQueue>>
    PROVE  StatusInv'
  <1> DEFINE c == job[j].chan
  <1>1. c \in Channels
    BY JobFields DEF Works
  <1>2. PICK r : /\ Suspend(j, r)
                 /\ \/ r = MkJob("findRow", "fail", c, None, "error", 0)
                    \/ r = MkJob("findRow", "giveUp", c, None, "crashed", 0)
                    \/ r = IdleJob
    BY Zenon DEF Throw
  <1>3. r = IdleJob \/ (Works(r) /\ r.chan = c)
    BY <1>2 DEF MkJob, Works
  <1> QED
    BY <1>1, <1>2, <1>3, StatusMoves

LEMMA StatusBegins ==
    ASSUME RestOK, JobsOK(job), SerialInv, StatusInv, NEW j \in Jobs, NEW c \in Channels,
           NEW kind \in Starts, NEW n, BeginStart(j, c, kind, n), streams[c] = None,
           \/ Works(job[j]) /\ job[j].chan = c
           \/ Idle(j) /\ UNCHANGED <<status, processState>>,
           \A d \in Channels \ {c} : /\ status'[d] = status[d] /\ processState'[d] = processState[d]
                                     /\ streams'[d] = streams[d]
                                     /\ d \notin bootQueue' => d \notin bootQueue,
           UNCHANGED <<channelRow, worker>>
    PROVE  StatusInv'
  <1> DEFINE r == MkJob("load", kind, c, None, None, n)
  <1>1. Works(r) /\ r.chan = c /\ r.pc = "load"
    BY LoadFits
  <1>2. Suspend(j, r)
    BY DEF BeginStart
  <1> HIDE DEF r
  <1> QED
    BY <1>1, <1>2, StatusMoves

\* The two writes are done: the status is what the coroutine knows of the entry.
LEMMA StatusWritten ==
    ASSUME RestOK, JobsOK(job), SerialInv, StatusInv, NEW j \in Jobs, SaveStatus(j),
           NEW c \in Channels, job[j].chan = c
    PROVE  StatusInv'
  <1>1. /\ job[j].pc = "saveStatus" /\ Writes(job[j])
        /\ Works(job[j]) /\ Placed(job[j]) /\ Fits(job[j])
    BY JobFields DEF SaveStatus, Writes, SerialInv, Placed, Works
  <1>2. /\ channelRow[c] => status'[c] = job[j].target
        /\ \A d \in Channels \ {c} : status'[d] = status[d]
        /\ UNCHANGED <<streams, processState, channelRow, worker, bootQueue>>
        /\ channelRow[c] => processState[c] = job[j].target
    BY <1>1 DEF SaveStatus, RestOK, bootVars, StatusInv, Written
  <1>3. channelRow[c] => Agrees(c)'
    <2>1. channelRow[c] => (job[j].kind \in Starts <=> streams[c] # None)
      BY <1>1 DEF Fits, Entered
    <2>2. job[j].target = "running" <=> job[j].kind \in Starts
      BY <1>1 DEF Placed
    <2> QED
      BY <1>2, <2>1, <2>2 DEF Agrees
  <1>4. ASSUME NEW r, Suspend(j, r), r.chan = c, r.kind = job[j].kind,
               r.pc = "setCount" \/ r.pc = "backoff",
               job[j].kind = "auto" \/ r.pc = "backoff"
        PROVE  StatusInv'
    <2>1. r.pc = "setCount" => job[j].target = "running"
      BY <1>1, <1>4 DEF Placed, Starts
    <2>3. r.pc # "saveStatus"
      BY <1>4
    <2>2. Works(r)
      BY <1>1, <1>4 DEF Works
    <2> QED
      BY <1>1, <1>2, <1>4, <2>1, <2>2, <2>3, StatusMoves
  <1>5. CASE job[j].kind = "auto" /\ Suspend(j, [job[j] EXCEPT !.pc = "setCount"])
    <2> DEFINE r == [job[j] EXCEPT !.pc = "setCount"]
    <2>1. r.pc = "setCount" /\ r.kind = job[j].kind /\ r.chan = c
      BY JobFields DEF Job
    <2>2. Suspend(j, r) /\ job[j].kind = "auto"
      BY <1>5
    <2> HIDE DEF r
    <2> QED
      BY <1>4, <2>1, <2>2
  <1>6. CASE job[j].kind = "exit" /\ Suspend(j, [job[j] EXCEPT !.pc = "backoff"])
    <2> DEFINE r == [job[j] EXCEPT !.pc = "backoff"]
    <2>1. r.pc = "backoff" /\ r.kind = job[j].kind /\ r.chan = c
      BY JobFields DEF Job
    <2>2. Suspend(j, r)
      BY <1>6
    <2> HIDE DEF r
    <2> QED
      BY <1>4, <2>1, <2>2
  <1>7. CASE job[j].kind = "restartStop" /\ RestartAfterStop(j)
    <2>1. streams[c] = None
      BY <1>1, <1>7 DEF Fits, Entered, Starts
    <2>2. BeginStart(j, c, "restart", 0)
      BY <1>7, <2>1 DEF RestartAfterStop
    <2> QED
      BY <1>1, <1>2, <2>1, <2>2, StatusBegins DEF Starts
  <1>8. CASE Suspend(j, IdleJob)
    BY <1>1, <1>2, <1>3, <1>8, StatusMoves
  <1> QED
    BY <1>5, <1>6, <1>7, <1>8 DEF SaveStatus, AfterUpdate

\* The start of j registers its child, and goes on.
LEMMA StatusRegisters ==
    ASSUME RestOK, JobsOK(job), SerialInv, StatusInv, NEW j \in Jobs, NEW p \in Procs,
           job[j].pc \in {"build", "prev"}, Register(j, job[j].chan, p),
           UNCHANGED <<channelRow, status, processState, worker, bootQueue>>
    PROVE  StatusInv'
  <1> DEFINE c == job[j].chan
             r == MkJob("findRow", job[j].kind, c, None, "running", job[j].cnt)
  <1>1. c \in Channels /\ Works(job[j]) /\ job[j].kind \in Starts
    BY JobFields DEF SerialInv, Placed, Works, Starts
  <1>2. \A d \in Channels \ {c} : streams'[d] = streams[d]
    BY DEF Register, RestOK
  <1>3. r.pc = "findRow" /\ r.kind = job[j].kind /\ r.chan = c
    BY DEF MkJob
  <1>4. Suspend(j, r)
    BY DEF Register
  <1> HIDE DEF r
  <1>5. Works(r)
    BY <1>1, <1>3 DEF Works, Starts
  <1> QED
    BY <1>1, <1>2, <1>3, <1>4, <1>5, StatusMoves

LEMMA StatusJobStep ==
    ASSUME RestOK, JobsOK(job), SerialInv, StatusInv, "badBuild" \notin Events,
           NEW j \in Jobs, JobStep(j)
    PROVE  StatusInv'
  <1> DEFINE c == job[j].chan
  <1>1. /\ Placed(job[j]) /\ Knows(job[j]) /\ (Works(job[j]) => Fits(job[j]))
        /\ job[j].pc # "idle" => c \in Channels
    BY JobFields DEF SerialInv
  <1>2. ASSUME NEW r, Suspend(j, r), r.chan = c, r.kind = job[j].kind,
               r.pc \in {"build", "prev", "saveRow"}, Works(job[j]),
               UNCHANGED <<channelRow, status, processState, streams, worker, bootQueue>>
        PROVE  StatusInv'
    <2>1. Works(r) /\ c \in Channels
      BY <1>1, <1>2 DEF Works
    <2> QED
      BY <1>2, <2>1, StatusMoves
  <1>3. CASE Load(j)
    <2>1. job[j].pc = "load" /\ UNCHANGED <<channelRow, status, processState, streams, worker, bootQueue>>
      BY <1>3 DEF Load, dbVars, bootVars
    <2>2. Works(job[j])
      BY <1>1, <2>1 DEF Works, Placed, Starts
    <2>3. CASE channelRow[c]
      <3> DEFINE r == [job[j] EXCEPT !.pc = "build"]
      <3>1. r.pc = "build" /\ r.chan = c /\ r.kind = job[j].kind
        BY JobFields DEF Job
      <3>2. Suspend(j, r)
        BY <1>3, <2>3 DEF Load
      <3> HIDE DEF r
      <3> QED
        BY <1>2, <2>1, <2>2, <3>1, <3>2
    <2>4. CASE ~channelRow[c]
      BY <1>3, <2>1, <2>2, <2>4, StatusThrows DEF Load
    <2> QED
      BY <2>3, <2>4
  <1>4. CASE RegisterKept(j)
    <2>1. /\ job[j].pc = "prev" /\ Register(j, c, job[j].proc) /\ job[j].proc \in Procs
          /\ UNCHANGED <<channelRow, status, processState, worker, bootQueue>>
      BY <1>4, JobFields DEF RegisterKept, dbVars, bootVars
    <2> QED
      BY <2>1, StatusRegisters
  <1>5. ASSUME NEW p \in Procs, Spawn(j, p) \/ SpawnFails(j, p)
        PROVE  StatusInv'
    <2>1. job[j].pc = "build" /\ UNCHANGED <<channelRow, status, processState>>
      BY <1>5 DEF Spawn, SpawnFails, dbVars
    <2>2. CASE Register(j, c, p) /\ UNCHANGED <<worker, bootQueue>>
      BY <2>1, <2>2, StatusRegisters
    <2>3. CASE /\ Suspend(j, [job[j] EXCEPT !.pc = "prev", !.proc = p])
               /\ UNCHANGED <<streams, worker, bootQueue>>
      <3> DEFINE r == [job[j] EXCEPT !.pc = "prev", !.proc = p]
      <3>1. r.pc = "prev" /\ r.chan = c /\ r.kind = job[j].kind
        BY JobFields DEF Job
      <3>2. Suspend(j, r) /\ UNCHANGED <<streams, worker, bootQueue>>
        BY <2>3
      <3>3. Works(job[j])
        BY <1>1, <2>1 DEF Works, Placed, Starts
      <3> HIDE DEF r
      <3> QED
        BY <1>2, <2>1, <3>1, <3>2, <3>3
    <2> QED
      BY <1>5, <2>2, <2>3, StatusGone DEF Spawn, SpawnFails, bootVars
  <1>6. CASE SetCount(j)
    <2>1. /\ job[j].pc = "setCount" /\ Suspend(j, IdleJob)
          /\ UNCHANGED <<channelRow, status, processState, streams, worker, bootQueue>>
      BY <1>6 DEF SetCount, dbVars, bootVars
    <2>2. PICK d \in Channels : d = c
      BY <1>1, <2>1
    <2>3. Works(job[j]) /\ streams[d] # None
      BY <1>1, <2>1, <2>2 DEF Placed, Works, Fits, Entered
    <2>4. channelRow[d] => status[d] = "running" /\ processState[d] = "running"
      BY <2>1, <2>2 DEF StatusInv, Written
    <2>5. channelRow[d] => Agrees(d)'
      BY <2>1, <2>3, <2>4 DEF Agrees
    <2> QED
      BY <2>1, <2>2, <2>3, <2>5, StatusMoves
  <1>7. CASE BackoffFires(j)
    <2>1. /\ job[j].pc = "backoff" /\ UNCHANGED <<channelRow, status, processState, streams, worker, bootQueue>>
      BY <1>7 DEF BackoffFires, dbVars, bootVars
    <2>2. Works(job[j]) /\ streams[c] = None /\ c \in Channels
      BY <1>1, <2>1 DEF Placed, Works, Fits, Entered, Writes
    <2>3. BeginStart(j, c, "auto", job[j].cnt)
      BY <1>7, <2>2 DEF BackoffFires
    <2> QED
      BY <2>1, <2>2, <2>3, StatusBegins DEF Starts
  <1>8. CASE FindRow(j)
    <2> DEFINE r == [job[j] EXCEPT !.pc = "saveRow", !.found = processState[c] # None]
    <2>1. r.pc = "saveRow" /\ r.chan = c /\ r.kind = job[j].kind
      BY JobFields DEF Job
    <2>2. /\ Suspend(j, r) /\ job[j].pc = "findRow"
          /\ UNCHANGED <<channelRow, status, processState, streams, worker, bootQueue>>
      BY <1>8 DEF FindRow, dbVars, bootVars
    <2>3. Works(job[j])
      BY <1>1, <2>2 DEF Works, Placed
    <2> HIDE DEF r
    <2> QED
      BY <1>2, <2>1, <2>2, <2>3
  <1>9. CASE SaveRow(j)
    <2> DEFINE r == [job[j] EXCEPT !.pc = "saveStatus"]
    <2>1. r.pc = "saveStatus" /\ r.chan = c /\ r.kind = job[j].kind
      BY JobFields DEF Job
    <2>2. /\ Suspend(j, r) /\ job[j].pc = "saveRow"
          /\ UNCHANGED <<channelRow, status, streams, worker, bootQueue>>
      BY <1>9 DEF SaveRow, bootVars
    <2>3. Works(job[j]) /\ c \in Channels
      BY <1>1, <2>2 DEF Works, Placed
    <2>4. /\ processState'[c] = job[j].target
          /\ \A d \in Channels \ {c} : processState'[d] = processState[d]
      BY <1>9, <2>3 DEF SaveRow, RestOK
    <2>5. r.target = job[j].target
      BY JobFields DEF Job
    <2> HIDE DEF r
    <2>6. Works(r)
      BY <2>1, <2>3 DEF Works
    <2> QED
      BY <2>1, <2>2, <2>3, <2>4, <2>5, <2>6, StatusMoves
  <1>10. CASE SaveRowFails(j)
    <2>1. job[j].pc = "saveRow" /\ UNCHANGED <<channelRow, status, processState>>
      BY <1>10 DEF SaveRowFails, dbVars
    <2>2. Works(job[j]) /\ c \in Channels
      BY <1>1, <2>1 DEF Works, Placed
    <2>3. ~channelRow[c]
      BY <1>1, <1>10, <2>1 DEF SaveRowFails, RowWritable, Knows
    <2>4. \/ WorkerGone
          \/ /\ job[j].kind = "restartStop" /\ RestartAfterStop(j)
             /\ UNCHANGED <<streams, worker, bootQueue>>
          \/ /\ Throw(j) /\ UNCHANGED <<streams, worker, bootQueue>>
      BY <1>10 DEF SaveRowFails, bootVars
    <2>5. CASE /\ job[j].kind = "restartStop" /\ RestartAfterStop(j)
               /\ UNCHANGED <<streams, worker, bootQueue>>
      <3>1. streams[c] = None
        BY <1>1, <2>1, <2>2, <2>5 DEF Fits, Entered, Starts
      <3>2. BeginStart(j, c, "restart", 0)
        BY <2>5, <3>1 DEF RestartAfterStop
      <3> QED
        BY <2>1, <2>2, <2>5, <3>1, <3>2, StatusBegins DEF Starts
    <2> QED
      BY <2>1, <2>2, <2>3, <2>4, <2>5, StatusGone, StatusThrows
  <1>11. CASE SaveStatus(j)
    BY <1>1, <1>11, StatusWritten DEF SaveStatus
  <1>12. CASE ExitFind(j)
    <2>1. /\ job[j].pc = "exitFind"
          /\ UNCHANGED <<channelRow, status, processState, streams, worker, bootQueue>>
      BY <1>12 DEF ExitFind, dbVars, bootVars
    <2>2. PICK target, n : Suspend(j, MkJob("findRow", "exit", c, None, target, n))
      BY <1>12, Zenon DEF ExitFind
    <2> DEFINE r == MkJob("findRow", "exit", c, None, target, n)
    <2>3. r.pc = "findRow" /\ r.kind = "exit" /\ r.chan = c /\ Suspend(j, r)
      BY <2>2 DEF MkJob
    <2> HIDE DEF r
    <2>4. Works(job[j]) /\ Works(r) /\ c \in Channels
      BY <1>1, <2>1, <2>3 DEF Works, Placed
    <2> QED
      BY <2>1, <2>3, <2>4, StatusMoves
  <1>13. CASE WatchdogKill(j)
    <2>1. /\ job[j].pc = "watchKill" /\ Suspend(j, IdleJob)
          /\ UNCHANGED <<channelRow, status, processState, streams, worker, bootQueue>>
      BY <1>13 DEF WatchdogKill, dbVars, bootVars
    <2>2. ~Works(job[j])
      BY <1>1, <2>1 DEF Works, Placed
    <2>3. \A k \in Jobs : job'[k] = IF k = j THEN IdleJob ELSE job[k]
      BY <2>1, Suspended
    <2> QED
      BY <2>1, <2>2, <2>3, IdleFields, StatusStays
  <1> QED
    BY <1>3, <1>4, <1>5, <1>6, <1>7, <1>8, <1>9, <1>10, <1>11, <1>12, <1>13 DEF JobStep, BuildFails

LEMMA StatusCommand ==
    ASSUME RestOK, JobsOK(job), SerialInv, StatusInv, NEW c \in Channels,
           Command(c) \/ WatchdogStall(c) \/ Remove(c)
    PROVE  StatusInv'
  <1>1. ASSUME UNCHANGED <<job, streams, status, bootQueue, worker>>,
               \A d \in Channels : channelRow'[d] =>
                                      channelRow[d] /\ processState'[d] = processState[d]
        PROVE  StatusInv'
    BY <1>1, StatusStays
  <1>2. CASE ReceiveStart(c)
    <2>1. PICK j \in Jobs : Idle(j) /\ BeginStart(j, c, "start", 0)
      BY <1>2 DEF ReceiveStart
    <2>2. UNCHANGED <<channelRow, status, processState, streams, worker, bootQueue>>
      BY <1>2 DEF ReceiveStart, dbVars, bootVars
    <2>3. CASE streams[c] = None
      BY <2>1, <2>2, <2>3, StatusBegins DEF Starts
    <2>4. CASE streams[c] # None
      BY <1>1, <2>1, <2>2, <2>4 DEF BeginStart
    <2> QED
      BY <2>3, <2>4
  <1>3. CASE Receive(c) /\ ~ReceiveStart(c)
    <2>1. UNCHANGED <<channelRow, status, processState, streams, worker, bootQueue>>
      BY <1>3 DEF Receive, ReceiveStop, ReceiveRestart, dbVars, bootVars
    <2>2. \/ UNCHANGED job
          \/ \E j \in Jobs, kind \in {"stop", "restartStop"} :
                Idle(j) /\ Suspend(j, MkJob("findRow", kind, c, None, "stopped", 0))
      BY <1>3 DEF Receive, ReceiveStop, ReceiveRestart
    <2>3. ASSUME NEW j \in Jobs, NEW kind \in {"stop", "restartStop"}, Idle(j),
                 Suspend(j, MkJob("findRow", kind, c, None, "stopped", 0))
          PROVE  StatusInv'
      <3> DEFINE r == MkJob("findRow", kind, c, None, "stopped", 0)
      <3>1. r.pc = "findRow" /\ r.kind = kind /\ r.chan = c
        BY DEF MkJob
      <3>2. Suspend(j, r) /\ Idle(j)
        BY <2>3
      <3> HIDE DEF r
      <3>3. Works(r)
        BY <3>1 DEF Works
      <3> QED
        BY <2>1, <3>1, <3>2, <3>3, StatusMoves
    <2> QED
      BY <1>1, <2>1, <2>2, <2>3
  <1>4. CASE WatchdogStall(c)
    <2> DEFINE r == MkJob("watchKill", "watchdog", c, streams[c], None, 0)
    <2>1. PICK j \in Jobs : Idle(j) /\ Suspend(j, r)
      BY <1>4 DEF WatchdogStall
    <2>2. r.pc = "watchKill"
      BY DEF MkJob
    <2>3. UNCHANGED <<channelRow, status, processState, streams, worker, bootQueue>>
      BY <1>4 DEF WatchdogStall, dbVars, bootVars
    <2>4. \A k \in Jobs : job'[k] = IF k = j THEN r ELSE job[k]
      BY <2>1, Suspended
    <2> HIDE DEF r
    <2> QED
      BY <2>1, <2>2, <2>3, <2>4, StatusStays DEF Idle, Works
  <1>5. CASE Remove(c)
    <2>1. /\ UNCHANGED <<job, streams, status, bootQueue, worker>>
          /\ \A d \in Channels : channelRow'[d] =>
                                     channelRow[d] /\ processState'[d] = processState[d]
      BY <1>5 DEF Remove, RemoveCheck, RemoveChannel, RestOK, bootVars
    <2> QED
      BY <1>1, <2>1
  <1> QED
    BY <1>2, <1>3, <1>4, <1>5 DEF Command

LEMMA StatusOthers ==
    ASSUME RestOK, JobsOK(job), SerialInv, StatusInv,
           (\E p \in Procs : ProcStep(p)) \/ Boot \/ WorkerEnds
    PROVE  StatusInv'
  <1>1. ASSUME NEW p \in Procs, ProcStep(p)
        PROVE  StatusInv'
    <2>1. CASE ProcExit(p) \/ KillTimerFires(p)
      BY <2>1, StatusStays DEF ProcExit, KillTimerFires, dbVars, bootVars
    <2>2. CASE OnExit(p)
      <3>1. PICK c \in Channels : c = chanOf[p]
        BY <2>2, ExitedEntry DEF OnExit
      <3> DEFINE r == MkJob("exitFind", "exit", c, p, None, 0)
      <3>2. PICK j \in Jobs : Idle(j) /\ Suspend(j, r)
        BY <2>2, <3>1 DEF OnExit
      <3>3. r.pc = "exitFind" /\ r.kind = "exit" /\ r.chan = c
        BY DEF MkJob
      <3>4. /\ UNCHANGED <<channelRow, status, processState, worker, bootQueue>>
            /\ \A d \in Channels \ {c} : streams'[d] = streams[d]
        BY <2>2, <3>1 DEF OnExit, RestOK, dbVars, bootVars
      <3> HIDE DEF r
      <3>5. Works(r)
        BY <3>3 DEF Works
      <3> QED
        BY <3>2, <3>3, <3>4, <3>5, StatusMoves
    <2> QED
      BY <1>1, <2>1, <2>2 DEF ProcStep
  <1>2. CASE Boot
    <2>1. CASE WorkerSubscribes
      <3>1. worker' = "booting" /\ \A j \in Jobs : job'[j] = IdleJob
        BY <2>1, AwayIdle DEF WorkerSubscribes
      <3> QED
        BY <3>1, IdleFields DEF StatusInv, Resting, Written
    <2>2. CASE BootQuery
      <3>1. /\ \A j \in Jobs : job'[j] = IdleJob
            /\ \A c \in Channels : streams'[c] = None
            /\ UNCHANGED <<status, processState, channelRow>>
            /\ bootQueue' = {c \in Channels : Recoverable(c)}
        BY <2>2, AwayIdle DEF BootQuery, SerialInv, ChildrenKnown, dbVars
      <3>2. \A c \in Channels : Resting(c)' => Agrees(c)'
        BY <3>1 DEF Resting, Agrees, Recoverable
      <3> QED
        BY <3>1, <3>2, IdleFields DEF StatusInv, Written
    <2>3. ASSUME NEW c \in Channels, BootStart(c)
          PROVE  StatusInv'
      <3>1. PICK j \in Jobs : Idle(j) /\ BeginStart(j, c, "boot", 0)
        BY <2>3 DEF BootStart
      <3>2. /\ UNCHANGED <<channelRow, status, processState, streams, worker>>
            /\ bootQueue' = bootQueue \ {c} /\ c \in bootQueue
        BY <2>3 DEF BootStart, dbVars
      <3>3. streams[c] = None
        BY <3>2 DEF SerialInv, ChildrenKnown
      <3> QED
        BY <3>1, <3>2, <3>3, StatusBegins DEF Starts
    <2> QED
      BY <1>2, <2>1, <2>2, <2>3 DEF Boot
  <1>3. CASE WorkerEnds
    <2>1. CASE Shutdown
      BY <2>1, StatusStays DEF Shutdown, dbVars
    <2> QED
      BY <1>3, <2>1, StatusGone DEF WorkerEnds, WorkerExits, WorkerCrashes
  <1> QED
    BY <1>1, <1>2, <1>3

LEMMA StatusStep ==
    ASSUME TypeOK, SerialInv, StatusInv, "badBuild" \notin Events, [Next]_vars
    PROVE  StatusInv'
  <1>1. RestOK /\ JobsOK(job)
    BY TypeSplit
  <1>2. CASE UNCHANGED vars
    BY <1>2 DEF StatusInv, Resting, Busy, Agrees, Written, Works, vars, dbVars, bootVars
  <1> QED
    BY <1>1, <1>2, StatusJobStep, StatusCommand, StatusOthers DEF Next

\* With nothing in flight for a channel its rows and its entry in the map agree, for any
\* channels and children and across crashes, if clients and stalls meet settled channels,
\* no child dies before its start has ended and no playlist is empty.
THEOREM StatusFollowsMap ==
    ASSUME Settling, "badBuild" \notin Events
    PROVE  Spec => []StatusAgrees
  <1>1. TypeOK /\ SerialInv /\ StatusInv /\ [Next]_vars => StatusInv'
    BY StatusStep
  <1>2. StatusInv => StatusAgrees
    BY DEF StatusInv, StatusAgrees, Resting, Busy, Agrees, AtRest, Settled
  <1> QED
    BY <1>1, <1>2, StatusStart, TypeCorrect, SerialInvHolds, PTL DEF Spec

----------------------------------------------------------------------------
(***************************************************************************)
(* The two rows of a channel.  Every updateState writes first the process  *)
(* row and then the status, and between the two its coroutine is at        *)
(* "saveStatus".  Whatever else happens meanwhile, a channel that is not   *)
(* in `split' has at most one coroutine there, which writes the state the  *)
(* process row already holds; without one, its two rows are equal.         *)
(***************************************************************************)
Between(j, c) == job[j].pc = "saveStatus" /\ job[j].chan = c

RowsInv ==
    /\ \A c \in Channels : ~channelRow[c] => processState[c] = None
    /\ \A c \in Channels \ split :
          /\ \A j, k \in Jobs : Between(j, c) /\ Between(k, c) => j = k
          /\ \A j \in Jobs : Between(j, c) /\ processState[c] # None =>
                                 processState[c] = job[j].target
          /\ (\A j \in Jobs : ~Between(j, c)) /\ processState[c] # None =>
                processState[c] = status[c]

LEMMA HalfWay == \A c : c \in HalfWritten <=> \E j \in Jobs : Between(j, c)
  BY DEF HalfWritten, Between

LEMMA RowsStart == Init => RowsInv
  <1> SUFFICES ASSUME Init PROVE RowsInv
    OBVIOUS
  <1>1. \A j \in Jobs : job[j] = IdleJob
    BY DEF Init
  <1> QED
    BY <1>1, IdleFields DEF RowsInv, Init, Between

\* The rows stay, and so do the coroutines between the two writes.
LEMMA RowsKeep ==
    ASSUME RowsInv, UNCHANGED <<channelRow, status, processState, split>>,
           \A k \in Jobs : job[k].pc = "saveStatus" \/ job'[k].pc = "saveStatus" => job'[k] = job[k]
    PROVE  RowsInv'
  <1>1. \A c \in Channels, j \in Jobs : Between(j, c)' <=> Between(j, c)
    BY DEF Between
  <1>2. \A c \in Channels, j \in Jobs : Between(j, c) => job'[j].target = job[j].target
    BY DEF Between
  <1> QED
    BY <1>1, <1>2 DEF RowsInv

\* The end of the worker: what it cuts off is noted.
LEMMA RowsGone ==
    ASSUME RowsInv, WorkerGone, UNCHANGED dbVars
    PROVE  RowsInv'
  <1>1. /\ \A k \in Jobs : job'[k] = IdleJob
        /\ split' = split \cup HalfWritten
        /\ UNCHANGED <<channelRow, status, processState>>
    BY DEF WorkerGone, dbVars
  <1>2. \A c \in Channels, j \in Jobs : ~Between(j, c)'
    BY <1>1, IdleFields DEF Between
  <1>3. \A c \in Channels \ split' : c \notin split /\ \A j \in Jobs : ~Between(j, c)
    BY <1>1, HalfWay
  <1> QED
    BY <1>1, <1>2, <1>3 DEF RowsInv

\* One coroutine that is between no two writes goes on to where it is between none.
LEMMA RowsPass ==
    ASSUME JobsOK(job), RowsInv, NEW j \in Jobs, NEW r, Suspend(j, r),
           job[j].pc # "saveStatus", r.pc # "saveStatus",
           UNCHANGED <<dbVars, split>>
    PROVE  RowsInv'
  <1>1. \A k \in Jobs : job'[k] = IF k = j THEN r ELSE job[k]
    BY Suspended
  <1> QED
    BY <1>1, RowsKeep DEF dbVars

LEMMA RowsThrow ==
    ASSUME JobsOK(job), RowsInv, NEW j \in Jobs, Throw(j), job[j].pc # "saveStatus",
           UNCHANGED <<dbVars, split>>
    PROVE  RowsInv'
  <1>1. PICK r : /\ Suspend(j, r)
                 /\ \/ r = MkJob("findRow", "fail", job[j].chan, None, "error", 0)
                    \/ r = MkJob("findRow", "giveUp", job[j].chan, None, "crashed", 0)
                    \/ r = IdleJob
    BY Zenon DEF Throw
  <1>2. r.pc # "saveStatus"
    BY <1>1, IdleFields DEF MkJob
  <1> QED
    BY <1>1, <1>2, RowsPass

LEMMA RowsBegin ==
    ASSUME JobsOK(job), RowsInv, NEW j \in Jobs, NEW c, NEW kind, NEW n,
           BeginStart(j, c, kind, n) \/ Suspend(j, IdleJob), job[j].pc # "saveStatus",
           UNCHANGED <<dbVars, split>>
    PROVE  RowsInv'
  <1> DEFINE r == MkJob("load", kind, c, None, None, n)
  <1>1. r.pc = "load"
    BY DEF MkJob
  <1>2. Suspend(j, r) \/ UNCHANGED job \/ Suspend(j, IdleJob)
    BY DEF BeginStart
  <1> HIDE DEF r
  <1>3. CASE UNCHANGED job
    BY <1>3, RowsKeep DEF dbVars
  <1> QED
    BY <1>1, <1>2, <1>3, RowsPass, IdleFields

\* The first of the two writes: alone it makes a fresh start, else the overlap is noted.
LEMMA RowsFirstWrite ==
    ASSUME RestOK, JobsOK(job), RowsInv, NEW j \in Jobs, SaveRow(j)
    PROVE  RowsInv'
  <1> DEFINE r == [job[j] EXCEPT !.pc = "saveStatus"]
  <1>1. PICK c \in Channels : c = job[j].chan
    BY JobFields DEF SaveRow
  <1>2. r.pc = "saveStatus" /\ r.chan = c /\ r.target = job[j].target
    BY <1>1, JobFields DEF Job
  <1>3. \A k \in Jobs : job'[k] = IF k = j THEN r ELSE job[k]
    BY Suspended DEF SaveRow
  <1> HIDE DEF r
  <1>4. /\ channelRow[c] /\ processState'[c] = job[j].target
        /\ \A d \in Channels \ {c} : processState'[d] = processState[d]
        /\ UNCHANGED <<channelRow, status>>
        /\ split' = IF c \in HalfWritten THEN split \cup {c} ELSE split \ {c}
        /\ job[j].pc = "saveRow"
    BY <1>1 DEF SaveRow, RowWritable, RestOK
  <1>5. \A k \in Jobs : Between(k, c)' <=> k = j \/ Between(k, c)
    BY <1>2, <1>3 DEF Between
  <1>6. \A d \in Channels \ {c}, k \in Jobs :
           /\ Between(k, d)' <=> Between(k, d)
           /\ Between(k, d) => job'[k].target = job[k].target
    BY <1>1, <1>2, <1>3, <1>4 DEF Between
  <1>7. ASSUME NEW d \in Channels \ split'
        PROVE  /\ \A i, k \in Jobs : Between(i, d)' /\ Between(k, d)' => i = k
               /\ \A k \in Jobs : Between(k, d)' /\ processState'[d] # None =>
                                      processState'[d] = job'[k].target
               /\ (\A k \in Jobs : ~Between(k, d)') /\ processState'[d] # None =>
                     processState'[d] = status'[d]
    <2>1. CASE d = c
      <3>1. \A k \in Jobs : ~Between(k, c)
        BY <1>4, <2>1, HalfWay
      <3> QED
        BY <1>2, <1>3, <1>4, <1>5, <2>1, <3>1
    <2>2. CASE d # c
      <3>1. d \in Channels \ split
        BY <1>4, <2>2
      <3> QED
        BY <1>4, <1>6, <2>2, <3>1 DEF RowsInv
    <2> QED
      BY <2>1, <2>2
  <1>8. \A d \in Channels : ~channelRow'[d] => processState'[d] = None
    BY <1>4 DEF RowsInv
  <1> QED
    BY <1>7, <1>8 DEF RowsInv

\* The second.
LEMMA RowsSecondWrite ==
    ASSUME RestOK, JobsOK(job), RowsInv, NEW j \in Jobs, SaveStatus(j)
    PROVE  RowsInv'
  <1>1. PICK c \in Channels : c = job[j].chan
    BY JobFields DEF SaveStatus
  <1>2. /\ channelRow[c] => status'[c] = job[j].target
        /\ \A d \in Channels \ {c} : status'[d] = status[d]
        /\ UNCHANGED <<channelRow, processState, split>>
        /\ job[j].pc = "saveStatus"
    BY <1>1 DEF SaveStatus, RestOK
  <1>3. PICK r : r.pc # "saveStatus" /\ \A k \in Jobs : job'[k] = IF k = j THEN r ELSE job[k]
    <2>1. ASSUME NEW r, r.pc # "saveStatus", Suspend(j, r)
          PROVE  \E q : q.pc # "saveStatus" /\ \A k \in Jobs : job'[k] = IF k = j THEN q ELSE job[k]
      BY <2>1, Suspended
    <2>2. /\ [job[j] EXCEPT !.pc = "setCount"].pc = "setCount"
          /\ [job[j] EXCEPT !.pc = "backoff"].pc = "backoff"
          /\ MkJob("load", "restart", job[j].chan, None, None, 0).pc = "load"
      BY JobFields DEF Job, MkJob
    <2>3. RestartAfterStop(j) =>
             \/ Suspend(j, MkJob("load", "restart", job[j].chan, None, None, 0))
             \/ Suspend(j, IdleJob)
      BY DEF RestartAfterStop, BeginStart
    <2>4. \/ Suspend(j, [job[j] EXCEPT !.pc = "setCount"])
          \/ Suspend(j, [job[j] EXCEPT !.pc = "backoff"])
          \/ Suspend(j, MkJob("load", "restart", job[j].chan, None, None, 0))
          \/ Suspend(j, IdleJob)
      BY <2>3 DEF SaveStatus, AfterUpdate
    <2> QED
      BY <2>1, <2>2, <2>4, IdleFields
  <1>4. \A d \in Channels, k \in Jobs : Between(k, d)' <=> k # j /\ Between(k, d)
    BY <1>3 DEF Between
  <1>5. \A k \in Jobs : k # j => job'[k] = job[k]
    BY <1>3
  <1>6. Between(j, c)
    BY <1>1, <1>2 DEF Between
  <1>7. ASSUME NEW d \in Channels \ split
        PROVE  /\ \A i, k \in Jobs : Between(i, d)' /\ Between(k, d)' => i = k
               /\ \A k \in Jobs : Between(k, d)' /\ processState'[d] # None =>
                                      processState'[d] = job'[k].target
               /\ (\A k \in Jobs : ~Between(k, d)') /\ processState'[d] # None =>
                     processState'[d] = status'[d]
    <2>1. CASE d = c
      <3>1. \A k \in Jobs : ~Between(k, c)'
        BY <1>4, <1>6, <2>1 DEF RowsInv
      <3>2. processState[c] # None => channelRow[c] /\ processState[c] = job[j].target
        BY <1>6, <2>1 DEF RowsInv
      <3> QED
        BY <1>2, <2>1, <3>1, <3>2
    <2>2. CASE d # c
      <3>1. \A k \in Jobs : Between(k, d)' <=> Between(k, d)
        BY <1>1, <1>4, <2>2 DEF Between
      <3> QED
        BY <1>2, <1>4, <1>5, <2>2, <3>1 DEF RowsInv
    <2> QED
      BY <2>1, <2>2
  <1> QED
    BY <1>2, <1>7 DEF RowsInv

LEMMA RowsJobStep ==
    ASSUME RestOK, JobsOK(job), RowsInv, NEW j \in Jobs, JobStep(j)
    PROVE  RowsInv'
  <1> DEFINE c == job[j].chan
  <1>1. CASE Load(j)
    <2>1. job[j].pc = "load" /\ UNCHANGED <<dbVars, split>>
      BY <1>1 DEF Load, histVars
    <2> DEFINE r == [job[j] EXCEPT !.pc = "build"]
    <2>2. Throw(j) \/ Suspend(j, r)
      BY <1>1 DEF Load
    <2>3. r.pc = "build"
      BY JobFields DEF Job
    <2> HIDE DEF r
    <2> QED
      BY <2>1, <2>2, <2>3, RowsThrow, RowsPass
  <1>2. CASE BuildFails(j)
    BY <1>2, RowsThrow DEF BuildFails, histVars
  <1>3. ASSUME NEW p \in Procs, Register(j, c, p), job[j].pc # "saveStatus",
               UNCHANGED <<dbVars, split>>
        PROVE  RowsInv'
    <2> DEFINE r == MkJob("findRow", job[j].kind, c, None, "running", job[j].cnt)
    <2>1. r.pc = "findRow" /\ Suspend(j, r)
      BY <1>3 DEF Register, MkJob
    <2> HIDE DEF r
    <2> QED
      BY <1>3, <2>1, RowsPass
  <1>4. CASE RegisterKept(j)
    BY <1>3, <1>4, JobFields DEF RegisterKept, histVars
  <1>5. ASSUME NEW p \in Procs, Spawn(j, p) \/ (SpawnFails(j, p) /\ ~WorkerGone)
        PROVE  RowsInv'
    <2>1. job[j].pc = "build" /\ UNCHANGED <<dbVars, split>>
      BY <1>5 DEF SpawnFails, Spawn
    <2> DEFINE r == [job[j] EXCEPT !.pc = "prev", !.proc = p]
    <2>2. Register(j, c, p) \/ Suspend(j, r)
      BY <1>5 DEF Spawn, SpawnFails
    <2>3. r.pc = "prev"
      BY JobFields DEF Job
    <2> HIDE DEF r
    <2> QED
      BY <1>3, <2>1, <2>2, <2>3, RowsPass
  <1>11. ASSUME NEW p \in Procs, SpawnFails(j, p), WorkerGone
         PROVE  RowsInv'
    BY <1>11, RowsGone DEF SpawnFails
  <1>6. CASE SetCount(j) \/ WatchdogKill(j)
    <2>1. /\ job[j].pc \in {"setCount", "watchKill"} /\ Suspend(j, IdleJob)
          /\ UNCHANGED <<dbVars, split>>
      BY <1>6 DEF SetCount, WatchdogKill, histVars
    <2> QED
      BY <2>1, RowsPass, IdleFields
  <1>7. CASE BackoffFires(j)
    <2>1. /\ job[j].pc = "backoff" /\ UNCHANGED <<dbVars, split>>
          /\ BeginStart(j, c, "auto", job[j].cnt) \/ Suspend(j, IdleJob)
      BY <1>7 DEF BackoffFires, histVars
    <2> QED
      BY <2>1, RowsBegin
  <1>8. CASE FindRow(j)
    <2> DEFINE r == [job[j] EXCEPT !.pc = "saveRow", !.found = processState[c] # None]
    <2>1. r.pc = "saveRow"
      BY JobFields DEF Job
    <2>2. job[j].pc = "findRow" /\ Suspend(j, r) /\ UNCHANGED <<dbVars, split>>
      BY <1>8 DEF FindRow, histVars
    <2> HIDE DEF r
    <2> QED
      BY <2>1, <2>2, RowsPass
  <1>9. CASE SaveRowFails(j)
    <2>1. job[j].pc = "saveRow" /\ ~RowWritable(j) /\ UNCHANGED dbVars
      BY <1>9 DEF SaveRowFails
    <2>2. \/ WorkerGone
          \/ RestartAfterStop(j) /\ UNCHANGED split
          \/ Throw(j) /\ UNCHANGED split
      BY <1>9 DEF SaveRowFails, histVars
    <2>3. RestartAfterStop(j) => BeginStart(j, c, "restart", 0) \/ Suspend(j, IdleJob)
      BY DEF RestartAfterStop
    <2> QED
      BY <2>1, <2>2, <2>3, RowsGone, RowsBegin, RowsThrow
  <1>10. CASE ExitFind(j)
    <2>1. job[j].pc = "exitFind" /\ UNCHANGED <<dbVars, split>>
      BY <1>10 DEF ExitFind, histVars
    <2>2. PICK target, n : Suspend(j, MkJob("findRow", "exit", c, None, target, n))
      BY <1>10, Zenon DEF ExitFind
    <2> DEFINE r == MkJob("findRow", "exit", c, None, target, n)
    <2>3. r.pc = "findRow" /\ Suspend(j, r)
      BY <2>2 DEF MkJob
    <2> HIDE DEF r
    <2> QED
      BY <2>1, <2>3, RowsPass
  <1> QED
    BY <1>1, <1>2, <1>4, <1>5, <1>6, <1>7, <1>8, <1>9, <1>10, <1>11, RowsFirstWrite, RowsSecondWrite
       DEF JobStep

LEMMA RowsOthers ==
    ASSUME RestOK, JobsOK(job), RowsInv,
           \/ \E p \in Procs : ProcStep(p)
           \/ \E c \in Channels : Command(c) \/ WatchdogStall(c) \/ Remove(c)
           \/ Boot \/ WorkerEnds
    PROVE  RowsInv'
  <1>1. ASSUME UNCHANGED <<job, dbVars, split>>
        PROVE  RowsInv'
    BY <1>1, RowsKeep DEF dbVars
  <1>2. ASSUME NEW j \in Jobs, Idle(j), NEW r, r.pc # "saveStatus", Suspend(j, r),
               UNCHANGED <<dbVars, split>>
        PROVE  RowsInv'
    BY <1>2, RowsPass DEF Idle
  <1>3. ASSUME NEW p \in Procs, ProcStep(p)
        PROVE  RowsInv'
    <2>1. CASE ProcExit(p) \/ KillTimerFires(p)
      BY <1>1, <2>1 DEF ProcExit, KillTimerFires, histVars
    <2>2. CASE OnExit(p)
      <3> DEFINE r == MkJob("exitFind", "exit", chanOf[p], p, None, 0)
      <3>1. PICK j \in Jobs : Idle(j) /\ Suspend(j, r)
        BY <2>2 DEF OnExit
      <3>2. r.pc = "exitFind" /\ UNCHANGED <<dbVars, split>>
        BY <2>2 DEF OnExit, MkJob, histVars
      <3> HIDE DEF r
      <3> QED
        BY <1>2, <3>1, <3>2
    <2> QED
      BY <1>3, <2>1, <2>2 DEF ProcStep
  <1>4. ASSUME NEW c \in Channels, Command(c)
        PROVE  RowsInv'
    <2>1. UNCHANGED <<dbVars, split>>
      BY <1>4 DEF Command, Receive, ReceiveStart, ReceiveStop, ReceiveRestart, histVars
    <2>2. CASE ReceiveStart(c)
      <3>1. PICK j \in Jobs : Idle(j) /\ BeginStart(j, c, "start", 0)
        BY <2>2 DEF ReceiveStart
      <3> QED
        BY <2>1, <3>1, RowsBegin DEF Idle
    <2>3. CASE UNCHANGED job
      BY <1>1, <2>1, <2>3
    <2>4. ASSUME NEW j \in Jobs, NEW kind \in {"stop", "restartStop"}, Idle(j),
                 Suspend(j, MkJob("findRow", kind, c, None, "stopped", 0))
          PROVE  RowsInv'
      <3> DEFINE r == MkJob("findRow", kind, c, None, "stopped", 0)
      <3>1. r.pc = "findRow" /\ Suspend(j, r) /\ Idle(j)
        BY <2>4 DEF MkJob
      <3> HIDE DEF r
      <3> QED
        BY <1>2, <2>1, <3>1
    <2> QED
      BY <1>4, <2>2, <2>3, <2>4 DEF Command, Receive, ReceiveStop, ReceiveRestart
  <1>5. ASSUME NEW c \in Channels, WatchdogStall(c)
        PROVE  RowsInv'
    <2> DEFINE r == MkJob("watchKill", "watchdog", c, streams[c], None, 0)
    <2>1. PICK j \in Jobs : Idle(j) /\ Suspend(j, r)
      BY <1>5 DEF WatchdogStall
    <2>2. r.pc = "watchKill" /\ UNCHANGED <<dbVars, split>>
      BY <1>5 DEF WatchdogStall, MkJob, histVars
    <2> HIDE DEF r
    <2> QED
      BY <1>2, <2>1, <2>2
  <1>6. ASSUME NEW c \in Channels, Remove(c)
        PROVE  RowsInv'
    <2>1. CASE RemoveCheck(c)
      <3>1. UNCHANGED <<channelRow, status, processState, split, job>>
        BY <2>1 DEF RemoveCheck, histVars
      <3> QED
        BY <3>1, RowsKeep
    <2>2. CASE RemoveChannel(c)
      <3>1. /\ ~channelRow'[c] /\ processState'[c] = None
            /\ \A d \in Channels \ {c} : channelRow'[d] = channelRow[d] /\ processState'[d] = processState[d]
            /\ UNCHANGED <<status, split, job>>
        BY <2>2 DEF RemoveChannel, RestOK, histVars
      <3>2. \A d \in Channels, j \in Jobs : Between(j, d)' <=> Between(j, d)
        BY <3>1 DEF Between
      <3> QED
        BY <3>1, <3>2 DEF RowsInv
    <2> QED
      BY <1>6, <2>1, <2>2 DEF Remove
  <1>7. CASE Boot
    <2>1. CASE WorkerSubscribes \/ BootQuery
      BY <1>1, <2>1 DEF WorkerSubscribes, BootQuery, histVars
    <2>2. ASSUME NEW c \in Channels, BootStart(c)
          PROVE  RowsInv'
      <3>1. PICK j \in Jobs : Idle(j) /\ BeginStart(j, c, "boot", 0)
        BY <2>2 DEF BootStart
      <3> QED
        BY <2>2, <3>1, RowsBegin DEF Idle, BootStart
    <2> QED
      BY <1>7, <2>1, <2>2 DEF Boot
  <1>8. CASE WorkerEnds
    <2>1. CASE Shutdown
      BY <1>1, <2>1 DEF Shutdown, histVars
    <2> QED
      BY <1>8, <2>1, RowsGone DEF WorkerEnds, WorkerExits, WorkerCrashes
  <1> QED
    BY <1>3, <1>4, <1>5, <1>6, <1>7, <1>8

LEMMA RowsStep ==
    ASSUME TypeOK, RowsInv, [Next]_vars
    PROVE  RowsInv'
  <1>1. RestOK /\ JobsOK(job)
    BY TypeSplit
  <1>2. CASE UNCHANGED vars
    BY <1>2, RowsKeep DEF vars, dbVars, histVars
  <1> QED
    BY <1>1, <1>2, RowsJobStep, RowsOthers DEF Next

\* The two rows of a channel are equal unless an updateState is between its two writes or
\* the last one was cut off or met another there, for any clients, crashes, failures and
\* deletions at any moment; and so are they again after an updateState that was left alone.
THEOREM RowsHoldOneState == Spec => []RowsAgree
  <1>1. TypeOK /\ RowsInv /\ [Next]_vars => RowsInv'
    BY RowsStep
  <1>2. RowsInv => RowsAgree
    <2> SUFFICES ASSUME RowsInv, NEW c \in Channels \ (split \cup HalfWritten),
                        processState[c] # None
                 PROVE  processState[c] = status[c]
      BY DEF RowsAgree
    <2>1. \A j \in Jobs : ~Between(j, c)
      BY HalfWay
    <2> QED
      BY <2>1 DEF RowsInv
  <1> QED
    BY <1>1, <1>2, RowsStart, TypeCorrect, PTL DEF Spec

----------------------------------------------------------------------------
(***************************************************************************)
(* Recovery.  Whatever the worker does for a channel, at every await the   *)
(* rows tell the bootstrap of a next worker to take the channel up: a      *)
(* channel in the queue, one with a child and nobody at work, and one      *)
(* whose coroutine is owed a child.  While the worker is away nothing is   *)
(* in flight and no client is answered, so the rows stay until the query   *)
(* of the bootstrap reads them.                                            *)
(***************************************************************************)
\* The coroutine q starts a child nobody asked for, or decides or announces a restart.
Owed(q) ==
    /\ q.pc # "idle"
    /\ \/ q.kind \in {"boot", "auto"}
       \/ q.kind = "exit" /\ (q.pc = "exitFind" \/ q.target = "restarting")

OwedInv ==
    /\ \A c \in bootQueue : channelRow[c] => Recoverable(c)
    /\ \A c \in Channels : channelRow[c] /\ streams[c] # None /\ ~Busy(c) => Recoverable(c)
    /\ \A j \in Jobs, c \in Channels :
           job[j].chan = c /\ Owed(job[j]) /\ channelRow[c] => Recoverable(c)

LEMMA IdleOwed == ~Owed(IdleJob)
  BY DEF Owed, IdleJob, MkJob

LEMMA OwedStart == Init => OwedInv
  <1> SUFFICES ASSUME Init PROVE OwedInv
    OBVIOUS
  <1>1. /\ \A j \in Jobs : job[j] = IdleJob
        /\ bootQueue = {} /\ \A c \in Channels : streams[c] = None
    BY DEF Init
  <1> QED
    BY <1>1, IdleOwed DEF OwedInv

LEMMA OwedGone == WorkerGone => OwedInv'
  <1> SUFFICES ASSUME WorkerGone PROVE OwedInv'
    OBVIOUS
  <1>1. /\ \A j \in Jobs : job'[j] = IdleJob
        /\ bootQueue' = {} /\ \A c \in Channels : streams'[c] = None
    BY DEF WorkerGone
  <1> QED
    BY <1>1, IdleOwed DEF OwedInv

\* What the worker serves, its next bootstrap takes up.
LEMMA ServedRecoverable ==
    ASSUME RestOK, JobsOK(job), SerialInv, OwedInv, NEW c \in ServedNow, channelRow[c]
    PROVE  Recoverable(c)
  <1>1. c \in Channels /\ Serves(c)
    BY DEF ServedNow
  <1>2. CASE c \in bootQueue
    BY <1>2 DEF OwedInv
  <1>a. \A j \in Jobs : job[j].chan = c => job[j].pc # "idle"
    BY <1>1, IdleFields, ConstantsAssumption DEF SerialInv, Placed
  <1>3. ASSUME NEW j \in Jobs, job[j].chan = c, Owed(job[j])
        PROVE  Recoverable(c)
    BY <1>1, <1>3 DEF OwedInv
  <1>4. CASE \E j \in Jobs : job[j].chan = c /\ job[j].kind = "boot"
    BY <1>a, <1>3, <1>4 DEF Owed
  <1>5. CASE ~AskedFor(c) /\ streams[c] # None
    <2>1. CASE ~Busy(c)
      BY <1>1, <1>5, <2>1 DEF OwedInv
    <2>2. CASE Busy(c)
      <3>1. PICK j \in Jobs : Works(job[j]) /\ job[j].chan = c
        BY <2>2 DEF Busy
      <3>2. Fits(job[j]) /\ Placed(job[j])
        BY <3>1 DEF SerialInv
      <3>3. Entered(job[j])
        BY <1>5, <3>1, <3>2 DEF Fits
      <3>4. job[j].kind \in {"boot", "auto"}
        BY <1>5, <3>1, <3>2, <3>3 DEF Entered, Starts, AskedFor, Placed
      <3> QED
        BY <1>a, <1>3, <3>1, <3>4 DEF Owed
    <2> QED
      BY <2>1, <2>2
  <1>6. ASSUME NEW j \in Jobs, Ending(j, c) \/ Retrying(j, c)
        PROVE  Recoverable(c)
    <2>1. job[j].chan = c /\ Placed(job[j])
      BY <1>6 DEF Ending, Retrying, SerialInv
    <2>2. Owed(job[j])
      BY <1>a, <1>6, <2>1 DEF Ending, Retrying, Owed, Placed
    <2> QED
      BY <1>3, <2>1, <2>2
  <1> QED
    BY <1>1, <1>2, <1>4, <1>5, <1>6 DEF Serves, PhaseOf

\* Job j, or a slot that was idle, goes on for channel c, or ends.
LEMMA OwedMoves ==
    ASSUME RestOK, JobsOK(job), SerialInv, OwedInv, NEW j \in Jobs, NEW r, Suspend(j, r),
           NEW c \in Channels,
           \/ Works(job[j]) /\ job[j].chan = c
           \/ Idle(j) /\ UNCHANGED status,
           r.chan = c \/ ~Owed(r),
           Owed(r) /\ channelRow[c] => Recoverable(c)',
           (Works(r) /\ r.chan = c) \/ (channelRow[c] /\ streams'[c] # None => Recoverable(c)'),
           \A d \in Channels \ {c} : status'[d] = status[d] /\ streams'[d] = streams[d],
           UNCHANGED channelRow, bootQueue' \subseteq bootQueue
    PROVE  OwedInv'
  <1>1. \A k \in Jobs : job'[k] = IF k = j THEN r ELSE job[k]
    BY Suspended
  <1>2. \A d \in Channels \ {c} : Recoverable(d)' <=> Recoverable(d)
    BY DEF Recoverable
  <1>3. ASSUME NEW k \in Jobs \ {j}, Owed(job[k]), job[k].chan = c
        PROVE  Recoverable(c)' <=> Recoverable(c)
    <2>1. Works(job[k])
      BY <1>3 DEF SerialInv, Placed, Works, Owed
    <2>2. UNCHANGED status
      BY <1>3, <2>1 DEF SerialInv, JobsAlone
    <2> QED
      BY <2>2 DEF Recoverable
  <1>4. ASSUME NEW d \in bootQueue', channelRow'[d] PROVE Recoverable(d)'
    <2>1. d \in bootQueue /\ channelRow[d] /\ d \in Channels /\ Recoverable(d)
      BY <1>4 DEF RestOK, OwedInv
    <2>2. d # c \/ UNCHANGED status
      BY <2>1 DEF SerialInv, JobsAlone, Works
    <2> QED
      BY <1>2, <2>1, <2>2 DEF Recoverable
  <1>5. ASSUME NEW d \in Channels, channelRow'[d], streams'[d] # None, ~Busy(d)'
        PROVE  Recoverable(d)'
    <2>1. CASE d = c
      BY <1>1, <1>5, <2>1 DEF Busy
    <2>2. CASE d # c
      <3>1. ~Busy(d)
        BY <1>1, <1>5, <2>2 DEF Busy, Works, Idle
      <3> QED
        BY <1>2, <1>5, <2>2, <3>1 DEF OwedInv
    <2> QED
      BY <2>1, <2>2
  <1>6. ASSUME NEW k \in Jobs, NEW d \in Channels, job'[k].chan = d, Owed(job[k])',
               channelRow'[d]
        PROVE  Recoverable(d)'
    <2>1. CASE k = j
      <3>1. job'[k] = r
        BY <1>1, <2>1
      <3>2. Owed(r)
        BY <1>6, <3>1 DEF Owed
      <3>3. d = c
        BY <1>6, <3>1, <3>2
      <3> QED
        BY <1>6, <3>2, <3>3
    <2>2. CASE k # j
      <3>1. job'[k] = job[k]
        BY <1>1, <2>2
      <3>2. Owed(job[k])
        BY <1>6, <3>1 DEF Owed
      <3>3. Recoverable(d)
        BY <1>6, <3>1, <3>2 DEF OwedInv
      <3> QED
        BY <1>2, <1>3, <1>6, <2>2, <3>1, <3>2, <3>3
    <2> QED
      BY <2>1, <2>2
  <1> QED
    BY <1>4, <1>5, <1>6 DEF OwedInv

\* Nobody who works begins or ends.
LEMMA OwedStays ==
    ASSUME JobsOK(job), OwedInv, SerialInv,
           \A k \in Jobs : /\ Works(job[k]) => job'[k] = job[k]
                           /\ Owed(job'[k]) => job'[k] = job[k],
           UNCHANGED <<streams, status, bootQueue>>, bootQueue \subseteq Channels,
           \A c \in Channels : channelRow'[c] => channelRow[c]
    PROVE  OwedInv'
  <1>1. \A c \in Channels : channelRow'[c] /\ Recoverable(c) => Recoverable(c)'
    BY DEF Recoverable
  <1>2. \A c \in Channels : Busy(c) => Busy(c)'
    BY DEF Busy, Works
  <1>3. ASSUME NEW k \in Jobs, NEW d \in Channels, job'[k].chan = d, Owed(job[k])',
               channelRow'[d]
        PROVE  Recoverable(d)'
    <2>1. job'[k] = job[k] /\ Owed(job[k])
      BY <1>3 DEF Owed
    <2> QED
      BY <1>1, <1>3, <2>1 DEF OwedInv
  <1> QED
    BY <1>1, <1>2, <1>3 DEF OwedInv

\* An exception ends a coroutine, or hands it over to the one that writes the failure.
LEMMA OwedThrows ==
    ASSUME RestOK, JobsOK(job), SerialInv, OwedInv, NEW j \in Jobs, Throw(j), Works(job[j]),
           streams[job[j].chan] = None \/ ~channelRow[job[j].chan],
           UNCHANGED <<channelRow, status, streams, bootQueue>>
    PROVE  OwedInv'
  <1> DEFINE c == job[j].chan
  <1>1. c \in Channels
    BY JobFields DEF Works
  <1>2. PICK r : /\ Suspend(j, r)
                 /\ \/ r = MkJob("findRow", "fail", c, None, "error", 0)
                    \/ r = MkJob("findRow", "giveUp", c, None, "crashed", 0)
                    \/ r = IdleJob
    BY Zenon DEF Throw
  <1>3. ~Owed(r)
    BY <1>2 DEF MkJob, Owed, IdleJob
  <1> QED
    BY <1>1, <1>2, <1>3, OwedMoves

LEMMA OwedBegins ==
    ASSUME RestOK, JobsOK(job), SerialInv, OwedInv, NEW j \in Jobs, NEW c \in Channels,
           NEW kind \in Starts, NEW n, BeginStart(j, c, kind, n), streams[c] = None,
           \/ Works(job[j]) /\ job[j].chan = c
           \/ Idle(j) /\ UNCHANGED status,
           kind \in {"boot", "auto"} /\ channelRow[c] => Recoverable(c)',
           \A d \in Channels \ {c} : status'[d] = status[d],
           UNCHANGED <<channelRow, streams>>, bootQueue' \subseteq bootQueue
    PROVE  OwedInv'
  <1> DEFINE r == MkJob("load", kind, c, None, None, n)
  <1>1. Works(r) /\ r.chan = c /\ r.pc = "load" /\ r.kind = kind
    BY LoadFits DEF MkJob
  <1>2. Suspend(j, r)
    BY DEF BeginStart
  <1> HIDE DEF r
  <1>3. Owed(r) => kind \in {"boot", "auto"}
    BY <1>1 DEF Owed, Starts
  <1> QED
    BY <1>1, <1>2, <1>3, OwedMoves

\* The second write: a start leaves 'running', a crash to be followed by a restart leaves
\* 'restarting', and whoever writes another state leaves no child.
LEMMA OwedWritten ==
    ASSUME RestOK, JobsOK(job), SerialInv, OwedInv, NEW j \in Jobs, SaveStatus(j),
           NEW c \in Channels, job[j].chan = c
    PROVE  OwedInv'
  <1>1. /\ job[j].pc = "saveStatus" /\ Writes(job[j])
        /\ Works(job[j]) /\ Placed(job[j]) /\ Fits(job[j])
    BY JobFields DEF SaveStatus, Writes, SerialInv, Placed, Works
  <1>2. /\ channelRow[c] => status'[c] = job[j].target
        /\ \A d \in Channels \ {c} : status'[d] = status[d]
        /\ UNCHANGED <<streams, channelRow, bootQueue>>
    BY <1>1 DEF SaveStatus, RestOK, bootVars
  <1>3. job[j].target \in {"running", "restarting"} /\ channelRow[c] => Recoverable(c)'
    BY <1>2 DEF Recoverable
  <1>4. channelRow[c] /\ streams[c] # None => Recoverable(c)'
    BY <1>1, <1>3 DEF Fits, Entered, Placed, Starts
  <1>5. CASE job[j].kind = "auto" /\ Suspend(j, [job[j] EXCEPT !.pc = "setCount"])
    <2> DEFINE r == [job[j] EXCEPT !.pc = "setCount"]
    <2>1. r.chan = c
      BY JobFields DEF Job
    <2>2. Suspend(j, r)
      BY <1>5
    <2>3. channelRow[c] => Recoverable(c)'
      BY <1>1, <1>3, <1>5 DEF Placed, Starts
    <2> HIDE DEF r
    <2> QED
      BY <1>1, <1>2, <2>1, <2>2, <2>3, OwedMoves
  <1>6. CASE /\ job[j].kind = "exit" /\ job[j].target = "restarting"
             /\ Suspend(j, [job[j] EXCEPT !.pc = "backoff"])
    <2> DEFINE r == [job[j] EXCEPT !.pc = "backoff"]
    <2>1. r.chan = c
      BY JobFields DEF Job
    <2>2. Suspend(j, r)
      BY <1>6
    <2>3. channelRow[c] => Recoverable(c)'
      BY <1>3, <1>6
    <2> HIDE DEF r
    <2> QED
      BY <1>1, <1>2, <2>1, <2>2, <2>3, OwedMoves
  <1>7. CASE job[j].kind = "restartStop" /\ RestartAfterStop(j)
    <2>1. streams[c] = None
      BY <1>1, <1>7 DEF Fits, Entered, Starts
    <2>2. BeginStart(j, c, "restart", 0)
      BY <1>7, <2>1 DEF RestartAfterStop
    <2> QED
      BY <1>1, <1>2, <2>1, <2>2, OwedBegins DEF Starts
  <1>8. CASE Suspend(j, IdleJob)
    BY <1>1, <1>2, <1>4, <1>8, IdleOwed, OwedMoves
  <1> QED
    BY <1>5, <1>6, <1>7, <1>8 DEF SaveStatus, AfterUpdate

LEMMA OwedJobStep ==
    ASSUME RestOK, JobsOK(job), SerialInv, OwedInv, NEW j \in Jobs, JobStep(j)
    PROVE  OwedInv'
  <1>0. job[j].pc # "idle"
    BY DEF JobStep, Load, BuildFails, RegisterKept, SetCount, BackoffFires, Spawn, SpawnFails,
           FindRow, SaveRow, SaveRowFails, SaveStatus, ExitFind, WatchdogKill
  <1>c. PICK c \in Channels : c = job[j].chan
    BY <1>0, JobFields
  <1>1. Placed(job[j]) /\ Knows(job[j]) /\ (Works(job[j]) => Fits(job[j]))
    BY DEF SerialInv
  <1>2. ASSUME NEW r, Suspend(j, r), r.chan = c, r.pc # "idle", r.kind # "watchdog",
               Owed(r) => Owed(job[j]), Works(job[j]),
               \A d \in Channels \ {c} : streams'[d] = streams[d],
               UNCHANGED <<channelRow, status, bootQueue>>
        PROVE  OwedInv'
    <2>1. Works(r) /\ c \in Channels
      BY <1>c, <1>1, <1>2 DEF Works
    <2>2. Owed(r) /\ channelRow[c] => Recoverable(c)'
      BY <1>c, <1>2 DEF OwedInv, Recoverable
    <2> QED
      BY <1>c, <1>2, <2>1, <2>2, OwedMoves
  <1>3. ASSUME Throw(j), job[j].pc \in {"load", "build"},
               UNCHANGED <<channelRow, status, streams, bootQueue>>
        PROVE  OwedInv'
    <2>1. Works(job[j]) /\ streams[c] = None
      BY <1>c, <1>1, <1>3 DEF Works, Placed, Starts, Fits, Entered, Writes
    <2> QED
      BY <1>c, <1>3, <2>1, OwedThrows
  <1>4. CASE Load(j) \/ BuildFails(j)
    <2>1. /\ job[j].pc \in {"load", "build"}
          /\ UNCHANGED <<channelRow, status, streams, bootQueue>>
      BY <1>c, <1>4 DEF Load, BuildFails, dbVars, bootVars
    <2> DEFINE r == [job[j] EXCEPT !.pc = "build"]
    <2>2. r.pc = "build" /\ r.chan = c /\ r.kind = job[j].kind /\ r.target = job[j].target
      BY <1>c, JobFields DEF Job
    <2>3. Throw(j) \/ Suspend(j, r)
      BY <1>c, <1>4 DEF Load, BuildFails
    <2>4. Works(job[j])
      BY <1>c, <1>1, <2>1 DEF Works, Placed, Starts
    <2> HIDE DEF r
    <2>5. Owed(r) => Owed(job[j])
      BY <1>0, <1>c, <2>2 DEF Owed
    <2> QED
      BY <1>c, <1>2, <1>3, <2>1, <2>2, <2>3, <2>4, <2>5 DEF Works
  <1>5. ASSUME NEW p \in Procs, job[j].pc \in {"build", "prev"}, Register(j, c, p),
               UNCHANGED <<channelRow, status, bootQueue>>
        PROVE  OwedInv'
    <2> DEFINE r == MkJob("findRow", job[j].kind, c, None, "running", job[j].cnt)
    <2>1. r.pc = "findRow" /\ r.kind = job[j].kind /\ r.chan = c /\ r.target = "running"
      BY <1>c DEF MkJob
    <2>2. Suspend(j, r) /\ \A d \in Channels \ {c} : streams'[d] = streams[d]
      BY <1>c, <1>5 DEF Register, RestOK
    <2>3. Works(job[j]) /\ job[j].kind \in Starts
      BY <1>c, <1>1, <1>5 DEF Works, Placed, Starts
    <2> HIDE DEF r
    <2>4. Owed(r) => Owed(job[j])
      BY <1>0, <1>c, <2>1 DEF Owed
    <2> QED
      BY <1>c, <1>2, <1>5, <2>1, <2>2, <2>3, <2>4 DEF Starts
  <1>6. CASE RegisterKept(j)
    <2>1. /\ job[j].pc = "prev" /\ Register(j, c, job[j].proc) /\ job[j].proc \in Procs
          /\ UNCHANGED <<channelRow, status, bootQueue>>
      BY <1>c, <1>6, JobFields DEF RegisterKept, dbVars, bootVars
    <2> QED
      BY <1>c, <1>5, <2>1
  <1>7. ASSUME NEW p \in Procs, Spawn(j, p) \/ SpawnFails(j, p)
        PROVE  OwedInv'
    <2>1. job[j].pc = "build" /\ UNCHANGED <<channelRow, status>>
      BY <1>c, <1>7 DEF Spawn, SpawnFails, dbVars
    <2>2. CASE Register(j, c, p) /\ UNCHANGED bootQueue
      BY <1>c, <1>5, <2>1, <2>2
    <2>3. CASE /\ Suspend(j, [job[j] EXCEPT !.pc = "prev", !.proc = p])
               /\ UNCHANGED <<streams, bootQueue>>
      <3> DEFINE r == [job[j] EXCEPT !.pc = "prev", !.proc = p]
      <3>1. r.pc = "prev" /\ r.chan = c /\ r.kind = job[j].kind /\ r.target = job[j].target
        BY <1>c, JobFields DEF Job
      <3>2. Suspend(j, r) /\ UNCHANGED <<streams, bootQueue>>
        BY <1>c, <2>3
      <3>3. Works(job[j])
        BY <1>c, <1>1, <2>1 DEF Works, Placed, Starts
      <3> HIDE DEF r
      <3>4. Owed(r) => Owed(job[j])
        BY <1>0, <1>c, <3>1 DEF Owed
      <3> QED
        BY <1>c, <1>2, <2>1, <3>1, <3>2, <3>3, <3>4 DEF Works
    <2> QED
      BY <1>c, <1>7, <2>2, <2>3, OwedGone DEF Spawn, SpawnFails, bootVars
  <1>8. CASE SetCount(j)
    <2>1. /\ job[j].pc = "setCount" /\ Suspend(j, IdleJob)
          /\ UNCHANGED <<channelRow, status, streams, bootQueue>>
      BY <1>c, <1>8 DEF SetCount, dbVars, bootVars
    <2>2. Works(job[j]) /\ Owed(job[j]) /\ c \in Channels
      BY <1>c, <1>1, <2>1 DEF Works, Placed, Owed
    <2>3. channelRow[c] => Recoverable(c)'
      BY <1>c, <2>1, <2>2 DEF OwedInv, Recoverable
    <2> QED
      BY <1>c, <2>1, <2>2, <2>3, IdleOwed, OwedMoves
  <1>9. CASE BackoffFires(j)
    <2>1. job[j].pc = "backoff" /\ UNCHANGED <<channelRow, status, streams, bootQueue>>
      BY <1>c, <1>9 DEF BackoffFires, dbVars, bootVars
    <2>2. Works(job[j]) /\ streams[c] = None /\ c \in Channels /\ Owed(job[j])
      BY <1>c, <1>1, <2>1 DEF Placed, Works, Fits, Entered, Writes, Owed
    <2>3. BeginStart(j, c, "auto", job[j].cnt)
      BY <1>c, <1>9, <2>2 DEF BackoffFires
    <2>4. channelRow[c] => Recoverable(c)'
      BY <1>c, <2>1, <2>2 DEF OwedInv, Recoverable
    <2> QED
      BY <1>c, <2>1, <2>2, <2>3, <2>4, OwedBegins DEF Starts
  <1>10. ASSUME NEW r, Suspend(j, r), r.pc \in {"saveRow", "saveStatus"}, r.chan = c,
                r.kind = job[j].kind, r.target = job[j].target,
                job[j].pc \in {"findRow", "saveRow"},
                UNCHANGED <<channelRow, status, streams, bootQueue>>
         PROVE  OwedInv'
    <2>1. Works(job[j]) /\ (Owed(r) => Owed(job[j]))
      BY <1>c, <1>1, <1>10 DEF Works, Placed, Owed
    <2> QED
      BY <1>c, <1>2, <1>10, <2>1 DEF Works
  <1>11. CASE FindRow(j)
    <2> DEFINE r == [job[j] EXCEPT !.pc = "saveRow", !.found = processState[c] # None]
    <2>1. r.pc = "saveRow" /\ r.chan = c /\ r.kind = job[j].kind /\ r.target = job[j].target
      BY <1>c, JobFields DEF Job
    <2>2. /\ Suspend(j, r) /\ job[j].pc = "findRow"
          /\ UNCHANGED <<channelRow, status, streams, bootQueue>>
      BY <1>c, <1>11 DEF FindRow, dbVars, bootVars
    <2> HIDE DEF r
    <2> QED
      BY <1>c, <1>10, <2>1, <2>2
  <1>12. CASE SaveRow(j)
    <2> DEFINE r == [job[j] EXCEPT !.pc = "saveStatus"]
    <2>1. r.pc = "saveStatus" /\ r.chan = c /\ r.kind = job[j].kind /\ r.target = job[j].target
      BY <1>c, JobFields DEF Job
    <2>2. /\ Suspend(j, r) /\ job[j].pc = "saveRow"
          /\ UNCHANGED <<channelRow, status, streams, bootQueue>>
      BY <1>c, <1>12 DEF SaveRow, bootVars
    <2> HIDE DEF r
    <2> QED
      BY <1>c, <1>10, <2>1, <2>2
  <1>13. CASE SaveRowFails(j)
    <2>1. job[j].pc = "saveRow" /\ UNCHANGED <<channelRow, status>>
      BY <1>c, <1>13 DEF SaveRowFails, dbVars
    <2>2. Works(job[j]) /\ c \in Channels
      BY <1>c, <1>1, <2>1 DEF Works, Placed
    <2>3. ~channelRow[c]
      BY <1>c, <1>1, <1>13, <2>1 DEF SaveRowFails, RowWritable, Knows
    <2>4. \/ WorkerGone
          \/ /\ job[j].kind = "restartStop" /\ RestartAfterStop(j)
             /\ UNCHANGED <<streams, bootQueue>>
          \/ /\ Throw(j) /\ UNCHANGED <<streams, bootQueue>>
      BY <1>c, <1>13 DEF SaveRowFails, bootVars
    <2>5. CASE /\ job[j].kind = "restartStop" /\ RestartAfterStop(j)
               /\ UNCHANGED <<streams, bootQueue>>
      <3>1. streams[c] = None
        BY <1>c, <1>1, <2>1, <2>2, <2>5 DEF Fits, Entered, Starts
      <3>2. BeginStart(j, c, "restart", 0)
        BY <1>c, <2>5, <3>1 DEF RestartAfterStop
      <3> QED
        BY <1>c, <2>1, <2>2, <2>5, <3>1, <3>2, OwedBegins DEF Starts
    <2> QED
      BY <1>c, <2>1, <2>2, <2>3, <2>4, <2>5, OwedGone, OwedThrows
  <1>14. CASE SaveStatus(j)
    BY <1>c, <1>1, <1>14, OwedWritten DEF SaveStatus
  <1>15. CASE ExitFind(j)
    <2>1. job[j].pc = "exitFind" /\ UNCHANGED <<channelRow, status, streams, bootQueue>>
      BY <1>c, <1>15 DEF ExitFind, dbVars, bootVars
    <2>2. PICK target, n : Suspend(j, MkJob("findRow", "exit", c, None, target, n))
      BY <1>c, <1>15, Zenon DEF ExitFind
    <2> DEFINE r == MkJob("findRow", "exit", c, None, target, n)
    <2>3. r.pc = "findRow" /\ r.kind = "exit" /\ r.chan = c /\ Suspend(j, r)
      BY <1>c, <2>2 DEF MkJob
    <2> HIDE DEF r
    <2>4. Works(job[j]) /\ Owed(job[j])
      BY <1>c, <1>1, <2>1 DEF Works, Placed, Owed
    <2> QED
      BY <1>c, <1>2, <2>1, <2>3, <2>4
  <1>16. CASE WatchdogKill(j)
    <2>1. /\ job[j].pc = "watchKill" /\ Suspend(j, IdleJob)
          /\ UNCHANGED <<channelRow, status, streams, bootQueue>>
      BY <1>c, <1>16 DEF WatchdogKill, dbVars, bootVars
    <2>2. ~Works(job[j])
      BY <1>c, <1>1, <2>1 DEF Works, Placed
    <2>3. \A k \in Jobs : job'[k] = IF k = j THEN IdleJob ELSE job[k]
      BY <1>c, <2>1, Suspended
    <2> QED
      BY <1>c, <2>1, <2>2, <2>3, IdleOwed, OwedStays DEF RestOK
  <1> QED
    BY <1>c, <1>4, <1>6, <1>7, <1>8, <1>9, <1>11, <1>12, <1>13, <1>14, <1>15, <1>16 DEF JobStep

LEMMA OwedCommand ==
    ASSUME RestOK, JobsOK(job), SerialInv, OwedInv, NEW c \in Channels,
           Command(c) \/ WatchdogStall(c) \/ Remove(c)
    PROVE  OwedInv'
  <1>1. ASSUME UNCHANGED <<job, streams, status, bootQueue>>,
               \A d \in Channels : channelRow'[d] => channelRow[d]
        PROVE  OwedInv'
    BY <1>1, OwedStays DEF RestOK
  <1>2. CASE ReceiveStart(c)
    <2>1. PICK j \in Jobs : Idle(j) /\ BeginStart(j, c, "start", 0)
      BY <1>2 DEF ReceiveStart
    <2>2. UNCHANGED <<channelRow, status, streams, bootQueue>>
      BY <1>2 DEF ReceiveStart, dbVars, bootVars
    <2>3. CASE streams[c] = None
      BY <2>1, <2>2, <2>3, OwedBegins DEF Starts
    <2>4. CASE streams[c] # None
      BY <1>1, <2>1, <2>2, <2>4 DEF BeginStart
    <2> QED
      BY <2>3, <2>4
  <1>3. CASE Receive(c) /\ ~ReceiveStart(c)
    <2>1. UNCHANGED <<channelRow, status, streams, bootQueue>>
      BY <1>3 DEF Receive, ReceiveStop, ReceiveRestart, dbVars, bootVars
    <2>2. \/ UNCHANGED job
          \/ \E j \in Jobs, kind \in {"stop", "restartStop"} :
                Idle(j) /\ Suspend(j, MkJob("findRow", kind, c, None, "stopped", 0))
      BY <1>3 DEF Receive, ReceiveStop, ReceiveRestart
    <2>3. ASSUME NEW j \in Jobs, NEW kind \in {"stop", "restartStop"}, Idle(j),
                 Suspend(j, MkJob("findRow", kind, c, None, "stopped", 0))
          PROVE  OwedInv'
      <3> DEFINE r == MkJob("findRow", kind, c, None, "stopped", 0)
      <3>1. r.pc = "findRow" /\ r.kind = kind /\ r.chan = c
        BY DEF MkJob
      <3>2. Suspend(j, r) /\ Idle(j)
        BY <2>3
      <3> HIDE DEF r
      <3>3. Works(r) /\ ~Owed(r)
        BY <3>1 DEF Works, Owed
      <3> QED
        BY <2>1, <3>1, <3>2, <3>3, OwedMoves
    <2> QED
      BY <1>1, <2>1, <2>2, <2>3
  <1>4. CASE WatchdogStall(c)
    <2> DEFINE r == MkJob("watchKill", "watchdog", c, streams[c], None, 0)
    <2>1. PICK j \in Jobs : Idle(j) /\ Suspend(j, r)
      BY <1>4 DEF WatchdogStall
    <2>2. r.pc = "watchKill" /\ ~Owed(r)
      BY DEF MkJob, Owed
    <2>3. UNCHANGED <<channelRow, status, streams, bootQueue>>
      BY <1>4 DEF WatchdogStall, dbVars, bootVars
    <2>4. \A k \in Jobs : job'[k] = IF k = j THEN r ELSE job[k]
      BY <2>1, Suspended
    <2> HIDE DEF r
    <2> QED
      BY <2>1, <2>2, <2>3, <2>4, OwedStays DEF Idle, Works, RestOK
  <1>5. CASE Remove(c)
    <2>1. /\ UNCHANGED <<job, streams, status, bootQueue>>
          /\ \A d \in Channels : channelRow'[d] => channelRow[d]
      BY <1>5 DEF Remove, RemoveCheck, RemoveChannel, RestOK, bootVars
    <2> QED
      BY <1>1, <2>1
  <1> QED
    BY <1>2, <1>3, <1>4, <1>5 DEF Command

LEMMA OwedOthers ==
    ASSUME RestOK, JobsOK(job), SerialInv, OwedInv,
           (\E p \in Procs : ProcStep(p)) \/ Boot \/ WorkerEnds
    PROVE  OwedInv'
  <1>1. ASSUME NEW p \in Procs, ProcStep(p)
        PROVE  OwedInv'
    <2>1. CASE ProcExit(p) \/ KillTimerFires(p)
      BY <2>1, OwedStays DEF ProcExit, KillTimerFires, dbVars, bootVars, RestOK
    <2>2. CASE OnExit(p)
      <3>1. PICK c \in Channels : c = chanOf[p] /\ streams[c] = p /\ osState[p] = "exited"
        BY <2>2, ExitedEntry DEF OnExit
      <3> DEFINE r == MkJob("exitFind", "exit", c, p, None, 0)
      <3>2. PICK j \in Jobs : Idle(j) /\ Suspend(j, r)
        BY <2>2, <3>1 DEF OnExit
      <3>3. r.pc = "exitFind" /\ r.kind = "exit" /\ r.chan = c
        BY DEF MkJob
      <3>4. /\ UNCHANGED <<channelRow, status, bootQueue>>
            /\ \A d \in Channels \ {c} : streams'[d] = streams[d]
        BY <2>2, <3>1 DEF OnExit, RestOK, dbVars, bootVars
      <3> HIDE DEF r
      <3>5. Works(r)
        BY <3>3 DEF Works
      <3>6. ~Busy(c) /\ streams[c] # None
        BY <3>1, ConstantsAssumption DEF Busy, SerialInv, JobsAlone, Ends
      <3>7. channelRow[c] => Recoverable(c)'
        BY <3>4, <3>6 DEF OwedInv, Recoverable
      <3> QED
        BY <3>2, <3>3, <3>4, <3>5, <3>7, OwedMoves
    <2> QED
      BY <1>1, <2>1, <2>2 DEF ProcStep
  <1>2. CASE Boot
    <2>1. CASE WorkerSubscribes
      BY <2>1, OwedStays DEF WorkerSubscribes, dbVars, RestOK
    <2>2. CASE BootQuery
      <3>1. /\ \A j \in Jobs : job'[j] = IdleJob
            /\ \A c \in Channels : streams'[c] = None
            /\ UNCHANGED <<status, channelRow>>
            /\ bootQueue' = {c \in Channels : Recoverable(c)}
        BY <2>2, AwayIdle DEF BootQuery, SerialInv, ChildrenKnown, dbVars
      <3>2. \A c \in bootQueue' : Recoverable(c)'
        BY <3>1 DEF Recoverable
      <3> QED
        BY <3>1, <3>2, IdleOwed DEF OwedInv
    <2>3. ASSUME NEW c \in Channels, BootStart(c)
          PROVE  OwedInv'
      <3>1. PICK j \in Jobs : Idle(j) /\ BeginStart(j, c, "boot", 0)
        BY <2>3 DEF BootStart
      <3>2. /\ UNCHANGED <<channelRow, status, streams>>
            /\ bootQueue' = bootQueue \ {c} /\ c \in bootQueue
        BY <2>3 DEF BootStart, dbVars
      <3>3. streams[c] = None
        BY <3>2 DEF SerialInv, ChildrenKnown
      <3>4. channelRow[c] => Recoverable(c)'
        BY <3>2 DEF OwedInv, Recoverable
      <3> QED
        BY <3>1, <3>2, <3>3, <3>4, OwedBegins DEF Starts
    <2> QED
      BY <1>2, <2>1, <2>2, <2>3 DEF Boot
  <1>3. CASE WorkerEnds
    <2>1. CASE Shutdown
      BY <2>1, OwedStays DEF Shutdown, dbVars, RestOK
    <2> QED
      BY <1>3, <2>1, OwedGone DEF WorkerEnds, WorkerExits, WorkerCrashes
  <1> QED
    BY <1>1, <1>2, <1>3

LEMMA OwedStep ==
    ASSUME TypeOK, SerialInv, OwedInv, [Next]_vars
    PROVE  OwedInv'
  <1>1. RestOK /\ JobsOK(job)
    BY TypeSplit
  <1>2. CASE UNCHANGED vars
    BY <1>1, <1>2, OwedStays DEF vars, dbVars, bootVars, RestOK
  <1> QED
    BY <1>1, <1>2, OwedJobStep, OwedCommand, OwedOthers DEF Next

AwayInv ==
    /\ worker # "closing"
    /\ worker = "up" => servedAtDown = {}
    /\ worker \in {"down", "booting"} =>
          /\ bootQueue = {}
          /\ \A c \in Channels : streams[c] = None
          /\ \A p \in Procs : osState[p] = "none" /\ killTimer[p] = None
          /\ \A j \in Jobs : job[j] = IdleJob
          /\ \A c \in servedAtDown : channelRow[c] => Recoverable(c)

LEMMA AwayStart == Init => AwayInv
  BY DEF Init, AwayInv

LEMMA AwayGone ==
    ASSUME RestOK, JobsOK(job), SerialInv, OwedInv, AwayInv, WorkerGone, UNCHANGED dbVars
    PROVE  AwayInv'
  <1>1. /\ worker' = "down" /\ bootQueue' = {}
        /\ \A c \in Channels : streams'[c] = None
        /\ \A p \in Procs : osState'[p] = "none" /\ killTimer'[p] = None
        /\ \A j \in Jobs : job'[j] = IdleJob
        /\ servedAtDown' = servedAtDown \cup ServedNow
        /\ status' = status /\ channelRow' = channelRow
    BY DEF WorkerGone, dbVars
  <1>2. \A c \in servedAtDown' : channelRow[c] => Recoverable(c)
    <2>1. servedAtDown = {} \/ \A c \in servedAtDown : channelRow[c] => Recoverable(c)
      BY DEF AwayInv, RestOK
    <2> QED
      BY <1>1, <2>1, ServedRecoverable
  <1>3. \A c \in servedAtDown' : channelRow'[c] => Recoverable(c)'
    BY <1>1, <1>2 DEF Recoverable
  <1> QED
    BY <1>1, <1>3 DEF AwayInv

\* While the worker is up, anything but its end leaves it up.
LEMMA AwayUp ==
    ASSUME AwayInv, UNCHANGED <<worker, servedAtDown>>, worker = "up"
    PROVE  AwayInv'
  BY DEF AwayInv

LEMMA AwayJobStep ==
    ASSUME RestOK, JobsOK(job), SerialInv, OwedInv, AwayInv, NEW j \in Jobs, JobStep(j)
    PROVE  AwayInv' /\ ~(worker = "booting" /\ worker' = "up")
  <1>1. job[j].pc # "idle"
    BY DEF JobStep, Load, BuildFails, RegisterKept, SetCount, BackoffFires, Spawn, SpawnFails,
           FindRow, SaveRow, SaveRowFails, SaveStatus, ExitFind, WatchdogKill
  <1>2. worker = "up"
    BY <1>1, IdleFields DEF AwayInv, RestOK
  <1>3. CASE SaveRowFails(j)
    <2>1. UNCHANGED dbVars /\ (WorkerGone \/ UNCHANGED <<worker, servedAtDown>>)
      BY <1>3 DEF SaveRowFails, bootVars
    <2> QED
      BY <1>2, <2>1, AwayGone, AwayUp
  <1>4. ASSUME NEW p \in Procs, SpawnFails(j, p)
        PROVE  AwayInv'
    <2>1. UNCHANGED dbVars /\ (WorkerGone \/ UNCHANGED <<worker, servedAtDown>>)
      BY <1>4 DEF SpawnFails, bootVars
    <2> QED
      BY <1>2, <2>1, AwayGone, AwayUp
  <1>5. CASE \/ Load(j) \/ BuildFails(j) \/ RegisterKept(j) \/ SetCount(j) \/ BackoffFires(j)
             \/ \E p \in Procs : Spawn(j, p)
    <2>1. UNCHANGED <<worker, servedAtDown>>
      BY <1>5 DEF Load, BuildFails, RegisterKept, SetCount, BackoffFires, Spawn, bootVars
    <2> QED
      BY <1>2, <2>1, AwayUp
  <1>6. CASE FindRow(j) \/ SaveRow(j) \/ SaveStatus(j) \/ ExitFind(j) \/ WatchdogKill(j)
    <2>1. UNCHANGED <<worker, servedAtDown>>
      BY <1>6 DEF FindRow, SaveRow, SaveStatus, ExitFind, WatchdogKill, bootVars
    <2> QED
      BY <1>2, <2>1, AwayUp
  <1> QED
    BY <1>2, <1>3, <1>4, <1>5, <1>6 DEF JobStep

LEMMA AwayOthers ==
    ASSUME RestOK, JobsOK(job), SerialInv, OwedInv, AwayInv, Serial, "shutdown" \notin Events,
           \/ \E p \in Procs : ProcStep(p)
           \/ \E c \in Channels : Command(c) \/ WatchdogStall(c)
           \/ WorkerEnds
    PROVE  AwayInv' /\ ~(worker = "booting" /\ worker' = "up")
  <1>1. ASSUME NEW p \in Procs, ProcStep(p)
        PROVE  AwayInv' /\ worker = "up"
    <2>1. UNCHANGED <<worker, servedAtDown>>
      BY <1>1 DEF ProcStep, ProcExit, OnExit, KillTimerFires, bootVars
    <2>2. osState[p] # "none" \/ killTimer[p] # None
      BY <1>1 DEF ProcStep, ProcExit, OnExit, KillTimerFires
    <2>3. worker = "up"
      BY <2>2 DEF AwayInv, RestOK
    <2> QED
      BY <2>1, <2>3, AwayUp
  <1>2. ASSUME NEW c \in Channels, Command(c) \/ WatchdogStall(c)
        PROVE  AwayInv' /\ worker = "up"
    <2>1. UNCHANGED <<worker, servedAtDown>>
      BY <1>2 DEF Command, Receive, ReceiveStart, ReceiveStop, ReceiveRestart, WatchdogStall, bootVars
    <2>2. worker = "up"
      BY <1>2 DEF Command, ClientReady, AtRest, WatchdogStall, AwayInv, RestOK
    <2> QED
      BY <2>1, <2>2, AwayUp
  <1>3. CASE WorkerEnds
    <2>1. WorkerGone /\ UNCHANGED dbVars /\ worker' = "down"
      BY <1>3 DEF WorkerEnds, Shutdown, WorkerExits, WorkerCrashes, WorkerGone
    <2> QED
      BY <2>1, AwayGone
  <1> QED
    BY <1>1, <1>2, <1>3

LEMMA AwayBoot ==
    ASSUME RestOK, AwayInv, Boot
    PROVE  AwayInv' /\ (worker = "booting" /\ worker' = "up" =>
                           {c \in servedAtDown : channelRow[c]} \subseteq bootQueue')
  <1>1. CASE WorkerSubscribes
    BY <1>1 DEF WorkerSubscribes, AwayInv, Recoverable, dbVars, procVars
  <1>2. CASE BootQuery
    <2>1. /\ worker = "booting" /\ worker' = "up" /\ servedAtDown' = {}
          /\ bootQueue' = {c \in Channels : Recoverable(c)}
      BY <1>2 DEF BootQuery
    <2>2. \A c \in servedAtDown : channelRow[c] => Recoverable(c) /\ c \in Channels
      BY <2>1 DEF AwayInv, Recoverable, RestOK
    <2> QED
      BY <2>1, <2>2 DEF AwayInv
  <1>3. ASSUME NEW c \in Channels, BootStart(c)
        PROVE  AwayInv' /\ worker = "up"
    <2>1. UNCHANGED <<worker, servedAtDown>> /\ worker = "up"
      BY <1>3 DEF BootStart, AwayInv, RestOK
    <2> QED
      BY <2>1, AwayUp
  <1> QED
    BY <1>1, <1>2, <1>3 DEF Boot, WorkerSubscribes

LEMMA AwayStep ==
    ASSUME TypeOK, SerialInv, OwedInv, AwayInv, Serial, "shutdown" \notin Events, [Next]_vars
    PROVE  /\ AwayInv'
           /\ worker = "booting" /\ worker' = "up" =>
                 {c \in servedAtDown : channelRow[c]} \subseteq bootQueue'
  <1>1. RestOK /\ JobsOK(job)
    BY TypeSplit
  <1>2. CASE UNCHANGED vars
    BY <1>2 DEF AwayInv, Recoverable, vars, dbVars, bootVars, procVars
  <1>3. ASSUME NEW c \in Channels, Remove(c)
        PROVE  AwayInv' /\ worker' = worker
    <2>1. /\ UNCHANGED <<bootVars, streams, procVars, job, status>>
          /\ \A d \in Channels : channelRow'[d] => channelRow[d]
      BY <1>1, <1>3 DEF Remove, RemoveCheck, RemoveChannel, RestOK
    <2>2. servedAtDown \subseteq Channels
      BY <1>1 DEF RestOK
    <2> QED
      BY <2>1, <2>2 DEF AwayInv, Recoverable, bootVars, procVars
  <1> QED
    BY <1>1, <1>2, <1>3, AwayJobStep, AwayOthers, AwayBoot DEF Next

\* A channel the worker was serving when it was lost, whatever it was doing for it, is taken
\* up by the next bootstrap unless it was deleted: for any number of channels and crashes at
\* any await, if clients and stalls meet settled channels, no child dies before its start
\* has ended and the worker is not shut down in order.
THEOREM RecoversAll ==
    ASSUME Settling, "shutdown" \notin Events
    PROVE  Spec => RecoversRunning
  <1>1. TypeOK /\ SerialInv /\ OwedInv /\ [Next]_vars => OwedInv'
    BY OwedStep
  <1>2. TypeOK /\ SerialInv /\ OwedInv /\ AwayInv /\ [Next]_vars => AwayInv'
    BY AwayStep DEF Settling
  <1>3. TypeOK /\ SerialInv /\ OwedInv /\ AwayInv /\ [Next]_vars =>
            [worker = "booting" /\ worker' = "up" =>
                {c \in servedAtDown : channelRow[c]} \subseteq bootQueue']_vars
    BY AwayStep DEF Settling
  <1> QED
    BY <1>1, <1>2, <1>3, OwedStart, AwayStart, TypeCorrect, SerialInvHolds, PTL
       DEF Spec, RecoversRunning

----------------------------------------------------------------------------
(***************************************************************************)
(* The refinement.  The phase of a channel is told by its entry, or by the *)
(* one coroutine that works for it; a step of the worker changes the phase *)
(* of at most one channel, as StreamLifecycle lets it, or loses them all.  *)
(***************************************************************************)
Promised == [Lifecycle!LifecycleNext]_(Lifecycle!lifecycleVars)

EntryPhase(m, p) == IF m[p] THEN "stopping" ELSE "up"

\* The phase of a channel without an entry for which q works, m being `manual'.
RolePhase(m, q) ==
    IF q.pc = "exitFind" THEN (IF m[q.proc] THEN "stopping" ELSE "ending")
    ELSE IF Due(q) THEN "retrying" ELSE "down"

LEMMA LifeStart == Init => Lifecycle!LifecycleInit
  <1> SUFFICES ASSUME Init PROVE Lifecycle!LifecycleInit
    OBVIOUS
  <1>1. \A c \in Channels : streams[c] = None /\ autoRuns[c] = 0
    BY DEF Init
  <1>2. \A j \in Jobs : job[j].chan = None
    BY IdleFields DEF Init
  <1>3. \A c \in Channels : PhaseOf(c) = "down"
    BY <1>1, <1>2, ConstantsAssumption DEF PhaseOf, Ending, Retrying
  <1> QED
    BY <1>1, <1>3 DEF Lifecycle!LifecycleInit

LEMMA LifeGone == WorkerGone => Promised
  <1> SUFFICES ASSUME WorkerGone PROVE Promised
    OBVIOUS
  <1>1. \A c \in Channels : streams'[c] = None /\ autoRuns'[c] = 0
    BY DEF WorkerGone
  <1>2. \A j \in Jobs : job'[j].chan = None
    BY IdleFields DEF WorkerGone
  <1>3. \A c \in Channels : PhaseOf(c)' = "down"
    BY <1>1, <1>2, ConstantsAssumption DEF PhaseOf, Ending, Retrying
  <1>4. Lifecycle!Lost
    BY <1>1, <1>3 DEF Lifecycle!Lost, Lifecycle!LifecycleInit
  <1> QED
    BY <1>4 DEF Promised, Lifecycle!LifecycleNext

\* No phase changes.
LEMMA LifeStutters ==
    ASSUME \A c \in Channels : PhaseOf(c)' = PhaseOf(c), UNCHANGED autoRuns
    PROVE  Promised
  BY DEF Promised, Lifecycle!lifecycleVars

LEMMA LifeSame ==
    ASSUME UNCHANGED <<job, streams, manual, autoRuns>>
    PROVE  Promised
  <1>1. \A c \in Channels : PhaseOf(c)' = PhaseOf(c)
    BY DEF PhaseOf, Ending, Retrying
  <1> QED
    BY <1>1, LifeStutters

\* The phase of c changes, and nothing else.
LEMMA LifeGoes ==
    ASSUME NEW c \in Channels, \A d \in Channels \ {c} : PhaseOf(d)' = PhaseOf(d),
           UNCHANGED autoRuns,
           \/ PhaseOf(c)' = PhaseOf(c)
           \/ PhaseOf(c) = "up" /\ PhaseOf(c)' \in {"stopping", "ending"}
           \/ PhaseOf(c) \in {"stopping", "ending", "retrying"} /\ PhaseOf(c)' = "down"
           \/ /\ PhaseOf(c) = "ending" /\ PhaseOf(c)' = "retrying" /\ c \in AutoRestart
              /\ RestartMax > 0 => autoRuns[c] < RestartMax
    PROVE  Promised
  <1> DEFINE phases == [d \in Channels |-> PhaseOf(d)]
             runs == [d \in Channels |-> IF RestartMax = 0 THEN 0 ELSE autoRuns[d]]
  <1>1. phases[c] = PhaseOf(c) /\ phases' = [phases EXCEPT ![c] = PhaseOf(c)']
    OBVIOUS
  <1>2. runs' = runs
    OBVIOUS
  <1>3. CASE PhaseOf(c)' = PhaseOf(c)
    BY <1>3, LifeStutters
  <1>4. CASE PhaseOf(c) = "up" /\ PhaseOf(c)' = "stopping"
    BY <1>1, <1>2, <1>4 DEF Promised, Lifecycle!LifecycleNext, Lifecycle!AskStop, Lifecycle!Go
  <1>5. CASE PhaseOf(c) = "up" /\ PhaseOf(c)' = "ending"
    BY <1>1, <1>2, <1>5 DEF Promised, Lifecycle!LifecycleNext, Lifecycle!Crash, Lifecycle!Go
  <1>6. CASE PhaseOf(c) = "stopping" /\ PhaseOf(c)' = "down"
    BY <1>1, <1>2, <1>6 DEF Promised, Lifecycle!LifecycleNext, Lifecycle!Stopped, Lifecycle!Go
  <1>7. CASE PhaseOf(c) \in {"ending", "retrying"} /\ PhaseOf(c)' = "down"
    BY <1>1, <1>2, <1>7 DEF Promised, Lifecycle!LifecycleNext, Lifecycle!GiveUp, Lifecycle!Go
  <1>8. CASE /\ PhaseOf(c) = "ending" /\ PhaseOf(c)' = "retrying" /\ c \in AutoRestart
             /\ RestartMax > 0 => autoRuns[c] < RestartMax
    <2>1. Lifecycle!Limited(c)
      BY <1>8 DEF Lifecycle!Limited
    <2> QED
      BY <1>1, <1>2, <1>8, <2>1 DEF Promised, Lifecycle!LifecycleNext, Lifecycle!Retry, Lifecycle!Go
  <1> QED
    BY <1>3, <1>4, <1>5, <1>6, <1>7, <1>8

\* A start registers its child, or a restart does.
LEMMA LifeBegins ==
    ASSUME NEW c \in Channels, \A d \in Channels \ {c} : PhaseOf(d)' = PhaseOf(d), RestOK,
           PhaseOf(c)' = "up",
           \A d \in Channels \ {c} : autoRuns'[d] = autoRuns[d],
           \/ PhaseOf(c) = "down" /\ autoRuns'[c] = 0
           \/ /\ PhaseOf(c) = "retrying" /\ autoRuns'[c] = autoRuns[c] + 1
              /\ RestartMax > 0 => autoRuns[c] < RestartMax
           \/ PhaseOf(c) = "retrying" /\ RestartMax = 0
    PROVE  Promised
  <1> DEFINE phases == [d \in Channels |-> PhaseOf(d)]
             runs == [d \in Channels |-> IF RestartMax = 0 THEN 0 ELSE autoRuns[d]]
  <1>1. phases[c] = PhaseOf(c) /\ phases' = [phases EXCEPT ![c] = "up"]
    OBVIOUS
  <1>2. CASE PhaseOf(c) = "down" /\ autoRuns'[c] = 0
    <2>1. runs' = [runs EXCEPT ![c] = 0]
      BY <1>2
    <2> QED
      BY <1>1, <1>2, <2>1 DEF Promised, Lifecycle!LifecycleNext, Lifecycle!Start, Lifecycle!Go
  <1>3. CASE /\ PhaseOf(c) = "retrying"
             /\ \/ autoRuns'[c] = autoRuns[c] + 1 /\ (RestartMax > 0 => autoRuns[c] < RestartMax)
                \/ RestartMax = 0
    <2>1. runs' = [runs EXCEPT ![c] = IF RestartMax = 0 THEN 0 ELSE runs[c] + 1]
      BY <1>3, ConstantsAssumption
    <2>2. Lifecycle!Limited(c)
      BY <1>3, ConstantsAssumption DEF Lifecycle!Limited
    <2> QED
      BY <1>1, <1>3, <2>1, <2>2 DEF Promised, Lifecycle!LifecycleNext, Lifecycle!Restart, Lifecycle!Go
  <1> QED
    BY <1>2, <1>3

\* The phases before and after a step of job j for channel c.
LEMMA PhaseMoves ==
    ASSUME RestOK, JobsOK(job), SerialInv, NEW j \in Jobs, NEW r, Suspend(j, r), NEW c \in Channels,
           \A k \in Jobs : job[k].pc # "watchKill",
           \/ Works(job[j]) /\ job[j].chan = c
           \/ Idle(j) /\ \A k \in Jobs : Works(job[k]) => job[k].chan # c,
           r = IdleJob \/ r.chan = c,
           \A d \in Channels \ {c} : streams'[d] = streams[d],
           \A d \in Channels \ {c} : streams[d] # None => manual'[streams[d]] = manual[streams[d]],
           \A k \in Jobs \ {j} : job[k].pc = "exitFind" => manual'[job[k].proc] = manual[job[k].proc]
    PROVE  /\ \A d \in Channels \ {c} : PhaseOf(d)' = PhaseOf(d)
           /\ PhaseOf(c) = IF streams[c] # None THEN EntryPhase(manual, streams[c])
                           ELSE RolePhase(manual, job[j])
           /\ PhaseOf(c)' = IF streams'[c] # None THEN EntryPhase(manual', streams'[c])
                            ELSE RolePhase(manual', r)
  <1>1. \A k \in Jobs : job'[k] = IF k = j THEN r ELSE job[k]
    BY Suspended
  <1>2. \A k \in Jobs : job[k].chan \in Channels => Works(job[k])
    BY IdleFields, ConstantsAssumption DEF SerialInv, Placed, Works
  <1>3. \A k \in Jobs : k # j => job[k].chan # c
    BY <1>2 DEF SerialInv, JobsAlone
  <1>4. job[j].chan \notin Channels \ {c} /\ r.chan \notin Channels \ {c}
    BY IdleFields, ConstantsAssumption DEF SerialInv, Placed, Idle
  <1>5. ASSUME NEW d \in Channels \ {c}
        PROVE  PhaseOf(d)' = PhaseOf(d)
    <2>1. \A k \in Jobs : job[k].chan = d \/ job'[k].chan = d => k # j /\ job'[k] = job[k]
      BY <1>1, <1>4
    <2>2. (\E k \in Jobs : Ending(k, d)') <=> (\E k \in Jobs : Ending(k, d))
      BY <2>1 DEF Ending
    <2>3. (\E k \in Jobs : Retrying(k, d)') <=> (\E k \in Jobs : Retrying(k, d))
      BY <2>1 DEF Retrying
    <2>4. (\E k \in Jobs : Ending(k, d)' /\ manual'[job'[k].proc]) <=>
          (\E k \in Jobs : Ending(k, d) /\ manual[job[k].proc])
      BY <2>1 DEF Ending
    <2> QED
      BY <2>2, <2>3, <2>4 DEF PhaseOf
  <1>6. PhaseOf(c) = IF streams[c] # None THEN EntryPhase(manual, streams[c])
                     ELSE RolePhase(manual, job[j])
    <2>1. job[j].chan # c => job[j].pc # "exitFind" /\ ~Due(job[j])
      BY IdleCounts DEF SerialInv, Placed, Idle
    <2>2. (\E k \in Jobs : Ending(k, c)) <=> job[j].pc = "exitFind"
      BY <1>3, <2>1 DEF Ending
    <2>3. (\E k \in Jobs : Retrying(k, c)) <=> Due(job[j])
      BY <1>3, <2>1 DEF Retrying, Due
    <2>4. job[j].pc = "exitFind" =>
             ((\E k \in Jobs : Ending(k, c) /\ manual[job[k].proc]) <=> manual[job[j].proc])
      BY <1>3, <2>1 DEF Ending
    <2>5. CASE job[j].pc = "exitFind"
      BY <2>2, <2>4, <2>5 DEF PhaseOf, EntryPhase, RolePhase
    <2>6. CASE job[j].pc # "exitFind"
      BY <2>2, <2>3, <2>6 DEF PhaseOf, EntryPhase, RolePhase
    <2> QED
      BY <2>5, <2>6
  <1>7. PhaseOf(c)' = IF streams'[c] # None THEN EntryPhase(manual', streams'[c])
                      ELSE RolePhase(manual', r)
    <2>1. r.chan # c => r.pc # "exitFind" /\ ~Due(r)
      BY IdleCounts
    <2>2. (\E k \in Jobs : Ending(k, c)') <=> r.pc = "exitFind"
      BY <1>1, <1>3, <2>1 DEF Ending
    <2>3. (\E k \in Jobs : Retrying(k, c)') <=> Due(r)
      BY <1>1, <1>3, <2>1 DEF Retrying, Due
    <2>4. r.pc = "exitFind" =>
             ((\E k \in Jobs : Ending(k, c)' /\ manual'[job'[k].proc]) <=> manual'[r.proc])
      BY <1>1, <1>3, <2>1 DEF Ending
    <2>5. CASE r.pc = "exitFind"
      BY <2>2, <2>4, <2>5 DEF PhaseOf, EntryPhase, RolePhase
    <2>6. CASE r.pc # "exitFind"
      BY <2>2, <2>3, <2>6 DEF PhaseOf, EntryPhase, RolePhase
    <2> QED
      BY <2>5, <2>6
  <1> QED
    BY <1>5, <1>6, <1>7

\* No watchdog awaits: without stalls it never does.
NoStalls == \A j \in Jobs : job[j].pc # "watchKill"

\* Job j goes on, or ends, and decides on no restart: the phase stays, or a restart is given up.
LEMMA LifeGoesOn ==
    ASSUME RestOK, JobsOK(job), SerialInv, NoStalls, NEW j \in Jobs, NEW r, Suspend(j, r),
           Works(job[j]), job[j].pc # "exitFind", r = IdleJob \/ r.chan = job[j].chan,
           r.pc \notin {"watchKill", "exitFind"}, Due(r) => Due(job[j]),
           UNCHANGED <<streams, manual, autoRuns>>
    PROVE  Promised /\ NoStalls'
  <1>1. PICK c \in Channels : c = job[j].chan
    BY JobFields DEF Works
  <1>2. NoStalls'
    BY Suspended DEF NoStalls
  <1>3. /\ \A d \in Channels \ {c} : PhaseOf(d)' = PhaseOf(d)
        /\ PhaseOf(c) = IF streams[c] # None THEN EntryPhase(manual, streams[c])
                        ELSE RolePhase(manual, job[j])
        /\ PhaseOf(c)' = IF streams'[c] # None THEN EntryPhase(manual', streams'[c])
                         ELSE RolePhase(manual', r)
    BY <1>1, PhaseMoves DEF NoStalls
  <1>4. PhaseOf(c)' = PhaseOf(c) \/ (PhaseOf(c) = "retrying" /\ PhaseOf(c)' = "down")
    <2>1. CASE streams[c] # None
      BY <1>3, <2>1
    <2>2. CASE streams[c] = None
      BY <1>3, <2>2 DEF RolePhase
    <2> QED
      BY <2>1, <2>2
  <1> QED
    BY <1>2, <1>3, <1>4, LifeGoes

\* A slot takes up a channel that nobody works for.
LEMMA LifeArrives ==
    ASSUME RestOK, JobsOK(job), SerialInv, NoStalls, NEW j \in Jobs, Idle(j), NEW r, Suspend(j, r),
           NEW c \in Channels, r.chan = c, \A k \in Jobs : Works(job[k]) => job[k].chan # c,
           r.pc \notin {"watchKill", "exitFind"}, ~Due(r),
           UNCHANGED <<streams, manual, autoRuns>>
    PROVE  Promised /\ NoStalls'
  <1>1. NoStalls'
    BY Suspended DEF NoStalls
  <1>2. /\ \A d \in Channels \ {c} : PhaseOf(d)' = PhaseOf(d)
        /\ PhaseOf(c) = IF streams[c] # None THEN EntryPhase(manual, streams[c])
                        ELSE RolePhase(manual, job[j])
        /\ PhaseOf(c)' = IF streams'[c] # None THEN EntryPhase(manual', streams'[c])
                         ELSE RolePhase(manual', r)
    BY PhaseMoves DEF NoStalls
  <1>3. job[j].pc # "exitFind" /\ ~Due(job[j])
    BY IdleCounts DEF SerialInv, Placed, Idle
  <1>4. PhaseOf(c)' = PhaseOf(c)
    BY <1>2, <1>3 DEF RolePhase
  <1> QED
    BY <1>1, <1>2, <1>4, LifeGoes

LEMMA LifeThrows ==
    ASSUME RestOK, JobsOK(job), SerialInv, NoStalls, NEW j \in Jobs, Throw(j),
           Works(job[j]), job[j].pc # "exitFind", UNCHANGED <<streams, manual, autoRuns>>
    PROVE  Promised /\ NoStalls'
  <1>1. PICK r : /\ Suspend(j, r)
                 /\ \/ r = MkJob("findRow", "fail", job[j].chan, None, "error", 0)
                    \/ r = MkJob("findRow", "giveUp", job[j].chan, None, "crashed", 0)
                    \/ r = IdleJob
    BY Zenon DEF Throw
  <1>2. /\ r = IdleJob \/ r.chan = job[j].chan
        /\ r.pc \notin {"watchKill", "exitFind"} /\ ~Due(r)
    BY <1>1, IdleCounts, IdleFields DEF MkJob, Due
  <1> QED
    BY <1>1, <1>2, LifeGoesOn

LEMMA LifeBeginStart ==
    ASSUME RestOK, JobsOK(job), SerialInv, NoStalls, NEW j \in Jobs, NEW kind, NEW n,
           BeginStart(j, job[j].chan, kind, n), streams[job[j].chan] = None,
           kind = "restart" \/ (kind = "auto" /\ Due(job[j])),
           Works(job[j]), job[j].pc # "exitFind", UNCHANGED <<streams, manual, autoRuns>>
    PROVE  Promised /\ NoStalls'
  <1> DEFINE r == MkJob("load", kind, job[j].chan, None, None, n)
  <1>1. r.pc = "load" /\ r.kind = kind /\ r.chan = job[j].chan
    BY DEF MkJob
  <1>2. Suspend(j, r)
    BY DEF BeginStart
  <1> HIDE DEF r
  <1>3. Due(r) => Due(job[j])
    BY <1>1 DEF Due
  <1> QED
    BY <1>1, <1>2, <1>3, LifeGoesOn

\* The child of the start j is entered: a start of a channel that was down, or a restart.
LEMMA LifeRegisters ==
    ASSUME RestOK, JobsOK(job), SerialInv, NoStalls, NEW j \in Jobs, NEW p \in Procs,
           RestartMax > 0 => LimitInv,
           job[j].pc \in {"build", "prev"}, Register(j, job[j].chan, p),
           \A d \in Channels : streams[d] # p,
           \A k \in Jobs : k # j /\ job[k].pc = "exitFind" => job[k].proc # p
    PROVE  Promised /\ NoStalls'
  <1>1. PICK c \in Channels : c = job[j].chan
    BY JobFields
  <1> DEFINE r == MkJob("findRow", job[j].kind, c, None, "running", job[j].cnt)
  <1>2. r.pc = "findRow" /\ r.chan = c
    BY DEF MkJob
  <1>3. Suspend(j, r)
    BY <1>1 DEF Register
  <1> HIDE DEF r
  <1>4. /\ Works(job[j]) /\ Placed(job[j]) /\ job[j].kind \in Starts /\ p # None
        /\ streams[c] = None
    BY <1>1, ConstantsAssumption DEF SerialInv, Placed, Works, Starts, Fits, Entered, Writes
  <1>5. /\ streams'[c] = p /\ manual'[p] = FALSE
        /\ \A d \in Channels \ {c} : streams'[d] = streams[d] /\ autoRuns'[d] = autoRuns[d]
        /\ \A q \in Procs \ {p} : manual'[q] = manual[q]
    BY <1>1 DEF Register, RestOK
  <1>6. /\ \A d \in Channels \ {c} : streams[d] # None => manual'[streams[d]] = manual[streams[d]]
        /\ \A k \in Jobs \ {j} : job[k].pc = "exitFind" => manual'[job[k].proc] = manual[job[k].proc]
    BY <1>5, JobFields DEF RestOK
  <1>7. /\ \A d \in Channels \ {c} : PhaseOf(d)' = PhaseOf(d)
        /\ PhaseOf(c) = IF streams[c] # None THEN EntryPhase(manual, streams[c])
                        ELSE RolePhase(manual, job[j])
        /\ PhaseOf(c)' = IF streams'[c] # None THEN EntryPhase(manual', streams'[c])
                         ELSE RolePhase(manual', r)
    BY <1>1, <1>2, <1>3, <1>4, <1>5, <1>6, PhaseMoves DEF NoStalls
  <1>8. PhaseOf(c)' = "up"
    BY <1>4, <1>5, <1>7 DEF EntryPhase
  <1>9. NoStalls'
    BY <1>2, <1>3, Suspended DEF NoStalls
  <1>10. CASE job[j].kind # "auto"
    <2>1. PhaseOf(c) = "down"
      BY <1>4, <1>7, <1>10 DEF RolePhase, Due, Starts
    <2>2. autoRuns'[c] = 0
      BY <1>1, <1>10 DEF Register, RestOK
    <2> QED
      BY <1>5, <1>7, <1>8, <1>9, <2>1, <2>2, LifeBegins
  <1>11. CASE job[j].kind = "auto"
    <2>1. Due(job[j])
      BY <1>4, <1>11 DEF Due, Placed
    <2>2. PhaseOf(c) = "retrying"
      BY <1>4, <1>7, <2>1 DEF RolePhase
    <2>3. RestartMax > 0 => autoRuns[c] < RestartMax
      BY <1>1, <2>1 DEF LimitInv, Counts
    <2>4. RestartMax > 0 => autoRuns'[c] = autoRuns[c] + 1
      <3>1. autoRuns'[c] = IF autoRuns[c] <= CountCap THEN autoRuns[c] + 1 ELSE autoRuns[c]
        BY <1>1, <1>11 DEF Register, RestOK
      <3>2. autoRuns[c] \in Nat
        BY ConstantsAssumption DEF RestOK
      <3> QED
        BY <2>3, <3>1, <3>2, ConstantsAssumption
    <2>5. RestartMax > 0 \/ RestartMax = 0
      BY ConstantsAssumption
    <2> QED
      BY <1>5, <1>7, <1>8, <1>9, <2>2, <2>3, <2>4, <2>5, LifeBegins
  <1> QED
    BY <1>10, <1>11

\* onExit decides: a stop that was asked for ends down, a crash in a restart or down.
LEMMA LifeDecides ==
    ASSUME RestOK, JobsOK(job), SerialInv, NoStalls, NEW j \in Jobs, ExitFind(j),
           RestartMax > 0 => LimitInv
    PROVE  Promised /\ NoStalls'
  <1>1. PICK c \in Channels : c = job[j].chan
    BY JobFields DEF ExitFind
  <1>2. PICK p \in Procs : p = job[j].proc
    BY JobFields DEF ExitFind
  <1>3. /\ job[j].pc = "exitFind" /\ Works(job[j]) /\ streams[c] = None /\ osState[p] = "none"
        /\ UNCHANGED <<streams, autoRuns>>
    BY <1>1, <1>2 DEF ExitFind, SerialInv, Placed, Works, Fits, Entered, Writes, Knows, histVars
  <1>4. PICK r :
           /\ Suspend(j, r)
           /\ \/ r = MkJob("findRow", "exit", c, None, "stopped", 0)
              \/ /\ ~manual[p] /\ CanRestart(c, p)
                 /\ r = MkJob("findRow", "exit", c, None, "restarting", Saturate(count[p]))
              \/ r = MkJob("findRow", "exit", c, None, "crashed", 0)
    BY <1>1, <1>2, Zenon DEF ExitFind
  <1>5. /\ r.pc = "findRow" /\ r.kind = "exit" /\ r.chan = c
        /\ r.target = "restarting" => ~manual[p] /\ CanRestart(c, p)
    BY <1>4 DEF MkJob
  <1>6. \A q \in Procs \ {p} : manual'[q] = manual[q]
    BY <1>2 DEF ExitFind, RestOK
  <1>7. /\ \A d \in Channels \ {c} : streams[d] # None => manual'[streams[d]] = manual[streams[d]]
        /\ \A k \in Jobs \ {j} : job[k].pc = "exitFind" => manual'[job[k].proc] = manual[job[k].proc]
    <2>1. \A d \in Channels : streams[d] # None => streams[d] \in Procs \ {p}
      BY <1>3 DEF SerialInv, ChildrenKnown, RestOK
    <2>2. \A k \in Jobs \ {j} : job[k].pc = "exitFind" => job[k].proc \in Procs \ {p}
      BY <1>2, <1>3, JobFields DEF SerialInv, JobsAlone
    <2> QED
      BY <1>6, <2>1, <2>2
  <1>8. /\ \A d \in Channels \ {c} : PhaseOf(d)' = PhaseOf(d)
        /\ PhaseOf(c) = IF streams[c] # None THEN EntryPhase(manual, streams[c])
                        ELSE RolePhase(manual, job[j])
        /\ PhaseOf(c)' = IF streams'[c] # None THEN EntryPhase(manual', streams'[c])
                         ELSE RolePhase(manual', r)
    BY <1>1, <1>3, <1>4, <1>5, <1>7, PhaseMoves DEF NoStalls
  <1>9. PhaseOf(c) = IF manual[p] THEN "stopping" ELSE "ending"
    BY <1>2, <1>3, <1>8 DEF RolePhase
  <1>10. NoStalls'
    BY <1>4, <1>5, Suspended DEF NoStalls
  <1>11. CASE r.target # "restarting"
    <2>1. PhaseOf(c)' = "down"
      BY <1>3, <1>5, <1>8, <1>11 DEF RolePhase, Due
    <2> QED
      BY <1>3, <1>8, <1>9, <1>10, <2>1, LifeGoes
  <1>12. CASE r.target = "restarting"
    <2>1. PhaseOf(c)' = "retrying" /\ PhaseOf(c) = "ending"
      BY <1>3, <1>5, <1>8, <1>9, <1>12 DEF RolePhase, Due
    <2>2. channelRow[c] /\ c \in AutoRestart /\ (RestartMax > 0 => count[p] < RestartMax)
      BY <1>5, <1>12, ConstantsAssumption DEF CanRestart
    <2>3. RestartMax > 0 => autoRuns[c] <= count[p]
      BY <1>1, <1>2, <1>3, <2>2 DEF LimitInv, Counts
    <2>4. RestartMax > 0 => autoRuns[c] < RestartMax
      <3>1. autoRuns[c] \in Nat /\ count[p] \in Nat
        BY ConstantsAssumption DEF RestOK
      <3> QED
        BY <2>2, <2>3, <3>1, ConstantsAssumption
    <2> QED
      BY <1>3, <1>8, <1>10, <2>1, <2>2, <2>4, LifeGoes
  <1> QED
    BY <1>11, <1>12

\* onExit begins: the entry goes, and the coroutine keeps what it knew.
LEMMA LifeExits ==
    ASSUME RestOK, JobsOK(job), SerialInv, NoStalls, NEW p \in Procs, OnExit(p)
    PROVE  Promised /\ NoStalls'
  <1>1. PICK c \in Channels : c = chanOf[p]
    BY ExitedEntry DEF OnExit
  <1> DEFINE r == MkJob("exitFind", "exit", c, p, None, 0)
  <1>2. PICK j \in Jobs : Idle(j) /\ Suspend(j, r)
    BY <1>1 DEF OnExit
  <1>3. r.pc = "exitFind" /\ r.chan = c /\ r.proc = p
    BY DEF MkJob
  <1> HIDE DEF r
  <1>4. streams[c] = p /\ p # None /\ \A k \in Jobs : Works(job[k]) => job[k].chan # c
    BY <1>1, ExitedEntry DEF OnExit
  <1>5. /\ streams'[c] = None /\ \A d \in Channels \ {c} : streams'[d] = streams[d]
        /\ UNCHANGED <<manual, autoRuns>>
    BY <1>1 DEF OnExit, RestOK, histVars
  <1>6. /\ \A d \in Channels \ {c} : PhaseOf(d)' = PhaseOf(d)
        /\ PhaseOf(c) = IF streams[c] # None THEN EntryPhase(manual, streams[c])
                        ELSE RolePhase(manual, job[j])
        /\ PhaseOf(c)' = IF streams'[c] # None THEN EntryPhase(manual', streams'[c])
                         ELSE RolePhase(manual', r)
    BY <1>2, <1>3, <1>4, <1>5, PhaseMoves DEF NoStalls
  <1>7. PhaseOf(c)' = PhaseOf(c) \/ (PhaseOf(c) = "up" /\ PhaseOf(c)' = "ending")
    BY <1>3, <1>4, <1>5, <1>6 DEF EntryPhase, RolePhase
  <1>8. NoStalls'
    BY <1>2, <1>3, Suspended DEF NoStalls
  <1> QED
    BY <1>5, <1>6, <1>7, <1>8, LifeGoes

\* stop() of an entry.
LEMMA LifeTerminates ==
    ASSUME RestOK, JobsOK(job), SerialInv, NoStalls, NEW c \in Channels, NEW force,
           streams[c] # None, Terminate(c, streams[c], force),
           UNCHANGED <<job, streams, autoRuns>>
    PROVE  Promised /\ NoStalls'
  <1> DEFINE p == streams[c]
  <1>1. p \in Procs /\ osState[p] # "none" /\ chanOf[p] = c
    BY DEF RestOK, SerialInv, ChildrenKnown
  <1>2. manual' = [manual EXCEPT ![p] = TRUE]
    BY DEF Terminate
  <1>3. \A d \in Channels \ {c} : streams[d] # None => manual'[streams[d]] = manual[streams[d]]
    <2>1. \A d \in Channels \ {c} : streams[d] # None => streams[d] \in Procs \ {p}
      BY <1>1 DEF RestOK, SerialInv, ChildrenKnown
    <2> QED
      BY <1>1, <1>2, <2>1 DEF RestOK
  <1>4. \A k \in Jobs : job[k].pc = "exitFind" => manual'[job[k].proc] = manual[job[k].proc]
    BY <1>1, <1>2, JobFields DEF RestOK, SerialInv, Knows
  <1>5. \A d \in Channels \ {c} : PhaseOf(d)' = PhaseOf(d)
    <2> SUFFICES ASSUME NEW d \in Channels \ {c} PROVE PhaseOf(d)' = PhaseOf(d)
      OBVIOUS
    <2>1. (\E k \in Jobs : Ending(k, d)') <=> (\E k \in Jobs : Ending(k, d))
      BY DEF Ending
    <2>2. (\E k \in Jobs : Retrying(k, d)') <=> (\E k \in Jobs : Retrying(k, d))
      BY DEF Retrying
    <2>3. (\E k \in Jobs : Ending(k, d)' /\ manual'[job'[k].proc]) <=>
          (\E k \in Jobs : Ending(k, d) /\ manual[job[k].proc])
      BY <1>4 DEF Ending
    <2> QED
      BY <1>3, <2>1, <2>2, <2>3 DEF PhaseOf
  <1>6. PhaseOf(c)' = "stopping" /\ PhaseOf(c) \in {"up", "stopping"}
    BY <1>1, <1>2 DEF PhaseOf, RestOK
  <1>7. NoStalls'
    BY DEF NoStalls
  <1> QED
    BY <1>5, <1>6, <1>7, LifeGoes

LEMMA LifeJobStep ==
    ASSUME RestOK, JobsOK(job), SerialInv, NoStalls, RestartMax > 0 => LimitInv,
           NEW j \in Jobs, JobStep(j)
    PROVE  Promised /\ NoStalls'
  <1> DEFINE c == job[j].chan
  <1>1. /\ Placed(job[j]) /\ Knows(job[j]) /\ (Works(job[j]) => Fits(job[j]))
        /\ job[j].pc # "idle" => c \in Channels
        /\ job[j].pc \notin {"idle", "watchKill"} => Works(job[j])
    BY JobFields DEF SerialInv, Placed, Works
  <1>2. ASSUME NEW r, Suspend(j, r), r.chan = c, r.kind = job[j].kind, r.target = job[j].target,
               r.pc \in {"build", "prev", "saveRow", "saveStatus", "setCount", "backoff"},
               r.pc # "build" \/ job[j].pc = "load",
               Works(job[j]), job[j].pc # "exitFind", UNCHANGED <<streams, manual, autoRuns>>
        PROVE  Promised /\ NoStalls'
    <2>1. Due(r) => Due(job[j])
      BY <1>2 DEF Due
    <2> QED
      BY <1>2, <2>1, LifeGoesOn
  <1>3. CASE Load(j) \/ BuildFails(j)
    <2>1. job[j].pc \in {"load", "build"} /\ UNCHANGED <<streams, manual, autoRuns>>
      BY <1>3 DEF Load, BuildFails, procVars, histVars
    <2> DEFINE r == [job[j] EXCEPT !.pc = "build"]
    <2>2. Throw(j) \/ (Suspend(j, r) /\ job[j].pc = "load")
      BY <1>3 DEF Load, BuildFails
    <2>3. r.pc = "build" /\ r.chan = c /\ r.kind = job[j].kind /\ r.target = job[j].target
      BY JobFields DEF Job
    <2> HIDE DEF r
    <2> QED
      BY <1>1, <1>2, <2>1, <2>2, <2>3, LifeThrows
  <1>4. ASSUME NEW p \in Procs, Spawn(j, p) \/ SpawnFails(j, p)
        PROVE  Promised /\ NoStalls'
    <2>1. /\ job[j].pc = "build"
          /\ \A d \in Channels : streams[d] # p
          /\ \A k \in Jobs : job[k].proc # p
      BY <1>4 DEF Spawn, SpawnFails, Free, Referenced
    <2>2. CASE WorkerGone
      <3>1. NoStalls'
        BY <2>2, IdleFields DEF NoStalls, WorkerGone
      <3> QED
        BY <2>2, <3>1, LifeGone
    <2>3. CASE Register(j, c, p)
      BY <2>1, <2>3, LifeRegisters
    <2> DEFINE r == [job[j] EXCEPT !.pc = "prev", !.proc = p]
    <2>4. r.pc = "prev" /\ r.chan = c /\ r.kind = job[j].kind /\ r.target = job[j].target
      BY JobFields DEF Job
    <2>5. \/ WorkerGone \/ Register(j, c, p)
          \/ Suspend(j, r) /\ UNCHANGED <<streams, manual, autoRuns>>
      BY <1>4 DEF Spawn, SpawnFails
    <2> HIDE DEF r
    <2> QED
      BY <1>1, <1>2, <2>1, <2>2, <2>3, <2>4, <2>5
  <1>5. CASE RegisterKept(j)
    <2> DEFINE p == job[j].proc
    <2>1. /\ job[j].pc = "prev" /\ p \in Procs /\ osState[p] = "running" /\ chanOf[p] = c
          /\ Register(j, c, p)
      BY <1>1, <1>5, JobFields DEF RegisterKept, Knows
    <2>2. streams[c] = None
      BY <1>1, <2>1 DEF Placed, Works, Fits, Entered, Writes
    <2>3. \A d \in Channels : streams[d] # p
      BY <2>1, <2>2, ConstantsAssumption DEF SerialInv, ChildrenKnown
    <2>4. \A k \in Jobs : job[k].pc = "exitFind" => job[k].proc # p
      BY <2>1 DEF SerialInv, Knows
    <2> QED
      BY <2>1, <2>3, <2>4, LifeRegisters
  <1>6. CASE SetCount(j)
    <2>1. job[j].pc = "setCount" /\ Suspend(j, IdleJob) /\ UNCHANGED <<streams, manual, autoRuns>>
      BY <1>6 DEF SetCount, histVars
    <2> QED
      BY <1>1, <2>1, IdleFields, IdleCounts, LifeGoesOn
  <1>7. CASE BackoffFires(j)
    <2>1. job[j].pc = "backoff" /\ UNCHANGED <<streams, manual, autoRuns>>
      BY <1>7 DEF BackoffFires
    <2>2. Works(job[j]) /\ streams[c] = None /\ Due(job[j])
      BY <1>1, <2>1 DEF Placed, Works, Fits, Entered, Writes, Due
    <2>3. BeginStart(j, c, "auto", job[j].cnt)
      BY <1>7, <2>2 DEF BackoffFires
    <2> QED
      BY <2>1, <2>2, <2>3, LifeBeginStart
  <1>8. CASE FindRow(j)
    <2> DEFINE r == [job[j] EXCEPT !.pc = "saveRow", !.found = processState[c] # None]
    <2>1. r.pc = "saveRow" /\ r.chan = c /\ r.kind = job[j].kind /\ r.target = job[j].target
      BY JobFields DEF Job
    <2>2. Suspend(j, r) /\ job[j].pc = "findRow" /\ UNCHANGED <<streams, manual, autoRuns>>
      BY <1>8 DEF FindRow, procVars, histVars
    <2> HIDE DEF r
    <2> QED
      BY <1>1, <1>2, <2>1, <2>2
  <1>9. CASE SaveRow(j)
    <2> DEFINE r == [job[j] EXCEPT !.pc = "saveStatus"]
    <2>1. r.pc = "saveStatus" /\ r.chan = c /\ r.kind = job[j].kind /\ r.target = job[j].target
      BY JobFields DEF Job
    <2>2. Suspend(j, r) /\ job[j].pc = "saveRow" /\ UNCHANGED <<streams, manual, autoRuns>>
      BY <1>9 DEF SaveRow, procVars, histVars
    <2> HIDE DEF r
    <2> QED
      BY <1>1, <1>2, <2>1, <2>2
  <1>10. ASSUME RestartAfterStop(j), job[j].kind = "restartStop", Writes(job[j]),
                UNCHANGED <<streams, manual, autoRuns>>
         PROVE  Promised /\ NoStalls'
    <2>1. Works(job[j]) /\ streams[c] = None /\ job[j].pc # "exitFind"
      BY <1>1, <1>10 DEF Works, Fits, Entered, Writes, Starts
    <2>2. BeginStart(j, c, "restart", 0)
      BY <1>10, <2>1 DEF RestartAfterStop
    <2> QED
      BY <1>10, <2>1, <2>2, LifeBeginStart
  <1>11. CASE SaveRowFails(j)
    <2>1. job[j].pc = "saveRow" /\ Writes(job[j]) /\ Works(job[j])
      BY <1>1, <1>11 DEF SaveRowFails, Writes
    <2>2. \/ WorkerGone
          \/ /\ job[j].kind = "restartStop" /\ RestartAfterStop(j)
             /\ UNCHANGED <<streams, manual, autoRuns>>
          \/ /\ Throw(j) /\ UNCHANGED <<streams, manual, autoRuns>>
      BY <1>11 DEF SaveRowFails, procVars, histVars
    <2>3. WorkerGone => NoStalls'
      BY IdleFields DEF NoStalls, WorkerGone
    <2> QED
      BY <1>10, <2>1, <2>2, <2>3, LifeGone, LifeThrows
  <1>12. CASE SaveStatus(j)
    <2>1. /\ job[j].pc = "saveStatus" /\ Writes(job[j]) /\ Works(job[j])
          /\ UNCHANGED <<streams, manual, autoRuns>>
      BY <1>1, <1>12 DEF SaveStatus, Writes, procVars
    <2> DEFINE s == [job[j] EXCEPT !.pc = "setCount"]
               b == [job[j] EXCEPT !.pc = "backoff"]
    <2>2. \/ Suspend(j, s) \/ Suspend(j, b) \/ Suspend(j, IdleJob)
          \/ job[j].kind = "restartStop" /\ RestartAfterStop(j)
      BY <1>12 DEF SaveStatus, AfterUpdate
    <2>3. /\ s.pc = "setCount" /\ s.chan = c /\ s.kind = job[j].kind /\ s.target = job[j].target
          /\ b.pc = "backoff" /\ b.chan = c /\ b.kind = job[j].kind /\ b.target = job[j].target
      BY JobFields DEF Job
    <2> HIDE DEF s, b
    <2>4. CASE Suspend(j, s) \/ Suspend(j, b)
      BY <1>2, <2>1, <2>3, <2>4
    <2>5. CASE Suspend(j, IdleJob)
      BY <2>1, <2>5, IdleFields, IdleCounts, LifeGoesOn
    <2> QED
      BY <1>10, <2>1, <2>2, <2>4, <2>5
  <1>13. CASE ExitFind(j)
    BY <1>13, LifeDecides
  <1>14. ~WatchdogKill(j)
    BY DEF WatchdogKill, NoStalls
  <1> QED
    BY <1>3, <1>4, <1>5, <1>6, <1>7, <1>8, <1>9, <1>11, <1>12, <1>13, <1>14 DEF JobStep

LEMMA LifeOthers ==
    ASSUME RestOK, JobsOK(job), SerialInv, NoStalls, Settling,
           {"stall", "shutdown"} \cap Events = {},
           \/ \E c \in Channels : Command(c) \/ WatchdogStall(c) \/ Remove(c)
           \/ Boot \/ WorkerEnds
           \/ \E p \in Procs : ProcStep(p)
    PROVE  Promised /\ NoStalls'
  <1>1. ASSUME UNCHANGED <<job, streams, manual, autoRuns>>
        PROVE  Promised /\ NoStalls'
    BY <1>1, LifeSame DEF NoStalls
  <1>2. ASSUME NEW j \in Jobs, Idle(j), NEW c \in Channels, NEW kind \in Kind \ {"auto"}, NEW n,
               BeginStart(j, c, kind, n), \A k \in Jobs : Works(job[k]) => job[k].chan # c,
               UNCHANGED <<streams, manual, autoRuns>>
        PROVE  Promised /\ NoStalls'
    <2> DEFINE r == MkJob("load", kind, c, None, None, n)
    <2>1. r.pc = "load" /\ r.kind = kind /\ r.chan = c /\ r.target = None
      BY DEF MkJob
    <2>2. UNCHANGED job \/ Suspend(j, r)
      BY <1>2 DEF BeginStart
    <2> HIDE DEF r
    <2>3. ~Due(r)
      BY <1>2, <2>1, ConstantsAssumption DEF Due, StreamState
    <2> QED
      BY <1>1, <1>2, <2>1, <2>2, <2>3, LifeArrives
  <1>3. ASSUME NEW c \in Channels, Command(c)
        PROVE  Promised /\ NoStalls'
    <2>1. \A k \in Jobs : Works(job[k]) => job[k].chan # c
      BY <1>3 DEF Command, ClientReady, AtRest, Settled, Settling
    <2>2. CASE ReceiveStart(c)
      <3>1. PICK j \in Jobs : Idle(j) /\ BeginStart(j, c, "start", 0)
        BY <2>2 DEF ReceiveStart
      <3>2. UNCHANGED <<streams, manual, autoRuns>>
        BY <2>2 DEF ReceiveStart, procVars
      <3> QED
        BY <1>2, <2>1, <3>1, <3>2 DEF Kind
    <2>3. ASSUME NEW force \in BOOLEAN, ReceiveStop(c, force) \/ (~force /\ ReceiveRestart(c)),
                 streams[c] # None
          PROVE  Promised /\ NoStalls'
      <3>1. /\ Terminate(c, streams[c], force)
            /\ UNCHANGED <<job, streams, autoRuns>>
        BY <2>3 DEF ReceiveStop, ReceiveRestart, histVars
      <3> QED
        BY <2>3, <3>1, LifeTerminates
    <2>4. ASSUME streams[c] = None, ReceiveRestart(c) \/ \E force \in BOOLEAN : ReceiveStop(c, force)
          PROVE  Promised /\ NoStalls'
      <3>1. PICK j \in Jobs, kind \in {"stop", "restartStop"} :
               Idle(j) /\ Suspend(j, MkJob("findRow", kind, c, None, "stopped", 0))
        BY <2>4 DEF ReceiveStop, ReceiveRestart
      <3>2. UNCHANGED <<streams, manual, autoRuns>>
        BY <2>4 DEF ReceiveStop, ReceiveRestart, histVars
      <3> DEFINE r == MkJob("findRow", kind, c, None, "stopped", 0)
      <3>3. r.pc = "findRow" /\ r.kind = kind /\ r.chan = c /\ r.target = "stopped"
        BY DEF MkJob
      <3>4. Suspend(j, r) /\ Idle(j)
        BY <3>1
      <3> HIDE DEF r
      <3>5. ~Due(r)
        BY <3>3 DEF Due
      <3> QED
        BY <2>1, <3>2, <3>3, <3>4, <3>5, LifeArrives
    <2>5. CASE ReceiveRestart(c) /\ streams[c] # None
      <3>1. FALSE \in BOOLEAN
        OBVIOUS
      <3> QED
        BY <2>3, <2>5, <3>1
    <2> QED
      BY <1>3, <2>2, <2>3, <2>4, <2>5 DEF Command, Receive
  <1>4. ASSUME NEW c \in Channels, WatchdogStall(c) \/ Remove(c)
        PROVE  Promised /\ NoStalls'
    <2>1. UNCHANGED <<job, streams, manual, autoRuns>>
      BY <1>4 DEF WatchdogStall, Remove, RemoveCheck, RemoveChannel, procVars, histVars
    <2> QED
      BY <1>1, <2>1
  <1>5. CASE Boot
    <2>1. CASE WorkerSubscribes \/ BootQuery
      BY <1>1, <2>1 DEF WorkerSubscribes, BootQuery, procVars, histVars
    <2>2. ASSUME NEW c \in Channels, BootStart(c)
          PROVE  Promised /\ NoStalls'
      <3>1. PICK j \in Jobs : Idle(j) /\ BeginStart(j, c, "boot", 0)
        BY <2>2 DEF BootStart
      <3>2. UNCHANGED <<streams, manual, autoRuns>> /\ c \in bootQueue
        BY <2>2 DEF BootStart, procVars
      <3>3. \A k \in Jobs : Works(job[k]) => job[k].chan # c
        BY <3>2 DEF SerialInv, JobsAlone, Works
      <3> QED
        BY <1>2, <3>1, <3>2, <3>3 DEF Kind
    <2> QED
      BY <1>5, <2>1, <2>2 DEF Boot
  <1>6. CASE WorkerEnds
    <2>1. WorkerGone
      BY <1>6 DEF WorkerEnds, Shutdown, WorkerExits, WorkerCrashes
    <2>2. NoStalls'
      BY <2>1, IdleFields DEF NoStalls, WorkerGone
    <2> QED
      BY <2>1, <2>2, LifeGone
  <1>7. ASSUME NEW p \in Procs, ProcStep(p)
        PROVE  Promised /\ NoStalls'
    <2>1. CASE ProcExit(p) \/ KillTimerFires(p)
      BY <1>1, <2>1 DEF ProcExit, KillTimerFires, histVars
    <2> QED
      BY <1>7, <2>1, LifeExits DEF ProcStep
  <1> QED
    BY <1>3, <1>4, <1>5, <1>6, <1>7

LEMMA LifeStep ==
    ASSUME TypeOK, SerialInv, RestartMax > 0 => LimitInv, NoStalls, Settling,
           {"stall", "shutdown"} \cap Events = {}, [Next]_vars
    PROVE  Promised /\ NoStalls'
  <1>1. RestOK /\ JobsOK(job)
    BY TypeSplit
  <1>2. CASE UNCHANGED vars
    BY <1>2, LifeSame DEF NoStalls, vars, procVars, histVars
  <1> QED
    BY <1>1, <1>2, LifeJobStep, LifeOthers DEF Next

\* The worker keeps the promise of StreamLifecycle, for any channels, limit and children,
\* crashes and deletions included, if clients meet settled channels, no child dies before
\* its start has ended, and nothing stalls or shuts the worker down.
THEOREM KeepsThePromise ==
    ASSUME Settling, {"stall", "shutdown"} \cap Events = {}
    PROVE  Spec => KeepsLifecycle
  <1> DEFINE Inv == TypeOK /\ SerialInv /\ (RestartMax > 0 => LimitInv) /\ NoStalls
  <1>1. Init => NoStalls
    BY IdleFields DEF Init, NoStalls
  <1>2. Init => Inv
    BY <1>1, TypeInit, SerialStart, LimitStart
  <1>3. Inv /\ [Next]_vars => Inv'
    BY TypeNext, SerialStep, LimitStep, LifeStep
  <1>4. Inv /\ [Next]_vars => [Lifecycle!LifecycleNext]_(Lifecycle!lifecycleVars)
    BY LifeStep DEF Promised
  <1> HIDE DEF Inv
  <1> QED
    BY <1>2, <1>3, <1>4, LifeStart, PTL DEF Spec, KeepsLifecycle, Lifecycle!LifecycleSpec

(***************************************************************************)
(* Types and SingleStream carried over to the system of StreamControl: its *)
(* handlers only write the status, and its deliveries are commands the     *)
(* supervisor expects at any time.                                         *)
(***************************************************************************)
LEMMA InboxHead ==
    ASSUME ControlTypeOK, inbox # <<>>
    PROVE  Head(inbox) \in StreamCommand /\ Tail(inbox) \in Seq(StreamCommand)
  BY DEF ControlTypeOK

\* A handler's step leaves the worker alone.
LEMMA HandlerTypes ==
    ASSUME ControlTypeOK, ClientStep \/ HandlerStep
    PROVE  ControlTypeOK'
  <1> USE DEF dbVars, bootVars, procVars, histVars
  <1>1. ASSUME NEW new \in SUBSET Request, Ask(new)
        PROVE  ControlTypeOK'
    <2>1. TypeOK'
      BY <1>1 DEF Ask, vars, ControlTypeOK, TypeOK
    <2> QED
      BY <1>1, <2>1 DEF Ask, ControlTypeOK
  <1>2. ASSUME NEW c \in Channels, PostStart(c)
        PROVE  ControlTypeOK'
    <2>1. {[type |-> "start", chan |-> c, step |-> "mark"]} \in SUBSET Request
      BY DEF Request, CommandType
    <2> QED
      BY <1>1, <1>2, <2>1 DEF PostStart
  <1>3. ASSUME NEW c \in Channels, NEW type \in CommandType,
               PostOther(c, type) \/ ScheduleDue(c, type)
        PROVE  ControlTypeOK'
    <2>1. {[type |-> type, chan |-> c, step |-> "send"]} \in SUBSET Request
      BY DEF Request
    <2> QED
      BY <1>1, <1>3, <2>1 DEF PostOther, ScheduleDue
  <1>4. ASSUME NEW list \in Playlists, PlaylistSaved(list)
        PROVE  ControlTypeOK'
    <2> DEFINE new == {[type |-> "restart", chan |-> c, step |-> "send"] :
                          c \in {d \in list : channelRow[d] /\ status[d] = "running"}}
    <2>1. new \in SUBSET Request
      BY ControlAssumption DEF Request, CommandType
    <2> QED
      BY <1>1, <1>4, <2>1 DEF PlaylistSaved
  <1>5. ASSUME NEW r \in requests, MarkStarting(r)
        PROVE  ControlTypeOK'
    <2>1. r \in Request
      BY DEF ControlTypeOK
    <2>2. [r EXCEPT !.step = "send"] \in Request
      BY <2>1 DEF Request
    <2>3. status' \in [Channels -> StreamState]
      BY <1>5, <2>1 DEF MarkStarting, ControlTypeOK, TypeOK, StreamState, Request
    <2>4. split' \subseteq Channels
      BY <1>5, <2>1 DEF MarkStarting, ControlTypeOK, TypeOK, Request
    <2>5. TypeOK'
      BY <1>5, <2>3, <2>4 DEF MarkStarting, ControlTypeOK, TypeOK
    <2> QED
      BY <1>5, <2>2, <2>5 DEF MarkStarting, ControlTypeOK
  <1>6. ASSUME NEW r \in requests, Send(r)
        PROVE  ControlTypeOK'
    <2>1. [type |-> r.type, chan |-> r.chan] \in StreamCommand
      BY DEF ControlTypeOK, Request, StreamCommand
    <2>2. inbox' \in Seq(StreamCommand)
      BY <1>6, <2>1 DEF Send, ControlTypeOK
    <2>3. TypeOK'
      BY <1>6 DEF Send, vars, ControlTypeOK, TypeOK
    <2> QED
      BY <1>6, <2>2, <2>3 DEF Send, ControlTypeOK
  <1> QED
    BY <1>2, <1>3, <1>4, <1>5, <1>6 DEF ClientStep, HandlerStep, CommandType

\* A delivered command is one the supervisor receives.
LEMMA DeliverReceives ==
    ASSUME ControlTypeOK, Deliver
    PROVE  /\ \E c \in Channels : Receive(c)
           /\ requests' = requests /\ inbox' \in Seq(StreamCommand)
  <1> DEFINE c == Head(inbox).chan
  <1>1. inbox # <<>> /\ requests' = requests /\ inbox' = Tail(inbox)
    BY DEF Deliver
  <1>2. c \in Channels /\ inbox' \in Seq(StreamCommand)
    BY <1>1, InboxHead DEF StreamCommand
  <1>3. ReceiveStart(c) \/ ReceiveStop(c, FALSE) \/ ReceiveStop(c, TRUE) \/ ReceiveRestart(c)
    BY DEF Deliver
  <1> QED
    BY <1>1, <1>2, <1>3 DEF Receive

\* Both kinds of worker step, for the lemmas about the supervisor alone.
LEMMA WorkerCases ==
    ASSUME WorkerStep
    PROVE  \/ \E j \in Jobs : JobStep(j)
           \/ \E p \in Procs : ProcStep(p)
           \/ \E c \in Channels : Receive(c) \/ WatchdogStall(c)
           \/ Boot \/ WorkerEnds \/ \E c \in Channels : Remove(c)
  BY DEF WorkerStep

LEMMA ControlTypeNext == ControlTypeOK /\ [ControlNext]_controlVars => ControlTypeOK'
  <1> SUFFICES ASSUME ControlTypeOK, [ControlNext]_controlVars PROVE ControlTypeOK'
    OBVIOUS
  <1>1. RestOK /\ JobsOK(job)
    BY TypeSplit DEF ControlTypeOK
  <1>2. CASE ClientStep \/ HandlerStep
    BY <1>2, HandlerTypes
  <1>3. CASE Deliver
    <2>1. RestOK' /\ JobsOK(job')
      BY <1>1, <1>3, DeliverReceives, TypeReceive
    <2>2. TypeOK'
      BY <2>1 DEF TypeOK, RestOK, JobsOK
    <2> QED
      BY <1>3, <2>2, DeliverReceives DEF ControlTypeOK
  <1>4. CASE WorkerStep
    <2>1. RestOK' /\ JobsOK(job')
      BY <1>1, <1>4, WorkerCases, TypeJobStep, TypeProcStep, TypeReceive, TypeOthers
    <2>2. TypeOK'
      BY <2>1 DEF TypeOK, RestOK, JobsOK
    <2>3. requests' = requests /\ inbox' \in Seq(StreamCommand)
      BY <1>4 DEF WorkerStep, ControlTypeOK
    <2> QED
      BY <2>2, <2>3 DEF ControlTypeOK
  <1>5. CASE UNCHANGED controlVars
    <2>1. TypeOK'
      BY <1>5 DEF controlVars, vars, dbVars, bootVars, procVars, histVars, ControlTypeOK, TypeOK
    <2> QED
      BY <1>5, <2>1 DEF controlVars, ControlTypeOK
  <1> QED
    BY <1>2, <1>3, <1>4, <1>5 DEF ControlNext

\* A request in flight always names a channel and the step it is at, and what the worker
\* is handed is always a command for a channel, whatever the clients, the scheduler and
\* the worker do (streams.controller.ts, events.service.ts sendCommand).
THEOREM ControlTypeCorrect == ControlSpec => []ControlTypeOK
  <1>1. ControlInit => ControlTypeOK
    BY TypeInit DEF ControlInit, ControlTypeOK
  <1>2. ControlTypeOK /\ [ControlNext]_controlVars => ControlTypeOK'
    BY ControlTypeNext
  <1> QED
    BY <1>1, <1>2, PTL DEF ControlSpec

LEMMA ControlKeeps ==
    ControlTypeOK /\ SingleStreamInv /\ [ControlNext]_controlVars => SingleStreamInv'
  <1> SUFFICES ASSUME ControlTypeOK, SingleStreamInv, [ControlNext]_controlVars
               PROVE  SingleStreamInv'
    OBVIOUS
  <1>1. RestOK /\ JobsOK(job)
    BY TypeSplit DEF ControlTypeOK
  <1>2. CASE ClientStep
    <2>1. UNCHANGED vars
      BY <1>2 DEF ClientStep, PostStart, PostOther, ScheduleDue, PlaylistSaved, Ask
    <2> QED
      BY <1>1, <2>1, OthersKeep
  <1>3. ASSUME NEW r \in requests, MarkStarting(r) \/ Send(r)
        PROVE  SingleStreamInv'
    <2>1. UNCHANGED <<streams, chanOf, osState, job, overlapped>>
      BY <1>3 DEF MarkStarting, Send, vars, procVars, histVars
    <2> QED
      BY <2>1, SameJobs, SameProcs, Quiet
  <1>4. CASE Deliver
    BY <1>1, <1>4, DeliverReceives, ReceiveKeeps
  <1>5. CASE WorkerStep
    BY <1>1, <1>5, WorkerCases, JobStepKeeps, ProcStepKeeps, ReceiveKeeps, OthersKeep
  <1>6. CASE UNCHANGED controlVars
    <2>1. UNCHANGED vars
      BY <1>6 DEF controlVars
    <2> QED
      BY <1>1, <2>1, OthersKeep
  <1> QED
    BY <1>2, <1>3, <1>4, <1>5, <1>6 DEF ControlNext, HandlerStep

\* SingleStream also holds in the whole control system: under any number of API
\* requests, schedules and playlist saves, in any order of their awaits and with any
\* command lost, a channel whose starts did not overlap has at most one child.
THEOREM ControlSingleStream == ControlSpec => []SingleStream
  <1>1. ControlInit => SingleStreamInv
    BY InitSingleStream DEF ControlInit
  <1>2. ControlTypeOK /\ SingleStreamInv /\ [ControlNext]_controlVars => SingleStreamInv'
    BY ControlKeeps
  <1>3. SingleStreamInv => SingleStream
    BY AccountedSingle
  <1> QED
    BY <1>1, <1>2, <1>3, ControlTypeCorrect, PTL DEF ControlSpec
=============================================================================
