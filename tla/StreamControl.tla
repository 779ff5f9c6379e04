--------------------------- MODULE StreamControl ---------------------------
(***************************************************************************)
(* The supervisor of StreamSupervisor together with those who command it:  *)
(* the API's stream endpoints (modules/streams/streams.controller.ts), the *)
(* scheduler's minute tick (scheduler/scheduler.service.ts) and a playlist *)
(* save (modules/playlists/playlists.module.ts), over the Redis pub/sub    *)
(* channel mcp:cmd (common/events.service.ts).                             *)
(*                                                                         *)
(* A handler awaits between its reads, its write and its publish, so a     *)
(* request is remembered with the step it is at.  Pub/sub keeps the order  *)
(* of what is published and keeps nothing for a subscriber that is away:   *)
(* a command published while the worker is down is lost.                   *)
(***************************************************************************)
EXTENDS StreamSupervisor, Sequences, FiniteSets

CONSTANTS
    RequestMax,  \* bound: requests in flight
    InboxMax,    \* bound: commands published and not handled
    Playlists    \* the sets of channels that play a same playlist

ASSUME ControlAssumption ==
    /\ RequestMax \in Nat /\ InboxMax \in Nat
    /\ Playlists \subseteq SUBSET Channels

VARIABLES
    requests,  \* commands whose handler has still to write or to publish
    inbox      \* mcp:cmd: what the worker has still to handle

controlVars == <<vars, requests, inbox>>

CommandType == {"start", "stop", "kill", "restart"}
StreamCommand == [type : CommandType, chan : Channels]

\* Step "mark" is before the handler's status update, "send" before its publish.
Request == [type : CommandType, chan : Channels, step : {"mark", "send"}]

ControlTypeOK ==
    /\ TypeOK
    /\ requests \subseteq Request
    /\ inbox \in Seq(StreamCommand)

ControlInit == Init /\ requests = {} /\ inbox = <<>>

----------------------------------------------------------------------------
(* The handlers.                                                           *)

Ask(new) ==
    /\ Cardinality(requests \cup new) <= RequestMax
    /\ requests' = requests \cup new
    /\ UNCHANGED <<vars, inbox>>

\* A client that waits: nothing it or another one asked for c is in flight.
Quiescent(c) ==
    /\ AtRest(c)
    /\ \A r \in requests : r.chan # c
    /\ \A i \in DOMAIN inbox : inbox[i].chan # c

MayAsk(c) == Serial => Quiescent(c)

\* POST /streams/:id/start: assertChannel, then the status, then the command.
PostStart(c) ==
    /\ MayAsk(c) /\ channelRow[c]
    /\ Ask({[type |-> "start", chan |-> c, step |-> "mark"]})

\* POST /streams/:id/stop, kill and restart: assertChannel, then the command.
PostOther(c, type) ==
    /\ MayAsk(c) /\ channelRow[c]
    /\ Ask({[type |-> type, chan |-> c, step |-> "send"]})

\* checkSchedules at a start or a stop time of c, on the status it has read.
ScheduleDue(c, type) ==
    /\ MayAsk(c) /\ channelRow[c]
    /\ type = "stop" <=> status[c] = "running"
    /\ Ask({[type |-> type, chan |-> c, step |-> "send"]})

\* restartChannelsUsing: the channels of the playlist with status 'running'.
PlaylistSaved(list) ==
    /\ \A c \in list : MayAsk(c)
    /\ Ask({[type |-> "restart", chan |-> c, step |-> "send"] :
                c \in {d \in list : channelRow[d] /\ status[d] = "running"}})

\* channels.update(id, {status: 'starting'}).
MarkStarting(r) ==
    /\ r \in requests /\ r.step = "mark"
    /\ status' = IF channelRow[r.chan] THEN [status EXCEPT ![r.chan] = "starting"]
                                       ELSE status
    /\ requests' = (requests \ {r}) \cup {[r EXCEPT !.step = "send"]}
    /\ split' = split \cup {r.chan}
    /\ UNCHANGED <<channelRow, processState, removing, bootVars, streams, procVars, job,
                   overlapped, autoRuns, inbox>>

\* sendCommand.
Send(r) ==
    /\ r \in requests /\ r.step = "send"
    /\ Len(inbox) < InboxMax
    /\ requests' = requests \ {r}
    /\ inbox' = IF worker = "down" THEN inbox
                ELSE Append(inbox, [type |-> r.type, chan |-> r.chan])
    /\ UNCHANGED vars

----------------------------------------------------------------------------
(* The worker.                                                             *)

\* Its subscriber hands it the next command.
Deliver ==
    /\ inbox # <<>>
    /\ LET cmd == Head(inbox)
       IN  \/ cmd.type = "start" /\ ReceiveStart(cmd.chan)
           \/ cmd.type = "stop" /\ ReceiveStop(cmd.chan, FALSE)
           \/ cmd.type = "kill" /\ ReceiveStop(cmd.chan, TRUE)
           \/ cmd.type = "restart" /\ ReceiveRestart(cmd.chan)
    /\ inbox' = Tail(inbox)
    /\ UNCHANGED requests

\* Any other step of the worker; what was on its way is lost when it goes down.
WorkerStep ==
    /\ \/ \E j \in Jobs : JobStep(j)
       \/ \E p \in Procs : ProcStep(p)
       \/ \E c \in Channels : WatchdogStall(c) \/ Remove(c)
       \/ Boot
       \/ WorkerEnds
    /\ inbox' = IF worker' = "down" THEN <<>> ELSE inbox
    /\ UNCHANGED requests

ClientStep ==
    \/ \E c \in Channels :
          \/ PostStart(c)
          \/ \E type \in CommandType \ {"start"} : PostOther(c, type)
          \/ \E type \in {"start", "stop"} : ScheduleDue(c, type)
    \/ \E list \in Playlists : PlaylistSaved(list)

HandlerStep == \E r \in requests : MarkStarting(r) \/ Send(r)

ControlNext == ClientStep \/ HandlerStep \/ Deliver \/ WorkerStep

ControlSpec == ControlInit /\ [][ControlNext]_controlVars

(***************************************************************************)
(* Fairness: that of the supervisor for the steps of the worker, and every *)
(* handler and every published command goes on.  Clients owe nothing.      *)
(***************************************************************************)
Step(A) ==
    /\ A
    /\ inbox' = IF worker' = "down" THEN <<>> ELSE inbox
    /\ UNCHANGED requests

ControlFairness ==
    /\ \A j \in Jobs : WF_controlVars(Step(JobStep(j)))
    /\ \A p \in Procs : /\ SF_controlVars(Step(OnExit(p)))
                        /\ WF_controlVars(Step(KillTimerFires(p)))
                        /\ WF_controlVars(Step(Killed(p)))
    /\ WF_controlVars(Step(Boot)) /\ WF_controlVars(Step(WorkerExits))
    /\ WF_controlVars(HandlerStep) /\ SF_controlVars(Deliver)

ControlFairSpec == ControlSpec /\ ControlFairness

----------------------------------------------------------------------------
(* Properties.                                                             *)

\* A channel marked 'starting' that has no child does not stay so while the worker is
\* up: the command that follows the mark reaches the worker, or was published while it
\* was down and then its bootstrap query finds the mark.
StartAnswered ==
    <>[](worker = "up") =>
        \A c \in Channels :
            (status[c] = "starting" /\ streams[c] = None)
                ~> (status[c] # "starting" \/ streams[c] # None \/ ~channelRow[c])
=============================================================================
