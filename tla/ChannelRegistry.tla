-------------------------- MODULE ChannelRegistry --------------------------
(***************************************************************************)
(* The channels table and its outputs under the API's handlers: create,    *)
(* update and remove (modules/channels/channels.service.ts), the M3U       *)
(* import (modules/m3u/m3u.module.ts), the samples the API seeds when it   *)
(* starts (database/seed.service.ts), and the status that the worker and   *)
(* the stream endpoints write meanwhile.                                   *)
(*                                                                         *)
(* No handler runs in a transaction: every query is one action, a request  *)
(* is remembered with the query it is at and with what it has read, and    *)
(* the requests interleave at every query.                                 *)
(***************************************************************************)
EXTENDS Integers, FiniteSets

CONSTANTS
    Channels,       \* channel ids; one is reused when nothing refers to it
    Targets,        \* UDP targets, address and port
    Requests,       \* slots for requests in flight
    None,
    SampleTargets,  \* the targets of the seeded samples
    Limits,         \* what maxChannels() may answer; 0 is "no limit"
    Statuses,       \* bound: the states written while the run looks on
    OutputChoices,  \* bound: the lists of outputs a client sends
    EntryMax        \* bound: entries of an imported playlist

StreamState == {"stopped", "starting", "running", "restarting", "crashed", "error"}
OutputType  == {"udp", "hls", "srt", "rtmp", "http"}

ASSUME RegistryAssumption ==
    /\ None \notin Channels /\ None \notin Targets
    /\ IsFiniteSet(Channels)
    /\ SampleTargets \subseteq Targets
    /\ Limits \subseteq Nat
    /\ Statuses \subseteq StreamState
    /\ OutputChoices \subseteq SUBSET OutputType
    /\ EntryMax \in Nat /\ IsFiniteSet(SampleTargets) /\ Cardinality(SampleTargets) <= EntryMax

VARIABLES
    target,     \* target[c]: the UDP target of the row of c, None if no row
    status,     \* status[c]: channels.status
    outputs,    \* outputs[c][o]: how many channel_outputs rows of type o
    limit,      \* what maxChannels() answers now
    api,        \* the API process
    req,        \* the requests in flight
    contested,  \* history: targets that two requests could take at once
    tangled,    \* history: channels whose requests overlapped, or were cut off
    asked,      \* history: the outputs last asked for
    written,    \* history: the status last written by the worker or an endpoint
    stale       \* history: channels whose status was written during an edit

rowVars   == <<target, status, outputs>>
tableVars == <<rowVars, limit>>
histVars  == <<contested, tangled, asked, written, stale>>
vars      == <<tableVars, api, req, histVars>>

Op == {"create", "update", "remove", "import", "seed"}
Pc == {"idle", "count", "target", "save", "clear", "outputs", "remove", "entry"}

Request ==
    [op : Op \cup {None}, pc : Pc,
     chan : Channels \cup {None},      \* the channel it works on
     target : Targets \cup {None},     \* the target it wants to save
     status : StreamState,             \* the status an update has read
     wanted : SUBSET OutputType,       \* the outputs it was sent, {} if none
     outs : SUBSET OutputType,         \* those it has still to save
     used : SUBSET Targets,            \* the targets an import must not take
     todo : 0..EntryMax,               \* its entries still to create
     max : Limits \cup {0},            \* the limit a create has read
     alone : BOOLEAN]                  \* history: no insert of others since its count

IdleRequest ==
    [op |-> None, pc |-> "idle", chan |-> None, target |-> None, status |-> "stopped",
     wanted |-> {}, outs |-> {}, used |-> {}, todo |-> 0, max |-> 0,
     alone |-> FALSE]

RegistryTypeOK ==
    /\ target \in [Channels -> Targets \cup {None}]
    /\ status \in [Channels -> StreamState]
    /\ outputs \in [Channels -> [OutputType -> Nat]]
    /\ limit \in Limits \cup {0}
    /\ api \in {"down", "seeding", "up"}
    /\ req \in [Requests -> Request]
    /\ contested \subseteq Targets
    /\ tangled \subseteq Channels
    /\ asked \in [Channels -> SUBSET OutputType]
    /\ written \in [Channels -> StreamState]
    /\ stale \subseteq Channels

----------------------------------------------------------------------------
Rows == {c \in Channels : target[c] # None}

\* No row and no request refers to c.
Unused(c) == target[c] = None /\ \A r \in Requests : req[r].chan # c

NoOutputs == [o \in OutputType |-> 0]

\* A request q may still save target t, on what it has read or checked so far.
MayTake(q, t) ==
    \/ q.pc = "save" /\ q.target = t
    \/ q.op \in {"import", "seed"} /\ q.todo > 0 /\ t \notin q.used

Holds(r, t) == MayTake(req[r], t)

DoublyHeld ==
    {t \in Targets : \E r, s \in Requests : r # s /\ Holds(r, t) /\ Holds(s, t)}

Crowded ==
    {c \in Channels : \E r, s \in Requests : r # s /\ req[r].chan = c /\ req[s].chan = c}

\* An update of c is between its read and its save.
Editing(c) ==
    \E r \in Requests : req[r].op = "update" /\ req[r].chan = c /\ req[r].pc \in {"target", "save"}

Init ==
    /\ target = [c \in Channels |-> None]
    /\ status = [c \in Channels |-> "stopped"]
    /\ outputs = [c \in Channels |-> NoOutputs]
    /\ limit = 0
    /\ api = "down"
    /\ req = [r \in Requests |-> IdleRequest]
    /\ contested = {}
    /\ tangled = {}
    /\ asked = [c \in Channels |-> {}]
    /\ written = [c \in Channels |-> "stopped"]
    /\ stale = {}

\* Request r goes on to `next'.
Go(r, next) ==
    /\ req' = [req EXCEPT ![r] = next]
    /\ contested' = contested \cup DoublyHeld'
    /\ tangled' = tangled \cup Crowded'

Finish(r) == Go(r, IdleRequest)

\* The same for a step that adds a row, which the creates of others do not see.
GoInserting(r, next) ==
    /\ req' = [q \in Requests |-> IF q = r THEN next ELSE [req[q] EXCEPT !.alone = FALSE]]
    /\ contested' = contested \cup DoublyHeld'
    /\ tangled' = tangled \cup Crowded'

\* A slot is free and the API listens.
Arrives(r) == api = "up" /\ req[r].pc = "idle"

\* saveOutputs: an empty list stands for one UDP output.
OrUdp(outs) == IF outs = {} THEN {"udp"} ELSE outs

----------------------------------------------------------------------------
(* POST /channels.                                                         *)

\* assertChannelLimit reads the licence ...
PostChannel(r) ==
    /\ Arrives(r)
    /\ \E t \in Targets, outs \in OutputChoices :
          Go(r, [IdleRequest EXCEPT !.op = "create", !.pc = "count", !.target = t,
                                    !.wanted = OrUdp(outs), !.max = limit])
    /\ UNCHANGED <<tableVars, api, asked, written, stale>>

\* Mutant of CountChannels: one channel too many is let through.
CountChannelsOver(r) ==
    /\ req[r].pc = "count"
    /\ IF req[r].max > 0 /\ Cardinality(Rows) > req[r].max
       THEN Finish(r)
       ELSE Go(r, [req[r] EXCEPT !.pc = "target", !.alone = TRUE])
    /\ UNCHANGED <<tableVars, api, asked, written, stale>>

\* ... and then counts the channels.
CountChannels(r) ==
    /\ req[r].pc = "count"
    /\ IF req[r].max > 0 /\ Cardinality(Rows) >= req[r].max
       THEN Finish(r)
       ELSE Go(r, [req[r] EXCEPT !.pc = "target", !.alone = TRUE])
    /\ UNCHANGED <<tableVars, api, asked, written, stale>>

\* Mutant of CheckTarget: the check of an edit does not look at other channels.
CheckTargetNewOnly(r) ==
    /\ req[r].pc = "target"
    /\ IF req[r].op = "create" /\ \E c \in Channels : target[c] = req[r].target
       THEN Finish(r)
       ELSE Go(r, [req[r] EXCEPT !.pc = "save"])
    /\ UNCHANGED <<tableVars, api, asked, written, stale>>

\* assertUdpTargetFree, of create and update.
CheckTarget(r) ==
    /\ req[r].pc = "target"
    /\ IF \E c \in Channels \ {req[r].chan} : target[c] = req[r].target
       THEN Finish(r)
       ELSE Go(r, [req[r] EXCEPT !.pc = "save"])
    /\ UNCHANGED <<tableVars, api, asked, written, stale>>

\* A new row c for request r, which goes on to save the outputs.
Insert(r, c, t, next) ==
    /\ target' = [target EXCEPT ![c] = t]
    /\ status' = [status EXCEPT ![c] = "stopped"]
    /\ outputs' = [outputs EXCEPT ![c] = NoOutputs]
    /\ req' = [q \in Requests |-> IF q = r THEN next ELSE [req[q] EXCEPT !.alone = FALSE]]
    /\ contested' = contested \cup DoublyHeld'
    /\ tangled' = tangled \ {c}
    /\ asked' = [asked EXCEPT ![c] = next.wanted]
    /\ written' = [written EXCEPT ![c] = "stopped"]
    /\ stale' = stale \ {c}

InsertChannel(r) ==
    /\ req[r].op = "create" /\ req[r].pc = "save"
    /\ \E c \in Channels :
          /\ Unused(c)
          /\ Insert(r, c, req[r].target,
                    [req[r] EXCEPT !.pc = "outputs", !.chan = c, !.outs = req[r].wanted])
    /\ UNCHANGED <<limit, api>>

\* One iteration of saveOutputs; without the channel the foreign key fails.
SaveOutput(r) ==
    /\ req[r].pc = "outputs"
    /\ IF target[req[r].chan] = None
       THEN Finish(r) /\ UNCHANGED outputs
       ELSE \E o \in req[r].outs :
               /\ outputs' = [outputs EXCEPT ![req[r].chan][o] = @ + 1]
               /\ Go(r, CASE req[r].outs # {o} -> [req[r] EXCEPT !.outs = @ \ {o}]
                          [] req[r].outs = {o} /\ req[r].op \in {"import", "seed"} ->
                               [req[r] EXCEPT !.outs = {}, !.pc = "entry", !.chan = None]
                          [] OTHER -> IdleRequest)
    /\ UNCHANGED <<target, status, limit, api, asked, written, stale>>

----------------------------------------------------------------------------
(* PUT /channels/:id.                                                      *)

\* update() reads the row; a target that does not change is not checked.
PutChannel(r) ==
    /\ Arrives(r)
    /\ \E c \in Rows, t \in Targets, outs \in OutputChoices, given \in BOOLEAN :
          Go(r, [IdleRequest EXCEPT
                    !.op = "update", !.pc = IF t = target[c] THEN "save" ELSE "target",
                    !.chan = c, !.target = t, !.status = status[c],
                    !.wanted = IF given THEN OrUdp(outs) ELSE {}])
    /\ UNCHANGED <<tableVars, api, asked, written, stale>>

\* Mutant of SaveChannel: a channel that is edited counts as stopped.
SaveChannelStopped(r) ==
    LET c == req[r].chan
    IN  /\ req[r].op = "update" /\ req[r].pc = "save"
        /\ target' = [target EXCEPT ![c] = req[r].target]
        /\ status' = [status EXCEPT ![c] = "stopped"]
        /\ LET next == IF req[r].wanted = {} THEN IdleRequest ELSE [req[r] EXCEPT !.pc = "clear"]
           IN  IF target[c] = None THEN GoInserting(r, next) ELSE Go(r, next)
        /\ UNCHANGED <<outputs, limit, api, asked, written, stale>>

\* channels.save({...existing, ...fields}): the whole row as it was read, with the
\* fields sent.  A row that is gone is inserted again.
SaveChannel(r) ==
    LET c == req[r].chan
    IN  /\ req[r].op = "update" /\ req[r].pc = "save"
        /\ target' = [target EXCEPT ![c] = req[r].target]
        /\ status' = [status EXCEPT ![c] = req[r].status]
        /\ LET next == IF req[r].wanted = {} THEN IdleRequest ELSE [req[r] EXCEPT !.pc = "clear"]
           IN  IF target[c] = None THEN GoInserting(r, next) ELSE Go(r, next)
        /\ UNCHANGED <<outputs, limit, api, asked, written, stale>>

\* Mutant of ClearOutputs: the new outputs are added to the old ones.
ClearOutputsNot(r) ==
    /\ req[r].pc = "clear"
    /\ asked' = [asked EXCEPT ![req[r].chan] = req[r].wanted]
    /\ Go(r, [req[r] EXCEPT !.pc = "outputs", !.outs = req[r].wanted])
    /\ UNCHANGED <<rowVars, limit, api, written, stale>>

\* outputs.delete({channelId}).
ClearOutputs(r) ==
    LET c == req[r].chan
    IN  /\ req[r].pc = "clear"
        /\ outputs' = [outputs EXCEPT ![c] = NoOutputs]
        /\ asked' = [asked EXCEPT ![c] = req[r].wanted]
        /\ Go(r, [req[r] EXCEPT !.pc = "outputs", !.outs = req[r].wanted])
        /\ UNCHANGED <<target, status, limit, api, written, stale>>

----------------------------------------------------------------------------
(* DELETE /channels/:id.                                                   *)

DeleteChannel(r) ==
    /\ Arrives(r)
    /\ \E c \in Rows :
          /\ status[c] \notin {"running", "starting"}
          /\ Go(r, [IdleRequest EXCEPT !.op = "remove", !.pc = "remove", !.chan = c])
    /\ UNCHANGED <<tableVars, api, asked, written, stale>>

\* channels.remove: the outputs go with the row.
RemoveChannel(r) ==
    LET c == req[r].chan
    IN  /\ req[r].pc = "remove"
        /\ target' = [target EXCEPT ![c] = None]
        /\ status' = [status EXCEPT ![c] = "stopped"]
        /\ outputs' = [outputs EXCEPT ![c] = NoOutputs]
        /\ req' = [req EXCEPT ![r] = IdleRequest]
        /\ tangled' = (tangled \ {c}) \cup Crowded'
        /\ asked' = [asked EXCEPT ![c] = {}]
        /\ written' = [written EXCEPT ![c] = "stopped"]
        /\ stale' = {d \in Channels : IF d = c THEN Editing(d) ELSE d \in stale}
        /\ UNCHANGED <<limit, api, contested>>

----------------------------------------------------------------------------
(* POST /m3u/import, and the samples of the seed.                          *)

\* import() has its entries and reads the targets in use.
PostImport(r) ==
    /\ Arrives(r)
    /\ \E n \in 1..EntryMax, outs \in OutputChoices :
          Go(r, [IdleRequest EXCEPT
                    !.op = "import", !.pc = "entry", !.todo = n,
                    !.used = {target[c] : c \in Rows},
                    !.wanted = IF outs = {} THEN {"udp", "hls"} ELSE outs])
    /\ UNCHANGED <<tableVars, api, asked, written, stale>>

\* nextTarget() and the insert of one entry, or of one sample.
ImportEntry(r) ==
    /\ req[r].pc = "entry" /\ req[r].todo > 0
    /\ \E c \in Channels, t \in Targets \ req[r].used :
          /\ Unused(c)
          /\ Insert(r, c, t,
                    [req[r] EXCEPT !.pc = "outputs", !.chan = c, !.outs = req[r].wanted,
                                   !.used = @ \cup {t}, !.todo = @ - 1])
    /\ UNCHANGED <<limit, api>>

FinishImport(r) ==
    /\ req[r].pc = "entry" /\ req[r].todo = 0
    /\ IF req[r].op = "seed"
       THEN api' = "up"
       ELSE UNCHANGED api
    /\ Finish(r)
    /\ UNCHANGED <<rowVars, limit, asked, written, stale>>

\* The API starts: an empty table is seeded before it listens.
ApiStarts ==
    /\ api = "down"
    /\ IF Rows = {} /\ SampleTargets # {}
       THEN /\ api' = "seeding"
            /\ \E r \in Requests :
                  Go(r, [IdleRequest EXCEPT
                            !.op = "seed", !.pc = "entry", !.wanted = {"udp"},
                            !.used = Targets \ SampleTargets,
                            !.todo = Cardinality(SampleTargets)])
       ELSE api' = "up" /\ UNCHANGED <<req, contested, tangled>>
    /\ UNCHANGED <<tableVars, asked, written, stale>>

\* The API dies: what its requests had left to do is never done.
ApiCrashes ==
    /\ api # "down"
    /\ api' = "down"
    /\ req' = [r \in Requests |-> IdleRequest]
    /\ tangled' = tangled \cup
          {c \in Channels : \E r \in Requests : req[r].chan = c /\ req[r].pc = "outputs"}
    /\ UNCHANGED <<tableVars, contested, asked, written, stale>>

----------------------------------------------------------------------------
(* What others do to the tables.                                           *)

\* channels.update({status}) of the worker's updateState and of the start endpoint.
StatusWritten(c, s) ==
    /\ target[c] # None
    /\ status' = [status EXCEPT ![c] = s]
    /\ written' = [written EXCEPT ![c] = s]
    /\ stale' = IF Editing(c) THEN stale \cup {c} ELSE stale \ {c}
    /\ UNCHANGED <<target, outputs, limit, api, req, contested, tangled, asked>>

\* A licence is activated or expires.
LicenceChanges ==
    /\ limit' \in Limits
    /\ UNCHANGED <<rowVars, api, req, histVars>>

RequestStep(r) ==
    \/ PostChannel(r) \/ CountChannels(r) \/ CheckTarget(r) \/ InsertChannel(r)
    \/ SaveOutput(r) \/ PutChannel(r) \/ SaveChannel(r) \/ ClearOutputs(r)
    \/ DeleteChannel(r) \/ RemoveChannel(r)
    \/ PostImport(r) \/ ImportEntry(r) \/ FinishImport(r)

Next ==
    \/ \E r \in Requests : RequestStep(r)
    \/ \E c \in Channels, s \in Statuses : StatusWritten(c, s)
    \/ LicenceChanges \/ ApiStarts \/ ApiCrashes

Spec == Init /\ [][Next]_vars

----------------------------------------------------------------------------
(* Properties.                                                             *)

\* Two channels share a UDP target only if two requests that overlapped were each about
\* to take it (assertUdpTargetFree, the unchecked target of an edit, nextTarget()).
TargetsDistinct ==
    \A c, d \in Channels :
        c # d /\ target[c] = target[d] /\ target[c] # None => target[c] \in contested

\* Where a request q may be: what TargetsInv needs of the control of the handlers.
WellPlaced(q) ==
    /\ q.pc \in {"count", "target", "save"} =>
          /\ q.op \in {"create", "update"}
          /\ q.target # None
          /\ q.op = "create" <=> q.chan = None
    /\ q.pc = "entry" => q.op \in {"import", "seed"}

\* Why it holds: a target that one request holds is no other channel's, and the
\* history records when two hold the same.
TargetsInv ==
    /\ \A r \in Requests : WellPlaced(req[r])
    /\ TargetsDistinct
    /\ DoublyHeld \subseteq contested
    /\ \A r \in Requests, t \in Targets \ contested :
          Holds(r, t) =>
              \A c \in Channels : target[c] = t => req[r].op = "update" /\ req[r].chan = c

\* A channel that no request works on has the outputs last asked for, each once: the
\* rows saved one at a time are all there and the old ones are gone.  Unless requests
\* for the channel overlapped, or the API died while it saved them.
OutputsAsAsked ==
    \A c \in Rows \ tangled :
        (\A r \in Requests : req[r].chan = c => req[r].pc \notin {"outputs"}) =>
            \A o \in OutputType : outputs[c][o] = IF o \in asked[c] THEN 1 ELSE 0

\* An edit leaves the status what the worker or an endpoint last wrote, unless they
\* wrote it between the read and the save of an edit (update() lines 63-70).
StatusKept ==
    \A c \in Rows \ stale : status[c] = written[c]

\* A create that no other insert ran into keeps to the limit it has read.
LimitKept ==
    [][\A r \in Requests :
          /\ req[r].op = "create" /\ req[r].pc = "save" /\ req'[r].pc = "outputs"
          /\ req[r].alone /\ req[r].max > 0
          => Cardinality(Rows') <= req[r].max]_vars
=============================================================================
