------------------------------ MODULE LivePanel -----------------------------
(***************************************************************************)
(* How the status of a channel gets to a page that shows it: the row, the  *)
(* event the worker publishes (updateState, publishStatus and              *)
(* parseProgress in worker/stream-supervisor.service.ts), the relay of the *)
(* API (websocket/events.gateway.ts), the socket of the browser            *)
(* (api/socket.js) and the page (ChannelsPage.vue, StreamMonitorPage.vue). *)
(*                                                                         *)
(* It is about one channel, whose row exists throughout, and one page.     *)
(* Which state follows which is the business of StreamSupervisor: here the *)
(* worker may write any, and be lost at any time.                          *)
(***************************************************************************)
EXTENDS Integers, Sequences, FiniteSets

CONSTANTS
    PanelStates,  \* of the states the worker writes; "running" is among them
    Updates,      \* bound: updateState() at a time
    WireMax       \* bound: events on their way

ASSUME PanelAssumption ==
    "running" \in PanelStates /\ "starting" \notin PanelStates /\ "none" \notin PanelStates /\ WireMax \in Nat

VARIABLES
    status,       \* channels.status
    update,       \* update[u]: the state updateState() has written and not published yet
    talks,        \* FFmpeg may send progress
    wire,         \* events published, up to the page
    link,         \* the socket of the browser: "down", "asked" for, "up", or "lost" and to come back
    joined,       \* the API has the socket in the room
    subscribing,  \* the subscription waits in the browser for the connection
    page,         \* "closed", "asking" for the list, "open", or "again": open and asking
    listed,       \* the status in the list that is on its way, or "none"
    shows,        \* the status the page shows
    why           \* history: what may have put the page out of date since it agreed last

workerVars == <<status, update, talks>>
socketVars == <<link, joined, subscribing>>
pageVars   == <<page, listed, shows>>
panelVars  == <<workerVars, wire, socketVars, pageVars, why>>

PanelInit ==
    /\ status = "stopped"
    /\ update = [u \in Updates |-> "none"]
    /\ talks = FALSE
    /\ wire = <<>>
    /\ link = "down" /\ joined = FALSE /\ subscribing = FALSE
    /\ page = "closed" /\ listed = "none" /\ shows = "none"
    /\ why = {}

InFlight == wire # <<>> \/ \E u \in Updates : update[u] # "none"

\* A page that agrees with the row, and nothing under way, makes a new beginning.
Cause(reasons) == why' = IF shows' = status' /\ ~InFlight' /\ page' = "open" THEN {} ELSE why \cup reasons

----------------------------------------------------------------------------
(* The worker.                                                             *)

WriteState(u, s) ==
    /\ update[u] = "none"
    /\ update' = [update EXCEPT ![u] = s]
    /\ status' = s
    /\ talks' = (talks \/ s = "running")
    /\ UNCHANGED <<wire, socketVars, pageVars>>
    /\ Cause({})

\* The gateway passes an event on to the sockets in the room.
Published(s) == Len(wire) < WireMax /\ wire' = IF joined THEN Append(wire, s) ELSE wire

Reasons(s) ==
    (IF s # status THEN {"crossed"} ELSE {}) \cup (IF joined THEN {} ELSE {"missed"})

PublishState(u) ==
    /\ update[u] # "none"
    /\ Published(update[u])
    /\ update' = [update EXCEPT ![u] = "none"]
    /\ UNCHANGED <<status, talks, socketVars, pageVars>>
    /\ Cause(Reasons(update[u]))

\* Redis refuses the event, or the API is not connected to it at the moment.
PublishLost(u) ==
    /\ update[u] # "none"
    /\ update' = [update EXCEPT ![u] = "none"]
    /\ UNCHANGED <<status, talks, wire, socketVars, pageVars>>
    /\ Cause({"lost"})

\* The worker dies, or is shut down, between a write and its event.
WorkerLost ==
    /\ talks \/ \E u \in Updates : update[u] # "none"
    /\ update' = [u \in Updates |-> "none"]
    /\ talks' = FALSE
    /\ UNCHANGED <<status, wire, socketVars, pageVars>>
    /\ Cause(IF update' = update THEN {} ELSE {"lost"})

\* A line of progress; what FFmpeg has written last comes after its exit, too.
Progress ==
    /\ talks
    /\ Published("running")
    /\ UNCHANGED <<workerVars, socketVars, pageVars>>
    /\ Cause(Reasons("running"))

OutputEnds ==
    /\ talks /\ talks' = FALSE
    /\ UNCHANGED <<status, update, wire, socketVars, pageVars>>
    /\ Cause({})

----------------------------------------------------------------------------
(* What writes the row and publishes nothing to the panel.                 *)

\* POST /streams/:id/start
ApiStarts ==
    /\ status' = "starting"
    /\ UNCHANGED <<update, talks, wire, socketVars, pageVars>>
    /\ Cause({"silent"})

\* PUT /channels/:id saves the status it had read; a restored backup brings one from
\* before.  Which of the states the row has been in is not followed.
WriteBack(s) ==
    /\ status' = s
    /\ UNCHANGED <<update, talks, wire, socketVars, pageVars>>
    /\ Cause(IF s = status THEN {} ELSE {"silent"})

----------------------------------------------------------------------------
(* The socket.                                                             *)

\* The access token is taken, and what waits in the browser is sent.
Connects ==
    /\ link \in {"asked", "lost"}
    /\ link' = "up"
    /\ joined' = subscribing
    /\ subscribing' = FALSE
    /\ UNCHANGED <<workerVars, wire, pageVars>>
    /\ Cause({})

\* It is refused, and the client does not try again by itself.
Refused ==
    /\ link \in {"asked", "lost"}
    /\ link' = "down"
    /\ subscribing' = FALSE
    /\ UNCHANGED <<workerVars, wire, joined, pageVars>>
    /\ Cause({})

\* The connection breaks: the API forgets the rooms, and the client connects again.
Breaks ==
    /\ link = "up"
    /\ link' = "lost"
    /\ joined' = FALSE
    /\ wire' = <<>>
    /\ UNCHANGED <<workerVars, subscribing, pageVars>>
    /\ Cause(IF wire = <<>> THEN {} ELSE {"missed"})

----------------------------------------------------------------------------
(* The page.                                                               *)

OpenPage ==
    /\ page = "closed"
    /\ page' = "asking" /\ shows' = "none"
    /\ UNCHANGED <<workerVars, wire, socketVars, listed>>
    /\ Cause({})

\* load() once more, after a search or a deletion.
LoadAgain ==
    /\ page = "open"
    /\ page' = "again"
    /\ UNCHANGED <<workerVars, wire, socketVars, listed, shows>>
    /\ Cause({})

ReadList ==
    /\ page \in {"asking", "again"} /\ listed = "none"
    /\ listed' = status
    /\ UNCHANGED <<workerVars, wire, socketVars, page, shows>>
    /\ Cause({})

\* connectSocket()
Subscribe ==
    /\ link' = IF link = "down" THEN "asked" ELSE link
    /\ joined' = (joined \/ link = "up")
    /\ subscribing' = (link # "up")

\* The list is there; the first one is followed by the subscription.
ListArrives ==
    /\ listed # "none"
    /\ shows' = listed /\ listed' = "none" /\ page' = "open"
    /\ IF page = "asking" THEN Subscribe ELSE UNCHANGED socketVars
    /\ UNCHANGED <<workerVars, wire>>
    /\ Cause(IF listed = status THEN {} ELSE IF page = "asking" THEN {"missed"} ELSE {"overtaken"})

\* Mutant of Shown: an event changes nothing but the figures.
ShownFigures(s) == shows

\* onStatus()
Shown(s) == s

\* An event arrives; only an open page listens.
Deliver ==
    /\ wire # <<>>
    /\ wire' = Tail(wire)
    /\ shows' = IF page \in {"open", "again"} THEN Shown(Head(wire)) ELSE shows
    /\ UNCHANGED <<workerVars, socketVars, page, listed>>
    /\ Cause(IF page = "asking" THEN {"missed"} ELSE {})

\* Another page: the handler goes, the room stays.
ClosePage ==
    /\ page # "closed"
    /\ page' = "closed" /\ listed' = "none" /\ shows' = "none"
    /\ UNCHANGED <<workerVars, wire, socketVars>>
    /\ Cause({})

\* logout() closes the socket if it is connected.
LogOut ==
    /\ page' = "closed" /\ listed' = "none" /\ shows' = "none"
    /\ IF link = "up"
       THEN link' = "down" /\ joined' = FALSE /\ wire' = <<>> /\ UNCHANGED subscribing
       ELSE UNCHANGED <<socketVars, wire>>
    /\ UNCHANGED workerVars
    /\ Cause(IF wire' = wire THEN {} ELSE {"missed"})

PanelNext ==
    \/ \E u \in Updates :
          PublishState(u) \/ PublishLost(u) \/ \E s \in PanelStates : WriteState(u, s)
    \/ WorkerLost \/ Progress \/ OutputEnds
    \/ ApiStarts \/ \E s \in PanelStates \cup {"starting"} : WriteBack(s)
    \/ Connects \/ Refused \/ Breaks
    \/ OpenPage \/ LoadAgain \/ ReadList \/ ListArrives \/ Deliver \/ ClosePage \/ LogOut

PanelSpec == PanelInit /\ [][PanelNext]_panelVars

----------------------------------------------------------------------------
\* When nothing is under way, an open page shows the status in the row, but for five ways
\* to fall behind: the row was written without an event ("silent": by the API that starts
\* it, an edit that writes back the status it had read, or a restored backup); the event of
\* a write was lost with the worker or in Redis ("lost"); two updates, or an update and a
\* line of progress, were published in another order than written ("crossed"); the event
\* came while the socket was not in the room, before the list was shown or after the
\* connection broke ("missed"); a list read earlier came over an event ("overtaken").  From
\* the moment the page agrees again with nothing under way, all that is forgotten.
PanelAgrees == page = "open" /\ ~InFlight /\ why = {} => shows = status
=============================================================================
