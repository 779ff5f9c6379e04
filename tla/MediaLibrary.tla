---------------------------- MODULE MediaLibrary ----------------------------
(***************************************************************************)
(* The video library (modules/library), the playlists                      *)
(* (modules/playlists/playlists.module.ts) and the channels that play one: *)
(* files on disk, their rows, the items of a playlist, and what the worker *)
(* makes of them when such a channel starts (writeConcatFile in            *)
(* worker/stream-supervisor.service.ts).                                   *)
(*                                                                         *)
(* Each await of a request is a step of its own, and requests overlap.  A  *)
(* file is known by its content, which a rename moves along; an upload     *)
(* goes to a path no other has (multer puts the time in front).  There is  *)
(* one playlist, and the channels play it as long as its row is there.     *)
(* Random order is drawn at the start of a channel.                        *)
(***************************************************************************)
EXTENDS Integers, Sequences, FiniteSets

CONSTANTS
    Videos,       \* ids of rows of video_files
    Paths,        \* paths in the media directory
    Channels,     \* channels with the playlist as their source
    Requests,     \* bound: requests to the API at a time
    Lists,        \* what a playlist is saved as: sequences of videos and "url"
    Modes,        \* of the modes of a playlist
    RequestMax,   \* bound: requests in all
    FaultMax,     \* bound: crashes of the API
    None

ASSUME MediaAssumption ==
    /\ None \notin Videos \cup Paths
    /\ IsFiniteSet(Videos) /\ IsFiniteSet(Paths)
    /\ Lists \subseteq Seq(Videos \cup {"url"})
    /\ Modes \subseteq {"sequential", "random", "single_loop", "folder_loop", "scheduled"}
    /\ RequestMax \in Nat /\ FaultMax \in Nat

VARIABLES
    disk,         \* disk[p]: the content of the file at path p, or None
    video,        \* video[v]: its row, or None
    playlist,     \* its row: the mode, or None
    items,        \* its rows of playlist_items, in the order they were inserted
    status,       \* status[c]: in the row of channel c
    child,        \* child[c]: what the worker has of c
    plays,        \* plays[c]: the sources in its concat file, or None
    restarts,     \* commands on their way to the worker
    req,          \* req[r]: where request r is
    arrived,      \* the requests so far
    faults,
    asked,        \* history: the items of the last save that ran to its end
    torn,         \* history: saves overlapped, or one did not end, since the items were cleared
    spoiled,      \* history: contents whose row or file two requests worked on, or one that died
    early         \* history: channels that were starting while the playlist was being saved

libraryVars  == <<disk, video>>
playlistVars == <<playlist, items>>
channelVars  == <<status, child, plays>>
historyVars  == <<asked, torn, spoiled, early>>
vars == <<libraryVars, playlistVars, channelVars, restarts, req, arrived, faults, historyVars>>

Item(src, pos) == [src |-> src, pos |-> pos]
NoRequest == [pc |-> "idle", video |-> None, path |-> None, content |-> None,
              mode |-> None, list |-> <<>>, done |-> 0]

Rows     == {v \in Videos : video[v] # None}
\* Paths that no file, no row and no request is concerned with.
NewPath  == {p \in Paths : /\ disk[p] = None
                           /\ \A v \in Rows : video[v].path # p
                           /\ \A r \in Requests : req[r].path # p}

\* Steps of a request that saves the playlist: one with items, one without.
ListPc   == {"saveList", "clear", "insert", "result"}
FieldsPc == {"saveFields", "fieldsResult"}
SavingPc == ListPc \cup FieldsPc
Listing  == \E r \in Requests : req[r].pc \in ListPc
Saving   == \E r \in Requests : req[r].pc \in SavingPc

Init ==
    /\ disk = [p \in Paths |-> None]
    /\ video = [v \in Videos |-> None]
    /\ playlist = None /\ items = <<>>
    /\ status = [c \in Channels |-> "stopped"]
    /\ child = [c \in Channels |-> "none"]
    /\ plays = [c \in Channels |-> None]
    /\ restarts = {}
    /\ req = [r \in Requests |-> NoRequest]
    /\ arrived = 0 /\ faults = 0
    /\ asked = <<>> /\ torn = FALSE /\ spoiled = {} /\ early = {}

At(r, pc)  == req[r].pc = pc /\ UNCHANGED arrived
Arrives(r) == req[r].pc = "idle" /\ arrived < RequestMax /\ arrived' = arrived + 1

Shared(q) == {q[r].content : r \in {s \in Requests : \E t \in Requests \ {s} :
                                      q[s].content # None /\ q[t].content = q[s].content}}

\* Request r goes on to `next'; a playlist that two save at once is torn.
Go(r, next) ==
    /\ req' = [req EXCEPT ![r] = next]
    /\ spoiled' = spoiled \cup Shared(req')

Tears(r) == \E s \in Requests \ {r} : req[s].pc \in ListPc

KeepPlaylist == UNCHANGED <<playlistVars, channelVars, restarts, faults, asked, torn, early>>

----------------------------------------------------------------------------
(* Files.  registerUpload: probe and thumbnail may fail without harm.      *)

\* POST /library/upload, written by multer before the handler runs.
Upload(r) ==
    /\ Arrives(r)
    /\ \E p \in NewPath, x \in Videos :
          /\ \A q \in Paths : disk[q] # x
          /\ \A v \in Rows : video[v].holds # x
          /\ disk' = [disk EXCEPT ![p] = x]
          /\ Go(r, [NoRequest EXCEPT !.pc = "register", !.path = p, !.content = x])
    /\ UNCHANGED video /\ KeepPlaylist

\* importServerFile: a path that has a row is answered with it, one without file refused.
ImportServerFile(r) ==
    /\ Arrives(r)
    /\ \E p \in Paths :
          /\ disk[p] # None
          /\ \A v \in Rows : video[v].path # p
          /\ Go(r, [NoRequest EXCEPT !.pc = "register", !.path = p, !.content = disk[p]])
    /\ UNCHANGED libraryVars /\ KeepPlaylist

\* The index on the path lets one row in.
Register(r) ==
    /\ At(r, "register")
    /\ IF \E v \in Rows : video[v].path = req[r].path
       THEN UNCHANGED video
       ELSE \E v \in Videos \ Rows :
              video' = [video EXCEPT ![v] = [path |-> req[r].path, holds |-> req[r].content]]
    /\ Go(r, NoRequest)
    /\ UNCHANGED disk /\ KeepPlaylist

\* The row is read by rename, by updateMeta and by remove.
FindVideo(r) ==
    /\ Arrives(r)
    /\ \E v \in Rows, pc \in {"move", "saveVideo", "unlink", "removeVideo"} :
          Go(r, [NoRequest EXCEPT !.pc = pc, !.video = v, !.path = video[v].path,
                                  !.content = video[v].holds])
    /\ UNCHANGED libraryVars /\ KeepPlaylist

\* Mutant of Moved: the row goes on to say the old path.
MovedUnsaid(q, p) == [q EXCEPT !.pc = "saveVideo"]

Moved(q, p) == [q EXCEPT !.pc = "saveVideo", !.path = p]

\* fs.rename: what is at the new path is gone, and a file that is not there is an error.
Move(r) ==
    /\ At(r, "move")
    /\ \E p \in Paths \ {req[r].path} :
          LET from == req[r].path
          IN  IF disk[from] = None
              THEN Go(r, NoRequest) /\ UNCHANGED disk
              ELSE /\ disk' = [disk EXCEPT ![p] = disk[from], ![from] = None]
                   /\ req' = [req EXCEPT ![r] = Moved(req[r], p)]
                   /\ spoiled' = spoiled
                         \cup (IF disk[from] = req[r].content THEN {} ELSE {disk[from], req[r].content})
                         \cup (IF p \in NewPath THEN {}
                               ELSE {disk[p], disk[from]}
                                    \cup {video[v].holds : v \in {w \in Rows : video[w].path = p}})
    /\ UNCHANGED video /\ KeepPlaylist

\* save() of what was read, with the new path if it was moved; it adds the row again if
\* that was removed meanwhile, and fails where another row has the path.
SaveVideo(r) ==
    LET q == req[r]
    IN  /\ At(r, "saveVideo")
        /\ video' = IF \E w \in Rows \ {q.video} : video[w].path = q.path THEN video
                    ELSE [video EXCEPT ![q.video] = [path |-> q.path, holds |-> q.content]]
        /\ Go(r, NoRequest)
        /\ UNCHANGED disk /\ KeepPlaylist

Unlink(r) ==
    /\ At(r, "unlink")
    /\ disk' = [disk EXCEPT ![req[r].path] = None]
    /\ req' = [req EXCEPT ![r].pc = "removeVideo"]
    /\ spoiled' = spoiled \cup ({disk[req[r].path]} \ {req[r].content, None})
    /\ UNCHANGED video /\ KeepPlaylist

\* ON DELETE SET NULL: the items stay without a source.
Emptied(v) == [k \in DOMAIN items |-> IF items[k].src = v THEN [items[k] EXCEPT !.src = "gone"] ELSE items[k]]

RemoveVideo(r) ==
    LET v == req[r].video
    IN  /\ At(r, "removeVideo")
        /\ video' = [video EXCEPT ![v] = None]
        /\ items' = Emptied(v)
        /\ Go(r, NoRequest)
        /\ UNCHANGED <<disk, playlist, channelVars, restarts, faults, asked, torn, early>>

----------------------------------------------------------------------------
(* Playlists.                                                              *)

KeepFiles == UNCHANGED <<libraryVars, faults>>

EarlyWhile(saving) == early \cup (IF saving THEN {c \in Channels : child[c] = "starting"} ELSE {})

\* The ways to put a list in order, each as the index of what comes k-th.
Reorders(list) ==
    {p \in [DOMAIN list -> DOMAIN list] : \A i, j \in DOMAIN list : p[i] = p[j] => i = j}

Shuffles(s) == {[k \in DOMAIN s |-> s[p[k]]] : p \in Reorders(s)}

\* Those that sort the items by position; sort() leaves equal ones as they were.
Sortings(list) ==
    {p \in Reorders(list) : \A i, j \in DOMAIN list : i < j =>
        \/ list[p[i]].pos < list[p[j]].pos
        \/ list[p[i]].pos = list[p[j]].pos /\ p[i] < p[j]}

\* The sources of these items by position.
ByPosition(list) ==
    LET order == CHOOSE p \in Sortings(list) : TRUE
    IN  [k \in DOMAIN list |-> list[order[k]].src]

\* A playlist as the editor sends it: an item that is moved or added is numbered by its
\* place, and one that was there keeps its position, wherever list(), which asks for no
\* order, has put it.
Form(list) == Shuffles([k \in DOMAIN list |-> Item(list[k], k - 1)])

\* POST and PUT /playlists with items, of what the editor shows: videos it has listed.
PutPlaylist(r) ==
    /\ Arrives(r)
    /\ \E list \in Lists, mode \in Modes :
          /\ \A k \in DOMAIN list : list[k] \in Rows \cup {"url"}
          /\ \E form \in Form(list) :
                Go(r, [NoRequest EXCEPT !.pc = "saveList", !.mode = mode, !.list = form])
    /\ torn' = (torn \/ Listing)
    /\ early' = EarlyWhile(TRUE)
    /\ UNCHANGED <<playlistVars, channelVars, restarts, asked>> /\ KeepFiles

\* The row, its items untouched; a row removed meanwhile is there again.
SaveList(r) ==
    /\ At(r, "saveList")
    /\ playlist' = req[r].mode
    /\ Go(r, [req[r] EXCEPT !.pc = "clear"])
    /\ UNCHANGED <<items, channelVars, restarts, asked, torn, early>> /\ KeepFiles

\* Mutant of Cleared: the items are not deleted first.
ClearedNot == items

\* this.items.delete()
Cleared == <<>>

ClearItems(r) ==
    /\ At(r, "clear")
    /\ items' = Cleared
    /\ torn' = Tears(r)
    /\ Go(r, [req[r] EXCEPT !.pc = IF req[r].list = <<>> THEN "result" ELSE "insert"])
    /\ UNCHANGED <<playlist, channelVars, restarts, asked, early>> /\ KeepFiles

InsertedItem(q) == q.list[q.done + 1]

\* One iteration of saveItems: the foreign keys ask for the playlist and the video.
InsertItem(r) ==
    LET q    == req[r]
        item == InsertedItem(q)
    IN  /\ At(r, "insert")
        /\ IF playlist # None /\ item.src \in Rows \cup {"url"}
           THEN /\ items' = Append(items, item)
                /\ Go(r, [q EXCEPT !.done = @ + 1,
                                   !.pc = IF q.done + 1 = Len(q.list) THEN "result" ELSE "insert"])
                /\ UNCHANGED torn
           ELSE Go(r, NoRequest) /\ torn' = TRUE /\ UNCHANGED items
        /\ UNCHANGED <<playlist, channelVars, restarts, asked, early>> /\ KeepFiles

\* Mutant of RestartsOf: channels that are starting are asked for, not those that run.
RestartsOfStarting == {c \in Channels : status[c] = "starting"}

\* restartChannelsUsing
RestartsOf == {c \in Channels : status[c] = "running"}

\* The playlist is answered, and nobody awaits the commands.
Answer(r) ==
    /\ restarts' = restarts \cup (IF playlist # None THEN RestartsOf ELSE {})
    /\ Go(r, NoRequest)
    /\ early' = EarlyWhile(TRUE)
    /\ UNCHANGED <<playlistVars, channelVars, torn>> /\ KeepFiles

SaveEnds(r) == At(r, "result") /\ asked' = ByPosition(req[r].list) /\ Answer(r)

\* PUT without items, which the panel never sends: the row is saved, the items stay.
PutFields(r) ==
    /\ Arrives(r)
    /\ playlist # None
    /\ \E mode \in Modes : Go(r, [NoRequest EXCEPT !.pc = "saveFields", !.mode = mode])
    /\ early' = EarlyWhile(TRUE)
    /\ UNCHANGED <<playlistVars, channelVars, restarts, asked, torn>> /\ KeepFiles

SaveFields(r) ==
    /\ At(r, "saveFields")
    /\ playlist' = req[r].mode
    /\ Go(r, [req[r] EXCEPT !.pc = "fieldsResult"])
    /\ UNCHANGED <<items, channelVars, restarts, asked, torn, early>> /\ KeepFiles

FieldsEnd(r) == At(r, "fieldsResult") /\ Answer(r) /\ UNCHANGED asked

\* DELETE /playlists/:id cascades to the items; a save that goes on is torn.
RemovePlaylist ==
    /\ playlist # None /\ arrived < RequestMax
    /\ arrived' = arrived + 1
    /\ playlist' = None /\ items' = <<>> /\ asked' = <<>>
    /\ torn' = Listing
    /\ UNCHANGED <<channelVars, restarts, req, spoiled, early>> /\ KeepFiles

----------------------------------------------------------------------------
(* Channels that play it.                                                  *)

KeepRest == UNCHANGED <<libraryVars, playlistVars, req, arrived, faults, asked, torn, spoiled>>

\* POST /streams/:id/start; the worker ignores it if it has a child.
StartPressed(c) ==
    /\ status' = [status EXCEPT ![c] = "starting"]
    /\ child' = [child EXCEPT ![c] = IF @ = "none" THEN "starting" ELSE @]
    /\ early' = IF child[c] = "none" /\ Saving THEN early \cup {c} ELSE early
    /\ UNCHANGED <<plays, restarts>> /\ KeepRest

\* The orders in which writeConcatFile may list the items, which are those left out that
\* have no source any more.
Orders(mode, sources) ==
    LET order  == IF mode = "random" THEN Shuffles(sources) ELSE {sources}
        listed == {SelectSeq(s, LAMBDA src : src # "gone") : s \in order}
    IN  IF mode = "single_loop"
        THEN {IF s = <<>> THEN s ELSE <<Head(s)>> : s \in listed}
        ELSE listed

\* The channel's start reads the playlist, if there is one ...
WriteConcat(c) ==
    /\ child[c] = "starting" /\ plays[c] = None
    /\ \E order \in IF playlist = None THEN {<<>>}
                    ELSE Orders(playlist, ByPosition(items)) :
          IF order = <<>>
          THEN /\ child' = [child EXCEPT ![c] = "none"]
               /\ status' = [status EXCEPT ![c] = "error"]
               /\ early' = early \ {c}
               /\ UNCHANGED plays
          ELSE plays' = [plays EXCEPT ![c] = order] /\ UNCHANGED <<child, status, early>>
    /\ UNCHANGED restarts /\ KeepRest

\* ... and goes on to spawn FFmpeg and to write the state.
Started(c) ==
    /\ child[c] = "starting" /\ plays[c] # None
    /\ child' = [child EXCEPT ![c] = "running"]
    /\ status' = [status EXCEPT ![c] = "running"]
    /\ UNCHANGED <<plays, restarts, early>> /\ KeepRest

\* A restart of a channel that runs ends it: start() finds the child that stop() has
\* only asked to end.  One that does not run is started.
TakeRestart(c) ==
    /\ c \in restarts
    /\ restarts' = restarts \ {c}
    /\ child' = [child EXCEPT ![c] = CASE @ = "running" -> "ending"
                                       [] @ = "none" -> "starting"
                                       [] OTHER -> @]
    /\ early' = IF child[c] = "none" /\ Saving THEN early \cup {c} ELSE early
    /\ UNCHANGED <<status, plays>> /\ KeepRest

\* The child ends, as it was asked to or by itself.
Ended(c) ==
    /\ child[c] \in {"running", "ending"}
    /\ child' = [child EXCEPT ![c] = "none"]
    /\ plays' = [plays EXCEPT ![c] = None]
    /\ status' = [status EXCEPT ![c] = IF child[c] = "ending" THEN "stopped" ELSE "crashed"]
    /\ early' = early \ {c}
    /\ UNCHANGED restarts /\ KeepRest

\* The API dies with the requests it works on.
ApiCrashes ==
    /\ faults < FaultMax
    /\ faults' = faults + 1
    /\ req' = [r \in Requests |-> NoRequest]
    /\ spoiled' = spoiled \cup ({req[r].content : r \in Requests} \ {None})
    /\ torn' = (torn \/ Saving)
    /\ UNCHANGED <<libraryVars, playlistVars, channelVars, restarts, arrived, asked, early>>

Library(r)  == \/ Upload(r) \/ ImportServerFile(r) \/ Register(r) \/ FindVideo(r) \/ Move(r)
               \/ SaveVideo(r) \/ Unlink(r) \/ RemoveVideo(r)
Playlist(r) == \/ PutPlaylist(r) \/ SaveList(r) \/ ClearItems(r) \/ InsertItem(r) \/ SaveEnds(r)
               \/ PutFields(r) \/ SaveFields(r) \/ FieldsEnd(r)
Stream(c)   == StartPressed(c) \/ WriteConcat(c) \/ Started(c) \/ TakeRestart(c) \/ Ended(c)

Next ==
    \/ \E r \in Requests : Library(r) \/ Playlist(r)
    \/ \E c \in Channels : Stream(c)
    \/ RemovePlaylist
    \/ ApiCrashes

Spec == Init /\ [][Next]_vars

----------------------------------------------------------------------------
(* Properties.                                                             *)

\* A row of the library leads to the file that was registered with it, whenever no request
\* is at work on that file: rename() and remove() change the disk first and the row later.
\* Out of this are contents that two requests worked on at once (updateMeta() writes the
\* path back it has read), that a rename ran over, and those the API died on.
FilesBacked ==
    \A v \in Rows :
        LET x == video[v].holds
        IN  x \notin spoiled /\ (\A r \in Requests : req[r].content # x)
                => disk[video[v].path] = x

\* The items of a playlist are those of the last save, in its order, videos deleted since
\* apart, though they are deleted and inserted one at a time: only saves that overlap, that
\* fail or that the API dies in leave another list.
ItemsAsSaved ==
    ~torn /\ ~Listing =>
        /\ Len(items) = Len(asked)
        /\ \A k \in DOMAIN items : ByPosition(items)[k] \in {asked[k], "gone"}

\* The saved list as it was read at some time since: its sources, less some that are gone now.
Remains ==
    {[k \in DOMAIN asked |-> IF k \in gone THEN "gone" ELSE asked[k]] :
        gone \in SUBSET {k \in DOMAIN asked : ByPosition(items)[k] = "gone"}}

\* No channel goes on with an old list: once a save has ended and the worker has taken the
\* commands, a channel whose row says that it runs plays what was saved.  It is not so for
\* a channel that was starting during the save: it has read a part of the items, or the
\* old ones, and 'starting' is passed over.
PlaysSaved ==
    \A c \in Channels :
        status[c] = "running" /\ child[c] = "running" /\ c \notin early \cup restarts
        /\ ~torn /\ ~Saving /\ playlist # None
            => \E list \in Remains : plays[c] \in Orders(playlist, list)
=============================================================================
