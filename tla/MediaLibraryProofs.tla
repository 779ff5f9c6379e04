------------------------- MODULE MediaLibraryProofs -------------------------
(***************************************************************************)
(* A row of the library leads to its file, a playlist keeps what was saved *)
(* and the channels play it: proved for any number of videos, paths and    *)
(* requests.  The first invariant follows one content: where it is on      *)
(* disk, which rows hold it, and how far the request is that works on it,  *)
(* until it is spoiled.  The second follows a save through its list, the   *)
(* third says which channels may still have an older one.                  *)
(***************************************************************************)
EXTENDS MediaLibrary, FunctionTheorems, FiniteSetTheorems, TLAPS

FilePc == {"register", "move", "saveVideo", "unlink", "removeVideo"}

\* A request, whatever list it saves.
IsRequest(q) ==
    /\ q \in [pc : FilePc \cup SavingPc \cup {"idle"}, video : Videos \cup {None},
             path : Paths \cup {None}, content : Videos \cup {None},
             mode : {q.mode}, list : {q.list}, done : {q.done}]
    /\ IF q.pc \in FilePc
       THEN q.path \in Paths /\ q.content \in Videos
       ELSE q.path = None /\ q.content = None
    /\ q.pc \in FilePc \ {"register"} => q.video \in Videos

FilesTypeOK ==
    /\ disk \in [Paths -> Videos \cup {None}]
    /\ video \in [Videos -> [path : Paths, holds : Videos] \cup {None}]
    /\ DOMAIN req = Requests /\ req = [r \in Requests |-> req[r]]
    /\ \A r \in Requests : IsRequest(req[r])

\* No two files have one content, no two rows one path, and contents that two requests
\* work on are recorded.
Apart ==
    /\ \A p, q \in Paths : disk[p] = disk[q] /\ disk[p] # None => p = q
    /\ \A v, w \in Rows : video[v].path = video[w].path => v = w
    /\ \A r, s \in Requests :
          r # s /\ req[r].content = req[s].content /\ req[r].content # None => req[r].content \in spoiled

\* How far a request is with the file it works on.
Underway(q) ==
    /\ q.pc \in {"register", "move", "unlink", "saveVideo"} => disk[q.path] = q.content
    /\ \A v \in Rows : video[v].holds = q.content => q.pc # "register" /\ v = q.video

\* Rows and requests agree with the disk on the place of content x; the one request that
\* works on it is underway, and without one its rows lead to it.
Settled(x) ==
    /\ \A p \in Paths : disk[p] = x =>
          /\ \A v \in Rows : video[v].path = p => video[v].holds = x
          /\ \A r \in Requests : req[r].path = p => req[r].content = x
    /\ \A r \in Requests : req[r].content = x => Underway(req[r])
    /\ (\A r \in Requests : req[r].content # x) =>
          \A v \in Rows : video[v].holds = x => disk[video[v].path] = x

FilesInv ==
    /\ FilesTypeOK
    /\ Apart
    /\ \A x \in Videos \ spoiled : Settled(x)

LEMMA NoneIsNone == None \notin Videos /\ None \notin Paths
  BY Zenon, MediaAssumption

LEMMA RowTypes ==
    ASSUME FilesTypeOK, NEW v \in Rows
    PROVE  /\ v \in Videos /\ video[v] \in [path : Paths, holds : Videos]
           /\ video[v].path \in Paths /\ video[v].holds \in Videos
  <1>1. v \in Videos /\ video[v] \in [path : Paths, holds : Videos]
    BY DEF FilesTypeOK, Rows
  <1> QED
    BY <1>1

LEMMA NoRequestWorks ==
    IsRequest(NoRequest) /\ NoRequest.pc = "idle" /\ NoRequest.content = None /\ NoRequest.path = None
  BY DEF NoRequest, IsRequest, FilePc, SavingPc, ListPc, FieldsPc

\* Request r goes on; nobody else does.
LEMMA GoAlone ==
    ASSUME FilesTypeOK, NEW r \in Requests, NEW n, Go(r, n), IsRequest(n)
    PROVE  /\ req'[r] = n /\ \A s \in Requests \ {r} : req'[s] = req[s]
           /\ DOMAIN req' = Requests /\ req' = [s \in Requests |-> req'[s]]
           /\ \A s \in Requests : IsRequest(req'[s])
           /\ spoiled \subseteq spoiled'
           /\ \A s, t \in Requests :
                s # t /\ req'[s].content = req'[t].content /\ req'[s].content # None
                   => req'[s].content \in spoiled'
  <1>1. req' = [req EXCEPT ![r] = n] /\ spoiled' = spoiled \cup Shared(req')
    BY DEF Go
  <1>2. req'[r] = n /\ \A s \in Requests \ {r} : req'[s] = req[s]
    BY <1>1 DEF FilesTypeOK
  <1>3. DOMAIN req' = Requests /\ req' = [s \in Requests |-> req'[s]]
    BY <1>1 DEF FilesTypeOK
  <1>4. \A s \in Requests : IsRequest(req'[s])
    BY <1>2 DEF FilesTypeOK
  <1>5. ASSUME NEW s \in Requests, NEW t \in Requests, s # t, req'[s].content = req'[t].content, req'[s].content # None
        PROVE  req'[s].content \in spoiled'
    BY <1>1, <1>5 DEF Shared
  <1> QED
    BY <1>1, <1>2, <1>3, <1>4, <1>5

\* A content that a step has nothing to do with stays settled.
LEMMA Untouched ==
    ASSUME FilesTypeOK, FilesTypeOK', NEW y \in Videos, Settled(y),
           \A p \in Paths : disk'[p] = y <=> disk[p] = y,
           \A v \in Rows' :
              \/ v \in Rows /\ video'[v] = video[v]
              \/ video'[v].holds # y /\ disk[video'[v].path] # y,
           \A s \in Requests :
              \/ req'[s] = req[s]
              \/ /\ req'[s].content # y /\ req[s].content # y
                 /\ req'[s].path \in Paths => disk[req'[s].path] # y
    PROVE  Settled(y)'
  <1>1. ASSUME NEW p \in Paths, disk'[p] = y
        PROVE  /\ \A v \in Rows' : video'[v].path = p => video'[v].holds = y
               /\ \A s \in Requests : req'[s].path = p => req'[s].content = y
    <2>1. disk[p] = y
      BY <1>1
    <2>2. /\ \A v \in Rows : video[v].path = p => video[v].holds = y
          /\ \A s \in Requests : req[s].path = p => req[s].content = y
      BY <2>1 DEF Settled
    <2>3. ASSUME NEW v \in Rows', video'[v].path = p
          PROVE  video'[v].holds = y
      BY <2>1, <2>2, <2>3
    <2>4. ASSUME NEW s \in Requests, req'[s].path = p
          PROVE  req'[s].content = y
      BY <2>1, <2>2, <2>4
    <2> QED
      BY <2>3, <2>4
  <1>2. ASSUME NEW s \in Requests, req'[s].content = y
        PROVE  Underway(req[s])'
    <2>1. req'[s] = req[s] /\ Underway(req[s])
      BY <1>2 DEF Settled
    <2>2. req[s].path \in Paths
      BY <1>2, <2>1, NoneIsNone DEF FilesTypeOK, IsRequest
    <2>3. req[s].pc \in {"register", "move", "unlink", "saveVideo"} => disk'[req[s].path] = y
      BY <1>2, <2>1, <2>2 DEF Underway
    <2>4. ASSUME NEW v \in Rows', video'[v].holds = y
          PROVE  req[s].pc # "register" /\ v = req[s].video
      <3>1. v \in Rows /\ video[v].holds = req[s].content
        BY <1>2, <2>1, <2>4
      <3> QED
        BY <2>1, <3>1 DEF Underway
    <2> QED
      BY <1>2, <2>1, <2>3, <2>4 DEF Underway
  <1>3. ASSUME \A s \in Requests : req'[s].content # y, NEW v \in Rows', video'[v].holds = y
        PROVE  disk'[video'[v].path] = y
    <2>1. v \in Rows /\ video'[v] = video[v]
      BY <1>3
    <2>2. \A s \in Requests : req[s].content # y
      BY <1>3
    <2>3. disk[video[v].path] = y
      BY <1>3, <2>1, <2>2 DEF Settled
    <2> QED
      BY <2>1, <2>3, RowTypes
  <1>4. Settled(y)' <=>
          /\ \A p \in Paths : disk'[p] = y =>
                /\ \A v \in Rows' : video'[v].path = p => video'[v].holds = y
                /\ \A s \in Requests : req'[s].path = p => req'[s].content = y
          /\ \A s \in Requests : req'[s].content = y => Underway(req[s])'
          /\ (\A s \in Requests : req'[s].content # y) =>
                \A v \in Rows' : video'[v].holds = y => disk'[video'[v].path] = y
    BY DEF Settled
  <1> QED
    BY <1>1, <1>2, <1>3, <1>4

\* A step of a request that does not work on a file.
LEMMA PlaylistGoes ==
    ASSUME FilesInv, NEW r \in Requests, NEW n, Go(r, n), IsRequest(n),
           n.pc \notin FilePc, req[r].pc \notin FilePc, UNCHANGED libraryVars
    PROVE  FilesInv'
  <1>1. FilesTypeOK'
    BY GoAlone DEF FilesInv, FilesTypeOK, libraryVars
  <1>2. Apart'
    <2>1. /\ \A p, q \in Paths : disk[p] = disk[q] /\ disk[p] # None => p = q
          /\ \A v, w \in Rows : video[v].path = video[w].path => v = w
          /\ Rows' = Rows /\ UNCHANGED <<disk, video>>
      BY DEF FilesInv, Apart, libraryVars, Rows
    <2> QED
      BY <2>1, GoAlone DEF FilesInv, Apart
  <1>3. ASSUME NEW y \in Videos \ spoiled'
        PROVE  Settled(y)'
    <2>1. FilesTypeOK /\ Settled(y)
      BY GoAlone DEF FilesInv
    <2>2. n.content = None /\ n.path = None /\ req[r].content = None
      BY <2>1 DEF IsRequest, FilesTypeOK
    <2>3. UNCHANGED <<disk, video>> /\ Rows' = Rows
      BY DEF libraryVars, Rows
    <2>4. \A s \in Requests :
              \/ req'[s] = req[s]
              \/ /\ req'[s].content # y /\ req[s].content # y
                 /\ req'[s].path \in Paths => disk[req'[s].path] # y
      BY <2>1, <2>2, GoAlone, NoneIsNone
    <2> QED
      BY <1>1, <2>1, <2>3, <2>4, Untouched
  <1> QED
    BY <1>1, <1>2, <1>3 DEF FilesInv

LEMMA PlaylistKeepsFiles ==
    ASSUME FilesInv, NEW r \in Requests, Playlist(r)
    PROVE  FilesInv'
  <1> USE DEF KeepFiles
  <1>0. IsRequest(req[r])
    BY DEF FilesInv, FilesTypeOK
  <1>1. ASSUME PutPlaylist(r)
        PROVE  FilesInv'
    <2> PICK mode, form : Go(r, [NoRequest EXCEPT !.pc = "saveList", !.mode = mode, !.list = form])
      BY <1>1 DEF PutPlaylist
    <2> DEFINE n == [NoRequest EXCEPT !.pc = "saveList", !.mode = mode, !.list = form]
    <2>1. IsRequest(n) /\ n.pc = "saveList"
      BY DEF NoRequest, IsRequest, FilePc, SavingPc, ListPc, FieldsPc
    <2>2. Go(r, n) /\ req[r].pc = "idle"
      BY <1>1 DEF PutPlaylist, Arrives
    <2> HIDE DEF n
    <2> QED
      BY <1>1, <2>1, <2>2, PlaylistGoes DEF PutPlaylist, FilePc
  <1>2. ASSUME SaveList(r)
        PROVE  FilesInv'
    <2> DEFINE n == [req[r] EXCEPT !.pc = "clear"]
    <2>1. req[r].pc = "saveList" /\ Go(r, n)
      BY <1>2 DEF SaveList, At
    <2>2. IsRequest(n) /\ n.pc = "clear"
      BY <1>0, <2>1 DEF IsRequest, FilePc, SavingPc, ListPc, FieldsPc
    <2> HIDE DEF n
    <2> QED
      BY <1>2, <2>1, <2>2, PlaylistGoes DEF SaveList, FilePc
  <1>3. ASSUME ClearItems(r)
        PROVE  FilesInv'
    <2> DEFINE n == [req[r] EXCEPT !.pc = IF req[r].list = <<>> THEN "result" ELSE "insert"]
    <2>1. req[r].pc = "clear" /\ Go(r, n)
      BY <1>3 DEF ClearItems, At
    <2>2. IsRequest(n) /\ n.pc \in {"result", "insert"}
      BY <1>0, <2>1 DEF IsRequest, FilePc, SavingPc, ListPc, FieldsPc
    <2> HIDE DEF n
    <2> QED
      BY <1>3, <2>1, <2>2, PlaylistGoes DEF ClearItems, FilePc
  <1>4. ASSUME InsertItem(r)
        PROVE  FilesInv'
    <2> DEFINE n == [req[r] EXCEPT !.done = @ + 1,
                                   !.pc = IF req[r].done + 1 = Len(req[r].list) THEN "result" ELSE "insert"]
    <2>1. req[r].pc = "insert" /\ (Go(r, n) \/ Go(r, NoRequest)) /\ UNCHANGED libraryVars
      BY <1>4 DEF InsertItem, At
    <2>2. IsRequest(n) /\ n.pc \in {"result", "insert"}
      BY <1>0, <2>1 DEF IsRequest, FilePc, SavingPc, ListPc, FieldsPc
    <2> HIDE DEF n
    <2>3. n.pc \notin FilePc /\ NoRequest.pc \notin FilePc /\ req[r].pc \notin FilePc
      BY <2>1, <2>2, NoRequestWorks DEF FilePc
    <2> QED
      BY <2>1, <2>2, <2>3, PlaylistGoes, NoRequestWorks
  <1>5. ASSUME SaveEnds(r) \/ FieldsEnd(r)
        PROVE  FilesInv'
    <2>1. req[r].pc \in {"result", "fieldsResult"} /\ Go(r, NoRequest) /\ UNCHANGED libraryVars
      BY <1>5 DEF SaveEnds, FieldsEnd, Answer, At
    <2>2. NoRequest.pc \notin FilePc /\ req[r].pc \notin FilePc
      BY <2>1, NoRequestWorks DEF FilePc
    <2> QED
      BY <2>1, <2>2, PlaylistGoes, NoRequestWorks
  <1>6. ASSUME PutFields(r)
        PROVE  FilesInv'
    <2> PICK mode : Go(r, [NoRequest EXCEPT !.pc = "saveFields", !.mode = mode])
      BY <1>6 DEF PutFields
    <2> DEFINE n == [NoRequest EXCEPT !.pc = "saveFields", !.mode = mode]
    <2>1. IsRequest(n) /\ n.pc = "saveFields"
      BY DEF NoRequest, IsRequest, FilePc, SavingPc, ListPc, FieldsPc
    <2>2. Go(r, n) /\ req[r].pc = "idle"
      BY <1>6 DEF PutFields, Arrives
    <2> HIDE DEF n
    <2> QED
      BY <1>6, <2>1, <2>2, PlaylistGoes DEF PutFields, FilePc
  <1>7. ASSUME SaveFields(r)
        PROVE  FilesInv'
    <2> DEFINE n == [req[r] EXCEPT !.pc = "fieldsResult"]
    <2>1. req[r].pc = "saveFields" /\ Go(r, n)
      BY <1>7 DEF SaveFields, At
    <2>2. IsRequest(n) /\ n.pc = "fieldsResult"
      BY <1>0, <2>1 DEF IsRequest, FilePc, SavingPc, ListPc, FieldsPc
    <2> HIDE DEF n
    <2> QED
      BY <1>7, <2>1, <2>2, PlaylistGoes DEF SaveFields, FilePc
  <1> QED
    BY <1>1, <1>2, <1>3, <1>4, <1>5, <1>6, <1>7 DEF Playlist

\* multer writes the file to a path that nothing refers to.
LEMMA UploadKeepsFiles ==
    ASSUME FilesInv, NEW r \in Requests, Upload(r)
    PROVE  FilesInv'
  <1> PICK p \in NewPath, x \in Videos :
        /\ \A q \in Paths : disk[q] # x
        /\ \A v \in Rows : video[v].holds # x
        /\ disk' = [disk EXCEPT ![p] = x]
        /\ Go(r, [NoRequest EXCEPT !.pc = "register", !.path = p, !.content = x])
    BY DEF Upload
  <1> DEFINE n == [NoRequest EXCEPT !.pc = "register", !.path = p, !.content = x]
  <1>0. /\ p \in Paths /\ disk[p] = None /\ \A v \in Rows : video[v].path # p
        /\ \A s \in Requests : req[s].path # p
    BY DEF NewPath
  <1>1. IsRequest(n) /\ n.pc = "register" /\ n.path = p /\ n.content = x
    BY <1>0, NoneIsNone DEF NoRequest, IsRequest, FilePc, SavingPc, ListPc, FieldsPc
  <1>2. Go(r, n)
    OBVIOUS
  <1> HIDE DEF n
  <1>3. /\ disk'[p] = x /\ \A q \in Paths \ {p} : disk'[q] = disk[q]
        /\ UNCHANGED video /\ Rows' = Rows /\ disk' \in [Paths -> Videos \cup {None}]
    BY <1>0 DEF Upload, FilesInv, FilesTypeOK, Rows
  <1>4. FilesTypeOK'
    BY <1>1, <1>2, <1>3, GoAlone DEF FilesInv, FilesTypeOK
  <1>5. Apart'
    <2>1. /\ \A q, u \in Paths : disk[q] = disk[u] /\ disk[q] # None => q = u
          /\ \A v, w \in Rows : video[v].path = video[w].path => v = w
      BY DEF FilesInv, Apart
    <2>2. \A q, u \in Paths : disk'[q] = disk'[u] /\ disk'[q] # None => q = u
      BY <1>3, <2>1
    <2> QED
      BY <1>1, <1>2, <1>3, <2>1, <2>2, GoAlone DEF FilesInv, Apart
  <1>6. req[r].pc = "idle" /\ req[r].content = None /\ FilesTypeOK
    BY DEF Upload, Arrives, FilesInv, FilesTypeOK, IsRequest, FilePc
  <1>7. /\ req'[r] = n /\ \A s \in Requests \ {r} : req'[s] = req[s]
        /\ spoiled \subseteq spoiled'
    BY <1>1, <1>2, <1>6, GoAlone
  <1>8. ASSUME NEW y \in Videos \ spoiled'
        PROVE  Settled(y)'
    <2>1. CASE y # x
      <3>1. Settled(y) /\ disk[p] # y
        BY <1>0, <1>7, NoneIsNone DEF FilesInv
      <3>2. \A q \in Paths : disk'[q] = y <=> disk[q] = y
        BY <1>3, <2>1, <3>1
      <3>3. \A s \in Requests :
              \/ req'[s] = req[s]
              \/ /\ req'[s].content # y /\ req[s].content # y
                 /\ req'[s].path \in Paths => disk[req'[s].path] # y
        BY <1>1, <1>6, <1>7, <2>1, <3>1, NoneIsNone
      <3> QED
        BY <1>3, <1>4, <1>6, <3>1, <3>2, <3>3, Untouched
    <2>2. CASE y = x
      <3>1. \A s \in Requests : req'[s].content = x => s = r
        BY <1>1, <1>5, <1>7, <1>8, <2>2, NoneIsNone DEF Apart
      <3>2. \A q \in Paths : disk'[q] = x => q = p
        BY <1>3
      <3>3. \A v \in Rows' : video'[v].path # p /\ video'[v].holds # x
        BY <1>0, <1>3
      <3>4. \A s \in Requests : req'[s].path = p => req'[s].content = x
        BY <1>0, <1>1, <1>7
      <3>5. Underway(req[r])'
        BY <1>1, <1>3, <1>7, <3>3 DEF Underway
      <3> QED
        BY <1>1, <1>7, <2>2, <3>1, <3>2, <3>3, <3>4, <3>5 DEF Settled
    <2> QED
      BY <2>1, <2>2
  <1> QED
    BY <1>4, <1>5, <1>8 DEF FilesInv

\* A request that finds a file and goes on with it: nobody else works on the content,
\* unless it is spoiled.
LEMMA TakesUp ==
    ASSUME FilesInv, NEW r \in Requests, NEW n, Go(r, n), IsRequest(n),
           req[r].pc = "idle", UNCHANGED libraryVars, n.pc \in FilePc,
           \A y \in Videos \ spoiled : y # n.content => disk[n.path] # y,
           n.content \notin spoiled /\ (\A s \in Requests : req[s].content # n.content) =>
              /\ disk[n.path] = n.content
              /\ \A v \in Rows : video[v].holds = n.content => n.pc # "register" /\ v = n.video
    PROVE  FilesInv'
  <1>1. FilesTypeOK' /\ UNCHANGED <<disk, video>> /\ Rows' = Rows /\ FilesTypeOK
    BY GoAlone DEF FilesInv, FilesTypeOK, libraryVars, Rows
  <1>2. Apart'
    <2>1. /\ \A p, q \in Paths : disk[p] = disk[q] /\ disk[p] # None => p = q
          /\ \A v, w \in Rows : video[v].path = video[w].path => v = w
      BY DEF FilesInv, Apart
    <2> QED
      BY <1>1, <2>1, GoAlone DEF Apart
  <1>3. req'[r] = n /\ (\A s \in Requests \ {r} : req'[s] = req[s]) /\ spoiled \subseteq spoiled'
    BY <1>1, GoAlone
  <1>4. n.path \in Paths /\ n.content \in Videos /\ req[r].content = None
    BY <1>1 DEF IsRequest, FilesTypeOK, FilePc
  <1>5. ASSUME NEW y \in Videos \ spoiled'
        PROVE  Settled(y)'
    <2>0. Settled(y) /\ y \notin spoiled
      BY <1>3 DEF FilesInv
    <2>1. CASE y # n.content
      <3>1. disk[n.path] # y
        BY <1>4, <2>0, <2>1
      <3>2. \A s \in Requests :
              \/ req'[s] = req[s]
              \/ /\ req'[s].content # y /\ req[s].content # y
                 /\ req'[s].path \in Paths => disk[req'[s].path] # y
        BY <1>3, <1>4, <2>1, <3>1, NoneIsNone
      <3> QED
        BY <1>1, <2>0, <3>2, Untouched
    <2>2. CASE y = n.content
      <3>1. \A s \in Requests : req'[s].content = y => s = r
        BY <1>2, <1>3, <1>5, <2>2, NoneIsNone DEF Apart
      <3>2. \A s \in Requests : req[s].content # y
        BY <1>3, <1>4, <3>1, NoneIsNone
      <3>3. disk[n.path] = y /\ \A v \in Rows : video[v].holds = y => n.pc # "register" /\ v = n.video
        BY <2>0, <2>2, <3>2
      <3>4. Underway(req[r])'
        BY <1>1, <1>3, <2>2, <3>3 DEF Underway
      <3>5. ASSUME NEW q \in Paths, disk'[q] = y
            PROVE  /\ \A v \in Rows' : video'[v].path = q => video'[v].holds = y
                   /\ \A s \in Requests : req'[s].path = q => req'[s].content = y
        <4>1. disk[q] = y
          BY <1>1, <3>5
        <4>2. /\ \A v \in Rows : video[v].path = q => video[v].holds = y
              /\ \A s \in Requests : req[s].path = q => req[s].content = y
          BY <2>0, <4>1 DEF Settled
        <4> QED
          BY <1>1, <1>3, <2>2, <4>2
      <3>6. \A s \in Requests : req'[s].content = y => Underway(req[s])'
        BY <1>3, <3>1, <3>4
      <3> QED
        BY <1>3, <2>2, <3>5, <3>6 DEF Settled
    <2> QED
      BY <2>1, <2>2
  <1> QED
    BY <1>1, <1>2, <1>5 DEF FilesInv

LEMMA ImportKeepsFiles ==
    ASSUME FilesInv, NEW r \in Requests, ImportServerFile(r)
    PROVE  FilesInv'
  <1> PICK p \in Paths :
        /\ disk[p] # None
        /\ \A v \in Rows : video[v].path # p
        /\ Go(r, [NoRequest EXCEPT !.pc = "register", !.path = p, !.content = disk[p]])
    BY DEF ImportServerFile
  <1> DEFINE n == [NoRequest EXCEPT !.pc = "register", !.path = p, !.content = disk[p]]
  <1>0. disk[p] \in Videos
    BY DEF FilesInv, FilesTypeOK
  <1>1. IsRequest(n) /\ n.pc = "register" /\ n.path = p /\ n.content = disk[p]
    BY <1>0, NoneIsNone DEF NoRequest, IsRequest, FilePc, SavingPc, ListPc, FieldsPc
  <1>2. Go(r, n) /\ req[r].pc = "idle" /\ UNCHANGED libraryVars
    BY DEF ImportServerFile, Arrives
  <1> HIDE DEF n
  <1>3. ASSUME NEW v \in Rows, video[v].holds = n.content, n.content \notin spoiled,
               \A s \in Requests : req[s].content # n.content
        PROVE  FALSE
    <2>1. disk[video[v].path] = disk[p]
      BY <1>0, <1>1, <1>3 DEF FilesInv, Settled
    <2>2. video[v].path = p
      BY <2>1, RowTypes DEF FilesInv, Apart
    <2> QED
      BY <2>2
  <1>4. n.pc \in FilePc
    BY <1>1 DEF FilePc
  <1> QED
    BY <1>1, <1>2, <1>3, <1>4, TakesUp

LEMMA FindKeepsFiles ==
    ASSUME FilesInv, NEW r \in Requests, FindVideo(r)
    PROVE  FilesInv'
  <1> PICK v \in Rows, pc \in {"move", "saveVideo", "unlink", "removeVideo"} :
        Go(r, [NoRequest EXCEPT !.pc = pc, !.video = v, !.path = video[v].path,
                                !.content = video[v].holds])
    BY DEF FindVideo
  <1> DEFINE n == [NoRequest EXCEPT !.pc = pc, !.video = v, !.path = video[v].path,
                                    !.content = video[v].holds]
             p == video[v].path
             x == video[v].holds
  <1>0. p \in Paths /\ x \in Videos /\ v \in Videos
    BY RowTypes DEF FilesInv
  <1>1. IsRequest(n) /\ n.pc \in FilePc \ {"register"} /\ n.path = p /\ n.content = x /\ n.video = v
    BY <1>0 DEF NoRequest, IsRequest, FilePc, SavingPc, ListPc, FieldsPc
  <1>2. Go(r, n) /\ req[r].pc = "idle" /\ UNCHANGED libraryVars
    BY DEF FindVideo, Arrives
  <1> HIDE DEF n
  <1>3. ASSUME NEW y \in Videos \ spoiled, disk[p] = y
        PROVE  y = x
    BY <1>0, <1>3 DEF FilesInv, Settled
  <1>4. ASSUME x \notin spoiled, \A s \in Requests : req[s].content # x
        PROVE  disk[p] = x /\ \A w \in Rows : video[w].holds = x => w = v
    <2>1. \A w \in Rows : video[w].holds = x => disk[video[w].path] = x
      BY <1>0, <1>4 DEF FilesInv, Settled
    <2>2. ASSUME NEW w \in Rows, video[w].holds = x
          PROVE  w = v
      <3>1. disk[video[w].path] = disk[p] /\ disk[p] = x
        BY <2>1, <2>2
      <3>2. video[w].path = p
        BY <1>0, <3>1, NoneIsNone, RowTypes DEF FilesInv, Apart
      <3> QED
        BY <3>2 DEF FilesInv, Apart
    <2> QED
      BY <2>1, <2>2
  <1>5. n.pc \in FilePc /\ n.pc # "register"
    BY <1>1
  <1> QED
    BY <1>1, <1>2, <1>3, <1>4, <1>5, TakesUp

\* A request ends; if it has written a row, then with the path and the content it had.
LEMMA RequestEnds ==
    ASSUME FilesInv, NEW r \in Requests, req[r].pc \in FilePc, Go(r, NoRequest), UNCHANGED disk,
           video' \in [Videos -> [path : Paths, holds : Videos] \cup {None}],
           \A v, w \in Rows' : video'[v].path = video'[w].path => v = w,
           \A v \in Rows' :
              \/ v \in Rows /\ video'[v] = video[v]
              \/ video'[v] = [path |-> req[r].path, holds |-> req[r].content],
           req[r].content \notin spoiled /\ Underway(req[r]) =>
              \A v \in Rows' : video'[v].holds = req[r].content => disk[video'[v].path] = req[r].content
    PROVE  FilesInv'
  <1> DEFINE x == req[r].content
             p == req[r].path
  <1>0. FilesTypeOK /\ Apart /\ x \in Videos /\ p \in Paths
    BY DEF FilesInv, FilesTypeOK, IsRequest
  <1>1. FilesTypeOK'
    BY GoAlone, NoRequestWorks DEF FilesInv, FilesTypeOK
  <1>2. Apart'
    BY <1>0, GoAlone, NoRequestWorks DEF Apart
  <1>3. /\ req'[r].content = None /\ req'[r].path = None
        /\ \A s \in Requests \ {r} : req'[s] = req[s]
        /\ spoiled \subseteq spoiled'
    BY <1>0, GoAlone, NoRequestWorks
  <1>4. ASSUME NEW y \in Videos \ spoiled'
        PROVE  Settled(y)'
    <2>0. Settled(y) /\ y \notin spoiled
      BY <1>3 DEF FilesInv
    <2>1. CASE y # x
      <3>1. disk[p] # y
        BY <1>0, <2>0, <2>1 DEF Settled
      <3>2. \A v \in Rows' :
              \/ v \in Rows /\ video'[v] = video[v]
              \/ video'[v].holds # y /\ disk[video'[v].path] # y
        BY <2>1, <3>1
      <3>3. \A s \in Requests :
              \/ req'[s] = req[s]
              \/ /\ req'[s].content # y /\ req[s].content # y
                 /\ req'[s].path \in Paths => disk[req'[s].path] # y
        BY <1>3, <2>1, NoneIsNone
      <3> QED
        BY <1>0, <1>1, <2>0, <3>2, <3>3, Untouched
    <2>2. CASE y = x
      <3>1. \A s \in Requests : req'[s].content # y
        BY <1>0, <1>3, <2>0, <2>2, NoneIsNone DEF Apart
      <3>2. Underway(req[r])
        BY <2>0, <2>2 DEF Settled
      <3>3. \A v \in Rows' : video'[v].holds = y => disk'[video'[v].path] = y
        BY <2>0, <2>2, <3>2
      <3>4. ASSUME NEW q \in Paths, disk[q] = y
            PROVE  /\ \A v \in Rows' : video'[v].path = q => video'[v].holds = y
                   /\ \A s \in Requests : req'[s].path = q => req'[s].content = y
        <4>1. /\ \A v \in Rows : video[v].path = q => video[v].holds = y
              /\ \A s \in Requests : req[s].path = q => req[s].content = y
          BY <2>0, <3>4 DEF Settled
        <4>2. ASSUME NEW v \in Rows', video'[v].path = q
              PROVE  video'[v].holds = y
          BY <2>2, <4>1, <4>2
        <4>3. ASSUME NEW s \in Requests, req'[s].path = q
              PROVE  req'[s].content = y
          BY <1>3, <4>1, <4>3, NoneIsNone
        <4> QED
          BY <4>2, <4>3
      <3> QED
        BY <3>1, <3>3, <3>4 DEF Settled
    <2> QED
      BY <2>1, <2>2
  <1> QED
    BY <1>1, <1>2, <1>4 DEF FilesInv

LEMMA RegisterKeepsFiles ==
    ASSUME FilesInv, NEW r \in Requests, Register(r)
    PROVE  FilesInv'
  <1> DEFINE x == req[r].content
             p == req[r].path
  <1>0. /\ FilesTypeOK /\ req[r].pc \in FilePc /\ req[r].pc = "register" /\ Go(r, NoRequest)
        /\ UNCHANGED disk /\ p \in Paths /\ x \in Videos
    BY DEF FilesInv, FilesTypeOK, IsRequest, Register, At, FilePc
  <1>1. CASE UNCHANGED video
    <2>1. Rows' = Rows
      BY <1>1 DEF Rows
    <2>2. /\ video' \in [Videos -> [path : Paths, holds : Videos] \cup {None}]
          /\ \A v, w \in Rows' : video'[v].path = video'[w].path => v = w
      BY <1>1, <2>1 DEF FilesInv, FilesTypeOK, Apart
    <2>3. Underway(req[r]) => \A v \in Rows' : video'[v].holds # req[r].content
      BY <1>0, <1>1, <2>1 DEF Underway
    <2> QED
      BY <1>0, <1>1, <2>1, <2>2, <2>3, RequestEnds
  <1>2. ASSUME \A v \in Rows : video[v].path # p,
               NEW v \in Videos \ Rows, video' = [video EXCEPT ![v] = [path |-> p, holds |-> x]]
        PROVE  FilesInv'
    <2>1. /\ video'[v] = [path |-> p, holds |-> x]
          /\ \A w \in Videos \ {v} : video'[w] = video[w]
          /\ video' \in [Videos -> [path : Paths, holds : Videos] \cup {None}]
      BY <1>0, <1>2 DEF FilesTypeOK
    <2>2. Rows' \subseteq Rows \cup {v} /\ \A w \in Rows' \ {v} : w \in Rows /\ video'[w] = video[w]
      BY <2>1 DEF Rows
    <2>3. video'[v].path = p /\ video'[v].holds = x
      BY <2>1
    <2>4. \A w, u \in Rows' : video'[w].path = video'[u].path => w = u
      BY <1>2, <2>2, <2>3 DEF FilesInv, Apart
    <2>5. Underway(req[r]) =>
             \A w \in Rows' : video'[w].holds = req[r].content => disk[video'[w].path] = req[r].content
      BY <1>0, <2>2, <2>3 DEF Underway
    <2> QED
      BY <1>0, <2>1, <2>2, <2>4, <2>5, RequestEnds
  <1> QED
    BY <1>1, <1>2 DEF Register

LEMMA SaveKeepsFiles ==
    ASSUME FilesInv, NEW r \in Requests, SaveVideo(r)
    PROVE  FilesInv'
  <1> DEFINE x == req[r].content
             p == req[r].path
             v == req[r].video
  <1>0. /\ FilesTypeOK /\ req[r].pc \in FilePc /\ req[r].pc = "saveVideo" /\ Go(r, NoRequest)
        /\ UNCHANGED disk /\ p \in Paths /\ x \in Videos /\ v \in Videos
    BY DEF FilesInv, FilesTypeOK, IsRequest, SaveVideo, At, FilePc
  <1>1. ASSUME NEW w \in Rows \ {v}, video[w].path = p, UNCHANGED video
        PROVE  FilesInv'
    <2>1. Rows' = Rows
      BY <1>1 DEF Rows
    <2>2. /\ video' \in [Videos -> [path : Paths, holds : Videos] \cup {None}]
          /\ \A u, t \in Rows' : video'[u].path = video'[t].path => u = t
      BY <1>1, <2>1 DEF FilesInv, FilesTypeOK, Apart
    <2>3. ~(req[r].content \notin spoiled /\ Underway(req[r]))
      <3> SUFFICES ASSUME x \notin spoiled, Underway(req[r]) PROVE FALSE
        OBVIOUS
      <3>1. disk[p] = x
        BY <1>0 DEF Underway
      <3>2. video[w].holds = x
        BY <1>0, <1>1, <3>1 DEF FilesInv, Settled
      <3> QED
        BY <3>2 DEF Underway
    <2> QED
      BY <1>0, <1>1, <2>1, <2>2, <2>3, RequestEnds
  <1>2. ASSUME \A w \in Rows \ {v} : video[w].path # p,
               video' = [video EXCEPT ![v] = [path |-> p, holds |-> x]]
        PROVE  FilesInv'
    <2>1. /\ video'[v] = [path |-> p, holds |-> x]
          /\ \A w \in Videos \ {v} : video'[w] = video[w]
          /\ video' \in [Videos -> [path : Paths, holds : Videos] \cup {None}]
      BY <1>0, <1>2 DEF FilesTypeOK
    <2>2. \A w \in Rows' \ {v} : w \in Rows /\ video'[w] = video[w]
      BY <2>1 DEF Rows
    <2>3. video'[v].path = p /\ video'[v].holds = x
      BY <2>1
    <2>4. \A w, u \in Rows' : video'[w].path = video'[u].path => w = u
      BY <1>2, <2>2, <2>3 DEF FilesInv, Apart
    <2>5. Underway(req[r]) =>
             \A w \in Rows' : video'[w].holds = req[r].content => disk[video'[w].path] = req[r].content
      BY <1>0, <2>2, <2>3 DEF Underway
    <2> QED
      BY <1>0, <2>1, <2>2, <2>4, <2>5, RequestEnds
  <1> QED
    BY <1>1, <1>2 DEF SaveVideo

LEMMA RemoveKeepsFiles ==
    ASSUME FilesInv, NEW r \in Requests, RemoveVideo(r)
    PROVE  FilesInv'
  <1> DEFINE v == req[r].video
  <1>0. /\ FilesTypeOK /\ req[r].pc \in FilePc /\ req[r].pc = "removeVideo" /\ Go(r, NoRequest)
        /\ UNCHANGED disk /\ v \in Videos /\ video' = [video EXCEPT ![v] = None]
    BY DEF FilesInv, FilesTypeOK, IsRequest, RemoveVideo, At, FilePc
  <1>1. /\ video' \in [Videos -> [path : Paths, holds : Videos] \cup {None}]
        /\ Rows' = Rows \ {v} /\ \A w \in Rows' : video'[w] = video[w]
    BY <1>0 DEF FilesTypeOK, Rows
  <1>2. \A u, t \in Rows' : video'[u].path = video'[t].path => u = t
    BY <1>1 DEF FilesInv, Apart
  <1>3. Underway(req[r]) => \A w \in Rows' : video'[w].holds # req[r].content
    BY <1>1 DEF Underway
  <1> QED
    BY <1>0, <1>1, <1>2, <1>3, RequestEnds

\* remove() takes the file away, and the row is next.
LEMMA UnlinkKeepsFiles ==
    ASSUME FilesInv, NEW r \in Requests, Unlink(r)
    PROVE  FilesInv'
  <1> DEFINE x == req[r].content
             p == req[r].path
             n == [req[r] EXCEPT !.pc = "removeVideo"]
  <1>0. /\ FilesTypeOK /\ Apart /\ IsRequest(req[r]) /\ req[r].pc = "unlink"
        /\ p \in Paths /\ x \in Videos /\ req[r].video \in Videos
    BY DEF FilesInv, FilesTypeOK, IsRequest, Unlink, At, FilePc
  <1>1. /\ disk' = [disk EXCEPT ![p] = None] /\ UNCHANGED video /\ Rows' = Rows
        /\ req' = [req EXCEPT ![r] = n]
        /\ spoiled' = spoiled \cup ({disk[p]} \ {x, None})
    BY <1>0 DEF Unlink, FilesTypeOK, Rows
  <1>2. IsRequest(n) /\ n.pc = "removeVideo" /\ n.content = x /\ n.path = p /\ n.video = req[r].video
    BY <1>0 DEF IsRequest, FilePc, SavingPc, ListPc, FieldsPc
  <1> HIDE DEF n
  <1>3. /\ disk'[p] = None /\ \A q \in Paths \ {p} : disk'[q] = disk[q]
        /\ disk' \in [Paths -> Videos \cup {None}]
        /\ req'[r] = n /\ \A s \in Requests \ {r} : req'[s] = req[s]
        /\ DOMAIN req' = Requests /\ req' = [s \in Requests |-> req'[s]]
    BY <1>0, <1>1 DEF FilesTypeOK
  <1>4. FilesTypeOK'
    BY <1>0, <1>1, <1>2, <1>3 DEF FilesTypeOK
  <1>5. Apart'
    <2>1. \A q, u \in Paths : disk'[q] = disk'[u] /\ disk'[q] # None => q = u
      BY <1>0, <1>3 DEF Apart
    <2>2. \A s \in Requests : req'[s].content = req[s].content
      BY <1>2, <1>3
    <2> QED
      BY <1>0, <1>1, <2>1, <2>2 DEF Apart
  <1>6. ASSUME NEW y \in Videos \ spoiled'
        PROVE  Settled(y)'
    <2>0. Settled(y) /\ y \notin spoiled
      BY <1>1 DEF FilesInv
    <2>1. CASE y # x
      <3>1. disk[p] # y
        BY <1>1, <1>6, <2>1, NoneIsNone
      <3>2. \A q \in Paths : disk'[q] = y <=> disk[q] = y
        BY <1>3, <3>1, NoneIsNone
      <3>3. \A s \in Requests :
              \/ req'[s] = req[s]
              \/ /\ req'[s].content # y /\ req[s].content # y
                 /\ req'[s].path \in Paths => disk[req'[s].path] # y
        BY <1>2, <1>3, <2>1, <3>1
      <3> QED
        BY <1>0, <1>1, <1>4, <2>0, <3>2, <3>3, Untouched
    <2>2. CASE y = x
      <3>1. \A s \in Requests : req'[s].content = y => s = r
        BY <1>0, <1>3, <2>0, <2>2, NoneIsNone DEF Apart
      <3>2. Underway(req[r])
        BY <2>0, <2>2 DEF Settled
      <3>3. Underway(req[r])'
        BY <1>1, <1>2, <1>3, <3>2 DEF Underway
      <3>4. ASSUME NEW q \in Paths, disk'[q] = y
            PROVE  /\ \A v \in Rows' : video'[v].path = q => video'[v].holds = y
                   /\ \A s \in Requests : req'[s].path = q => req'[s].content = y
        <4>1. disk[q] = y
          BY <1>3, <3>4, NoneIsNone
        <4>2. /\ \A v \in Rows : video[v].path = q => video[v].holds = y
              /\ \A s \in Requests : req[s].path = q => req[s].content = y
          BY <2>0, <4>1 DEF Settled
        <4> QED
          BY <1>1, <1>2, <1>3, <4>2
      <3>5. \A s \in Requests : req'[s].content = y => Underway(req[s])'
        BY <3>1, <3>3
      <3>6. req'[r].content = y
        BY <1>2, <1>3, <2>2
      <3> QED
        BY <3>4, <3>5, <3>6 DEF Settled
    <2> QED
      BY <2>1, <2>2
  <1> QED
    BY <1>4, <1>5, <1>6 DEF FilesInv

\* rename() moves the file, and the row is next.  What it runs over is spoiled.
LEMMA MoveKeepsFiles ==
    ASSUME FilesInv, NEW r \in Requests, Move(r)
    PROVE  FilesInv'
  <1> DEFINE x == req[r].content
             from == req[r].path
  <1>0. /\ FilesTypeOK /\ Apart /\ IsRequest(req[r]) /\ req[r].pc = "move"
        /\ from \in Paths /\ x \in Videos /\ req[r].video \in Videos /\ req[r].pc \in FilePc
    BY DEF FilesInv, FilesTypeOK, IsRequest, Move, At, FilePc
  <1>1. UNCHANGED video /\ Rows' = Rows
    BY DEF Move, Rows
  <1>2. ASSUME disk[from] = None, Go(r, NoRequest), UNCHANGED disk
        PROVE  FilesInv'
    <2>1. /\ video' \in [Videos -> [path : Paths, holds : Videos] \cup {None}]
          /\ \A u, t \in Rows' : video'[u].path = video'[t].path => u = t
      BY <1>0, <1>1 DEF FilesTypeOK, Apart
    <2>2. ~Underway(req[r])
      BY <1>0, <1>2, NoneIsNone DEF Underway
    <2> QED
      BY <1>0, <1>1, <1>2, <2>1, <2>2, RequestEnds
  <1>3. ASSUME NEW p \in Paths \ {from}, disk[from] # None,
               disk' = [disk EXCEPT ![p] = disk[from], ![from] = None],
               req' = [req EXCEPT ![r] = Moved(req[r], p)],
               spoiled' = spoiled
                         \cup (IF disk[from] = x THEN {} ELSE {disk[from], x})
                         \cup (IF p \in NewPath THEN {}
                               ELSE {disk[p], disk[from]}
                                    \cup {video[v].holds : v \in {w \in Rows : video[w].path = p}})
        PROVE  FilesInv'
    <2> DEFINE n == Moved(req[r], p)
    <2>1. IsRequest(n) /\ n.pc = "saveVideo" /\ n.content = x /\ n.path = p /\ n.video = req[r].video
      BY <1>0, <1>3 DEF IsRequest, FilePc, SavingPc, ListPc, FieldsPc, Moved
    <2> HIDE DEF n
    <2>2. /\ disk'[from] = None /\ disk'[p] = disk[from]
          /\ \A q \in Paths \ {p, from} : disk'[q] = disk[q]
          /\ disk' \in [Paths -> Videos \cup {None}]
      BY <1>0, <1>3 DEF FilesTypeOK
    <2>3. /\ req'[r] = n /\ \A s \in Requests \ {r} : req'[s] = req[s]
          /\ DOMAIN req' = Requests /\ req' = [s \in Requests |-> req'[s]]
      BY <1>0, <1>3 DEF FilesTypeOK, n
    <2>4. FilesTypeOK'
      BY <1>0, <1>1, <2>1, <2>2, <2>3 DEF FilesTypeOK
    <2>5. Apart'
      <3>1. \A q, u \in Paths : disk'[q] = disk'[u] /\ disk'[q] # None => q = u
        BY <1>0, <1>3, <2>2 DEF Apart
      <3>2. \A s \in Requests : req'[s].content = req[s].content
        BY <2>1, <2>3
      <3>3. spoiled \subseteq spoiled'
        BY <1>3
      <3> QED
        BY <1>0, <1>1, <3>1, <3>2, <3>3 DEF Apart
    <2>6. ASSUME NEW y \in Videos \ spoiled'
          PROVE  /\ y \notin spoiled
                 /\ y = x \/ y = disk[from] => disk[from] = x
                 /\ y = disk[from] => p \in NewPath
                 /\ disk[p] # y
      BY <1>3, <2>6, NoneIsNone DEF NewPath
    <2>7. ASSUME NEW y \in Videos \ spoiled'
          PROVE  Settled(y)'
      <3>0. Settled(y) /\ y \notin spoiled /\ disk[p] # y
        BY <2>6, <2>7 DEF FilesInv
      <3>1. CASE y # x
        <4>1. disk[from] # y
          BY <2>6, <2>7, <3>1
        <4>2. \A q \in Paths : disk'[q] = y <=> disk[q] = y
          BY <2>2, <3>0, <4>1, NoneIsNone
        <4>3. \A s \in Requests :
                \/ req'[s] = req[s]
                \/ /\ req'[s].content # y /\ req[s].content # y
                   /\ req'[s].path \in Paths => disk[req'[s].path] # y
          BY <2>1, <2>3, <3>0, <3>1
        <4> QED
          BY <1>0, <1>1, <2>4, <3>0, <4>2, <4>3, Untouched
      <3>2. CASE y = x
        <4>1. disk[from] = y /\ p \in NewPath
          BY <2>6, <2>7, <3>2
        <4>2. /\ \A v \in Rows : video[v].path # p
              /\ \A s \in Requests : req[s].path # p
          BY <4>1 DEF NewPath
        <4>3. \A q \in Paths : disk'[q] = y => q = p
          BY <1>0, <2>2, <4>1, NoneIsNone DEF Apart
        <4>4. \A s \in Requests : req'[s].content = y => s = r
          BY <1>0, <2>3, <3>0, <3>2, NoneIsNone DEF Apart
        <4>5. Underway(req[r])
          BY <3>0, <3>2 DEF Settled
        <4>6. Underway(req[r])'
          BY <1>0, <1>1, <2>1, <2>2, <2>3, <3>2, <4>1, <4>5 DEF Underway
        <4>7. ASSUME NEW q \in Paths, disk'[q] = y
              PROVE  /\ \A v \in Rows' : video'[v].path = q => video'[v].holds = y
                     /\ \A s \in Requests : req'[s].path = q => req'[s].content = y
          BY <1>1, <2>1, <2>3, <3>2, <4>2, <4>3, <4>7
        <4>8. \A s \in Requests : req'[s].content = y => Underway(req[s])'
          BY <4>4, <4>6
        <4>9. req'[r].content = y
          BY <2>1, <2>3, <3>2
        <4> QED
          BY <4>7, <4>8, <4>9 DEF Settled
      <3> QED
        BY <3>1, <3>2
    <2> QED
      BY <2>4, <2>5, <2>7 DEF FilesInv
  <1> QED
    BY <1>2, <1>3 DEF Move

LEMMA CrashKeepsFiles ==
    ASSUME FilesInv, ApiCrashes
    PROVE  FilesInv'
  <1>1. /\ UNCHANGED <<disk, video>> /\ Rows' = Rows
        /\ req' = [r \in Requests |-> NoRequest]
        /\ spoiled' = spoiled \cup ({req[r].content : r \in Requests} \ {None})
    BY DEF ApiCrashes, libraryVars, Rows
  <1>2. FilesTypeOK' /\ FilesTypeOK /\ Apart
    BY <1>1, NoRequestWorks DEF FilesInv, FilesTypeOK
  <1>3. Apart'
    BY <1>1, <1>2, NoRequestWorks DEF Apart
  <1>4. ASSUME NEW y \in Videos \ spoiled'
        PROVE  Settled(y)'
    <2>1. Settled(y) /\ \A s \in Requests : req[s].content # y
      BY <1>1, <1>4, NoneIsNone DEF FilesInv
    <2>2. \A s \in Requests :
              /\ req'[s].content # y /\ req[s].content # y
              /\ req'[s].path \in Paths => disk[req'[s].path] # y
      BY <1>1, <2>1, NoRequestWorks, NoneIsNone
    <2> QED
      BY <1>1, <1>2, <2>1, <2>2, Untouched
  <1> QED
    BY <1>2, <1>3, <1>4 DEF FilesInv

LEMMA OthersKeepFiles ==
    ASSUME FilesInv, UNCHANGED <<disk, video, req, spoiled>>
    PROVE  FilesInv'
  <1>1. Rows' = Rows
    BY DEF Rows
  <1>2. FilesTypeOK' /\ Apart'
    BY <1>1 DEF FilesInv, FilesTypeOK, Apart
  <1>3. ASSUME NEW y \in Videos \ spoiled'
        PROVE  Settled(y)'
    <2>1. FilesTypeOK /\ Settled(y)
      BY DEF FilesInv
    <2> QED
      BY <1>1, <1>2, <2>1, Untouched
  <1> QED
    BY <1>2, <1>3 DEF FilesInv

\* The inductive invariant: the place of each content that is not spoiled, and the one
\* request that works on it.
THEOREM FilesInvHolds == Spec => []FilesInv
  <1>1. Init => FilesInv
    <2> SUFFICES ASSUME Init PROVE FilesInv
      OBVIOUS
    <2>1. Rows = {} /\ \A p \in Paths : disk[p] = None
      BY DEF Init, Rows
    <2>2. FilesTypeOK
      BY NoRequestWorks DEF Init, FilesTypeOK
    <2>3. \A r \in Requests : req[r].content = None
      BY NoRequestWorks DEF Init
    <2> QED
      BY <2>1, <2>2, <2>3, NoneIsNone DEF FilesInv, Apart, Settled
  <1>2. FilesInv /\ [Next]_vars => FilesInv'
    <2> SUFFICES ASSUME FilesInv, [Next]_vars PROVE FilesInv'
      OBVIOUS
    <2>1. ASSUME NEW r \in Requests, Library(r)
          PROVE  FilesInv'
      BY <2>1, UploadKeepsFiles, ImportKeepsFiles, RegisterKeepsFiles, FindKeepsFiles,
         MoveKeepsFiles, SaveKeepsFiles, UnlinkKeepsFiles, RemoveKeepsFiles DEF Library
    <2>2. ASSUME NEW c \in Channels, Stream(c)
          PROVE  UNCHANGED <<disk, video, req, spoiled>>
      BY <2>2 DEF Stream, StartPressed, WriteConcat, Started, TakeRestart, Ended, KeepRest, libraryVars
    <2>3. RemovePlaylist \/ UNCHANGED vars => UNCHANGED <<disk, video, req, spoiled>>
      BY DEF RemovePlaylist, KeepFiles, libraryVars, vars, historyVars
    <2> QED
      BY <2>1, <2>2, <2>3, PlaylistKeepsFiles, CrashKeepsFiles, OthersKeepFiles DEF Next
  <1> QED
    BY <1>1, <1>2, PTL DEF Spec

\* Every row of the library leads to the file that was registered with it, whatever
\* rename(), remove(), uploads and imports do in between, at every await of theirs: only
\* contents that two requests work on, that a rename runs over or that the API dies on
\* are lost sight of.
THEOREM RowsLeadToFiles == Spec => []FilesBacked
  <1>1. FilesInv => FilesBacked
    <2> SUFFICES ASSUME FilesInv, NEW v \in Rows, video[v].holds \notin spoiled,
                        \A r \in Requests : req[r].content # video[v].holds
                 PROVE  disk[video[v].path] = video[v].holds
      BY DEF FilesBacked
    <2>1. video[v].holds \in Videos
      BY RowTypes DEF FilesInv
    <2> QED
      BY <2>1 DEF FilesInv, Settled
  <1> QED
    BY <1>1, FilesInvHolds, PTL

-----------------------------------------------------------------------------
(***************************************************************************)
(* The items of the playlist.  A save that is alone since it has cleared   *)
(* the items has inserted the first `done' of its list, videos deleted     *)
(* since apart; when it ends, these are all.  What sorts the list that was *)
(* saved sorts the items too, because the positions stay.                  *)
(***************************************************************************)
PlaylistItem == [src : Videos \cup {"url", "gone"}, pos : Nat]

\* A list that the positions in it put in an order.
Sortable(list) == list \in Seq(PlaylistItem) /\ Sortings(list) # {}

\* What is left of the beginning of a list.
Begins(rows, list) ==
    /\ Len(rows) <= Len(list)
    /\ \A k \in 1..Len(rows) :
          rows[k].pos = list[k].pos /\ rows[k].src \in {list[k].src, "gone"}

\* How far a save is with its list, of which the rows are what it has inserted.
SaveFits(q, rows, rent) ==
    q.pc \in ListPc =>
        /\ Sortable(q.list) /\ q.done \in Nat
        /\ q.pc \in {"saveList", "clear"} => q.done = 0
        /\ q.pc = "insert" => q.done < Len(q.list)
        /\ q.pc = "result" => q.done = Len(q.list)
        /\ q.pc \in {"insert", "result"} /\ ~rent => Len(rows) = q.done /\ Begins(rows, q.list)

\* The items are what is left of a whole list, the one that was asked for.
AllThere == \E list : /\ Sortable(list) /\ asked = ByPosition(list)
                      /\ Len(items) = Len(list) /\ Begins(items, list)

\* Every save fits the items until they are torn, and it is the only one; without one
\* they are all there.
ItemsInv ==
    /\ items \in Seq(PlaylistItem) /\ torn \in BOOLEAN
    /\ \A r \in Requests : SaveFits(req[r], items, torn)
    /\ ~torn => \A r, s \in Requests : req[r].pc \in ListPc /\ req[s].pc \in ListPc => r = s
    /\ ~torn /\ ~Listing => AllThere

\* The positions alone decide how a list is sorted.
LEMMA SortedAlike ==
    ASSUME NEW rows \in Seq(PlaylistItem), NEW list, Sortable(list),
           Len(rows) = Len(list), Begins(rows, list)
    PROVE  /\ Sortable(rows) /\ DOMAIN ByPosition(rows) = DOMAIN rows
           /\ DOMAIN ByPosition(list) = DOMAIN rows
           /\ \A k \in DOMAIN rows : ByPosition(rows)[k] \in {ByPosition(list)[k], "gone"}
  <1>1. DOMAIN rows = 1..Len(rows) /\ DOMAIN list = 1..Len(rows) /\ Len(rows) \in Nat
    BY DEF Sortable
  <1>2. Reorders(rows) = Reorders(list)
    BY <1>1 DEF Reorders
  <1>3. \A p \in Reorders(list), i \in DOMAIN list : p[i] \in 1..Len(rows)
    BY <1>1 DEF Reorders
  <1>4. \A i \in 1..Len(rows) : rows[i].pos = list[i].pos
    BY DEF Begins
  <1>5. Sortings(rows) = Sortings(list)
    <2>1. ASSUME NEW p \in Reorders(list)
          PROVE  p \in Sortings(rows) <=> p \in Sortings(list)
      <3>1. \A i \in 1..Len(rows) : p[i] \in 1..Len(rows) /\ rows[p[i]].pos = list[p[i]].pos
        BY <1>1, <1>3, <1>4
      <3>2. \A i, j \in 1..Len(rows) :
               (\/ rows[p[i]].pos < rows[p[j]].pos
                \/ rows[p[i]].pos = rows[p[j]].pos /\ p[i] < p[j])
               <=> (\/ list[p[i]].pos < list[p[j]].pos
                    \/ list[p[i]].pos = list[p[j]].pos /\ p[i] < p[j])
        BY <3>1
      <3> QED
        BY <1>1, <1>2, <3>2 DEF Sortings
    <2>2. Sortings(rows) \subseteq Reorders(list) /\ Sortings(list) \subseteq Reorders(list)
      BY <1>2 DEF Sortings
    <2> QED
      BY <2>1, <2>2
  <1> DEFINE order == CHOOSE p \in Sortings(list) : TRUE
  <1>6. order \in Reorders(list)
    BY DEF Sortable, Sortings
  <1>7. /\ ByPosition(rows) = [k \in DOMAIN rows |-> rows[order[k]].src]
        /\ ByPosition(list) = [k \in DOMAIN list |-> list[order[k]].src]
    BY <1>5 DEF ByPosition
  <1> HIDE DEF order
  <1>8. \A k \in 1..Len(rows) : order[k] \in 1..Len(rows)
    BY <1>1, <1>3, <1>6
  <1>9. \A k \in 1..Len(rows) : rows[order[k]].src \in {list[order[k]].src, "gone"}
    BY <1>8 DEF Begins
  <1>10. Sortable(rows)
    BY <1>5 DEF Sortable
  <1> QED
    BY <1>1, <1>7, <1>9, <1>10

\* Any list of the editor is sorted by some order, wherever list() has put its items.
LEMMA FormsSort ==
    ASSUME NEW list \in Seq(Videos \cup {"url"}), NEW form \in Form(list)
    PROVE  Sortable(form) /\ Len(form) = Len(list)
  <1> DEFINE n == Len(list)
             base == [k \in DOMAIN list |-> Item(list[k], k - 1)]
  <1>1. n \in Nat /\ DOMAIN list = 1..n /\ DOMAIN base = 1..n
    OBVIOUS
  <1>2. PICK q \in Reorders(base) : form = [k \in DOMAIN base |-> base[q[k]]]
    BY DEF Form, Shuffles
  <1>3. q \in [1..n -> 1..n] /\ \A i, j \in 1..n : q[i] = q[j] => i = j
    BY <1>1, <1>2 DEF Reorders
  <1>4. \A k \in 1..n : base[k] \in PlaylistItem /\ base[k].pos = k - 1
    <2> SUFFICES ASSUME NEW k \in 1..n
                 PROVE  base[k] \in PlaylistItem /\ base[k].pos = k - 1
      OBVIOUS
    <2>1. list[k] \in Videos \cup {"url"} /\ k - 1 \in Nat
      BY <1>1
    <2>2. base[k] = [src |-> list[k], pos |-> k - 1]
      BY <1>1 DEF Item
    <2> QED
      BY <2>1, <2>2 DEF PlaylistItem
  <1> HIDE DEF base
  <1>5. \A k \in 1..n : \E i \in 1..n : q[i] = k
    <2>1. q \in Injection(1..n, 1..n)
      BY <1>3 DEF Injection, IsInjective
    <2>2. IsFiniteSet(1..n)
      BY <1>1, FS_Interval
    <2>3. q \in Surjection(1..n, 1..n)
      BY <2>1, <2>2, FS_Injection
    <2> QED
      BY <2>3 DEF Surjection
  <1> DEFINE p == [k \in 1..n |-> CHOOSE i \in 1..n : q[i] = k]
  <1>6. p \in [1..n -> 1..n] /\ \A k \in 1..n : q[p[k]] = k
    BY <1>5
  <1> HIDE DEF p
  <1>7. DOMAIN form = 1..n /\ \A k \in 1..n : form[k] = base[q[k]]
    BY <1>1, <1>2
  <1>8. form \in Seq(PlaylistItem) /\ Len(form) = n
    <2>1. form \in [1..n -> PlaylistItem]
      BY <1>1, <1>2, <1>3, <1>4
    <2> QED
      BY <1>1, <2>1
  <1>9. \A k \in 1..n : form[p[k]].pos = k - 1
    BY <1>3, <1>4, <1>6, <1>7
  <1>10. p \in Sortings(form)
    <2>1. \A i, j \in 1..n : p[i] = p[j] => i = j
      BY <1>6
    <2>2. p \in Reorders(form)
      BY <1>6, <1>7, <2>1 DEF Reorders
    <2>3. \A i, j \in 1..n : i < j => form[p[i]].pos < form[p[j]].pos
      BY <1>1, <1>9
    <2> QED
      BY <1>7, <2>2, <2>3 DEF Sortings
  <1> QED
    BY <1>8, <1>10 DEF Sortable

LEMMA NothingSorted == Sortable(<<>>) /\ ByPosition(<<>>) = <<>>
  <1>1. <<>> \in Reorders(<<>>)
    BY DEF Reorders
  <1>2. <<>> \in Sortings(<<>>)
    BY <1>1 DEF Sortings
  <1> QED
    BY <1>2 DEF Sortable, ByPosition

----------------------------------------------------------------------------
(* Steps that do not save.                                                 *)

\* Videos deleted since are taken out of the items, which stay where they are.
LEMMA EmptiedBegins ==
    ASSUME items \in Seq(PlaylistItem), NEW v
    PROVE  /\ Emptied(v) \in Seq(PlaylistItem) /\ Len(Emptied(v)) = Len(items)
           /\ \A list : Begins(items, list) => Begins(Emptied(v), list)
  <1> DEFINE rows == Emptied(v)
             n    == Len(items)
  <1>1. n \in Nat /\ DOMAIN items = 1..n /\ \A k \in 1..n : items[k] \in PlaylistItem
    OBVIOUS
  <1>2. \A k \in 1..n : rows[k] = IF items[k].src = v THEN [items[k] EXCEPT !.src = "gone"] ELSE items[k]
    BY <1>1 DEF Emptied
  <1>3. \A k \in 1..n : /\ rows[k] \in PlaylistItem /\ rows[k].pos = items[k].pos
                         /\ rows[k].src \in {items[k].src, "gone"}
    BY <1>1, <1>2 DEF PlaylistItem
  <1>4. rows \in [1..n -> PlaylistItem]
    BY <1>1, <1>3 DEF Emptied
  <1>5. rows \in Seq(PlaylistItem) /\ Len(rows) = n
    BY <1>1, <1>4
  <1> HIDE DEF rows
  <1>6. ASSUME NEW list, Begins(items, list)
        PROVE  Begins(rows, list)
    BY <1>3, <1>5, <1>6 DEF Begins
  <1> QED
    BY <1>5, <1>6 DEF rows

\* A step that leaves the requests that save, and the items but for deleted videos.
LEMMA SavesUndisturbed ==
    ASSUME ItemsInv, UNCHANGED <<asked, torn>>,
           items' = items \/ \E v \in Videos : items' = Emptied(v),
           \A r \in Requests : req[r].pc \in ListPc \/ req'[r].pc \in ListPc => req'[r] = req[r]
    PROVE  ItemsInv'
  <1>1. /\ items' \in Seq(PlaylistItem) /\ Len(items') = Len(items)
        /\ \A list : Begins(items, list) => Begins(items', list)
    BY EmptiedBegins DEF ItemsInv
  <1>2. ASSUME NEW r \in Requests
        PROVE  SaveFits(req[r], items, torn)'
    <2>1. SaveFits(req[r], items, torn)
      BY DEF ItemsInv
    <2>2. CASE req'[r].pc \in ListPc
      BY <1>1, <2>1, <2>2 DEF SaveFits
    <2>3. CASE req'[r].pc \notin ListPc
      BY <2>3 DEF SaveFits
    <2> QED
      BY <2>2, <2>3
  <1>3. Listing' <=> Listing
    BY DEF Listing
  <1>4. ~torn /\ ~Listing => AllThere'
    BY <1>1 DEF ItemsInv, AllThere
  <1> QED
    BY <1>1, <1>2, <1>3, <1>4 DEF ItemsInv

\* What Go leaves: the request it is about, and the others.
LEMMA GoesOn ==
    ASSUME FilesTypeOK, NEW r \in Requests, NEW n, Go(r, n)
    PROVE  req'[r] = n /\ \A s \in Requests \ {r} : req'[s] = req[s]
  BY DEF Go, FilesTypeOK

\* A step that is no step of a save, and takes at most a deleted video out of the items.
Aside ==
    /\ UNCHANGED <<asked, torn>> /\ (items' = items \/ \E v \in Videos : items' = Emptied(v))
    /\ \A s \in Requests : req[s].pc \in SavingPc \/ req'[s].pc \in SavingPc => req'[s] = req[s]

LEMMA LibraryAside ==
    ASSUME FilesTypeOK, NEW r \in Requests, Library(r)
    PROVE  Aside
  <1> USE DEF KeepPlaylist, playlistVars
  <1>0. DOMAIN req = Requests /\ NoRequest.pc \notin SavingPc /\ IsRequest(req[r])
    BY NoRequestWorks DEF FilesTypeOK, SavingPc, ListPc, FieldsPc
  <1> DEFINE Is(next) == /\ req' = [req EXCEPT ![r] = next] /\ req[r].pc \notin SavingPc
                         /\ next.pc \notin SavingPc /\ UNCHANGED <<asked, torn>>
                         /\ items' = items \/ \E v \in Videos : items' = Emptied(v)
  <1>1. ASSUME NEW next, Is(next)
        PROVE  Aside
    BY <1>0, <1>1 DEF Aside
  <1>2. CASE Upload(r)
    <2>1. PICK p \in Paths, x \in Videos :
                Go(r, [NoRequest EXCEPT !.pc = "register", !.path = p, !.content = x])
      BY <1>2 DEF Upload, NewPath
    <2> QED
      BY <1>1, <1>2, <2>1 DEF Upload, Arrives, Go, SavingPc, ListPc, FieldsPc, NoRequest
  <1>3. CASE ImportServerFile(r)
    <2>1. PICK p \in Paths :
                Go(r, [NoRequest EXCEPT !.pc = "register", !.path = p, !.content = disk[p]])
      BY <1>3 DEF ImportServerFile
    <2> QED
      BY <1>1, <1>3, <2>1 DEF ImportServerFile, Arrives, Go, SavingPc, ListPc, FieldsPc, NoRequest
  <1>4. CASE Register(r)
    BY <1>0, <1>1, <1>4 DEF Register, At, Go, SavingPc, ListPc, FieldsPc
  <1>5. CASE FindVideo(r)
    <2>1. PICK v \in Rows, pc \in {"move", "saveVideo", "unlink", "removeVideo"} :
                Go(r, [NoRequest EXCEPT !.pc = pc, !.video = v, !.path = video[v].path,
                                        !.content = video[v].holds])
      BY <1>5 DEF FindVideo
    <2> QED
      BY <1>1, <1>5, <2>1 DEF FindVideo, Arrives, Go, SavingPc, ListPc, FieldsPc, NoRequest
  <1>6. CASE Move(r)
    <2>1. req[r].pc \notin SavingPc /\ UNCHANGED <<items, asked, torn>>
      BY <1>6 DEF Move, At, SavingPc, ListPc, FieldsPc
    <2>2. PICK p \in Paths : Go(r, NoRequest) \/ req' = [req EXCEPT ![r] = Moved(req[r], p)]
      BY <1>6 DEF Move
    <2>3. Moved(req[r], p).pc = "saveVideo"
      BY <1>0 DEF Moved, IsRequest
    <2> QED
      BY <1>0, <1>1, <2>1, <2>2, <2>3 DEF Go, SavingPc, ListPc, FieldsPc
  <1>7. CASE SaveVideo(r)
    BY <1>0, <1>1, <1>7 DEF SaveVideo, At, Go, SavingPc, ListPc, FieldsPc
  <1>8. CASE Unlink(r)
    <2>1. req' = [req EXCEPT ![r] = [req[r] EXCEPT !.pc = "removeVideo"]]
      BY <1>8 DEF Unlink
    <2>2. [req[r] EXCEPT !.pc = "removeVideo"].pc = "removeVideo"
      BY <1>0 DEF IsRequest
    <2> QED
      BY <1>1, <1>8, <2>1, <2>2 DEF Unlink, At, SavingPc, ListPc, FieldsPc
  <1>9. CASE RemoveVideo(r)
    <2>1. req[r].video \in Videos /\ items' = Emptied(req[r].video)
      BY <1>0, <1>9 DEF RemoveVideo, At, IsRequest, FilePc
    <2> QED
      BY <1>0, <1>1, <1>9, <2>1 DEF RemoveVideo, At, Go, SavingPc, ListPc, FieldsPc
  <1> QED
    BY <1>2, <1>3, <1>4, <1>5, <1>6, <1>7, <1>8, <1>9 DEF Library

LEMMA LibraryKeepsItems ==
    ASSUME FilesTypeOK, ItemsInv, NEW r \in Requests, Library(r)
    PROVE  ItemsInv'
  BY LibraryAside, SavesUndisturbed DEF Aside, SavingPc

LEMMA StreamKeepsItems ==
    ASSUME ItemsInv, UNCHANGED <<items, asked, torn, req>>
    PROVE  ItemsInv'
  BY SavesUndisturbed

LEMMA CrashKeepsItems ==
    ASSUME FilesTypeOK, ItemsInv, ApiCrashes
    PROVE  ItemsInv'
  <1>1. /\ UNCHANGED <<items, asked>> /\ torn' = (torn \/ Saving)
        /\ req' = [r \in Requests |-> NoRequest] /\ NoRequest.pc \notin ListPc
    BY NoRequestWorks DEF ApiCrashes, playlistVars, ListPc
  <1>2. ~Listing' /\ \A r \in Requests : SaveFits(req[r], items, torn)' /\ req'[r].pc \notin ListPc
    BY <1>1 DEF Listing, SaveFits
  <1>3. ~torn' => ~torn /\ ~Listing /\ torn' \in BOOLEAN
    BY <1>1 DEF ItemsInv, Saving, Listing, SavingPc
  <1>4. ~torn' => AllThere'
    BY <1>1, <1>3 DEF ItemsInv, AllThere
  <1>5. torn' \in BOOLEAN /\ items' \in Seq(PlaylistItem)
    BY <1>1 DEF ItemsInv, Saving
  <1> QED
    BY <1>2, <1>4, <1>5 DEF ItemsInv

----------------------------------------------------------------------------
(* Steps of a save.                                                        *)

\* A save that goes on, or tears: what is left to show of the step.
LEMMA SaveGoes ==
    ASSUME FilesTypeOK, ItemsInv, NEW r \in Requests, NEW next, Go(r, next),
           next.pc \in ListPc => SaveFits(next, items', torn'),
           items' \in Seq(PlaylistItem), torn' \in BOOLEAN,
           \A s \in Requests \ {r} : SaveFits(req[s], items, torn) => SaveFits(req[s], items', torn'),
           ~torn' /\ next.pc \in ListPc => \A s \in Requests \ {r} : req[s].pc \notin ListPc,
           ~torn' /\ next.pc \notin ListPc => ~torn,
           ~torn' /\ next.pc \notin ListPc /\ (\A s \in Requests \ {r} : req[s].pc \notin ListPc) => AllThere'
    PROVE  ItemsInv'
  <1>1. req'[r] = next /\ \A s \in Requests \ {r} : req'[s] = req[s]
    BY GoesOn
  <1>2. ASSUME NEW s \in Requests
        PROVE  SaveFits(req[s], items, torn)'
    <2>1. CASE s = r /\ next.pc \in ListPc
      BY <1>1, <2>1
    <2>2. CASE s = r /\ next.pc \notin ListPc
      BY <1>1, <2>2 DEF SaveFits
    <2>3. CASE s # r
      <3>1. SaveFits(req[s], items, torn)
        BY DEF ItemsInv
      <3> QED
        BY <1>1, <2>3, <3>1
    <2> QED
      BY <2>1, <2>2, <2>3
  <1>3. ~torn' => \A s, t \in Requests : req'[s].pc \in ListPc /\ req'[t].pc \in ListPc => s = t
    BY <1>1 DEF ItemsInv
  <1>4. ~torn' /\ ~Listing' => AllThere'
    BY <1>1 DEF Listing
  <1> QED
    BY <1>2, <1>3, <1>4 DEF ItemsInv

\* The lists the editor sends sort, and nothing is inserted of them yet.
LEMMA PutKeepsItems ==
    ASSUME FilesTypeOK, ItemsInv, NEW r \in Requests, PutPlaylist(r)
    PROVE  ItemsInv'
  <1>1. /\ UNCHANGED <<items, asked>> /\ torn' = (torn \/ Listing)
        /\ torn' \in BOOLEAN /\ items' \in Seq(PlaylistItem)
    BY DEF PutPlaylist, playlistVars, ItemsInv, Listing
  <1>0. PICK list \in Lists, mode \in Modes : \E form \in Form(list) :
            Go(r, [NoRequest EXCEPT !.pc = "saveList", !.mode = mode, !.list = form])
    BY DEF PutPlaylist
  <1>2. PICK form \in Form(list) :
            Go(r, [NoRequest EXCEPT !.pc = "saveList", !.mode = mode, !.list = form])
    BY <1>0
  <1> DEFINE next == [NoRequest EXCEPT !.pc = "saveList", !.mode = mode, !.list = form]
  <1>3. next.pc = "saveList" /\ next.list = form /\ next.done = 0
    BY DEF NoRequest
  <1>4. Sortable(form)
    BY FormsSort, Zenon, MediaAssumption
  <1> HIDE DEF next
  <1>5. SaveFits(next, items', torn')
    BY <1>3, <1>4 DEF SaveFits
  <1>6. \A s \in Requests \ {r} : SaveFits(req[s], items, torn) => SaveFits(req[s], items', torn')
    BY <1>1 DEF SaveFits
  <1>7. ~torn' => \A s \in Requests \ {r} : req[s].pc \notin ListPc
    BY <1>1 DEF Listing
  <1>8. Go(r, next) /\ next.pc \in ListPc
    BY <1>2, <1>3 DEF next, ListPc
  <1> QED
    BY <1>1, <1>5, <1>6, <1>7, <1>8, SaveGoes

LEMMA SaveListKeepsItems ==
    ASSUME FilesTypeOK, ItemsInv, NEW r \in Requests, SaveList(r)
    PROVE  ItemsInv'
  <1>1. UNCHANGED <<items, asked, torn>> /\ req[r].pc = "saveList" /\ req[r].pc \in ListPc
    BY DEF SaveList, At, ListPc
  <1> DEFINE next == [req[r] EXCEPT !.pc = "clear"]
  <1>2. IsRequest(req[r]) /\ SaveFits(req[r], items, torn)
    BY DEF FilesTypeOK, ItemsInv
  <1>3. next.pc = "clear" /\ next.list = req[r].list /\ next.done = req[r].done
    BY <1>2 DEF IsRequest
  <1>4. Go(r, next)
    BY DEF SaveList
  <1> HIDE DEF next
  <1>5. SaveFits(next, items', torn')
    BY <1>1, <1>2, <1>3 DEF SaveFits
  <1>6. \A s \in Requests \ {r} : SaveFits(req[s], items, torn) => SaveFits(req[s], items', torn')
    BY <1>1 DEF SaveFits
  <1>7. ~torn' => ~torn /\ \A s \in Requests \ {r} : req[s].pc \notin ListPc
    BY <1>1 DEF ItemsInv
  <1>8. items' \in Seq(PlaylistItem) /\ torn' \in BOOLEAN /\ next.pc \in ListPc
    BY <1>1, <1>3 DEF ItemsInv, ListPc
  <1> QED
    BY <1>4, <1>5, <1>6, <1>7, <1>8, SaveGoes

\* From here on the save is alone, or the playlist is torn.
LEMMA ClearKeepsItems ==
    ASSUME FilesTypeOK, ItemsInv, NEW r \in Requests, ClearItems(r)
    PROVE  ItemsInv'
  <1>1. /\ items' = <<>> /\ torn' = Tears(r) /\ torn' \in BOOLEAN
        /\ req[r].pc = "clear" /\ req[r].pc \in ListPc
    BY DEF ClearItems, Cleared, At, ListPc, Tears
  <1> DEFINE next == [req[r] EXCEPT !.pc = IF req[r].list = <<>> THEN "result" ELSE "insert"]
  <1>2. IsRequest(req[r]) /\ SaveFits(req[r], items, torn)
    BY DEF FilesTypeOK, ItemsInv
  <1>3. /\ next.pc = IF req[r].list = <<>> THEN "result" ELSE "insert"
        /\ next.list = req[r].list /\ next.done = req[r].done
    BY <1>2 DEF IsRequest
  <1>4. Go(r, next)
    BY DEF ClearItems
  <1> HIDE DEF next
  <1>5. SaveFits(next, items', torn')
    <2>1. Sortable(next.list) /\ next.done = 0
      BY <1>1, <1>2, <1>3 DEF SaveFits
    <2>2. Len(next.list) \in Nat /\ (next.list # <<>> => 0 < Len(next.list))
      BY <2>1 DEF Sortable
    <2>3. Len(items') = 0 /\ Begins(items', next.list)
      BY <1>1, <2>2 DEF Begins
    <2> QED
      BY <1>3, <2>1, <2>2, <2>3 DEF SaveFits
  <1>6. ASSUME NEW s \in Requests \ {r}, SaveFits(req[s], items, torn)
        PROVE  SaveFits(req[s], items', torn')
    <2>1. req[s].pc \in ListPc => torn'
      BY <1>1 DEF Tears
    <2> QED
      BY <1>6, <2>1 DEF SaveFits
  <1>7. ~torn' => \A s \in Requests \ {r} : req[s].pc \notin ListPc
    BY <1>1 DEF Tears
  <1>8. items' \in Seq(PlaylistItem) /\ next.pc \in ListPc
    BY <1>1, <1>3 DEF ListPc
  <1> QED
    BY <1>1, <1>4, <1>5, <1>6, <1>7, <1>8, SaveGoes

LEMMA InsertKeepsItems ==
    ASSUME FilesTypeOK, ItemsInv, NEW r \in Requests, InsertItem(r)
    PROVE  ItemsInv'
  <1> DEFINE q    == req[r]
             item == InsertedItem(q)
             next == [q EXCEPT !.done = @ + 1, !.pc = IF q.done + 1 = Len(q.list) THEN "result" ELSE "insert"]
  <1>1. IsRequest(q) /\ SaveFits(q, items, torn) /\ q.pc = "insert" /\ q.pc \in ListPc /\ UNCHANGED asked
    BY DEF FilesTypeOK, ItemsInv, InsertItem, At, ListPc
  <1>2. Sortable(q.list) /\ q.done \in Nat /\ q.done < Len(q.list)
    BY <1>1 DEF SaveFits
  <1>3. item \in PlaylistItem /\ item = q.list[q.done + 1]
    BY <1>2 DEF Sortable, InsertedItem
  <1>4. ~torn => /\ Len(items) = q.done /\ Begins(items, q.list)
                 /\ \A s \in Requests \ {r} : req[s].pc \notin ListPc
    BY <1>1 DEF SaveFits, ItemsInv
  <1>5. CASE Go(r, NoRequest) /\ torn' = TRUE /\ UNCHANGED items
    <2>1. NoRequest.pc \notin ListPc
      BY NoRequestWorks DEF ListPc
    <2>2. \A s \in Requests \ {r} : SaveFits(req[s], items, torn) => SaveFits(req[s], items', torn')
      BY <1>5 DEF SaveFits
    <2>3. items' \in Seq(PlaylistItem)
      BY <1>5 DEF ItemsInv
    <2> QED
      BY <1>5, <2>1, <2>2, <2>3, SaveGoes
  <1>6. CASE items' = Append(items, item) /\ Go(r, next) /\ UNCHANGED torn
    <2>1. /\ next.done = q.done + 1 /\ next.list = q.list
          /\ next.pc = IF q.done + 1 = Len(q.list) THEN "result" ELSE "insert"
      BY <1>1 DEF IsRequest
    <2> HIDE DEF next, item
    <2>2. items \in Seq(PlaylistItem) /\ items' \in Seq(PlaylistItem) /\ torn' \in BOOLEAN
      BY <1>3, <1>6 DEF ItemsInv
    <2>3. Len(items') = Len(items) + 1
      BY <1>3, <1>6, <2>2
    <2>4. ~torn => Len(items') = next.done /\ Begins(items', next.list)
      <3> SUFFICES ASSUME ~torn PROVE Len(items') = next.done /\ Begins(items', next.list)
        OBVIOUS
      <3>1. Len(items') = q.done + 1 /\ Len(items') <= Len(q.list)
        BY <1>2, <1>4, <2>3 DEF Sortable
      <3>2. ASSUME NEW k \in 1..Len(items')
            PROVE  items'[k].pos = q.list[k].pos /\ items'[k].src \in {q.list[k].src, "gone"}
        <4>1. CASE k = q.done + 1
          <5>1. items'[k] = item
            BY <1>3, <1>4, <1>6, <2>2, <4>1
          <5> QED
            BY <1>3, <4>1, <5>1
        <4>2. CASE k # q.done + 1
          <5>1. k \in 1..Len(items)
            BY <1>2, <1>4, <3>1, <4>2
          <5>2. items'[k] = items[k]
            BY <1>3, <1>6, <2>2, <5>1
          <5> QED
            BY <1>4, <5>1, <5>2 DEF Begins
        <4> QED
          BY <4>1, <4>2
      <3> QED
        BY <2>1, <3>1, <3>2 DEF Begins
    <2>5. SaveFits(next, items', torn')
      <3>1. next.done \in Nat /\ Len(q.list) \in Nat
        BY <1>2, <2>1 DEF Sortable
      <3> QED
        BY <1>2, <1>6, <2>1, <2>4, <3>1 DEF SaveFits
    <2>6. \A s \in Requests \ {r} : SaveFits(req[s], items, torn) => SaveFits(req[s], items', torn')
      BY <1>4, <1>6 DEF SaveFits
    <2>7. next.pc \in ListPc
      BY <2>1 DEF ListPc
    <2> QED
      BY <1>4, <1>6, <2>2, <2>5, <2>6, <2>7, SaveGoes
  <1> QED
    BY <1>5, <1>6 DEF InsertItem

LEMMA EndKeepsItems ==
    ASSUME FilesTypeOK, ItemsInv, NEW r \in Requests, SaveEnds(r)
    PROVE  ItemsInv'
  <1> DEFINE q == req[r]
  <1>1. /\ SaveFits(q, items, torn) /\ q.pc = "result" /\ q.pc \in ListPc
        /\ UNCHANGED <<items, torn>> /\ asked' = ByPosition(q.list) /\ Go(r, NoRequest)
    BY DEF ItemsInv, SaveEnds, Answer, At, ListPc, playlistVars
  <1>2. NoRequest.pc \notin ListPc
    BY NoRequestWorks DEF ListPc
  <1>3. ~torn' => AllThere'
    BY <1>1 DEF SaveFits, AllThere
  <1>4. \A s \in Requests \ {r} : SaveFits(req[s], items, torn) => SaveFits(req[s], items', torn')
    BY <1>1 DEF SaveFits
  <1>5. items' \in Seq(PlaylistItem) /\ torn' \in BOOLEAN
    BY <1>1 DEF ItemsInv
  <1> QED
    BY <1>1, <1>2, <1>3, <1>4, <1>5, SaveGoes

\* A save without items leaves them, and the saves of others, alone.
LEMMA FieldsKeepItems ==
    ASSUME FilesTypeOK, ItemsInv, NEW r \in Requests, PutFields(r) \/ SaveFields(r) \/ FieldsEnd(r)
    PROVE  ItemsInv'
  <1>0. IsRequest(req[r])
    BY DEF FilesTypeOK
  <1>1. UNCHANGED <<items, asked, torn>> /\ req[r].pc \notin ListPc
    BY DEF PutFields, SaveFields, FieldsEnd, Answer, playlistVars, Arrives, At, ListPc
  <1>2. PICK n : Go(r, n) /\ n.pc \notin ListPc
    <2>1. ASSUME NEW mode
          PROVE  [NoRequest EXCEPT !.pc = "saveFields", !.mode = mode].pc = "saveFields"
      BY DEF NoRequest
    <2>2. [req[r] EXCEPT !.pc = "fieldsResult"].pc = "fieldsResult"
      BY <1>0 DEF IsRequest
    <2> QED
      BY <2>1, <2>2, NoRequestWorks DEF PutFields, SaveFields, FieldsEnd, Answer, ListPc
  <1>3. req'[r] = n /\ \A s \in Requests \ {r} : req'[s] = req[s]
    BY <1>2, GoesOn
  <1> QED
    BY <1>1, <1>2, <1>3, SavesUndisturbed

LEMMA RemovalKeepsItems ==
    ASSUME ItemsInv, RemovePlaylist
    PROVE  ItemsInv'
  <1>1. items' = <<>> /\ asked' = <<>> /\ torn' = Listing /\ torn' \in BOOLEAN /\ UNCHANGED req
    BY DEF RemovePlaylist, Listing
  <1>2. Listing' = Listing
    BY <1>1 DEF Listing
  <1>3. AllThere'
    BY <1>1, NothingSorted DEF AllThere, Begins
  <1>4. ASSUME NEW r \in Requests
        PROVE  SaveFits(req[r], items, torn)'
    BY <1>1 DEF ItemsInv, SaveFits, Listing
  <1>5. items' \in Seq(PlaylistItem)
    BY <1>1
  <1> QED
    BY <1>1, <1>2, <1>3, <1>4, <1>5 DEF ItemsInv, Listing

\* The inductive invariant: how far each save is with its list, and which list the items
\* were when nothing saves.
THEOREM ItemsInvHolds == Spec => []ItemsInv
  <1>1. Init => ItemsInv
    <2> SUFFICES ASSUME Init PROVE ItemsInv
      OBVIOUS
    <2>1. /\ items = <<>> /\ asked = <<>> /\ torn = FALSE
          /\ \A r \in Requests : req[r].pc \notin ListPc
      BY NoRequestWorks DEF Init, ListPc
    <2>2. AllThere
      BY <2>1, NothingSorted DEF AllThere, Begins
    <2>3. \A r \in Requests : SaveFits(req[r], items, torn)
      BY <2>1 DEF SaveFits
    <2>4. items \in Seq(PlaylistItem)
      BY <2>1
    <2>5. torn \in BOOLEAN
      BY <2>1
    <2> QED
      BY <2>1, <2>2, <2>3, <2>4, <2>5 DEF ItemsInv
  <1>2. ItemsInv /\ FilesInv /\ [Next]_vars => ItemsInv'
    <2> SUFFICES ASSUME ItemsInv, FilesTypeOK, [Next]_vars PROVE ItemsInv'
      BY DEF FilesInv
    <2>1. ASSUME NEW r \in Requests, Playlist(r)
          PROVE  ItemsInv'
      BY <2>1, PutKeepsItems, SaveListKeepsItems, ClearKeepsItems, InsertKeepsItems,
         EndKeepsItems, FieldsKeepItems DEF Playlist
    <2>2. ASSUME NEW c \in Channels, Stream(c)
          PROVE  UNCHANGED <<items, asked, torn, req>>
      BY <2>2 DEF Stream, StartPressed, WriteConcat, Started, TakeRestart, Ended, KeepRest, playlistVars
    <2>3. UNCHANGED vars => UNCHANGED <<items, asked, torn, req>>
      BY DEF vars, historyVars, playlistVars
    <2> QED
      BY <2>1, <2>2, <2>3, LibraryKeepsItems, StreamKeepsItems, RemovalKeepsItems,
         CrashKeepsItems DEF Next
  <1> QED
    BY <1>1, <1>2, FilesInvHolds, PTL DEF Spec

LEMMA ItemsFollowList == ItemsInv => ItemsAsSaved
  <1> SUFFICES ASSUME ItemsInv, ~torn, ~Listing
               PROVE  /\ Len(items) = Len(asked)
                      /\ \A k \in DOMAIN items : ByPosition(items)[k] \in {asked[k], "gone"}
    BY DEF ItemsAsSaved
  <1>1. PICK list : /\ Sortable(list) /\ asked = ByPosition(list)
                    /\ Len(items) = Len(list) /\ Begins(items, list)
    BY DEF ItemsInv, AllThere
  <1>2. items \in Seq(PlaylistItem) /\ list \in Seq(PlaylistItem)
    BY <1>1 DEF ItemsInv, Sortable
  <1>3. Len(asked) = Len(list)
    BY <1>1, <1>2 DEF ByPosition
  <1> QED
    BY <1>1, <1>2, <1>3, SortedAlike

\* A playlist keeps what was saved last, in its order, videos deleted since apart, though
\* saveItems deletes the items and inserts them one at a time: for any number of requests,
\* videos and lists, of whatever length.  The positions decide, wherever list() has put the
\* items that the editor sends back.
THEOREM ItemsStayAsSaved == Spec => []ItemsAsSaved
  BY ItemsFollowList, ItemsInvHolds, PTL

----------------------------------------------------------------------------
(***************************************************************************)
(* The channels that play the list.  While a save is at work, whatever is  *)
(* starting is among the early ones; the save's end puts the channels that *)
(* run among those to restart.  What is then left has read the items since *)
(* the last save, when they were the saved list less deleted videos.       *)
(***************************************************************************)
\* A channel with a list that it will go on with.
GoesOnWith(c) ==
    \/ child[c] = "starting" /\ plays[c] # None
    \/ child[c] = "running" /\ status[c] = "running" /\ c \notin restarts

ListsSaved ==
    \A c \in Channels \ early :
        GoesOnWith(c) => \E list \in Remains : plays[c] \in Orders(playlist, list)

ChannelsInv ==
    /\ DOMAIN child = Channels /\ DOMAIN plays = Channels /\ DOMAIN status = Channels
    /\ \A c \in Channels : child[c] = "none" => plays[c] = None
    /\ Saving => \A c \in Channels : child[c] = "starting" => c \in early
    /\ ~torn /\ ~Saving /\ playlist # None => ListsSaved

\* What a channel reads between saves is among what remains of the list.
LEMMA ReadRemains ==
    ASSUME ItemsInv, ~torn, ~Saving
    PROVE  ByPosition(items) \in Remains
  <1>1. PICK list : /\ Sortable(list) /\ asked = ByPosition(list)
                    /\ Len(items) = Len(list) /\ Begins(items, list)
    BY DEF ItemsInv, AllThere, Saving, Listing, SavingPc
  <1>2. items \in Seq(PlaylistItem)
    BY DEF ItemsInv
  <1>3. /\ DOMAIN ByPosition(items) = DOMAIN asked
        /\ \A k \in DOMAIN asked : ByPosition(items)[k] \in {asked[k], "gone"}
    BY <1>1, <1>2, SortedAlike
  <1> DEFINE gone == {k \in DOMAIN asked : ByPosition(items)[k] = "gone"}
  <1>4. ByPosition(items) = [k \in DOMAIN asked |-> IF k \in gone THEN "gone" ELSE asked[k]]
    BY <1>3 DEF ByPosition
  <1> QED
    BY <1>4 DEF Remains

\* Videos that are deleted later leave what was read before among it.
LEMMA RemainsGrows ==
    ASSUME ItemsInv, ~torn, ~Saving, UNCHANGED asked,
           items' = items \/ \E v \in Videos : items' = Emptied(v)
    PROVE  Remains \subseteq Remains'
  <1>1. PICK list : /\ Sortable(list) /\ asked = ByPosition(list)
                    /\ Len(items) = Len(list) /\ Begins(items, list)
    BY DEF ItemsInv, AllThere, Saving, Listing, SavingPc
  <1>2. items \in Seq(PlaylistItem)
    BY DEF ItemsInv
  <1>3. Sortable(items) /\ DOMAIN asked = DOMAIN items
    BY <1>1, <1>2, SortedAlike
  <1>4. ASSUME NEW k \in DOMAIN asked, ByPosition(items)[k] = "gone"
        PROVE  ByPosition(items')[k] = "gone"
    <2>1. CASE items' = items
      BY <1>4, <2>1
    <2>2. CASE \E v \in Videos : items' = Emptied(v)
      <3>1. PICK v \in Videos : items' = Emptied(v)
        BY <2>2
      <3>2. Begins(items, items)
        BY <1>2 DEF Begins
      <3>3. /\ Emptied(v) \in Seq(PlaylistItem) /\ Len(Emptied(v)) = Len(items)
            /\ Begins(Emptied(v), items)
        BY <1>2, <3>2, EmptiedBegins
      <3>4. DOMAIN Emptied(v) = DOMAIN items
        BY <1>2, <3>3
      <3>5. ByPosition(Emptied(v))[k] \in {ByPosition(items)[k], "gone"}
        BY <1>3, <3>3, <3>4, SortedAlike
      <3> QED
        BY <1>4, <3>1, <3>5
    <2> QED
      BY <2>1, <2>2
  <1>5. {k \in DOMAIN asked : ByPosition(items)[k] = "gone"}
           \subseteq {k \in DOMAIN asked : ByPosition(items')[k] = "gone"}
    BY <1>4
  <1>6. Remains' = {[k \in DOMAIN asked |-> IF k \in gone THEN "gone" ELSE asked[k]] :
                        gone \in SUBSET {k \in DOMAIN asked : ByPosition(items')[k] = "gone"}}
    BY DEF Remains, ByPosition, Sortings, Reorders
  <1> QED
    BY <1>5, <1>6 DEF Remains

\* A step that leaves the channels alone and is no step of a save.
LEMMA ChannelsUndisturbed ==
    ASSUME ItemsInv, ChannelsInv, Aside, UNCHANGED <<playlist, channelVars, restarts, early>>
    PROVE  ChannelsInv'
  <1>1. Saving' <=> Saving
    BY DEF Aside, Saving
  <1>2. UNCHANGED <<child, plays, status, torn>>
    BY DEF channelVars, Aside
  <1>3. ASSUME ~torn, ~Saving, playlist # None
        PROVE  ListsSaved'
    <2>1. Remains \subseteq Remains'
      BY <1>3, RemainsGrows DEF Aside
    <2>2. ASSUME NEW c \in Channels \ early, GoesOnWith(c)'
          PROVE  \E list \in Remains' : plays[c] \in Orders(playlist, list)
      BY <1>2, <1>3, <2>1, <2>2 DEF ChannelsInv, ListsSaved, GoesOnWith
    <2> QED
      BY <1>2, <2>2 DEF ListsSaved
  <1> QED
    BY <1>1, <1>2, <1>3 DEF ChannelsInv

LEMMA LibraryKeepsChannels ==
    ASSUME FilesTypeOK, ItemsInv, ChannelsInv, NEW r \in Requests, Library(r)
    PROVE  ChannelsInv'
  <1>1. UNCHANGED <<playlist, channelVars, restarts, early>>
    BY DEF Library, KeepPlaylist, playlistVars, Upload, ImportServerFile, Register, FindVideo, Move,
           SaveVideo, Unlink, RemoveVideo
  <1> QED
    BY <1>1, LibraryAside, ChannelsUndisturbed

\* A save that goes on, or does not succeed.
LEMMA SavingKeepsChannels ==
    ASSUME ChannelsInv, Saving, Saving' \/ torn', UNCHANGED <<channelVars, early>>
    PROVE  ChannelsInv'
  BY DEF ChannelsInv, channelVars

LEMMA PlaylistKeepsChannels ==
    ASSUME FilesTypeOK, ChannelsInv, NEW r \in Requests, Playlist(r)
    PROVE  ChannelsInv'
  <1>0. IsRequest(req[r])
    BY DEF FilesTypeOK
  <1>1. ASSUME NEW n, Go(r, n)
        PROVE  n.pc \in SavingPc => Saving'
    <2>1. req'[r] = n
      BY <1>1, GoesOn
    <2> QED
      BY <2>1 DEF Saving
  <1>2. CASE PutPlaylist(r)
    <2>1. PICK list, mode, form :
              Go(r, [NoRequest EXCEPT !.pc = "saveList", !.mode = mode, !.list = form])
      BY <1>2 DEF PutPlaylist
    <2>2. [NoRequest EXCEPT !.pc = "saveList", !.mode = mode, !.list = form].pc = "saveList"
      BY DEF NoRequest
    <2>3. Saving'
      BY <1>1, <2>1, <2>2 DEF SavingPc, ListPc, FieldsPc
    <2>4. early' = EarlyWhile(TRUE) /\ UNCHANGED <<child, plays, status>>
      BY <1>2 DEF PutPlaylist, channelVars
    <2> QED
      BY <2>3, <2>4 DEF ChannelsInv, EarlyWhile
  <1>3. CASE SaveList(r)
    <2>1. Saving /\ UNCHANGED <<channelVars, early>>
      BY <1>3 DEF SaveList, At, Saving, SavingPc, ListPc, FieldsPc
    <2>2. [req[r] EXCEPT !.pc = "clear"].pc = "clear"
      BY <1>0 DEF IsRequest
    <2>3. Saving'
      BY <1>1, <1>3, <2>2 DEF SaveList, SavingPc, ListPc, FieldsPc
    <2> QED
      BY <2>1, <2>3, SavingKeepsChannels
  <1>4. CASE ClearItems(r)
    <2>1. Saving /\ UNCHANGED <<channelVars, early>>
      BY <1>4 DEF ClearItems, At, Saving, SavingPc, ListPc, FieldsPc
    <2> DEFINE n == [req[r] EXCEPT !.pc = IF req[r].list = <<>> THEN "result" ELSE "insert"]
    <2>2. n.pc \in {"result", "insert"} /\ Go(r, n)
      BY <1>0, <1>4 DEF IsRequest, ClearItems
    <2> HIDE DEF n
    <2>3. Saving'
      BY <1>1, <2>2 DEF SavingPc, ListPc, FieldsPc
    <2> QED
      BY <2>1, <2>3, SavingKeepsChannels
  <1>5. CASE InsertItem(r)
    <2>1. Saving /\ UNCHANGED <<channelVars, early>>
      BY <1>5 DEF InsertItem, At, Saving, SavingPc, ListPc, FieldsPc
    <2> DEFINE n == [req[r] EXCEPT !.done = @ + 1,
                                   !.pc = IF req[r].done + 1 = Len(req[r].list) THEN "result" ELSE "insert"]
    <2>2. n.pc \in {"result", "insert"}
      BY <1>0 DEF IsRequest
    <2>3. Go(r, n) \/ torn'
      BY <1>5 DEF InsertItem
    <2> HIDE DEF n
    <2>4. Saving' \/ torn'
      BY <1>1, <2>2, <2>3 DEF SavingPc, ListPc, FieldsPc
    <2> QED
      BY <2>1, <2>4, SavingKeepsChannels
  <1>6. CASE SaveEnds(r) \/ FieldsEnd(r)
    <2>1. /\ early' = EarlyWhile(TRUE) /\ UNCHANGED <<playlist, child, plays, status>>
          /\ restarts' = restarts \cup (IF playlist # None THEN RestartsOf ELSE {})
      BY <1>6 DEF SaveEnds, FieldsEnd, Answer, channelVars, playlistVars
    <2>2. \A c \in Channels : child[c] = "starting" => c \in early'
      BY <2>1 DEF EarlyWhile
    <2>3. playlist # None => \A c \in Channels : status[c] = "running" => c \in restarts'
      BY <2>1 DEF RestartsOf
    <2>4. playlist' # None => ListsSaved'
      BY <2>1, <2>2, <2>3 DEF ListsSaved, GoesOnWith
    <2> QED
      BY <2>1, <2>2, <2>4 DEF ChannelsInv
  <1>7. CASE PutFields(r)
    <2>1. PICK mode : Go(r, [NoRequest EXCEPT !.pc = "saveFields", !.mode = mode])
      BY <1>7 DEF PutFields
    <2>2. [NoRequest EXCEPT !.pc = "saveFields", !.mode = mode].pc = "saveFields"
      BY DEF NoRequest
    <2>3. Saving'
      BY <1>1, <2>1, <2>2 DEF SavingPc, FieldsPc
    <2>4. early' = EarlyWhile(TRUE) /\ UNCHANGED <<child, plays, status>>
      BY <1>7 DEF PutFields, channelVars
    <2> QED
      BY <2>3, <2>4 DEF ChannelsInv, EarlyWhile
  <1>8. CASE SaveFields(r)
    <2>1. Saving /\ UNCHANGED <<channelVars, early>>
      BY <1>8 DEF SaveFields, At, Saving, SavingPc, FieldsPc
    <2>2. [req[r] EXCEPT !.pc = "fieldsResult"].pc = "fieldsResult"
      BY <1>0 DEF IsRequest
    <2>3. Saving'
      BY <1>1, <1>8, <2>2 DEF SaveFields, SavingPc, FieldsPc
    <2> QED
      BY <2>1, <2>3, SavingKeepsChannels
  <1> QED
    BY <1>2, <1>3, <1>4, <1>5, <1>6, <1>7, <1>8 DEF Playlist

\* A step of channel c that leaves the other channels alone.
LEMMA OneChannel ==
    ASSUME ChannelsInv, NEW c \in Channels,
           UNCHANGED <<req, torn, playlist, asked, items>>,
           DOMAIN child' = Channels, DOMAIN plays' = Channels, DOMAIN status' = Channels,
           \A d \in Channels \ {c} : /\ UNCHANGED <<child[d], plays[d], status[d]>>
                                     /\ d \in restarts' <=> d \in restarts
                                     /\ d \in early' <=> d \in early,
           child'[c] = "none" => plays'[c] = None,
           Saving /\ child'[c] = "starting" => c \in early',
           ~torn /\ ~Saving /\ playlist # None /\ c \notin early' /\ GoesOnWith(c)' =>
               \E list \in Remains : plays'[c] \in Orders(playlist, list)
    PROVE  ChannelsInv'
  <1>0. ByPosition(items)' = ByPosition(items)
    BY DEF ByPosition, Sortings, Reorders
  <1>1. (Saving' <=> Saving) /\ Remains' = Remains
    <2>1. Saving' <=> Saving
      BY DEF Saving
    <2>2. Remains' = {[k \in DOMAIN asked |-> IF k \in gone THEN "gone" ELSE asked[k]] :
                         gone \in SUBSET {k \in DOMAIN asked : ByPosition(items)'[k] = "gone"}}
      BY DEF Remains
    <2> QED
      BY <1>0, <2>1, <2>2 DEF Remains
  <1>2. ASSUME ~torn, ~Saving, playlist # None, NEW d \in Channels \ early', GoesOnWith(d)'
        PROVE  \E list \in Remains' : plays'[d] \in Orders(playlist', list)
    <2>1. CASE d = c
      BY <1>1, <1>2, <2>1
    <2>2. CASE d # c
      <3>1. GoesOnWith(d) /\ d \notin early /\ plays'[d] = plays[d]
        BY <1>2, <2>2 DEF GoesOnWith
      <3> QED
        BY <1>1, <1>2, <3>1 DEF ChannelsInv, ListsSaved
    <2> QED
      BY <2>1, <2>2
  <1>3. ~torn /\ ~Saving /\ playlist # None => ListsSaved'
    BY <1>2 DEF ListsSaved
  <1> QED
    BY <1>1, <1>3 DEF ChannelsInv

LEMMA StreamKeepsChannels ==
    ASSUME ItemsInv, ChannelsInv, NEW c \in Channels, Stream(c)
    PROVE  ChannelsInv'
  <1>0. UNCHANGED <<req, torn, playlist, asked, items>>
    BY DEF Stream, StartPressed, WriteConcat, Started, TakeRestart, Ended, KeepRest, playlistVars
  <1>1. /\ DOMAIN child = Channels /\ DOMAIN plays = Channels /\ DOMAIN status = Channels
        /\ child[c] = "none" => plays[c] = None
        /\ Saving /\ child[c] = "starting" => c \in early
        /\ ~torn /\ ~Saving /\ playlist # None /\ c \notin early /\ GoesOnWith(c) =>
               \E list \in Remains : plays[c] \in Orders(playlist, list)
    BY DEF ChannelsInv, ListsSaved
  <1>2. CASE StartPressed(c)
    <2>1. /\ status'[c] = "starting" /\ plays'[c] = plays[c] /\ UNCHANGED restarts
          /\ child'[c] = IF child[c] = "none" THEN "starting" ELSE child[c]
          /\ early' = IF child[c] = "none" /\ Saving THEN early \cup {c} ELSE early
          /\ \A d \in Channels \ {c} : UNCHANGED <<child[d], plays[d], status[d]>>
          /\ DOMAIN child' = Channels /\ DOMAIN plays' = Channels /\ DOMAIN status' = Channels
      BY <1>1, <1>2 DEF StartPressed
    <2> QED
      BY <1>0, <1>1, <2>1, OneChannel DEF GoesOnWith
  <1>3. CASE WriteConcat(c)
    <2>0. UNCHANGED restarts /\ child[c] = "starting" /\ plays[c] = None
      BY <1>3 DEF WriteConcat
    <2>1. CASE /\ child' = [child EXCEPT ![c] = "none"] /\ status' = [status EXCEPT ![c] = "error"]
               /\ early' = early \ {c} /\ UNCHANGED plays
      <3>1. /\ child'[c] = "none" /\ plays'[c] = None
            /\ \A d \in Channels \ {c} : UNCHANGED <<child[d], plays[d], status[d]>>
            /\ DOMAIN child' = Channels /\ DOMAIN plays' = Channels /\ DOMAIN status' = Channels
        BY <1>1, <2>0, <2>1
      <3> QED
        BY <1>0, <2>0, <2>1, <3>1, OneChannel DEF GoesOnWith
    <2>2. CASE /\ \E order \in IF playlist = None THEN {<<>>} ELSE Orders(playlist, ByPosition(items)) :
                     plays' = [plays EXCEPT ![c] = order]
               /\ UNCHANGED <<child, status, early>>
      <3>1. PICK order \in IF playlist = None THEN {<<>>} ELSE Orders(playlist, ByPosition(items)) :
                     plays' = [plays EXCEPT ![c] = order]
        BY <2>2
      <3>2. /\ plays'[c] = order /\ child'[c] = "starting"
            /\ \A d \in Channels \ {c} : UNCHANGED <<child[d], plays[d], status[d]>>
            /\ DOMAIN child' = Channels /\ DOMAIN plays' = Channels /\ DOMAIN status' = Channels
        BY <1>1, <2>0, <2>2, <3>1
      <3>3. ~torn /\ ~Saving /\ playlist # None => \E list \in Remains : plays'[c] \in Orders(playlist, list)
        BY <3>1, <3>2, ReadRemains
      <3> QED
        BY <1>0, <1>1, <2>0, <2>2, <3>2, <3>3, OneChannel
    <2>3. PICK order \in IF playlist = None THEN {<<>>} ELSE Orders(playlist, ByPosition(items)) :
              IF order = <<>>
              THEN /\ child' = [child EXCEPT ![c] = "none"]
                   /\ status' = [status EXCEPT ![c] = "error"]
                   /\ early' = early \ {c}
                   /\ UNCHANGED plays
              ELSE plays' = [plays EXCEPT ![c] = order] /\ UNCHANGED <<child, status, early>>
      BY <1>3 DEF WriteConcat
    <2> QED
      BY <2>1, <2>2, <2>3
  <1>4. CASE Started(c)
    <2>1. /\ child[c] = "starting" /\ plays[c] # None /\ UNCHANGED <<restarts, early>>
          /\ child'[c] = "running" /\ status'[c] = "running" /\ plays'[c] = plays[c]
          /\ \A d \in Channels \ {c} : UNCHANGED <<child[d], plays[d], status[d]>>
          /\ DOMAIN child' = Channels /\ DOMAIN plays' = Channels /\ DOMAIN status' = Channels
      BY <1>1, <1>4 DEF Started
    <2> QED
      BY <1>0, <1>1, <2>1, OneChannel DEF GoesOnWith
  <1>5. CASE TakeRestart(c)
    <2>1. /\ restarts' = restarts \ {c} /\ plays'[c] = plays[c] /\ status'[c] = status[c]
          /\ child'[c] = CASE child[c] = "running" -> "ending"
                           [] child[c] = "none" -> "starting"
                           [] OTHER -> child[c]
          /\ early' = IF child[c] = "none" /\ Saving THEN early \cup {c} ELSE early
          /\ \A d \in Channels \ {c} : UNCHANGED <<child[d], plays[d], status[d]>>
          /\ DOMAIN child' = Channels /\ DOMAIN plays' = Channels /\ DOMAIN status' = Channels
      BY <1>1, <1>5 DEF TakeRestart
    <2>2. child'[c] = IF child[c] = "running" THEN "ending" ELSE IF child[c] = "none" THEN "starting" ELSE child[c]
      BY <2>1
    <2>3. child'[c] = "none" => plays'[c] = None
      BY <1>1, <2>1, <2>2
    <2>4. Saving /\ child'[c] = "starting" => c \in early'
      BY <1>1, <2>1, <2>2
    <2>5. GoesOnWith(c)' => GoesOnWith(c) /\ child'[c] = "starting"
      BY <1>1, <2>1, <2>2 DEF GoesOnWith
    <2> QED
      BY <1>0, <1>1, <2>1, <2>3, <2>4, <2>5, OneChannel
  <1>6. CASE Ended(c)
    <2>1. /\ child'[c] = "none" /\ plays'[c] = None /\ UNCHANGED restarts /\ early' = early \ {c}
          /\ \A d \in Channels \ {c} : UNCHANGED <<child[d], plays[d], status[d]>>
          /\ DOMAIN child' = Channels /\ DOMAIN plays' = Channels /\ DOMAIN status' = Channels
      BY <1>1, <1>6 DEF Ended
    <2> QED
      BY <1>0, <2>1, OneChannel DEF GoesOnWith
  <1> QED
    BY <1>2, <1>3, <1>4, <1>5, <1>6 DEF Stream

\* The inductive invariant: which channels may still have an older list than the saved one.
THEOREM ChannelsInvHolds == Spec => []ChannelsInv
  <1>1. Init => ChannelsInv
    BY DEF Init, ChannelsInv
  <1>2. ChannelsInv /\ ItemsInv /\ FilesInv /\ [Next]_vars => ChannelsInv'
    <2> SUFFICES ASSUME ChannelsInv, ItemsInv, FilesTypeOK, [Next]_vars PROVE ChannelsInv'
      BY DEF FilesInv
    <2>1. CASE RemovePlaylist
      <3>1. playlist' = None /\ UNCHANGED <<req, child, plays, status, early>>
        BY <2>1 DEF RemovePlaylist, channelVars
      <3> QED
        BY <3>1 DEF ChannelsInv, Saving
    <2>2. CASE ApiCrashes
      <3>1. torn' = (torn \/ Saving) /\ UNCHANGED <<playlist, items, asked, channelVars, restarts, early>>
        BY <2>2 DEF ApiCrashes, playlistVars
      <3>2. ~Saving'
        BY <2>2, NoRequestWorks DEF ApiCrashes, Saving, SavingPc, ListPc, FieldsPc
      <3>3. ListsSaved' = ListsSaved
        BY <3>1 DEF ListsSaved, GoesOnWith, channelVars, Remains, ByPosition, Sortings, Reorders
      <3> QED
        BY <3>1, <3>2, <3>3 DEF ChannelsInv, channelVars
    <2>3. CASE UNCHANGED vars
      <3>1. Aside /\ UNCHANGED <<playlist, channelVars, restarts, early>>
        BY <2>3 DEF vars, historyVars, playlistVars, channelVars, Aside
      <3> QED
        BY <3>1, ChannelsUndisturbed
    <2> QED
      BY <2>1, <2>2, <2>3, LibraryKeepsChannels, PlaylistKeepsChannels, StreamKeepsChannels DEF Next
  <1> QED
    BY <1>1, <1>2, ItemsInvHolds, FilesInvHolds, PTL DEF Spec

\* No channel goes on with an old list: once a save has ended and the worker has taken the
\* restarts it asked for, a channel that runs plays the saved list, of which videos may be
\* gone since; for any number of channels, saves and lists, and with crashes of the API and
\* ends of FFmpeg at any time.
THEOREM ChannelsPlaySaved == Spec => []PlaysSaved
  <1>1. ChannelsInv => PlaysSaved
    BY DEF ChannelsInv, ListsSaved, GoesOnWith, PlaysSaved
  <1> QED
    BY <1>1, ChannelsInvHolds, PTL
=============================================================================
