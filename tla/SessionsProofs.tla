--------------------------- MODULE SessionsProofs ---------------------------
(***************************************************************************)
(* What is proved of the sessions of a browser, for any tabs, calls and    *)
(* tokens: where every good refresh token is, what a logout leaves, and    *)
(* when a refresh finds its token revoked.                                 *)
(*                                                                         *)
(* The argument follows the pair of tokens through the call that has asked *)
(* for it.  From its issue to the answer it is good and known to this call *)
(* only (OneCall, OwnPair); a tab has one refresh at a time (OneRefresh),  *)
(* so a cookie's token that is revoked was used up by a refresh that is    *)
(* still at work, or by a tab on record (CookieUsed).                      *)
(***************************************************************************)
EXTENDS Sessions, TLAPS

Ops == {"get", "me", "login", "logout"}
Pcs == {"idle", "denied", "waits", "verify", "del", "set", "answer"}

CallType ==
    [op : Ops \cup {None}, pc : Pcs, key : Nat \cup {None}, new : Nat \cup {None}, good : BOOLEAN]

TypeOK ==
    /\ issued \in Nat /\ live \subseteq 1..issued /\ active \in BOOLEAN
    /\ cookie \in (1..issued) \cup {None} /\ stored \in BOOLEAN
    /\ tab \in [Tabs -> [page : {"login", "loading", "app"}, token : BOOLEAN]]
    /\ call \in [Calls -> CallType]
    /\ taken \subseteq Tabs \cup {None} /\ ended \in BOOLEAN /\ faults \in 0..MaxFaults + 1

Refresh(q) == q.op \in {"get", "me"}

\* A pair has been issued for call q and not arrived yet.
Brings(q) == q.op # "logout" /\ q.pc = "answer"

\* The token that call q carried has been revoked by it.
Revoker(q) == (Refresh(q) /\ q.pc \in {"set", "answer"}) \/ (q.op = "logout" /\ q.pc = "answer")

\* Refresh q of its token is past the check of the key.
Rotates(q) == Refresh(q) /\ q.pc \in {"del", "set", "answer"}

\* The calls have the steps of what they are for.
Steps(q) ==
    /\ q.pc = "idle" <=> q.op = None
    /\ q.op = "login" => q.pc \in {"set", "answer"} /\ q.key = None
    /\ q.op = "logout" => q.pc \in {"denied", "del", "answer"}
    /\ q.key = None \/ q.key \in 1..issued
    /\ ~Brings(q) => q.new = None

OneCall(c) ==
    /\ Steps(call[c])
    /\ Brings(call[c]) => call[c].new \in live /\ call[c].new # cookie
    /\ Revoker(call[c]) => call[c].key \notin live
    /\ Rotates(call[c]) => call[c].key # None /\ (call[c].key = cookie => TabOf[c] \in taken)

\* Nobody else has a pair that is on its way.
OwnPair(c) ==
    Brings(call[c]) =>
        \A d \in Calls : call[d].key # call[c].new /\ (d # c => call[d].new # call[c].new)

OneRefresh(c, d) ==
    /\ c # d /\ TabOf[c] = TabOf[d] =>
          ~(Refresh(call[c]) /\ Busy(call[c]) /\ Refresh(call[d]) /\ Busy(call[d]))
    /\ c # d /\ TabOf[c] = TabOf[d] /\ call[c].op = "me" => call[d].pc = "idle"
    /\ call[c].op = "me" => tab[TabOf[c]].page = "loading"

\* The cookie's token was used up by somebody known.
CookieUsed ==
    cookie # None /\ cookie \notin live /\ faults = 0 /\ None \notin taken =>
        \E d \in Calls : Refresh(call[d]) /\ call[d].pc \in {"set", "answer"} /\ call[d].key = cookie

EndedInv ==
    ended => /\ cookie = None /\ live \subseteq left
             /\ \A c \in Calls : Busy(call[c]) => call[c].pc = "verify" /\ call[c].key = None

SessionsInv ==
    /\ TypeOK
    /\ ~active => faults > 0
    /\ \A c \in Calls : OneCall(c) /\ OwnPair(c)
    /\ \A c, d \in Calls : OneRefresh(c, d)
    /\ CookieUsed
    /\ NoStrayTokens
    /\ EndedInv

----------------------------------------------------------------------------
\* What the parts of a call that is over are.
LEMMA NoCallFacts ==
    /\ NoCall \in CallType
    /\ NoCall.op = None /\ NoCall.pc = "idle" /\ NoCall.key = None /\ NoCall.new = None
    /\ ~Refresh(NoCall) /\ ~Brings(NoCall) /\ ~Revoker(NoCall) /\ ~Rotates(NoCall) /\ ~Busy(NoCall)
    /\ Steps(NoCall)
    /\ NoCall.op # "me" /\ NoCall.op # "logout"
BY SessionsAssumption
   DEF NoCall, CallType, Ops, Pcs, Refresh, Brings, Revoker, Rotates, Busy, Steps

LEMMA SessionsStart == Init => SessionsInv
<1> SUFFICES ASSUME Init PROVE SessionsInv
  OBVIOUS
<1>1. \A c \in Calls : call[c] = NoCall
  BY DEF Init
<1>2. TypeOK
  <2>1. tab \in [Tabs -> [page : {"login", "loading", "app"}, token : BOOLEAN]]
    BY DEF Init, Closed
  <2>2. call \in [Calls -> CallType]
    BY NoCallFacts DEF Init
  <2>3. 0 \in 0..MaxFaults + 1
    BY SessionsAssumption
  <2> QED
    BY <2>1, <2>2, <2>3 DEF Init, TypeOK
<1>3. \A c \in Calls : OneCall(c) /\ OwnPair(c)
  BY <1>1, NoCallFacts DEF OneCall, OwnPair
<1>4. \A c, d \in Calls : OneRefresh(c, d)
  BY <1>1, NoCallFacts DEF OneRefresh
<1> QED
  BY <1>2, <1>3, <1>4 DEF Init, SessionsInv, CookieUsed, NoStrayTokens, EndedInv

\* The type of what a step of a call leaves alone.
LEMMA Typed ==
    ASSUME SessionsInv, NEW c \in Calls
    PROVE  /\ call[c] \in CallType /\ Steps(call[c])
           /\ TabOf[c] \in Tabs /\ tab[TabOf[c]].page \in {"login", "loading", "app"}
           /\ c \in Beside(c)
           /\ None \notin live
<1>1. call[c] \in CallType /\ Steps(call[c])
  BY DEF SessionsInv, TypeOK, OneCall
<1>2. TabOf[c] \in Tabs
  BY SessionsAssumption
<1>3. tab[TabOf[c]].page \in {"login", "loading", "app"}
  BY <1>2 DEF SessionsInv, TypeOK
<1>4. None \notin live
  <2>1. None \notin Nat
    BY SessionsAssumption
  <2>2. live \subseteq 1..issued /\ issued \in Nat
    BY DEF SessionsInv, TypeOK
  <2>3. \A j \in 1..issued : j \in Nat
    BY <2>2
  <2>4. live \subseteq Nat
    BY <2>2, <2>3
  <2> QED
    BY <2>1, <2>4
<1> QED
  BY <1>1, <1>2, <1>3, <1>4 DEF Beside

\* A call that asks, waits, or has found its key: nothing is issued, revoked or lost.
LEMMA QuietStep ==
    ASSUME SessionsInv, NEW c \in Calls, NEW q \in CallType, Sets(c, q),
           UNCHANGED <<serverVars, cookie, left>>, stored' \in BOOLEAN,
           tab' \in [Tabs -> [page : {"login", "loading", "app"}, token : BOOLEAN]],
           taken \subseteq taken', taken' \subseteq taken \cup {TabOf[c]},
           faults' \in 0..MaxFaults + 1, faults' >= faults, ended' \in BOOLEAN,
           ended' => ended /\ (Busy(q) => q.pc = "verify" /\ q.key = None),
           Steps(q), ~Brings(q), ~Brings(call[c]), ~Revoker(q), ~Rotates(call[c]),
           q.key \in {None, cookie, call[c].key},
           Rotates(q) => q.key # None /\ (q.key = cookie => TabOf[c] \in taken'),
           \A d, e \in Calls : OneRefresh(d, e)'
    PROVE  SessionsInv'
<1>1. call'[c] = q /\ \A d \in Calls \ {c} : call'[d] = call[d]
  BY DEF Sets, SessionsInv, TypeOK
<1>2. TypeOK'
  BY Typed DEF Sets, SessionsInv, TypeOK, serverVars
<1>3. TypeOK /\ issued' = issued /\ live' = live /\ active' = active /\ cookie' = cookie /\ left' = left
  BY DEF SessionsInv, serverVars
<1>4. q.new = None /\ call[c].new = None
  BY Typed DEF Steps
<1>5. ASSUME NEW d \in Calls
      PROVE  OneCall(d)'
  <2>1. CASE d = c
    BY <1>1, <1>3, <2>1 DEF OneCall, Steps
  <2>2. CASE d # c
    BY <1>1, <1>3, <2>2 DEF OneCall, Steps, SessionsInv
  <2> QED
    BY <2>1, <2>2
<1>6. ASSUME NEW d \in Calls, Brings(call'[d]), NEW e \in Calls
      PROVE  call'[e].key # call'[d].new /\ (e # d => call'[e].new # call'[d].new)
  <2>1. d # c /\ call'[d] = call[d] /\ Brings(call[d])
    BY <1>1, <1>6
  <2>2. call[d].new \in live /\ call[d].new # cookie /\ call[d].new # None
    BY <2>1, Typed DEF SessionsInv, OneCall
  <2>3. call[e].key # call[d].new /\ (e # d => call[e].new # call[d].new) /\ call[c].key # call[d].new
    BY <2>1 DEF SessionsInv, OwnPair
  <2>4. CASE e = c
    BY <1>1, <1>4, <2>1, <2>2, <2>3, <2>4
  <2>5. CASE e # c
    BY <1>1, <2>1, <2>3, <2>5
  <2> QED
    BY <2>4, <2>5
<1>7. CookieUsed'
  <2> SUFFICES ASSUME cookie' # None, cookie' \notin live', faults' = 0, None \notin taken'
               PROVE  (\E d \in Calls : /\ Refresh(call[d]) /\ call[d].pc \in {"set", "answer"}
                                        /\ call[d].key = cookie)'
    BY DEF CookieUsed
  <2>1. faults = 0 /\ None \notin taken
    BY <1>3 DEF TypeOK
  <2>2. PICK d \in Calls : Refresh(call[d]) /\ call[d].pc \in {"set", "answer"} /\ call[d].key = cookie
    BY <1>3, <2>1 DEF SessionsInv, CookieUsed
  <2>3. d # c
    BY <2>2 DEF Rotates
  <2> QED
    BY <1>1, <1>3, <2>2, <2>3
<1>8. NoStrayTokens'
  <2> SUFFICES ASSUME NEW j \in live', j # cookie', j \notin left'
               PROVE  \E d \in Calls : call'[d].new = j
    BY DEF NoStrayTokens
  <2>1. PICK d \in Calls : call[d].new = j
    BY <1>3 DEF SessionsInv, NoStrayTokens
  <2>2. d # c
    BY <1>3, <1>4, <2>1, Typed
  <2> QED
    BY <1>1, <2>1, <2>2
<1>9. EndedInv'
  BY <1>1, <1>3 DEF SessionsInv, EndedInv
<1>10. \A d \in Calls : OwnPair(d)'
  BY <1>6 DEF OwnPair
<1> QED
  BY <1>2, <1>3, <1>5, <1>7, <1>8, <1>9, <1>10 DEF SessionsInv, TypeOK

\* The calls of D are over.
LEMMA Drops ==
    ASSUME SessionsInv, NEW D \in SUBSET Calls, issued' = issued, live' = live,
           call' = [d \in Calls |-> IF d \in D THEN NoCall ELSE call[d]],
           \A d \in Calls \ D : call[d].op = "me" => tab'[TabOf[d]].page = "loading"
    PROVE  /\ call' \in [Calls -> CallType]
           /\ \A d \in Calls : call'[d] = IF d \in D THEN NoCall ELSE call[d]
           /\ \A d \in Calls : Steps(call[d])' /\ OwnPair(d)'
           /\ \A d, e \in Calls : OneRefresh(d, e)'
<1>1. \A d \in Calls : call'[d] = IF d \in D THEN NoCall ELSE call[d]
  OBVIOUS
<1>2. call' \in [Calls -> CallType]
  BY NoCallFacts DEF SessionsInv, TypeOK
<1>3. ASSUME NEW d \in Calls
      PROVE  Steps(call[d])'
  BY <1>1, NoCallFacts, Typed DEF Steps
<1>4. ASSUME NEW d \in Calls, Brings(call'[d]), NEW e \in Calls
      PROVE  call'[e].key # call'[d].new /\ (e # d => call'[e].new # call'[d].new)
  <2>1. d \notin D /\ call'[d] = call[d] /\ Brings(call[d])
    BY <1>1, <1>4, NoCallFacts
  <2>2. call[d].new # None
    BY <2>1, Typed DEF SessionsInv, OneCall
  <2>3. call[e].key # call[d].new /\ (e # d => call[e].new # call[d].new)
    BY <2>1 DEF SessionsInv, OwnPair
  <2>4. CASE e \in D
    BY <1>1, <2>1, <2>2, <2>4, NoCallFacts
  <2>5. CASE e \notin D
    BY <1>1, <2>1, <2>3, <2>5
  <2> QED
    BY <2>4, <2>5
<1>5. ASSUME NEW d \in Calls, NEW e \in Calls
      PROVE  OneRefresh(d, e)'
  <2>1. OneRefresh(d, e)
    BY DEF SessionsInv
  <2>2. CASE d \in D
    BY <1>1, <2>2, NoCallFacts DEF OneRefresh
  <2>3. CASE d \notin D /\ e \in D
    <3>1. call'[d] = call[d] /\ call'[e] = NoCall
      BY <1>1, <2>3
    <3> QED
      BY <2>1, <2>3, <3>1, NoCallFacts DEF OneRefresh
  <2>4. CASE d \notin D /\ e \notin D
    BY <1>1, <2>1, <2>4 DEF OneRefresh
  <2> QED
    BY <2>2, <2>3, <2>4
<1> QED
  BY <1>1, <1>2, <1>3, <1>4, <1>5 DEF OwnPair

\* They are over with what would have come of them, and the cookie stays.
LEMMA DropStep ==
    ASSUME SessionsInv, NEW D \in SUBSET Calls, UNCHANGED <<issued, live, cookie, taken, ended>>,
           active' \in BOOLEAN, ~active' => faults' > 0,
           call' = [d \in Calls |-> IF d \in D THEN NoCall ELSE call[d]],
           left' = left \cup (live \cap {call[d].new : d \in D}), stored' \in BOOLEAN,
           tab' \in [Tabs -> [page : {"login", "loading", "app"}, token : BOOLEAN]],
           faults' \in 0..MaxFaults + 1, faults' >= faults,
           faults' > 0 \/ \A d \in D : ~(Refresh(call[d]) /\ call[d].pc \in {"set", "answer"}),
           \A d \in Calls \ D : call[d].op = "me" => tab'[TabOf[d]].page = "loading"
    PROVE  SessionsInv'
<1>1. /\ call' \in [Calls -> CallType]
      /\ \A d \in Calls : call'[d] = IF d \in D THEN NoCall ELSE call[d]
      /\ \A d \in Calls : Steps(call[d])' /\ OwnPair(d)'
      /\ \A d, e \in Calls : OneRefresh(d, e)'
  BY Drops
<1>2. TypeOK'
  BY <1>1 DEF SessionsInv, TypeOK
<1>3. ASSUME NEW d \in Calls
      PROVE  OneCall(d)'
  <2>1. OneCall(d) /\ Steps(call[d])'
    BY <1>1 DEF SessionsInv
  <2>2. CASE d \in D
    BY <1>1, <2>1, <2>2, NoCallFacts DEF OneCall
  <2>3. CASE d \notin D
    BY <1>1, <2>1, <2>3 DEF OneCall
  <2> QED
    BY <2>2, <2>3
<1>4. CookieUsed'
  <2> SUFFICES ASSUME cookie' # None, cookie' \notin live', faults' = 0, None \notin taken'
               PROVE  (\E d \in Calls : /\ Refresh(call[d]) /\ call[d].pc \in {"set", "answer"}
                                        /\ call[d].key = cookie)'
    BY DEF CookieUsed
  <2>1. faults = 0 /\ None \notin taken
    BY DEF SessionsInv, TypeOK
  <2>2. PICK d \in Calls : Refresh(call[d]) /\ call[d].pc \in {"set", "answer"} /\ call[d].key = cookie
    BY <2>1 DEF SessionsInv, CookieUsed
  <2>3. d \notin D
    BY <2>2
  <2> QED
    BY <1>1, <2>2, <2>3
<1>5. NoStrayTokens'
  <2> SUFFICES ASSUME NEW j \in live', j # cookie', j \notin left'
               PROVE  \E d \in Calls : call'[d].new = j
    BY DEF NoStrayTokens
  <2>1. PICK d \in Calls : call[d].new = j
    BY DEF SessionsInv, NoStrayTokens
  <2>2. d \notin D
    BY <2>1
  <2> QED
    BY <1>1, <2>1, <2>2
<1>6. EndedInv'
  BY <1>1, NoCallFacts DEF SessionsInv, EndedInv
<1> QED
  BY <1>1, <1>2, <1>3, <1>4, <1>5, <1>6 DEF SessionsInv

\* They are over, and the cookie is replaced or cleared by call c, which is one of them.
LEMMA CookieStep ==
    ASSUME SessionsInv, NEW c \in Calls, NEW j \in live \cup {None}, NewCookie(call[c], j),
           NEW D \in SUBSET Calls, UNCHANGED serverVars, c \in D,
           call' = [d \in Calls |-> IF d \in D THEN NoCall ELSE call[d]], stored' \in BOOLEAN,
           tab' \in [Tabs -> [page : {"login", "loading", "app"}, token : BOOLEAN]],
           faults' \in 0..MaxFaults + 1, faults' >= faults,
           call[c].key = None \/ Revoker(call[c]), call[c].new = j,
           \A d \in D : call[d].new \in {None, j},
           ended' \in BOOLEAN, ended' => j = None /\ \A d \in Calls : ~Busy(call[d]),
           \A d \in Calls \ D : call[d].op = "me" => tab'[TabOf[d]].page = "loading"
    PROVE  SessionsInv'
<1>1. /\ call' \in [Calls -> CallType]
      /\ \A d \in Calls : call'[d] = IF d \in D THEN NoCall ELSE call[d]
      /\ \A d \in Calls : Steps(call[d])' /\ OwnPair(d)'
      /\ \A d, e \in Calls : OneRefresh(d, e)'
  BY Drops DEF serverVars
<1>2. /\ issued' = issued /\ live' = live /\ active' = active /\ cookie' = j /\ taken' = {}
      /\ left' = left \cup ((live \cap {cookie}) \ {call[c].key})
  BY DEF NewCookie, serverVars
<1>3. TypeOK'
  BY <1>1, <1>2 DEF SessionsInv, TypeOK
<1>4. j # None => Brings(call[c])
  BY Typed DEF Steps
<1>5. ASSUME NEW d \in Calls
      PROVE  OneCall(d)'
  <2>1. OneCall(d) /\ Steps(call[d])'
    BY <1>1 DEF SessionsInv
  <2>2. CASE d \in D
    BY <1>1, <2>1, <2>2, NoCallFacts DEF OneCall
  <2>3. CASE d \notin D
    <3>1. call'[d] = call[d] /\ d # c
      BY <1>1, <2>3
    <3>2. Brings(call[d]) => call[d].new # j
      <4>1. CASE j = None
        BY <2>1, <4>1, Typed DEF OneCall
      <4>2. CASE j # None
        BY <1>4, <3>1, <4>2 DEF SessionsInv, OwnPair
      <4> QED
        BY <4>1, <4>2
    <3>3. Rotates(call[d]) => call[d].key # j
      <4>1. CASE j = None
        BY <2>1, <4>1 DEF OneCall
      <4>2. CASE j # None
        BY <1>4, <4>2 DEF SessionsInv, OwnPair
      <4> QED
        BY <4>1, <4>2
    <3> QED
      BY <1>2, <2>1, <3>1, <3>2, <3>3 DEF OneCall
  <2> QED
    BY <2>2, <2>3
<1>6. CookieUsed'
  BY <1>2 DEF CookieUsed
<1>7. NoStrayTokens'
  <2> SUFFICES ASSUME NEW k \in live', k # cookie', k \notin left'
               PROVE  \E d \in Calls : call'[d].new = k
    BY DEF NoStrayTokens
  <2>1. k \in live /\ k # None /\ k # j /\ k \notin left
    BY <1>2, Typed
  <2>2. k # call[c].key
    BY <2>1, Typed DEF SessionsInv, OneCall
  <2>3. k # cookie
    BY <1>2, <2>1, <2>2
  <2>4. PICK d \in Calls : call[d].new = k
    BY <2>1, <2>3 DEF SessionsInv, NoStrayTokens
  <2>5. d \notin D
    BY <2>1, <2>4
  <2> QED
    BY <1>1, <2>4, <2>5
<1>8. EndedInv'
  <2> SUFFICES ASSUME ended'
               PROVE  /\ cookie' = None /\ live' \subseteq left'
                      /\ \A d \in Calls : Busy(call'[d]) => call'[d].pc = "verify" /\ call'[d].key = None
    BY DEF EndedInv
  <2>1. \A d \in Calls : ~Busy(call'[d])
    BY <1>1, NoCallFacts
  <2>2. \A d \in Calls : call'[d].new = None
    BY <1>1, <2>1 DEF Busy, Steps, Brings
  <2>3. live' \subseteq left'
    BY <1>2, <1>7, <2>2, Typed DEF NoStrayTokens
  <2> QED
    BY <1>2, <2>1, <2>3
<1> QED
  BY <1>1, <1>2, <1>3, <1>5, <1>6, <1>7, <1>8 DEF SessionsInv, TypeOK

\* Token j is revoked, which those calls carry that go on.
LEMMA RevokeStep ==
    ASSUME SessionsInv, NEW j, live' = live \ {j}, left \cap live' \subseteq left',
           UNCHANGED <<issued, active, cookie, stored, tab, ended, faults>>,
           call' \in [Calls -> CallType],
           \A d \in Calls :
              \/ call'[d] = call[d]
              \/ /\ call'[d].op = call[d].op /\ call'[d].key = call[d].key /\ call'[d].new = call[d].new
                 /\ call[d].key = j /\ call[d].pc = "del"
                 /\ \/ Refresh(call[d]) /\ call'[d].pc = "set"
                    \/ call[d].op = "logout" /\ call'[d].pc = "answer",
           \A d \in Calls : Brings(call[d]) => call[d].new # j,
           taken \subseteq taken', taken' \subseteq taken \cup {None},
           cookie = j /\ None \notin taken' =>
              \E d \in Calls : Refresh(call'[d]) /\ call'[d].pc = "set" /\ call'[d].key = j
    PROVE  SessionsInv'
<1>1. TypeOK'
  BY DEF SessionsInv, TypeOK
<1>2. ASSUME NEW d \in Calls
      PROVE  /\ call'[d].op = call[d].op /\ call'[d].key = call[d].key /\ call'[d].new = call[d].new
             /\ Steps(call[d])' /\ Brings(call'[d]) = Brings(call[d])
             /\ Refresh(call'[d]) = Refresh(call[d]) /\ Busy(call'[d]) = Busy(call[d])
             /\ Rotates(call'[d]) = Rotates(call[d])
             /\ Revoker(call'[d]) => Revoker(call[d]) \/ call[d].key = j
             /\ call[d].pc = "idle" <=> call'[d].pc = "idle"
  <2>1. CASE call'[d] = call[d]
    BY <2>1, Typed DEF Steps
  <2>2. CASE call'[d] # call[d]
    BY <2>2, Typed DEF Steps, Refresh, Brings, Busy, Rotates, Revoker
  <2> QED
    BY <2>1, <2>2
<1>3. ASSUME NEW d \in Calls
      PROVE  OneCall(d)'
  <2>1. OneCall(d)
    BY DEF SessionsInv
  <2> QED
    BY <1>2, <2>1 DEF OneCall
<1>4. \A d \in Calls : OwnPair(d)'
  BY <1>2 DEF SessionsInv, OwnPair
<1>5. \A d, e \in Calls : OneRefresh(d, e)'
  BY <1>2 DEF SessionsInv, OneRefresh
<1>6. CookieUsed'
  <2> SUFFICES ASSUME cookie' # None, cookie' \notin live', faults' = 0, None \notin taken'
               PROVE  (\E d \in Calls : /\ Refresh(call[d]) /\ call[d].pc \in {"set", "answer"}
                                        /\ call[d].key = cookie)'
    BY DEF CookieUsed
  <2>1. CASE cookie = j
    BY <2>1
  <2>2. CASE cookie # j
    <3>1. PICK d \in Calls : Refresh(call[d]) /\ call[d].pc \in {"set", "answer"} /\ call[d].key = cookie
      BY <2>2 DEF SessionsInv, CookieUsed
    <3> QED
      BY <2>2, <3>1
  <2> QED
    BY <2>1, <2>2
<1>7. NoStrayTokens'
  <2> SUFFICES ASSUME NEW k \in live', k # cookie', k \notin left'
               PROVE  \E d \in Calls : call'[d].new = k
    BY DEF NoStrayTokens
  <2>1. PICK d \in Calls : call[d].new = k
    BY DEF SessionsInv, NoStrayTokens
  <2> QED
    BY <1>2, <2>1
<1>8. EndedInv'
  <2> SUFFICES ASSUME ended'
               PROVE  /\ cookie' = None /\ live' \subseteq left'
                      /\ \A d \in Calls : Busy(call'[d]) => call'[d].pc = "verify" /\ call'[d].key = None
    BY DEF EndedInv
  <2>1. /\ cookie = None /\ live \subseteq left
        /\ \A d \in Calls : Busy(call[d]) => call[d].pc = "verify" /\ call[d].key = None
    BY DEF SessionsInv, EndedInv
  <2> QED
    BY <1>2, <2>1
<1> QED
  BY <1>1, <1>3, <1>4, <1>5, <1>6, <1>7, <1>8 DEF SessionsInv

\* Call c is given a pair.
LEMMA IssueStep ==
    ASSUME SessionsInv, NEW c \in Calls, call[c].pc = "set", issued' = issued + 1,
           live' = live \cup {issued + 1},
           Sets(c, [call[c] EXCEPT !.pc = "answer", !.new = issued + 1, !.good = TRUE]),
           UNCHANGED <<active, cookie, stored, tab, taken, left, ended, faults>>
    PROVE  SessionsInv'
<1> DEFINE q == [call[c] EXCEPT !.pc = "answer", !.new = issued + 1, !.good = TRUE]
<1>1. call'[c] = q /\ \A d \in Calls \ {c} : call'[d] = call[d]
  BY DEF Sets, SessionsInv, TypeOK
<1>2. issued \in Nat /\ live \subseteq 1..issued /\ None \notin Nat
      /\ (cookie = None \/ cookie \in 1..issued)
  BY SessionsAssumption DEF SessionsInv, TypeOK
<1>3. /\ q \in CallType /\ q.op = call[c].op /\ q.pc = "answer" /\ q.key = call[c].key
      /\ q.new = issued + 1
  <2>1. call[c] \in CallType /\ issued + 1 \in Nat
    BY <1>2, Typed
  <2> QED
    BY <2>1 DEF CallType, Pcs
<1>4. call[c].op \in {"get", "me", "login"} /\ call[c].new = None /\ Busy(call[c])
  BY Typed DEF CallType, Ops, Steps, Brings, Busy
<1> HIDE DEF q
<1>5. Brings(q) /\ Busy(q) /\ Refresh(q) = Refresh(call[c])
      /\ Revoker(q) = Revoker(call[c]) /\ Rotates(q) = Rotates(call[c])
  BY <1>3, <1>4 DEF Brings, Busy, Refresh, Revoker, Rotates
<1>6. TypeOK'
  <2>1. call' \in [Calls -> CallType]
    BY <1>3 DEF Sets, SessionsInv, TypeOK, q
  <2>2. issued' \in Nat /\ live' \subseteq 1..issued' /\ (cookie' = None \/ cookie' \in 1..issued')
    BY <1>2
  <2> QED
    BY <2>1, <2>2 DEF SessionsInv, TypeOK
<1>7. \A d \in Calls : (call[d].key = None \/ call[d].key \in 1..issued) /\ call[d].key # issued + 1
  BY <1>2, Typed DEF Steps
<1>8. \A d \in Calls : Brings(call[d]) => call[d].new # issued + 1
  BY <1>2 DEF SessionsInv, OneCall
<1>9. ASSUME NEW d \in Calls
      PROVE  Steps(call[d])'
  <2>1. call'[d].key = call[d].key
    BY <1>1, <1>3
  <2>2. call'[d].key = None \/ call'[d].key \in 1..issued'
    BY <1>2, <1>7, <2>1
  <2>3. CASE d = c
    BY <1>1, <1>3, <1>4, <1>5, <2>2, <2>3, Typed, SessionsAssumption DEF Steps
  <2>4. CASE d # c
    BY <1>1, <2>2, <2>4, Typed DEF Steps
  <2> QED
    BY <2>3, <2>4
<1>10. ASSUME NEW d \in Calls
       PROVE  OneCall(d)'
  <2>1. OneCall(d) /\ Steps(call[d])'
    BY <1>9 DEF SessionsInv
  <2>2. CASE d = c
    BY <1>1, <1>2, <1>3, <1>5, <1>7, <2>1, <2>2 DEF OneCall
  <2>3. CASE d # c
    BY <1>1, <1>7, <2>1, <2>3 DEF OneCall
  <2> QED
    BY <2>2, <2>3
<1>11. ASSUME NEW d \in Calls, Brings(call'[d]), NEW e \in Calls
       PROVE  call'[e].key # call'[d].new /\ (e # d => call'[e].new # call'[d].new)
  <2>1. call'[e].key = call[e].key
    BY <1>1, <1>3
  <2>2. CASE d = c
    <3>1. call'[e].key # call'[d].new
      BY <1>1, <1>3, <1>7, <2>1, <2>2
    <3>2. call[e].new # issued + 1
      BY <1>2, <1>8, Typed DEF Steps
    <3> QED
      BY <1>1, <1>3, <2>2, <3>1, <3>2
  <2>3. CASE d # c
    <3>1. Brings(call[d]) /\ call'[d] = call[d]
      BY <1>1, <1>11, <2>3
    <3>2. call[e].key # call[d].new /\ (e # d => call[e].new # call[d].new)
      BY <3>1 DEF SessionsInv, OwnPair
    <3> QED
      BY <1>1, <1>3, <1>8, <2>1, <3>1, <3>2
  <2> QED
    BY <2>2, <2>3
<1>12. ASSUME NEW d \in Calls, NEW e \in Calls
       PROVE  OneRefresh(d, e)'
  <2>1. \A f \in Calls : call'[f].op = call[f].op /\ (Refresh(call'[f]) => Refresh(call[f]))
                         /\ (Busy(call'[f]) => Busy(call[f]))
                         /\ (call[f].pc = "idle" => call'[f].pc = "idle")
    BY <1>1, <1>3, <1>4, <1>5
  <2> QED
    BY <2>1 DEF SessionsInv, OneRefresh
<1>13. CookieUsed'
  <2> SUFFICES ASSUME cookie' # None, cookie' \notin live', faults' = 0, None \notin taken'
               PROVE  (\E d \in Calls : /\ Refresh(call[d]) /\ call[d].pc \in {"set", "answer"}
                                        /\ call[d].key = cookie)'
    BY DEF CookieUsed
  <2>1. PICK d \in Calls : Refresh(call[d]) /\ call[d].pc \in {"set", "answer"} /\ call[d].key = cookie
    BY DEF SessionsInv, CookieUsed
  <2> QED
    BY <1>1, <1>3, <1>5, <2>1
<1>14. NoStrayTokens'
  <2> SUFFICES ASSUME NEW k \in live', k # cookie', k \notin left'
               PROVE  \E d \in Calls : call'[d].new = k
    BY DEF NoStrayTokens
  <2>1. CASE k = issued + 1
    BY <1>1, <1>3, <2>1
  <2>2. CASE k # issued + 1
    <3>1. k \in live
      BY <2>2
    <3>2. PICK d \in Calls : call[d].new = k
      BY <3>1 DEF SessionsInv, NoStrayTokens
    <3>3. d # c
      BY <1>4, <3>1, <3>2, Typed
    <3> QED
      BY <1>1, <3>2, <3>3
  <2> QED
    BY <2>1, <2>2
<1>15. ~ended
  BY <1>4 DEF SessionsInv, EndedInv
<1>16. \A d \in Calls : OwnPair(d)'
  BY <1>11 DEF OwnPair
<1> QED
  BY <1>6, <1>10, <1>12, <1>13, <1>14, <1>15, <1>16 DEF SessionsInv, EndedInv

----------------------------------------------------------------------------
\* A page with or without a token is a page.
LEMMA ShowsType ==
    ASSUME SessionsInv, NEW t \in Tabs, NEW page \in {"login", "loading", "app"},
           NEW good \in BOOLEAN, Shows(t, page, good)
    PROVE  /\ tab' \in [Tabs -> [page : {"login", "loading", "app"}, token : BOOLEAN]]
           /\ stored' \in BOOLEAN
           /\ tab'[t].page = page
           /\ \A u \in Tabs \ {t} : tab'[u] = tab[u]
BY DEF Shows, SessionsInv, TypeOK

\* A fault is counted.
LEMMA FaultCounted ==
    ASSUME SessionsInv, NEW c \in Calls, Fault \/ Lost(c)
    PROVE  faults' \in 0..MaxFaults + 1 /\ faults' > 0 /\ faults' >= faults
BY SessionsAssumption DEF Fault, Lost, SessionsInv, TypeOK

\* fetchMe() is alone in its tab, while it loads.
LEMMA LoadsAlone ==
    ASSUME SessionsInv, NEW c \in Calls, NEW d \in Calls, call[d].op = "me",
           TabOf[d] = TabOf[c], call[c].pc # "idle"
    PROVE  d = c /\ tab[TabOf[c]].page = "loading"
BY DEF SessionsInv, OneRefresh

LEMMA CallsOfAPage ==
    ASSUME SessionsInv, NEW c \in Calls, SendCall(c) \/ OpenPanel(c) \/ CallDenied(c)
    PROVE  SessionsInv'
<1>1. /\ call[c] \in CallType /\ Steps(call[c]) /\ TypeOK /\ TabOf[c] \in Tabs
      /\ tab[TabOf[c]].page \in {"login", "loading", "app"} /\ faults >= 0
  BY Typed DEF SessionsInv, TypeOK
<1>2. CASE SendCall(c)
  <2> DEFINE q == [NoCall EXCEPT !.op = "get", !.pc = "denied"]
  <2>1. /\ q \in CallType /\ q.op = "get" /\ q.pc = "denied" /\ q.key = None /\ q.new = None
    BY NoCallFacts DEF CallType, Ops, Pcs
  <2>2. /\ Sets(c, q) /\ UNCHANGED <<serverVars, cookie, stored, tab, taken, left, ended, faults>>
        /\ call[c].pc = "idle" /\ tab[TabOf[c]].page = "app"
    BY <1>2 DEF SendCall, histVars
  <2> HIDE DEF q
  <2>3. Steps(q) /\ ~Brings(q) /\ ~Revoker(q) /\ ~Rotates(q) /\ ~Busy(q) /\ Refresh(q)
    BY <2>1, SessionsAssumption DEF Steps, Brings, Revoker, Rotates, Busy, Refresh
  <2>4. ~Brings(call[c]) /\ ~Rotates(call[c])
    BY <2>2 DEF Brings, Rotates
  <2>5. call'[c] = q /\ \A d \in Calls \ {c} : call'[d] = call[d]
    BY <2>2, <1>1 DEF Sets, TypeOK
  <2>6. ASSUME NEW d \in Calls, NEW e \in Calls
        PROVE  OneRefresh(d, e)'
    <3>1. \A f \in Calls : TabOf[f] = TabOf[c] => call[f].op # "me"
      BY <2>2 DEF SessionsInv, OneRefresh
    <3> QED
      BY <2>1, <2>2, <2>3, <2>5, <3>1 DEF SessionsInv, OneRefresh
  <2> QED
    BY <1>1, <2>1, <2>2, <2>3, <2>4, <2>6, QuietStep DEF TypeOK
<1>3. CASE OpenPanel(c)
  <2>1. \A d \in Calls : TabOf[d] = TabOf[c] => call[d].pc = "idle" /\ call[d].op # "me"
    <3>1. \A d \in Calls : TabOf[d] = TabOf[c] => call[d].pc = "idle"
      BY <1>3 DEF OpenPanel, Beside
    <3> QED
      BY <3>1, Typed, SessionsAssumption DEF Steps
  <2>2. UNCHANGED <<serverVars, cookie, taken, left, ended>>
    BY <1>3 DEF OpenPanel
  <2>3. CASE Shows(TabOf[c], "app", stored) /\ UNCHANGED <<call, faults>>
    <3>1. /\ tab' \in [Tabs -> [page : {"login", "loading", "app"}, token : BOOLEAN]]
          /\ stored' \in BOOLEAN /\ \A u \in Tabs \ {TabOf[c]} : tab'[u] = tab[u]
      BY <1>1, <2>3, ShowsType DEF TypeOK
    <3> DEFINE D == {}
    <3>2. /\ D \in SUBSET Calls /\ \A d \in D : FALSE
          /\ call' = [d \in Calls |-> IF d \in D THEN NoCall ELSE call[d]]
      BY <1>1, <2>3 DEF TypeOK
    <3>3. \A d \in Calls \ D : call[d].op = "me" => tab'[TabOf[d]].page = "loading"
      BY <2>1, <3>1, SessionsAssumption DEF SessionsInv, OneRefresh
    <3>4. left' = left \cup (live \cap {call[d].new : d \in D})
      BY <2>2
    <3> HIDE DEF D
    <3>5. UNCHANGED <<issued, live, cookie, taken, ended>> /\ active' \in BOOLEAN
          /\ (~active' => faults' > 0) /\ faults' \in 0..MaxFaults + 1 /\ faults' >= faults
      BY <1>1, <2>2, <2>3 DEF serverVars, SessionsInv, TypeOK
    <3> QED
      BY <3>1, <3>2, <3>3, <3>4, <3>5, DropStep
  <2>4. CASE /\ Shows(TabOf[c], "loading", stored)
             /\ Sets(c, [NoCall EXCEPT !.op = "me", !.pc = "denied"])
             /\ UNCHANGED faults \/ Fault
    <3> DEFINE q == [NoCall EXCEPT !.op = "me", !.pc = "denied"]
    <3>1. /\ q \in CallType /\ q.op = "me" /\ q.pc = "denied" /\ q.key = None /\ q.new = None
      BY NoCallFacts DEF CallType, Ops, Pcs
    <3>2. Sets(c, q)
      BY <2>4
    <3> HIDE DEF q
    <3>3. Steps(q) /\ ~Brings(q) /\ ~Revoker(q) /\ ~Rotates(q) /\ ~Busy(q) /\ Refresh(q)
      BY <3>1, SessionsAssumption DEF Steps, Brings, Revoker, Rotates, Busy, Refresh
    <3>4. call[c].pc = "idle" /\ ~Brings(call[c]) /\ ~Rotates(call[c])
      BY <2>1 DEF Brings, Rotates
    <3>5. call'[c] = q /\ \A d \in Calls \ {c} : call'[d] = call[d]
      BY <3>2, <1>1 DEF Sets, TypeOK
    <3>6. /\ tab' \in [Tabs -> [page : {"login", "loading", "app"}, token : BOOLEAN]]
          /\ stored' \in BOOLEAN /\ tab'[TabOf[c]].page = "loading"
          /\ \A u \in Tabs \ {TabOf[c]} : tab'[u] = tab[u]
      BY <1>1, <2>4, ShowsType DEF TypeOK
    <3>7. ASSUME NEW d \in Calls, NEW e \in Calls
          PROVE  OneRefresh(d, e)'
      <4>1. OneRefresh(d, e)
        BY DEF SessionsInv
      <4>2. TabOf[d] \in Tabs /\ TabOf[e] \in Tabs
        BY SessionsAssumption
      <4>3. CASE TabOf[d] = TabOf[c]
        <5>1. \A f \in Calls \ {c} : TabOf[f] = TabOf[c] => call'[f].pc = "idle" /\ call'[f].op # "me"
          BY <2>1, <3>5
        <5> QED
          BY <3>3, <3>5, <3>6, <4>3, <5>1 DEF OneRefresh, Busy
      <4>4. CASE TabOf[d] # TabOf[c]
        <5>1. call'[d] = call[d] /\ tab'[TabOf[d]] = tab[TabOf[d]]
          BY <3>5, <3>6, <4>2, <4>4
        <5>2. TabOf[d] = TabOf[e] => call'[e] = call[e]
          BY <3>5, <4>4
        <5> QED
          BY <4>1, <5>1, <5>2 DEF OneRefresh
      <4> QED
        BY <4>3, <4>4
    <3>8. faults' \in 0..MaxFaults + 1 /\ faults' >= faults
      BY <1>1, <2>4, FaultCounted DEF TypeOK
    <3> QED
      BY <1>1, <2>2, <3>1, <3>2, <3>3, <3>4, <3>6, <3>7, <3>8, QuietStep DEF TypeOK
  <2> QED
    BY <1>3, <2>3, <2>4 DEF OpenPanel
<1>4. CASE CallDenied(c)
  <2> DEFINE q == IF call[c].op = "get" /\ Refreshing(c) THEN [call[c] EXCEPT !.pc = "waits"]
                  ELSE [call[c] EXCEPT !.pc = "verify", !.key = cookie]
  <2>1. /\ call[c].pc = "denied" /\ Refresh(call[c]) /\ Sets(c, q)
        /\ UNCHANGED <<serverVars, cookie, stored, tab, taken, left, ended, faults>>
    BY <1>4 DEF CallDenied, Refreshes, Refresh, Go, histVars
  <2>2. cookie = None \/ cookie \in 1..issued
    BY <1>1 DEF TypeOK
  <2>3. cookie \in Nat \cup {None}
    BY <1>1 DEF TypeOK
  <2>4. /\ q \in CallType /\ q.op = call[c].op /\ q.pc \in {"waits", "verify"} /\ q.new = call[c].new
        /\ q.key \in {cookie, call[c].key}
        /\ q.pc = "verify" => q.key = cookie /\ ~(call[c].op = "get" /\ Refreshing(c))
    BY <1>1, <2>3 DEF CallType, Pcs
  <2> HIDE DEF q
  <2>5. Steps(q) /\ ~Brings(q) /\ ~Revoker(q) /\ ~Rotates(q) /\ Refresh(q) /\ (Busy(q) => q.pc = "verify")
    BY <1>1, <2>1, <2>2, <2>4, SessionsAssumption DEF Steps, Brings, Revoker, Rotates, Busy, Refresh
  <2>6. ~Brings(call[c]) /\ ~Rotates(call[c])
    BY <2>1 DEF Brings, Rotates
  <2>7. call'[c] = q /\ \A d \in Calls \ {c} : call'[d] = call[d]
    BY <2>1, <1>1 DEF Sets, TypeOK
  <2>8. ASSUME Busy(q), NEW d \in Calls \ {c}, TabOf[d] = TabOf[c], Refresh(call[d]), Busy(call[d])
        PROVE  FALSE
    <3>1. call[d].op # "me"
      BY <2>1, <2>8, LoadsAlone
    <3>2. call[c].op # "me"
      BY <2>8 DEF SessionsInv, OneRefresh, Busy
    <3> QED
      BY <2>1, <2>4, <2>5, <2>8, <3>1, <3>2 DEF Refreshing, Beside, Refresh
  <2>9. ASSUME NEW d \in Calls, NEW e \in Calls
        PROVE  OneRefresh(d, e)'
    <3>1. OneRefresh(d, e)
      BY DEF SessionsInv
    <3>2. \A f \in Calls : call'[f].op = call[f].op /\ (call[f].pc = "idle" => call'[f].pc = "idle")
      BY <2>1, <2>4, <2>7
    <3> QED
      BY <2>1, <2>7, <2>8, <3>1, <3>2 DEF OneRefresh
  <2>10. ended' => ended /\ (Busy(q) => q.pc = "verify" /\ q.key = None)
    BY <2>1, <2>4, <2>5 DEF SessionsInv, EndedInv
  <2> QED
    BY <1>1, <2>1, <2>4, <2>5, <2>6, <2>9, <2>10, QuietStep DEF TypeOK
<1> QED
  BY <1>2, <1>3, <1>4

\* A refused or lost refresh takes the calls of its tab with it.
LEMMA FailedRefresh ==
    ASSUME SessionsInv, NEW c \in Calls, RefreshFailed(c), Refresh(call[c]), Busy(call[c]),
           UNCHANGED <<serverVars, cookie, taken, ended>>,
           faults' \in 0..MaxFaults + 1, faults' >= faults, faults' > 0 \/ call[c].pc = "verify"
    PROVE  SessionsInv'
<1> DEFINE D == Beside(c)
<1>1. /\ D \in SUBSET Calls /\ call' = [d \in Calls |-> IF d \in D THEN NoCall ELSE call[d]]
      /\ left' = left \cup (live \cap {call[d].new : d \in D})
      /\ \A d \in Calls : d \in D <=> TabOf[d] = TabOf[c]
  BY DEF RefreshFailed, Beside
<1>2. /\ tab' \in [Tabs -> [page : {"login", "loading", "app"}, token : BOOLEAN]]
      /\ stored' \in BOOLEAN /\ \A u \in Tabs \ {TabOf[c]} : tab'[u] = tab[u]
  BY Typed, ShowsType DEF RefreshFailed
<1>3. \A d \in Calls \ D : call[d].op = "me" => tab'[TabOf[d]].page = "loading"
  BY <1>1, <1>2, SessionsAssumption DEF SessionsInv, OneRefresh
<1>4. faults' > 0 \/ \A d \in D : ~(Refresh(call[d]) /\ call[d].pc \in {"set", "answer"})
  <2>1. CASE call[c].pc = "verify"
    <3> SUFFICES ASSUME NEW d \in D, Refresh(call[d]), call[d].pc \in {"set", "answer"} PROVE FALSE
      OBVIOUS
    <3>1. Busy(call[d]) /\ d # c
      BY <2>1 DEF Busy, Refresh
    <3> QED
      BY <1>1, <3>1 DEF SessionsInv, OneRefresh
  <2> QED
    BY <2>1
<1>5. active' \in BOOLEAN /\ (~active' => faults' > 0) /\ UNCHANGED <<issued, live, cookie, taken, ended>>
  BY DEF serverVars, SessionsInv, TypeOK
<1> HIDE DEF D
<1> QED
  BY <1>1, <1>2, <1>3, <1>4, <1>5, DropStep

LEMMA RefreshSteps ==
    ASSUME SessionsInv, NEW c \in Calls,
           VerifyKey(c) \/ DeleteKey(c) \/ IssuePair(c) \/ RefreshAnswered(c) \/ RefreshLost(c)
    PROVE  SessionsInv'
<1>1. /\ call[c] \in CallType /\ Steps(call[c]) /\ OneCall(c) /\ TypeOK /\ TabOf[c] \in Tabs
      /\ tab[TabOf[c]].page \in {"login", "loading", "app"} /\ None \notin live
      /\ faults \in 0..MaxFaults + 1 /\ faults >= 0 /\ stored \in BOOLEAN
  BY Typed DEF SessionsInv, TypeOK
<1>2. CASE VerifyKey(c) /\ call[c].key \in live
  <2> DEFINE q == [call[c] EXCEPT !.pc = "del"]
  <2>1. /\ q \in CallType /\ q.op = call[c].op /\ q.pc = "del" /\ q.key = call[c].key
        /\ q.new = call[c].new
    BY <1>1 DEF CallType, Pcs
  <2>2. /\ call[c].pc = "verify" /\ Refresh(call[c]) /\ Sets(c, q)
        /\ taken' = (IF call[c].key = cookie THEN taken \cup {TabOf[c]} ELSE taken)
        /\ UNCHANGED <<serverVars, cookie, stored, tab, left, ended, faults>>
    BY <1>2 DEF VerifyKey, Refreshes, Refresh, Go
  <2> HIDE DEF q
  <2>3. Steps(q) /\ ~Brings(q) /\ ~Revoker(q) /\ Refresh(q) /\ Busy(q) /\ Busy(call[c])
    BY <1>1, <2>1, <2>2, SessionsAssumption DEF Steps, Brings, Revoker, Rotates, Busy, Refresh
  <2>4. ~Brings(call[c]) /\ ~Rotates(call[c])
    BY <2>2 DEF Brings, Rotates
  <2>5. call'[c] = q /\ \A d \in Calls \ {c} : call'[d] = call[d]
    BY <2>2, <1>1 DEF Sets, TypeOK
  <2>6. ASSUME NEW d \in Calls, NEW e \in Calls
        PROVE  OneRefresh(d, e)'
    BY <2>1, <2>2, <2>3, <2>5 DEF SessionsInv, OneRefresh
  <2>7. ~ended
    BY <1>2, <1>1, <2>2, <2>3 DEF SessionsInv, EndedInv
  <2>8. q.key # None
    BY <1>1, <1>2, <2>1
  <2> QED
    BY <1>1, <2>1, <2>2, <2>3, <2>4, <2>6, <2>7, <2>8, QuietStep DEF TypeOK
<1>3. CASE VerifyKey(c) /\ call[c].key \notin live
  <2>1. /\ RefreshFailed(c) /\ Refresh(call[c]) /\ call[c].pc = "verify" /\ Busy(call[c])
        /\ UNCHANGED <<serverVars, cookie, taken, ended, faults>>
    BY <1>3 DEF VerifyKey, Refreshes, Refresh, Busy
  <2> QED
    BY <1>1, <2>1, FailedRefresh
<1>4. CASE DeleteKey(c)
  <2> DEFINE q == [call[c] EXCEPT !.pc = "set"]
             j == call[c].key
  <2>1. /\ q \in CallType /\ q.op = call[c].op /\ q.pc = "set" /\ q.key = j
        /\ q.new = call[c].new
    BY <1>1 DEF CallType, Pcs
  <2>2. /\ call[c].pc = "del" /\ Refresh(call[c]) /\ Sets(c, q)
        /\ live' = live \ {j} /\ left \cap live' \subseteq left'
        /\ UNCHANGED <<issued, active, cookie, stored, tab, ended, faults, taken>>
    BY <1>4 DEF DeleteKey, Refreshes, Refresh, Go, Revoke, Revoked
  <2> HIDE DEF q
  <2>3. call'[c] = q /\ (\A d \in Calls \ {c} : call'[d] = call[d]) /\ call' \in [Calls -> CallType]
    BY <2>1, <2>2, <1>1 DEF Sets, TypeOK
  <2>4. \A d \in Calls : Brings(call[d]) => call[d].new # j
    BY DEF SessionsInv, OwnPair
  <2>5. Refresh(call'[c])
    BY <2>1, <2>2, <2>3 DEF Refresh
  <2> QED
    BY <2>1, <2>2, <2>3, <2>4, <2>5, RevokeStep
<1>5. CASE IssuePair(c) /\ Refreshes(c) /\ ~active
  <2>1. /\ RefreshFailed(c) /\ Refresh(call[c]) /\ call[c].pc = "set" /\ Busy(call[c]) /\ faults > 0
        /\ UNCHANGED <<serverVars, cookie, taken, ended, faults>>
    BY <1>5 DEF IssuePair, Refreshes, Refresh, Busy, serverVars, SessionsInv
  <2> QED
    BY <1>1, <2>1, FailedRefresh
<1>6. CASE IssuePair(c) /\ ~(Refreshes(c) /\ ~active)
  BY <1>6, IssueStep DEF IssuePair
<1>7. CASE RefreshAnswered(c)
  <2> DEFINE D == Resumed(c)
             j == call[c].new
  <2>1. /\ Refresh(call[c]) /\ call[c].pc = "answer" /\ NewCookie(call[c], j) /\ UNCHANGED serverVars
        /\ call' = [d \in Calls |-> IF d \in D THEN NoCall ELSE call[d]] /\ ended' = ended
    BY <1>7 DEF RefreshAnswered, Refreshes, Refresh
  <2>2. Brings(call[c]) /\ Revoker(call[c]) /\ Busy(call[c])
    BY <2>1 DEF Brings, Revoker, Busy, Refresh
  <2>3. j \in live /\ ~ended
    BY <1>1, <2>1, <2>2 DEF OneCall, SessionsInv, EndedInv
  <2>4. D \in SUBSET Calls /\ c \in D /\ \A d \in D : d = c \/ (TabOf[d] = TabOf[c] /\ call[d].pc = "waits")
    BY DEF Resumed, Beside
  <2>5. \A d \in D : call[d].new \in {None, j}
    BY <2>4, Typed DEF Steps, Brings
  <2>6. faults' \in 0..MaxFaults + 1 /\ faults' >= faults
    <3>1. UNCHANGED faults \/ Fault
      BY <1>7 DEF RefreshAnswered
    <3> QED
      BY <1>1, <3>1, FaultCounted
  <2>7. \E page \in {"login", "loading", "app"}, good \in BOOLEAN :
           Shows(TabOf[c], page, good) /\ (call[c].op = "get" => page = tab[TabOf[c]].page)
    BY <1>1, <1>7 DEF RefreshAnswered, CallType
  <2>8. /\ tab' \in [Tabs -> [page : {"login", "loading", "app"}, token : BOOLEAN]]
        /\ stored' \in BOOLEAN /\ \A u \in Tabs \ {TabOf[c]} : tab'[u] = tab[u]
        /\ call[c].op = "get" => tab'[TabOf[c]].page = tab[TabOf[c]].page
    BY <1>1, <2>7, ShowsType
  <2>9. ASSUME NEW d \in Calls \ D, call[d].op = "me"
        PROVE  tab'[TabOf[d]].page = "loading"
    <3>1. TabOf[d] \in Tabs /\ tab[TabOf[d]].page = "loading" /\ d # c
      BY <2>4, <2>9, SessionsAssumption DEF SessionsInv, OneRefresh
    <3>2. TabOf[d] # TabOf[c]
      BY <2>1, <2>9, <3>1, LoadsAlone
    <3> QED
      BY <2>8, <3>1, <3>2
  <2> HIDE DEF D
  <2> QED
    <3>1. j \in live \cup {None} /\ ended' \in BOOLEAN
          /\ (ended' => j = None /\ \A d \in Calls : ~Busy(call[d]))
      BY <1>1, <2>1, <2>3 DEF TypeOK
    <3> QED
      BY <2>1, <2>2, <2>4, <2>5, <2>6, <2>8, <2>9, <3>1, CookieStep
<1>8. CASE RefreshLost(c)
  <2>1. /\ RefreshFailed(c) /\ Refresh(call[c]) /\ Busy(call[c]) /\ Lost(c)
        /\ UNCHANGED <<serverVars, cookie, taken, ended>>
    BY <1>8 DEF RefreshLost, Refreshes, Refresh
  <2> QED
    BY <1>1, <2>1, FaultCounted, FailedRefresh
<1> QED
  BY <1>2, <1>3, <1>4, <1>5, <1>6, <1>7, <1>8

\* One call of a tab is over, its login page or the page it has shown before.
LEMMA OneDropped ==
    ASSUME SessionsInv, NEW c \in Calls, Sets(c, NoCall)
    PROVE  call' = [d \in Calls |-> IF d \in {c} THEN NoCall ELSE call[d]]
BY DEF Sets, SessionsInv, TypeOK

\* No other call of the tab is fetchMe()'s.
LEMMA OthersLoad ==
    ASSUME SessionsInv, NEW c \in Calls, call[c].pc # "idle",
           \A u \in Tabs \ {TabOf[c]} : tab'[u] = tab[u]
    PROVE  \A d \in Calls \ {c} : call[d].op = "me" => tab'[TabOf[d]].page = "loading"
<1> SUFFICES ASSUME NEW d \in Calls \ {c}, call[d].op = "me" PROVE tab'[TabOf[d]].page = "loading"
  OBVIOUS
<1>1. TabOf[d] \in Tabs /\ tab[TabOf[d]].page = "loading"
  BY SessionsAssumption DEF SessionsInv, OneRefresh
<1>2. TabOf[d] # TabOf[c]
  BY <1>1, LoadsAlone
<1> QED
  BY <1>1, <1>2

LEMMA LoginSteps ==
    ASSUME SessionsInv, NEW c \in Calls, SendLogin(c) \/ LoginAnswered(c) \/ LoginLost(c)
    PROVE  SessionsInv'
<1>1. /\ call[c] \in CallType /\ Steps(call[c]) /\ OneCall(c) /\ TypeOK /\ TabOf[c] \in Tabs
      /\ tab[TabOf[c]].page \in {"login", "loading", "app"} /\ None \notin live
      /\ faults \in 0..MaxFaults + 1 /\ faults >= 0 /\ stored \in BOOLEAN
  BY Typed DEF SessionsInv, TypeOK
<1>2. CASE SendLogin(c)
  <2> DEFINE q == [NoCall EXCEPT !.op = "login", !.pc = "set"]
  <2>1. /\ q \in CallType /\ q.op = "login" /\ q.pc = "set" /\ q.key = None /\ q.new = None
    BY NoCallFacts DEF CallType, Ops, Pcs
  <2>2. /\ Sets(c, q) /\ UNCHANGED <<serverVars, cookie, stored, tab, taken, left, faults>>
        /\ ended' = FALSE /\ call[c].pc = "idle" /\ tab[TabOf[c]].page = "login"
    BY <1>2 DEF SendLogin, histVars
  <2> HIDE DEF q
  <2>3. Steps(q) /\ ~Brings(q) /\ ~Revoker(q) /\ ~Rotates(q) /\ ~Refresh(q)
    BY <2>1, SessionsAssumption DEF Steps, Brings, Revoker, Rotates, Refresh
  <2>4. ~Brings(call[c]) /\ ~Rotates(call[c])
    BY <2>2 DEF Brings, Rotates
  <2>5. call'[c] = q /\ \A d \in Calls \ {c} : call'[d] = call[d]
    BY <2>2, <1>1 DEF Sets, TypeOK
  <2>6. ASSUME NEW d \in Calls, NEW e \in Calls
        PROVE  OneRefresh(d, e)'
    <3>1. \A f \in Calls : TabOf[f] = TabOf[c] => call[f].op # "me"
      BY <2>2 DEF SessionsInv, OneRefresh
    <3> QED
      BY <2>1, <2>2, <2>3, <2>5, <3>1 DEF SessionsInv, OneRefresh
  <2>7. ended' \in BOOLEAN /\ ~ended' /\ taken' = taken /\ faults' = faults
        /\ UNCHANGED <<serverVars, cookie, left, stored, tab>>
    BY <2>2
  <2> QED
    BY <1>1, <2>1, <2>2, <2>3, <2>4, <2>6, <2>7, QuietStep DEF TypeOK
<1>3. CASE LoginAnswered(c)
  <2> DEFINE D == {c}
             j == call[c].new
  <2>1. /\ call[c].op = "login" /\ call[c].pc = "answer" /\ NewCookie(call[c], j) /\ UNCHANGED serverVars
        /\ call' = [d \in Calls |-> IF d \in D THEN NoCall ELSE call[d]] /\ ended' = ended
        /\ Shows(TabOf[c], "app", call[c].good) /\ UNCHANGED faults
    BY <1>3, OneDropped DEF LoginAnswered, At
  <2>2. Brings(call[c]) /\ Busy(call[c]) /\ call[c].key = None
    BY <1>1, <2>1 DEF Brings, Busy, Steps
  <2>3. j \in live /\ ~ended
    BY <1>1, <2>1, <2>2 DEF OneCall, SessionsInv, EndedInv
  <2>4. D \in SUBSET Calls /\ c \in D /\ \A d \in D : call[d].new \in {None, j}
    OBVIOUS
  <2>5. /\ tab' \in [Tabs -> [page : {"login", "loading", "app"}, token : BOOLEAN]]
        /\ stored' \in BOOLEAN /\ \A u \in Tabs \ {TabOf[c]} : tab'[u] = tab[u]
    BY <1>1, <2>1, ShowsType DEF CallType
  <2>6. \A d \in Calls \ D : call[d].op = "me" => tab'[TabOf[d]].page = "loading"
    BY <2>1, <2>5, OthersLoad
  <2>7. j \in live \cup {None} /\ ended' \in BOOLEAN
        /\ (ended' => j = None /\ \A d \in Calls : ~Busy(call[d]))
    BY <1>1, <2>1, <2>3 DEF TypeOK
  <2> HIDE DEF D
  <2> QED
    BY <1>1, <2>1, <2>2, <2>4, <2>5, <2>6, <2>7, CookieStep
<1>4. CASE LoginLost(c)
  <2> DEFINE D == {c}
  <2>1. /\ call[c].op = "login" /\ D \in SUBSET Calls
        /\ call' = [d \in Calls |-> IF d \in D THEN NoCall ELSE call[d]]
        /\ left' = left \cup (live \cap {call[d].new : d \in D})
        /\ UNCHANGED <<issued, live, active, cookie, stored, tab, taken, ended>> /\ Lost(c)
    BY <1>4, OneDropped DEF LoginLost, serverVars
  <2>2. \A d \in Calls \ D : call[d].op = "me" => tab'[TabOf[d]].page = "loading"
    BY <2>1 DEF SessionsInv, OneRefresh
  <2>3. faults' \in 0..MaxFaults + 1 /\ faults' > 0 /\ faults' >= faults
    BY <2>1, FaultCounted
  <2>4. /\ tab' \in [Tabs -> [page : {"login", "loading", "app"}, token : BOOLEAN]]
        /\ stored' \in BOOLEAN /\ active' \in BOOLEAN /\ UNCHANGED <<issued, live, cookie, taken, ended>>
    BY <1>1, <2>1 DEF TypeOK
  <2> HIDE DEF D
  <2> QED
    BY <2>1, <2>2, <2>3, <2>4, DropStep
<1> QED
  BY <1>2, <1>3, <1>4

LEMMA LogoutSteps ==
    ASSUME SessionsInv, NEW c \in Calls,
           \/ SendLogout(c) \/ RevokeKey(c) \/ LogoutAnswered(c) \/ LogoutRefused(c) \/ LogoutLost(c)
    PROVE  SessionsInv'
<1>1. /\ call[c] \in CallType /\ Steps(call[c]) /\ OneCall(c) /\ TypeOK /\ TabOf[c] \in Tabs
      /\ tab[TabOf[c]].page \in {"login", "loading", "app"} /\ None \notin live
      /\ faults \in 0..MaxFaults + 1 /\ faults >= 0 /\ stored \in BOOLEAN
  BY Typed DEF SessionsInv, TypeOK
<1>2. CASE SendLogout(c)
  <2> DEFINE q == [NoCall EXCEPT !.op = "logout", !.key = cookie,
                                 !.pc = IF tab[TabOf[c]].token THEN "del" ELSE "denied"]
  <2>1. /\ q \in CallType /\ q.op = "logout" /\ q.pc \in {"del", "denied"} /\ q.key = cookie
        /\ q.new = None
    <3>1. cookie \in Nat \cup {None}
      BY <1>1 DEF TypeOK
    <3> QED
      BY <3>1, NoCallFacts DEF CallType, Ops, Pcs
  <2>2. /\ Sets(c, q) /\ UNCHANGED <<serverVars, cookie, stored, tab, taken, left, ended, faults>>
        /\ call[c].pc = "idle" /\ tab[TabOf[c]].page = "app"
    BY <1>2 DEF SendLogout, histVars
  <2> HIDE DEF q
  <2>3. Steps(q) /\ ~Brings(q) /\ ~Revoker(q) /\ ~Rotates(q) /\ ~Refresh(q) /\ ~Busy(q)
    BY <1>1, <2>1, SessionsAssumption DEF Steps, Brings, Revoker, Rotates, Refresh, Busy, TypeOK
  <2>4. ~Brings(call[c]) /\ ~Rotates(call[c])
    BY <2>2 DEF Brings, Rotates
  <2>5. call'[c] = q /\ \A d \in Calls \ {c} : call'[d] = call[d]
    BY <2>2, <1>1 DEF Sets, TypeOK
  <2>6. ASSUME NEW d \in Calls, NEW e \in Calls
        PROVE  OneRefresh(d, e)'
    <3>1. \A f \in Calls : TabOf[f] = TabOf[c] => call[f].op # "me"
      BY <2>2 DEF SessionsInv, OneRefresh
    <3> QED
      BY <2>1, <2>2, <2>3, <2>5, <3>1 DEF SessionsInv, OneRefresh
  <2> QED
    BY <1>1, <2>1, <2>2, <2>3, <2>4, <2>6, QuietStep DEF TypeOK
<1>3. CASE RevokeKey(c)
  <2> DEFINE q == [call[c] EXCEPT !.pc = "answer"]
             j == call[c].key
  <2>1. /\ q \in CallType /\ q.op = call[c].op /\ q.pc = "answer" /\ q.key = j
        /\ q.new = call[c].new
    BY <1>1 DEF CallType, Pcs
  <2>2. /\ call[c].pc = "del" /\ call[c].op = "logout" /\ Sets(c, q)
        /\ live' = live \ {j} /\ left \cap live' \subseteq left'
        /\ taken' = (IF j = cookie THEN taken \cup {None} ELSE taken)
        /\ UNCHANGED <<issued, active, cookie, stored, tab, ended, faults>>
    BY <1>3 DEF RevokeKey, At, Go, Revoke, Revoked
  <2> HIDE DEF q
  <2>3. call'[c] = q /\ (\A d \in Calls \ {c} : call'[d] = call[d]) /\ call' \in [Calls -> CallType]
    BY <2>1, <2>2, <1>1 DEF Sets, TypeOK
  <2>4. \A d \in Calls : Brings(call[d]) => call[d].new # j
    BY DEF SessionsInv, OwnPair
  <2> QED
    BY <2>1, <2>2, <2>3, <2>4, RevokeStep
<1>4. CASE LogoutAnswered(c)
  <2> DEFINE D == {c}
  <2>1. /\ call[c].op = "logout" /\ call[c].pc = "answer" /\ NewCookie(call[c], None)
        /\ UNCHANGED serverVars /\ UNCHANGED faults
        /\ call' = [d \in Calls |-> IF d \in D THEN NoCall ELSE call[d]]
        /\ ended' = (\A d \in Calls : ~Busy(call[d])) /\ Shows(TabOf[c], "login", FALSE)
    BY <1>4, OneDropped DEF LogoutAnswered, At, Cleared, LoggedOut
  <2>2. Revoker(call[c]) /\ call[c].new = None
    BY <1>1, <2>1 DEF Revoker, Brings, Steps
  <2>3. D \in SUBSET Calls /\ c \in D /\ \A d \in D : call[d].new \in {None}
    BY <2>2
  <2>4. /\ tab' \in [Tabs -> [page : {"login", "loading", "app"}, token : BOOLEAN]]
        /\ stored' \in BOOLEAN /\ \A u \in Tabs \ {TabOf[c]} : tab'[u] = tab[u]
    BY <1>1, <2>1, ShowsType
  <2>5. \A d \in Calls \ D : call[d].op = "me" => tab'[TabOf[d]].page = "loading"
    BY <2>1, <2>4, OthersLoad
  <2>6. ended' \in BOOLEAN /\ (ended' => \A d \in Calls : ~Busy(call[d]))
    BY <2>1
  <2> HIDE DEF D
  <2> QED
    BY <1>1, <2>1, <2>2, <2>3, <2>4, <2>5, <2>6, CookieStep
<1>5. CASE LogoutRefused(c) \/ LogoutLost(c)
  <2> DEFINE D == {c}
  <2>1. /\ call[c].op = "logout" /\ D \in SUBSET Calls
        /\ call' = [d \in Calls |-> IF d \in D THEN NoCall ELSE call[d]]
        /\ Shows(TabOf[c], "login", FALSE)
        /\ UNCHANGED <<issued, live, active, cookie, left, taken, ended>> /\ (UNCHANGED faults \/ Fault)
    BY <1>5, OneDropped DEF LogoutRefused, LogoutLost, LoggedOut, At, serverVars, histVars
  <2>2. call[c].new = None /\ call[c].pc # "idle" /\ ~Refresh(call[c])
    BY <1>1, <2>1, SessionsAssumption DEF Steps, Brings, Refresh
  <2>3. left' = left \cup (live \cap {call[d].new : d \in D})
    BY <1>1, <2>1, <2>2
  <2>4. /\ tab' \in [Tabs -> [page : {"login", "loading", "app"}, token : BOOLEAN]]
        /\ stored' \in BOOLEAN /\ \A u \in Tabs \ {TabOf[c]} : tab'[u] = tab[u]
    BY <1>1, <2>1, ShowsType
  <2>5. \A d \in Calls \ D : call[d].op = "me" => tab'[TabOf[d]].page = "loading"
    BY <2>2, <2>4, OthersLoad
  <2>6. faults' \in 0..MaxFaults + 1 /\ faults' >= faults
    BY <1>1, <2>1, FaultCounted
  <2>7. \A d \in D : ~(Refresh(call[d]) /\ call[d].pc \in {"set", "answer"})
    BY <2>2
  <2>8. active' \in BOOLEAN /\ (~active' => faults' > 0)
    BY <1>1, <2>1, <2>6 DEF SessionsInv, TypeOK
  <2> HIDE DEF D
  <2> QED
    BY <2>1, <2>3, <2>4, <2>5, <2>6, <2>7, <2>8, DropStep
<1> QED
  BY <1>2, <1>3, <1>4, <1>5

LEMMA TimeSteps ==
    ASSUME SessionsInv, AccessExpires \/ RefreshExpires \/ DisableUser \/ UNCHANGED vars
    PROVE  SessionsInv'
<1>1. TypeOK
  BY DEF SessionsInv
<1>2. CASE AccessExpires
  <2>1. /\ \A d \in Calls : call'[d] = [call[d] EXCEPT !.good = FALSE]
        /\ call' = [d \in Calls |-> [call[d] EXCEPT !.good = FALSE]]
        /\ tab' = [t \in Tabs |-> [tab[t] EXCEPT !.token = FALSE]] /\ stored' = FALSE
        /\ UNCHANGED <<issued, live, active, cookie, taken, left, ended, faults>>
    BY <1>2 DEF AccessExpires, serverVars, histVars
  <2>2. \A d \in Calls : /\ call'[d] \in CallType /\ call'[d].op = call[d].op
                         /\ call'[d].pc = call[d].pc /\ call'[d].key = call[d].key
                         /\ call'[d].new = call[d].new
    BY <2>1, Typed DEF CallType
  <2>3. TypeOK'
    <3>1. call' \in [Calls -> CallType]
      BY <2>1, <2>2
    <3>2. tab' \in [Tabs -> [page : {"login", "loading", "app"}, token : BOOLEAN]]
      BY <1>1, <2>1 DEF TypeOK
    <3> QED
      BY <1>1, <2>1, <3>1, <3>2 DEF TypeOK
  <2>4. \A d \in Calls : /\ (Steps(call[d])' <=> Steps(call[d]))
                         /\ (Brings(call'[d]) <=> Brings(call[d]))
                         /\ (Refresh(call'[d]) <=> Refresh(call[d])) /\ (Busy(call'[d]) <=> Busy(call[d]))
                         /\ (Rotates(call'[d]) <=> Rotates(call[d]))
                         /\ (Revoker(call'[d]) <=> Revoker(call[d]))
    BY <2>1, <2>2 DEF Steps, Brings, Refresh, Busy, Rotates, Revoker
  <2>5. \A d \in Calls : OneCall(d)' /\ OwnPair(d)'
    BY <2>1, <2>2, <2>4 DEF SessionsInv, OneCall, OwnPair
  <2>6. \A t \in Tabs : tab'[t].page = tab[t].page
    BY <1>1, <2>1 DEF TypeOK
  <2>7. \A d, e \in Calls : OneRefresh(d, e)'
    BY <2>2, <2>4, <2>6, SessionsAssumption DEF SessionsInv, OneRefresh
  <2>8. CookieUsed'
    BY <2>1, <2>2, <2>4 DEF SessionsInv, CookieUsed
  <2>9. NoStrayTokens'
    <3> SUFFICES ASSUME NEW k \in live', k # cookie', k \notin left'
                 PROVE  \E d \in Calls : call'[d].new = k
      BY DEF NoStrayTokens
    <3>1. PICK d \in Calls : call[d].new = k
      BY <2>1 DEF SessionsInv, NoStrayTokens
    <3> QED
      BY <2>2, <3>1
  <2>10. EndedInv'
    BY <2>1, <2>2, <2>4 DEF SessionsInv, EndedInv
  <2> QED
    BY <2>1, <2>3, <2>5, <2>7, <2>8, <2>9, <2>10 DEF SessionsInv
<1>3. CASE RefreshExpires
  <2>1. /\ live' = live \ {cookie} /\ left \cap live' \subseteq left' /\ taken' = taken \cup {None}
        /\ UNCHANGED <<issued, active, cookie, stored, tab, call, ended, faults>>
    BY <1>3 DEF RefreshExpires
  <2>2. call' \in [Calls -> CallType]
    BY <1>1, <2>1 DEF TypeOK
  <2>3. \A d \in Calls : Brings(call[d]) => call[d].new # cookie
    BY DEF SessionsInv, OneCall
  <2> QED
    BY <2>1, <2>2, <2>3, RevokeStep
<1>4. CASE DisableUser
  <2>1. /\ UNCHANGED <<issued, live, cookie, stored, tab, call, taken, left, ended>>
        /\ active' = FALSE /\ faults' = faults + 1 /\ faults < MaxFaults
    BY <1>4 DEF DisableUser, Fault
  <2>2. faults' \in 0..MaxFaults + 1 /\ faults' > 0
    BY <1>1, <2>1, SessionsAssumption DEF TypeOK
  <2>3. TypeOK'
    BY <1>1, <2>1, <2>2 DEF TypeOK
  <2>4. \A d \in Calls : OneCall(d)' /\ OwnPair(d)'
    BY <2>1 DEF SessionsInv, OneCall, OwnPair, Steps
  <2>5. CookieUsed' /\ NoStrayTokens' /\ EndedInv'
    BY <2>1, <2>2 DEF SessionsInv, CookieUsed, NoStrayTokens, EndedInv
  <2> QED
    BY <2>1, <2>2, <2>3, <2>4, <2>5 DEF SessionsInv, OneRefresh
<1>5. CASE UNCHANGED vars
  BY <1>5 DEF vars, serverVars, histVars, SessionsInv, TypeOK, OneCall, OwnPair, OneRefresh, Steps,
              CookieUsed, NoStrayTokens, EndedInv
<1> QED
  BY <1>2, <1>3, <1>4, <1>5

\* The inductive invariant: a pair on its way is good and belongs to one call, no two
\* refreshes of a tab run at once, and who used up the cookie's token is known.
THEOREM SessionsInvHolds == Spec => []SessionsInv
<1>1. SessionsInv /\ [Next]_vars => SessionsInv'
  <2> SUFFICES ASSUME SessionsInv, [Next]_vars PROVE SessionsInv'
    OBVIOUS
  <2>1. ASSUME NEW c \in Calls,
               \/ SendCall(c) \/ OpenPanel(c) \/ CallDenied(c)
               \/ VerifyKey(c) \/ DeleteKey(c) \/ IssuePair(c) \/ RefreshAnswered(c) \/ RefreshLost(c)
               \/ SendLogin(c) \/ LoginAnswered(c) \/ LoginLost(c)
               \/ SendLogout(c) \/ RevokeKey(c) \/ LogoutAnswered(c) \/ LogoutRefused(c) \/ LogoutLost(c)
        PROVE  SessionsInv'
    BY <2>1, CallsOfAPage, RefreshSteps, LoginSteps, LogoutSteps
  <2>2. CASE AccessExpires \/ RefreshExpires \/ DisableUser \/ UNCHANGED vars
    BY <2>2, TimeSteps
  <2> QED
    BY <2>1, <2>2 DEF Next
<1> QED
  BY <1>1, SessionsStart, PTL DEF Spec

\* Every good refresh token is the cookie's, on its way to the browser, or one of those the
\* browser is known to have lost or replaced: no rotation of AuthService.refresh() leaves
\* another, for any number of tabs, calls and pairs.
THEOREM TokensAccountedFor == Spec => []NoStrayTokens
<1>1. SessionsInv => NoStrayTokens
  BY DEF SessionsInv
<1> QED
  BY <1>1, SessionsInvHolds, PTL

\* A step takes a token to localStorage or a tab only from an answered refresh or login, and
\* a page of the panel only with a token that is there.
LEMMA GainsNothing ==
    ASSUME SessionsInv, ended => ~stored, [Next]_vars, ended'
    PROVE  /\ ~stored'
           /\ ended => \A t \in Tabs : /\ tab'[t].token => tab[t].token
                                      /\ tab'[t].page = "app" => tab[t].page = "app"
<1>1. /\ tab \in [Tabs -> [page : {"login", "loading", "app"}, token : BOOLEAN]]
      /\ \A c \in Calls : TabOf[c] \in Tabs
      /\ ended => \A c \in Calls : ~(At(c, "login", "answer") \/ (Refreshes(c) /\ call[c].pc = "answer"))
  BY SessionsAssumption DEF SessionsInv, TypeOK, EndedInv, Busy, At, Refreshes
<1>2. CASE UNCHANGED <<tab, stored, ended>>
  BY <1>2
<1>3. ASSUME NEW c \in Calls, NEW page \in {"login", "loading"}, Shows(TabOf[c], page, FALSE)
      PROVE  /\ ~stored'
             /\ \A t \in Tabs : /\ tab'[t].token => tab[t].token
                               /\ tab'[t].page = "app" => tab[t].page = "app"
  BY <1>1, <1>3 DEF Shows
<1>4. ASSUME NEW c \in Calls, OpenPanel(c) PROVE ended /\ Shows(TabOf[c], "loading", FALSE)
  <2>1. ended /\ ~stored
    BY <1>4 DEF OpenPanel
  <2> QED
    BY <1>4, <2>1 DEF OpenPanel, SessionsInv, TypeOK
<1>5. ASSUME NEW c \in Calls, SendCall(c) \/ CallDenied(c) \/ DeleteKey(c) \/ SendLogin(c)
                              \/ LoginLost(c) \/ SendLogout(c) \/ RevokeKey(c)
      PROVE  UNCHANGED <<tab, stored, ended>>
  BY <1>5 DEF SendCall, CallDenied, DeleteKey, SendLogin, LoginLost, SendLogout, RevokeKey, histVars
<1>6. ASSUME NEW c \in Calls, VerifyKey(c) \/ IssuePair(c) \/ RefreshLost(c)
      PROVE  UNCHANGED <<tab, stored, ended>> \/ Shows(TabOf[c], "login", FALSE)
  BY <1>6 DEF VerifyKey, IssuePair, RefreshLost, RefreshFailed
<1>7. ASSUME NEW c \in Calls, LogoutAnswered(c) \/ LogoutRefused(c) \/ LogoutLost(c)
      PROVE  Shows(TabOf[c], "login", FALSE)
  BY <1>7 DEF LogoutAnswered, LogoutRefused, LogoutLost, LoggedOut
<1>8. ASSUME NEW c \in Calls, RefreshAnswered(c) \/ LoginAnswered(c) PROVE FALSE
  <2>1. ended
    BY <1>8 DEF RefreshAnswered, LoginAnswered
  <2> QED
    BY <1>1, <1>8, <2>1 DEF RefreshAnswered, LoginAnswered
<1>9. CASE AccessExpires
  BY <1>1, <1>9 DEF AccessExpires
<1>10. CASE RefreshExpires \/ DisableUser \/ UNCHANGED vars
  BY <1>2, <1>10 DEF RefreshExpires, DisableUser, vars, histVars
<1> QED
  BY <1>2, <1>3, <1>4, <1>5, <1>6, <1>7, <1>8, <1>9, <1>10 DEF Next

\* After an answered logout with no refresh or login under way, and until the next login, the
\* browser has no cookie and no stored token, and no refresh token is good but those it is
\* known to have lost or replaced.
THEOREM LogoutIsFinal == Spec => []LogoutEnds
<1> DEFINE NoneStored == ended => ~stored
<1>1. Init => NoneStored
  BY DEF Init
<1>2. SessionsInv /\ NoneStored /\ [Next]_vars => NoneStored'
  BY GainsNothing
<1>3. SessionsInv /\ NoneStored => LogoutEnds
  BY DEF SessionsInv, EndedInv, LogoutEnds
<1> QED
  BY <1>1, <1>2, <1>3, SessionsInvHolds, PTL DEF Spec

\* After such a logout nothing is left to get an access token with, and no tab comes to one or
\* to a page of the panel before the next login, for any tabs, calls under way, reloads and
\* expirations.
THEOREM LogoutIsKept == Spec => LogoutLasts
<1>1. SessionsInv /\ LogoutEnds /\ LogoutEnds' /\ [Next]_vars =>
          [/\ LogoutEnds'
           /\ ended /\ ended' =>
                  \A t \in Tabs : /\ tab'[t].token => tab[t].token
                                 /\ tab'[t].page = "app" => tab[t].page = "app"]_vars
  BY GainsNothing DEF LogoutEnds
<1> QED
  BY <1>1, SessionsInvHolds, LogoutIsFinal, PTL DEF Spec, LogoutLasts

\* No refresh finds the browser's token revoked by its own tab: the one promise `refreshing'
\* of client.js keeps the calls of a tab apart, and only other tabs, lost answers, disabled
\* users, time and logout take a session.
THEOREM CallsKeepTheSession == Spec => SessionKept
<1>1. ASSUME SessionsInv, NEW c \in Calls, VerifyKey(c), call'[c].pc = "idle", call[c].key # None
      PROVE  faults > 0 \/ call[c].key # cookie \/ taken \ {TabOf[c]} # {}
  <2> SUFFICES ASSUME ~(faults > 0), call[c].key = cookie, taken \ {TabOf[c]} = {} PROVE FALSE
    OBVIOUS
  <2>1. faults = 0 /\ None \notin taken
    <3>1. TabOf[c] # None
      BY SessionsAssumption
    <3>2. faults \in 0..MaxFaults + 1 /\ MaxFaults \in Nat
      BY <1>1, SessionsAssumption DEF SessionsInv, TypeOK
    <3>3. faults = 0
      BY <3>2
    <3> QED
      BY <3>1, <3>3
  <2>2. Refresh(call[c]) /\ call[c].pc = "verify" /\ cookie \notin live
    <3>1. ASSUME cookie \in live PROVE FALSE
      <4>1. call' = [call EXCEPT ![c] = [call[c] EXCEPT !.pc = "del"]]
        BY <1>1, <3>1 DEF VerifyKey, Go, Sets
      <4> QED
        BY <1>1, <4>1, Typed DEF SessionsInv, TypeOK, CallType
    <3> QED
      BY <1>1, <3>1 DEF VerifyKey, Refreshes, Refresh
  <2>3. PICK d \in Calls : Refresh(call[d]) /\ call[d].pc \in {"set", "answer"} /\ call[d].key = cookie
    BY <1>1, <2>1, <2>2 DEF SessionsInv, CookieUsed
  <2>4. TabOf[d] = TabOf[c]
    BY <1>1, <2>3 DEF SessionsInv, OneCall, Rotates
  <2>5. d # c /\ Busy(call[c]) /\ Busy(call[d])
    BY <2>2, <2>3 DEF Busy, Refresh
  <2> QED
    BY <1>1, <2>2, <2>3, <2>4, <2>5 DEF SessionsInv, OneRefresh
<1>2. SessionsInv /\ [Next]_vars =>
         [\A c \in Calls :
             VerifyKey(c) /\ call'[c].pc = "idle" /\ call[c].key # None
             => faults > 0 \/ call[c].key # cookie \/ taken \ {TabOf[c]} # {}]_vars
  BY <1>1
<1> QED
  BY <1>2, SessionsInvHolds, PTL DEF Spec, SessionKept
=============================================================================
