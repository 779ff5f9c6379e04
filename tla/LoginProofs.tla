---------------------------- MODULE LoginProofs ----------------------------
(***************************************************************************)
(* What is proved of the credentials: whatever overlaps, a password, a     *)
(* spent recovery code and a failure are lost only where the history says  *)
(* that an old copy of the row was still to be written back.               *)
(*                                                                         *)
(* The argument: a request that is to write back columns it has read holds *)
(* what the row holds, in every column that is not blurred.                *)
(***************************************************************************)
EXTENDS Login, TLAPS

\* What q will write back agrees with the row a, but for the columns dim.
Faithful(q, a, dim) ==
    /\ "failed" \in Carries(q) /\ "failed" \notin dim => q.row.failed = a.failed
    /\ q.op = "verify" /\ q.pc = "save" =>
          /\ "pw" \notin dim => q.row.pw = a.pw
          /\ "mfa" \notin dim => q.row.codes = a.codes

\* What the requests rest on: the password an edit keeps is there, a login has seen no lock.
Grounded(q) ==
    /\ q.op = "verify" /\ q.pc = "save" => q.row.pw # None /\ q.key \in Codes
    /\ q.op = "enable" /\ q.pc = "write" => q.key \in Secrets
    /\ q.op \in {"reset", "change"} /\ q.pc = "write" => q.pw \in Passwords
    /\ q.op = "login" /\ q.pc = "complete" => ~q.row.locked
    /\ q.pc = "bump" => q.op = "login"
    /\ q.pc = "complete" => q.op \in {"login", "verify"}
    /\ q.pc = "save" => q.op \in {"verify", "edit"}

Copies == \A r \in Requests : Faithful(req[r], row, blurred) /\ Grounded(req[r])

LoginInv == LoginTypeOK /\ PasswordKept /\ CodesSpent /\ FailuresCounted /\ Copies

----------------------------------------------------------------------------
(* Helpers.                                                                *)

LEMMA CarriesOf ==
    ASSUME NEW q \in Request
    PROVE  /\ q.pc = "bump" => Carries(q) = {"failed"}
           /\ q.pc = "save" /\ q.op = "verify" => Carries(q) = Fields
           /\ q.pc = "save" /\ q.op = "edit" => Carries(q) = {"mfa", "failed"}
           /\ q.pc \notin {"bump", "save"} => Carries(q) = {}
BY DEF Carries

LEMMA OverlappedHas ==
    ASSUME NEW r, NEW s \in Requests \ {r}, NEW F, NEW f \in F, f \in Carries(req[s])
    PROVE  f \in Overlapped(r, F)
BY DEF Overlapped

\* A request goes on, or ends, without a write to the row.
LEMMA ReadOnly ==
    ASSUME LoginInv, NEW r \in Requests, NEW q \in Request, Faithful(q, row, blurred), Grounded(q),
           req' = [req EXCEPT ![r] = q], UNCHANGED <<row, histVars>>,
           redis' \in [setup : Secrets \cup {None}, resets : SUBSET Resets],
           mfaToken' \in BOOLEAN
    PROVE  LoginInv'
<1>1. LoginTypeOK' /\ PasswordKept' /\ CodesSpent' /\ FailuresCounted'
    BY DEF LoginInv, LoginTypeOK, PasswordKept, CodesSpent, FailuresCounted, histVars
<1>2. Copies'
    BY DEF LoginInv, LoginTypeOK, Copies, histVars
<1> QED
    BY <1>1, <1>2 DEF LoginInv

\* A request writes the columns F anew, and carries nothing any more; whoever carries a
\* column of F is told by Overlapped.
LEMMA Writing ==
    ASSUME LoginInv, NEW r \in Requests, NEW q \in Request, Carries(q) = {}, Grounded(q),
           q.op # "verify" \/ q.pc # "save",
           req' = [req EXCEPT ![r] = q], NEW F \in SUBSET Fields,
           Overlapped(r, F) \subseteq blurred', blurred \ F \subseteq blurred',
           "failed" \notin F \cup blurred' => row'.failed = row.failed,
           "pw" \notin F \cup blurred' => row'.pw = row.pw,
           "mfa" \notin F \cup blurred' => row'.codes = row.codes
    PROVE  Copies' /\ req' \in [Requests -> Request]
<1>1. req' \in [Requests -> Request] /\ req \in [Requests -> Request]
    BY DEF LoginInv, LoginTypeOK
<1> SUFFICES ASSUME NEW s \in Requests
             PROVE  Faithful(req'[s], row', blurred') /\ Grounded(req'[s])
    BY <1>1 DEF Copies
<1>2. CASE s = r
    BY <1>1, <1>2 DEF Faithful
<1>3. CASE s # r
    <2>1. req'[s] = req[s] /\ Faithful(req[s], row, blurred) /\ Grounded(req[s]) /\ req[s] \in Request
        BY <1>1, <1>3 DEF LoginInv, Copies
    <2>2. ASSUME NEW f \in Fields, f \in Carries(req[s]), f \notin blurred'
          PROVE  f \notin F /\ f \notin blurred
        BY <1>3, <2>2, OverlappedHas
    <2>3. "failed" \in Carries(req[s]) /\ "failed" \notin blurred'
              => req[s].row.failed = row'.failed
        BY <2>1, <2>2 DEF Faithful, Fields
    <2>4. req[s].op = "verify" /\ req[s].pc = "save" =>
              /\ "pw" \notin blurred' => req[s].row.pw = row'.pw
              /\ "mfa" \notin blurred' => req[s].row.codes = row'.codes
        BY <2>1, <2>2, CarriesOf DEF Faithful, Fields
    <2> QED
        BY <2>1, <2>3, <2>4 DEF Faithful, Carries
<1> QED
    BY <1>2, <1>3

LEMMA IdleIs == Idle \in Request /\ Carries(Idle) = {} /\ Grounded(Idle) 
        /\ \A a, dim : Faithful(Idle, a, dim)
<1>1. NewAccount \in Account
    BY LoginAssumption DEF NewAccount, Account
<1>2. Idle \in Request
    BY <1>1 DEF Idle, Request
<1>3. Idle.op = None /\ Idle.pc = "idle"
    BY DEF Idle
<1>4. Carries(Idle) = {}
    BY <1>2, <1>3, CarriesOf
<1> QED
    BY <1>2, <1>3, <1>4 DEF Grounded, Faithful, Idle

----------------------------------------------------------------------------
(* The steps.                                                              *)

LEMMA InvTypes ==
    ASSUME LoginInv, NEW r \in Requests
    PROVE  /\ req \in [Requests -> Request] /\ req[r] \in Request
           /\ row \in Account /\ row.pw # None
           /\ redis \in [setup : Secrets \cup {None}, resets : SUBSET Resets]
           /\ Faithful(req[r], row, blurred) /\ Grounded(req[r])
BY DEF LoginInv, LoginTypeOK, Copies

LEMMA LoginReads ==
    ASSUME LoginInv, NEW r \in Requests, LoginRead(r)
    PROVE  LoginInv'
<1> DEFINE seen == [NewAccount EXCEPT !.failed = row.failed, !.locked = row.locked]
           q    == [Idle EXCEPT !.op = "login", !.row = seen]
<1>1. row \in Account /\ NewAccount \in Account
    BY InvTypes, LoginAssumption DEF NewAccount, Account
<1>2. seen \in Account /\ seen.failed = row.failed /\ seen.locked = row.locked
    BY <1>1 DEF Account
<1> HIDE DEF seen
<1>3. q \in Request /\ q.op = "login" /\ q.row = seen
    BY <1>2, IdleIs DEF Request
<1> HIDE DEF q
<1>5. ASSUME NEW pc \in {"bump", "complete"}, pc = "complete" => ~row.locked,
             Arrives(r, [q EXCEPT !.pc = pc]), UNCHANGED <<row, redis, mfaToken, histVars>>
      PROVE  LoginInv'
    <2> DEFINE g == [q EXCEPT !.pc = pc]
    <2>1. g \in Request
        BY <1>3 DEF Request
    <2>2. g.op = "login" /\ g.pc = pc /\ g.row = seen
        BY <1>3 DEF Request
    <2>3. Faithful(g, row, blurred) /\ Grounded(g)
        BY <2>2, <1>2, <1>5 DEF Faithful, Grounded
    <2>4. redis' \in [setup : Secrets \cup {None}, resets : SUBSET Resets] /\ mfaToken' \in BOOLEAN
        BY <1>5 DEF LoginInv, LoginTypeOK
    <2>5. req' = [req EXCEPT ![r] = g] /\ UNCHANGED <<row, histVars>>
        BY <1>5 DEF Arrives
    <2> HIDE DEF g
    <2> QED
        BY <2>1, <2>3, <2>4, <2>5, ReadOnly
<1>6. ASSUME mfaToken' = TRUE, UNCHANGED <<row, redis, req, histVars>>
      PROVE  LoginInv'
    BY <1>6 DEF LoginInv, LoginTypeOK, PasswordKept, CodesSpent, FailuresCounted, Copies, histVars
<1>7. PICK p \in Passwords :
         CASE ~row.active \/ p # row.pw ->
                Arrives(r, [q EXCEPT !.pc = "bump"]) /\ UNCHANGED mfaToken
           [] row.active /\ p = row.pw /\ row.mfa ->
                req[r].pc = "idle" /\ mfaToken' = TRUE /\ UNCHANGED req
           [] OTHER ->
                Arrives(r, [q EXCEPT !.pc = "complete"]) /\ UNCHANGED mfaToken
    BY DEF LoginRead, q, seen
<1>8. UNCHANGED <<row, redis, histVars>> /\ ~LockedOut(row)
    BY DEF LoginRead
<1>9. CASE ~row.active \/ p # row.pw
    <2>1. Arrives(r, [q EXCEPT !.pc = "bump"]) /\ UNCHANGED mfaToken
        BY <1>7, <1>9
    <2> QED
        BY <2>1, <1>5, <1>8
<1>10. CASE row.active /\ p = row.pw /\ row.mfa
    <2>1. mfaToken' = TRUE /\ UNCHANGED req
        BY <1>7, <1>10
    <2> QED
        BY <2>1, <1>6, <1>8
<1>11. CASE row.active /\ p = row.pw /\ ~row.mfa
    <2>1. Arrives(r, [q EXCEPT !.pc = "complete"]) /\ UNCHANGED mfaToken
        BY <1>7, <1>11
    <2> QED
        BY <2>1, <1>5, <1>8, <1>11 DEF LockedOut
<1> QED
    BY <1>9, <1>10, <1>11, <1>1 DEF Account

\* The other requests that read, and those that end with a key of Redis.
LEMMA OtherReads ==
    ASSUME LoginInv, NEW r \in Requests,
           VerifyRead(r) \/ EnableRead(r) \/ DisableRead(r) \/ ResetRead(r) \/ ChangeRead(r)
               \/ EditRead(r) \/ EnableForget(r) \/ ResetForget(r)
    PROVE  LoginInv'
<1>1. redis' \in [setup : Secrets \cup {None}, resets : SUBSET Resets] /\ mfaToken' \in BOOLEAN
    BY DEF VerifyRead, EnableRead, DisableRead, ResetRead, ChangeRead, EditRead, EnableForget,
           ResetForget, clientVars, LoginInv, LoginTypeOK
<1>2. UNCHANGED <<row, histVars>>
    BY DEF VerifyRead, EnableRead, DisableRead, ResetRead, ChangeRead, EditRead, EnableForget,
           ResetForget
<1> SUFFICES \E q \in Request : /\ req' = [req EXCEPT ![r] = q]
                                /\ Faithful(q, row, blurred) /\ Grounded(q)
    BY <1>1, <1>2, ReadOnly
<1>3. CASE VerifyRead(r)
    <2>1. PICK c \in {row.secret} \cup row.codes :
             req' = [req EXCEPT ![r] =
                 IF c = row.secret
                 THEN [Idle EXCEPT !.op = "verify", !.pc = "complete"]
                 ELSE [Idle EXCEPT !.op = "verify", !.pc = "save", !.row = row, !.key = c]]
        BY <1>3 DEF VerifyRead, Arrives
    <2>2. CASE c = row.secret
        <3> DEFINE q == [Idle EXCEPT !.op = "verify", !.pc = "complete"]
        <3>1. q \in Request /\ q.op = "verify" /\ q.pc = "complete"
            BY IdleIs DEF Request
        <3>2. req' = [req EXCEPT ![r] = q]
            BY <2>1, <2>2
        <3> HIDE DEF q
        <3> QED
            BY <3>1, <3>2, CarriesOf DEF Faithful, Grounded
    <2>3. CASE c # row.secret
        <3> DEFINE q == [Idle EXCEPT !.op = "verify", !.pc = "save", !.row = row, !.key = c]
        <3>1. c \in Codes
            BY <2>3, InvTypes DEF Account
        <3>2. q \in Request /\ q.op = "verify" /\ q.pc = "save" /\ q.row = row /\ q.key = c
            BY <3>1, IdleIs, InvTypes DEF Request
        <3>3. req' = [req EXCEPT ![r] = q]
            BY <2>1, <2>3
        <3> HIDE DEF q
        <3> QED
            BY <3>1, <3>2, <3>3, InvTypes DEF Faithful, Grounded
    <2> QED
        BY <2>2, <2>3
<1>4. CASE EnableRead(r)
    <2> DEFINE q == [Idle EXCEPT !.op = "enable", !.pc = "write", !.key = redis.setup]
    <2>1. redis.setup \in Secrets
        BY <1>4, InvTypes DEF EnableRead
    <2>2. q \in Request /\ q.op = "enable" /\ q.pc = "write" /\ q.key = redis.setup
        BY <2>1, IdleIs DEF Request
    <2>3. req' = [req EXCEPT ![r] = q]
        BY <1>4 DEF EnableRead, Arrives
    <2> HIDE DEF q
    <2> QED
        BY <2>1, <2>2, <2>3, CarriesOf DEF Faithful, Grounded
<1>5. CASE DisableRead(r)
    <2> DEFINE q == [Idle EXCEPT !.op = "disable", !.pc = "write"]
    <2>1. q \in Request /\ q.op = "disable" /\ q.pc = "write"
        BY IdleIs DEF Request
    <2>2. req' = [req EXCEPT ![r] = q]
        BY <1>5 DEF DisableRead, Arrives
    <2> HIDE DEF q
    <2> QED
        BY <2>1, <2>2, CarriesOf DEF Faithful, Grounded
<1>6. CASE ResetRead(r)
    <2>1. PICK t \in redis.resets, p \in Passwords :
              req' = [req EXCEPT ![r] =
                  [Idle EXCEPT !.op = "reset", !.pc = "write", !.key = t, !.pw = p]]
        BY <1>6 DEF ResetRead, Arrives
    <2> DEFINE q == [Idle EXCEPT !.op = "reset", !.pc = "write", !.key = t, !.pw = p]
    <2>2. t \in Resets
        BY InvTypes
    <2>3. q \in Request /\ q.op = "reset" /\ q.pc = "write" /\ q.pw = p
        BY <2>2, IdleIs DEF Request
    <2>4. req' = [req EXCEPT ![r] = q]
        BY <2>1
    <2> HIDE DEF q
    <2> QED
        BY <2>3, <2>4, CarriesOf DEF Faithful, Grounded
<1>7. CASE ChangeRead(r)
    <2>1. PICK p \in Passwords :
              req' = [req EXCEPT ![r] = [Idle EXCEPT !.op = "change", !.pc = "write", !.pw = p]]
        BY <1>7 DEF ChangeRead, Arrives
    <2> DEFINE q == [Idle EXCEPT !.op = "change", !.pc = "write", !.pw = p]
    <2>2. q \in Request /\ q.op = "change" /\ q.pc = "write" /\ q.pw = p
        BY IdleIs DEF Request
    <2>3. req' = [req EXCEPT ![r] = q]
        BY <2>1
    <2> HIDE DEF q
    <2> QED
        BY <2>2, <2>3, CarriesOf DEF Faithful, Grounded
<1>8. CASE EditRead(r)
    <2>1. PICK a \in BOOLEAN, p \in Passwords \cup {None} :
              req' = [req EXCEPT ![r] =
                  [Idle EXCEPT !.op = "edit", !.pc = "save", !.pw = p,
                               !.row = [row EXCEPT !.active = a, !.pw = None,
                                                   !.secret = None, !.codes = {}]]]
        BY <1>8 DEF EditRead, Arrives
    <2> DEFINE seen == [row EXCEPT !.active = a, !.pw = None, !.secret = None, !.codes = {}]
               q    == [Idle EXCEPT !.op = "edit", !.pc = "save", !.pw = p, !.row = seen]
    <2>2. seen \in Account /\ seen.failed = row.failed
        BY InvTypes DEF Account
    <2>3. req' = [req EXCEPT ![r] = q]
        BY <2>1
    <2> HIDE DEF seen
    <2>4. q \in Request /\ q.op = "edit" /\ q.pc = "save" /\ q.row = seen
        BY <2>2, IdleIs DEF Request
    <2> HIDE DEF q
    <2> QED
        BY <2>2, <2>3, <2>4 DEF Faithful, Grounded
<1>9. CASE EnableForget(r) \/ ResetForget(r)
    <2>1. req' = [req EXCEPT ![r] = Idle]
        BY <1>9 DEF EnableForget, ResetForget, Ends
    <2> QED
        BY <2>1, IdleIs
<1> QED
    BY <1>3, <1>4, <1>5, <1>6, <1>7, <1>8, <1>9

\* The steps without a request.
LEMMA Beyond ==
    ASSUME LoginInv, MfaSetup \/ ForgotPassword \/ Expires
    PROVE  LoginInv'
<1>1. redis' \in [setup : Secrets \cup {None}, resets : SUBSET Resets] /\ mfaToken' \in BOOLEAN
    BY DEF LoginInv, LoginTypeOK, MfaSetup, ForgotPassword, Expires
<1>2. UNCHANGED <<row, req, histVars>>
    BY DEF MfaSetup, ForgotPassword, Expires
<1> QED
    BY <1>1, <1>2
    DEF LoginInv, LoginTypeOK, PasswordKept, CodesSpent, FailuresCounted, Copies, histVars

LEMMA Crashing ==
    ASSUME LoginInv, ApiCrashes
    PROVE  LoginInv'
<1>1. req' \in [Requests -> Request] /\ Copies'
    BY IdleIs DEF ApiCrashes, Copies
<1> QED
    BY <1>1 DEF ApiCrashes, clientVars, histVars, LoginInv, LoginTypeOK, PasswordKept, CodesSpent,
                FailuresCounted

LEMMA LockEnding ==
    ASSUME LoginInv, LockEnds
    PROVE  LoginInv'
<1>1. row \in Account /\ req \in [Requests -> Request]
    BY DEF LoginInv, LoginTypeOK
<1>2. /\ row' \in Account /\ row'.pw = row.pw /\ row'.codes = row.codes
      /\ row'.failed = row.failed
    BY <1>1 DEF LockEnds, Account
<1>3. ASSUME NEW r \in Requests
      PROVE  /\ req'[r] \in Request /\ Faithful(req'[r], row', blurred') /\ Grounded(req'[r])
    <2> DEFINE a == [req[r].row EXCEPT !.locked = FALSE]
    <2>1. req[r] \in Request /\ req[r].row \in Account
        BY <1>1 DEF Request
    <2>2. /\ a \in Account /\ a.pw = req[r].row.pw /\ a.failed = req[r].row.failed
          /\ a.codes = req[r].row.codes /\ ~a.locked
        BY <2>1 DEF Account
    <2>3. req'[r] = [req[r] EXCEPT !.row = a]
        BY DEF LockEnds
    <2> HIDE DEF a
    <2>4. /\ req'[r] \in Request /\ req'[r].row = a /\ req'[r].op = req[r].op
          /\ req'[r].pc = req[r].pc /\ req'[r].pw = req[r].pw /\ req'[r].key = req[r].key
        BY <2>1, <2>2, <2>3 DEF Request
    <2>5. Carries(req'[r]) = Carries(req[r]) /\ UNCHANGED blurred
        BY <2>4 DEF Carries, LockEnds, histVars
    <2> QED
        BY <1>2, <2>2, <2>4, <2>5, InvTypes DEF Faithful, Grounded
<1>4. req' \in [Requests -> Request]
    BY <1>3 DEF LockEnds
<1> QED
    BY <1>2, <1>3, <1>4 DEF LockEnds, clientVars, histVars, LoginInv, LoginTypeOK, PasswordKept,
                            CodesSpent, FailuresCounted, Copies

LEMMA CountsFailure ==
    ASSUME LoginInv, NEW r \in Requests, CountFailure(r)
    PROVE  LoginInv'
<1> DEFINE count == Counted(req[r].row.failed)
           locks == count = 0
<1>1. /\ req[r].row \in Account /\ row \in Account /\ row.pw # None /\ req[r].pc = "bump"
      /\ req[r].row.failed \in 0..(MaxFailed - 1)
    BY InvTypes DEF CountFailure, Request, Account
<1>2. /\ count \in 0..(MaxFailed - 1)
      /\ ~locks => count = req[r].row.failed + 1
    BY <1>1, LoginAssumption DEF Counted
<1>3. /\ row' = [row EXCEPT !.failed = count, !.locked = locks \/ @]
      /\ blurred' = IF locks THEN Fresh(r, {"failed"})
                             ELSE blurred \cup Overlapped(r, {"failed"})
      /\ fails' = IF locks \/ "failed" \in blurred' THEN 0 ELSE fails + 1
      /\ req' = [req EXCEPT ![r] = Idle]
      /\ UNCHANGED <<clientVars, wanted, spent>>
    BY DEF CountFailure, Ends
<1> HIDE DEF count, locks
<1>4. locks \in BOOLEAN
    BY DEF locks
<1>5. /\ row' \in Account /\ row'.failed = count /\ row'.pw = row.pw /\ row'.codes = row.codes
    BY <1>1, <1>2, <1>3, <1>4 DEF Account
<1>6. Overlapped(r, {"failed"}) \subseteq {"failed"} /\ blurred \subseteq Fields
    BY DEF Overlapped, LoginInv, LoginTypeOK
<1>7. /\ blurred' \subseteq Fields /\ Overlapped(r, {"failed"}) \subseteq blurred'
      /\ blurred \ {"failed"} \subseteq blurred'
    BY <1>3, <1>4, <1>6 DEF Fresh, Fields
<1>8. Copies' /\ req' \in [Requests -> Request]
    <2>1. {"failed"} \in SUBSET Fields
        BY DEF Fields
    <2>2. Idle.pc # "save"
        BY DEF Idle
    <2> QED
        BY <1>3, <1>5, <1>7, <2>1, <2>2, IdleIs, Writing
<1>9. fails' \in 0..MaxFailed /\ FailuresCounted'
    <2>1. CASE locks
        BY <2>1, <1>2, <1>3, <1>5, LoginAssumption DEF FailuresCounted, locks
    <2>2. CASE ~locks /\ "failed" \in blurred'
        BY <2>2, <1>3, LoginAssumption DEF FailuresCounted
    <2>3. CASE ~locks /\ "failed" \notin blurred'
        <3>1. "failed" \notin blurred
            BY <2>3, <1>3
        <3>2. req[r].row.failed = row.failed
            BY <3>1, <1>1, InvTypes, CarriesOf DEF Faithful
        <3>3. row.failed = fails /\ fails < MaxFailed
            BY <3>1 DEF LoginInv, FailuresCounted
        <3>4. fails' = fails + 1 /\ row'.failed = fails + 1 /\ count < MaxFailed /\ fails \in Nat
            BY <2>3, <3>2, <3>3, <1>2, <1>3, <1>5, <1>1, LoginAssumption DEF Account
        <3> QED
            BY <3>4, <1>5, <1>2, LoginAssumption DEF FailuresCounted
    <2> QED
        BY <2>1, <2>2, <2>3
<1>10. PasswordKept' /\ CodesSpent'
    BY <1>3, <1>5, <1>7 DEF LoginInv, PasswordKept, CodesSpent
<1> QED
    BY <1>1, <1>3, <1>5, <1>7, <1>8, <1>9, <1>10 DEF LoginInv, LoginTypeOK, clientVars

LEMMA CompletesLogin ==
    ASSUME LoginInv, NEW r \in Requests, CompleteLogin(r)
    PROVE  LoginInv'
<1>1. /\ row' = [row EXCEPT !.failed = 0, !.locked = FALSE] /\ fails' = 0
      /\ blurred' = Fresh(r, {"failed"}) /\ req' = [req EXCEPT ![r] = Idle]
      /\ UNCHANGED <<clientVars, wanted, spent>>
    BY DEF CompleteLogin, Ends
<1>2. row' \in Account /\ row'.failed = 0 /\ row'.pw = row.pw /\ row'.codes = row.codes
    <2>1. row \in Account /\ 0 \in 0..(MaxFailed - 1)
        BY InvTypes, LoginAssumption
    <2> QED
        BY <1>1, <2>1 DEF Account
<1>3. /\ blurred' \subseteq Fields /\ Overlapped(r, {"failed"}) \subseteq blurred'
      /\ blurred \ {"failed"} \subseteq blurred'
    BY <1>1 DEF Fresh, Fields, Overlapped, LoginInv, LoginTypeOK
<1>4. Copies' /\ req' \in [Requests -> Request]
    <2>1. {"failed"} \in SUBSET Fields
        BY DEF Fields
    <2>2. Idle.pc # "save"
        BY DEF Idle
    <2> QED
        BY <1>1, <1>2, <1>3, <2>1, <2>2, IdleIs, Writing
<1> QED
    BY <1>1, <1>2, <1>3, <1>4, LoginAssumption
    DEF LoginInv, LoginTypeOK, clientVars, PasswordKept, CodesSpent, FailuresCounted

LEMMA SpendsCode ==
    ASSUME LoginInv, NEW r \in Requests, SpendCode(r)
    PROVE  LoginInv'
<1> DEFINE q    == [Idle EXCEPT !.op = "verify", !.pc = "complete"]
           copy == req[r].row
<1>1. /\ req[r].op = "verify" /\ req[r].pc = "save"
      /\ row' = [copy EXCEPT !.codes = @ \ {req[r].key}]
      /\ spent' = spent \cup {req[r].key} /\ blurred' = blurred \cup Overlapped(r, {"mfa"})
      /\ req' = [req EXCEPT ![r] = q] /\ UNCHANGED <<clientVars, fails, wanted>>
    BY DEF SpendCode, WithoutCode
<1>2. /\ req[r] \in Request /\ copy \in Account /\ copy.pw # None /\ req[r].key \in Codes
      /\ Faithful(req[r], row, blurred) /\ Carries(req[r]) = Fields
    BY <1>1, InvTypes, CarriesOf DEF Request, Grounded
<1>3. /\ row' \in Account /\ row'.pw = copy.pw /\ row'.failed = copy.failed
      /\ row'.codes = copy.codes \ {req[r].key}
    BY <1>1, <1>2 DEF Account
<1>4. /\ blurred \subseteq Fields /\ blurred \subseteq blurred' /\ blurred' \subseteq Fields
      /\ Overlapped(r, {"mfa"}) \subseteq blurred'
    BY <1>1 DEF Overlapped, Fields, LoginInv, LoginTypeOK
<1>5. /\ "failed" \notin blurred => copy.failed = row.failed
      /\ "pw" \notin blurred => copy.pw = row.pw
      /\ "mfa" \notin blurred => copy.codes = row.codes
    BY <1>1, <1>2 DEF Faithful, Fields
<1>6. q \in Request /\ q.op = "verify" /\ q.pc = "complete"
    BY IdleIs DEF Request
<1> HIDE DEF q
<1>7. Carries(q) = {} /\ Grounded(q)
    BY <1>6, CarriesOf DEF Grounded
<1>8. Copies' /\ req' \in [Requests -> Request]
    <2>1. {"mfa"} \in SUBSET Fields /\ blurred \ {"mfa"} \subseteq blurred'
        BY <1>4 DEF Fields
    <2>2. q.pc # "save"
        BY <1>6
    <2>3. /\ "failed" \notin {"mfa"} \cup blurred' => row'.failed = row.failed
          /\ "pw" \notin {"mfa"} \cup blurred' => row'.pw = row.pw
          /\ "mfa" \notin {"mfa"} \cup blurred' => row'.codes = row.codes
        BY <1>3, <1>4, <1>5
    <2> QED
        BY <1>1, <1>4, <1>6, <1>7, <2>1, <2>2, <2>3, Writing
<1>9. PasswordKept' /\ CodesSpent' /\ FailuresCounted'
    BY <1>1, <1>3, <1>4, <1>5 DEF LoginInv, PasswordKept, CodesSpent, FailuresCounted
<1> QED
    BY <1>1, <1>2, <1>3, <1>4, <1>8, <1>9 DEF LoginInv, LoginTypeOK, clientVars

\* The writes of columns that hold no copy.
LEMMA WritesFactor ==
    ASSUME LoginInv, NEW r \in Requests, EnableWrite(r) \/ DisableWrite(r)
    PROVE  LoginInv'
<1>1. PICK q \in {[req[r] EXCEPT !.pc = "forget"], Idle} : req' = [req EXCEPT ![r] = q]
    <2>1. CASE EnableWrite(r)
        <3>1. req' = [req EXCEPT ![r] = [req[r] EXCEPT !.pc = "forget"]]
            BY <2>1, InvTypes DEF EnableWrite, Go
        <3> QED
            BY <3>1
    <2>2. CASE DisableWrite(r)
        BY <2>2 DEF DisableWrite, Ends
    <2> QED
        BY <2>1, <2>2
<1>2. q \in Request /\ q.pc \in {"forget", "idle"}
    BY <1>1, InvTypes, IdleIs DEF Request, Idle
<1>3. /\ blurred' = Fresh(r, {"mfa"}) /\ spent' \in {{}, spent}
      /\ UNCHANGED <<clientVars, fails, wanted>>
    BY DEF EnableWrite, DisableWrite
<1>4. /\ row' \in Account /\ row'.pw = row.pw /\ row'.failed = row.failed
      /\ spent' = {} \/ row'.codes = {}
    <2>1. row \in Account
        BY InvTypes
    <2>2. CASE EnableWrite(r)
        <3>1. req[r].key \in Secrets
            BY <2>2, InvTypes DEF EnableWrite, Grounded
        <3> QED
            BY <2>1, <2>2, <3>1 DEF EnableWrite, Enrolled, Account
    <2>3. CASE DisableWrite(r)
        BY <2>1, <2>3 DEF DisableWrite, Account
    <2> QED
        BY <2>2, <2>3
<1>5. /\ blurred' \subseteq Fields /\ Overlapped(r, {"mfa"}) \subseteq blurred'
      /\ blurred \ {"mfa"} \subseteq blurred'
    BY <1>3 DEF Fresh, Fields, Overlapped, LoginInv, LoginTypeOK
<1>6. Copies' /\ req' \in [Requests -> Request]
    <2>1. {"mfa"} \in SUBSET Fields
        BY DEF Fields
    <2>2. Carries(q) = {} /\ Grounded(q) /\ q.pc # "save"
        BY <1>2, CarriesOf DEF Grounded
    <2> QED
        BY <1>1, <1>2, <1>4, <1>5, <2>1, <2>2, Writing
<1> QED
    BY <1>3, <1>4, <1>5, <1>6, InvTypes
    DEF LoginInv, LoginTypeOK, clientVars, PasswordKept, CodesSpent, FailuresCounted

LEMMA WritesPassword ==
    ASSUME LoginInv, NEW r \in Requests, PasswordWrite(r)
    PROVE  LoginInv'
<1>1. PICK q \in {[req[r] EXCEPT !.pc = "forget"], Idle} : req' = [req EXCEPT ![r] = q]
    <2>1. CASE req[r].op = "reset"
        <3>1. req' = [req EXCEPT ![r] = [req[r] EXCEPT !.pc = "forget"]]
            BY <2>1, InvTypes DEF PasswordWrite, Go
        <3> QED
            BY <3>1
    <2>2. CASE req[r].op # "reset"
        BY <2>2 DEF PasswordWrite, Ends
    <2> QED
        BY <2>1, <2>2
<1>2. q \in Request /\ q.pc \in {"forget", "idle"}
    BY <1>1, InvTypes, IdleIs DEF Request, Idle
<1>3. /\ blurred' = Fresh(r, {"pw"}) /\ wanted' = req[r].pw /\ wanted' \in Passwords
      /\ row' = [row EXCEPT !.pw = req[r].pw] /\ UNCHANGED <<clientVars, fails, spent>>
    BY InvTypes DEF PasswordWrite, Grounded
<1>4. /\ row' \in Account /\ row'.pw = wanted' /\ row'.pw # None /\ row'.failed = row.failed
      /\ row'.codes = row.codes
    BY <1>3, InvTypes, LoginAssumption DEF Account
<1>5. /\ blurred' \subseteq Fields /\ Overlapped(r, {"pw"}) \subseteq blurred'
      /\ blurred \ {"pw"} \subseteq blurred'
    BY <1>3 DEF Fresh, Fields, Overlapped, LoginInv, LoginTypeOK
<1>6. Copies' /\ req' \in [Requests -> Request]
    <2>1. {"pw"} \in SUBSET Fields
        BY DEF Fields
    <2>2. Carries(q) = {} /\ Grounded(q) /\ q.pc # "save"
        BY <1>2, CarriesOf DEF Grounded
    <2> QED
        BY <1>1, <1>2, <1>4, <1>5, <2>1, <2>2, Writing
<1> QED
    BY <1>3, <1>4, <1>5, <1>6
    DEF LoginInv, LoginTypeOK, clientVars, PasswordKept, CodesSpent, FailuresCounted

LEMMA SavesEdit ==
    ASSUME LoginInv, NEW r \in Requests, EditSave(r)
    PROVE  LoginInv'
<1> DEFINE F == IF req[r].pw = None THEN {} ELSE {"pw"}
<1>1. /\ req[r].op = "edit" /\ req[r].pc = "save" /\ req' = [req EXCEPT ![r] = Idle]
      /\ row' = Edited(req[r])
      /\ req[r].pw = None => UNCHANGED <<wanted, blurred>>
      /\ req[r].pw # None => wanted' = req[r].pw /\ blurred' = Fresh(r, {"pw"})
      /\ UNCHANGED <<clientVars, fails, spent>>
    BY DEF EditSave, Ends
<1>2. /\ req[r] \in Request /\ req[r].row \in Account /\ row \in Account /\ row.pw # None
      /\ Faithful(req[r], row, blurred) /\ Carries(req[r]) = {"mfa", "failed"}
    BY <1>1, InvTypes, CarriesOf DEF Request
<1>3. /\ row' \in Account /\ row'.failed = req[r].row.failed /\ row'.codes = row.codes
      /\ row'.pw = (IF req[r].pw = None THEN row.pw ELSE req[r].pw) /\ row'.pw # None
    BY <1>1, <1>2 DEF Account, Edited, Request
<1>4. "failed" \notin blurred => row'.failed = row.failed
    BY <1>2, <1>3 DEF Faithful
<1>5. /\ F \in SUBSET Fields /\ "failed" \notin F /\ "mfa" \notin F
      /\ "pw" \notin F => row'.pw = row.pw
    BY <1>3 DEF Fields
<1>6. /\ blurred' \subseteq Fields /\ Overlapped(r, F) \subseteq blurred'
      /\ blurred \ F \subseteq blurred'
    BY <1>1 DEF Fresh, Fields, Overlapped, LoginInv, LoginTypeOK
<1>7. Copies' /\ req' \in [Requests -> Request]
    <2>1. Idle.pc # "save"
        BY DEF Idle
    <2>2. /\ "failed" \notin F \cup blurred' => row'.failed = row.failed
          /\ "pw" \notin F \cup blurred' => row'.pw = row.pw
          /\ "mfa" \notin F \cup blurred' => row'.codes = row.codes
        BY <1>3, <1>4, <1>5, <1>6
    <2> HIDE DEF F
    <2> QED
        BY <1>1, <1>5, <1>6, <2>1, <2>2, IdleIs, Writing
<1>8. PasswordKept' /\ CodesSpent' /\ FailuresCounted'
    BY <1>1, <1>3, <1>4, <1>5, <1>6 DEF LoginInv, PasswordKept, CodesSpent, FailuresCounted
<1>9. wanted' \in Passwords
    BY <1>1, <1>2 DEF Request, LoginInv, LoginTypeOK
<1> QED
    BY <1>1, <1>3, <1>6, <1>7, <1>8, <1>9 DEF LoginInv, LoginTypeOK, clientVars

----------------------------------------------------------------------------
(* The theorems.                                                           *)

LEMMA InvInit == Init => LoginInv
<1> SUFFICES ASSUME Init PROVE LoginInv
    OBVIOUS
<1>1. NewAccount \in Account /\ wanted \in Passwords /\ row = [NewAccount EXCEPT !.pw = wanted]
    BY LoginAssumption DEF Init, NewAccount, Account
<1>2. row \in Account /\ row.pw = wanted /\ row.pw # None
    BY <1>1, LoginAssumption DEF Account
<1>3. row.failed = 0 /\ row.codes = {}
    BY <1>1 DEF NewAccount
<1>4. Copies
    BY IdleIs DEF Init, Copies
<1>5. LoginTypeOK
    <2>1. req \in [Requests -> Request]
        BY IdleIs DEF Init
    <2>2. redis \in [setup : Secrets \cup {None}, resets : SUBSET Resets]
        BY DEF Init
    <2>3. fails \in 0..MaxFailed
        BY LoginAssumption DEF Init
    <2> QED
        BY <1>1, <1>2, <2>1, <2>2, <2>3 DEF Init, LoginTypeOK
<1> QED
    BY <1>2, <1>3, <1>4, <1>5, LoginAssumption
    DEF Init, LoginInv, PasswordKept, CodesSpent, FailuresCounted

LEMMA InvStep == LoginInv /\ [Next]_vars => LoginInv'
<1> SUFFICES ASSUME LoginInv, [Next]_vars PROVE LoginInv'
    OBVIOUS
<1>1. CASE UNCHANGED vars
    BY <1>1 DEF vars, clientVars, histVars, LoginInv, LoginTypeOK, PasswordKept, CodesSpent,
                FailuresCounted, Copies
<1>2. ASSUME NEW r \in Requests, LoginStep(r) PROVE LoginInv'
    BY <1>2, LoginReads, CountsFailure, CompletesLogin DEF LoginStep
<1>3. ASSUME NEW r \in Requests, MfaStep(r) PROVE LoginInv'
    BY <1>3, OtherReads, SpendsCode, WritesFactor DEF MfaStep
<1>4. ASSUME NEW r \in Requests, PasswordStep(r) PROVE LoginInv'
    BY <1>4, OtherReads, WritesPassword DEF PasswordStep
<1>5. ASSUME NEW r \in Requests, EditStep(r) PROVE LoginInv'
    BY <1>5, OtherReads, SavesEdit DEF EditStep
<1>6. CASE MfaSetup \/ ForgotPassword \/ LockEnds \/ Expires \/ ApiCrashes
    BY <1>6, Beyond, LockEnding, Crashing
<1> QED
    BY <1>1, <1>2, <1>3, <1>4, <1>5, <1>6 DEF Next

\* The inductive invariant: copies that will be written back are as the row is.
THEOREM LoginInvHolds == Spec => []LoginInv
BY InvInit, InvStep, PTL DEF Spec

\* The row, the requests and the histories are well typed.
THEOREM LoginTypeCorrect == Spec => []LoginTypeOK
<1>1. LoginInv => LoginTypeOK
    BY DEF LoginInv
<1> QED
    BY <1>1, LoginInvHolds, PTL

\* No login and no edit of other fields brings an old password back.
THEOREM PasswordStaysKept == Spec => []PasswordKept
<1>1. LoginInv => PasswordKept
    BY DEF LoginInv
<1> QED
    BY <1>1, LoginInvHolds, PTL

\* A recovery code is good for one login.
THEOREM CodesStaySpent == Spec => []CodesSpent
<1>1. LoginInv => CodesSpent
    BY DEF LoginInv
<1> QED
    BY <1>1, LoginInvHolds, PTL

\* Failures are counted one by one, and the MaxFailed-th locks.
THEOREM FailuresStayCounted == Spec => []FailuresCounted
<1>1. LoginInv => FailuresCounted
    BY DEF LoginInv
<1> QED
    BY <1>1, LoginInvHolds, PTL

\* A lock is lifted early only by who had not seen it, or came by a second factor.
THEOREM LocksStay == Spec => LockStays
<1> DEFINE Lifting ==
        row.locked /\ ~row'.locked =>
            \/ LockEnds
            \/ \E r \in Requests :
                  /\ req'[r].pc # req[r].pc /\ req[r].pc \in {"complete", "save"}
                  /\ ~req[r].row.locked \/ req[r].op = "verify"
<1>1. ASSUME LoginInv, [Next]_vars PROVE [Lifting]_vars
    <2>1. CASE UNCHANGED vars
        BY <2>1
    <2>2. ASSUME NEW r \in Requests, LoginStep(r) \/ MfaStep(r) \/ PasswordStep(r) \/ EditStep(r)
          PROVE  Lifting
        <3>1. /\ row \in Account /\ req[r] \in Request /\ req[r].row \in Account
              /\ Grounded(req[r]) /\ req \in [Requests -> Request]
            BY <1>1, InvTypes DEF Request
        <3>2. CASE CompleteLogin(r)
            <4>1. req[r].pc = "complete" /\ req'[r] = Idle
                BY <3>1, <3>2 DEF CompleteLogin, Ends
            <4> QED
                BY <3>1, <4>1 DEF Grounded, Idle
        <3>3. CASE SpendCode(r)
            <4>1. /\ req[r].pc = "save" /\ req[r].op = "verify"
                  /\ req'[r] = [Idle EXCEPT !.op = "verify", !.pc = "complete"]
                BY <3>1, <3>3 DEF SpendCode
            <4>2. req'[r].pc = "complete"
                BY <4>1, IdleIs DEF Request
            <4> QED
                BY <4>1, <4>2
        <3>4. CASE EditSave(r)
            <4>1. req[r].pc = "save" /\ req'[r].pc = "idle" /\ row' = Edited(req[r])
                BY <3>1, <3>4 DEF EditSave, Ends, Idle
            <4>2. row'.locked = req[r].row.locked
                BY <3>1, <4>1 DEF Edited, Account
            <4> QED
                BY <4>1, <4>2
        <3>5. CASE CountFailure(r)
            BY <3>1, <3>5 DEF CountFailure, Account
        <3>6. CASE EnableWrite(r)
            BY <3>1, <3>6 DEF EnableWrite, Enrolled, Account
        <3>7. CASE DisableWrite(r)
            BY <3>1, <3>7 DEF DisableWrite, Account
        <3>8. CASE PasswordWrite(r)
            BY <3>1, <3>8 DEF PasswordWrite, Account
        <3>9. CASE \/ LoginRead(r) \/ VerifyRead(r) \/ EnableRead(r) \/ EnableForget(r)
                  \/ DisableRead(r) \/ ResetRead(r) \/ ChangeRead(r) \/ ResetForget(r) \/ EditRead(r)
            <4>1. UNCHANGED row
                BY <3>9 DEF LoginRead, VerifyRead, EnableRead, EnableForget, DisableRead, ResetRead,
                            ChangeRead, ResetForget, EditRead
            <4> QED
                BY <4>1
        <3> QED
            BY <2>2, <3>2, <3>3, <3>4, <3>5, <3>6, <3>7, <3>8, <3>9
            DEF LoginStep, MfaStep, PasswordStep, EditStep
    <2>3. CASE MfaSetup \/ ForgotPassword \/ Expires \/ ApiCrashes
        BY <2>3 DEF MfaSetup, ForgotPassword, Expires, ApiCrashes
    <2> QED
        BY <1>1, <2>1, <2>2, <2>3 DEF Next
<1> QED
    BY <1>1, LoginInvHolds, PTL DEF Spec, LockStays
=============================================================================
