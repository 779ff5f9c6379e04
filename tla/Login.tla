------------------------------- MODULE Login -------------------------------
(***************************************************************************)
(* The credentials of one account (modules/auth/auth.service.ts): login    *)
(* with its failure counter and lock, the second factor with its recovery  *)
(* codes, password changes, and the edit of the same row by an             *)
(* administrator (users.service.ts).                                       *)
(*                                                                         *)
(* Each query is one action.  A handler that calls save() with the user it *)
(* has read writes every column it has read; update() writes only the      *)
(* columns it names.  `blurred' records the columns of which an old copy   *)
(* was still to be written back when somebody changed them.                *)
(***************************************************************************)
EXTENDS Integers, FiniteSets

CONSTANTS
    Requests,    \* slots for requests in flight
    Passwords,   \* passwords that are tried and set
    Secrets,     \* TOTP secrets; one stands for the codes computed from it
    Codes,       \* recovery codes of one enrolment
    Resets,      \* tokens of password reset mails
    MaxFailed,   \* MAX_FAILED_LOGINS
    None

ASSUME LoginAssumption ==
    /\ MaxFailed \in Nat \ {0}
    /\ None \notin Secrets \cup Codes \cup Resets \cup Passwords

VARIABLES
    row,       \* the row of the account
    redis,     \* mfa-setup:<user>, and the pwreset:<token> keys
    mfaToken,  \* a client holds an unexpired token of the second step
    req,       \* the requests in flight
    fails,     \* history: failures since the last login or lock
    wanted,    \* history: the password last set
    spent,     \* history: recovery codes accepted since the enrolment
    blurred    \* history: fields an older copy may overwrite, or has

clientVars == <<redis, mfaToken>>
histVars   == <<fails, wanted, spent, blurred>>
vars       == <<row, clientVars, req, histVars>>

Account ==
    [active : BOOLEAN, pw : Passwords \cup {None}, failed : 0..(MaxFailed - 1), locked : BOOLEAN,
     mfa : BOOLEAN, secret : Secrets \cup {None}, codes : SUBSET Codes]

Request ==
    [op : {None, "login", "verify", "enable", "disable", "reset", "change", "edit"},
     pc : {"idle", "bump", "complete", "save", "write", "forget"},
     row : Account,                              \* what it uses of the row it has read
     pw : Passwords \cup {None},                 \* the password it sets
     key : Secrets \cup Codes \cup Resets \cup {None}]  \* the code or token it came with

Fields == {"pw", "mfa", "failed"}

LoginTypeOK ==
    /\ row \in Account /\ row.pw # None
    /\ redis \in [setup : Secrets \cup {None}, resets : SUBSET Resets]
    /\ mfaToken \in BOOLEAN
    /\ req \in [Requests -> Request]
    /\ fails \in 0..MaxFailed
    /\ wanted \in Passwords
    /\ spent \subseteq Codes
    /\ blurred \subseteq Fields

----------------------------------------------------------------------------
NewAccount ==
    [active |-> TRUE, pw |-> None, failed |-> 0, locked |-> FALSE,
     mfa |-> FALSE, secret |-> None, codes |-> {}]

Idle == [op |-> None, pc |-> "idle", row |-> NewAccount, pw |-> None, key |-> None]

Init ==
    /\ wanted \in Passwords
    /\ row = [NewAccount EXCEPT !.pw = wanted]
    /\ redis = [setup |-> None, resets |-> {}]
    /\ mfaToken = FALSE
    /\ req = [r \in Requests |-> Idle]
    /\ fails = 0 /\ spent = {} /\ blurred = {}

\* The fields of which q will write back what it has read.
Carries(q) ==
    CASE q.pc = "bump"                     -> {"failed"}
      [] q.pc = "save" /\ q.op = "verify"  -> Fields
      [] q.pc = "save" /\ q.op = "edit"    -> {"mfa", "failed"}
      [] OTHER                             -> {}

\* Fields written anew by request r are in doubt if another request carries a copy.
Overlapped(r, fields) ==
    fields \cap UNION {Carries(req[s]) : s \in Requests \ {r}}

Fresh(r, fields) == (blurred \ fields) \cup Overlapped(r, fields)

Arrives(r, q) == req[r].pc = "idle" /\ req' = [req EXCEPT ![r] = q]
Go(r, pc)     == req' = [req EXCEPT ![r].pc = pc]
Ends(r)       == req' = [req EXCEPT ![r] = Idle]

----------------------------------------------------------------------------
(* Login.                                                                  *)

\* Mutant of LockedOut: the lock is not looked at.
NotLockedOut(a) == FALSE

\* login() answers 401 at once; a disabled account is looked at first.
LockedOut(a) == a.active /\ a.locked

\* login() reads the user and checks the password against what it has read.
LoginRead(r) ==
    /\ ~LockedOut(row)
    /\ \E p \in Passwords :
          LET seen == [NewAccount EXCEPT !.failed = row.failed, !.locked = row.locked]
              q    == [Idle EXCEPT !.op = "login", !.row = seen]
          IN  CASE ~row.active \/ p # row.pw ->
                     Arrives(r, [q EXCEPT !.pc = "bump"]) /\ UNCHANGED mfaToken
                [] row.active /\ p = row.pw /\ row.mfa ->
                     req[r].pc = "idle" /\ mfaToken' = TRUE /\ UNCHANGED req
                [] OTHER ->
                     Arrives(r, [q EXCEPT !.pc = "complete"]) /\ UNCHANGED mfaToken
    /\ UNCHANGED <<row, redis, histVars>>

\* Mutant of Counted: the last failure does not lock.
CountedLate(n) == IF n = MaxFailed - 1 THEN n ELSE n + 1

\* failedLoginCount after one more failure; the last one starts anew and locks.
Counted(n) == IF n + 1 >= MaxFailed THEN 0 ELSE n + 1

\* bumpFailedLogins(), which also raises an alert when it locks.
CountFailure(r) ==
    /\ req[r].pc = "bump"
    /\ LET count == Counted(req[r].row.failed)
           locks == count = 0
       IN  /\ row' = [row EXCEPT !.failed = count, !.locked = locks \/ @]
           /\ blurred' = IF locks THEN Fresh(r, {"failed"})
                                  ELSE blurred \cup Overlapped(r, {"failed"})
           /\ fails' = IF locks \/ "failed" \in blurred' THEN 0 ELSE fails + 1
    /\ Ends(r)
    /\ UNCHANGED <<clientVars, wanted, spent>>

\* completeLogin(): counter and lock are cleared, tokens are issued.
CompleteLogin(r) ==
    /\ req[r].pc = "complete"
    /\ row' = [row EXCEPT !.failed = 0, !.locked = FALSE]
    /\ fails' = 0
    /\ blurred' = Fresh(r, {"failed"})
    /\ Ends(r)
    /\ UNCHANGED <<clientVars, wanted, spent>>

\* verifyMfa(): a TOTP code completes the login, a recovery code is first taken off the
\* list; a wrong code is not counted.
VerifyRead(r) ==
    /\ mfaToken /\ row.secret # None
    /\ \E c \in {row.secret} \cup row.codes :
          Arrives(r, IF c = row.secret
                     THEN [Idle EXCEPT !.op = "verify", !.pc = "complete"]
                     ELSE [Idle EXCEPT !.op = "verify", !.pc = "save", !.row = row, !.key = c])
    /\ UNCHANGED <<row, clientVars, histVars>>

\* Mutant of WithoutCode: a recovery code is not used up.
WithCode(a, c) == a

WithoutCode(a, c) == [a EXCEPT !.codes = @ \ {c}]

\* The whole user as it was read, without the code.
SpendCode(r) ==
    /\ req[r].op = "verify" /\ req[r].pc = "save"
    /\ row' = WithoutCode(req[r].row, req[r].key)
    /\ spent' = spent \cup {req[r].key}
    /\ blurred' = blurred \cup Overlapped(r, {"mfa"})
    /\ req' = [req EXCEPT ![r] = [Idle EXCEPT !.op = "verify", !.pc = "complete"]]
    /\ UNCHANGED <<clientVars, fails, wanted>>

----------------------------------------------------------------------------
(* The second factor.                                                      *)

\* mfaSetup(): a new secret waits ten minutes for its first code.
MfaSetup ==
    /\ \E s \in Secrets : redis' = [redis EXCEPT !.setup = s]
    /\ UNCHANGED <<row, mfaToken, req, histVars>>

\* mfaEnable() reads the secret and checks a code of it ...
EnableRead(r) ==
    /\ redis.setup # None
    /\ Arrives(r, [Idle EXCEPT !.op = "enable", !.pc = "write", !.key = redis.setup])
    /\ UNCHANGED <<row, clientVars, histVars>>

Enrolled(a, s) == [a EXCEPT !.mfa = TRUE, !.secret = s, !.codes = Codes]

\* ... stores it with new recovery codes, and then deletes the key.
EnableWrite(r) ==
    /\ req[r].op = "enable" /\ req[r].pc = "write"
    /\ row' = Enrolled(row, req[r].key)
    /\ spent' = {}
    /\ blurred' = Fresh(r, {"mfa"})
    /\ Go(r, "forget")
    /\ UNCHANGED <<clientVars, fails, wanted>>

EnableForget(r) ==
    /\ req[r].op = "enable" /\ req[r].pc = "forget"
    /\ redis' = [redis EXCEPT !.setup = None]
    /\ Ends(r)
    /\ UNCHANGED <<row, mfaToken, histVars>>

\* mfaDisable() checks the password and a code, then clears the three columns.
DisableRead(r) ==
    /\ row.secret # None
    /\ Arrives(r, [Idle EXCEPT !.op = "disable", !.pc = "write"])
    /\ UNCHANGED <<row, clientVars, histVars>>

DisableWrite(r) ==
    /\ req[r].op = "disable" /\ req[r].pc = "write"
    /\ row' = [row EXCEPT !.mfa = FALSE, !.secret = None, !.codes = {}]
    /\ blurred' = Fresh(r, {"mfa"})
    /\ Ends(r)
    /\ UNCHANGED <<clientVars, fails, wanted, spent>>

----------------------------------------------------------------------------
(* Passwords.                                                              *)

ForgotPassword ==
    /\ \E t \in Resets : redis' = [redis EXCEPT !.resets = @ \cup {t}]
    /\ UNCHANGED <<row, mfaToken, req, histVars>>

ResetRead(r) ==
    /\ \E t \in redis.resets, p \in Passwords :
          Arrives(r, [Idle EXCEPT !.op = "reset", !.pc = "write", !.key = t, !.pw = p])
    /\ UNCHANGED <<row, clientVars, histVars>>

\* changePassword() with the right current password.
ChangeRead(r) ==
    /\ \E p \in Passwords :
          Arrives(r, [Idle EXCEPT !.op = "change", !.pc = "write", !.pw = p])
    /\ UNCHANGED <<row, clientVars, histVars>>

PasswordWrite(r) ==
    /\ req[r].op \in {"reset", "change"} /\ req[r].pc = "write"
    /\ row' = [row EXCEPT !.pw = req[r].pw]
    /\ wanted' = req[r].pw
    /\ blurred' = Fresh(r, {"pw"})
    /\ IF req[r].op = "reset" THEN Go(r, "forget") ELSE Ends(r)
    /\ UNCHANGED <<clientVars, fails, spent>>

ResetForget(r) ==
    /\ req[r].op = "reset" /\ req[r].pc = "forget"
    /\ redis' = [redis EXCEPT !.resets = @ \ {req[r].key}]
    /\ Ends(r)
    /\ UNCHANGED <<row, mfaToken, histVars>>

----------------------------------------------------------------------------
(* PUT /users/:id.                                                         *)

\* update() reads the user without password, secret and codes (select: false).
EditRead(r) ==
    /\ \E a \in BOOLEAN, p \in Passwords \cup {None} :
          Arrives(r, [Idle EXCEPT !.op = "edit", !.pc = "save", !.pw = p,
                                  !.row = [row EXCEPT !.active = a, !.pw = None,
                                                      !.secret = None, !.codes = {}]])
    /\ UNCHANGED <<row, clientVars, histVars>>

\* Mutant of Edited: the hash it has not read is written as well.
EditedAll(q) == q.row

\* The columns that save() writes for q.
Edited(q) ==
    [q.row EXCEPT !.pw = IF q.pw = None THEN row.pw ELSE q.pw,
                  !.secret = row.secret, !.codes = row.codes]

EditSave(r) ==
    /\ req[r].op = "edit" /\ req[r].pc = "save"
    /\ row' = Edited(req[r])
    /\ IF req[r].pw = None
       THEN UNCHANGED <<wanted, blurred>>
       ELSE wanted' = req[r].pw /\ blurred' = Fresh(r, {"pw"})
    /\ Ends(r)
    /\ UNCHANGED <<clientVars, fails, spent>>

----------------------------------------------------------------------------
(* Time and crashes.                                                       *)

\* lockedUntil passes, in the row and in the copies of it.
LockEnds ==
    /\ row.locked
    /\ row' = [row EXCEPT !.locked = FALSE]
    /\ req' = [r \in Requests |-> [req[r] EXCEPT !.row.locked = FALSE]]
    /\ UNCHANGED <<clientVars, histVars>>

\* The MFA token, the setup key and the reset keys expire.
Expires ==
    /\ \/ mfaToken' = FALSE /\ UNCHANGED redis
       \/ redis' = [redis EXCEPT !.setup = None] /\ UNCHANGED mfaToken
       \/ \E t \in redis.resets :
             redis' = [redis EXCEPT !.resets = @ \ {t}] /\ UNCHANGED mfaToken
    /\ UNCHANGED <<row, req, histVars>>

ApiCrashes ==
    /\ req' = [r \in Requests |-> Idle]
    /\ UNCHANGED <<row, clientVars, histVars>>

LoginStep(r)    == LoginRead(r) \/ CountFailure(r) \/ CompleteLogin(r)
MfaStep(r)      == \/ VerifyRead(r) \/ SpendCode(r) \/ EnableRead(r) \/ EnableWrite(r)
                   \/ EnableForget(r) \/ DisableRead(r) \/ DisableWrite(r)
PasswordStep(r) == ResetRead(r) \/ ChangeRead(r) \/ PasswordWrite(r) \/ ResetForget(r)
EditStep(r)     == EditRead(r) \/ EditSave(r)

Next ==
    \/ \E r \in Requests : LoginStep(r) \/ MfaStep(r) \/ PasswordStep(r) \/ EditStep(r)
    \/ MfaSetup \/ ForgotPassword \/ LockEnds \/ Expires \/ ApiCrashes

Spec == Init /\ [][Next]_vars

----------------------------------------------------------------------------
(* Properties.                                                             *)

\* The password is the one last set by a reset, a change or an edit: no login and no
\* edit of other fields brings an old one back, unless it was changed between the read
\* and the save of a login by recovery code (verifyMfa lines 92-105).
PasswordKept == "pw" \notin blurred => row.pw = wanted

\* A recovery code that was accepted is no longer on the list: it is good for one login,
\* unless the row was saved from two copies.
CodesSpent == "mfa" \notin blurred => row.codes \cap spent = {}

\* The counter is the number of failures since the last login or lock, and the
\* MaxFailed-th of them locks, unless attempts overlapped.
FailuresCounted == "failed" \notin blurred => row.failed = fails /\ fails < MaxFailed

\* Before its time is over a lock is lifted only by a login that had read the account
\* before it was locked, by a second factor, or by the save of a copy from before.
LockStays ==
    [][row.locked /\ ~row'.locked =>
         \/ LockEnds
         \/ \E r \in Requests :
               /\ req'[r].pc # req[r].pc /\ req[r].pc \in {"complete", "save"}
               /\ ~req[r].row.locked \/ req[r].op = "verify"]_vars
=============================================================================
