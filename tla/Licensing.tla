------------------------------ MODULE Licensing -----------------------------
(***************************************************************************)
(* The licence (modules/license): its one row, the activation of a key,    *)
(* and the limit of channels it gives.  Whoever asks for the licence       *)
(* re-evaluates its status first, and saves it if it has changed.          *)
(*                                                                         *)
(* A key stands for the columns that activate() fills from it.  save() is  *)
(* two queries: it reads the row, and updates the columns in which the     *)
(* entity differs from what it has read.  The seeder has put the row in    *)
(* before the first request.  Times are in days.                           *)
(***************************************************************************)
EXTENDS Integers

CONSTANTS
    LicenceKeys,  \* keys that are tried, see LicenceKey
    VendorKey,    \* LICENSE_PUBLIC_KEY is configured
    LicenceCalls, \* bound: requests at a time
    GraceDays,    \* graceDays of the row
    Never,        \* a key without expiresAt
    DayMax        \* bound: the days that are looked at

\* What activate() takes from a key, and the first check that it does not pass.
LicenceKey ==
    [max : Nat, expires : Nat \cup {Never}, fails : {"format", "payload", "signature", "none"}]

ASSUME LicensingAssumption ==
    /\ LicenceKeys \subseteq LicenceKey /\ VendorKey \in BOOLEAN
    /\ GraceDays \in Nat /\ DayMax \in Nat /\ Never \notin Int

VARIABLES
    licence,      \* the row: a key, or that of the seeder, and the status
    today,
    call,         \* call[r]: where request r is
    activated,    \* history: the key whose activation ended last
    crossed       \* history: another request was at work beside it, or since

licenceVars == <<licence, today, call, activated, crossed>>

Trial == [max |-> 0, expires |-> Never, fails |-> "none"]
Floor == 2

License(key, status) == [key |-> key, status |-> status]

NoLicenceCall == [pc |-> "idle", key |-> Trial, entity |-> License(Trial, "trial"), diff |-> {}, due |-> 0,
                  shared |-> FALSE]

LicenceInit ==
    /\ licence = License(Trial, "trial")
    /\ today = 0
    /\ call = [r \in LicenceCalls |-> NoLicenceCall]
    /\ activated = Trial
    /\ crossed = FALSE

\* Without the vendor's key any signature will do.
verifyKey(key) == key.fails = "none" \/ (key.fails = "signature" /\ ~VendorKey)

\* Mutant of refreshStatus: the days of grace are left out.
refreshStatusAtOnce(entity) ==
    IF entity.status = "trial" \/ entity.key.expires = Never THEN entity
    ELSE [entity EXCEPT !.status = IF today < entity.key.expires THEN "active" ELSE "expired"]

refreshStatus(entity) ==
    LET expiry == entity.key.expires
    IN  IF entity.status = "trial" \/ expiry = Never THEN entity
        ELSE [entity EXCEPT !.status = IF today < expiry THEN "active"
                                       ELSE IF today < expiry + GraceDays THEN "grace" ELSE "expired"]

maxChannels(entity) == IF entity.status = "expired" THEN Floor ELSE entity.key.max

\* What the activated key entitles to today.
Entitled ==
    IF activated.expires # Never /\ today >= activated.expires + GraceDays
    THEN Floor ELSE activated.max

LicenceGo(r, next) == call' = [call EXCEPT ![r] = next]
Activating(r) == call[r].key # Trial
\* Another request has read the row and not answered yet.
Beside(r) == \E s \in LicenceCalls \ {r} : call[s].pc # "idle"

Overlaps(r, key) == Beside(r) /\ (key # Trial \/ \E s \in LicenceCalls : Activating(s))

\* current(), of a request for the limit or of one that activates a key it has verified.
Current(r, key) ==
    LET entity == refreshStatus(licence)
        q == [pc |-> IF entity # licence THEN "select" ELSE "current", key |-> key,
              entity |-> entity, diff |-> {}, due |-> Entitled, shared |-> Overlaps(r, key)]
    IN  /\ call[r].pc = "idle"
        /\ call' = [s \in LicenceCalls |->
              IF s = r THEN q
              ELSE [call[s] EXCEPT !.shared = @ \/ (Overlaps(r, key) /\ call[s].pc # "idle")]]
        /\ crossed' = (crossed \/ Overlaps(r, key))
        /\ UNCHANGED <<licence, today, activated>>

\* The columns in which the entity differs.
Differs(entity) ==
    (IF entity.key = licence.key THEN {} ELSE {"key"})
    \cup (IF entity.status = licence.status THEN {} ELSE {"status"})

SaveSelect(r) ==
    /\ call[r].pc \in {"select", "selectKey"}
    /\ LicenceGo(r, [call[r] EXCEPT !.diff = Differs(call[r].entity),
                                    !.pc = IF @ = "select" THEN "update" ELSE "updateKey"])
    /\ UNCHANGED <<licence, today, activated, crossed>>

Updated(q) ==
    License(IF "key" \in q.diff THEN q.entity.key ELSE licence.key,
            IF "status" \in q.diff THEN q.entity.status ELSE licence.status)

SaveStatus(r) ==
    /\ call[r].pc = "update"
    /\ licence' = Updated(call[r])
    /\ LicenceGo(r, [call[r] EXCEPT !.pc = "current"])
    /\ UNCHANGED <<today, activated, crossed>>

\* activate() goes on with the entity it was given.
Activate(r) ==
    /\ call[r].pc = "current" /\ Activating(r)
    /\ LicenceGo(r, [call[r] EXCEPT !.pc = "selectKey", !.entity = License(call[r].key, "active")])
    /\ UNCHANGED <<licence, today, activated, crossed>>

SaveKey(r) ==
    /\ call[r].pc = "updateKey"
    /\ licence' = Updated(call[r])
    /\ activated' = call[r].key
    /\ crossed' = call[r].shared
    /\ LicenceGo(r, NoLicenceCall)
    /\ UNCHANGED today

\* The limit is answered.
Answer(r) ==
    /\ call[r].pc = "current" /\ ~Activating(r)
    /\ LicenceGo(r, NoLicenceCall)
    /\ UNCHANGED <<licence, today, activated, crossed>>

DayPasses ==
    /\ today < DayMax
    /\ today' = today + 1
    /\ UNCHANGED <<licence, call, activated, crossed>>

LicenceNext ==
    \/ \E r \in LicenceCalls :
          \/ \E key \in {k \in LicenceKeys : verifyKey(k)} \cup {Trial} : Current(r, key)
          \/ SaveSelect(r) \/ SaveStatus(r) \/ Activate(r) \/ SaveKey(r) \/ Answer(r)
    \/ DayPasses

LicenceSpec == LicenceInit /\ [][LicenceNext]_licenceVars

----------------------------------------------------------------------------
\* The limit that is answered is the one of the key activated last at the time the row was
\* read: its own until the days of grace are over, 2 from then on, and its own again with
\* a new key.  Only an activation beside another request may go wrong: the other one saves
\* the status, or the whole key, it has read before.
LimitFollowsKey ==
    \A r \in LicenceCalls :
        call[r].pc = "current" /\ ~Activating(r) /\ ~crossed => maxChannels(call[r].entity) = call[r].due
=============================================================================
