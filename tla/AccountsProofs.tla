--------------------------- MODULE AccountsProofs ---------------------------
(***************************************************************************)
(* What is proved of users, roles and the installer: what the tables hold  *)
(* together, how the last super admin can be lost, and when the installer  *)
(* adds an administrator.                                                  *)
(*                                                                         *)
(* The argument: a request is `alone' until somebody else writes the       *)
(* users, so what a removal has counted, and what an installation has      *)
(* found missing, still holds where it acts alone.  An edit that is not    *)
(* `stale' holds what the row holds in the field that it does not change   *)
(* (EditFresh).                                                            *)
(***************************************************************************)
EXTENDS Accounts, FiniteSetTheorems, TLAPS

\* What a request is about, by its kind.
Placed(q, table) ==
    /\ q.op \in {"update", "remove"} => q.id \in Users
    /\ q.op = "role" => q.id \in Roles
    /\ q.op = "unrole" => q.id \in Custom
    /\ q.op \in {"boot", "seed"} =>
          /\ q.row.roles \subseteq {Super}
          /\ Super \in q.row.roles => table[Super] # "none"
          /\ q.pc = "save" => q.row.email = EnvEmail
    /\ q.pc = "flag" => q.op \in {"install", "boot", "seed"}

\* A removal of the last super admin is not let through.
Counted(q, supers) ==
    q.op = "remove" /\ q.pc = "remove" /\ q.alone => q.id \notin supers \/ ~(Cardinality(supers) <= 1)

InstallsAlone(q) == q.op = "install" /\ q.pc = "save" /\ q.alone

\* An installation that is alone has found an empty panel, and nobody sets the flag.
Untouched ==
    (\E r \in Requests : InstallsAlone(req[r]))
        => Live = {} /\ installed # "yes" /\ \A s \in Requests : req[s].pc # "flag"

AccountsInv ==
    /\ AccountsTypeOK
    /\ \A r \in Requests : Placed(req[r], catalog)
    /\ \A r \in Requests : Counted(req[r], Supers)
    /\ Untouched

LEMMA IdleType == Idle \in Request /\ Idle.op = None /\ Idle.pc = "idle" /\ NoUser \in Row
BY DEF Idle, Ops, Request, NoUser, Row

LEMMA NoneIsNoOp == None \notin Users /\ None \notin Roles /\ None \notin Emails /\ None \notin Ops
BY AccountsAssumption

LEMMA IdlePlaced ==
    ASSUME NEW table, NEW supers
    PROVE  Placed(Idle, table) /\ Counted(Idle, supers) /\ ~InstallsAlone(Idle) /\ Idle.pc # "flag"
BY NoneIsNoOp DEF Ops, Idle, NoUser, Placed, Counted, InstallsAlone

LEMMA AccountsStart == Init => AccountsInv
<1> SUFFICES ASSUME Init
             PROVE  AccountsInv
    OBVIOUS
<1>4. user \in [Users -> Row] /\ asked \in [Users -> Row] /\ req \in [Requests -> Request]
    BY IdleType DEF Init
<1>5. Live = {} /\ \A u \in Users : user[u].roles = {}
    BY DEF Init, Live, NoUser
<1>1. AccountsTypeOK
    BY <1>4, <1>5 DEF Init, AccountsTypeOK
<1>2. \A r \in Requests : Placed(req[r], catalog) /\ Counted(req[r], Supers)
    BY IdlePlaced DEF Init
<1>3. Untouched
    BY IdlePlaced DEF Init, Untouched
<1> QED
    BY <1>1, <1>2, <1>3 DEF AccountsInv

\* A request goes on without a write to the users.
LEMMA Moves ==
    ASSUME AccountsInv, NEW r \in Requests, NEW q \in Request,
           req' = [req EXCEPT ![r] = q], UNCHANGED <<user, asked>>, stale' \subseteq Users,
           catalog' \in [Roles -> {"none", "catalogue", "edited"}],
           \A c \in Roles : catalog[c] # "none" => catalog'[c] # "none",
           installed' \in {"missing", "no", "yes"}, samples' \in BOOLEAN,
           boot' \in {"down", "seeding", "up"},
           installed' = "yes" => installed = "yes" \/ req[r].pc = "flag",
           Placed(q, catalog'), Counted(q, Supers),
           q.pc = "flag" => req[r].pc = "flag",
           InstallsAlone(q) =>
               \/ InstallsAlone(req[r])
               \/ Live = {} /\ installed # "yes" /\ req[r].pc # "flag"
                  /\ \A s \in Requests : req[s].pc # "flag"
    PROVE  AccountsInv'
<1>1. req \in [Requests -> Request] /\ req' \in [Requests -> Request]
    BY DEF AccountsInv, AccountsTypeOK
<1>2. Live' = Live /\ Supers' = Supers /\ LiveRoles \subseteq LiveRoles'
    BY DEF Live, Supers, LiveRoles
<1>3. AccountsTypeOK'
    BY <1>1, <1>2 DEF AccountsInv, AccountsTypeOK
<1>4. \A s \in Requests : Placed(req'[s], catalog')
    BY <1>1 DEF AccountsInv, Placed, Roles
<1>5. \A s \in Requests : Counted(req'[s], Supers')
    BY <1>1, <1>2 DEF AccountsInv
<1>6. Untouched'
    BY <1>1, <1>2 DEF AccountsInv, Untouched
<1> QED
    BY <1>3, <1>4, <1>5, <1>6 DEF AccountsInv

\* A request writes the users, and nobody is alone any more.
LEMMA Writes ==
    ASSUME AccountsInv, NEW r \in Requests, NEW q \in Request, Changed(r, q),
           UNCHANGED <<catalog, installed, samples, boot>>,
           user' \in [Users -> Row], asked' \in [Users -> Row], stale' \subseteq Users,
           \A u, v \in Users : u # v /\ user'[u].email = user'[v].email => user'[u].email = None,
           \A u \in Users : user'[u].roles \subseteq LiveRoles,
           Placed(q, catalog), q.op # "remove", ~InstallsAlone(q)
    PROVE  AccountsInv'
<1>1. req \in [Requests -> Request]
    BY DEF AccountsInv, AccountsTypeOK
<1>2. \A s \in Requests \ {r} :
          /\ req'[s] = [req[s] EXCEPT !.alone = FALSE] /\ req'[s] \in Request
          /\ req'[s].alone = FALSE /\ req'[s].op = req[s].op /\ req'[s].pc = req[s].pc
          /\ req'[s].id = req[s].id /\ req'[s].row = req[s].row
    BY <1>1 DEF Changed, Request
<1>3. req'[r] = q /\ req' \in [Requests -> Request]
    BY <1>1, <1>2 DEF Changed
<1>4. LiveRoles' = LiveRoles
    BY DEF LiveRoles
<1>5. AccountsTypeOK'
    BY <1>3, <1>4 DEF AccountsInv, AccountsTypeOK, Live
<1>6. \A s \in Requests : Placed(req'[s], catalog')
    BY <1>2, <1>3 DEF AccountsInv, Placed
<1>7. \A s \in Requests : Counted(req'[s], Supers')
    BY <1>2, <1>3 DEF Counted
<1>8. Untouched'
    BY <1>2, <1>3 DEF Untouched, InstallsAlone
<1> QED
    BY <1>5, <1>6, <1>7, <1>8 DEF AccountsInv

LEMMA EndsKeeps ==
    ASSUME AccountsInv, NEW r \in Requests, Ends(r), UNCHANGED <<user, asked>>,
           stale' \subseteq Users,
           catalog' \in [Roles -> {"none", "catalogue", "edited"}],
           \A c \in Roles : catalog[c] # "none" => catalog'[c] # "none",
           installed' = installed, samples' \in BOOLEAN, boot' \in {"down", "seeding", "up"}
    PROVE  AccountsInv'
<1>1. Placed(Idle, catalog') /\ Counted(Idle, Supers) /\ ~InstallsAlone(Idle) /\ Idle.pc # "flag"
    BY IdlePlaced
<1>2. installed' \in {"missing", "no", "yes"}
    BY DEF AccountsInv, AccountsTypeOK
<1> QED
    BY <1>1, <1>2, IdleType, Moves DEF Ends

\* The next step of a request.
LEMMA Going ==
    ASSUME AccountsInv, NEW r \in Requests,
           NEW pc \in {"roles", "dup", "remove", "samples", "settings", "admin"},
           Go(r, pc), UNCHANGED <<user, asked, stale, samples, boot>>,
           catalog' \in [Roles -> {"none", "catalogue", "edited"}],
           \A c \in Roles : catalog[c] # "none" => catalog'[c] # "none",
           installed' \in {"missing", "no", "yes"},
           installed' = "yes" => installed = "yes" \/ req[r].pc = "flag",
           pc = "remove" => ~LastSuper
    PROVE  AccountsInv'
<1> DEFINE q == [req[r] EXCEPT !.pc = pc]
<1>1. req[r] \in Request
    BY DEF AccountsInv, AccountsTypeOK
<1>2. q \in Request
    BY <1>1 DEF Request
<1>3. q.op = req[r].op /\ q.pc = pc /\ q.id = req[r].id /\ q.row = req[r].row
      /\ q.alone = req[r].alone
    BY <1>1 DEF Request
<1>4. req' = [req EXCEPT ![r] = q]
    BY DEF Go
<1>5. Super \in Roles
    BY DEF Roles
<1> HIDE DEF q
<1>6. Placed(q, catalog')
    BY <1>3, <1>5 DEF Placed, AccountsInv
<1>7. Counted(q, Supers)
    BY <1>3 DEF Counted, LastSuper
<1>8. ~InstallsAlone(q)
    BY <1>3 DEF InstallsAlone
<1>9. stale' \subseteq Users /\ samples' \in BOOLEAN /\ boot' \in {"down", "seeding", "up"}
    BY DEF AccountsInv, AccountsTypeOK
<1> QED
    BY <1>2, <1>3, <1>4, <1>6, <1>7, <1>8, <1>9, Moves

\* A request arrives, of which nothing is asked yet.
LEMMA Arriving ==
    ASSUME AccountsInv, NEW r \in Requests, NEW q \in Request,
           req' = [req EXCEPT ![r] = q], UNCHANGED <<tables, histVars>>,
           boot' \in {"down", "seeding", "up"},
           Placed(q, catalog), Counted(q, Supers), q.pc # "flag", ~InstallsAlone(q)
    PROVE  AccountsInv'
<1>1. /\ catalog' \in [Roles -> {"none", "catalogue", "edited"}]
      /\ \A c \in Roles : catalog[c] # "none" => catalog'[c] # "none"
      /\ installed' \in {"missing", "no", "yes"} /\ samples' \in BOOLEAN
      /\ stale' \subseteq Users
      /\ UNCHANGED <<user, asked, catalog>> /\ installed' = installed
    BY DEF tables, histVars, AccountsInv, AccountsTypeOK
<1> QED
    BY <1>1, Moves

----------------------------------------------------------------------------
(* The steps that do not write the users.                                  *)

LEMMA FormKeeps ==
    ASSUME AccountsInv, NEW r \in Requests,
           PostUser(r) \/ OpenForm(r) \/ CloseForm(r) \/ PatchUser(r)
    PROVE  AccountsInv'
<1>1. UNCHANGED <<tables, histVars, boot>> /\ boot' \in {"down", "seeding", "up"}
    BY DEF PostUser, OpenForm, CloseForm, PatchUser, AccountsInv, AccountsTypeOK
<1>2. CASE PostUser(r)
    <2>1. PICK e \in Emails, roles \in SUBSET LiveRoles :
              req' = [req EXCEPT ![r] = [Idle EXCEPT !.op = "create", !.pc = "roles",
                                                     !.row = [email |-> e, roles |-> roles]]]
        BY <1>2 DEF PostUser, Arrives
    <2> DEFINE q == [Idle EXCEPT !.op = "create", !.pc = "roles",
                                 !.row = [email |-> e, roles |-> roles]]
    <2>2. q \in Request /\ q.op = "create" /\ q.pc = "roles"
        BY DEF Idle, Ops, Request, Row, LiveRoles
    <2>3. req' = [req EXCEPT ![r] = q]
        BY <2>1
    <2> HIDE DEF q
    <2>4. Placed(q, catalog) /\ Counted(q, Supers) /\ ~InstallsAlone(q)
        BY <2>2, AccountsAssumption DEF Placed, Counted, InstallsAlone
    <2> QED
        BY <1>1, <2>2, <2>3, <2>4, Arriving
<1>3. ASSUME NEW u \in Live, NEW row \in Row,
             NEW what \in {"email", "roles"}, NEW pc \in {"form", "dup"},
             req' = [req EXCEPT ![r] = [Idle EXCEPT !.op = "update", !.pc = pc, !.id = u,
                                                    !.what = what, !.row = row]]
      PROVE  AccountsInv'
    <2> DEFINE q == [Idle EXCEPT !.op = "update", !.pc = pc, !.id = u, !.what = what, !.row = row]
    <2>1. u \in Users
        BY DEF Live
    <2>3. q \in Request /\ q.op = "update" /\ q.pc = pc /\ q.id = u
        BY <2>1 DEF Idle, Ops, Request
    <2>4. req' = [req EXCEPT ![r] = q]
        BY <1>3
    <2> HIDE DEF q
    <2>5. Placed(q, catalog) /\ Counted(q, Supers) /\ ~InstallsAlone(q)
        BY <2>1, <2>3 DEF Placed, Counted, InstallsAlone
    <2> QED
        BY <1>1, <2>3, <2>4, <2>5, Arriving
<1>7. ASSUME NEW u \in Live
      PROVE  /\ \A e \in Emails : [user[u] EXCEPT !.email = e] \in Row
             /\ \A roles \in SUBSET LiveRoles : [user[u] EXCEPT !.roles = roles] \in Row
    <2>1. user[u] \in Row
        BY DEF Live, AccountsInv, AccountsTypeOK
    <2> QED
        BY <2>1 DEF Row, LiveRoles
<1>4. CASE OpenForm(r)
    <2>1. ASSUME NEW u \in Live, NEW e \in Emails,
                 Arrives(r, [Idle EXCEPT !.op = "update", !.pc = "form", !.id = u, !.what = "email",
                                         !.row = [user[u] EXCEPT !.email = e]])
          PROVE  AccountsInv'
        <3> DEFINE row == [user[u] EXCEPT !.email = e]
        <3>1. row \in Row
            BY <1>7
        <3>2. req' = [req EXCEPT ![r] = [Idle EXCEPT !.op = "update", !.pc = "form", !.id = u,
                                                     !.what = "email", !.row = row]]
            BY <2>1 DEF Arrives
        <3> HIDE DEF row
        <3> QED
            BY <1>3, <3>1, <3>2
    <2>2. ASSUME NEW u \in Live, NEW roles \in SUBSET LiveRoles,
                 Arrives(r, [Idle EXCEPT !.op = "update", !.pc = "form", !.id = u, !.what = "roles",
                                         !.row = [user[u] EXCEPT !.roles = roles]])
          PROVE  AccountsInv'
        <3> DEFINE row == [user[u] EXCEPT !.roles = roles]
        <3>1. req' = [req EXCEPT ![r] = [Idle EXCEPT !.op = "update", !.pc = "form", !.id = u,
                                                     !.what = "roles", !.row = row]]
            BY <2>2 DEF Arrives
        <3>2. row \in Row
            BY <1>7
        <3> HIDE DEF row
        <3> QED
            BY <1>3, <3>1, <3>2
    <2> QED
        BY <1>4, <2>1, <2>2 DEF OpenForm
<1>5. CASE PatchUser(r)
    <2>1. PICK u \in Live, e \in Emails :
              Arrives(r, [Idle EXCEPT !.op = "update", !.pc = "dup", !.id = u, !.what = "email",
                                      !.row = [user[u] EXCEPT !.email = e]])
        BY <1>5 DEF PatchUser
    <2> DEFINE row == [user[u] EXCEPT !.email = e]
    <2>2. req' = [req EXCEPT ![r] = [Idle EXCEPT !.op = "update", !.pc = "dup", !.id = u,
                                                 !.what = "email", !.row = row]]
        BY <2>1 DEF Arrives
    <2>3. row \in Row
        BY <1>7
    <2> HIDE DEF row
    <2> QED
        BY <1>3, <2>2, <2>3
<1>6. CASE CloseForm(r)
    BY <1>6, EndsKeeps DEF CloseForm, tables, histVars, AccountsInv, AccountsTypeOK
<1> QED
    BY <1>2, <1>4, <1>5, <1>6


\* What Moves asks of a step that leaves the tables alone.
LEMMA TablesType ==
    ASSUME AccountsInv, UNCHANGED <<tables, boot, histVars>>
    PROVE  /\ UNCHANGED <<user, asked, stale, samples, boot, catalog, installed>>
           /\ stale' \subseteq Users
           /\ catalog' \in [Roles -> {"none", "catalogue", "edited"}]
           /\ \A c \in Roles : catalog[c] # "none" => catalog'[c] # "none"
           /\ installed' \in {"missing", "no", "yes"} /\ samples' \in BOOLEAN
           /\ boot' \in {"down", "seeding", "up"}
BY DEF tables, histVars, AccountsInv, AccountsTypeOK

LEMMA UpdateKeeps ==
    ASSUME AccountsInv, NEW r \in Requests, FindRoles(r) \/ PutUser(r) \/ CheckEmail(r)
    PROVE  AccountsInv'
<1>1. UNCHANGED <<tables, boot, histVars>>
    BY DEF FindRoles, PutUser, CheckEmail
<1>2. CASE FindRoles(r)
    <2> DEFINE found == [req[r].row EXCEPT !.roles = req[r].row.roles \cap LiveRoles]
               q     == [req[r] EXCEPT !.row = found, !.pc = "save"]
    <2>1. req[r] \in Request /\ req[r].op \in {"create", "update"}
        BY <1>2 DEF FindRoles, AccountsInv, AccountsTypeOK
    <2>2. found \in Row
        BY <2>1 DEF Request, Row
    <2>3. q \in Request /\ q.op = req[r].op /\ q.pc = "save" /\ q.id = req[r].id
        BY <2>1, <2>2 DEF Request
    <2>4. req' = [req EXCEPT ![r] = q]
        BY <1>2 DEF FindRoles
    <2> HIDE DEF q
    <2>5. Placed(q, catalog) /\ Counted(q, Supers) /\ ~InstallsAlone(q)
        BY <2>1, <2>3 DEF Placed, Counted, InstallsAlone, AccountsInv
    <2> QED
        BY <1>1, <2>3, <2>4, <2>5, TablesType, Arriving DEF tables, histVars
<1>3. CASE Ends(r)
    BY <1>1, <1>3, TablesType, EndsKeeps
<1>4. CASE Go(r, "roles") \/ Go(r, "dup")
    BY <1>1, <1>4, TablesType, Going
<1> QED
    BY <1>2, <1>3, <1>4 DEF PutUser, CheckEmail

LEMMA RemovalKeeps ==
    ASSUME AccountsInv, NEW r \in Requests, DeleteUser(r) \/ CountSupers(r)
    PROVE  AccountsInv'
<1>1. UNCHANGED <<tables, boot, histVars>>
    BY DEF DeleteUser, CountSupers
<1>2. CASE DeleteUser(r)
    <2>1. PICK u \in Live :
              req' = [req EXCEPT ![r] = [Idle EXCEPT !.op = "remove", !.id = u, !.alone = TRUE,
                                             !.pc = IF u \in Supers THEN "count" ELSE "remove"]]
        BY <1>2 DEF DeleteUser, Arrives
    <2> DEFINE q == [Idle EXCEPT !.op = "remove", !.id = u, !.alone = TRUE,
                                 !.pc = IF u \in Supers THEN "count" ELSE "remove"]
    <2>2. u \in Users
        BY DEF Live
    <2>3. /\ q \in Request /\ q.op = "remove" /\ q.id = u
          /\ q.pc = IF u \in Supers THEN "count" ELSE "remove"
        BY <2>2, IdleType DEF Idle, Ops, Request
    <2>4. req' = [req EXCEPT ![r] = q]
        BY <2>1
    <2> HIDE DEF q
    <2>5. Placed(q, catalog) /\ Counted(q, Supers) /\ ~InstallsAlone(q) /\ q.pc # "flag"
        BY <2>2, <2>3 DEF Placed, Counted, InstallsAlone
    <2> QED
        BY <1>1, <2>3, <2>4, <2>5, TablesType, Arriving DEF tables, histVars
<1>3. CASE CountSupers(r) /\ LastSuper
    BY <1>1, <1>3, TablesType, EndsKeeps DEF CountSupers
<1>4. CASE CountSupers(r) /\ ~LastSuper
    BY <1>1, <1>4, TablesType, Going DEF CountSupers
<1> QED
    BY <1>2, <1>3, <1>4

LEMMA RoleKeeps ==
    ASSUME AccountsInv, NEW r \in Requests, PutRole(r) \/ DeleteRole(r) \/ SaveRole(r)
    PROVE  AccountsInv'
<1>1. ASSUME NEW c \in Roles, NEW op \in {"role", "unrole"}, op = "unrole" => c \in Custom,
             NEW pc \in {"save", "remove"},
             req' = [req EXCEPT ![r] = [Idle EXCEPT !.op = op, !.pc = pc, !.id = c]],
             UNCHANGED <<tables, boot, histVars>>
      PROVE  AccountsInv'
    <2> DEFINE q == [Idle EXCEPT !.op = op, !.pc = pc, !.id = c]
    <2>1. q \in Request /\ q.op = op /\ q.pc = pc /\ q.id = c
        BY IdleType DEF Idle, Ops, Request
    <2>2. req' = [req EXCEPT ![r] = q]
        BY <1>1
    <2> HIDE DEF q
    <2>3. Placed(q, catalog) /\ Counted(q, Supers) /\ ~InstallsAlone(q) /\ q.pc # "flag"
        BY <1>1, <2>1 DEF Placed, Counted, InstallsAlone
    <2> QED
        BY <1>1, <2>1, <2>2, <2>3, TablesType, Arriving DEF tables, histVars
<1>2. CASE PutRole(r)
    <2>1. PICK c \in LiveRoles :
              req' = [req EXCEPT ![r] = [Idle EXCEPT !.op = "role", !.pc = "save", !.id = c]]
        BY <1>2 DEF PutRole, Arrives
    <2>2. c \in Roles
        BY DEF LiveRoles
    <2> QED
        BY <1>1, <1>2, <2>1, <2>2 DEF PutRole
<1>3. CASE DeleteRole(r)
    <2>1. PICK c \in LiveRoles \cap Custom :
              req' = [req EXCEPT ![r] = [Idle EXCEPT !.op = "unrole", !.pc = "remove", !.id = c]]
        BY <1>3 DEF DeleteRole, Arrives
    <2>2. c \in Roles /\ c \in Custom
        BY DEF LiveRoles
    <2> QED
        BY <1>1, <1>3, <2>1, <2>2 DEF DeleteRole
<1>4. CASE SaveRole(r)
    <2>1. req[r].id \in Roles
        BY <1>4 DEF SaveRole, AccountsInv, Placed
    <2>2. catalog' = [catalog EXCEPT ![req[r].id] = "edited"]
        BY <1>4 DEF SaveRole
    <2>3. /\ catalog' \in [Roles -> {"none", "catalogue", "edited"}]
          /\ \A c \in Roles : catalog[c] # "none" => catalog'[c] # "none"
        BY <2>1, <2>2 DEF AccountsInv, AccountsTypeOK
    <2>4. stale' \subseteq Users
        BY <1>4 DEF SaveRole, AccountsInv, AccountsTypeOK
    <2>5. samples' \in BOOLEAN /\ boot' \in {"down", "seeding", "up"}
        BY <1>4 DEF SaveRole, AccountsInv, AccountsTypeOK
    <2> QED
        BY <1>4, <2>3, <2>4, <2>5, EndsKeeps DEF SaveRole
<1> QED
    BY <1>2, <1>3, <1>4


LEMMA InstallKeeps ==
    ASSUME AccountsInv, NEW r \in Requests, PostInstall(r) \/ SetInstalled(r) \/ DropSamples(r)
    PROVE  AccountsInv'
<1>1. CASE PostInstall(r)
    <2> DEFINE free == \A s \in Requests : req[s].op # "install" /\ ~Seeding(s)
    <2>1. PICK e \in Emails :
              Arrives(r, [Idle EXCEPT !.op = "install", !.pc = "save", !.alone = free,
                                      !.row = [email |-> e, roles |-> {Super} \cap LiveRoles]])
        BY <1>1 DEF PostInstall
    <2> DEFINE q == [Idle EXCEPT !.op = "install", !.pc = "save", !.alone = free,
                                 !.row = [email |-> e, roles |-> {Super} \cap LiveRoles]]
    <2>2. free \in BOOLEAN
        BY Zenon
    <2>3. Live = {} /\ installed # "yes"
        BY <1>1 DEF PostInstall, IsInstalled
    <2>4. free => \A s \in Requests : req[s].pc # "flag"
        BY DEF AccountsInv, Placed, Seeding
    <2>5. req' = [req EXCEPT ![r] = q] /\ req[r].pc # "flag"
        BY <2>1 DEF Arrives
    <2> HIDE DEF free
    <2>6. q \in Request /\ q.op = "install" /\ q.pc = "save" /\ q.alone = free
        BY <2>2 DEF Idle, Ops, Request, Row, LiveRoles
    <2> HIDE DEF q
    <2>7. Placed(q, catalog') /\ Counted(q, Supers)
        BY <2>6 DEF Placed, Counted
    <2>8. InstallsAlone(q) => \A s \in Requests : req[s].pc # "flag"
        BY <2>4, <2>6 DEF InstallsAlone
    <2>9. UNCHANGED <<tables, boot, histVars>>
        BY <1>1 DEF PostInstall
    <2> QED
        BY <2>3, <2>5, <2>6, <2>7, <2>8, <2>9, TablesType, Moves
<1>2. CASE SetInstalled(r)
    <2>1. /\ UNCHANGED <<user, asked, stale, samples, boot>> /\ catalog' = catalog
          /\ installed' = "yes" /\ req[r].pc = "flag" /\ Go(r, "samples")
        BY <1>2 DEF SetInstalled, histVars
    <2>2. catalog' \in [Roles -> {"none", "catalogue", "edited"}]
        BY <2>1 DEF AccountsInv, AccountsTypeOK
    <2> QED
        BY <2>1, <2>2, Going
<1>3. CASE DropSamples(r)
    <2>1. /\ UNCHANGED <<user, asked, stale, installed>> /\ catalog' = catalog /\ Ends(r)
          /\ samples' \in BOOLEAN /\ boot' = boot
        BY <1>3 DEF DropSamples, histVars, AccountsInv, AccountsTypeOK
    <2>2. /\ catalog' \in [Roles -> {"none", "catalogue", "edited"}]
          /\ boot' \in {"down", "seeding", "up"} /\ stale' \subseteq Users
        BY <2>1 DEF AccountsInv, AccountsTypeOK
    <2> QED
        BY <2>1, <2>2, EndsKeeps
<1> QED
    BY <1>1, <1>2, <1>3

LEMMA SeederKeeps ==
    ASSUME AccountsInv, NEW r \in Requests,
           \/ ApiBoots(r) \/ RunSeed(r) \/ SeedRoles(r) \/ SeedSettings(r) \/ SeedAdmin(r)
           \/ SeedSamples(r) \/ SeedFails(r)
    PROVE  AccountsInv'
<1>1. ASSUME NEW op \in {"boot", "seed"}, UNCHANGED <<tables, histVars>>,
             boot' \in {"down", "seeding", "up"},
             req' = [req EXCEPT ![r] = [Idle EXCEPT !.op = op, !.pc = "permissions"]]
      PROVE  AccountsInv'
    <2> DEFINE q == [Idle EXCEPT !.op = op, !.pc = "permissions"]
    <2>1. q \in Request /\ q.op = op /\ q.pc = "permissions" /\ q.row.roles = {}
        BY IdleType DEF Idle, Ops, Request, NoUser
    <2>2. req' = [req EXCEPT ![r] = q]
        BY <1>1
    <2> HIDE DEF q
    <2>3. Placed(q, catalog) /\ Counted(q, Supers) /\ ~InstallsAlone(q)
        BY <2>1 DEF Placed, Counted, InstallsAlone
    <2> QED
        BY <1>1, <2>1, <2>2, <2>3, Arriving
<1>2. CASE ApiBoots(r) \/ RunSeed(r)
    <2>1. boot' \in {"down", "seeding", "up"}
        BY <1>2 DEF ApiBoots, RunSeed, AccountsInv, AccountsTypeOK
    <2> QED
        BY <1>1, <1>2, <2>1 DEF ApiBoots, RunSeed, Arrives
<1>3. CASE SeedRoles(r) \/ SeedSettings(r)
    <2>1. /\ catalog' \in [Roles -> {"none", "catalogue", "edited"}]
          /\ \A c \in Roles : catalog[c] # "none" => catalog'[c] # "none"
        BY <1>3 DEF SeedRoles, SeedSettings, AccountsInv, AccountsTypeOK
    <2>2. installed' \in {"missing", "no", "yes"} /\ (installed' = "yes" => installed = "yes")
        BY <1>3 DEF SeedRoles, SeedSettings, AccountsInv, AccountsTypeOK
    <2> QED
        BY <1>3, <2>1, <2>2, Going DEF SeedRoles, SeedSettings, histVars
<1>4. CASE SeedAdmin(r)
    <2>1. UNCHANGED <<tables, boot, histVars>>
        BY <1>4 DEF SeedAdmin
    <2>2. CASE Go(r, "samples")
        BY <2>1, <2>2, TablesType, Going
    <2>3. CASE ~Go(r, "samples")
        <3> DEFINE admin == [email |-> EnvEmail, roles |-> {Super} \cap LiveRoles]
                   q     == [req[r] EXCEPT !.pc = "save", !.row = admin]
        <3>1. req' = [req EXCEPT ![r] = q]
            BY <1>4, <2>3 DEF SeedAdmin
        <3>2. req[r] \in Request /\ req[r].op \in {"boot", "seed"}
            BY <1>4 DEF SeedAdmin, Seeding, AccountsInv, AccountsTypeOK
        <3>3. admin \in Row /\ admin.email = EnvEmail /\ admin.roles \subseteq {Super}
              /\ (Super \in admin.roles => catalog[Super] # "none")
            BY AccountsAssumption DEF Row, LiveRoles
        <3> HIDE DEF admin
        <3>4. /\ q \in Request /\ q.op = req[r].op /\ q.pc = "save" /\ q.row = admin
            BY <3>2, <3>3 DEF Request
        <3> HIDE DEF q
        <3>5. Placed(q, catalog) /\ Counted(q, Supers) /\ ~InstallsAlone(q)
            BY <3>2, <3>3, <3>4 DEF Placed, Counted, InstallsAlone
        <3> QED
            BY <2>1, <3>1, <3>4, <3>5, TablesType, Arriving DEF tables, histVars
    <2> QED
        BY <2>2, <2>3
<1>5. CASE SeedSamples(r) \/ SeedFails(r)
    <2>1. /\ UNCHANGED <<user, asked, stale>> /\ installed' = installed /\ catalog' = catalog
          /\ Ends(r)
        BY <1>5 DEF SeedSamples, SeedFails, tables, histVars
    <2>2. samples' \in BOOLEAN /\ boot' \in {"down", "seeding", "up"}
        BY <1>5 DEF SeedSamples, SeedFails, tables, AccountsInv, AccountsTypeOK
    <2>3. catalog' \in [Roles -> {"none", "catalogue", "edited"}] /\ stale' \subseteq Users
        BY <2>1 DEF AccountsInv, AccountsTypeOK
    <2> QED
        BY <2>1, <2>2, <2>3, EndsKeeps
<1> QED
    BY <1>2, <1>3, <1>4, <1>5

\* PostRole, and the end of the API.
LEMMA OthersKeep == ASSUME AccountsInv, PostRole \/ ApiCrashes PROVE AccountsInv'
<1>1. CASE PostRole
    <2>1. PICK c \in Custom : catalog[c] = "none" /\ catalog' = [catalog EXCEPT ![c] = "edited"]
        BY <1>1 DEF PostRole
    <2>2. c \in Roles /\ \A d \in Roles : catalog[d] # "none" => catalog'[d] # "none"
        BY <2>1 DEF Roles, AccountsInv, AccountsTypeOK
    <2>3. UNCHANGED <<user, installed, samples, boot, req, asked, stale>>
        BY <1>1 DEF PostRole, histVars
    <2>4. Live' = Live /\ Supers' = Supers /\ LiveRoles \subseteq LiveRoles'
        BY <2>2, <2>3 DEF Live, Supers, LiveRoles
    <2>5. AccountsTypeOK'
        BY <2>1, <2>3, <2>4 DEF AccountsInv, AccountsTypeOK
    <2>6. \A r \in Requests : Placed(req'[r], catalog') /\ Counted(req'[r], Supers')
        BY <2>2, <2>3, <2>4 DEF AccountsInv, Placed, Roles
    <2>7. Untouched'
        BY <2>3, <2>4 DEF AccountsInv, Untouched
    <2> QED
        BY <2>5, <2>6, <2>7 DEF AccountsInv
<1>2. CASE ApiCrashes
    <2>1. UNCHANGED <<user, catalog, installed, samples, asked, stale>> /\ boot' = "down"
        BY <1>2 DEF ApiCrashes, tables, histVars
    <2>2. \A r \in Requests : req'[r] = req[r] \/ req'[r] = Idle
        BY <1>2 DEF ApiCrashes
    <2>3. req' \in [Requests -> Request]
        BY <1>2, <2>2, IdleType DEF ApiCrashes, AccountsInv, AccountsTypeOK
    <2>4. Live' = Live /\ Supers' = Supers /\ LiveRoles' = LiveRoles
        BY <2>1 DEF Live, Supers, LiveRoles
    <2>5. AccountsTypeOK'
        BY <2>1, <2>3, <2>4 DEF AccountsInv, AccountsTypeOK
    <2>6. \A r \in Requests : Placed(req'[r], catalog') /\ Counted(req'[r], Supers')
        BY <2>1, <2>2, <2>4, IdlePlaced DEF AccountsInv
    <2>7. Untouched'
        BY <2>1, <2>2, <2>4, IdlePlaced DEF AccountsInv, Untouched
    <2> QED
        BY <2>5, <2>6, <2>7 DEF AccountsInv
<1> QED
    BY <1>1, <1>2


----------------------------------------------------------------------------
(* The steps that write the users.                                         *)

\* The row of u is written, with an email nobody else has and roles there are.
LEMMA RowWritten ==
    ASSUME AccountsInv, NEW u \in Users, NEW row \in Row,
           row.email = None \/ ~Taken(row.email, u), row.roles \subseteq LiveRoles,
           user' = [user EXCEPT ![u] = row]
    PROVE  /\ user' \in [Users -> Row]
           /\ \A v, w \in Users : v # w /\ user'[v].email = user'[w].email => user'[v].email = None
           /\ \A v \in Users : user'[v].roles \subseteq LiveRoles
<1>1. user \in [Users -> Row]
    BY DEF AccountsInv, AccountsTypeOK
<1>2. \A v \in Users : user'[v] = IF v = u THEN row ELSE user[v]
    BY <1>1
<1>3. \A v, w \in Users : v # w /\ user[v].email = user[w].email => user[v].email = None
    BY DEF AccountsInv, AccountsTypeOK, Live
<1>4. \A v \in Users \ {u} : user[v].email = row.email => row.email = None
    BY DEF Taken
<1>5. \A v \in Users : user'[v].roles \subseteq LiveRoles
    BY <1>2 DEF AccountsInv, AccountsTypeOK
<1>6. \A v, w \in Users : v # w /\ user'[v].email = user'[w].email => user'[v].email = None
    BY <1>2, <1>3, <1>4
<1> QED
    BY <1>1, <1>5, <1>6

LEMMA AddsKeeps ==
    ASSUME AccountsInv, NEW r \in Requests, NEW u \in Users, NEW row \in Row,
           NEW q \in Request, Adds(r, u, row, q), UNCHANGED <<catalog, installed, samples, boot>>,
           ~Taken(row.email, u), row.roles \subseteq LiveRoles, u \notin Live,
           Placed(q, catalog), q.op # "remove", ~InstallsAlone(q)
    PROVE  AccountsInv' /\ Supers \subseteq Supers'
<1>1. asked' \in [Users -> Row] /\ stale' \subseteq Users
    BY DEF Adds, AccountsInv, AccountsTypeOK
<1>2. user' = [user EXCEPT ![u] = row] /\ Changed(r, q)
    BY DEF Adds
<1>3. AccountsInv'
    BY <1>1, <1>2, RowWritten, Writes
<1>4. Supers \subseteq Supers'
    BY <1>2 DEF Supers, Live, AccountsInv, AccountsTypeOK
<1> QED
    BY <1>3, <1>4

\* Of InsertUser and InstallUser.
LEMMA InsertsKeeps ==
    ASSUME AccountsInv, NEW r \in Requests, NEW q \in Request, Inserts(r, q),
           UNCHANGED <<catalog, installed, samples, boot>>,
           Placed(q, catalog), q.op # "remove", ~InstallsAlone(q)
    PROVE  AccountsInv' /\ (Supers \subseteq Supers')
<1>1. CASE Ends(r) /\ UNCHANGED <<user, asked, stale>>
    <2>1. AccountsInv'
        BY <1>1, EndsKeeps DEF AccountsInv, AccountsTypeOK
    <2>2. Supers' = Supers
        BY <1>1 DEF Supers, Live
    <2> QED
        BY <2>1, <2>2
<1>2. CASE /\ ~Taken(req[r].row.email, None) /\ req[r].row.roles \subseteq LiveRoles
           /\ \E u \in Users : Unused(u) /\ Adds(r, u, req[r].row, q)
    <2>1. PICK u \in Users : Unused(u) /\ Adds(r, u, req[r].row, q)
        BY <1>2
    <2>2. ~Taken(req[r].row.email, u) /\ u \notin Live
        BY <1>2, <2>1, AccountsAssumption DEF Taken, Unused
    <2>3. req[r].row \in Row
        BY DEF AccountsInv, AccountsTypeOK, Request
    <2> QED
        BY <1>2, <2>1, <2>2, <2>3, AddsKeeps
<1> QED
    BY <1>1, <1>2 DEF Inserts

LEMMA NewUserKeeps ==
    ASSUME AccountsInv, NEW r \in Requests, InsertUser(r) \/ InstallUser(r) \/ SaveAdmin(r)
    PROVE  AccountsInv' /\ (Supers \subseteq Supers')
<1> DEFINE q == [req[r] EXCEPT !.pc = "flag"]
<1>0. req[r] \in Request
    BY DEF AccountsInv, AccountsTypeOK
<1>1. q \in Request /\ q.op = req[r].op /\ q.pc = "flag" /\ q.id = req[r].id /\ q.row = req[r].row
    BY <1>0 DEF Request
<1> HIDE DEF q
<1>2. ~InstallsAlone(q)
    BY <1>1 DEF InstallsAlone
<1>3. CASE InsertUser(r)
    <2>1. Placed(Idle, catalog) /\ Idle.op # "remove" /\ ~InstallsAlone(Idle)
        BY IdlePlaced, IdleType, NoneIsNoOp DEF Ops
    <2> QED
        BY <1>3, <2>1, IdleType, InsertsKeeps DEF InsertUser
<1>4. CASE InstallUser(r)
    <2>1. Placed(q, catalog) /\ q.op # "remove"
        BY <1>1, <1>4 DEF InstallUser, Placed
    <2>2. Inserts(r, q)
        BY <1>4 DEF InstallUser, q
    <2> QED
        BY <1>1, <1>2, <1>4, <2>1, <2>2, InsertsKeeps DEF InstallUser
<1>5. CASE SaveAdmin(r)
    <2>1. req[r].op \in {"boot", "seed"} /\ req[r].pc = "save"
        BY <1>5 DEF SaveAdmin, Seeding
    <2>2. Placed(req[r], catalog)
        BY DEF AccountsInv
    <2>3. /\ Placed(q, catalog) /\ q.op # "remove"
          /\ req[r].row.email = EnvEmail /\ req[r].row.roles \subseteq LiveRoles
          /\ req[r].row \in Row
        BY <1>0, <1>1, <2>1, <2>2 DEF Placed, LiveRoles, Request, Roles
    <2>4. PICK u \in Users : Unused(u) /\ Adds(r, u, req[r].row, q)
        BY <1>5 DEF SaveAdmin, q
    <2>5. ~Taken(req[r].row.email, u) /\ u \notin Live
        BY <1>5, <2>3, <2>4, AccountsAssumption DEF SaveAdmin, Taken, Unused
    <2> QED
        BY <1>1, <1>2, <1>5, <2>3, <2>4, <2>5, AddsKeeps DEF SaveAdmin
<1> QED
    BY <1>3, <1>4, <1>5

LEMMA IdleWrites == Placed(Idle, catalog) /\ Idle.op # "remove" /\ ~InstallsAlone(Idle) /\ Idle \in Request
BY IdlePlaced, IdleType, NoneIsNoOp DEF Ops

LEMMA SaveUserKeeps == ASSUME AccountsInv, NEW r \in Requests, SaveUser(r) PROVE AccountsInv'
<1> DEFINE q == req[r]
           u == q.id
<1>1. q \in Request /\ q.row \in Row /\ u \in Users
    BY DEF SaveUser, AccountsInv, AccountsTypeOK, Placed, Request
<1>2. UNCHANGED <<catalog, installed, samples, boot>>
    BY DEF SaveUser
<1>3. CASE Ends(r) /\ UNCHANGED <<user, asked, stale>>
    BY <1>2, <1>3, EndsKeeps DEF AccountsInv, AccountsTypeOK
<1>4. CASE u \notin Live /\ ~Taken(q.row.email, u) /\ q.row.roles \subseteq LiveRoles
           /\ Adds(r, u, q.row, Idle)
    BY <1>1, <1>2, <1>4, IdleWrites, AddsKeeps
<1>5. CASE /\ ~Taken(q.row.email, u) /\ q.row.roles \subseteq LiveRoles
           /\ user' = [user EXCEPT ![u] = Saved(q)]
           /\ stale' = IF \E s \in Requests \ {r} : req[s].id = u /\ req[s].op = "update"
                       THEN stale \cup {u} ELSE stale
           /\ asked' = [asked EXCEPT ![u] = IF u \in stale' THEN user'[u] ELSE NowAsked(q)]
           /\ Changed(r, Idle)
    <2>1. user' = [user EXCEPT ![u] = q.row]
        BY <1>5 DEF Saved
    <2>2. NowAsked(q) \in Row
        BY <1>1 DEF NowAsked, AccountsInv, AccountsTypeOK, Row
    <2>3. user' \in [Users -> Row]
        BY <1>1, <2>1 DEF AccountsInv, AccountsTypeOK
    <2>4. asked' \in [Users -> Row]
        BY <1>1, <1>5, <2>2, <2>3 DEF AccountsInv, AccountsTypeOK
    <2>5. stale' \subseteq Users
        BY <1>1, <1>5 DEF AccountsInv, AccountsTypeOK
    <2> QED
        BY <1>1, <1>2, <1>5, <2>1, <2>4, <2>5, RowWritten, IdleWrites, Writes
<1> QED
    BY <1>3, <1>4, <1>5 DEF SaveUser

LEMMA RemoveUserKeeps == ASSUME AccountsInv, NEW r \in Requests, RemoveUser(r) PROVE AccountsInv'
<1> DEFINE u == req[r].id
<1>1. u \in Users
    BY DEF RemoveUser, AccountsInv, Placed
<1>2. NoUser \in Row /\ NoUser.email = None /\ NoUser.roles \subseteq LiveRoles
    BY IdleType DEF NoUser
<1>3. user' = [user EXCEPT ![u] = NoUser] /\ asked' = [asked EXCEPT ![u] = NoUser] /\ Changed(r, Idle)
    BY DEF RemoveUser
<1>4. asked' \in [Users -> Row] /\ stale' \subseteq Users
    BY <1>2, <1>3 DEF RemoveUser, AccountsInv, AccountsTypeOK
<1> HIDE DEF u
<1>5. UNCHANGED <<catalog, installed, samples, boot>>
    BY DEF RemoveUser
<1> QED
    BY <1>1, <1>2, <1>3, <1>4, <1>5, RowWritten, IdleWrites, Writes

\* No role that a request deletes is the super admin's.
LEMMA RemoveRoleKeeps ==
    ASSUME AccountsInv, NEW r \in Requests, RemoveRole(r)
    PROVE  AccountsInv' /\ Supers' = Supers
<1> DEFINE c == req[r].id
<1>1. c \in Custom /\ c # Super
    BY AccountsAssumption DEF RemoveRole, AccountsInv, Placed
<1>2. /\ user' = [u \in Users |-> [user[u] EXCEPT !.roles = user[u].roles \ {c}]]
      /\ asked' = [u \in Users |-> [asked[u] EXCEPT !.roles = asked[u].roles \ {c}]]
      /\ catalog' = [catalog EXCEPT ![c] = "none"] /\ Ends(r)
      /\ UNCHANGED <<installed, samples, boot, stale>>
    BY DEF RemoveRole
<1> HIDE DEF c
<1>3. user \in [Users -> Row] /\ asked \in [Users -> Row]
    BY DEF AccountsInv, AccountsTypeOK
<1>4. /\ user' \in [Users -> Row] /\ asked' \in [Users -> Row]
      /\ \A u \in Users : user'[u].email = user[u].email /\ user'[u].roles = user[u].roles \ {c}
    BY <1>2, <1>3 DEF Row
<1>5. Live' = Live
    BY <1>4 DEF Live
<1>17. Live \subseteq Users
    BY DEF Live
<1>6. Supers' = Supers
    <2>1. \A u \in Live : Super \in user'[u].roles <=> Super \in user[u].roles
        BY <1>1, <1>4, <1>17
    <2> QED
        BY <1>5, <2>1 DEF Supers
<1>7. /\ catalog' \in [Roles -> {"none", "catalogue", "edited"}]
      /\ \A d \in Roles \ {c} : catalog'[d] = catalog[d]
    BY <1>2 DEF AccountsInv, AccountsTypeOK
<1>8. LiveRoles \ {c} \subseteq LiveRoles'
    BY <1>7 DEF LiveRoles
<1>9. \A u \in Users : user'[u].roles \subseteq LiveRoles'
    BY <1>4, <1>8 DEF AccountsInv, AccountsTypeOK
<1>10. req' \in [Requests -> Request]
    BY <1>2, IdleType DEF Ends, AccountsInv, AccountsTypeOK
<1>18. \A u, v \in Live' : user'[u].email = user'[v].email => u = v
    BY <1>4, <1>5, <1>17 DEF AccountsInv, AccountsTypeOK
<1>11. AccountsTypeOK'
    BY <1>2, <1>4, <1>7, <1>9, <1>10, <1>18 DEF AccountsInv, AccountsTypeOK
<1>12. \A s \in Requests : req'[s] = req[s] \/ req'[s] = Idle
    BY <1>2 DEF Ends, AccountsInv, AccountsTypeOK
<1>13. catalog'[Super] = catalog[Super]
    BY <1>1, <1>7 DEF Roles
<1>14. \A s \in Requests : Placed(req'[s], catalog')
    BY <1>12, <1>13, IdlePlaced DEF AccountsInv, Placed
<1>15. \A s \in Requests : Counted(req'[s], Supers')
    BY <1>6, <1>12, IdlePlaced DEF AccountsInv
<1>16. Untouched'
    BY <1>2, <1>5, <1>12, IdlePlaced DEF AccountsInv, Untouched
<1> QED
    BY <1>6, <1>11, <1>14, <1>15, <1>16 DEF AccountsInv

----------------------------------------------------------------------------
LEMMA AccountsStep == AccountsInv /\ [Next]_vars => AccountsInv'
<1> SUFFICES ASSUME AccountsInv, [Next]_vars
             PROVE  AccountsInv'
    OBVIOUS
<1>1. CASE UNCHANGED vars
    BY <1>1 DEF vars, tables, histVars, AccountsInv, AccountsTypeOK, Live, Supers, LiveRoles,
                Untouched, Placed
<1>2. ASSUME NEW r \in Requests, UserStep(r)
      PROVE  AccountsInv'
    BY <1>2, FormKeeps, UpdateKeeps, RemovalKeeps, NewUserKeeps, SaveUserKeeps, RemoveUserKeeps
       DEF UserStep
<1>3. ASSUME NEW r \in Requests, RoleStep(r)
      PROVE  AccountsInv'
    BY <1>3, RoleKeeps, RemoveRoleKeeps DEF RoleStep
<1>4. ASSUME NEW r \in Requests, InstallStep(r)
      PROVE  AccountsInv'
    BY <1>4, InstallKeeps, NewUserKeeps DEF InstallStep
<1>5. ASSUME NEW r \in Requests, SeedStep(r)
      PROVE  AccountsInv'
    BY <1>5, SeederKeeps, NewUserKeeps DEF SeedStep
<1> QED
    BY <1>1, <1>2, <1>3, <1>4, <1>5, OthersKeep DEF Next

\* Types, unique emails, roles that exist, and what a lone request rests on.
THEOREM AccountsInvHolds == Spec => []AccountsInv
<1>1. Init => AccountsInv
    BY AccountsStart
<1>2. AccountsInv /\ [Next]_vars => AccountsInv'
    BY AccountsStep
<1> QED
    BY <1>1, <1>2, PTL DEF Spec

\* Emails stay unique, and every role of a user exists, for any number of requests.
THEOREM AccountsTypeCorrect == Spec => []AccountsTypeOK
<1>1. AccountsInv => AccountsTypeOK
    BY DEF AccountsInv
<1> QED
    BY <1>1, AccountsInvHolds, PTL


----------------------------------------------------------------------------
(* What the two guards of the users rest on.                               *)

\* A removal that has counted, and was alone since, leaves a super admin.
LEMMA LoneRemoval ==
    ASSUME AccountsInv, NEW r \in Requests, RemoveUser(r), req[r].alone, Supers # {}
    PROVE  Supers' # {}
<1> DEFINE u == req[r].id
<1>1. u \notin Supers \/ ~(Cardinality(Supers) <= 1)
    BY DEF RemoveUser, AccountsInv, Counted
<1>2. user' = [user EXCEPT ![u] = NoUser]
    BY DEF RemoveUser
<1>3. Supers \ {u} \subseteq Supers'
    BY <1>2 DEF Supers, Live, AccountsInv, AccountsTypeOK
<1>4. CASE u \notin Supers
    BY <1>3, <1>4
<1>5. CASE ~(Cardinality(Supers) <= 1)
    <2>1. SUFFICES ASSUME Supers \subseteq {u}
                   PROVE  FALSE
        BY <1>3
    <2>2. IsFiniteSet({u}) /\ Cardinality({u}) = 1
        BY FS_Singleton
    <2>3. Cardinality(Supers) <= 1
        BY <2>1, <2>2, FS_Subset
    <2> QED
        BY <1>5, <2>3
<1> QED
    BY <1>1, <1>4, <1>5

\* Every step that takes a super admin away is one of the two that SuperRemains names.
LEMMA SupersStay ==
    ASSUME AccountsInv, [Next]_vars
    PROVE  \/ Supers \subseteq Supers'
           \/ \E r \in Requests : SaveUser(r) \/ RemoveUser(r)
<1>1. CASE user' = user
    BY <1>1 DEF Supers, Live
<1>2. CASE \E r \in Requests : InsertUser(r) \/ InstallUser(r) \/ SaveAdmin(r)
    BY <1>2, NewUserKeeps
<1>3. CASE \E r \in Requests : RemoveRole(r)
    BY <1>3, RemoveRoleKeeps
<1>4. \/ user' = user
      \/ \E r \in Requests : InsertUser(r) \/ InstallUser(r) \/ SaveAdmin(r) \/ RemoveRole(r)
                           \/ SaveUser(r) \/ RemoveUser(r)
    BY DEF Next, vars, tables, UserStep, RoleStep, InstallStep, SeedStep, PostRole, ApiCrashes,
           PostUser, FindRoles, OpenForm, CloseForm, PutUser, PatchUser, CheckEmail, DeleteUser,
           CountSupers, PutRole, SaveRole, DeleteRole, PostInstall, SetInstalled, DropSamples,
           ApiBoots, RunSeed, SeedRoles, SeedSettings, SeedAdmin, SeedSamples, SeedFails
<1> QED
    BY <1>1, <1>2, <1>3, <1>4

\* The last super admin goes only by an edit, or by a removal that somebody else's write
\* overlapped: for any number of users, roles and requests.
THEOREM SuperAdminRemains == Spec => SuperRemains
<1>1. AccountsInv /\ [Next]_vars
          => [Supers # {} /\ Supers' = {} =>
                 \E r \in Requests : SaveUser(r) \/ (RemoveUser(r) /\ ~req[r].alone)]_vars
    BY SupersStay, LoneRemoval
<1> QED
    BY <1>1, AccountsInvHolds, PTL DEF Spec, SuperRemains

\* An installation that was alone adds its administrator to an untouched panel only.
THEOREM InstallsOnce == Spec => InstalledOnce
<1>1. AccountsInv =>
          \A r \in Requests :
              req[r].op = "install" /\ req[r].alone /\ user' # user /\ req'[r].pc = "flag"
                  /\ req[r].pc = "save"
              => Live = {} /\ installed # "yes"
    BY DEF AccountsInv, Untouched, InstallsAlone
<1> QED
    BY <1>1, AccountsInvHolds, PTL DEF Spec, InstalledOnce


----------------------------------------------------------------------------
(* What an edit sends back unchanged.                                      *)

\* The field that edit q does not mean to change is what the row of its user has, but for
\* roles that are gone; not so once somebody else's edit of the user was saved.
EditFresh(q) ==
    q.op = "update" =>
        /\ q.what \in {"email", "roles"}
        /\ Super \in q.row.roles => Super \in LiveRoles
        /\ q.id \in Live \ stale =>
              /\ q.what = "email" => q.row.roles \cap LiveRoles = user[q.id].roles
              /\ q.what = "roles" => q.row.email = user[q.id].email

EditsInv == AccountsInv /\ EditsKept /\ \A r \in Requests : EditFresh(req[r])

LEMMA FreshWithoutEdit == ASSUME NEW q, q.op # "update" PROVE EditFresh(q)
BY DEF EditFresh

\* Request r goes on to q, and the tables stay.
LEMMA EditsGoOn ==
    ASSUME EditsInv, NEW r \in Requests, NEW q, req' = [req EXCEPT ![r] = q],
           UNCHANGED <<user, asked, catalog, stale>>, EditFresh(q)
    PROVE  EditsKept' /\ \A s \in Requests : EditFresh(req[s])'
<1>1. Live' = Live /\ LiveRoles' = LiveRoles
    BY DEF Live, LiveRoles
<1>2. EditsKept'
    BY <1>1 DEF EditsInv, EditsKept
<1>3. ASSUME NEW s \in Requests
      PROVE  EditFresh(req[s])'
    <2>1. req'[s] = IF s = r THEN q ELSE req[s]
        BY DEF EditsInv, AccountsInv, AccountsTypeOK
    <2>2. EditFresh(req[s])
        BY DEF EditsInv
    <2>3. CASE s = r
        BY <1>1, <2>1, <2>3 DEF EditFresh
    <2>4. CASE s # r
        BY <1>1, <2>1, <2>2, <2>4 DEF EditFresh
    <2> QED
        BY <2>3, <2>4
<1> QED
    BY <1>2, <1>3

\* Request r goes on as it is, or ends.
LEMMA EditsPass ==
    ASSUME EditsInv, NEW r \in Requests, NEW pc, Go(r, pc) \/ Ends(r),
           UNCHANGED <<user, asked, catalog, stale>>
    PROVE  EditsKept' /\ \A s \in Requests : EditFresh(req[s])'
<1>1. CASE Ends(r)
    <2>1. Idle.op # "update"
        BY IdleType, NoneIsNoOp DEF Ops
    <2> QED
        BY <1>1, <2>1, FreshWithoutEdit, EditsGoOn DEF Ends
<1>2. CASE Go(r, pc)
    <2> DEFINE q == [req[r] EXCEPT !.pc = pc]
    <2>1. req[r] \in Request /\ EditFresh(req[r])
        BY DEF EditsInv, AccountsInv, AccountsTypeOK
    <2>2. q.op = req[r].op /\ q.what = req[r].what /\ q.id = req[r].id /\ q.row = req[r].row
        BY <2>1 DEF Request
    <2>3. req' = [req EXCEPT ![r] = q]
        BY <1>2 DEF Go
    <2> HIDE DEF q
    <2>4. EditFresh(q)
        BY <2>1, <2>2 DEF EditFresh
    <2> QED
        BY <2>3, <2>4, EditsGoOn
<1> QED
    BY <1>1, <1>2

LEMMA ReadersKeepEdits ==
    ASSUME EditsInv, NEW r \in Requests,
           \/ PostUser(r) \/ FindRoles(r) \/ OpenForm(r) \/ CloseForm(r) \/ PutUser(r)
           \/ PatchUser(r) \/ CheckEmail(r) \/ DeleteUser(r) \/ CountSupers(r)
           \/ PutRole(r) \/ DeleteRole(r) \/ PostInstall(r) \/ SetInstalled(r) \/ DropSamples(r)
           \/ ApiBoots(r) \/ RunSeed(r) \/ SeedSettings(r) \/ SeedAdmin(r) \/ SeedSamples(r)
           \/ SeedFails(r)
    PROVE  EditsKept' /\ \A s \in Requests : EditFresh(req[s])'
<1>1. UNCHANGED <<user, asked, catalog, stale>>
    BY DEF PostUser, FindRoles, OpenForm, CloseForm, PutUser, PatchUser, CheckEmail, DeleteUser,
           CountSupers, PutRole, DeleteRole, PostInstall, SetInstalled, DropSamples, ApiBoots,
           RunSeed, SeedSettings, SeedAdmin, SeedSamples, SeedFails, tables, histVars
<1>2. \A pc : Go(r, pc) \/ Ends(r) => EditsKept' /\ \A s \in Requests : EditFresh(req[s])'
    BY <1>1, EditsPass
<1>3. CASE CloseForm(r) \/ PutUser(r) \/ CheckEmail(r) \/ CountSupers(r) \/ SetInstalled(r)
           \/ DropSamples(r) \/ SeedSettings(r) \/ SeedSamples(r) \/ SeedFails(r)
    BY <1>2, <1>3 DEF CloseForm, PutUser, CheckEmail, CountSupers, SetInstalled, DropSamples,
                      SeedSettings, SeedSamples, SeedFails
<1>4. ASSUME NEW q, req' = [req EXCEPT ![r] = q], q.op # "update"
      PROVE  EditsKept' /\ \A s \in Requests : EditFresh(req[s])'
    BY <1>1, <1>4, FreshWithoutEdit, EditsGoOn
<1>5. CASE PostUser(r) \/ DeleteUser(r) \/ PutRole(r) \/ DeleteRole(r) \/ PostInstall(r)
           \/ ApiBoots(r) \/ RunSeed(r)
    <2>1. ASSUME NEW q, Arrives(r, q), q.op # "update"
          PROVE  EditsKept' /\ \A s \in Requests : EditFresh(req[s])'
        BY <1>4, <2>1 DEF Arrives
    <2>2. CASE PostUser(r)
        <3> PICK e \in Emails, roles \in SUBSET LiveRoles :
                Arrives(r, [Idle EXCEPT !.op = "create", !.pc = "roles",
                             !.row = [email |-> e, roles |-> roles]])
            BY <2>2 DEF PostUser
        <3> DEFINE q == [Idle EXCEPT !.op = "create", !.pc = "roles",
                             !.row = [email |-> e, roles |-> roles]]
        <3>1. q.op = "create"
            BY DEF Idle
        <3>2. Arrives(r, q)
            BY <2>2 DEF PostUser
        <3> HIDE DEF q
        <3> QED
            BY <2>1, <3>1, <3>2
    <2>3. CASE DeleteUser(r)
        <3> PICK u \in Live :
                Arrives(r, [Idle EXCEPT !.op = "remove", !.id = u, !.alone = TRUE,
                             !.pc = IF u \in Supers THEN "count" ELSE "remove"])
            BY <2>3 DEF DeleteUser
        <3> DEFINE q == [Idle EXCEPT !.op = "remove", !.id = u, !.alone = TRUE,
                             !.pc = IF u \in Supers THEN "count" ELSE "remove"]
        <3>1. q.op = "remove"
            BY DEF Idle
        <3>2. Arrives(r, q)
            BY <2>3 DEF DeleteUser
        <3> HIDE DEF q
        <3> QED
            BY <2>1, <3>1, <3>2
    <2>4. CASE PutRole(r)
        <3> PICK c \in LiveRoles :
                Arrives(r, [Idle EXCEPT !.op = "role", !.pc = "save", !.id = c])
            BY <2>4 DEF PutRole
        <3> DEFINE q == [Idle EXCEPT !.op = "role", !.pc = "save", !.id = c]
        <3>1. q.op = "role"
            BY DEF Idle
        <3>2. Arrives(r, q)
            BY <2>4 DEF PutRole
        <3> HIDE DEF q
        <3> QED
            BY <2>1, <3>1, <3>2
    <2>5. CASE DeleteRole(r)
        <3> PICK c \in LiveRoles \cap Custom :
                Arrives(r, [Idle EXCEPT !.op = "unrole", !.pc = "remove", !.id = c])
            BY <2>5 DEF DeleteRole
        <3> DEFINE q == [Idle EXCEPT !.op = "unrole", !.pc = "remove", !.id = c]
        <3>1. q.op = "unrole"
            BY DEF Idle
        <3>2. Arrives(r, q)
            BY <2>5 DEF DeleteRole
        <3> HIDE DEF q
        <3> QED
            BY <2>1, <3>1, <3>2
    <2>6. CASE PostInstall(r)
        <3> PICK e \in Emails :
                Arrives(r, [Idle EXCEPT !.op = "install", !.pc = "save",
                             !.alone = \A s \in Requests : req[s].op # "install" /\ ~Seeding(s),
                             !.row = [email |-> e, roles |-> {Super} \cap LiveRoles]])
            BY <2>6 DEF PostInstall
        <3> DEFINE q == [Idle EXCEPT !.op = "install", !.pc = "save",
                             !.alone = \A s \in Requests : req[s].op # "install" /\ ~Seeding(s),
                             !.row = [email |-> e, roles |-> {Super} \cap LiveRoles]]
        <3>1. q.op = "install"
            BY DEF Idle
        <3>2. Arrives(r, q)
            BY <2>6 DEF PostInstall
        <3> HIDE DEF q
        <3> QED
            BY <2>1, <3>1, <3>2
    <2>7. CASE RunSeed(r)
        <3> DEFINE q == [Idle EXCEPT !.op = "seed", !.pc = "permissions"]
        <3>1. q.op = "seed"
            BY DEF Idle
        <3>2. Arrives(r, q)
            BY <2>7 DEF RunSeed
        <3> HIDE DEF q
        <3> QED
            BY <2>1, <3>1, <3>2
    <2>8. CASE ApiBoots(r)
        <3> DEFINE q == [Idle EXCEPT !.op = "boot", !.pc = "permissions"]
        <3>1. q.op = "boot"
            BY DEF Idle
        <3>2. req' = [req EXCEPT ![r] = q]
            BY <2>8 DEF ApiBoots
        <3> HIDE DEF q
        <3> QED
            BY <1>4, <3>1, <3>2
    <2> QED
        BY <1>5, <2>2, <2>3, <2>4, <2>5, <2>6, <2>7, <2>8
<1>6. CASE SeedAdmin(r)
    <2>1. CASE Go(r, "samples")
        BY <1>2, <2>1
    <2>2. CASE ~Go(r, "samples")
        <3> DEFINE q == [req[r] EXCEPT !.pc = "save",
                                       !.row = [email |-> EnvEmail, roles |-> {Super} \cap LiveRoles]]
        <3>1. req' = [req EXCEPT ![r] = q]
            BY <1>6, <2>2 DEF SeedAdmin
        <3>2. req[r] \in Request /\ req[r].op \in {"boot", "seed"}
            BY <1>6 DEF SeedAdmin, Seeding, EditsInv, AccountsInv, AccountsTypeOK
        <3>3. q.op = req[r].op
            BY <3>2 DEF Request
        <3> HIDE DEF q
        <3> QED
            BY <1>4, <3>1, <3>2, <3>3
    <2> QED
        BY <2>1, <2>2
<1>7. CASE FindRoles(r)
    <2> DEFINE found == [req[r].row EXCEPT !.roles = req[r].row.roles \cap LiveRoles]
               q     == [req[r] EXCEPT !.row = found, !.pc = "save"]
    <2>1. req[r] \in Request /\ req[r].row \in Row /\ EditFresh(req[r])
        BY DEF EditsInv, AccountsInv, AccountsTypeOK, Request
    <2>2. found.email = req[r].row.email /\ found.roles = req[r].row.roles \cap LiveRoles
        BY <2>1 DEF Row
    <2> HIDE DEF found
    <2>3. q.op = req[r].op /\ q.what = req[r].what /\ q.id = req[r].id /\ q.row = found
        BY <2>1 DEF Request
    <2>4. req' = [req EXCEPT ![r] = q]
        BY <1>7 DEF FindRoles, found
    <2> HIDE DEF q
    <2>5. found.roles \cap LiveRoles = req[r].row.roles \cap LiveRoles
        BY <2>2
    <2>6. EditFresh(q)
        BY <2>1, <2>2, <2>3, <2>5 DEF EditFresh
    <2> QED
        BY <1>1, <2>4, <2>6, EditsGoOn
<1>8. ASSUME NEW u \in Live, NEW row \in Row, NEW pc \in {"form", "dup"}, NEW what \in {"email", "roles"},
             what = "email" => row.roles = user[u].roles,
             what = "roles" => row.email = user[u].email,
             row.roles \subseteq LiveRoles,
             req' = [req EXCEPT ![r] = [Idle EXCEPT !.op = "update", !.pc = pc, !.id = u,
                                                    !.what = what, !.row = row]]
      PROVE  EditsKept' /\ \A s \in Requests : EditFresh(req[s])'
    <2> DEFINE q == [Idle EXCEPT !.op = "update", !.pc = pc, !.id = u, !.what = what, !.row = row]
    <2>1. q.what = what /\ q.id = u /\ q.row = row
        BY DEF Idle
    <2>2. req' = [req EXCEPT ![r] = q]
        BY <1>8
    <2> HIDE DEF q
    <2>3. EditFresh(q)
        BY <1>8, <2>1 DEF EditFresh
    <2> QED
        BY <1>1, <2>2, <2>3, EditsGoOn
<1>9. ASSUME NEW u \in Live
      PROVE  /\ user[u].roles \subseteq LiveRoles
             /\ \A e \in Emails : LET row == [user[u] EXCEPT !.email = e]
                                  IN  row \in Row /\ row.roles = user[u].roles
             /\ \A roles \in SUBSET LiveRoles : LET row == [user[u] EXCEPT !.roles = roles]
                                                IN  /\ row \in Row /\ row.email = user[u].email
                                                    /\ row.roles = roles
    <2>1. user[u] \in Row /\ user[u].roles \subseteq LiveRoles
        BY DEF Live, EditsInv, AccountsInv, AccountsTypeOK
    <2> QED
        BY <2>1 DEF Row, LiveRoles
<1>10. ASSUME NEW u \in Live, NEW e \in Emails, NEW pc \in {"form", "dup"},
              req' = [req EXCEPT ![r] = [Idle EXCEPT !.op = "update", !.pc = pc, !.id = u,
                                              !.what = "email", !.row = [user[u] EXCEPT !.email = e]]]
       PROVE  EditsKept' /\ \A s \in Requests : EditFresh(req[s])'
    <2> DEFINE row == [user[u] EXCEPT !.email = e]
    <2>1. row \in Row /\ row.roles = user[u].roles /\ row.roles \subseteq LiveRoles
        BY <1>9
    <2>2. req' = [req EXCEPT ![r] = [Idle EXCEPT !.op = "update", !.pc = pc, !.id = u,
                                                 !.what = "email", !.row = row]]
        BY <1>10
    <2> HIDE DEF row
    <2> QED
        BY <1>8, <2>1, <2>2
<1>11. ASSUME NEW u \in Live, NEW roles \in SUBSET LiveRoles,
              req' = [req EXCEPT ![r] = [Idle EXCEPT !.op = "update", !.pc = "form", !.id = u,
                                              !.what = "roles", !.row = [user[u] EXCEPT !.roles = roles]]]
       PROVE  EditsKept' /\ \A s \in Requests : EditFresh(req[s])'
    <2> DEFINE row == [user[u] EXCEPT !.roles = roles]
    <2>1. row \in Row /\ row.email = user[u].email /\ row.roles \subseteq LiveRoles
        BY <1>9
    <2>2. req' = [req EXCEPT ![r] = [Idle EXCEPT !.op = "update", !.pc = "form", !.id = u,
                                                 !.what = "roles", !.row = row]]
        BY <1>11
    <2> HIDE DEF row
    <2> QED
        BY <1>8, <2>1, <2>2
<1>12. CASE OpenForm(r) \/ PatchUser(r)
    BY <1>10, <1>11, <1>12 DEF OpenForm, PatchUser, Arrives
<1> QED
    BY <1>3, <1>5, <1>6, <1>7, <1>12

\* A role comes into being, or is there already.
LEMMA RolesAdded ==
    ASSUME EditsInv, UNCHANGED <<user, asked>>, stale \subseteq stale', LiveRoles \subseteq LiveRoles',
           NEW s \in Requests,
           \/ req'[s].op # "update"
           \/ /\ req'[s] = req[s]
              /\ req[s].id \in Users \ stale' => req[s].row.roles \cap LiveRoles' = req[s].row.roles \cap LiveRoles
    PROVE  EditFresh(req[s])'
<1>1. CASE req'[s].op # "update"
    BY <1>1 DEF EditFresh
<1>2. CASE req'[s] = req[s]
    <2>1. EditFresh(req[s]) /\ Live' = Live /\ Live \subseteq Users
        BY DEF EditsInv, Live
    <2> QED
        BY <1>1, <1>2, <2>1 DEF EditFresh
<1> QED
    BY <1>1, <1>2

LEMMA CatalogKeepsEdits ==
    ASSUME EditsInv, PostRole \/ \E r \in Requests : SeedRoles(r) \/ SaveRole(r)
    PROVE  EditsKept' /\ \A s \in Requests : EditFresh(req[s])'
<1>1. UNCHANGED <<user, asked>> /\ stale \subseteq stale'
    BY DEF PostRole, SeedRoles, SaveRole, histVars
<1>2. EditsKept'
    BY <1>1 DEF EditsInv, EditsKept, Live
<1>3. ASSUME PostRole, NEW s \in Requests
      PROVE  EditFresh(req[s])'
    <2>1. PICK c \in Custom : /\ c \notin req[s].row.roles /\ catalog' = [catalog EXCEPT ![c] = "edited"]
                              /\ UNCHANGED req
        BY <1>3 DEF PostRole
    <2>2. LiveRoles' = LiveRoles \cup {c}
        BY <2>1 DEF LiveRoles, Roles, EditsInv, AccountsInv, AccountsTypeOK
    <2>3. req[s].row.roles \cap LiveRoles' = req[s].row.roles \cap LiveRoles
        BY <2>1, <2>2
    <2> QED
        BY <1>1, <2>1, <2>2, <2>3, RolesAdded
<1>4. ASSUME NEW r \in Requests, SeedRoles(r), NEW s \in Requests
      PROVE  EditFresh(req[s])'
    <2>1. catalog' = [catalog EXCEPT ![Super] = "catalogue"] /\ Go(r, "settings") /\ Seeding(r)
        BY <1>4 DEF SeedRoles
    <2>2. LiveRoles' = LiveRoles \cup {Super}
        BY <2>1 DEF LiveRoles, Roles, EditsInv, AccountsInv, AccountsTypeOK
    <2>3. req'[s].op # "update" \/ req'[s] = req[s]
        <3>1. req[r] \in Request /\ req[r].op # "update"
            BY <2>1 DEF Seeding, EditsInv, AccountsInv, AccountsTypeOK
        <3>2. [req[r] EXCEPT !.pc = "settings"].op = req[r].op
            BY <3>1 DEF Request
        <3> QED
            BY <2>1, <3>1, <3>2 DEF Go, EditsInv, AccountsInv, AccountsTypeOK
    <2>4. req[s].op = "update" => req[s].row.roles \cap LiveRoles' = req[s].row.roles \cap LiveRoles
        BY <2>2 DEF EditsInv, EditFresh
    <2> QED
        BY <1>1, <2>2, <2>3, <2>4, RolesAdded
<1>5. ASSUME NEW r \in Requests, SaveRole(r), NEW s \in Requests
      PROVE  EditFresh(req[s])'
    <2> DEFINE c == req[r].id
    <2>1. /\ catalog' = [catalog EXCEPT ![c] = "edited"] /\ Ends(r) /\ c \in Roles
          /\ stale' = IF c \in LiveRoles THEN stale
                      ELSE stale \cup {u \in Users : \E q \in Requests :
                                             req[q].id = u /\ c \in req[q].row.roles}
        BY <1>5 DEF SaveRole, EditsInv, AccountsInv, Placed
    <2>2. LiveRoles' = LiveRoles \cup {c}
        BY <2>1 DEF LiveRoles, EditsInv, AccountsInv, AccountsTypeOK
    <2>3. req'[s].op # "update" \/ req'[s] = req[s]
        <3>1. Idle.op # "update"
            BY IdleType, NoneIsNoOp DEF Ops
        <3> QED
            BY <2>1, <3>1 DEF Ends, EditsInv, AccountsInv, AccountsTypeOK
    <2>4. req[s].id \in Users \ stale' => c \in LiveRoles \/ c \notin req[s].row.roles
        BY <2>1
    <2>5. req[s].id \in Users \ stale' => req[s].row.roles \cap LiveRoles' = req[s].row.roles \cap LiveRoles
        BY <2>2, <2>4
    <2> QED
        BY <1>1, <2>2, <2>3, <2>5, RolesAdded
<1> QED
    BY <1>2, <1>3, <1>4, <1>5

\* A row is written by r: no other edit of it can go on unnoticed.
LEMMA RowKeepsEdits ==
    ASSUME EditsInv, NEW r \in Requests, NEW u \in Users, NEW n, Changed(r, n), n.op # "update",
           UNCHANGED catalog,
           \A v \in Users \ {u} : user'[v] = user[v] /\ asked'[v] = asked[v],
           stale \ {u} \subseteq stale',
           u \in Live' \ stale' => user'[u] = asked'[u],
           \A s \in Requests \ {r} : req[s].op = "update" /\ req[s].id = u => u \in stale' \/ u \notin Live'
    PROVE  EditsKept' /\ \A s \in Requests : EditFresh(req[s])'
<1>1. LiveRoles' = LiveRoles
    BY DEF LiveRoles
<1>2. \A v \in Users \ {u} : /\ v \in Live' <=> v \in Live
                             /\ v \notin stale' => v \notin stale
    BY DEF Live
<1>3. EditsKept'
    <2> SUFFICES ASSUME NEW v \in Live' \ stale' PROVE user'[v] = asked'[v]
        BY DEF EditsKept
    <2>1. v \in Users
        BY DEF Live
    <2>2. CASE v # u
        BY <1>2, <2>1, <2>2 DEF EditsInv, EditsKept
    <2> QED
        BY <2>2
<1>4. ASSUME NEW s \in Requests
      PROVE  EditFresh(req[s])'
    <2>1. CASE s = r
        BY <2>1 DEF Changed, EditFresh
    <2>2. CASE s # r
        <3>1. req[s] \in Request /\ EditFresh(req[s])
            BY DEF EditsInv, AccountsInv, AccountsTypeOK
        <3>2. req'[s] = [req[s] EXCEPT !.alone = FALSE]
            BY <2>2 DEF Changed
        <3>3. /\ req'[s].op = req[s].op /\ req'[s].what = req[s].what /\ req'[s].id = req[s].id
              /\ req'[s].row = req[s].row
            BY <3>1, <3>2 DEF Request
        <3>4. req[s].op = "update" /\ req[s].id \in Live' \ stale' => req[s].id \in Users \ {u}
            BY <2>2 DEF Live
        <3>5. req[s].op = "update" /\ req[s].id \in Live' \ stale' =>
                 req[s].id \in Live \ stale /\ user'[req[s].id] = user[req[s].id]
            BY <1>2, <3>4
        <3> QED
            BY <1>1, <3>1, <3>3, <3>5 DEF EditFresh
    <2> QED
        BY <2>1, <2>2
<1> QED
    BY <1>3, <1>4

LEMMA AddsKeepEdits ==
    ASSUME EditsInv, NEW r \in Requests, NEW u \in Users, NEW row, NEW n,
           Adds(r, u, row, n), n.op # "update", UNCHANGED catalog
    PROVE  EditsKept' /\ \A s \in Requests : EditFresh(req[s])'
<1>1. /\ Changed(r, n) /\ user'[u] = row /\ asked'[u] = row
      /\ \A v \in Users \ {u} : user'[v] = user[v] /\ asked'[v] = asked[v]
      /\ stale' = IF \E s \in Requests \ {r} : req[s].id = u THEN stale \cup {u} ELSE stale \ {u}
    BY DEF Adds, EditsInv, AccountsInv, AccountsTypeOK
<1> QED
    BY <1>1, RowKeepsEdits

LEMMA NewUsersKeepEdits ==
    ASSUME EditsInv, NEW r \in Requests, InsertUser(r) \/ InstallUser(r) \/ SaveAdmin(r)
    PROVE  EditsKept' /\ \A s \in Requests : EditFresh(req[s])'
<1> DEFINE n == [req[r] EXCEPT !.pc = "flag"]
<1>1. Idle.op # "update" /\ UNCHANGED catalog
    BY IdleType, NoneIsNoOp DEF Ops, InsertUser, InstallUser, SaveAdmin
<1>2. InstallUser(r) \/ SaveAdmin(r) => n.op # "update"
    BY DEF InstallUser, SaveAdmin, Seeding, EditsInv, AccountsInv, AccountsTypeOK, Request
<1> HIDE DEF n
<1>3. ASSUME NEW m, m.op # "update", Inserts(r, m)
      PROVE  EditsKept' /\ \A s \in Requests : EditFresh(req[s])'
    <2>1. CASE Ends(r) /\ UNCHANGED <<user, asked, stale>>
        BY <1>1, <2>1, EditsPass
    <2>2. CASE \E u \in Users : Unused(u) /\ Adds(r, u, req[r].row, m)
        BY <1>1, <1>3, <2>2, AddsKeepEdits
    <2> QED
        BY <1>3, <2>1, <2>2 DEF Inserts
<1>4. CASE InsertUser(r)
    BY <1>1, <1>3, <1>4 DEF InsertUser
<1>5. CASE InstallUser(r)
    BY <1>2, <1>3, <1>5 DEF InstallUser, n
<1>6. CASE SaveAdmin(r)
    <2>1. PICK u \in Users : Adds(r, u, req[r].row, n)
        BY <1>6 DEF SaveAdmin, n
    <2> QED
        BY <1>1, <1>2, <1>6, <2>1, AddsKeepEdits
<1> QED
    BY <1>4, <1>5, <1>6

\* save() writes the whole row as it was sent.
LEMMA SaveKeepsEdits ==
    ASSUME EditsInv, NEW r \in Requests, SaveUser(r)
    PROVE  EditsKept' /\ \A s \in Requests : EditFresh(req[s])'
<1> DEFINE q == req[r]
           u == q.id
<1>0. /\ q \in Request /\ q.row \in Row /\ u \in Users /\ q.op = "update" /\ UNCHANGED catalog
      /\ EditFresh(q) /\ asked[u] \in Row
    BY DEF SaveUser, EditsInv, AccountsInv, AccountsTypeOK, Placed, Request
<1>1. Idle.op # "update"
    BY IdleType, NoneIsNoOp DEF Ops
<1>2. CASE Ends(r) /\ UNCHANGED <<user, asked, stale>>
    BY <1>0, <1>2, EditsPass
<1>3. CASE Adds(r, u, q.row, Idle)
    BY <1>0, <1>1, <1>3, AddsKeepEdits
<1>4. CASE /\ u \in Live /\ q.row.roles \subseteq LiveRoles
           /\ user' = [user EXCEPT ![u] = Saved(q)]
           /\ stale' = IF \E s \in Requests \ {r} : req[s].id = u /\ req[s].op = "update"
                       THEN stale \cup {u} ELSE stale
           /\ asked' = [asked EXCEPT ![u] = IF u \in stale' THEN user'[u] ELSE NowAsked(q)]
           /\ Changed(r, Idle)
    <2>1. /\ user'[u] = q.row
          /\ asked'[u] = IF u \in stale' THEN user'[u] ELSE NowAsked(q)
          /\ \A v \in Users \ {u} : user'[v] = user[v] /\ asked'[v] = asked[v]
        BY <1>0, <1>4 DEF Saved, EditsInv, AccountsInv, AccountsTypeOK
    <2>2. stale \subseteq stale'
        BY <1>4
    <2>3. ASSUME u \notin stale'
          PROVE  NowAsked(q) = q.row
        <3>1. user[u] = asked[u] /\ q.what \in {"email", "roles"}
              /\ (q.what = "email" => q.row.roles \cap LiveRoles = user[u].roles)
              /\ (q.what = "roles" => q.row.email = user[u].email)
            BY <1>0, <1>4, <2>2, <2>3 DEF EditsInv, EditsKept, EditFresh
        <3>2. CASE q.what = "email"
            <4>1. q.row.roles = asked[u].roles
                BY <1>4, <3>1, <3>2
            <4> QED
                BY <1>0, <3>2, <4>1 DEF NowAsked, Row
        <3>3. CASE q.what = "roles"
            <4>1. q.row.email = asked[u].email /\ q.what # "email"
                BY <3>1, <3>3
            <4> QED
                BY <1>0, <4>1 DEF NowAsked, Row
        <3> QED
            BY <3>1, <3>2, <3>3
    <2>4. u \in Live' \ stale' => user'[u] = asked'[u]
        BY <2>1, <2>3
    <2>5. \A s \in Requests \ {r} : req[s].op = "update" /\ req[s].id = u => u \in stale'
        BY <1>4
    <2> QED
        BY <1>0, <1>1, <1>4, <2>1, <2>2, <2>4, <2>5, RowKeepsEdits
<1> QED
    BY <1>2, <1>3, <1>4 DEF SaveUser

LEMMA RemovalsKeepEdits ==
    ASSUME EditsInv, NEW r \in Requests, RemoveUser(r) \/ RemoveRole(r)
    PROVE  EditsKept' /\ \A s \in Requests : EditFresh(req[s])'
<1>1. CASE RemoveUser(r)
    <2> DEFINE u == req[r].id
    <2>1. /\ u \in Users /\ Changed(r, Idle) /\ UNCHANGED <<catalog, stale>>
          /\ user'[u] = NoUser /\ \A v \in Users \ {u} : user'[v] = user[v] /\ asked'[v] = asked[v]
        BY <1>1 DEF RemoveUser, EditsInv, AccountsInv, AccountsTypeOK, Placed
    <2>2. u \notin Live'
        BY <2>1 DEF Live, NoUser
    <2>3. Idle.op # "update"
        BY IdleType, NoneIsNoOp DEF Ops
    <2> QED
        BY <2>1, <2>2, <2>3, RowKeepsEdits
<1>2. CASE RemoveRole(r)
    <2> DEFINE c == req[r].id
    <2>1. /\ user' = [u \in Users |-> [user[u] EXCEPT !.roles = user[u].roles \ {c}]]
          /\ asked' = [u \in Users |-> [asked[u] EXCEPT !.roles = asked[u].roles \ {c}]]
          /\ catalog' = [catalog EXCEPT ![c] = "none"] /\ Ends(r) /\ UNCHANGED stale
        BY <1>2 DEF RemoveRole
    <2>2. c \in Custom /\ c # Super
        BY <1>2, AccountsAssumption DEF RemoveRole, EditsInv, AccountsInv, Placed
    <2> HIDE DEF c
    <2>3. user \in [Users -> Row] /\ asked \in [Users -> Row]
        BY DEF EditsInv, AccountsInv, AccountsTypeOK
    <2>4. /\ \A u \in Users : user'[u].email = user[u].email /\ user'[u].roles = user[u].roles \ {c}
          /\ \A u \in Users : user[u] = asked[u] => user'[u] = asked'[u]
        BY <2>1, <2>3 DEF Row
    <2>5. Live' = Live /\ Live \subseteq Users
        BY <2>4 DEF Live
    <2>6. LiveRoles' = LiveRoles \ {c}
        BY <2>1, <2>2 DEF LiveRoles, Roles, EditsInv, AccountsInv, AccountsTypeOK
    <2>7. EditsKept'
        BY <2>1, <2>4, <2>5 DEF EditsInv, EditsKept
    <2>8. ASSUME NEW s \in Requests
          PROVE  EditFresh(req[s])'
        <3>1. req'[s] = req[s] \/ req'[s].op # "update"
            BY <2>1, IdleType, NoneIsNoOp DEF Ends, Ops, EditsInv, AccountsInv, AccountsTypeOK
        <3>2. EditFresh(req[s])
            BY DEF EditsInv
        <3> QED
            BY <2>1, <2>2, <2>4, <2>5, <2>6, <3>1, <3>2 DEF EditFresh
    <2> QED
        BY <2>7, <2>8
<1> QED
    BY <1>1, <1>2

LEMMA RestKeepsEdits ==
    ASSUME EditsInv, ApiCrashes \/ UNCHANGED vars
    PROVE  EditsKept' /\ \A s \in Requests : EditFresh(req[s])'
<1>1. UNCHANGED <<user, asked, catalog, stale>>
    BY DEF ApiCrashes, vars, tables, histVars
<1>2. \A s \in Requests : req'[s] = req[s] \/ req'[s].op # "update"
    BY IdleType, NoneIsNoOp DEF ApiCrashes, vars, Ops
<1>3. Live' = Live /\ LiveRoles' = LiveRoles
    BY <1>1 DEF Live, LiveRoles
<1> QED
    BY <1>1, <1>2, <1>3 DEF EditsInv, EditsKept, EditFresh

\* The inductive invariant: what every open form and request would write back.
THEOREM EditsInvHolds == Spec => []EditsInv
<1>1. Init => EditsInv
    <2> SUFFICES ASSUME Init PROVE EditsInv
        OBVIOUS
    <2>1. Live = {} /\ \A r \in Requests : req[r].op # "update"
        BY IdleType, NoneIsNoOp DEF Init, Live, NoUser, Ops
    <2> QED
        BY <2>1, AccountsStart, FreshWithoutEdit DEF EditsInv, EditsKept
<1>2. EditsInv /\ [Next]_vars => EditsInv'
    <2> SUFFICES ASSUME EditsInv, [Next]_vars PROVE EditsInv'
        OBVIOUS
    <2>1. AccountsInv'
        BY AccountsStep DEF EditsInv
    <2>2. EditsKept' /\ \A s \in Requests : EditFresh(req[s])'
        BY ReadersKeepEdits, CatalogKeepsEdits, NewUsersKeepEdits, SaveKeepsEdits,
           RemovalsKeepEdits, RestKeepsEdits
        DEF Next, UserStep, RoleStep, InstallStep, SeedStep
    <2> QED
        BY <2>1, <2>2 DEF EditsInv
<1> QED
    BY <1>1, <1>2, PTL DEF Spec

\* A user has the email and the roles last asked for, although save() writes back fields
\* as they were read: for any number of forms and requests, but where two for the user
\* were open at once.
THEOREM EditsAreKept == Spec => []EditsKept
<1>1. EditsInv => EditsKept
    BY DEF EditsInv
<1> QED
    BY <1>1, EditsInvHolds, PTL
=============================================================================
