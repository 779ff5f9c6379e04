----------------------------- MODULE Accounts -----------------------------
(***************************************************************************)
(* Users and roles (modules/users), the first-run installer                *)
(* (modules/installer) and the seeder (database/seed.service.ts) that runs *)
(* before every start of the API and by `npm run seed'.                    *)
(*                                                                         *)
(* Each query is one action; nothing runs in a transaction.  An edit of    *)
(* the panel (UsersPage.vue) starts when the form is filled from the list: *)
(* it sends back every field of the form, changed or not.                  *)
(***************************************************************************)
EXTENDS Integers, FiniteSets

CONSTANTS
    Users,     \* ids of users
    Emails,
    EnvEmail,  \* ADMIN_EMAIL of the environment, None when it is not set
    Custom,    \* ids of roles made in the panel
    Requests,  \* slots for requests in flight
    None

Super == "super-admin"
Roles == {Super} \cup Custom

\* What a request asks for; the last two are the seeder, at the start of the API or by itself.
Ops == {"create", "update", "remove", "install", "role", "unrole", "boot", "seed"}

ASSUME AccountsAssumption ==
    /\ IsFiniteSet(Users)
    /\ None \notin Users \cup Emails \cup Roles \cup Ops
    /\ Super \notin Custom
    /\ EnvEmail \in Emails \cup {None}

VARIABLES
    user,      \* user[u]: the row of u, NoUser when there is none
    catalog,   \* catalog[c]: permissions of role c, "none" when there is no such role
    installed, \* the setting of this name
    samples,   \* the Test channels are there
    boot,      \* the API process
    req,       \* the requests in flight
    asked,     \* history: email and roles last asked for
    stale      \* history: users whose edits overlapped

tables   == <<user, catalog, installed, samples>>
histVars == <<asked, stale>>
vars     == <<tables, boot, req, histVars>>

Row    == [email : Emails \cup {None}, roles : SUBSET Roles]
NoUser == [email |-> None, roles |-> {}]

Request ==
    [op : Ops \cup {None},
     pc : {"idle", "form", "dup", "roles", "save", "count", "remove", "flag", "samples",
           "permissions", "settings", "admin"},
     id : Users \cup Roles \cup {None},     \* the row it works on
     row : Row,                             \* what it is going to save
     what : {"all", "email", "roles"},      \* the fields that are meant to change
     alone : BOOLEAN]                       \* history: nobody else has changed the users since

----------------------------------------------------------------------------
Live      == {u \in Users : user[u].email # None}
Supers    == {u \in Live : Super \in user[u].roles}
LiveRoles == {c \in Roles : catalog[c] # "none"}

\* Another user than u has email e.
Taken(e, u) == \E v \in Users \ {u} : user[v].email = e

Seeding(r) == req[r].op \in {"boot", "seed"}

Idle == [op |-> None, pc |-> "idle", id |-> None, row |-> NoUser, what |-> "all",
         alone |-> FALSE]

\* Types; emails are unique and the roles of a user exist, whatever runs in parallel.
AccountsTypeOK ==
    /\ user \in [Users -> Row]
    /\ \A u, v \in Live : user[u].email = user[v].email => u = v
    /\ \A u \in Users : user[u].roles \subseteq LiveRoles
    /\ catalog \in [Roles -> {"none", "catalogue", "edited"}]
    /\ installed \in {"missing", "no", "yes"}
    /\ samples \in BOOLEAN
    /\ boot \in {"down", "seeding", "up"}
    /\ req \in [Requests -> Request]
    /\ asked \in [Users -> Row]
    /\ stale \subseteq Users

Init ==
    /\ user = [u \in Users |-> NoUser]
    /\ catalog = [c \in Roles |-> "none"]
    /\ installed = "missing"
    /\ samples = FALSE
    /\ boot = "down"
    /\ req = [r \in Requests |-> Idle]
    /\ asked = [u \in Users |-> NoUser]
    /\ stale = {}

Arrives(r, q) == boot = "up" /\ req[r].pc = "idle" /\ req' = [req EXCEPT ![r] = q]
Go(r, pc)     == req' = [req EXCEPT ![r] = [req[r] EXCEPT !.pc = pc]]
Ends(r)       == req' = [req EXCEPT ![r] = Idle]

\* Request r has changed the users and goes on to `next'.
Changed(r, next) ==
    req' = [s \in Requests |-> IF s = r THEN next ELSE [req[s] EXCEPT !.alone = FALSE]]

\* A row for a new user u, or for one that is there again, which others may still edit.
Adds(r, u, row, next) ==
    /\ user' = [user EXCEPT ![u] = row]
    /\ asked' = [asked EXCEPT ![u] = row]
    /\ stale' = IF \E s \in Requests \ {r} : req[s].id = u THEN stale \cup {u} ELSE stale \ {u}
    /\ Changed(r, next)

\* No row and no open form of u: its id can stand for a new one.
Unused(u) == u \notin Live /\ \A r \in Requests : req[r].id # u

\* An insert of user u by r; the unique email and the foreign keys of the roles hold it to
\* what the tables have by then.
Inserts(r, next) ==
    IF Taken(req[r].row.email, None) \/ ~(req[r].row.roles \subseteq LiveRoles)
    THEN Ends(r) /\ UNCHANGED <<user, asked, stale>>
    ELSE \E u \in Users : Unused(u) /\ Adds(r, u, req[r].row, next)

----------------------------------------------------------------------------
(* Users.                                                                  *)

\* create(): the email is checked, the roles are looked up, the row is saved.
PostUser(r) ==
    /\ \E e \in Emails, roles \in SUBSET LiveRoles :
          /\ ~Taken(e, None)
          /\ Arrives(r, [Idle EXCEPT !.op = "create", !.pc = "roles",
                                     !.row = [email |-> e, roles |-> roles]])
    /\ UNCHANGED <<tables, boot, histVars>>

\* roles.findBy: ids of roles that are gone are dropped.
FindRoles(r) ==
    /\ req[r].op \in {"create", "update"} /\ req[r].pc = "roles"
    /\ LET found == [req[r].row EXCEPT !.roles = req[r].row.roles \cap LiveRoles]
       IN  req' = [req EXCEPT ![r] = [req[r] EXCEPT !.row = found, !.pc = "save"]]
    /\ UNCHANGED <<tables, boot, histVars>>

InsertUser(r) ==
    /\ req[r].op = "create" /\ req[r].pc = "save"
    /\ Inserts(r, Idle)
    /\ UNCHANGED <<catalog, installed, samples, boot>>

\* startEdit(): the form is filled from the list; one field is changed in it.
OpenForm(r) ==
    /\ \E u \in Live :
          \/ \E e \in Emails :
                Arrives(r, [Idle EXCEPT !.op = "update", !.pc = "form", !.id = u, !.what = "email",
                                        !.row = [user[u] EXCEPT !.email = e]])
          \/ \E roles \in SUBSET LiveRoles :
                Arrives(r, [Idle EXCEPT !.op = "update", !.pc = "form", !.id = u, !.what = "roles",
                                        !.row = [user[u] EXCEPT !.roles = roles]])
    /\ UNCHANGED <<tables, boot, histVars>>

CloseForm(r) == req[r].pc = "form" /\ Ends(r) /\ UNCHANGED <<tables, boot, histVars>>

\* PUT /users/:id: update() reads the row, and compares the email it was sent with it.
PutUser(r) ==
    /\ boot = "up" /\ req[r].pc = "form"
    /\ IF req[r].id \notin Live
       THEN Ends(r)
       ELSE Go(r, IF req[r].row.email = user[req[r].id].email THEN "roles" ELSE "dup")
    /\ UNCHANGED <<tables, boot, histVars>>

\* The same by a client that sends an email and no roles: those it reads are kept.
PatchUser(r) ==
    /\ \E u \in Live, e \in Emails :
          Arrives(r, [Idle EXCEPT !.op = "update", !.pc = "dup", !.id = u, !.what = "email",
                                  !.row = [user[u] EXCEPT !.email = e]])
    /\ UNCHANGED <<tables, boot, histVars>>

CheckEmail(r) ==
    /\ req[r].pc = "dup"
    /\ IF Taken(req[r].row.email, req[r].id) THEN Ends(r) ELSE Go(r, "roles")
    /\ UNCHANGED <<tables, boot, histVars>>

\* Mutant of Saved: the roles of an edit are left out.
SavedEmailOnly(q) == [user[q.id] EXCEPT !.email = q.row.email]

\* What save() makes of the row: all that the request carries.
Saved(q) == q.row

\* Email and roles as last asked for, when the save of q is through.
NowAsked(q) ==
    IF q.what = "email" THEN [asked[q.id] EXCEPT !.email = q.row.email]
                        ELSE [asked[q.id] EXCEPT !.roles = q.row.roles]

\* A row that is gone is inserted again when a password was sent, else the save fails.
SaveUser(r) ==
    LET q == req[r]
        u == q.id
    IN  /\ q.op = "update" /\ q.pc = "save"
        /\ \/ /\ Taken(q.row.email, u) \/ ~(q.row.roles \subseteq LiveRoles) \/ u \notin Live
              /\ Ends(r)
              /\ UNCHANGED <<user, asked, stale>>
           \/ /\ u \notin Live /\ ~Taken(q.row.email, u) /\ q.row.roles \subseteq LiveRoles
              /\ Adds(r, u, q.row, Idle)
           \/ /\ u \in Live /\ ~Taken(q.row.email, u) /\ q.row.roles \subseteq LiveRoles
              /\ user' = [user EXCEPT ![u] = Saved(q)]
              /\ stale' = IF \E s \in Requests \ {r} : req[s].id = u /\ req[s].op = "update"
                          THEN stale \cup {u} ELSE stale
              /\ asked' = [asked EXCEPT ![u] = IF u \in stale' THEN user'[u] ELSE NowAsked(q)]
              /\ Changed(r, Idle)
        /\ UNCHANGED <<catalog, installed, samples, boot>>

\* remove() reads the user; the super admins are counted if it is one.
DeleteUser(r) ==
    /\ \E u \in Live :
          Arrives(r, [Idle EXCEPT !.op = "remove", !.id = u, !.alone = TRUE,
                                  !.pc = IF u \in Supers THEN "count" ELSE "remove"])
    /\ UNCHANGED <<tables, boot, histVars>>

\* Mutant of LastSuper: one is not enough.
NoSuper == Cardinality(Supers) <= 0

LastSuper == Cardinality(Supers) <= 1

CountSupers(r) ==
    /\ req[r].pc = "count"
    /\ IF LastSuper THEN Ends(r) ELSE Go(r, "remove")
    /\ UNCHANGED <<tables, boot, histVars>>

RemoveUser(r) ==
    /\ req[r].op = "remove" /\ req[r].pc = "remove"
    /\ user' = [user EXCEPT ![req[r].id] = NoUser]
    /\ asked' = [asked EXCEPT ![req[r].id] = NoUser]
    /\ Changed(r, Idle)
    /\ UNCHANGED <<catalog, installed, samples, boot, stale>>

----------------------------------------------------------------------------
(* Roles.                                                                  *)

\* create(): name and slug are unique.
PostRole ==
    /\ boot = "up"
    /\ \E c \in Custom :
          /\ catalog[c] = "none"
          /\ \A r \in Requests : req[r].id # c /\ c \notin req[r].row.roles
          /\ catalog' = [catalog EXCEPT ![c] = "edited"]
    /\ UNCHANGED <<user, installed, samples, boot, req, histVars>>

Editable(c) == c # Super

PutRole(r) ==
    /\ \E c \in LiveRoles :
          Editable(c) /\ Arrives(r, [Idle EXCEPT !.op = "role", !.pc = "save", !.id = c])
    /\ UNCHANGED <<tables, boot, histVars>>

\* A role that is gone by now is inserted again, also for the forms that still have it.
SaveRole(r) ==
    /\ req[r].op = "role"
    /\ catalog' = [catalog EXCEPT ![req[r].id] = "edited"]
    /\ stale' = IF req[r].id \in LiveRoles THEN stale
                ELSE stale \cup {u \in Users : \E s \in Requests :
                                       req[s].id = u /\ req[r].id \in req[s].row.roles}
    /\ Ends(r)
    /\ UNCHANGED <<user, installed, samples, boot, asked>>

\* remove() refuses a system role.
DeleteRole(r) ==
    /\ \E c \in LiveRoles \cap Custom :
          Arrives(r, [Idle EXCEPT !.op = "unrole", !.pc = "remove", !.id = c])
    /\ UNCHANGED <<tables, boot, histVars>>

\* The rows of user_roles go with the role.
RemoveRole(r) ==
    LET without(table) == [u \in Users |-> [table[u] EXCEPT !.roles = table[u].roles \ {req[r].id}]]
    IN  /\ req[r].op = "unrole"
        /\ catalog' = [catalog EXCEPT ![req[r].id] = "none"]
        /\ user' = without(user)
        /\ asked' = without(asked)
        /\ Ends(r)
        /\ UNCHANGED <<installed, samples, boot, stale>>

----------------------------------------------------------------------------
(* POST /installer.                                                        *)

\* Mutant of IsInstalled: only the flag is looked at.
FlagSet == installed = "yes"

\* status(): the flag is set, or there is a user.
IsInstalled == installed = "yes" \/ Live # {}

PostInstall(r) ==
    /\ ~IsInstalled
    /\ \E e \in Emails :
          Arrives(r, [Idle EXCEPT !.op = "install", !.pc = "save",
                                  !.alone = \A s \in Requests : req[s].op # "install" /\ ~Seeding(s),
                                  !.row = [email |-> e, roles |-> {Super} \cap LiveRoles]])
    /\ UNCHANGED <<tables, boot, histVars>>

InstallUser(r) ==
    /\ req[r].op = "install" /\ req[r].pc = "save"
    /\ Inserts(r, [req[r] EXCEPT !.pc = "flag"])
    /\ UNCHANGED <<catalog, installed, samples, boot>>

\* The flag, set by the installer and by the seeder of the administrator.
SetInstalled(r) ==
    /\ req[r].pc = "flag"
    /\ installed' = "yes"
    /\ Go(r, "samples")
    /\ UNCHANGED <<user, catalog, samples, boot, histVars>>

\* keepSampleChannels === false
DropSamples(r) ==
    /\ req[r].op = "install" /\ req[r].pc = "samples"
    /\ samples' \in {samples, FALSE}
    /\ Ends(r)
    /\ UNCHANGED <<user, catalog, installed, boot, histVars>>

----------------------------------------------------------------------------
(* The seeder.                                                             *)

\* The API starts: nothing is answered before the seeder is through.
ApiBoots(r) ==
    /\ boot = "down" /\ req[r].pc = "idle"
    /\ boot' = "seeding"
    /\ req' = [req EXCEPT ![r] = [Idle EXCEPT !.op = "boot", !.pc = "permissions"]]
    /\ UNCHANGED <<tables, histVars>>

\* npm run seed.
RunSeed(r) ==
    /\ Arrives(r, [Idle EXCEPT !.op = "seed", !.pc = "permissions"])
    /\ UNCHANGED <<tables, boot, histVars>>

\* seedPermissions() and seedRoles(): system roles are set to the catalogue.
SeedRoles(r) ==
    /\ Seeding(r) /\ req[r].pc = "permissions"
    /\ catalog' = [catalog EXCEPT ![Super] = "catalogue"]
    /\ Go(r, "settings")
    /\ UNCHANGED <<user, installed, samples, boot, histVars>>

\* seedSettings(): only what is missing.
SeedSettings(r) ==
    /\ Seeding(r) /\ req[r].pc = "settings"
    /\ installed' = IF installed = "missing" THEN "no" ELSE installed
    /\ Go(r, "admin")
    /\ UNCHANGED <<user, catalog, samples, boot, histVars>>

\* seedAdminFromEnv() looks for the email ...
SeedAdmin(r) ==
    /\ Seeding(r) /\ req[r].pc = "admin"
    /\ IF EnvEmail = None \/ Taken(EnvEmail, None)
       THEN Go(r, "samples")
       ELSE LET admin == [email |-> EnvEmail, roles |-> {Super} \cap LiveRoles]
            IN  req' = [req EXCEPT ![r] = [req[r] EXCEPT !.pc = "save", !.row = admin]]
    /\ UNCHANGED <<tables, boot, histVars>>

\* ... and saves the administrator.
SaveAdmin(r) ==
    /\ Seeding(r) /\ req[r].pc = "save" /\ ~Taken(EnvEmail, None)
    /\ \E u \in Users : Unused(u) /\ Adds(r, u, req[r].row, [req[r] EXCEPT !.pc = "flag"])
    /\ UNCHANGED <<catalog, installed, samples, boot>>

\* seedSampleChannels(): if there is no channel at all; then the API listens.
SeedSamples(r) ==
    /\ Seeding(r) /\ req[r].pc = "samples"
    /\ samples' \in {samples, TRUE}
    /\ boot' = IF req[r].op = "boot" THEN "up" ELSE boot
    /\ Ends(r)
    /\ UNCHANGED <<user, catalog, installed, histVars>>

\* A query of the seeder fails (two seeders insert the same row): its process ends.
SeedFails(r) ==
    /\ Seeding(r)
    /\ boot' = IF req[r].op = "boot" THEN "down" ELSE boot
    /\ Ends(r)
    /\ UNCHANGED <<tables, histVars>>

\* The API dies; forms in browsers stay open, a seeder of its own process goes on.
ApiCrashes ==
    /\ boot = "up"
    /\ boot' = "down"
    /\ req' = [r \in Requests |-> IF req[r].op = "seed" \/ req[r].pc = "form" THEN req[r] ELSE Idle]
    /\ UNCHANGED <<tables, histVars>>

UserStep(r) ==
    \/ PostUser(r) \/ FindRoles(r) \/ InsertUser(r) \/ OpenForm(r) \/ CloseForm(r)
    \/ PutUser(r) \/ PatchUser(r) \/ CheckEmail(r) \/ SaveUser(r) \/ DeleteUser(r) \/ CountSupers(r)
    \/ RemoveUser(r)
RoleStep(r)    == PutRole(r) \/ SaveRole(r) \/ DeleteRole(r) \/ RemoveRole(r)
InstallStep(r) == PostInstall(r) \/ InstallUser(r) \/ SetInstalled(r) \/ DropSamples(r)
SeedStep(r) ==
    \/ ApiBoots(r) \/ RunSeed(r) \/ SeedRoles(r) \/ SeedSettings(r) \/ SeedAdmin(r)
    \/ SaveAdmin(r) \/ SeedSamples(r) \/ SeedFails(r)

Next ==
    \/ \E r \in Requests : UserStep(r) \/ RoleStep(r) \/ InstallStep(r) \/ SeedStep(r)
    \/ PostRole \/ ApiCrashes

Spec == Init /\ [][Next]_vars

----------------------------------------------------------------------------
(* Properties.                                                             *)

\* The last super admin goes only by an edit that takes the role away (update() does not
\* count), or when somebody else changed the users between the count of remove() and its
\* delete.
SuperRemains ==
    [][Supers # {} /\ Supers' = {} =>
          \E r \in Requests : SaveUser(r) \/ (RemoveUser(r) /\ ~req[r].alone)]_vars

\* The installer adds an administrator only to a panel without users that was never set
\* up, whatever died halfway before, unless somebody else added one while it ran: "hard-
\* locked the moment setup completes or any user exists" (installer.module.ts:28).
InstalledOnce ==
    [][\A r \in Requests :
          req[r].op = "install" /\ req[r].alone /\ user' # user /\ req'[r].pc = "flag"
              /\ req[r].pc = "save"
          => Live = {} /\ installed # "yes"]_vars

\* A user has the email and the roles last asked for, minus deleted roles, unless two
\* forms or requests for the user were open at once: save() writes the others' fields
\* back as it has read them.
EditsKept == \A u \in Live \ stale : user[u] = asked[u]
=============================================================================
