--------------------------- MODULE RoleAssignments ---------------------------
(***************************************************************************)
(* The handlers that decide which user holds which role, run concurrently: *)
(* role assignment (user/routes/users.py), creation, renaming and          *)
(* deactivation of a role (rbac/services.py), deletion of an account, and   *)
(* the binding of the first superuser at start-up (config/database.py).    *)
(*                                                                         *)
(* A worker is one HTTP request in flight, with one transaction at READ    *)
(* COMMITTED; a step is one statement whose result may be stale when it is *)
(* used.  SQLAlchemy writes only the columns that differ from what it      *)
(* loaded, so what a handler loaded is part of its state.                  *)
(***************************************************************************)
CONSTANTS
    Workers,        \* requests in flight, one transaction each
    NoOne,          \* owner of a row lock nobody holds
    Users,          \* "user" rows that may come to exist
    FirstSuperuser, \* the account of settings.FIRST_SUPERUSER
    Roles,          \* role codes
    NoRole,         \* role_id is NULL
    SystemRoles,    \* the seeded roles, is_system
    SuperAdmin,     \* the seeded role of the first superuser
    Superusers      \* workers whose signed-in account is a superuser

ASSUME NoOneAssumption == NoOne \notin Workers
ASSUME RolesAssumption ==
    /\ NoRole \notin Roles
    /\ SystemRoles \subseteq Roles
    /\ SuperAdmin \in SystemRoles
ASSUME UsersAssumption == FirstSuperuser \in Users

RoleState == {"absent", "active", "inactive"}
Account == {"none", "open", "deleted"}

\* Where a worker is in its handler; "idle" is between two requests.
Step == {"idle", "assign.role", "assign.write", "bootstrap.write", "edit.write",
         "deactivate.lock", "deactivate.check", "deactivate.write"}

VARIABLES
    account,   \* whether a user's row exists; an identifier is never used again
    roleOf,    \* user.role_id
    roleState, \* role.is_active, "absent" before the row exists
    roleLock,  \* worker holding a role row FOR UPDATE
    pc,        \* the next step of each worker
    role,      \* the role a worker's handler is about
    user,      \* the user a worker's handler is about
    loaded,    \* user.role_id as the worker's session loaded it
    believed   \* role.is_active as the worker's session loaded it

tables == <<account, roleOf, roleState>>
session == <<roleLock, pc, role, user, loaded, believed>>
vars == <<tables, session>>

-----------------------------------------------------------------------------
(* Sessions *)

Go(w, step) == pc' = [pc EXCEPT ![w] = step]

\* COMMIT or ROLLBACK: the row locks go and the session forgets what it loaded.
End(w) ==
    /\ Go(w, "idle")
    /\ roleLock' = [r \in Roles |-> IF roleLock[r] = w THEN NoOne ELSE roleLock[r]]
    /\ role' = [role EXCEPT ![w] = NoRole]
    /\ user' = [user EXCEPT ![w] = NoOne]
    /\ loaded' = [loaded EXCEPT ![w] = NoRole]
    /\ believed' = [believed EXCEPT ![w] = "absent"]

Rollback(w) == End(w) /\ UNCHANGED tables

-----------------------------------------------------------------------------
(* assign_user_role *)

\* Slip: the session does not keep the user it loaded.
AssignBeginUserless(w, u, r) ==
    /\ pc[w] = "idle"
    /\ account[u] = "open"
    /\ Go(w, "assign.role")
    /\ role' = [role EXCEPT ![w] = r]
    /\ UNCHANGED <<tables, roleLock, user, loaded, believed>>

\* Load the user; 404 when there is none.
AssignBegin(w, u, r) ==
    /\ pc[w] = "idle"
    /\ account[u] = "open"
    /\ Go(w, "assign.role")
    /\ user' = [user EXCEPT ![w] = u]
    /\ role' = [role EXCEPT ![w] = r]
    /\ loaded' = [loaded EXCEPT ![w] = roleOf[u]]
    /\ UNCHANGED <<tables, roleLock, believed>>

Assignable(w) ==
    /\ roleState[role[w]] = "active"
    /\ role[w] \in SystemRoles => w \in Superusers

\* Slip: the role is read without FOR UPDATE.
AssignRoleUnlocked(w) ==
    /\ pc[w] = "assign.role"
    /\ IF Assignable(w)
       THEN Go(w, "assign.write") /\ UNCHANGED <<tables, roleLock, role, user, loaded, believed>>
       ELSE Rollback(w)

\* SELECT the role FOR UPDATE; 404, 409 or 403 ends the handler.
AssignRole(w) ==
    /\ pc[w] = "assign.role"
    /\ roleLock[role[w]] = NoOne
    /\ IF Assignable(w)
       THEN /\ Go(w, "assign.write")
            /\ roleLock' = [roleLock EXCEPT ![role[w]] = w]
            /\ UNCHANGED <<tables, role, user, loaded, believed>>
       ELSE Rollback(w)

\* The UPDATE is left out when the session loaded this very role, and fails when
\* the user is gone.
AssignWrite(w) ==
    /\ pc[w] = "assign.write"
    /\ IF loaded[w] # role[w] /\ account[user[w]] = "open"
       THEN roleOf' = [roleOf EXCEPT ![user[w]] = role[w]]
       ELSE UNCHANGED roleOf
    /\ End(w)
    /\ UNCHANGED <<account, roleState>>

-----------------------------------------------------------------------------
(* delete_role *)

\* The route loads the role: 404 when there is none, 403 when it is a system role.
DeactivateBegin(w, r) ==
    /\ pc[w] = "idle"
    /\ roleState[r] # "absent"
    /\ r \notin SystemRoles
    /\ Go(w, "deactivate.lock")
    /\ role' = [role EXCEPT ![w] = r]
    /\ believed' = [believed EXCEPT ![w] = roleState[r]]
    /\ UNCHANGED <<tables, roleLock, user, loaded>>

\* Slip: the role is loaded again without FOR UPDATE.
DeactivateUnlocked(w) ==
    /\ pc[w] = "deactivate.lock"
    /\ IF roleState[role[w]] = "active"
       THEN Go(w, "deactivate.check") /\ UNCHANGED <<tables, roleLock, role, user, loaded, believed>>
       ELSE Rollback(w)

\* SELECT the role FOR UPDATE with populate_existing: what the route loaded is
\* replaced by what is committed now; 404 when inactive.
DeactivateLock(w) ==
    /\ pc[w] = "deactivate.lock"
    /\ roleLock[role[w]] = NoOne
    /\ IF roleState[role[w]] = "active"
       THEN /\ Go(w, "deactivate.check")
            /\ roleLock' = [roleLock EXCEPT ![role[w]] = w]
            /\ believed' = [believed EXCEPT ![w] = roleState[role[w]]]
            /\ UNCHANGED <<tables, role, user, loaded>>
       ELSE Rollback(w)

\* Slip: the handler gives up with the row still locked.
KeepLock(w) ==
    /\ pc[w] = "deactivate.check"
    /\ IF \E u \in Users : roleOf[u] = role[w]
       THEN Go(w, "idle") /\ UNCHANGED <<tables, roleLock, role, user, loaded, believed>>
       ELSE Go(w, "deactivate.write") /\ UNCHANGED <<tables, roleLock, role, user, loaded, believed>>

\* 409 when a user holds the role.
DeactivateCheck(w) ==
    /\ pc[w] = "deactivate.check"
    /\ IF \E u \in Users : roleOf[u] = role[w]
       THEN Rollback(w)
       ELSE Go(w, "deactivate.write") /\ UNCHANGED <<tables, roleLock, role, user, loaded, believed>>

DeactivateWrite(w) ==
    /\ pc[w] = "deactivate.write"
    /\ roleState' = [roleState EXCEPT ![role[w]] = "inactive"]
    /\ End(w)
    /\ UNCHANGED <<account, roleOf>>

-----------------------------------------------------------------------------
(* update_role, of the name or the description *)

\* The route loads the role: 404 when there is none, 403 when it is a system role.
EditBegin(w, r) ==
    /\ pc[w] = "idle"
    /\ roleState[r] # "absent"
    /\ r \notin SystemRoles
    /\ Go(w, "edit.write")
    /\ role' = [role EXCEPT ![w] = r]
    /\ believed' = [believed EXCEPT ![w] = roleState[r]]
    /\ UNCHANGED <<tables, roleLock, user, loaded>>

\* Slip: the whole row is written back as it was loaded.
EditWriteRow(w) ==
    /\ pc[w] = "edit.write"
    /\ roleLock[role[w]] = NoOne
    /\ roleState' = [roleState EXCEPT ![role[w]] = believed[w]]
    /\ End(w)
    /\ UNCHANGED <<account, roleOf>>

\* The UPDATE waits for the row and writes the edited columns only.
EditWrite(w) ==
    /\ pc[w] = "edit.write"
    /\ roleLock[role[w]] = NoOne
    /\ Rollback(w)

-----------------------------------------------------------------------------
(* One-statement handlers *)

\* create_role: a code that exists is refused by the route or by the unique index.
CreateRole(w, r) ==
    /\ pc[w] = "idle"
    /\ roleState[r] = "absent"
    /\ roleState' = [roleState EXCEPT ![r] = "active"]
    /\ UNCHANGED <<account, roleOf, session>>

\* create_user: no schema of an account carries a role.
CreateUser(w, u) ==
    /\ pc[w] = "idle"
    /\ account[u] = "none"
    /\ account' = [account EXCEPT ![u] = "open"]
    /\ UNCHANGED <<roleOf, roleState, session>>

DeleteUser(w, u) ==
    /\ pc[w] = "idle"
    /\ account[u] = "open"
    /\ account' = [account EXCEPT ![u] = "deleted"]
    /\ roleOf' = [roleOf EXCEPT ![u] = NoRole]
    /\ UNCHANGED <<roleState, session>>

\* init_db: a first superuser without a role is to be given the seeded one.
BootstrapBegin(w) ==
    /\ pc[w] = "idle"
    /\ account[FirstSuperuser] = "open"
    /\ roleOf[FirstSuperuser] = NoRole
    /\ Go(w, "bootstrap.write")
    /\ user' = [user EXCEPT ![w] = FirstSuperuser]
    /\ role' = [role EXCEPT ![w] = SuperAdmin]
    /\ UNCHANGED <<tables, roleLock, loaded, believed>>

\* The foreign key needs a share of the role row, which an assignment may hold.
BootstrapWrite(w) ==
    /\ pc[w] = "bootstrap.write"
    /\ roleLock[SuperAdmin] = NoOne
    /\ IF account[FirstSuperuser] = "open"
       THEN roleOf' = [roleOf EXCEPT ![FirstSuperuser] = SuperAdmin]
       ELSE UNCHANGED roleOf
    /\ End(w)
    /\ UNCHANGED <<account, roleState>>

\* The worker process dies or the request fails: PostgreSQL rolls back.
Crash(w) == pc[w] # "idle" /\ Rollback(w)

-----------------------------------------------------------------------------

Init ==
    /\ account = [u \in Users |-> IF u = FirstSuperuser THEN "open" ELSE "none"]
    /\ roleOf = [u \in Users |-> NoRole]
    /\ roleState = [r \in Roles |-> IF r \in SystemRoles THEN "active" ELSE "absent"]
    /\ roleLock = [r \in Roles |-> NoOne]
    /\ pc = [w \in Workers |-> "idle"]
    /\ role = [w \in Workers |-> NoRole]
    /\ user = [w \in Workers |-> NoOne]
    /\ loaded = [w \in Workers |-> NoRole]
    /\ believed = [w \in Workers |-> "absent"]

\* A handler goes on with its next statement.
Proceed(w) ==
    \/ AssignRole(w) \/ AssignWrite(w)
    \/ DeactivateLock(w) \/ DeactivateCheck(w) \/ DeactivateWrite(w)
    \/ EditWrite(w) \/ BootstrapWrite(w)

\* A request reaches an idle worker.
Arrive(w) ==
    \/ \E u \in Users : \/ CreateUser(w, u) \/ DeleteUser(w, u)
                        \/ \E r \in Roles : AssignBegin(w, u, r)
    \/ \E r \in Roles : CreateRole(w, r) \/ DeactivateBegin(w, r) \/ EditBegin(w, r)
    \/ BootstrapBegin(w)

Next == \E w \in Workers : Arrive(w) \/ Proceed(w) \/ Crash(w)

Spec == Init /\ [][Next]_vars

\* A handler that has started runs on, and PostgreSQL grants a row in turn.
FairSpec == Spec /\ \A w \in Workers : SF_vars(Proceed(w))

-----------------------------------------------------------------------------
(* Properties *)

\* The type invariant: columns and sessions stay in their domains, and a worker
\* inside a handler has a role, and where it needs one a user, in its hands.
TypeOK ==
    /\ account \in [Users -> Account]
    /\ roleOf \in [Users -> Roles \cup {NoRole}]
    /\ roleState \in [Roles -> RoleState]
    /\ roleLock \in [Roles -> Workers \cup {NoOne}]
    /\ pc \in [Workers -> Step]
    /\ role \in [Workers -> Roles \cup {NoRole}]
    /\ user \in [Workers -> Users \cup {NoOne}]
    /\ loaded \in [Workers -> Roles \cup {NoRole}]
    /\ believed \in [Workers -> RoleState]
    /\ \A w \in Workers :
          /\ pc[w] # "idle" => role[w] \in Roles
          /\ pc[w] \in {"assign.role", "assign.write", "bootstrap.write"} => user[w] \in Users

\* No user ever holds an inactive role, although assignment and deactivation each
\* check first and write later: both hold the role row from check to commit.
\* user_has_permission relies on it, as it never looks at is_active.
HeldRolesActive == \A u \in Users : roleOf[u] # NoRole => roleState[roleOf[u]] = "active"

\* Every handler that starts comes to an end: nobody waits for a role for ever.
HandlersEnd == \A w \in Workers : pc[w] # "idle" ~> pc[w] = "idle"

Book == INSTANCE RoleBook

\* The handlers implement the atomic book of roles: each assignment and each
\* deactivation takes effect in one step whose condition holds at that very
\* step, and no late write of a rename brings an inactive role back.
ImplementsBook == Book!Spec

=============================================================================
