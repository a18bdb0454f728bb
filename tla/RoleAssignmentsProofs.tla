------------------------ MODULE RoleAssignmentsProofs ------------------------
(***************************************************************************)
(* Proofs about RoleAssignments: its type invariant, that no user ever     *)
(* holds an inactive role, and that the handlers implement RoleBook.       *)
(***************************************************************************)
EXTENDS RoleAssignments, TLAPS

LEMMA TypeInit == Init => TypeOK
BY NoOneAssumption, RolesAssumption, UsersAssumption DEF Init, TypeOK, Account, RoleState, Step

\* Ending a session keeps its columns in their domains.
LEMMA EndType ==
    ASSUME TypeOK, NEW w \in Workers, End(w)
    PROVE  /\ roleLock' \in [Roles -> Workers \cup {NoOne}]
           /\ pc' \in [Workers -> Step]
           /\ role' \in [Workers -> Roles \cup {NoRole}]
           /\ user' \in [Workers -> Users \cup {NoOne}]
           /\ loaded' \in [Workers -> Roles \cup {NoRole}]
           /\ believed' \in [Workers -> RoleState]
           /\ \A v \in Workers :
                /\ pc'[v] # "idle" => role'[v] \in Roles
                /\ pc'[v] \in {"assign.role", "assign.write", "bootstrap.write"} => user'[v] \in Users
BY DEF TypeOK, End, Go, Step, RoleState

LEMMA RollbackType == ASSUME TypeOK, NEW w \in Workers, Rollback(w) PROVE TypeOK'
BY EndType DEF Rollback, tables, TypeOK

LEMMA TypeStep == TypeOK /\ [Next]_vars => TypeOK'
<1> SUFFICES ASSUME TypeOK, [Next]_vars
             PROVE  TypeOK'
    OBVIOUS
<1> USE DEF TypeOK, tables
<1>1. ASSUME NEW w \in Workers, Proceed(w)
      PROVE  TypeOK'
  <2>1. CASE AssignRole(w)
    BY <2>1, RollbackType DEF AssignRole, Go, Step
  <2>2. CASE AssignWrite(w)
    <3>1. role[w] \in Roles /\ user[w] \in Users
      BY <2>2 DEF AssignWrite
    <3>2. QED
      BY <2>2, <3>1, EndType DEF AssignWrite
  <2>3. CASE DeactivateLock(w)
    BY <2>3, RollbackType DEF DeactivateLock, Go, Step
  <2>4. CASE DeactivateCheck(w)
    BY <2>4, RollbackType DEF DeactivateCheck, Go, Step
  <2>5. CASE DeactivateWrite(w)
    BY <2>5, EndType DEF DeactivateWrite, RoleState
  <2>6. CASE EditWrite(w)
    BY <2>6, RollbackType DEF EditWrite
  <2>7. CASE BootstrapWrite(w)
    BY <2>7, EndType, RolesAssumption, UsersAssumption DEF BootstrapWrite
  <2>8. QED
    BY <1>1, <2>1, <2>2, <2>3, <2>4, <2>5, <2>6, <2>7 DEF Proceed
<1>2. ASSUME NEW w \in Workers, Arrive(w)
      PROVE  TypeOK'
  <2>1. ASSUME NEW u \in Users, CreateUser(w, u) \/ DeleteUser(w, u)
        PROVE  TypeOK'
    BY <2>1 DEF CreateUser, DeleteUser, Account, session
  <2>2. ASSUME NEW u \in Users, NEW r \in Roles, AssignBegin(w, u, r)
        PROVE  TypeOK'
    BY <2>2 DEF AssignBegin, Go, Step
  <2>3. ASSUME NEW r \in Roles, CreateRole(w, r)
        PROVE  TypeOK'
    BY <2>3 DEF CreateRole, RoleState, session
  <2>4. ASSUME NEW r \in Roles, DeactivateBegin(w, r) \/ EditBegin(w, r)
        PROVE  TypeOK'
    BY <2>4 DEF DeactivateBegin, EditBegin, Go, Step
  <2>5. CASE BootstrapBegin(w)
    BY <2>5, RolesAssumption, UsersAssumption DEF BootstrapBegin, Go, Step
  <2>6. QED
    BY <1>2, <2>1, <2>2, <2>3, <2>4, <2>5 DEF Arrive
<1>3. ASSUME NEW w \in Workers, Crash(w)
      PROVE  TypeOK'
  BY <1>3, RollbackType DEF Crash
<1>4. CASE UNCHANGED vars
  BY <1>4 DEF vars, session
<1>5. QED
  BY <1>1, <1>2, <1>3, <1>4 DEF Next

\* Type correctness of the role handlers, for any number of workers, users and
\* roles (rbac/services.py:75-166, user/routes/users.py:150-174).
THEOREM TypeCorrect == Spec => []TypeOK
<1>1. QED
  BY TypeInit, TypeStep, PTL DEF Spec

-----------------------------------------------------------------------------
(* The inductive invariant *)

\* An assignment and a deactivation hold the row of a role that is active, from
\* their check to their commit.
LockInv ==
    \A w \in Workers :
        pc[w] \in {"assign.write", "deactivate.check", "deactivate.write"} =>
            /\ roleLock[role[w]] = w
            /\ roleState[role[w]] = "active"

\* A deactivation is about a custom role, and once it has passed its check nobody
\* comes to hold the role.
UnheldInv ==
    \A w \in Workers :
        /\ pc[w] \in {"deactivate.lock", "deactivate.check", "deactivate.write"}
              => role[w] \notin SystemRoles
        /\ pc[w] = "deactivate.write" => \A u \in Users : roleOf[u] # role[w]

\* The seeded roles stay active: the start-up binding needs no lock.
SystemInv == \A r \in SystemRoles : roleState[r] = "active"

IInv == TypeOK /\ LockInv /\ UnheldInv /\ SystemInv /\ HeldRolesActive

LEMMA InvInit == Init => IInv
BY TypeInit, RolesAssumption DEF Init, IInv, LockInv, UnheldInv, SystemInv, HeldRolesActive

\* Ending a session moves no other worker and frees only the worker's own locks.
LEMMA EndOthers ==
    ASSUME TypeOK, NEW w \in Workers, End(w), NEW v \in Workers
    PROVE  /\ v = w => pc'[v] = "idle"
           /\ v # w => pc'[v] = pc[v] /\ role'[v] = role[v]
           /\ \A r \in Roles : (roleLock[r] = v /\ v # w) => roleLock'[r] = v
BY NoOneAssumption DEF TypeOK, End, Go

LEMMA RollbackInv == ASSUME IInv, NEW w \in Workers, Rollback(w) PROVE IInv'
<1>1. TypeOK /\ TypeOK'
  BY RollbackType DEF IInv
<1>2. End(w) /\ roleOf' = roleOf /\ roleState' = roleState
  BY DEF Rollback, tables
<1>3. LockInv' /\ UnheldInv'
  BY <1>1, <1>2, EndOthers, SMTT(30) DEF IInv, LockInv, UnheldInv, TypeOK
<1>4. QED
  BY <1>1, <1>2, <1>3 DEF IInv, SystemInv, HeldRolesActive

\* Moving on to another step, or starting on one, with the tables as they are.
LEMMA AdvanceInv ==
    ASSUME IInv, TypeOK', NEW w \in Workers, UNCHANGED tables,
           \A v \in Workers : v # w => pc'[v] = pc[v] /\ role'[v] = role[v],
           \A v \in Workers \ {w}, r \in Roles : roleLock[r] = v => roleLock'[r] = v,
           pc'[w] \in {"assign.write", "deactivate.check", "deactivate.write"} =>
              roleLock'[role'[w]] = w /\ roleState[role'[w]] = "active",
           pc'[w] \in {"deactivate.lock", "deactivate.check", "deactivate.write"} =>
              role'[w] \notin SystemRoles,
           pc'[w] = "deactivate.write" => \A u \in Users : roleOf[u] # role'[w]
    PROVE  IInv'
<1>1. roleOf' = roleOf /\ roleState' = roleState
  BY DEF tables
<1>2. LockInv'
  BY <1>1 DEF IInv, LockInv, TypeOK
<1>3. UnheldInv'
  BY <1>1 DEF IInv, UnheldInv
<1>4. QED
  BY <1>1, <1>2, <1>3 DEF IInv, SystemInv, HeldRolesActive

LEMMA AssignInv ==
    ASSUME IInv, TypeOK', NEW w \in Workers, AssignRole(w) \/ AssignWrite(w)
    PROVE  IInv'
<1>1. TypeOK /\ role[w] \in Roles
  BY DEF IInv, TypeOK, AssignRole, AssignWrite
<1>2. CASE AssignRole(w) /\ Assignable(w)
  BY <1>1, <1>2, AdvanceInv, NoOneAssumption DEF AssignRole, Assignable, Go, TypeOK
<1>3. CASE AssignRole(w) /\ ~Assignable(w)
  BY <1>3, RollbackInv DEF AssignRole
<1>4. CASE AssignWrite(w)
  <2>1. /\ End(w) /\ roleState' = roleState /\ user[w] \in Users
        /\ roleLock[role[w]] = w /\ roleState[role[w]] = "active"
        /\ \A u \in Users : roleOf'[u] = roleOf[u] \/ roleOf'[u] = role[w]
    BY <1>1, <1>4 DEF AssignWrite, IInv, LockInv, TypeOK
  <2>2. LockInv'
    BY <1>1, <2>1, EndOthers DEF IInv, LockInv, TypeOK
  <2>3. UnheldInv'
    <3>1. ASSUME NEW v \in Workers, pc'[v] = "deactivate.write"
          PROVE  v # w /\ role[v] # role[w]
      BY <1>1, <2>1, <3>1, EndOthers DEF IInv, LockInv
    <3>2. QED
      BY <1>1, <2>1, <3>1, EndOthers DEF IInv, UnheldInv
  <2>4. HeldRolesActive'
    BY <2>1 DEF IInv, HeldRolesActive
  <2>5. QED
    BY <2>1, <2>2, <2>3, <2>4 DEF IInv, SystemInv
<1>5. QED
  BY <1>2, <1>3, <1>4

LEMMA DeactivateInv ==
    ASSUME IInv, TypeOK', NEW w \in Workers,
           DeactivateLock(w) \/ DeactivateCheck(w) \/ DeactivateWrite(w)
    PROVE  IInv'
<1>1. TypeOK /\ role[w] \in Roles /\ role[w] \notin SystemRoles
  BY DEF IInv, TypeOK, UnheldInv, DeactivateLock, DeactivateCheck, DeactivateWrite
<1>2. CASE DeactivateLock(w) /\ roleState[role[w]] = "active"
  BY <1>1, <1>2, AdvanceInv, NoOneAssumption DEF DeactivateLock, Go, TypeOK
<1>3. CASE DeactivateCheck(w) /\ ~(\E u \in Users : roleOf[u] = role[w])
  BY <1>1, <1>3, AdvanceInv DEF DeactivateCheck, Go, IInv, LockInv, TypeOK
<1>4. CASE \/ DeactivateLock(w) /\ roleState[role[w]] # "active"
           \/ DeactivateCheck(w) /\ \E u \in Users : roleOf[u] = role[w]
  BY <1>4, RollbackInv DEF DeactivateLock, DeactivateCheck
<1>5. CASE DeactivateWrite(w)
  <2>1. /\ End(w) /\ roleOf' = roleOf
        /\ roleLock[role[w]] = w
        /\ \A u \in Users : roleOf[u] # role[w]
        /\ \A r \in Roles : r # role[w] => roleState'[r] = roleState[r]
    BY <1>1, <1>5 DEF DeactivateWrite, IInv, LockInv, UnheldInv, TypeOK
  <2>2. LockInv'
    <3>1. ASSUME NEW v \in Workers,
                 pc'[v] \in {"assign.write", "deactivate.check", "deactivate.write"}
          PROVE  v # w /\ role[v] \in Roles /\ role[v] # role[w]
      BY <1>1, <2>1, <3>1, EndOthers DEF IInv, LockInv, TypeOK
    <3>2. QED
      BY <1>1, <2>1, <3>1, EndOthers DEF IInv, LockInv, TypeOK
  <2>3. UnheldInv'
    BY <1>1, <2>1, EndOthers DEF IInv, UnheldInv
  <2>4. SystemInv' /\ HeldRolesActive'
    BY <1>1, <2>1, RolesAssumption DEF IInv, SystemInv, HeldRolesActive, TypeOK
  <2>5. QED
    BY <2>2, <2>3, <2>4 DEF IInv
<1>6. QED
  BY <1>2, <1>3, <1>4, <1>5

LEMMA BootstrapInv == ASSUME IInv, TypeOK', NEW w \in Workers, BootstrapWrite(w) PROVE IInv'
<1>1. TypeOK /\ End(w) /\ roleState' = roleState
  BY DEF IInv, BootstrapWrite
<1>2. \A u \in Users : roleOf'[u] = roleOf[u] \/ roleOf'[u] = SuperAdmin
  BY <1>1 DEF BootstrapWrite, TypeOK
<1>3. LockInv'
  BY <1>1, EndOthers DEF IInv, LockInv, TypeOK
<1>4. UnheldInv'
  BY <1>1, <1>2, RolesAssumption, EndOthers DEF IInv, UnheldInv
<1>5. HeldRolesActive'
  BY <1>1, <1>2, RolesAssumption DEF IInv, HeldRolesActive, SystemInv
<1>6. QED
  BY <1>1, <1>3, <1>4, <1>5 DEF IInv, SystemInv

LEMMA ArriveInv == ASSUME IInv, TypeOK', NEW w \in Workers, Arrive(w) PROVE IInv'
<1>1. TypeOK
  BY DEF IInv
<1>2. ASSUME NEW u \in Users, CreateUser(w, u)
      PROVE  IInv'
  BY <1>1, <1>2 DEF CreateUser, session, IInv, LockInv, UnheldInv, SystemInv, HeldRolesActive
<1>3. ASSUME NEW u \in Users, DeleteUser(w, u)
      PROVE  IInv'
  <2>1. \A t \in Users : roleOf'[t] = roleOf[t] \/ roleOf'[t] = NoRole
    BY <1>1, <1>3 DEF DeleteUser, TypeOK
  <2>2. UnheldInv'
    BY <1>1, <1>3, <2>1, RolesAssumption DEF DeleteUser, session, IInv, UnheldInv, TypeOK
  <2>3. HeldRolesActive'
    BY <1>3, <2>1 DEF DeleteUser, IInv, HeldRolesActive
  <2>4. QED
    BY <1>1, <1>3, <2>2, <2>3 DEF DeleteUser, session, IInv, LockInv, SystemInv
<1>4. ASSUME NEW u \in Users, NEW r \in Roles, AssignBegin(w, u, r)
      PROVE  IInv'
  BY <1>1, <1>4, AdvanceInv DEF AssignBegin, Go, TypeOK
<1>5. ASSUME NEW r \in Roles, CreateRole(w, r)
      PROVE  IInv'
  <2>1. \A q \in Roles : roleState[q] = "active" => roleState'[q] = "active"
    BY <1>1, <1>5 DEF CreateRole, TypeOK
  <2>2. QED
    BY <1>1, <1>5, <2>1, RolesAssumption
       DEF CreateRole, session, IInv, LockInv, UnheldInv, SystemInv, HeldRolesActive, TypeOK
<1>6. ASSUME NEW r \in Roles, DeactivateBegin(w, r) \/ EditBegin(w, r)
      PROVE  IInv'
  BY <1>1, <1>6, AdvanceInv DEF DeactivateBegin, EditBegin, Go, TypeOK
<1>7. CASE BootstrapBegin(w)
  BY <1>1, <1>7, AdvanceInv DEF BootstrapBegin, Go, TypeOK
<1>8. QED
  BY <1>2, <1>3, <1>4, <1>5, <1>6, <1>7 DEF Arrive

LEMMA InvStep == IInv /\ [Next]_vars => IInv'
<1> SUFFICES ASSUME IInv, [Next]_vars
             PROVE  IInv'
    OBVIOUS
<1>1. TypeOK'
  BY TypeStep DEF IInv
<1>2. ASSUME NEW w \in Workers, Proceed(w)
      PROVE  IInv'
  BY <1>1, <1>2, AssignInv, DeactivateInv, BootstrapInv, RollbackInv DEF Proceed, EditWrite
<1>3. ASSUME NEW w \in Workers, Arrive(w) \/ Crash(w)
      PROVE  IInv'
  BY <1>1, <1>3, ArriveInv, RollbackInv DEF Crash
<1>4. CASE UNCHANGED vars
  BY <1>1, <1>4 DEF vars, tables, session, IInv, LockInv, UnheldInv, SystemInv, HeldRolesActive
<1>5. QED
  BY <1>2, <1>3, <1>4 DEF Next

\* The inductive invariant holds in every reachable state of any instance.
THEOREM InvHolds == Spec => []IInv
<1>1. QED
  BY InvInit, InvStep, PTL DEF Spec

\* No user holds an inactive role, however assignments, deactivations, deletions
\* and the start-up binding interleave (rbac/services.py:153-166, users.py:158-172).
THEOREM HeldRolesActiveHolds == Spec => []HeldRolesActive
<1>1. IInv => HeldRolesActive
  BY DEF IInv
<1>2. QED
  BY <1>1, InvHolds, PTL

-----------------------------------------------------------------------------
(* Implementation of RoleBook *)

\* Each step of the handlers is a step of the book, or leaves it alone.
LEMMA BookStep == IInv /\ [Next]_vars => [Book!Next]_(Book!vars)
<1> SUFFICES ASSUME IInv, [Next]_vars
             PROVE  Book!Next \/ UNCHANGED <<roleState, roleOf>>
    BY DEF Book!vars
<1> USE DEF tables, session, Rollback
<1>1. TypeOK
  BY DEF IInv
<1>2. ASSUME NEW w \in Workers, AssignWrite(w)
      PROVE  Book!Next \/ UNCHANGED <<roleState, roleOf>>
  <2>1. user[w] \in Users /\ role[w] \in Roles /\ roleState[role[w]] = "active"
    BY <1>1, <1>2 DEF AssignWrite, TypeOK, IInv, LockInv
  <2>2. Book!Assign(user[w], role[w]) \/ UNCHANGED <<roleState, roleOf>>
    BY <1>2, <2>1 DEF AssignWrite, Book!Assign
  <2>3. QED
    BY <2>1, <2>2 DEF Book!Next
<1>3. ASSUME NEW w \in Workers, DeactivateWrite(w)
      PROVE  Book!Next \/ UNCHANGED <<roleState, roleOf>>
  <2>1. role[w] \in Roles
    BY <1>1, <1>3 DEF DeactivateWrite, TypeOK
  <2>2. Book!Deactivate(role[w])
    BY <1>3 DEF DeactivateWrite, IInv, LockInv, UnheldInv, Book!Deactivate
  <2>3. QED
    BY <2>1, <2>2 DEF Book!Next
<1>4. ASSUME NEW w \in Workers, BootstrapWrite(w)
      PROVE  Book!Next \/ UNCHANGED <<roleState, roleOf>>
  <2>1. Book!Assign(FirstSuperuser, SuperAdmin) \/ UNCHANGED <<roleState, roleOf>>
    BY <1>4, RolesAssumption DEF BootstrapWrite, IInv, SystemInv, Book!Assign
  <2>2. QED
    BY <2>1, RolesAssumption, UsersAssumption DEF Book!Next
<1>5. ASSUME NEW w \in Workers, AssignRole(w) \/ DeactivateLock(w) \/ DeactivateCheck(w)
                                 \/ EditWrite(w) \/ Crash(w)
      PROVE  UNCHANGED <<roleState, roleOf>>
  BY <1>5 DEF AssignRole, DeactivateLock, DeactivateCheck, EditWrite, Crash
<1>6. ASSUME NEW w \in Workers, Arrive(w)
      PROVE  Book!Next \/ UNCHANGED <<roleState, roleOf>>
  <2>1. ASSUME NEW r \in Roles, CreateRole(w, r)
        PROVE  Book!Next
    BY <2>1 DEF CreateRole, Book!Create, Book!Next
  <2>2. ASSUME NEW u \in Users, DeleteUser(w, u)
        PROVE  Book!Next
    BY <2>2 DEF DeleteUser, Book!Release, Book!Next
  <2>3. ASSUME NEW u \in Users, NEW r \in Roles,
               \/ CreateUser(w, u) \/ AssignBegin(w, u, r)
               \/ DeactivateBegin(w, r) \/ EditBegin(w, r) \/ BootstrapBegin(w)
        PROVE  UNCHANGED <<roleState, roleOf>>
    BY <2>3 DEF CreateUser, AssignBegin, DeactivateBegin, EditBegin, BootstrapBegin
  <2>4. QED
    BY <1>6, <2>1, <2>2, <2>3, RolesAssumption, UsersAssumption DEF Arrive
<1>7. QED
  BY <1>2, <1>3, <1>4, <1>5, <1>6 DEF Next, Proceed, vars

\* The handlers implement the atomic book of roles, for any number of workers,
\* users and roles (rbac/services.py:153-166, users.py:150-174).
THEOREM ImplementsBookHolds == Spec => ImplementsBook
<1>1. Init => Book!Init
  BY DEF Init, Book!Init
<1>2. QED
  BY <1>1, BookStep, InvHolds, PTL DEF Spec, ImplementsBook, Book!Spec

-----------------------------------------------------------------------------
(* Locks *)

Holding == {"assign.write", "deactivate.check", "deactivate.write"}

\* A role's row lock belongs to a handler that is under way and took it for that role:
\* none outlives its transaction.
HeldInv ==
    \A r \in Roles : roleLock[r] # NoOne =>
        pc[roleLock[r]] \in Holding /\ role[roleLock[r]] = r

\* The next statement of w waits for a role that v has locked.
WaitsFor(w, v) ==
    \/ pc[w] \in {"assign.role", "deactivate.lock", "edit.write"} /\ roleLock[role[w]] = v
    \/ pc[w] = "bootstrap.write" /\ roleLock[SuperAdmin] = v

\* Whoever is waited for is under way and waits for nobody.
NoCircularWait ==
    \A w, v \in Workers : WaitsFor(w, v) =>
        pc[v] # "idle" /\ ~(\E u \in Workers : WaitsFor(v, u))

LEMMA HeldStep == TypeOK /\ HeldInv /\ [Next]_vars => HeldInv'
<1> SUFFICES ASSUME TypeOK, HeldInv, [Next]_vars
             PROVE  HeldInv'
    OBVIOUS
<1> USE NoOneAssumption DEF Holding
<1>1. ASSUME NEW w \in Workers, End(w)
      PROVE  HeldInv'
  BY <1>1 DEF End, Go, HeldInv, TypeOK
<1>2. ASSUME UNCHANGED session
      PROVE  HeldInv'
  BY <1>2 DEF session, HeldInv
<1>3. ASSUME NEW w \in Workers, AssignRole(w) \/ DeactivateLock(w), ~End(w)
      PROVE  HeldInv'
  <2>1. /\ \A v \in Workers : v # w => pc'[v] = pc[v]
        /\ pc'[w] \in Holding /\ role' = role
        /\ \A r \in Roles : roleLock'[r] = IF r = role[w] THEN w ELSE roleLock[r]
        /\ pc[w] \notin Holding
    BY <1>3 DEF AssignRole, DeactivateLock, Rollback, Go, TypeOK
  <2>2. QED
    BY <2>1 DEF HeldInv, TypeOK
<1>4. ASSUME NEW w \in Workers, DeactivateCheck(w), ~End(w)
      PROVE  HeldInv'
  BY <1>4 DEF DeactivateCheck, Rollback, Go, HeldInv, TypeOK
<1>5. ASSUME NEW w \in Workers, Proceed(w)
      PROVE  HeldInv'
  BY <1>1, <1>3, <1>4, <1>5 DEF Proceed, AssignWrite, DeactivateWrite, EditWrite,
     BootstrapWrite, Rollback
<1>6. ASSUME NEW w \in Workers, pc[w] = "idle", roleLock' = roleLock,
             \A v \in Workers : v # w => pc'[v] = pc[v] /\ role'[v] = role[v]
      PROVE  HeldInv'
  BY <1>6 DEF HeldInv, TypeOK
<1>7. ASSUME NEW w \in Workers, Arrive(w)
      PROVE  HeldInv'
  <2>1. ASSUME NEW u \in Users, NEW r \in Roles, AssignBegin(w, u, r)
        PROVE  HeldInv'
    BY <1>6, <2>1 DEF AssignBegin, Go, TypeOK
  <2>2. ASSUME NEW r \in Roles, DeactivateBegin(w, r) \/ EditBegin(w, r)
        PROVE  HeldInv'
    BY <1>6, <2>2 DEF DeactivateBegin, EditBegin, Go, TypeOK
  <2>3. CASE BootstrapBegin(w)
    BY <1>6, <2>3 DEF BootstrapBegin, Go, TypeOK
  <2>4. QED
    BY <1>2, <1>7, <2>1, <2>2, <2>3 DEF Arrive, CreateUser, DeleteUser, CreateRole
<1>8. ASSUME NEW w \in Workers, Crash(w)
      PROVE  HeldInv'
  BY <1>1, <1>8 DEF Crash, Rollback
<1>9. CASE UNCHANGED vars
  BY <1>2, <1>9 DEF vars
<1>10. QED
  BY <1>5, <1>7, <1>8, <1>9 DEF Next

\* The safety behind HandlersEnd: a handler that waits for a role waits for one that
\* holds it, and that one has only its check and its write before it.  No lock is left
\* behind by a handler that ended or crashed (rbac/services.py:83-166, users.py:158-172).
THEOREM NoCircularWaitHolds == Spec => []NoCircularWait
<1>1. Init => HeldInv
  BY DEF Init, HeldInv
<1>2. TypeOK /\ HeldInv => NoCircularWait
  <2> SUFFICES ASSUME TypeOK, HeldInv, NEW w \in Workers, NEW v \in Workers, WaitsFor(w, v)
               PROVE  pc[v] \in Holding
      BY DEF NoCircularWait, WaitsFor, Holding
  <2>1. QED
    BY NoOneAssumption, RolesAssumption DEF WaitsFor, HeldInv, TypeOK
<1>3. TypeOK /\ HeldInv /\ [Next]_vars => HeldInv'
  BY HeldStep
<1>4. QED
  BY <1>1, <1>2, <1>3, TypeCorrect, PTL DEF Spec

-----------------------------------------------------------------------------
(* What a step may never do *)

\* A role that was deactivated stays so, whatever handlers loaded it before.
StaysInactive ==
    [][\A r \in Roles : roleState[r] = "inactive" => roleState'[r] = "inactive"]_vars

\* Only the request of a superuser gives a system role, and the start-up binding gives
\* the first superuser its own.
SystemRolesGuarded ==
    [][\A u \in Users : roleOf'[u] # roleOf[u] /\ roleOf'[u] \in SystemRoles =>
          \/ \E w \in Superusers : pc[w] = "assign.write" /\ user[w] = u /\ role[w] = roleOf'[u]
          \/ u = FirstSuperuser /\ roleOf'[u] = SuperAdmin]_vars

\* The role of an assignment that passed its check is a custom one, or its worker a superuser.
GrantInv ==
    \A w \in Workers : pc[w] = "assign.write" /\ role[w] \in SystemRoles => w \in Superusers

LEMMA GrantStep == TypeOK /\ GrantInv /\ [Next]_vars => GrantInv'
<1> SUFFICES ASSUME TypeOK, GrantInv, [Next]_vars, NEW w \in Workers,
                    pc'[w] = "assign.write", role'[w] \in SystemRoles
             PROVE  w \in Superusers
    BY DEF GrantInv
<1>1. CASE pc'[w] = pc[w] /\ role'[w] = role[w]
  BY <1>1 DEF GrantInv
<1>2. CASE AssignRole(w)
  BY <1>2 DEF AssignRole, Assignable, Rollback, End, Go, TypeOK
<1>3. ASSUME NEW v \in Workers, Arrive(v)
      PROVE  pc'[w] = pc[w] /\ role'[w] = role[w]
  BY <1>3 DEF Arrive, CreateUser, DeleteUser, AssignBegin, CreateRole, DeactivateBegin,
     EditBegin, BootstrapBegin, Go, session, TypeOK
<1>4. ASSUME NEW v \in Workers, Crash(v) \/ Proceed(v), ~AssignRole(w)
      PROVE  pc'[w] = pc[w] /\ role'[w] = role[w]
  <2>1. ASSUME End(v)
        PROVE  pc'[w] = pc[w] /\ role'[w] = role[w]
    BY <2>1 DEF End, Go, TypeOK
  <2>2. ASSUME ~End(v)
        PROVE  pc'[w] = pc[w] /\ role'[w] = role[w]
    BY <1>4, <2>2 DEF Crash, Proceed, AssignRole, AssignWrite, DeactivateLock, DeactivateCheck,
       DeactivateWrite, EditWrite, BootstrapWrite, Rollback, Go, TypeOK
  <2>3. QED
    BY <2>1, <2>2
<1>5. CASE UNCHANGED vars
  BY <1>1, <1>5 DEF vars, session
<1>6. QED
  BY <1>1, <1>2, <1>3, <1>4, <1>5 DEF Next

\* No late write of a rename, and no assignment, brings a deactivated role back
\* (rbac/services.py:83-102, 153-166).
THEOREM StaysInactiveHolds == Spec => StaysInactive
<1>1. TypeOK /\ [Book!Next]_(Book!vars) =>
        [\A r \in Roles : roleState[r] = "inactive" => roleState'[r] = "inactive"]_vars
  <2> SUFFICES ASSUME TypeOK, [Book!Next]_(Book!vars), NEW r \in Roles, roleState[r] = "inactive"
               PROVE  roleState'[r] = "inactive"
      OBVIOUS
  <2>1. CASE Book!Next
    BY <2>1 DEF Book!Next, Book!Create, Book!Assign, Book!Release, Book!Deactivate, TypeOK
  <2>2. CASE UNCHANGED Book!vars
    BY <2>2 DEF Book!vars
  <2>3. QED
    BY <2>1, <2>2
<1>2. QED
  BY <1>1, BookStep, InvHolds, TypeCorrect, PTL DEF Spec, StaysInactive

\* However an assignment's check and write are interleaved with other handlers, nobody
\* but a superuser hands out a system role (user/routes/users.py:158-172, database.py:52-60).
THEOREM SystemRolesGuardedHolds == Spec => SystemRolesGuarded
<1>1. Init => GrantInv
  BY DEF Init, GrantInv
<1>2. TypeOK /\ GrantInv /\ [Next]_vars =>
        [\A u \in Users : roleOf'[u] # roleOf[u] /\ roleOf'[u] \in SystemRoles =>
          \/ \E w \in Superusers : pc[w] = "assign.write" /\ user[w] = u /\ role[w] = roleOf'[u]
          \/ u = FirstSuperuser /\ roleOf'[u] = SuperAdmin]_vars
  <2> SUFFICES ASSUME TypeOK, GrantInv, Next, NEW u \in Users,
                      roleOf'[u] # roleOf[u], roleOf'[u] \in SystemRoles
               PROVE  \/ \E w \in Superusers :
                            pc[w] = "assign.write" /\ user[w] = u /\ role[w] = roleOf'[u]
                      \/ u = FirstSuperuser /\ roleOf'[u] = SuperAdmin
      BY DEF vars, tables
  <2>1. PICK w \in Workers : Arrive(w) \/ Proceed(w) \/ Crash(w)
    BY DEF Next
  <2>2. CASE AssignWrite(w)
    <3>1. pc[w] = "assign.write" /\ user[w] = u /\ role[w] = roleOf'[u]
      BY <2>2 DEF AssignWrite, TypeOK
    <3>2. w \in Superusers
      BY <3>1 DEF GrantInv
    <3>3. QED
      BY <3>1, <3>2
  <2>3. CASE BootstrapWrite(w)
    BY <2>3 DEF BootstrapWrite, TypeOK
  <2>4. CASE ~AssignWrite(w) /\ ~BootstrapWrite(w)
    BY <2>1, <2>4, RolesAssumption DEF Arrive, Proceed, Crash, CreateUser, DeleteUser, AssignBegin,
       CreateRole, DeactivateBegin, EditBegin, BootstrapBegin, AssignRole, DeactivateLock,
       DeactivateCheck, DeactivateWrite, EditWrite, Rollback, tables, TypeOK
  <2>5. QED
    BY <2>2, <2>3, <2>4
<1>3. TypeOK /\ GrantInv /\ [Next]_vars => GrantInv'
  BY GrantStep
<1>4. QED
  BY <1>1, <1>2, <1>3, TypeCorrect, PTL DEF Spec, SystemRolesGuarded

=============================================================================
