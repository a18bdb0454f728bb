------------------------------ MODULE RoleBook ------------------------------
(***************************************************************************)
(* What the administration of roles promises: assigning a role and         *)
(* deactivating one are each a single step, a role is assigned only while  *)
(* it is active and deactivated only while nobody holds it.                *)
(***************************************************************************)
CONSTANTS Users, Roles, NoRole, SystemRoles

VARIABLES
    roleState,  \* "absent", "active" or "inactive"
    roleOf      \* the role a user holds, or NoRole

vars == <<roleState, roleOf>>

Create(r) ==
    /\ roleState[r] = "absent"
    /\ roleState' = [roleState EXCEPT ![r] = "active"]
    /\ UNCHANGED roleOf

Assign(u, r) ==
    /\ roleState[r] = "active"
    /\ roleOf' = [roleOf EXCEPT ![u] = r]
    /\ UNCHANGED roleState

\* An account is deleted, and with it its hold on a role.
Release(u) ==
    /\ roleOf' = [roleOf EXCEPT ![u] = NoRole]
    /\ UNCHANGED roleState

Deactivate(r) ==
    /\ r \notin SystemRoles
    /\ roleState[r] = "active"
    /\ \A u \in Users : roleOf[u] # r
    /\ roleState' = [roleState EXCEPT ![r] = "inactive"]
    /\ UNCHANGED roleOf

Init ==
    /\ roleState = [r \in Roles |-> IF r \in SystemRoles THEN "active" ELSE "absent"]
    /\ roleOf = [u \in Users |-> NoRole]

Next ==
    \/ \E r \in Roles : Create(r) \/ Deactivate(r)
    \/ \E u \in Users : Release(u) \/ \E r \in Roles : Assign(u, r)

Spec == Init /\ [][Next]_vars

=============================================================================
