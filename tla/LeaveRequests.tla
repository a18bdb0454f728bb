---------------------------- MODULE LeaveRequests ----------------------------
(***************************************************************************)
(* The leave request handlers of app/leave/services.py, run concurrently.  *)
(*                                                                         *)
(* The API runs as several worker processes over one PostgreSQL database   *)
(* at READ COMMITTED.  Each HTTP request is one transaction: its reads see  *)
(* what is committed when they run, its writes become visible together     *)
(* when it commits, SELECT ... FOR UPDATE holds a row until then, and a    *)
(* plain UPDATE waits for the holder of the row and then overwrites it.    *)
(*                                                                         *)
(* A handler is a chain of steps of the worker that runs it, one step per  *)
(* statement whose result can be stale by the time it is used.  A request  *)
(* identifier stands for one submission: its payload is a constant.        *)
(***************************************************************************)
EXTENDS Integers, FiniteSets, FiniteSetsExt

CONSTANTS
    Workers,      \* the requests in flight, one transaction each
    NoOne,        \* owner of a row lock nobody holds
    Requests,     \* leave_request rows that may come to exist
    Employees,    \* employee_records rows
    Policies,     \* leave_policy rows
    Years,        \* calendar years, consecutive integers
    Handles,      \* [Workers -> SUBSET Handlers]: the workload of each worker
    EmployeeOf, PolicyOf, DateStart, DateEnd, RequestedHours, \* payload of a request
    NoHours,      \* requested_hours is None
    Workdays,     \* the Monday-Friday dates
    YearOf,       \* the calendar year of a date
    Eligible,     \* pairs <<employee, policy>> that _check_eligibility accepts
    Entitlement,  \* initial grant of every ledger, in hundredths of a day
    Deltas,       \* amounts of manual adjustments, in hundredths of a day
    BalanceBound  \* bound on the sum of grants and adjustments of a ledger

Handlers == {"submit", "approve", "reject", "cancel", "deactivate", "update_policy",
             "adjust", "delete_employee"}

ASSUME NoOneAssumption == NoOne \notin Workers
ASSUME WorkloadAssumption == Handles \in [Workers -> SUBSET Handlers]
ASSUME YearsAssumption == Years \subseteq Nat
\* A table holds finitely many rows; datetime.date ends at the year 9999.
ASSUME FiniteAssumption == IsFiniteSet(Requests) /\ IsFiniteSet(Years)
ASSUME PayloadAssumption ==
    /\ EmployeeOf \in [Requests -> Employees]
    /\ PolicyOf \in [Requests -> Policies]
    /\ DateStart \in [Requests -> Int]
    /\ DateEnd \in [Requests -> Int]
    /\ \A r \in Requests : YearOf[DateStart[r]] \in Years
    /\ \A r \in Requests : RequestedHours[r] # NoHours => RequestedHours[r] \in Int
ASSUME AmountAssumption ==
    /\ Entitlement \in Nat /\ BalanceBound \in Nat
    /\ Entitlement <= BalanceBound
    /\ Deltas \subseteq Int

Status == {"pending", "approved", "rejected", "cancelled"}
EventType == {"created", "approved", "rejected", "cancelled", "noop"}
PolicyState == {"active", "inactive", "deleted"}

\* Where a worker is in its handler; "idle" is between two HTTP requests.
Step == {"idle", "submit.policy", "submit.overlap", "submit.insert",
         "approve.balance", "approve.write", "reject.write", "cancel.write",
         "deactivate.write"}

VARIABLES
    status,       \* leave_request.status, "absent" before the row exists
    trail,        \* kinds of leave_request_event rows of a request
    consumed,     \* number of CONSUMED ledger entries that refer to a request
    reversed,     \* number of REVERSAL entries of a request, by leave_year
    granted,      \* sum of the other ledger entries of an employee, policy, year
    policy,       \* is_active and is_deleted of a policy
    employed,     \* employees whose row is not soft-deleted
    today,        \* date.today().year
    requestLock,  \* worker holding a leave_request row FOR UPDATE
    employeeLock, \* worker holding an employee_records row FOR UPDATE
    pc,           \* the next step of each worker
    on,           \* the row a worker's handler is about
    seen          \* the status a plain read returned to reject or cancel

tables == <<status, trail, consumed, reversed, granted, policy, employed, today>>
session == <<requestLock, employeeLock, pc, on, seen>>
vars == <<tables, session>>

-----------------------------------------------------------------------------
(* Reads *)

Live(r) == status[r] \in {"pending", "approved"}

\* The date ranges of two requests share a day.
Intersect(q, r) == DateStart[q] <= DateEnd[r] /\ DateEnd[q] >= DateStart[r]

\* Slip: a check that forgets the approved requests.
OverlappingPending(r) ==
    \E q \in Requests : status[q] = "pending" /\ EmployeeOf[q] = EmployeeOf[r] /\ Intersect(q, r)

\* A live request of the same employee shares a day with r.
Overlapping(r) ==
    \E q \in Requests : /\ Live(q)
                        /\ EmployeeOf[q] = EmployeeOf[r]
                        /\ Intersect(q, r)

\* total_days_requested, in hundredths of a day.  The default schedule holds
\* the workdays of the first day's year only.
TotalDays(r) ==
    IF RequestedHours[r] # NoHours
    THEN (25 * RequestedHours[r] + 1) \div 2
    ELSE 100 * Cardinality({d \in DateStart[r] .. DateEnd[r] :
                              d \in Workdays /\ YearOf[d] = YearOf[DateStart[r]]})

RequestsOf(e, p) == {r \in Requests : EmployeeOf[r] = e /\ PolicyOf[r] = p}

LedgerYear(r) == YearOf[DateStart[r]]

Remaining(e, p, y) ==
    LET debits == MapThenSumSet(LAMBDA r : consumed[r] * TotalDays(r),
                                {r \in RequestsOf(e, p) : LedgerYear(r) = y})
        credits == MapThenSumSet(LAMBDA r : reversed[r][y] * TotalDays(r),
                                 RequestsOf(e, p))
    IN  granted[e][p][y] - (debits - credits)

\* Slip: any balance at all will do.
CoveredAtAll(r) == Remaining(EmployeeOf[r], PolicyOf[r], LedgerYear(r)) > 0

Covered(r) == Remaining(EmployeeOf[r], PolicyOf[r], LedgerYear(r)) >= TotalDays(r)

\* Slip: a closed request may be approved after all.
AllowedFromClosed(target) ==
    IF target = "approved" THEN {"pending", "rejected", "cancelled"} ELSE {"pending", "approved"}

\* validate_state_transition
AllowedFrom(target) ==
    CASE target = "approved"  -> {"pending"}
      [] target = "rejected"  -> {"pending"}
      [] target = "cancelled" -> {"pending", "approved"}

-----------------------------------------------------------------------------
(* Sessions *)

\* Slip: the handler does not keep the row it is about.
BeginRowless(w, handler, step, row) ==
    /\ pc[w] = "idle" /\ handler \in Handles[w]
    /\ pc' = [pc EXCEPT ![w] = step]
    /\ UNCHANGED on

Begin(w, handler, step, row) ==
    /\ pc[w] = "idle"
    /\ handler \in Handles[w]
    /\ pc' = [pc EXCEPT ![w] = step]
    /\ on' = [on EXCEPT ![w] = row]

Advance(w, step) ==
    /\ pc' = [pc EXCEPT ![w] = step]
    /\ UNCHANGED <<requestLock, employeeLock, on, seen>>

\* Slip: the connection goes back to the pool with its transaction open.
EndLeaking(w) ==
    /\ pc' = [pc EXCEPT ![w] = "idle"]
    /\ on' = [on EXCEPT ![w] = NoOne]
    /\ UNCHANGED <<seen, requestLock, employeeLock>>

\* COMMIT or ROLLBACK: the row locks go and the worker is free.
End(w) ==
    /\ pc' = [pc EXCEPT ![w] = "idle"]
    /\ on' = [on EXCEPT ![w] = NoOne]
    /\ seen' = [seen EXCEPT ![w] = "absent"]
    /\ requestLock' = [r \in Requests |-> IF requestLock[r] = w THEN NoOne ELSE requestLock[r]]
    /\ employeeLock' = [e \in Employees |-> IF employeeLock[e] = w THEN NoOne ELSE employeeLock[e]]

Rollback(w) == End(w) /\ UNCHANGED tables

Record(r, event) == trail' = [trail EXCEPT ![r] = @ \cup {event}]

-----------------------------------------------------------------------------
(* submit_request *)

\* Slip: the employee is read without FOR UPDATE.
SubmitBeginUnlocked(w, r) ==
    /\ status[r] = "absent" /\ EmployeeOf[r] \in employed
    /\ Begin(w, "submit", "submit.policy", r)
    /\ UNCHANGED <<tables, requestLock, employeeLock, seen>>

\* SELECT the employee FOR UPDATE; 404 when it is deleted.
SubmitBegin(w, r) ==
    /\ status[r] = "absent"
    /\ EmployeeOf[r] \in employed
    /\ employeeLock[EmployeeOf[r]] = NoOne
    /\ Begin(w, "submit", "submit.policy", r)
    /\ employeeLock' = [employeeLock EXCEPT ![EmployeeOf[r]] = w]
    /\ UNCHANGED <<tables, requestLock, seen>>

\* Read the policy without a lock; 404 or 403 ends the handler.
SubmitPolicy(w) ==
    /\ pc[w] = "submit.policy"
    /\ LET r == on[w]
       IN  IF policy[PolicyOf[r]] = "active" /\ <<EmployeeOf[r], PolicyOf[r]>> \in Eligible
           THEN Advance(w, "submit.overlap") /\ UNCHANGED tables
           ELSE Rollback(w)

\* check_overlapping_requests, then the order of the dates; 422 ends the handler.
SubmitOverlap(w) ==
    /\ pc[w] = "submit.overlap"
    /\ IF ~Overlapping(on[w]) /\ DateStart[on[w]] <= DateEnd[on[w]]
       THEN Advance(w, "submit.insert") /\ UNCHANGED tables
       ELSE Rollback(w)

SubmitInsert(w) ==
    /\ pc[w] = "submit.insert"
    /\ status' = [status EXCEPT ![on[w]] = "pending"]
    /\ Record(on[w], "created")
    /\ End(w)
    /\ UNCHANGED <<consumed, reversed, granted, policy, employed, today>>

-----------------------------------------------------------------------------
(* approve_request *)

\* Slip: the request is read without FOR UPDATE.
ApproveBeginUnlocked(w, r) ==
    /\ status[r] \in AllowedFrom("approved")
    /\ Begin(w, "approve", "approve.balance", r)
    /\ UNCHANGED <<tables, requestLock, employeeLock, seen>>

\* SELECT the request FOR UPDATE and validate the transition.
ApproveBegin(w, r) ==
    /\ status[r] \in AllowedFrom("approved")
    /\ requestLock[r] = NoOne
    /\ Begin(w, "approve", "approve.balance", r)
    /\ requestLock' = [requestLock EXCEPT ![r] = w]
    /\ UNCHANGED <<tables, employeeLock, seen>>

\* Already approved: a noop event and nothing else.
ApproveAgain(w, r) ==
    /\ pc[w] = "idle"
    /\ "approve" \in Handles[w]
    /\ status[r] = "approved"
    /\ requestLock[r] = NoOne
    /\ Record(r, "noop")
    /\ UNCHANGED <<status, consumed, reversed, granted, policy, employed, today, session>>

\* get_employee_ledger, without a lock on the ledger or the employee; 422 when short.
ApproveBalance(w) ==
    /\ pc[w] = "approve.balance"
    /\ IF Covered(on[w])
       THEN Advance(w, "approve.write") /\ UNCHANGED tables
       ELSE Rollback(w)

\* The ledger row's foreign key needs a share of the employee row, which a
\* submission for that employee holds FOR UPDATE.
ApproveWrite(w) ==
    /\ pc[w] = "approve.write"
    /\ employeeLock[EmployeeOf[on[w]]] = NoOne
    /\ consumed' = [consumed EXCEPT ![on[w]] = @ + 1]
    /\ status' = [status EXCEPT ![on[w]] = "approved"]
    /\ Record(on[w], "approved")
    /\ End(w)
    /\ UNCHANGED <<reversed, granted, policy, employed, today>>

-----------------------------------------------------------------------------
(* reject_request and cancel_request: no row lock between read and write *)

RejectBegin(w, r) ==
    /\ status[r] \in AllowedFrom("rejected")
    /\ Begin(w, "reject", "reject.write", r)
    /\ seen' = [seen EXCEPT ![w] = status[r]]
    /\ UNCHANGED <<tables, requestLock, employeeLock>>

RejectWrite(w) ==
    /\ pc[w] = "reject.write"
    /\ requestLock[on[w]] = NoOne
    /\ status' = [status EXCEPT ![on[w]] = "rejected"]
    /\ Record(on[w], "rejected")
    /\ End(w)
    /\ UNCHANGED <<consumed, reversed, granted, policy, employed, today>>

CancelBegin(w, r) ==
    /\ status[r] \in AllowedFrom("cancelled")
    /\ Begin(w, "cancel", "cancel.write", r)
    /\ seen' = [seen EXCEPT ![w] = status[r]]
    /\ UNCHANGED <<tables, requestLock, employeeLock>>

\* Slip: every cancellation credits.
WasLive(w) == seen[w] \in {"pending", "approved"}

\* was_approved: what the plain read returned, not what the row holds now.
WasApproved(w) == seen[w] = "approved"

\* The reversal goes to the current year, whatever the year of the request.
CancelWrite(w) ==
    /\ pc[w] = "cancel.write"
    /\ requestLock[on[w]] = NoOne
    /\ IF WasApproved(w)
       THEN /\ employeeLock[EmployeeOf[on[w]]] = NoOne
            /\ reversed' = [reversed EXCEPT ![on[w]][today] = @ + 1]
       ELSE UNCHANGED reversed
    /\ status' = [status EXCEPT ![on[w]] = "cancelled"]
    /\ Record(on[w], "cancelled")
    /\ End(w)
    /\ UNCHANGED <<consumed, granted, policy, employed, today>>

-----------------------------------------------------------------------------
(* Policies, adjustments, employees, the calendar *)

\* No pending or approved request of the policy, and the policy is not deleted.
DeactivateBegin(w, p) ==
    /\ \A r \in Requests : PolicyOf[r] = p => ~Live(r)
    /\ policy[p] # "deleted"
    /\ Begin(w, "deactivate", "deactivate.write", p)
    /\ UNCHANGED <<tables, requestLock, employeeLock, seen>>

DeactivateWrite(w) ==
    /\ pc[w] = "deactivate.write"
    /\ policy' = [policy EXCEPT ![on[w]] = "deleted"]
    /\ End(w)
    /\ UNCHANGED <<status, trail, consumed, reversed, granted, employed, today>>

\* PATCH of is_active; no look at the requests of the policy.
UpdatePolicy(w, p, state) ==
    /\ pc[w] = "idle"
    /\ "update_policy" \in Handles[w]
    /\ policy[p] # "deleted"
    /\ policy' = [policy EXCEPT ![p] = state]
    /\ UNCHANGED <<status, trail, consumed, reversed, granted, employed, today, session>>

\* apply_manual_adjustment: one ledger entry of any sign.
AdjustBalance(w, e, p, y, delta) ==
    /\ pc[w] = "idle"
    /\ "adjust" \in Handles[w]
    /\ policy[p] # "deleted"
    /\ employeeLock[e] = NoOne
    /\ granted[e][p][y] + delta \in -BalanceBound .. BalanceBound
    /\ granted' = [granted EXCEPT ![e][p][y] = @ + delta]
    /\ UNCHANGED <<status, trail, consumed, reversed, policy, employed, today, session>>

\* Soft delete of an employee: its UPDATE waits for a submission holding the row.
DeleteEmployee(w, e) ==
    /\ pc[w] = "idle"
    /\ "delete_employee" \in Handles[w]
    /\ e \in employed
    /\ employeeLock[e] = NoOne
    /\ employed' = employed \ {e}
    /\ UNCHANGED <<status, trail, consumed, reversed, granted, policy, today, session>>

NewYear ==
    /\ today + 1 \in Years
    /\ today' = today + 1
    /\ UNCHANGED <<status, trail, consumed, reversed, granted, policy, employed, session>>

\* The worker process dies or the request fails: PostgreSQL rolls back.
Crash(w) == pc[w] # "idle" /\ Rollback(w)

-----------------------------------------------------------------------------

Init ==
    /\ status = [r \in Requests |-> "absent"]
    /\ trail = [r \in Requests |-> {}]
    /\ consumed = [r \in Requests |-> 0]
    /\ reversed = [r \in Requests |-> [y \in Years |-> 0]]
    /\ granted = [e \in Employees |-> [p \in Policies |-> [y \in Years |-> Entitlement]]]
    /\ policy = [p \in Policies |-> "active"]
    /\ employed = Employees
    /\ today \in Years
    /\ requestLock = [r \in Requests |-> NoOne]
    /\ employeeLock = [e \in Employees |-> NoOne]
    /\ pc = [w \in Workers |-> "idle"]
    /\ on = [w \in Workers |-> NoOne]
    /\ seen = [w \in Workers |-> "absent"]

\* A handler goes on with its next statement.
Proceed(w) ==
    \/ SubmitPolicy(w) \/ SubmitOverlap(w) \/ SubmitInsert(w)
    \/ ApproveBalance(w) \/ ApproveWrite(w)
    \/ RejectWrite(w) \/ CancelWrite(w)
    \/ DeactivateWrite(w)

\* An HTTP request reaches an idle worker.
Arrive(w) ==
    \/ \E r \in Requests :
          \/ SubmitBegin(w, r) \/ ApproveBegin(w, r) \/ ApproveAgain(w, r)
          \/ RejectBegin(w, r) \/ CancelBegin(w, r)
    \/ \E p \in Policies :
          \/ DeactivateBegin(w, p)
          \/ \E state \in {"active", "inactive"} : UpdatePolicy(w, p, state)
          \/ \E e \in Employees, y \in Years, delta \in Deltas : AdjustBalance(w, e, p, y, delta)
    \/ \E e \in Employees : DeleteEmployee(w, e)

Next ==
    \/ \E w \in Workers : Arrive(w) \/ Proceed(w) \/ Crash(w)
    \/ NewYear

Spec == Init /\ [][Next]_vars

\* A handler that has started runs on; PostgreSQL grants row locks in turn, so
\* one that keeps finding its row free at times is not passed over for ever.
FairSpec == Spec /\ \A w \in Workers : SF_vars(Proceed(w))

-----------------------------------------------------------------------------
(* Types *)

RequestSteps == {"submit.policy", "submit.overlap", "submit.insert",
                 "approve.balance", "approve.write", "reject.write", "cancel.write"}

\* The type invariant: every table column and every worker stays in its domain,
\* and a worker inside a handler has a row of the right table in its hands.
TypeOK ==
    /\ status \in [Requests -> Status \cup {"absent"}]
    /\ trail \in [Requests -> SUBSET EventType]
    /\ consumed \in [Requests -> Nat]
    /\ reversed \in [Requests -> [Years -> Nat]]
    /\ granted \in [Employees -> [Policies -> [Years -> Int]]]
    /\ policy \in [Policies -> PolicyState]
    /\ employed \in SUBSET Employees
    /\ today \in Years
    /\ requestLock \in [Requests -> Workers \cup {NoOne}]
    /\ employeeLock \in [Employees -> Workers \cup {NoOne}]
    /\ pc \in [Workers -> Step]
    /\ on \in [Workers -> Requests \cup Policies \cup {NoOne}]
    /\ seen \in [Workers -> Status \cup {"absent"}]
    /\ \A w \in Workers : /\ pc[w] \in RequestSteps => on[w] \in Requests
                          /\ pc[w] = "deactivate.write" => on[w] \in Policies

-----------------------------------------------------------------------------
(* Safety *)

\* No two pending or approved requests of an employee share a day, however many
\* submissions, approvals and late overwrites run at once (submit_request holds
\* the employee's row from the overlap check to the insert).
NoOverlap ==
    \A q, r \in Requests :
        (q # r /\ Live(q) /\ Live(r) /\ EmployeeOf[q] = EmployeeOf[r]) => ~Intersect(q, r)

\* A request is debited at most once, never before its approval, and an approved
\* request carries its debit unreversed (approve_request is idempotent under its
\* row lock, and no unlocked overwrite makes a request approvable again).
DebitedOnce ==
    \A r \in Requests :
        /\ consumed[r] \in {0, 1}
        /\ status[r] \in {"absent", "pending"} => consumed[r] = 0
        /\ status[r] = "approved" => consumed[r] = 1 /\ \A y \in Years : reversed[r][y] = 0
        /\ consumed[r] = 1 <=> "approved" \in trail[r]

\* Days are credited back only for a request that was debited and is now closed
\* (cancel_request writes its reversal from the status it read earlier).
ReversalBacked ==
    \A r \in Requests : (\E y \in Years : reversed[r][y] > 0) =>
        /\ consumed[r] = 1
        /\ status[r] \in {"rejected", "cancelled"}
        /\ "cancelled" \in trail[r]

\* A rejected or cancelled request is never live again, and a debited one never
\* pending again: a stale write can only close a request, not reopen it.
NoResurrection ==
    [][\A r \in Requests : /\ status[r] \in {"rejected", "cancelled"} => ~Live(r)'
                           /\ consumed[r] > 0 => status'[r] # "pending"]_vars

\* A request is only ever created for an employee who is not deleted at that
\* moment: the row lock taken before the check keeps the employee from being
\* deleted before the insert.
SubmitForEmployed ==
    [][\A r \in Requests : (status[r] = "absent" /\ status'[r] # "absent")
                              => EmployeeOf[r] \in employed']_vars

\* Every handler that starts comes to an end: no worker waits for ever for a row.
HandlersEnd == \A w \in Workers : pc[w] # "idle" ~> pc[w] = "idle"

-----------------------------------------------------------------------------
(* What the serial handlers promise; true of one decision at a time *)

\* An approval leaves the ledger it debits at zero or above.
ApprovalCovered ==
    [][\A r \in Requests : (status[r] = "pending" /\ status'[r] = "approved")
            => Remaining(EmployeeOf[r], PolicyOf[r], LedgerYear(r))' >= 0]_vars

\* A cancelled request that was debited has been credited back, and once.
CancelCreditsOnce ==
    \A r \in Requests : (status[r] = "cancelled" /\ consumed[r] = 1)
        => \E y \in Years : reversed[r] = [z \in Years |-> IF z = y THEN 1 ELSE 0]

-----------------------------------------------------------------------------
(* Refinement *)

\* What the ledger charges for a request: its debits less its reversals.
Charged(r) == consumed[r] - MapThenSumSet(LAMBDA y : reversed[r][y], Years)

Lifecycle == INSTANCE LeaveLifecycle WITH charged <- [r \in Requests |-> Charged(r)]

\* The handlers implement the atomic lifecycle as long as no two decisions are in
\* flight at once; submissions and administration may run beside them.
ImplementsLifecycle == Lifecycle!Spec

=============================================================================
