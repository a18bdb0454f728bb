------------------------ MODULE LeaveRequestsProofs ------------------------
(***************************************************************************)
(* Proofs about LeaveRequests: its type invariant, and that the row locks  *)
(* and the transition table together keep live requests of an employee     *)
(* apart and the ledger debited at most once per request.                  *)
(***************************************************************************)
EXTENDS LeaveRequests, FiniteSetTheorems, TLAPS

SubmitSteps == {"submit.policy", "submit.overlap", "submit.insert"}
ApproveSteps == {"approve.balance", "approve.write"}

LEMMA TypeInit == Init => TypeOK
BY NoOneAssumption, PayloadAssumption, AmountAssumption
   DEF Init, TypeOK, Step, RequestSteps, PolicyState, EventType, Status

\* Ending a session keeps the session columns in their domains.
LEMMA EndType ==
    ASSUME TypeOK, NEW w \in Workers, End(w)
    PROVE  /\ requestLock' \in [Requests -> Workers \cup {NoOne}]
           /\ employeeLock' \in [Employees -> Workers \cup {NoOne}]
           /\ pc' \in [Workers -> Step]
           /\ on' \in [Workers -> Requests \cup Policies \cup {NoOne}]
           /\ seen' \in [Workers -> Status \cup {"absent"}]
           /\ \A v \in Workers : /\ pc'[v] \in RequestSteps => on'[v] \in Requests
                                 /\ pc'[v] = "deactivate.write" => on'[v] \in Policies
BY DEF TypeOK, End, Step, RequestSteps

LEMMA TypeStep == TypeOK /\ [Next]_vars => TypeOK'
<1> SUFFICES ASSUME TypeOK, [Next]_vars
             PROVE  TypeOK'
    OBVIOUS
<1> USE DEF TypeOK
<1>1. ASSUME NEW w \in Workers, Proceed(w)
      PROVE  TypeOK'
  <2>1. ASSUME Rollback(w)
        PROVE  TypeOK'
    BY <2>1, EndType DEF Rollback, tables
  <2>2. CASE SubmitPolicy(w)
    BY <2>1, <2>2, ZenonT(60) DEF SubmitPolicy, Advance, tables, Step, RequestSteps
  <2>3. CASE SubmitOverlap(w)
    BY <2>1, <2>3, ZenonT(60) DEF SubmitOverlap, Advance, tables, Step, RequestSteps
  <2>4. CASE SubmitInsert(w)
    BY <2>4, EndType DEF SubmitInsert, Record, Status, EventType, RequestSteps
  <2>5. CASE ApproveBalance(w)
    BY <2>1, <2>5, ZenonT(60) DEF ApproveBalance, Advance, tables, Step, RequestSteps
  <2>6. CASE ApproveWrite(w)
    BY <2>6, EndType DEF ApproveWrite, Record, Status, EventType, RequestSteps
  <2>7. CASE RejectWrite(w)
    BY <2>7, EndType DEF RejectWrite, Record, Status, EventType, RequestSteps
  <2>8. CASE CancelWrite(w)
    <3>1. on[w] \in Requests
      BY <2>8 DEF CancelWrite, RequestSteps
    <3>2. reversed' \in [Requests -> [Years -> Nat]]
      <4>1. CASE seen[w] = "approved"
        <5> DEFINE row == [reversed[on[w]] EXCEPT ![today] = reversed[on[w]][today] + 1]
        <5>1. row \in [Years -> Nat]
          <6>1. reversed[on[w]] \in [Years -> Nat] /\ today \in Years
            BY <3>1
          <6>2. reversed[on[w]][today] + 1 \in Nat
            BY <6>1
          <6>3. QED
            BY <6>1, <6>2
        <5>2. reversed' = [reversed EXCEPT ![on[w]] = row]
          BY <2>8, <4>1 DEF CancelWrite, WasApproved
        <5>3. QED
          BY <3>1, <5>1, <5>2
      <4>2. CASE seen[w] # "approved"
        BY <2>8, <4>2 DEF CancelWrite, WasApproved
      <4>3. QED
        BY <4>1, <4>2
    <3>3. QED
      BY <2>8, <3>1, <3>2, EndType DEF CancelWrite, Record, Status, EventType
  <2>9. CASE DeactivateWrite(w)
    BY <2>9, EndType DEF DeactivateWrite, PolicyState, RequestSteps
  <2>10. QED
    BY <1>1, <2>2, <2>3, <2>4, <2>5, <2>6, <2>7, <2>8, <2>9 DEF Proceed
<1>2. ASSUME NEW w \in Workers, NEW r \in Requests,
             \/ SubmitBegin(w, r) \/ ApproveBegin(w, r)
             \/ RejectBegin(w, r) \/ CancelBegin(w, r)
      PROVE  TypeOK'
  <2>1. CASE SubmitBegin(w, r)
    BY <2>1, PayloadAssumption DEF SubmitBegin, Begin, tables, Step, RequestSteps
  <2>2. CASE ApproveBegin(w, r)
    BY <2>2 DEF ApproveBegin, Begin, tables, Step, RequestSteps
  <2>3. CASE RejectBegin(w, r)
    BY <2>3 DEF RejectBegin, Begin, tables, Step, RequestSteps
  <2>4. CASE CancelBegin(w, r)
    BY <2>4 DEF CancelBegin, Begin, tables, Step, RequestSteps
  <2>5. QED
    BY <1>2, <2>1, <2>2, <2>3, <2>4
<1>3. ASSUME NEW w \in Workers, NEW r \in Requests, ApproveAgain(w, r)
      PROVE  TypeOK'
  BY <1>3 DEF ApproveAgain, Record, EventType, session
<1>4. ASSUME NEW w \in Workers, NEW p \in Policies, DeactivateBegin(w, p)
      PROVE  TypeOK'
  BY <1>4 DEF DeactivateBegin, Begin, tables, Step, RequestSteps
<1>5. ASSUME NEW w \in Workers, NEW p \in Policies, NEW state \in {"active", "inactive"},
             UpdatePolicy(w, p, state)
      PROVE  TypeOK'
  BY <1>5 DEF UpdatePolicy, PolicyState, session
<1>6. ASSUME NEW w \in Workers, NEW p \in Policies, NEW e \in Employees, NEW y \in Years,
             NEW delta \in Deltas, AdjustBalance(w, e, p, y, delta)
      PROVE  TypeOK'
  BY <1>6, AmountAssumption DEF AdjustBalance, session
<1>7. ASSUME NEW w \in Workers, NEW e \in Employees, DeleteEmployee(w, e)
      PROVE  TypeOK'
  BY <1>7 DEF DeleteEmployee, session
<1>8. CASE NewYear
  BY <1>8 DEF NewYear, session
<1>9. ASSUME NEW w \in Workers, Crash(w)
      PROVE  TypeOK'
  BY <1>9, EndType DEF Crash, Rollback, tables
<1>10. CASE UNCHANGED vars
  BY <1>10 DEF vars, tables, session
<1>11. QED
  BY <1>1, <1>2, <1>3, <1>4, <1>5, <1>6, <1>7, <1>8, <1>9, <1>10 DEF Next, Arrive

\* Type correctness of the request handlers for every workload, any number of
\* workers, requests and employees (services.py:67-306).
THEOREM TypeCorrect == Spec => []TypeOK
<1>1. QED
  BY TypeInit, TypeStep, PTL DEF Spec

-----------------------------------------------------------------------------
(* The inductive invariant *)

\* A submission holds its employee's row, and its employee is not deleted; an
\* approval holds its request's row, which is therefore still pending.
LockInv ==
    \A w \in Workers :
        /\ pc[w] \in SubmitSteps =>
              /\ status[on[w]] = "absent"
              /\ EmployeeOf[on[w]] \in employed
              /\ employeeLock[EmployeeOf[on[w]]] = w
        /\ pc[w] \in ApproveSteps =>
              /\ status[on[w]] = "pending"
              /\ requestLock[on[w]] = w

\* What reject and cancel read may be stale, but the row they read exists, and one
\* that cancel saw approved has been debited.
StaleInv ==
    \A w \in Workers :
        /\ pc[w] \in {"reject.write", "cancel.write"} => status[on[w]] # "absent"
        /\ (pc[w] = "cancel.write" /\ seen[w] = "approved") => consumed[on[w]] = 1

\* A submission about to insert is clear of every live request of its employee.
ClearInv == \A w \in Workers : pc[w] = "submit.insert" => ~Overlapping(on[w])

DebitInv == DebitedOnce /\ ReversalBacked

IInv == TypeOK /\ LockInv /\ StaleInv /\ ClearInv /\ NoOverlap /\ DebitInv

LEMMA InvInit == Init => IInv
<1> SUFFICES ASSUME Init PROVE IInv
    OBVIOUS
<1>1. TypeOK
  BY TypeInit
<1>2. LockInv /\ StaleInv /\ ClearInv
  BY DEF Init, LockInv, StaleInv, ClearInv, SubmitSteps, ApproveSteps
<1>3. NoOverlap
  BY DEF Init, NoOverlap, Live
<1>4. DebitInv
  BY DEF Init, DebitInv, DebitedOnce, ReversalBacked
<1>5. QED
  BY <1>1, <1>2, <1>3, <1>4 DEF IInv

\* Rolling back disturbs nothing that the invariant says of the other workers.
LEMMA RollbackInv ==
    ASSUME IInv, NEW w \in Workers, Rollback(w)
    PROVE  LockInv' /\ StaleInv' /\ ClearInv' /\ NoOverlap' /\ DebitInv'
<1> USE DEF Rollback, End, tables
<1>1. TypeOK
  BY DEF IInv
<1>2. \A v \in Workers : v # w => pc'[v] = pc[v] /\ on'[v] = on[v] /\ seen'[v] = seen[v]
  BY <1>1 DEF TypeOK
<1>3. pc'[w] = "idle"
  BY <1>1 DEF TypeOK
<1>4. LockInv'
  BY <1>1, <1>2, <1>3, PayloadAssumption
     DEF IInv, LockInv, SubmitSteps, ApproveSteps, TypeOK, RequestSteps
<1>5. StaleInv'
  BY <1>2, <1>3 DEF IInv, StaleInv
<1>6. ClearInv'
  BY <1>2, <1>3 DEF IInv, ClearInv, Overlapping, Live
<1>7. NoOverlap' /\ DebitInv'
  BY DEF IInv, NoOverlap, Live, DebitInv, DebitedOnce, ReversalBacked
<1>8. QED
  BY <1>4, <1>5, <1>6, <1>7

\* The first step of a handler of worker w on request r, which writes no table.
LEMMA BeginInv ==
    ASSUME IInv, NEW w \in Workers, NEW r \in Requests,
           \/ SubmitBegin(w, r) \/ ApproveBegin(w, r)
           \/ RejectBegin(w, r) \/ CancelBegin(w, r)
    PROVE  LockInv' /\ StaleInv' /\ ClearInv' /\ NoOverlap' /\ DebitInv'
<1> USE PayloadAssumption DEF Begin, tables
<1>1. TypeOK
  BY DEF IInv
<1>2. pc[w] = "idle" /\ UNCHANGED tables
  BY DEF SubmitBegin, ApproveBegin, RejectBegin, CancelBegin
<1>3. \A v \in Workers : v # w => pc'[v] = pc[v] /\ on'[v] = on[v] /\ seen'[v] = seen[v]
  BY <1>1 DEF TypeOK, SubmitBegin, ApproveBegin, RejectBegin, CancelBegin
<1>4. on'[w] = r
  BY <1>1 DEF TypeOK, SubmitBegin, ApproveBegin, RejectBegin, CancelBegin
<1>5. NoOverlap' /\ DebitInv'
  BY <1>2 DEF IInv, NoOverlap, Live, DebitInv, DebitedOnce, ReversalBacked
<1>6. pc'[w] # "submit.insert"
  BY <1>1 DEF TypeOK, SubmitBegin, ApproveBegin, RejectBegin, CancelBegin
<1>7. ClearInv'
  BY <1>2, <1>3, <1>6 DEF IInv, ClearInv, Overlapping, Live
<1>8. CASE SubmitBegin(w, r)
  <2>1. pc'[w] = "submit.policy" /\ employeeLock'[EmployeeOf[r]] = w
    BY <1>1, <1>8 DEF SubmitBegin, TypeOK
  <2>2. \A v \in Workers : (v # w /\ pc[v] \in SubmitSteps) => EmployeeOf[on[v]] # EmployeeOf[r]
    BY <1>8, <1>1, NoOneAssumption DEF SubmitBegin, IInv, LockInv
  <2>3. LockInv'
    <3>1. \A v \in Workers : v # w => LockInv!(v)'
      BY <1>1, <1>2, <1>3, <1>8, <2>2 DEF IInv, LockInv, SubmitBegin, TypeOK, RequestSteps,
         SubmitSteps, ApproveSteps
    <3>2. LockInv!(w)'
      BY <1>1, <1>2, <1>4, <1>8, <2>1 DEF SubmitBegin, TypeOK, ApproveSteps
    <3>3. QED
      BY <3>1, <3>2 DEF LockInv
  <2>4. StaleInv'
    BY <1>2, <1>3, <2>1 DEF IInv, StaleInv
  <2>5. QED
    BY <1>5, <1>7, <2>3, <2>4
<1>9. CASE ApproveBegin(w, r)
  <2>1. pc'[w] = "approve.balance" /\ requestLock'[r] = w /\ status[r] = "pending"
    BY <1>1, <1>9 DEF ApproveBegin, AllowedFrom, TypeOK
  <2>2. \A v \in Workers : (v # w /\ pc[v] \in ApproveSteps) => on[v] # r
    BY <1>9, <1>1, NoOneAssumption DEF ApproveBegin, IInv, LockInv
  <2>3. LockInv'
    <3>1. \A v \in Workers : v # w => LockInv!(v)'
      BY <1>1, <1>2, <1>3, <1>9, <2>2 DEF IInv, LockInv, ApproveBegin, TypeOK, RequestSteps,
         SubmitSteps, ApproveSteps
    <3>2. LockInv!(w)'
      BY <1>1, <1>2, <1>4, <1>9, <2>1 DEF ApproveBegin, TypeOK, SubmitSteps
    <3>3. QED
      BY <3>1, <3>2 DEF LockInv
  <2>4. StaleInv'
    BY <1>2, <1>3, <2>1 DEF IInv, StaleInv
  <2>5. QED
    BY <1>5, <1>7, <2>3, <2>4
<1>10. CASE RejectBegin(w, r) \/ CancelBegin(w, r)
  <2>1. pc'[w] \in {"reject.write", "cancel.write"} /\ seen'[w] = status[r]
    BY <1>1, <1>10 DEF RejectBegin, CancelBegin, TypeOK
  <2>2. status[r] \in {"pending", "approved"}
    BY <1>10 DEF RejectBegin, CancelBegin, AllowedFrom
  <2>3. LockInv'
    <3>1. UNCHANGED <<requestLock, employeeLock>>
      BY <1>10 DEF RejectBegin, CancelBegin
    <3>2. \A v \in Workers : v # w => LockInv!(v)'
      BY <1>2, <1>3, <3>1 DEF IInv, LockInv
    <3>3. LockInv!(w)'
      BY <2>1 DEF SubmitSteps, ApproveSteps
    <3>4. QED
      BY <3>2, <3>3 DEF LockInv
  <2>4. StaleInv'
    BY <1>2, <1>3, <1>4, <2>1, <2>2 DEF IInv, StaleInv, DebitInv, DebitedOnce
  <2>5. QED
    BY <1>5, <1>7, <2>3, <2>4
<1>11. QED
  BY <1>8, <1>9, <1>10

\* What End leaves to the other workers.
LEMMA EndOthers ==
    ASSUME TypeOK, NEW w \in Workers, End(w)
    PROVE  /\ pc'[w] = "idle"
           /\ \A v \in Workers : v # w =>
                 /\ pc'[v] = pc[v] /\ on'[v] = on[v] /\ seen'[v] = seen[v]
                 /\ \A e \in Employees : employeeLock[e] = v => employeeLock'[e] = v
                 /\ \A r \in Requests : requestLock[r] = v => requestLock'[r] = v
BY DEF End, TypeOK

\* Overlaps can only appear with a request that was not live before.
LEMMA NoNewOverlap ==
    ASSUME \A q \in Requests : Live(q)' => Live(q)
    PROVE  /\ NoOverlap => NoOverlap'
           /\ \A r \in Requests : ~Overlapping(r) => ~Overlapping(r)'
BY DEF NoOverlap, Overlapping, Intersect

\* A worker inside a request handler has a row in hand, with an employee.
LEMMA RowInHand ==
    ASSUME TypeOK, NEW w \in Workers, pc[w] \in RequestSteps
    PROVE  on[w] \in Requests /\ EmployeeOf[on[w]] \in Employees
BY PayloadAssumption DEF TypeOK

\* The reads of submit_request and approve_request, with their early returns.
LEMMA ReadInv ==
    ASSUME IInv, NEW w \in Workers,
           SubmitPolicy(w) \/ SubmitOverlap(w) \/ ApproveBalance(w)
    PROVE  LockInv' /\ StaleInv' /\ ClearInv' /\ NoOverlap' /\ DebitInv'
<1>1. TypeOK
  BY DEF IInv
<1>2. CASE Rollback(w)
  BY <1>2, RollbackInv
<1>3. CASE ~Rollback(w)
  <2>1. UNCHANGED <<tables, requestLock, employeeLock, on, seen>>
    BY <1>3 DEF SubmitPolicy, SubmitOverlap, ApproveBalance, Advance
  <2>2. \A v \in Workers : v # w => pc'[v] = pc[v]
    BY <1>1, <1>3 DEF SubmitPolicy, SubmitOverlap, ApproveBalance, Advance, TypeOK
  <2>3. \/ pc[w] \in SubmitSteps /\ pc'[w] = "submit.overlap"
        \/ pc[w] \in SubmitSteps /\ pc'[w] = "submit.insert" /\ ~Overlapping(on[w])
        \/ pc[w] \in ApproveSteps /\ pc'[w] = "approve.write"
    BY <1>1, <1>3 DEF SubmitPolicy, SubmitOverlap, ApproveBalance, Advance, TypeOK,
       SubmitSteps, ApproveSteps
  <2>4. LockInv'
    <3>1. \A v \in Workers : v # w => LockInv!(v)'
      BY <2>1, <2>2 DEF IInv, LockInv, tables
    <3>2. LockInv!(w)'
      BY <2>1, <2>3 DEF IInv, LockInv, tables, SubmitSteps, ApproveSteps
    <3>3. QED
      BY <3>1, <3>2 DEF LockInv
  <2>5. StaleInv'
    BY <2>1, <2>2, <2>3 DEF IInv, StaleInv, tables
  <2>6. \A r \in Requests : Overlapping(r)' = Overlapping(r)
    BY <2>1 DEF Overlapping, Live, tables
  <2>7. ClearInv'
    <3>1. \A v \in Workers : pc'[v] = "submit.insert" => ~Overlapping(on[v])
      BY <2>2, <2>3 DEF IInv, ClearInv
    <3>2. QED
      BY <2>1, <3>1 DEF ClearInv, Overlapping, Live, tables
  <2>8. NoOverlap' /\ DebitInv'
    BY <2>1 DEF IInv, NoOverlap, Live, DebitInv, DebitedOnce, ReversalBacked, tables
  <2>9. QED
    BY <2>4, <2>5, <2>7, <2>8
<1>4. QED
  BY <1>2, <1>3

\* The insert of a submission is clear of every live request of its employee.
LEMMA InsertInv ==
    ASSUME IInv, NEW w \in Workers, SubmitInsert(w)
    PROVE  LockInv' /\ StaleInv' /\ ClearInv' /\ NoOverlap' /\ DebitInv'
<1> DEFINE r == on[w]
<1>1. TypeOK /\ pc[w] = "submit.insert" /\ End(w)
  BY DEF IInv, SubmitInsert
<1>2. r \in Requests /\ EmployeeOf[r] \in Employees
  BY <1>1, RowInHand DEF RequestSteps
<1>3. /\ status[r] = "absent"
      /\ employeeLock[EmployeeOf[r]] = w
      /\ ~Overlapping(r)
  BY <1>1 DEF IInv, LockInv, ClearInv, SubmitSteps
<1>4. status' = [status EXCEPT ![r] = "pending"] /\ trail' = [trail EXCEPT ![r] = @ \cup {"created"}]
  BY DEF SubmitInsert, Record
<1>5. UNCHANGED <<consumed, reversed, granted, policy, employed, today>>
  BY DEF SubmitInsert
<1>6. \A q \in Requests : q # r => status'[q] = status[q]
  BY <1>1, <1>4 DEF TypeOK
<1>7. status'[r] = "pending"
  BY <1>1, <1>2, <1>4 DEF TypeOK
<1>8. \A v \in Workers : (v # w /\ pc[v] \in SubmitSteps) =>
          /\ on[v] \in Requests /\ EmployeeOf[on[v]] \in Employees
          /\ EmployeeOf[on[v]] # EmployeeOf[r] /\ on[v] # r
  BY <1>1, <1>3, RowInHand DEF IInv, LockInv, RequestSteps, SubmitSteps
<1>9. \A v \in Workers : pc[v] \in ApproveSteps => on[v] \in Requests /\ on[v] # r
  BY <1>1, <1>3, RowInHand DEF IInv, LockInv, RequestSteps, ApproveSteps
<1>10. LockInv'
  <2>1. \A v \in Workers : v # w => LockInv!(v)'
    BY <1>1, <1>5, <1>6, <1>8, <1>9, EndOthers DEF IInv, LockInv
  <2>2. LockInv!(w)'
    BY <1>1, EndOthers DEF SubmitSteps, ApproveSteps
  <2>3. QED
    BY <2>1, <2>2 DEF LockInv
<1>11. StaleInv'
  <2>1. \A q \in Requests : status[q] # "absent" => status'[q] # "absent"
    BY <1>6, <1>7
  <2>2. \A v \in Workers : pc[v] \in {"reject.write", "cancel.write"} => on[v] \in Requests
    BY <1>1, RowInHand DEF RequestSteps
  <2>3. QED
    BY <1>1, <1>5, <2>1, <2>2, EndOthers DEF IInv, StaleInv
<1>12. ClearInv'
  <2>1. ASSUME NEW v \in Workers, v # w, pc[v] = "submit.insert"
        PROVE  ~Overlapping(on[v])'
    <3>1. on'[v] = on[v] /\ on[v] \in Requests /\ EmployeeOf[on[v]] # EmployeeOf[r]
      BY <1>1, <1>8, <2>1, EndOthers DEF SubmitSteps
    <3>2. ~Overlapping(on[v])
      BY <2>1 DEF IInv, ClearInv
    <3>3. QED
      BY <1>6, <3>1, <3>2 DEF Overlapping, Live
  <2>2. QED
    BY <1>1, <2>1, EndOthers DEF ClearInv
<1>13. NoOverlap'
  <2>1. \A q \in Requests : (q # r /\ Live(q) /\ EmployeeOf[q] = EmployeeOf[r])
            => ~Intersect(q, r) /\ ~Intersect(r, q)
    BY <1>2, <1>3, PayloadAssumption DEF Overlapping, Intersect
  <2>2. \A q \in Requests : q # r => Live(q)' = Live(q)
    BY <1>6 DEF Live
  <2>3. QED
    BY <2>1, <2>2 DEF IInv, NoOverlap, Intersect
<1>14. DebitInv'
  BY <1>1, <1>2, <1>3, <1>4, <1>5, <1>6, <1>7
     DEF IInv, DebitInv, DebitedOnce, ReversalBacked, TypeOK
<1>15. QED
  BY <1>10, <1>11, <1>12, <1>13, <1>14

\* What every decision about a request has in common: it moves a row that exists
\* and that no other worker has locked, opens no new overlap, and changes no
\* other row.
LEMMA DecisionInv ==
    ASSUME IInv, NEW w \in Workers, pc[w] \in {"approve.write", "reject.write", "cancel.write"},
           End(w), UNCHANGED <<granted, policy, employed, today>>,
           \A v \in Workers : (v # w /\ pc[v] \in ApproveSteps) => on[v] # on[w],
           \A q \in Requests : q # on[w] => /\ status'[q] = status[q]
                                            /\ consumed'[q] = consumed[q],
           status[on[w]] # "absent" /\ status'[on[w]] # "absent",
           status'[on[w]] \in {"pending", "approved"} => Live(on[w]),
           consumed[on[w]] = 1 => consumed'[on[w]] = 1
    PROVE  LockInv' /\ StaleInv' /\ ClearInv' /\ NoOverlap'
<1>1. TypeOK
  BY DEF IInv
<1>2. \A v \in Workers : pc[v] \in RequestSteps => on[v] \in Requests
  BY <1>1, RowInHand
<1>3. \A q \in Requests : Live(q)' => Live(q)
  BY DEF Live
<1>4. LockInv'
  <2>1. \A v \in Workers : pc[v] \in SubmitSteps => on[v] # on[w]
    BY DEF IInv, LockInv
  <2>2. \A v \in Workers : v # w => LockInv!(v)'
    BY <1>1, <1>2, <2>1, RowInHand, EndOthers
       DEF IInv, LockInv, RequestSteps, SubmitSteps, ApproveSteps
  <2>3. LockInv!(w)'
    BY <1>1, EndOthers DEF SubmitSteps, ApproveSteps
  <2>4. QED
    BY <2>2, <2>3 DEF LockInv
<1>5. StaleInv'
  BY <1>1, <1>2, EndOthers DEF IInv, StaleInv, RequestSteps
<1>6. ClearInv'
  BY <1>1, <1>2, <1>3, EndOthers, NoNewOverlap DEF IInv, ClearInv, RequestSteps
<1>7. NoOverlap'
  BY <1>3, NoNewOverlap DEF IInv
<1>8. QED
  BY <1>4, <1>5, <1>6, <1>7

\* An approval debits a request that never was debited, under its row lock.
LEMMA ApproveInv ==
    ASSUME IInv, NEW w \in Workers, ApproveWrite(w)
    PROVE  LockInv' /\ StaleInv' /\ ClearInv' /\ NoOverlap' /\ DebitInv'
<1> DEFINE r == on[w]
<1>1. TypeOK /\ pc[w] = "approve.write" /\ End(w)
  BY DEF IInv, ApproveWrite
<1>2. r \in Requests
  BY <1>1, RowInHand DEF RequestSteps
<1>3. status[r] = "pending" /\ requestLock[r] = w
  BY <1>1 DEF IInv, LockInv, ApproveSteps
<1>4. /\ status' = [status EXCEPT ![r] = "approved"]
      /\ consumed' = [consumed EXCEPT ![r] = @ + 1]
      /\ trail' = [trail EXCEPT ![r] = @ \cup {"approved"}]
      /\ UNCHANGED <<reversed, granted, policy, employed, today>>
  BY DEF ApproveWrite, Record
<1>5. consumed[r] = 0 /\ \A y \in Years : reversed[r][y] = 0
  <2>1. consumed[r] = 0
    BY <1>2, <1>3 DEF IInv, DebitInv, DebitedOnce
  <2>2. \A y \in Years : ~(reversed[r][y] > 0) /\ reversed[r][y] \in Nat
    <3>1. ~(\E y \in Years : reversed[r][y] > 0)
      BY <1>2, <2>1 DEF IInv, DebitInv, ReversalBacked
    <3>2. reversed[r] \in [Years -> Nat]
      BY <1>1, <1>2 DEF TypeOK
    <3>3. QED
      BY <3>1, <3>2
  <2>3. QED
    BY <2>1, <2>2
<1>6. /\ status'[r] = "approved" /\ consumed'[r] = 1 /\ trail'[r] = trail[r] \cup {"approved"}
      /\ \A q \in Requests : q # r => /\ status'[q] = status[q]
                                      /\ consumed'[q] = consumed[q]
                                      /\ trail'[q] = trail[q]
  BY <1>1, <1>2, <1>4, <1>5 DEF TypeOK
<1>7. LockInv' /\ StaleInv' /\ ClearInv' /\ NoOverlap'
  <2>1. \A v \in Workers : (v # w /\ pc[v] \in ApproveSteps) => on[v] # r
    BY <1>3 DEF IInv, LockInv
  <2>2. QED
    BY <1>1, <1>2, <1>3, <1>4, <1>6, <2>1, DecisionInv DEF Live
<1>8. DebitInv'
  <2>1. DebitedOnce'
    BY <1>4, <1>5, <1>6 DEF IInv, DebitInv, DebitedOnce
  <2>2. ReversalBacked'
    BY <1>4, <1>5, <1>6 DEF IInv, DebitInv, ReversalBacked
  <2>3. QED
    BY <2>1, <2>2 DEF DebitInv
<1>9. QED
  BY <1>7, <1>8

\* No approval holds a request whose row lock is free.
LEMMA FreeRow ==
    ASSUME IInv, NEW r \in Requests, requestLock[r] = NoOne
    PROVE  \A v \in Workers : pc[v] \in ApproveSteps => on[v] # r
BY NoOneAssumption DEF IInv, LockInv

\* A late rejection can only close the request.
LEMMA RejectInv ==
    ASSUME IInv, NEW w \in Workers, RejectWrite(w)
    PROVE  LockInv' /\ StaleInv' /\ ClearInv' /\ NoOverlap' /\ DebitInv'
<1> DEFINE r == on[w]
<1>1. TypeOK /\ pc[w] = "reject.write" /\ End(w) /\ requestLock[r] = NoOne
  BY DEF IInv, RejectWrite
<1>2. r \in Requests /\ status[r] # "absent"
  BY <1>1, RowInHand DEF RequestSteps, IInv, StaleInv
<1>3. /\ status' = [status EXCEPT ![r] = "rejected"]
      /\ trail' = [trail EXCEPT ![r] = @ \cup {"rejected"}]
      /\ UNCHANGED <<consumed, reversed, granted, policy, employed, today>>
  BY DEF RejectWrite, Record
<1>4. /\ status'[r] = "rejected" /\ trail'[r] = trail[r] \cup {"rejected"}
      /\ \A q \in Requests : q # r => status'[q] = status[q] /\ trail'[q] = trail[q]
  BY <1>1, <1>2, <1>3 DEF TypeOK
<1>5. LockInv' /\ StaleInv' /\ ClearInv' /\ NoOverlap'
  BY <1>1, <1>2, <1>3, <1>4, FreeRow, DecisionInv DEF Live
<1>6. DebitInv'
  <2>1. DebitedOnce'
    BY <1>3, <1>4 DEF IInv, DebitInv, DebitedOnce
  <2>2. ReversalBacked'
    BY <1>3, <1>4 DEF IInv, DebitInv, ReversalBacked
  <2>3. QED
    BY <2>1, <2>2 DEF DebitInv
<1>7. QED
  BY <1>5, <1>6

\* A late cancellation closes the request, and credits only one that was debited.
LEMMA CancelInv ==
    ASSUME IInv, NEW w \in Workers, CancelWrite(w)
    PROVE  LockInv' /\ StaleInv' /\ ClearInv' /\ NoOverlap' /\ DebitInv'
<1> DEFINE r == on[w]
<1>1. TypeOK /\ pc[w] = "cancel.write" /\ End(w) /\ requestLock[r] = NoOne
  BY DEF IInv, CancelWrite
<1>2. r \in Requests /\ status[r] # "absent"
  BY <1>1, RowInHand DEF RequestSteps, IInv, StaleInv
<1>3. /\ status' = [status EXCEPT ![r] = "cancelled"]
      /\ trail' = [trail EXCEPT ![r] = @ \cup {"cancelled"}]
      /\ UNCHANGED <<consumed, granted, policy, employed, today>>
  BY DEF CancelWrite, Record
<1>4. /\ status'[r] = "cancelled" /\ trail'[r] = trail[r] \cup {"cancelled"}
      /\ \A q \in Requests : q # r => status'[q] = status[q] /\ trail'[q] = trail[q]
  BY <1>1, <1>2, <1>3 DEF TypeOK
<1>5. \A q \in Requests : q # r => reversed'[q] = reversed[q]
  BY <1>1 DEF CancelWrite, TypeOK
<1>6. reversed' = reversed \/ consumed[r] = 1
  BY <1>1 DEF CancelWrite, WasApproved, IInv, StaleInv
<1>7. LockInv' /\ StaleInv' /\ ClearInv' /\ NoOverlap'
  BY <1>1, <1>2, <1>3, <1>4, FreeRow, DecisionInv DEF Live
<1>8. DebitInv'
  <2>1. DebitedOnce'
    BY <1>3, <1>4, <1>5 DEF IInv, DebitInv, DebitedOnce
  <2>2. ReversalBacked'
    BY <1>3, <1>4, <1>5, <1>6 DEF IInv, DebitInv, ReversalBacked
  <2>3. QED
    BY <2>1, <2>2 DEF DebitInv
<1>9. QED
  BY <1>7, <1>8

\* A step that leaves requests, debits and sessions alone, and deletes no employee
\* whose row is locked, keeps the invariant.
LEMMA AdminInv ==
    ASSUME IInv,
           UNCHANGED <<status, consumed, reversed, session>>,
           \A r \in Requests : trail'[r] = trail[r] \/ trail'[r] = trail[r] \cup {"noop"},
           \A e \in employed : e \in employed' \/ employeeLock[e] = NoOne
    PROVE  LockInv' /\ StaleInv' /\ ClearInv' /\ NoOverlap' /\ DebitInv'
<1>1. LockInv'
  BY NoOneAssumption DEF IInv, LockInv, session
<1>2. StaleInv' /\ ClearInv' /\ NoOverlap'
  BY DEF IInv, StaleInv, ClearInv, NoOverlap, Overlapping, Live, session
<1>3. DebitedOnce'
  BY DEF IInv, DebitInv, DebitedOnce
<1>4. ReversalBacked'
  BY DEF IInv, DebitInv, ReversalBacked
<1>5. QED
  BY <1>1, <1>2, <1>3, <1>4 DEF DebitInv

\* A worker entering or leaving deactivate_policy is in no request handler.
LEMMA DeactivateInv ==
    ASSUME IInv, NEW w \in Workers,
           (\E p \in Policies : DeactivateBegin(w, p)) \/ DeactivateWrite(w)
    PROVE  LockInv' /\ StaleInv' /\ ClearInv' /\ NoOverlap' /\ DebitInv'
<1>1. TypeOK
  BY DEF IInv
<1>2. UNCHANGED <<status, trail, consumed, reversed, employed>>
  BY DEF DeactivateBegin, DeactivateWrite, tables
<1>3. \A v \in Workers : v # w =>
          /\ pc'[v] = pc[v] /\ on'[v] = on[v] /\ seen'[v] = seen[v]
          /\ \A e \in Employees : employeeLock[e] = v => employeeLock'[e] = v
          /\ \A r \in Requests : requestLock[r] = v => requestLock'[r] = v
  BY <1>1, EndOthers DEF DeactivateBegin, Begin, DeactivateWrite, TypeOK
<1>4. pc'[w] \in {"idle", "deactivate.write"}
  BY <1>1, EndOthers DEF DeactivateBegin, Begin, DeactivateWrite, TypeOK
<1>5. LockInv'
  <2>1. \A v \in Workers : v # w => LockInv!(v)'
    BY <1>1, <1>2, <1>3, RowInHand DEF IInv, LockInv, RequestSteps, SubmitSteps, ApproveSteps
  <2>2. LockInv!(w)'
    BY <1>4 DEF SubmitSteps, ApproveSteps
  <2>3. QED
    BY <2>1, <2>2 DEF LockInv
<1>6. StaleInv'
  BY <1>2, <1>3, <1>4 DEF IInv, StaleInv
<1>7. ClearInv'
  BY <1>2, <1>3, <1>4 DEF IInv, ClearInv, Overlapping, Live
<1>8. NoOverlap' /\ DebitInv'
  BY <1>2 DEF IInv, NoOverlap, Live, DebitInv, DebitedOnce, ReversalBacked
<1>9. QED
  BY <1>5, <1>6, <1>7, <1>8

LEMMA InvStep == IInv /\ [Next]_vars => IInv'
<1> SUFFICES ASSUME IInv, [Next]_vars
             PROVE  LockInv' /\ StaleInv' /\ ClearInv' /\ NoOverlap' /\ DebitInv'
    BY TypeStep DEF IInv
<1>1. ASSUME NEW w \in Workers, Proceed(w)
      PROVE  LockInv' /\ StaleInv' /\ ClearInv' /\ NoOverlap' /\ DebitInv'
  <2>1. CASE SubmitPolicy(w) \/ SubmitOverlap(w) \/ ApproveBalance(w)
    BY <2>1, ReadInv
  <2>2. CASE SubmitInsert(w)
    BY <2>2, InsertInv
  <2>3. CASE ApproveWrite(w)
    BY <2>3, ApproveInv
  <2>4. CASE RejectWrite(w)
    BY <2>4, RejectInv
  <2>5. CASE CancelWrite(w)
    BY <2>5, CancelInv
  <2>6. CASE DeactivateWrite(w)
    BY <2>6, DeactivateInv
  <2>7. QED
    BY <1>1, <2>1, <2>2, <2>3, <2>4, <2>5, <2>6 DEF Proceed
<1>2. ASSUME NEW w \in Workers, NEW r \in Requests,
             \/ SubmitBegin(w, r) \/ ApproveBegin(w, r)
             \/ RejectBegin(w, r) \/ CancelBegin(w, r)
      PROVE  LockInv' /\ StaleInv' /\ ClearInv' /\ NoOverlap' /\ DebitInv'
  BY <1>2, BeginInv
<1>3. ASSUME NEW w \in Workers, NEW r \in Requests, ApproveAgain(w, r)
      PROVE  LockInv' /\ StaleInv' /\ ClearInv' /\ NoOverlap' /\ DebitInv'
  <2>1. \A q \in Requests : trail'[q] = trail[q] \/ trail'[q] = trail[q] \cup {"noop"}
    BY <1>3 DEF ApproveAgain, Record, IInv, TypeOK
  <2>2. QED
    BY <1>3, <2>1, AdminInv DEF ApproveAgain
<1>4. ASSUME NEW w \in Workers, NEW p \in Policies, DeactivateBegin(w, p)
      PROVE  LockInv' /\ StaleInv' /\ ClearInv' /\ NoOverlap' /\ DebitInv'
  BY <1>4, DeactivateInv
<1>5. ASSUME NEW w \in Workers, NEW p \in Policies, NEW state \in {"active", "inactive"},
             UpdatePolicy(w, p, state)
      PROVE  LockInv' /\ StaleInv' /\ ClearInv' /\ NoOverlap' /\ DebitInv'
  BY <1>5, AdminInv DEF UpdatePolicy
<1>6. ASSUME NEW w \in Workers, NEW p \in Policies, NEW e \in Employees, NEW y \in Years,
             NEW delta \in Deltas, AdjustBalance(w, e, p, y, delta)
      PROVE  LockInv' /\ StaleInv' /\ ClearInv' /\ NoOverlap' /\ DebitInv'
  BY <1>6, AdminInv DEF AdjustBalance
<1>7. ASSUME NEW w \in Workers, NEW e \in Employees, DeleteEmployee(w, e)
      PROVE  LockInv' /\ StaleInv' /\ ClearInv' /\ NoOverlap' /\ DebitInv'
  BY <1>7, AdminInv DEF DeleteEmployee
<1>8. CASE NewYear
  BY <1>8, AdminInv DEF NewYear
<1>9. ASSUME NEW w \in Workers, Crash(w)
      PROVE  LockInv' /\ StaleInv' /\ ClearInv' /\ NoOverlap' /\ DebitInv'
  BY <1>9, RollbackInv DEF Crash
<1>10. CASE UNCHANGED vars
  BY <1>10, AdminInv DEF vars, tables
<1>11. QED
  BY <1>1, <1>2, <1>3, <1>4, <1>5, <1>6, <1>7, <1>8, <1>9, <1>10 DEF Next, Arrive

\* The inductive invariant holds in every reachable state of any instance.
THEOREM InvHolds == Spec => []IInv
<1>1. QED
  BY InvInit, InvStep, PTL DEF Spec

\* No two live requests of an employee ever share a day (services.py:80-144).
THEOREM NoOverlapHolds == Spec => []NoOverlap
<1>1. IInv => NoOverlap
  BY DEF IInv
<1>2. QED
  BY <1>1, InvHolds, PTL

\* However approvals, rejections and cancellations interleave, the ledger debits a
\* request at most once, and exactly when it was approved (services.py:157-220).
THEOREM DebitedOnceHolds == Spec => []DebitedOnce
<1>1. IInv => DebitedOnce
  BY DEF IInv, DebitInv
<1>2. QED
  BY <1>1, InvHolds, PTL

\* Every credit is backed by a debit of the same request (services.py:260-306).
THEOREM ReversalBackedHolds == Spec => []ReversalBacked
<1>1. IInv => ReversalBacked
  BY DEF IInv, DebitInv
<1>2. QED
  BY <1>1, InvHolds, PTL

\* Only the four writing steps touch the status column.
LEMMA StatusSteps ==
    ASSUME [Next]_vars
    PROVE  \/ status' = status
           \/ \E w \in Workers : SubmitInsert(w) \/ ApproveWrite(w) \/ RejectWrite(w) \/ CancelWrite(w)
<1> USE DEF tables, session, Rollback
<1>1. ASSUME NEW w \in Workers, Arrive(w)
      PROVE  status' = status
  BY <1>1 DEF Arrive, SubmitBegin, ApproveBegin, ApproveAgain, RejectBegin, CancelBegin,
     DeactivateBegin, UpdatePolicy, AdjustBalance, DeleteEmployee
<1>2. ASSUME NEW w \in Workers,
             SubmitPolicy(w) \/ SubmitOverlap(w) \/ ApproveBalance(w) \/ DeactivateWrite(w) \/ Crash(w)
      PROVE  status' = status
  BY <1>2 DEF SubmitPolicy, SubmitOverlap, ApproveBalance, DeactivateWrite, Crash
<1>3. NewYear \/ UNCHANGED vars => status' = status
  BY DEF NewYear, vars
<1>4. QED
  BY <1>1, <1>2, <1>3 DEF Next, Proceed

\* A closed request is never live again and a debited one never pending again, in
\* any interleaving of the handlers (services.py:157-306).
THEOREM NoResurrectionHolds == Spec => NoResurrection
<1> DEFINE Closes(r) == /\ status[r] \in {"rejected", "cancelled"} => ~Live(r)'
                        /\ consumed[r] > 0 => status'[r] # "pending"
<1>1. IInv /\ [Next]_vars => [\A r \in Requests : Closes(r)]_vars
  <2> SUFFICES ASSUME IInv, [Next]_vars, NEW r \in Requests
               PROVE  Closes(r)
      OBVIOUS
  <2>1. TypeOK /\ (status[r] \in {"absent", "pending"} => consumed[r] = 0)
    BY DEF IInv, DebitInv, DebitedOnce
  <2>2. CASE status' = status
    BY <2>1, <2>2 DEF Live
  <2>3. ASSUME NEW w \in Workers, SubmitInsert(w)
        PROVE  Closes(r)
    <3>1. on[w] \in Requests /\ status[on[w]] = "absent"
      BY <2>1, <2>3, RowInHand DEF SubmitInsert, RequestSteps, IInv, LockInv, SubmitSteps
    <3>2. QED
      BY <2>1, <2>3, <3>1 DEF SubmitInsert, TypeOK, Live
  <2>4. ASSUME NEW w \in Workers, ApproveWrite(w)
        PROVE  Closes(r)
    <3>1. on[w] \in Requests /\ status[on[w]] = "pending"
      BY <2>1, <2>4, RowInHand DEF ApproveWrite, RequestSteps, IInv, LockInv, ApproveSteps
    <3>2. QED
      BY <2>1, <2>4, <3>1 DEF ApproveWrite, TypeOK, Live
  <2>5. ASSUME NEW w \in Workers, RejectWrite(w) \/ CancelWrite(w)
        PROVE  Closes(r)
    BY <2>1, <2>5 DEF RejectWrite, CancelWrite, TypeOK, Live
  <2>6. QED
    BY <2>2, <2>3, <2>4, <2>5, StatusSteps
<1>2. QED
  BY <1>1, InvHolds, PTL DEF Spec, NoResurrection

\* A request is only created for an employee who is not deleted (services.py:80-86).
THEOREM SubmitForEmployedHolds == Spec => SubmitForEmployed
<1> DEFINE Creates(r) == (status[r] = "absent" /\ status'[r] # "absent")
                            => EmployeeOf[r] \in employed'
<1>1. IInv /\ [Next]_vars => [\A r \in Requests : Creates(r)]_vars
  <2> SUFFICES ASSUME IInv, [Next]_vars, NEW r \in Requests
               PROVE  Creates(r)
      OBVIOUS
  <2>1. TypeOK
    BY DEF IInv
  <2>2. ASSUME NEW w \in Workers, SubmitInsert(w)
        PROVE  Creates(r)
    <3>1. EmployeeOf[on[w]] \in employed
      BY <2>2 DEF SubmitInsert, IInv, LockInv, SubmitSteps
    <3>2. employed' = employed /\ (status'[r] # status[r] => r = on[w])
      BY <2>1, <2>2 DEF SubmitInsert, TypeOK
    <3>3. QED
      BY <3>1, <3>2
  <2>3. ASSUME NEW w \in Workers, ApproveWrite(w) \/ RejectWrite(w) \/ CancelWrite(w)
        PROVE  Creates(r)
    <3>1. status[on[w]] # "absent"
      BY <2>3 DEF ApproveWrite, RejectWrite, CancelWrite, IInv, LockInv, StaleInv, ApproveSteps
    <3>2. r # on[w] => status'[r] = status[r]
      BY <2>1, <2>3 DEF ApproveWrite, RejectWrite, CancelWrite, TypeOK
    <3>3. QED
      BY <3>1, <3>2
  <2>4. QED
    BY <2>2, <2>3, StatusSteps
<1>2. QED
  BY <1>1, InvHolds, PTL DEF Spec, SubmitForEmployed

-----------------------------------------------------------------------------
(* Sums over finite sets *)

\* The element that a fold takes out of a set first.
Pick(s) == CHOOSE x \in s : TRUE

\* h gives the sum of f over every subset of S, by the recursion of the fold.
Tallies(h, f, S) ==
    h = [s \in SUBSET S |-> IF s = {} THEN 0 ELSE f[Pick(s)] + h[s \ {Pick(s)}]]

\* g is f with d more at x0.
Bumped(g, f, S, x0, d) ==
    /\ d \in Int
    /\ \A x \in S : f[x] \in Int /\ g[x] = IF x = x0 THEN f[x] + d ELSE f[x]

\* The sums k are the sums h with d more wherever x0 counts.
Shifted(k, h, T, x0, d) ==
    \A s \in SUBSET T : h[s] \in Int /\ k[s] = IF x0 \in s THEN h[s] + d ELSE h[s]

\* Strict inclusion is well-founded on the subsets of a finite set.
LEMMA Smallest ==
    ASSUME NEW S, IsFiniteSet(S), NEW T, T \subseteq SUBSET S, T # {}
    PROVE  \E s \in T : \A t \in T : t \subseteq s => t = s
<1>1. IsWellFoundedOn(StrictSubsetOrdering(S), FiniteSubsetsOf(S))
  BY FS_StrictSubsetOrderingWellFounded
<1>2. T \subseteq FiniteSubsetsOf(S)
  BY FS_FiniteSubsetsOfFinite
<1>3. PICK s \in T : \A t \in T : <<t, s>> \notin StrictSubsetOrdering(S)
  BY <1>1, <1>2, WFMin
<1>4. QED
  BY <1>3 DEF StrictSubsetOrdering

LEMMA PickIn == ASSUME NEW s, s # {} PROVE Pick(s) \in s
BY DEF Pick

\* Changing one term changes the sums by as much.  A smallest subset where they
\* differ otherwise has an element, without which they do not.
LEMMA TallyChange ==
    ASSUME NEW S, IsFiniteSet(S), NEW T \in SUBSET S, NEW x0, NEW d,
           NEW f, NEW g, Bumped(g, f, S, x0, d),
           NEW h, NEW k, Tallies(h, f, S), Tallies(k, g, T)
    PROVE  Shifted(k, h, T, x0, d)
<1> USE DEF Bumped, Shifted
<1> DEFINE Good(s) == h[s] \in Int /\ k[s] = IF x0 \in s THEN h[s] + d ELSE h[s]
           bad == {s \in SUBSET T : ~Good(s)}
<1>1. SUFFICES ASSUME bad # {} PROVE FALSE
  OBVIOUS
<1>2. PICK s \in bad : \A t \in bad : t \subseteq s => t = s
  <2>1. IsFiniteSet(T)
    BY FS_Subset
  <2>2. bad \subseteq SUBSET T
    OBVIOUS
  <2> HIDE DEF bad
  <2>3. QED
    BY <1>1, <2>1, <2>2, Smallest
<1>3. s \in SUBSET T /\ s \in SUBSET S
  OBVIOUS
<1>4. CASE s = {}
  BY <1>3, <1>4 DEF Tallies
<1>5. CASE s # {}
  <2> DEFINE x == Pick(s)
             u == s \ {x}
  <2>1. x \in s /\ u \subseteq s /\ u # s /\ u \in SUBSET T
    BY <1>3, <1>5, PickIn
  <2>2. Good(u)
    BY <1>2, <2>1
  <2>3. h[s] = f[x] + h[u] /\ k[s] = g[x] + k[u]
    BY <1>3, <1>5 DEF Tallies
  <2>4. x \in S /\ f[x] \in Int /\ g[x] = IF x = x0 THEN f[x] + d ELSE f[x]
    BY <1>3, <2>1
  <2>5. x0 \in s <=> x0 = x \/ x0 \in u
    BY <2>1
  <2>6. x \notin u
    OBVIOUS
  <2> HIDE DEF x, u
  <2>7. Good(s)
    BY <2>2, <2>3, <2>4, <2>5, <2>6
  <2>8. QED
    BY <2>7
<1>6. QED
  BY <1>4, <1>5

\* The sum over a set does not depend on the set around it.
LEMMA TallySame ==
    ASSUME NEW S, IsFiniteSet(S), NEW T \in SUBSET S,
           NEW f, \A x \in S : f[x] \in Int,
           NEW h, NEW k, Tallies(h, f, S), Tallies(k, f, T)
    PROVE  k[T] = h[T]
<1>1. Bumped(f, f, S, 0, 0)
  BY DEF Bumped
<1>2. Shifted(k, h, T, 0, 0)
  BY <1>1, TallyChange
<1>3. QED
  BY <1>2 DEF Shifted

\* There are such sums: those of a subset are put together from those of the
\* smaller ones.
LEMMA TallyExists ==
    ASSUME NEW S, IsFiniteSet(S), NEW f, \A x \in S : f[x] \in Int
    PROVE  \E h : Tallies(h, f, S)
<1> DEFINE bad == {s \in SUBSET S : ~ \E h : Tallies(h, f, s)}
<1>1. SUFFICES ASSUME bad # {} PROVE FALSE
  OBVIOUS
<1>2. PICK s \in bad : \A t \in bad : t \subseteq s => t = s
  <2>1. bad \subseteq SUBSET S
    OBVIOUS
  <2> HIDE DEF bad
  <2>2. QED
    BY <1>1, <2>1, Smallest
<1> DEFINE G(t) == CHOOSE h : Tallies(h, f, t)
           h0 == [t \in SUBSET s |-> IF t = {} THEN 0
                                     ELSE f[Pick(t)] + G(t \ {Pick(t)})[t \ {Pick(t)}]]
<1>3. s \in SUBSET S
  OBVIOUS
<1>4. ASSUME NEW t \in SUBSET s, t # s
      PROVE  Tallies(G(t), f, t)
  <2>1. t \in SUBSET S /\ t \notin bad
    BY <1>2, <1>3, <1>4
  <2>2. \E h : Tallies(h, f, t)
    BY <2>1
  <2>3. QED
    BY <2>2
<1> HIDE DEF G
<1>5. ASSUME NEW t \in SUBSET s, t # s
      PROVE  h0[t] = G(t)[t]
  <2>1. CASE t = {}
    BY <1>4, <1>5, <2>1 DEF Tallies
  <2>2. CASE t # {}
    <3> DEFINE x == Pick(t)
               u == t \ {x}
    <3>1. x \in t /\ u \in SUBSET t /\ u \in SUBSET s /\ u # s
      BY <2>2, PickIn
    <3>2. h0[t] = f[x] + G(u)[u]
      BY <2>2
    <3>3. G(t)[t] = f[x] + G(t)[u]
      BY <1>4, <1>5, <2>2 DEF Tallies
    <3>4. G(u)[u] = G(t)[u]
      <4>1. Tallies(G(t), f, t) /\ Tallies(G(u), f, u)
        BY <1>4, <1>5, <3>1
      <4>2. IsFiniteSet(t) /\ \A y \in t : f[y] \in Int
        BY <1>3, FS_Subset
      <4>3. u \in SUBSET t
        BY <3>1
      <4> HIDE DEF x, u
      <4>4. QED
        BY <4>1, <4>2, <4>3, TallySame
    <3>5. QED
      BY <3>2, <3>3, <3>4
  <2>3. QED
    BY <2>1, <2>2
<1>6. \A t \in SUBSET s : t # {} => /\ t \ {Pick(t)} \in SUBSET s
                                    /\ t \ {Pick(t)} # s
  BY PickIn
<1>7. h0 = [t \in SUBSET s |-> IF t = {} THEN 0 ELSE f[Pick(t)] + h0[t \ {Pick(t)}]]
  <2>1. \A t \in SUBSET s : t # {} => h0[t \ {Pick(t)}] = G(t \ {Pick(t)})[t \ {Pick(t)}]
    BY <1>5, <1>6
  <2>2. QED
    BY <2>1
<1>8. QED
  BY <1>7 DEF Tallies


-----------------------------------------------------------------------------
(* Sums of the ledger *)

\* The sums of Remaining and Charged, as operators of what they add up.
DebitSum(c, S) == MapThenSumSet(LAMBDA r : c[r] * TotalDays(r), S)
CreditSum(v, y, S) == MapThenSumSet(LAMBDA r : v[r][y] * TotalDays(r), S)
RowSum(row) == MapThenSumSet(LAMBDA y : row[y], Years)

LEMMA TotalDaysInt == \A r \in Requests : TotalDays(r) \in Int
<1> SUFFICES ASSUME NEW r \in Requests PROVE TotalDays(r) \in Int
  OBVIOUS
<1>1. CASE RequestedHours[r] # NoHours
  BY <1>1, PayloadAssumption DEF TotalDays
<1>2. CASE RequestedHours[r] = NoHours
  <2> DEFINE days == {d \in DateStart[r] .. DateEnd[r] :
                        d \in Workdays /\ YearOf[d] = YearOf[DateStart[r]]}
  <2>1. IsFiniteSet(DateStart[r] .. DateEnd[r])
    BY FS_Interval, PayloadAssumption
  <2>2. Cardinality(days) \in Nat
    BY <2>1, FS_Subset, FS_CardinalityType
  <2>3. TotalDays(r) = 100 * Cardinality(days)
    BY <1>2 DEF TotalDays
  <2> HIDE DEF days
  <2>4. QED
    BY <2>2, <2>3
<1>3. QED
  BY <1>1, <1>2

\* Each is the sum that its terms tally to.
LEMMA DebitTally ==
    ASSUME NEW S, IsFiniteSet(S), NEW c, \A x \in S : c[x] * TotalDays(x) \in Int
    PROVE  \E h : /\ Tallies(h, [x \in S |-> c[x] * TotalDays(x)], S)
                  /\ DebitSum(c, S) = h[S]
<1> DEFINE f == [x \in S |-> c[x] * TotalDays(x)]
           Sums(i) == i = [s \in SUBSET S |->
                        IF s = {} THEN 0
                        ELSE c[Pick(s)] * TotalDays(Pick(s)) + i[s \ {Pick(s)}]]
           iter == CHOOSE i : Sums(i)
<1>1. PICK h : Tallies(h, f, S)
  <2>1. \A x \in S : f[x] \in Int
    OBVIOUS
  <2> HIDE DEF f
  <2>2. QED
    BY <2>1, TallyExists
<1>2. DebitSum(c, S) = iter[S]
  BY DEF DebitSum, MapThenSumSet, MapThenFoldSet, Pick
<1>3. ASSUME NEW i
      PROVE  Tallies(i, f, S) <=> Sums(i)
  <2> DEFINE F == [s \in SUBSET S |-> IF s = {} THEN 0
                                     ELSE f[Pick(s)] + i[s \ {Pick(s)}]]
             G == [s \in SUBSET S |->
                     IF s = {} THEN 0
                     ELSE c[Pick(s)] * TotalDays(Pick(s)) + i[s \ {Pick(s)}]]
  <2>1. ASSUME NEW s \in SUBSET S PROVE F[s] = G[s]
    <3>1. CASE s = {}
      BY <3>1
    <3>2. CASE s # {}
      <4>1. Pick(s) \in S
        BY <3>2, PickIn
      <4>2. f[Pick(s)] = c[Pick(s)] * TotalDays(Pick(s))
        BY <4>1
      <4> HIDE DEF f
      <4>3. QED
        BY <3>2, <4>2
    <3>3. QED
      BY <3>1, <3>2
  <2>2. F = G
    <3>1. DOMAIN F = SUBSET S /\ DOMAIN G = SUBSET S
      OBVIOUS
    <3>2. F = [s \in SUBSET S |-> F[s]] /\ G = [s \in SUBSET S |-> G[s]]
      OBVIOUS
    <3> HIDE DEF F, G
    <3>3. QED
      BY <2>1, <3>2
  <2>3. QED
    BY <2>2 DEF Tallies
<1> HIDE DEF f, Sums
<1>4. Sums(iter)
  <2>1. Sums(h)
    BY <1>1, <1>3
  <2>2. QED
    BY <2>1
<1>5. Tallies(iter, f, S)
  BY <1>3, <1>4
<1> HIDE DEF iter
<1>6. QED
  BY <1>2, <1>5 DEF f

LEMMA CreditTally ==
    ASSUME NEW S, IsFiniteSet(S), NEW v, NEW y, \A x \in S : v[x][y] * TotalDays(x) \in Int
    PROVE  \E h : /\ Tallies(h, [x \in S |-> v[x][y] * TotalDays(x)], S)
                  /\ CreditSum(v, y, S) = h[S]
<1> DEFINE f == [x \in S |-> v[x][y] * TotalDays(x)]
           Sums(i) == i = [s \in SUBSET S |->
                        IF s = {} THEN 0
                        ELSE v[Pick(s)][y] * TotalDays(Pick(s)) + i[s \ {Pick(s)}]]
           iter == CHOOSE i : Sums(i)
<1>1. PICK h : Tallies(h, f, S)
  <2>1. \A x \in S : f[x] \in Int
    OBVIOUS
  <2> HIDE DEF f
  <2>2. QED
    BY <2>1, TallyExists
<1>2. CreditSum(v, y, S) = iter[S]
  BY DEF CreditSum, MapThenSumSet, MapThenFoldSet, Pick
<1>3. ASSUME NEW i
      PROVE  Tallies(i, f, S) <=> Sums(i)
  <2> DEFINE F == [s \in SUBSET S |-> IF s = {} THEN 0
                                     ELSE f[Pick(s)] + i[s \ {Pick(s)}]]
             G == [s \in SUBSET S |->
                     IF s = {} THEN 0
                     ELSE v[Pick(s)][y] * TotalDays(Pick(s)) + i[s \ {Pick(s)}]]
  <2>1. ASSUME NEW s \in SUBSET S PROVE F[s] = G[s]
    <3>1. CASE s = {}
      BY <3>1
    <3>2. CASE s # {}
      <4>1. Pick(s) \in S
        BY <3>2, PickIn
      <4>2. f[Pick(s)] = v[Pick(s)][y] * TotalDays(Pick(s))
        BY <4>1
      <4> HIDE DEF f
      <4>3. QED
        BY <3>2, <4>2
    <3>3. QED
      BY <3>1, <3>2
  <2>2. F = G
    <3>1. DOMAIN F = SUBSET S /\ DOMAIN G = SUBSET S
      OBVIOUS
    <3>2. F = [s \in SUBSET S |-> F[s]] /\ G = [s \in SUBSET S |-> G[s]]
      OBVIOUS
    <3> HIDE DEF F, G
    <3>3. QED
      BY <2>1, <3>2
  <2>3. QED
    BY <2>2 DEF Tallies
<1> HIDE DEF f, Sums
<1>4. Sums(iter)
  <2>1. Sums(h)
    BY <1>1, <1>3
  <2>2. QED
    BY <2>1
<1>5. Tallies(iter, f, S)
  BY <1>3, <1>4
<1> HIDE DEF iter
<1>6. QED
  BY <1>2, <1>5 DEF f

LEMMA RowTally ==
    ASSUME NEW row, \A y \in Years : row[y] \in Int
    PROVE  \E h : Tallies(h, row, Years) /\ RowSum(row) = h[Years]
<1> DEFINE Sums(i) == i = [s \in SUBSET Years |->
                        IF s = {} THEN 0 ELSE row[Pick(s)] + i[s \ {Pick(s)}]]
           iter == CHOOSE i : Sums(i)
<1>1. PICK h : Tallies(h, row, Years)
  BY TallyExists, FiniteAssumption
<1>2. RowSum(row) = iter[Years]
  BY DEF RowSum, MapThenSumSet, MapThenFoldSet, Pick
<1>3. \A i : Tallies(i, row, Years) <=> Sums(i)
  BY DEF Tallies
<1> HIDE DEF Sums
<1>4. Sums(iter)
  <2>1. Sums(h)
    BY <1>1, <1>3
  <2>2. QED
    BY <2>1
<1>5. Tallies(iter, row, Years)
  BY <1>3, <1>4
<1> HIDE DEF iter
<1>6. QED
  BY <1>2, <1>5

\* A debit of r adds r's days to every sum of debits that r belongs to.
LEMMA DebitAdds ==
    ASSUME NEW S, S \subseteq Requests, NEW r \in S,
           NEW c \in [Requests -> Nat], NEW b \in [Requests -> Nat],
           b[r] = c[r] + 1, \A q \in Requests : q # r => b[q] = c[q]
    PROVE  DebitSum(c, S) \in Int /\ DebitSum(b, S) = DebitSum(c, S) + TotalDays(r)
<1> DEFINE f == [x \in S |-> c[x] * TotalDays(x)]
           g == [x \in S |-> b[x] * TotalDays(x)]
<1>1. IsFiniteSet(S)
  BY FiniteAssumption, FS_Subset
<1>2. \A x \in S : c[x] * TotalDays(x) \in Int /\ b[x] * TotalDays(x) \in Int
  <2> SUFFICES ASSUME NEW x \in S
               PROVE  c[x] * TotalDays(x) \in Int /\ b[x] * TotalDays(x) \in Int
    OBVIOUS
  <2>1. c[x] \in Int /\ b[x] \in Int /\ TotalDays(x) \in Int
    BY TotalDaysInt
  <2>2. QED
    BY <2>1
<1>3. PICK h : Tallies(h, f, S) /\ DebitSum(c, S) = h[S]
  BY <1>1, <1>2, DebitTally
<1>4. PICK k : Tallies(k, g, S) /\ DebitSum(b, S) = k[S]
  BY <1>1, <1>2, DebitTally
<1>5. Bumped(g, f, S, r, TotalDays(r))
  <2>1. TotalDays(r) \in Int /\ c[r] \in Int
    BY TotalDaysInt
  <2>2. (c[r] + 1) * TotalDays(r) = c[r] * TotalDays(r) + TotalDays(r)
    BY <2>1
  <2>3. \A x \in S : f[x] \in Int
    BY <1>2
  <2>4. \A x \in S : x # r => g[x] = f[x]
    OBVIOUS
  <2>5. g[r] = f[r] + TotalDays(r)
    BY <2>2
  <2> HIDE DEF f, g
  <2>6. QED
    BY <2>1, <2>3, <2>4, <2>5 DEF Bumped
<1> HIDE DEF f, g
<1>6. Shifted(k, h, S, r, TotalDays(r))
  BY <1>1, <1>3, <1>4, <1>5, TallyChange
<1>7. h[S] \in Int /\ k[S] = h[S] + TotalDays(r)
  BY <1>6 DEF Shifted
<1>8. QED
  BY <1>3, <1>4, <1>7

\* Debits and credits of other requests leave a sum as it is.
LEMMA DebitKept ==
    ASSUME NEW S, S \subseteq Requests, NEW c \in [Requests -> Nat],
           NEW b, \A q \in S : b[q] = c[q]
    PROVE  DebitSum(c, S) \in Int /\ DebitSum(b, S) = DebitSum(c, S)
<1> DEFINE f == [x \in S |-> c[x] * TotalDays(x)]
           g == [x \in S |-> b[x] * TotalDays(x)]
<1>1. IsFiniteSet(S)
  BY FiniteAssumption, FS_Subset
<1>2. \A x \in S : c[x] * TotalDays(x) \in Int /\ b[x] * TotalDays(x) = c[x] * TotalDays(x)
  <2> SUFFICES ASSUME NEW x \in S
               PROVE  c[x] * TotalDays(x) \in Int /\ b[x] * TotalDays(x) = c[x] * TotalDays(x)
    OBVIOUS
  <2>1. c[x] \in Int /\ TotalDays(x) \in Int /\ b[x] = c[x]
    BY TotalDaysInt
  <2>2. QED
    BY <2>1
<1>3. PICK h : Tallies(h, f, S) /\ DebitSum(c, S) = h[S]
  BY <1>1, <1>2, DebitTally
<1>4. PICK k : Tallies(k, g, S) /\ DebitSum(b, S) = k[S]
  BY <1>1, <1>2, DebitTally
<1>5. Bumped(g, f, S, S, 0)
  BY <1>2 DEF Bumped
<1> HIDE DEF f, g
<1>6. Shifted(k, h, S, S, 0)
  BY <1>1, <1>3, <1>4, <1>5, TallyChange
<1>7. h[S] \in Int /\ k[S] = h[S]
  BY <1>6 DEF Shifted
<1>8. QED
  BY <1>3, <1>4, <1>7

LEMMA CreditKept ==
    ASSUME NEW S, S \subseteq Requests, NEW v \in [Requests -> [Years -> Nat]], NEW y \in Years,
           NEW u, \A q \in S : u[q][y] = v[q][y]
    PROVE  CreditSum(v, y, S) \in Int /\ CreditSum(u, y, S) = CreditSum(v, y, S)
<1> DEFINE f == [x \in S |-> v[x][y] * TotalDays(x)]
           g == [x \in S |-> u[x][y] * TotalDays(x)]
<1>1. IsFiniteSet(S)
  BY FiniteAssumption, FS_Subset
<1>2. \A x \in S : v[x][y] * TotalDays(x) \in Int /\ u[x][y] * TotalDays(x) = v[x][y] * TotalDays(x)
  <2> SUFFICES ASSUME NEW x \in S
               PROVE  v[x][y] * TotalDays(x) \in Int /\ u[x][y] * TotalDays(x) = v[x][y] * TotalDays(x)
    OBVIOUS
  <2>1. v[x] \in [Years -> Nat] /\ TotalDays(x) \in Int /\ u[x][y] = v[x][y]
    BY TotalDaysInt
  <2>2. v[x][y] \in Int
    BY <2>1
  <2>3. QED
    BY <2>1, <2>2
<1>3. PICK h : Tallies(h, f, S) /\ CreditSum(v, y, S) = h[S]
  BY <1>1, <1>2, CreditTally
<1>4. PICK k : Tallies(k, g, S) /\ CreditSum(u, y, S) = k[S]
  BY <1>1, <1>2, CreditTally
<1>5. Bumped(g, f, S, S, 0)
  BY <1>2 DEF Bumped
<1> HIDE DEF f, g
<1>6. Shifted(k, h, S, S, 0)
  BY <1>1, <1>3, <1>4, <1>5, TallyChange
<1>7. h[S] \in Int /\ k[S] = h[S]
  BY <1>6 DEF Shifted
<1>8. QED
  BY <1>3, <1>4, <1>7

\* u has one more credit of r, of the requests of S, in the year y than v.
OneMoreCredit(u, v, y, S, r) ==
    /\ v \in [Requests -> [Years -> Nat]] /\ y \in Years /\ S \subseteq Requests /\ r \in S
    /\ u[r][y] = v[r][y] + 1
    /\ \A q \in S : q # r => u[q][y] = v[q][y]

\* A credit of r adds r's days to every sum of credits of that year that r belongs to.
LEMMA CreditAdds ==
    ASSUME NEW S, NEW v, NEW y, NEW u, NEW r, OneMoreCredit(u, v, y, S, r)
    PROVE  /\ CreditSum(v, y, S) \in Int
           /\ CreditSum(u, y, S) = CreditSum(v, y, S) + TotalDays(r)
<1> USE DEF OneMoreCredit
<1> DEFINE f == [x \in S |-> v[x][y] * TotalDays(x)]
           g == [x \in S |-> u[x][y] * TotalDays(x)]
<1>1. IsFiniteSet(S)
  BY FiniteAssumption, FS_Subset
<1>2. \A x \in S : v[x][y] \in Nat /\ u[x][y] \in Nat /\ TotalDays(x) \in Int
  <2> SUFFICES ASSUME NEW x \in S
               PROVE  v[x][y] \in Nat /\ u[x][y] \in Nat /\ TotalDays(x) \in Int
    OBVIOUS
  <2>1. v[x] \in [Years -> Nat] /\ TotalDays(x) \in Int
    BY TotalDaysInt
  <2>2. v[x][y] \in Nat
    BY <2>1
  <2>3. u[x][y] \in {v[x][y], v[x][y] + 1}
    OBVIOUS
  <2>4. QED
    BY <2>1, <2>2, <2>3
<1>3. \A x \in S : v[x][y] * TotalDays(x) \in Int /\ u[x][y] * TotalDays(x) \in Int
  BY <1>2
<1>4. PICK h : Tallies(h, f, S) /\ CreditSum(v, y, S) = h[S]
  BY <1>1, <1>3, CreditTally
<1>5. PICK k : Tallies(k, g, S) /\ CreditSum(u, y, S) = k[S]
  BY <1>1, <1>3, CreditTally
<1>6. Bumped(g, f, S, r, TotalDays(r))
  <2>1. TotalDays(r) \in Int /\ v[r][y] \in Int
    BY <1>2
  <2>2. (v[r][y] + 1) * TotalDays(r) = v[r][y] * TotalDays(r) + TotalDays(r)
    BY <2>1
  <2>3. \A x \in S : f[x] \in Int
    BY <1>3
  <2>4. \A x \in S : x # r => g[x] = f[x]
    OBVIOUS
  <2>5. g[r] = f[r] + TotalDays(r)
    BY <2>2
  <2> HIDE DEF f, g
  <2>6. QED
    BY <2>1, <2>3, <2>4, <2>5 DEF Bumped
<1> HIDE DEF f, g
<1>7. Shifted(k, h, S, r, TotalDays(r))
  BY <1>1, <1>4, <1>5, <1>6, TallyChange
<1>8. h[S] \in Int /\ k[S] = h[S] + TotalDays(r)
  BY <1>7 DEF Shifted
<1>9. QED
  BY <1>4, <1>5, <1>8

\* A row of zeros sums to zero, and one with a single entry to that entry.
LEMMA RowSums ==
    ASSUME NEW row \in [Years -> Nat], NEW y0 \in Years,
           \A y \in Years : y # y0 => row[y] = 0
    PROVE  RowSum(row) = row[y0]
<1> DEFINE zeros == [y \in Years |-> 0]
           h == [s \in SUBSET Years |-> 0]
<1>1. Tallies(h, zeros, Years)
  <2>1. \A s \in SUBSET Years : s # {} =>
            /\ zeros[Pick(s)] = 0 /\ s \ {Pick(s)} \in SUBSET Years
    BY PickIn
  <2>2. \A s \in SUBSET Years : s # {} => zeros[Pick(s)] + h[s \ {Pick(s)}] = 0
    BY <2>1
  <2> HIDE DEF zeros
  <2>3. QED
    BY <2>2 DEF Tallies
<1>2. PICK k : Tallies(k, row, Years) /\ RowSum(row) = k[Years]
  BY RowTally
<1>3. Bumped(row, zeros, Years, y0, row[y0])
  BY DEF Bumped
<1>4. h[Years] = 0
  OBVIOUS
<1> HIDE DEF zeros, h
<1>5. Shifted(k, h, Years, y0, row[y0])
  BY <1>1, <1>2, <1>3, FiniteAssumption, TallyChange
<1>6. k[Years] = h[Years] + row[y0]
  BY <1>5 DEF Shifted
<1>7. QED
  BY <1>2, <1>4, <1>6

\* Remaining and Charged, before and after a step, are made of these sums.
LEMMA RemainingIs ==
    \A e \in Employees, p \in Policies, y \in Years :
        Remaining(e, p, y)
            = granted[e][p][y] - (DebitSum(consumed, {r \in RequestsOf(e, p) : LedgerYear(r) = y})
                                    - CreditSum(reversed, y, RequestsOf(e, p)))
BY DEF Remaining, DebitSum, CreditSum, MapThenSumSet, MapThenFoldSet

LEMMA RemainingNext ==
    \A e \in Employees, p \in Policies, y \in Years :
        Remaining(e, p, y)'
            = granted'[e][p][y] - (DebitSum(consumed', {r \in RequestsOf(e, p) : LedgerYear(r) = y})
                                    - CreditSum(reversed', y, RequestsOf(e, p)))
BY DEF Remaining, DebitSum, CreditSum, MapThenSumSet, MapThenFoldSet

LEMMA ChargedIs ==
    \A r \in Requests : /\ Charged(r) = consumed[r] - RowSum(reversed[r])
                        /\ Charged(r)' = consumed'[r] - RowSum(reversed'[r])
BY DEF Charged, RowSum, MapThenSumSet, MapThenFoldSet

-----------------------------------------------------------------------------
(* Decisions apart *)

DecisionWrites == {"approve.write", "reject.write", "cancel.write"}

\* No two decisions about one request stand before their writes at once.
RowsApart ==
    \A v, w \in Workers :
        (v # w /\ pc[v] \in DecisionWrites /\ pc[w] \in DecisionWrites) => on[v] # on[w]

\* A submission about to insert has its dates in order.
DatedInv == \A w \in Workers : pc[w] = "submit.insert" => DateStart[on[w]] <= DateEnd[on[w]]

\* What reject and cancel read is still so.
FreshInv ==
    \A w \in Workers :
        /\ pc[w] = "reject.write" => status[on[w]] = "pending"
        /\ pc[w] = "cancel.write" => /\ seen[w] = status[on[w]]
                                     /\ seen[w] \in {"pending", "approved"}

ApartInv == DatedInv /\ FreshInv /\ CancelCreditsOnce

\* How a worker comes to where it is after a step.
LEMMA Whereabouts ==
    ASSUME TypeOK, [Next]_vars, NEW v \in Workers
    PROVE  \/ pc'[v] = pc[v] /\ on'[v] = on[v] /\ seen'[v] = seen[v]
           \/ pc'[v] \in {"idle", "deactivate.write", "submit.policy", "submit.overlap"}
           \/ \E r \in Requests : ApproveBegin(v, r) \/ RejectBegin(v, r) \/ CancelBegin(v, r)
           \/ SubmitOverlap(v) /\ DateStart[on[v]] <= DateEnd[on[v]] /\ pc'[v] = "submit.insert"
              /\ on'[v] = on[v]
           \/ ApproveBalance(v) /\ Covered(on[v]) /\ pc[v] = "approve.balance"
              /\ pc'[v] = "approve.write" /\ on'[v] = on[v] /\ UNCHANGED tables
<1> DEFINE Same == pc'[v] = pc[v] /\ on'[v] = on[v] /\ seen'[v] = seen[v]
           Quiet == pc'[v] \in {"idle", "deactivate.write", "submit.policy", "submit.overlap"}
           Dated == SubmitOverlap(v) /\ DateStart[on[v]] <= DateEnd[on[v]]
                    /\ pc'[v] = "submit.insert" /\ on'[v] = on[v]
           Checked == ApproveBalance(v) /\ Covered(on[v]) /\ pc[v] = "approve.balance"
                      /\ pc'[v] = "approve.write" /\ on'[v] = on[v] /\ UNCHANGED tables
           Read == \E r \in Requests : ApproveBegin(v, r) \/ RejectBegin(v, r) \/ CancelBegin(v, r)
<1> SUFFICES Same \/ Quiet \/ Read \/ Dated \/ Checked
    OBVIOUS
<1>1. ASSUME NEW w \in Workers, End(w)
      PROVE  Same \/ Quiet
  BY <1>1, EndOthers
<1>2. ASSUME NEW w \in Workers, NEW step \in {"submit.overlap", "submit.insert", "approve.write"},
             Advance(w, step)
      PROVE  Same \/ (v = w /\ pc'[v] = step /\ on'[v] = on[v])
  BY <1>2 DEF Advance, TypeOK
<1>3. ASSUME NEW w \in Workers, Proceed(w)
      PROVE  Same \/ Quiet \/ Dated \/ Checked
  <2>1. CASE End(w)
    BY <1>1, <2>1
  <2>2. CASE ~End(w)
    <3>1. CASE SubmitPolicy(w)
      BY <1>2, <2>2, <3>1 DEF SubmitPolicy, Rollback
    <3>2. CASE SubmitOverlap(w)
      <4>1. Advance(w, "submit.insert") /\ DateStart[on[w]] <= DateEnd[on[w]]
        BY <2>2, <3>2 DEF SubmitOverlap, Rollback
      <4>2. QED
        BY <1>2, <3>2, <4>1
    <3>3. CASE ApproveBalance(w)
      <4>1. /\ Advance(w, "approve.write") /\ Covered(on[w]) /\ pc[w] = "approve.balance"
            /\ UNCHANGED tables
        BY <2>2, <3>3 DEF ApproveBalance, Rollback
      <4>2. QED
        BY <1>2, <3>3, <4>1
    <3>4. QED
      BY <1>3, <2>2, <3>1, <3>2, <3>3
         DEF Proceed, SubmitInsert, ApproveWrite, RejectWrite, CancelWrite, DeactivateWrite
  <2>3. QED
    BY <2>1, <2>2
<1>4. ASSUME NEW w \in Workers, NEW r \in Requests, SubmitBegin(w, r)
      PROVE  Same \/ Quiet
  BY <1>4 DEF SubmitBegin, Begin, TypeOK
<1>5. ASSUME NEW w \in Workers, NEW r \in Requests,
             ApproveBegin(w, r) \/ RejectBegin(w, r) \/ CancelBegin(w, r)
      PROVE  Same \/ Read
  BY <1>5, ZenonT(60) DEF ApproveBegin, RejectBegin, CancelBegin, Begin, TypeOK
<1>6. ASSUME NEW w \in Workers, NEW p \in Policies, DeactivateBegin(w, p)
      PROVE  Same \/ Quiet
  BY <1>6 DEF DeactivateBegin, Begin, TypeOK
<1>7. UNCHANGED session => Same
  BY DEF session
<1>8. ASSUME NEW w \in Workers, Crash(w)
      PROVE  Same \/ Quiet
  BY <1>1, <1>8 DEF Crash, Rollback
<1> HIDE DEF Same, Quiet, Read, Dated, Checked
<1>9. ASSUME NEW w \in Workers, Arrive(w)
      PROVE  Same \/ Quiet \/ Read
  BY <1>4, <1>5, <1>6, <1>7, <1>9
     DEF Arrive, ApproveAgain, UpdatePolicy, AdjustBalance, DeleteEmployee
<1>10. NewYear \/ UNCHANGED vars => Same
  BY <1>7 DEF NewYear, vars
<1>11. QED
  BY <1>3, <1>8, <1>9, <1>10 DEF Next

\* Only an approval debits, only a cancellation credits, and only an adjustment
\* changes the rest of the ledger.
LEMMA LedgerSteps ==
    ASSUME [Next]_vars
    PROVE  /\ consumed' = consumed \/ \E w \in Workers : ApproveWrite(w)
           /\ reversed' = reversed \/ \E w \in Workers : CancelWrite(w)
           /\ granted' = granted \/ \E w \in Workers : "adjust" \in Handles[w] /\ pc[w] = "idle"
                                                       /\ UNCHANGED session
<1> USE DEF tables, session, Rollback
<1>1. ASSUME NEW w \in Workers, Arrive(w)
      PROVE  /\ consumed' = consumed /\ reversed' = reversed
             /\ granted' = granted \/ ("adjust" \in Handles[w] /\ pc[w] = "idle"
                                       /\ UNCHANGED session)
  BY <1>1 DEF Arrive, SubmitBegin, ApproveBegin, ApproveAgain, RejectBegin, CancelBegin,
     DeactivateBegin, UpdatePolicy, AdjustBalance, DeleteEmployee
<1>2. ASSUME NEW w \in Workers,
             \/ SubmitPolicy(w) \/ SubmitOverlap(w) \/ SubmitInsert(w) \/ ApproveBalance(w)
             \/ RejectWrite(w) \/ DeactivateWrite(w) \/ Crash(w)
      PROVE  consumed' = consumed /\ reversed' = reversed /\ granted' = granted
  BY <1>2 DEF SubmitPolicy, SubmitOverlap, SubmitInsert, ApproveBalance, RejectWrite,
     DeactivateWrite, Crash
<1>3. ASSUME NEW w \in Workers, ApproveWrite(w)
      PROVE  reversed' = reversed /\ granted' = granted
  BY <1>3 DEF ApproveWrite
<1>4. ASSUME NEW w \in Workers, CancelWrite(w)
      PROVE  consumed' = consumed /\ granted' = granted
  BY <1>4 DEF CancelWrite
<1>5. NewYear \/ UNCHANGED vars => consumed' = consumed /\ reversed' = reversed /\ granted' = granted
  BY DEF NewYear, vars
<1>6. QED
  BY <1>1, <1>2, <1>3, <1>4, <1>5 DEF Next, Proceed

LEMMA DatedStep == TypeOK /\ DatedInv /\ [Next]_vars => DatedInv'
<1> SUFFICES ASSUME TypeOK, DatedInv, [Next]_vars, NEW w \in Workers, pc'[w] = "submit.insert"
             PROVE  DateStart[on'[w]] <= DateEnd[on'[w]]
    BY DEF DatedInv
<1>1. ~ \E r \in Requests : ApproveBegin(w, r) \/ RejectBegin(w, r) \/ CancelBegin(w, r)
  BY DEF TypeOK, ApproveBegin, RejectBegin, CancelBegin, Begin
<1>2. QED
  BY <1>1, Whereabouts DEF DatedInv

\* What a decision about to write knows of its row outlives the steps of the others.
LEMMA OthersLeaveRow ==
    ASSUME IInv, RowsApart, [Next]_vars, NEW w \in Workers,
           pc[w] \in DecisionWrites, pc'[w] = pc[w]
    PROVE  status'[on[w]] = status[on[w]]
<1>1. TypeOK
  BY DEF IInv
<1>2. on[w] \in Requests /\ status[on[w]] # "absent"
  BY <1>1, RowInHand DEF DecisionWrites, RequestSteps, IInv, LockInv, StaleInv, ApproveSteps
<1>3. ASSUME NEW v \in Workers, ApproveWrite(v) \/ RejectWrite(v) \/ CancelWrite(v)
      PROVE  status'[on[w]] = status[on[w]]
  <2>1. pc[v] \in DecisionWrites /\ End(v)
    BY <1>3 DEF DecisionWrites, ApproveWrite, RejectWrite, CancelWrite
  <2>2. v # w
    BY <1>1, <2>1, EndOthers DEF DecisionWrites
  <2>3. on[v] # on[w]
    BY <2>1, <2>2 DEF RowsApart
  <2>4. QED
    BY <1>1, <1>2, <1>3, <2>3 DEF ApproveWrite, RejectWrite, CancelWrite, TypeOK
<1>4. ASSUME NEW v \in Workers, SubmitInsert(v)
      PROVE  status'[on[w]] = status[on[w]]
  <2>1. status[on[v]] = "absent"
    BY <1>4 DEF SubmitInsert, IInv, LockInv, SubmitSteps
  <2>2. QED
    BY <1>1, <1>2, <1>4, <2>1 DEF SubmitInsert, TypeOK
<1>5. QED
  BY <1>3, <1>4, StatusSteps

LEMMA FreshStep ==
    ASSUME IInv, RowsApart, FreshInv, [Next]_vars
    PROVE  FreshInv'
<1>1. TypeOK
  BY DEF IInv
<1>2. SUFFICES ASSUME NEW w \in Workers
               PROVE  /\ pc'[w] = "reject.write" => status'[on'[w]] = "pending"
                      /\ pc'[w] = "cancel.write" => /\ seen'[w] = status'[on'[w]]
                                                    /\ seen'[w] \in {"pending", "approved"}
    BY DEF FreshInv
<1>3. CASE pc'[w] = pc[w] /\ on'[w] = on[w] /\ seen'[w] = seen[w]
  <2>1. CASE pc[w] \in {"reject.write", "cancel.write"}
    <3>1. status'[on[w]] = status[on[w]]
      BY <1>3, <2>1, OthersLeaveRow DEF DecisionWrites
    <3>2. QED
      BY <1>3, <3>1 DEF FreshInv
  <2>2. QED
    BY <1>3, <2>1
<1>4. ASSUME NEW r \in Requests, ApproveBegin(w, r) \/ RejectBegin(w, r) \/ CancelBegin(w, r)
      PROVE  /\ pc'[w] = "reject.write" => status'[on'[w]] = "pending"
             /\ pc'[w] = "cancel.write" => /\ seen'[w] = status'[on'[w]]
                                           /\ seen'[w] \in {"pending", "approved"}
  BY <1>1, <1>4 DEF ApproveBegin, RejectBegin, CancelBegin, Begin, AllowedFrom, tables, TypeOK
<1>5. QED
  BY <1>1, <1>3, <1>4, Whereabouts

\* A cancellation that read what still holds: the request was pending and has no
\* entries, or it was approved and gets its one credit.
LEMMA CancelExact ==
    ASSUME IInv, FreshInv, NEW w \in Workers, CancelWrite(w)
    PROVE  /\ on[w] \in Requests
           /\ status[on[w]] \in {"pending", "approved"}
           /\ status' = [status EXCEPT ![on[w]] = "cancelled"]
           /\ consumed' = consumed
           /\ \A r \in Requests : r # on[w] => reversed'[r] = reversed[r]
           /\ status[on[w]] = "pending" => consumed[on[w]] = 0 /\ reversed' = reversed
           /\ status[on[w]] = "approved" =>
                 /\ consumed[on[w]] = 1
                 /\ today \in Years
                 /\ reversed[on[w]] = [z \in Years |-> 0]
                 /\ reversed'[on[w]] = [z \in Years |-> IF z = today THEN 1 ELSE 0]
<1>1. TypeOK /\ pc[w] = "cancel.write"
  BY DEF IInv, CancelWrite
<1>2. on[w] \in Requests
  BY <1>1, RowInHand DEF RequestSteps
<1>3. seen[w] = status[on[w]] /\ status[on[w]] \in {"pending", "approved"}
  BY <1>1 DEF FreshInv
<1>4. /\ status' = [status EXCEPT ![on[w]] = "cancelled"]
      /\ consumed' = consumed
  BY DEF CancelWrite
<1>5. \A r \in Requests : r # on[w] => reversed'[r] = reversed[r]
  BY <1>1 DEF CancelWrite, TypeOK
<1>6. status[on[w]] = "pending" => consumed[on[w]] = 0 /\ reversed' = reversed
  BY <1>2, <1>3 DEF CancelWrite, WasApproved, IInv, DebitInv, DebitedOnce
<1>7. ASSUME status[on[w]] = "approved"
      PROVE  /\ consumed[on[w]] = 1
             /\ today \in Years
             /\ reversed[on[w]] = [z \in Years |-> 0]
             /\ reversed'[on[w]] = [z \in Years |-> IF z = today THEN 1 ELSE 0]
  <2>1. consumed[on[w]] = 1 /\ \A z \in Years : reversed[on[w]][z] = 0
    BY <1>2, <1>7 DEF IInv, DebitInv, DebitedOnce
  <2>2. today \in Years /\ reversed[on[w]] \in [Years -> Nat]
    BY <1>1, <1>2 DEF TypeOK
  <2>3. reversed[on[w]] = [z \in Years |-> 0]
    BY <2>1, <2>2
  <2>4. reversed'[on[w]] = [reversed[on[w]] EXCEPT ![today] = @ + 1]
    BY <1>1, <1>2, <1>3, <1>7 DEF CancelWrite, WasApproved, TypeOK
  <2>5. QED
    BY <2>1, <2>2, <2>3, <2>4
<1>8. QED
  BY <1>2, <1>3, <1>4, <1>5, <1>6, <1>7

LEMMA CreditsStep ==
    ASSUME IInv, FreshInv, CancelCreditsOnce, [Next]_vars
    PROVE  CancelCreditsOnce'
<1>1. TypeOK
  BY DEF IInv
<1> SUFFICES ASSUME NEW r \in Requests, status'[r] = "cancelled", consumed'[r] = 1
             PROVE  \E y \in Years : reversed'[r] = [z \in Years |-> IF z = y THEN 1 ELSE 0]
    BY DEF CancelCreditsOnce
<1>2. CASE \E w \in Workers : CancelWrite(w)
  <2>1. PICK w \in Workers : CancelWrite(w)
    BY <1>2
  <2>2. CASE r = on[w]
    BY <2>1, <2>2, CancelExact
  <2>3. CASE r # on[w]
    <3>1. status'[r] = status[r] /\ consumed'[r] = consumed[r] /\ reversed'[r] = reversed[r]
      <4>1. /\ status' = [status EXCEPT ![on[w]] = "cancelled"] /\ consumed' = consumed
            /\ \A q \in Requests : q # on[w] => reversed'[q] = reversed[q]
        BY <2>1, CancelExact
      <4>2. status \in [Requests -> Status \cup {"absent"}]
        BY <1>1 DEF TypeOK
      <4>3. QED
        BY <2>3, <4>1, <4>2
    <3>2. QED
      BY <3>1 DEF CancelCreditsOnce
  <2>4. QED
    BY <2>2, <2>3
<1>3. CASE ~ \E w \in Workers : CancelWrite(w)
  <2>1. reversed' = reversed
    BY <1>3, LedgerSteps
  <2>2. status[r] = "cancelled" /\ consumed'[r] = consumed[r]
    <3>1. CASE \E w \in Workers : ApproveWrite(w)
      <4>1. PICK w \in Workers : ApproveWrite(w)
        BY <3>1
      <4>2. on[w] \in Requests
        BY <1>1, <4>1, RowInHand DEF ApproveWrite, RequestSteps
      <4>3. r # on[w]
        BY <1>1, <4>1, <4>2 DEF ApproveWrite, TypeOK
      <4>4. QED
        BY <1>1, <4>1, <4>3 DEF ApproveWrite, TypeOK
    <3>2. CASE ~ \E w \in Workers : ApproveWrite(w)
      <4>1. consumed' = consumed
        BY <3>2, LedgerSteps
      <4>2. ASSUME NEW w \in Workers, SubmitInsert(w) \/ RejectWrite(w)
            PROVE  status[r] = "cancelled"
        BY <1>1, <4>2 DEF SubmitInsert, RejectWrite, TypeOK
      <4>3. QED
        BY <1>3, <3>2, <4>1, <4>2, StatusSteps
    <3>3. QED
      BY <3>1, <3>2
  <2>3. QED
    BY <2>1, <2>2 DEF CancelCreditsOnce
<1>4. QED
  BY <1>2, <1>3

LEMMA ApartInit == Init => ApartInv
BY DEF Init, ApartInv, DatedInv, FreshInv, CancelCreditsOnce

LEMMA ApartStep == IInv /\ RowsApart /\ ApartInv /\ [Next]_vars => ApartInv'
<1> SUFFICES ASSUME IInv, RowsApart, ApartInv, [Next]_vars
             PROVE  ApartInv'
    OBVIOUS
<1>1. DatedInv'
  BY DatedStep DEF ApartInv, IInv
<1>2. FreshInv'
  BY FreshStep DEF ApartInv
<1>3. CancelCreditsOnce'
  BY CreditsStep DEF ApartInv
<1>4. QED
  BY <1>1, <1>2, <1>3 DEF ApartInv

\* While the decisions about each request keep apart, the rows that reject and
\* cancel read without a lock are still what they read when they write
\* (services.py:223-306).
THEOREM ApartInvHolds == Spec /\ []RowsApart => []ApartInv
<1>1. QED
  BY ApartInit, ApartStep, InvHolds, PTL DEF Spec

\* As long as no two decisions about one request overlap, a cancelled request that
\* was debited has been credited back, and once; decisions about different requests
\* may overlap in any number (services.py:260-306).
THEOREM CancelCreditsOnceHolds == Spec /\ []RowsApart => []CancelCreditsOnce
<1>1. ApartInv => CancelCreditsOnce
  BY DEF ApartInv
<1>2. QED
  BY <1>1, ApartInvHolds, PTL

-----------------------------------------------------------------------------
(* The lifecycle *)

\* The variable charged of the lifecycle.
chargedNow == [r \in Requests |-> Charged(r)]

RowOfZeros == [z \in Years |-> 0]
RowOfOne(y) == [z \in Years |-> IF z = y THEN 1 ELSE 0]

LEMMA ZeroRow == Years # {} => RowSum(RowOfZeros) = 0
<1> SUFFICES ASSUME NEW y0 \in Years PROVE RowSum(RowOfZeros) = 0
  OBVIOUS
<1>1. /\ RowOfZeros \in [Years -> Nat] /\ RowOfZeros[y0] = 0
      /\ \A y \in Years : y # y0 => RowOfZeros[y] = 0
  BY DEF RowOfZeros
<1>2. QED
  BY <1>1, RowSums

LEMMA OneRow == \A y0 \in Years : RowSum(RowOfOne(y0)) = 1
<1> SUFFICES ASSUME NEW y0 \in Years PROVE RowSum(RowOfOne(y0)) = 1
  OBVIOUS
<1>1. /\ RowOfOne(y0) \in [Years -> Nat] /\ RowOfOne(y0)[y0] = 1
      /\ \A y \in Years : y # y0 => RowOfOne(y0)[y] = 0
  BY DEF RowOfOne
<1>2. QED
  BY <1>1, RowSums

\* A request whose reversals are all zero is charged its debits.
LEMMA ChargedPlain ==
    ASSUME NEW r \in Requests, Years # {}, reversed[r] = RowOfZeros
    PROVE  Charged(r) = consumed[r] - 0
BY ChargedIs, ZeroRow

LEMMA ChargedPlainNext ==
    ASSUME NEW r \in Requests, reversed'[r] = RowOfZeros, Years # {}
    PROVE  Charged(r)' = consumed'[r] - 0
BY ChargedIs, ZeroRow

\* One that was credited once is charged one less.
LEMMA ChargedCredited ==
    ASSUME NEW r \in Requests, NEW y \in Years, reversed'[r] = RowOfOne(y)
    PROVE  Charged(r)' = consumed'[r] - 1
BY ChargedIs, OneRow

\* The charge of a request depends on its own entries alone.
LEMMA ChargedKept ==
    ASSUME NEW r \in Requests, consumed'[r] = consumed[r], reversed'[r] = reversed[r]
    PROVE  Charged(r)' = Charged(r)
BY ChargedIs

\* A request that was never approved has an empty row in the ledger.
LEMMA NeverReversed ==
    ASSUME IInv, NEW r \in Requests, status[r] = "pending"
    PROVE  consumed[r] = 0 /\ reversed[r] = [z \in Years |-> 0]
<1>1. consumed[r] = 0
  BY DEF IInv, DebitInv, DebitedOnce
<1>2. ~ \E y \in Years : reversed[r][y] > 0
  BY <1>1 DEF IInv, DebitInv, ReversalBacked
<1>3. reversed[r] \in [Years -> Nat]
  BY DEF IInv, TypeOK
<1>4. \A y \in Years : reversed[r][y] = 0
  BY <1>2, <1>3
<1>5. QED
  BY <1>1, <1>3, <1>4

LEMMA LifecycleInit == Init => Lifecycle!Init
<1> SUFFICES ASSUME Init PROVE Lifecycle!Init
  OBVIOUS
<1>1. \A r \in Requests : Charged(r) = 0
  <2> SUFFICES ASSUME NEW r \in Requests PROVE Charged(r) = 0
    OBVIOUS
  <2>1. Years # {} /\ reversed[r] = RowOfZeros /\ consumed[r] = 0
    BY DEF Init, RowOfZeros
  <2>2. QED
    BY <2>1, ChargedPlain
<1>2. QED
  BY <1>1 DEF Init, Lifecycle!Init

\* Every step is one of the lifecycle or changes neither status nor charge.
LEMMA LifecycleStep ==
    ASSUME IInv, ApartInv, [Next]_vars
    PROVE  [Lifecycle!Next]_(Lifecycle!vars)
<1>1. TypeOK /\ today \in Years
  BY DEF IInv, TypeOK
<1> SUFFICES Lifecycle!Next \/ (status' = status /\ chargedNow' = chargedNow)
  BY DEF Lifecycle!vars, chargedNow
<1>2. ASSUME consumed' = consumed, reversed' = reversed
      PROVE  chargedNow' = chargedNow
  BY <1>2, ChargedKept DEF chargedNow
<1>3. ASSUME NEW w \in Workers, SubmitInsert(w)
      PROVE  Lifecycle!Next
  <2>1. on[w] \in Requests /\ status[on[w]] = "absent"
    BY <1>1, <1>3, RowInHand DEF SubmitInsert, RequestSteps, IInv, LockInv, SubmitSteps
  <2>2. ~Overlapping(on[w]) /\ DateStart[on[w]] <= DateEnd[on[w]]
    BY <1>3 DEF SubmitInsert, IInv, ClearInv, ApartInv, DatedInv
  <2>3. status' = [status EXCEPT ![on[w]] = "pending"] /\ chargedNow' = chargedNow
    BY <1>2, <1>3 DEF SubmitInsert
  <2>4. Lifecycle!Submit(on[w])
    BY <2>1, <2>2, <2>3 DEF Lifecycle!Submit, Lifecycle!Move, Lifecycle!IsLive,
       Lifecycle!SameDays, Overlapping, Live, Intersect, chargedNow
  <2>5. QED
    BY <2>1, <2>4 DEF Lifecycle!Next
<1>4. ASSUME NEW w \in Workers, ApproveWrite(w)
      PROVE  Lifecycle!Next
  <2>1. on[w] \in Requests /\ status[on[w]] = "pending"
    BY <1>1, <1>4, RowInHand DEF ApproveWrite, RequestSteps, IInv, LockInv, ApproveSteps
  <2>2. PICK r \in Requests : r = on[w]
    BY <2>1
  <2>3. consumed[r] = 0 /\ reversed[r] = RowOfZeros
    BY <2>1, <2>2, NeverReversed DEF RowOfZeros
  <2>4. /\ consumed' = [consumed EXCEPT ![r] = @ + 1] /\ reversed' = reversed
        /\ status' = [status EXCEPT ![r] = "approved"]
    BY <1>4, <2>2 DEF ApproveWrite
  <2>5. consumed'[r] = 1 /\ \A q \in Requests : q # r => consumed'[q] = consumed[q]
    BY <1>1, <2>3, <2>4 DEF TypeOK
  <2>6. Charged(r)' = 1
    <3>1. Charged(r)' = consumed'[r] - 0
      BY <1>1, <2>3, <2>4, ChargedPlainNext
    <3>2. QED
      BY <2>5, <3>1
  <2>7. \A q \in Requests : q # r => Charged(q)' = Charged(q)
    BY <2>4, <2>5, ChargedKept
  <2>8. chargedNow' = [chargedNow EXCEPT ![r] = 1]
    BY <2>6, <2>7 DEF chargedNow
  <2>9. Lifecycle!Approve(r)
    BY <2>1, <2>2, <2>4, <2>8 DEF Lifecycle!Approve, Lifecycle!Move, chargedNow
  <2>10. QED
    BY <2>9 DEF Lifecycle!Next
<1>5. ASSUME NEW w \in Workers, RejectWrite(w)
      PROVE  Lifecycle!Next
  <2>1. on[w] \in Requests /\ status[on[w]] = "pending"
    BY <1>1, <1>5, RowInHand DEF RejectWrite, RequestSteps, ApartInv, FreshInv
  <2>2. status' = [status EXCEPT ![on[w]] = "rejected"] /\ chargedNow' = chargedNow
    BY <1>2, <1>5 DEF RejectWrite
  <2>3. Lifecycle!Reject(on[w])
    BY <2>1, <2>2 DEF Lifecycle!Reject, Lifecycle!Move, chargedNow
  <2>4. QED
    BY <2>1, <2>3 DEF Lifecycle!Next
<1>6. ASSUME NEW w \in Workers, CancelWrite(w)
      PROVE  Lifecycle!Next
  <2>1. FreshInv
    BY DEF ApartInv
  <2>2. /\ on[w] \in Requests
        /\ status[on[w]] \in {"pending", "approved"}
        /\ status' = [status EXCEPT ![on[w]] = "cancelled"]
        /\ consumed' = consumed
    BY <1>6, <2>1, CancelExact
  <2>3. CASE status[on[w]] = "pending"
    <3>1. chargedNow' = chargedNow
      BY <1>2, <1>6, <2>1, <2>2, <2>3, CancelExact
    <3>2. Lifecycle!Withdraw(on[w])
      BY <2>2, <2>3, <3>1 DEF Lifecycle!Withdraw, Lifecycle!Move, chargedNow
    <3>3. QED
      BY <2>2, <3>2 DEF Lifecycle!Next
  <2>4. CASE status[on[w]] = "approved"
    <3>1. PICK r \in Requests : r = on[w]
      BY <2>2
    <3>2. /\ consumed[r] = 1
          /\ reversed'[r] = RowOfOne(today)
          /\ \A q \in Requests : q # r => reversed'[q] = reversed[q]
      BY <1>6, <2>1, <2>4, <3>1, CancelExact DEF RowOfOne
    <3>3. Charged(r)' = 0
      <4>1. Charged(r)' = consumed'[r] - 1
        BY <1>1, <3>2, ChargedCredited
      <4>2. QED
        BY <2>2, <3>2, <4>1
    <3>4. \A q \in Requests : q # r => Charged(q)' = Charged(q)
      BY <2>2, <3>2, ChargedKept
    <3>5. chargedNow' = [chargedNow EXCEPT ![r] = 0]
      BY <3>3, <3>4 DEF chargedNow
    <3>6. Lifecycle!Cancel(r)
      BY <2>2, <2>4, <3>1, <3>5 DEF Lifecycle!Cancel, Lifecycle!Move, chargedNow
    <3>7. QED
      BY <3>6 DEF Lifecycle!Next
  <2>5. QED
    BY <2>2, <2>3, <2>4
<1>7. CASE ~ \E w \in Workers : SubmitInsert(w) \/ ApproveWrite(w) \/ RejectWrite(w) \/ CancelWrite(w)
  BY <1>2, <1>7, StatusSteps, LedgerSteps
<1>8. QED
  BY <1>3, <1>4, <1>5, <1>6, <1>7

\* As long as no two decisions about one request overlap, the handlers implement the
\* atomic lifecycle: every decision moves the status and the charge of its request
\* together, for any number of workers deciding, submitting and administering at
\* once (services.py:67-306).
THEOREM ImplementsLifecycleHolds == Spec /\ []RowsApart => ImplementsLifecycle
<1>1. IInv /\ ApartInv /\ [Next]_vars => [Lifecycle!Next]_(Lifecycle!vars)
  BY LifecycleStep
<1>2. QED
  BY <1>1, LifecycleInit, InvHolds, ApartInvHolds, PTL
     DEF Spec, ImplementsLifecycle, Lifecycle!Spec

-----------------------------------------------------------------------------
(* The balance *)

\* The ledger that the write of w goes to: an approval debits the year of the
\* request, a cancellation credits the current one.
LedgerOf(w) ==
    <<EmployeeOf[on[w]], PolicyOf[on[w]],
      IF pc[w] = "approve.write" THEN LedgerYear(on[w]) ELSE today>>

\* The write of w takes days from a ledger.  A request may be for a negative number
\* of hours (schemas.py:116 has no bound), so a credit may take too.
Taking(w) ==
    \/ pc[w] = "approve.write" /\ TotalDays(on[w]) > 0
    \/ pc[w] = "cancel.write" /\ WasApproved(w) /\ TotalDays(on[w]) < 0

\* Nobody is about to take days from a ledger whose balance an approval has checked.
LedgersApart ==
    \A v, w \in Workers :
        (v # w /\ pc[w] = "approve.write" /\ Taking(v)) => LedgerOf(v) # LedgerOf(w)

Grant(r) == granted[EmployeeOf[r]][PolicyOf[r]][LedgerYear(r)]

\* No adjustment takes days from a ledger between the check and the write of an approval.
GrantStands ==
    \A w \in Workers : (pc[w] = "approve.write" /\ pc'[w] = "approve.write" /\ on'[w] = on[w])
                           => Grant(on[w])' >= Grant(on[w])

\* The balance an approval has checked is still there.
CoverInv == \A w \in Workers : pc[w] = "approve.write" => Covered(on[w])

LEMMA GrantType ==
    ASSUME TypeOK, NEW r \in Requests
    PROVE  Grant(r) \in Int
<1>1. EmployeeOf[r] \in Employees /\ PolicyOf[r] \in Policies /\ LedgerYear(r) \in Years
  BY PayloadAssumption DEF LedgerYear
<1>2. granted[EmployeeOf[r]] \in [Policies -> [Years -> Int]]
  BY <1>1 DEF TypeOK
<1>3. granted[EmployeeOf[r]][PolicyOf[r]] \in [Years -> Int]
  BY <1>1, <1>2
<1>4. QED
  BY <1>1, <1>3 DEF Grant

\* The debits of the ledger of r.
Debited(r) == {q \in RequestsOf(EmployeeOf[r], PolicyOf[r]) : LedgerYear(q) = LedgerYear(r)}

\* The balance of the ledger of r, before and after a step, as sums.
LEMMA BalanceOf ==
    ASSUME NEW r \in Requests
    PROVE  LET e == EmployeeOf[r]
               p == PolicyOf[r]
               y == LedgerYear(r)
           IN  /\ Debited(r) \subseteq Requests /\ RequestsOf(e, p) \subseteq Requests
               /\ y \in Years /\ r \in Debited(r)
               /\ Remaining(e, p, y) = Grant(r) - (DebitSum(consumed, Debited(r))
                                                    - CreditSum(reversed, y, RequestsOf(e, p)))
               /\ Remaining(e, p, y)' = Grant(r)' - (DebitSum(consumed', Debited(r))
                                                      - CreditSum(reversed', y, RequestsOf(e, p)))
<1> DEFINE e == EmployeeOf[r]
           p == PolicyOf[r]
           y == LedgerYear(r)
<1>1. e \in Employees /\ p \in Policies /\ y \in Years
  BY PayloadAssumption DEF LedgerYear
<1>2. r \in Debited(r) /\ Debited(r) \subseteq Requests /\ RequestsOf(e, p) \subseteq Requests
  BY DEF Debited, RequestsOf
<1>3. /\ Debited(r) = {q \in RequestsOf(e, p) : LedgerYear(q) = y}
      /\ Grant(r) = granted[e][p][y] /\ Grant(r)' = granted'[e][p][y]
  BY DEF Debited, Grant
<1> HIDE DEF e, p, y
<1>4. Remaining(e, p, y) = Grant(r) - (DebitSum(consumed, Debited(r))
                                        - CreditSum(reversed, y, RequestsOf(e, p)))
  BY <1>1, <1>3, RemainingIs
<1>5. Remaining(e, p, y)' = Grant(r)' - (DebitSum(consumed', Debited(r))
                                          - CreditSum(reversed', y, RequestsOf(e, p)))
  BY <1>1, <1>3, RemainingNext
<1>6. QED
  BY <1>1, <1>2, <1>4, <1>5 DEF e, p, y

\* A debit beside an approval that stands before its write is not of its ledger, or
\* adds days to it.
LEMMA DebitsStand ==
    ASSUME TypeOK, LedgersApart, [Next]_vars,
           NEW w \in Workers, pc[w] = "approve.write", pc'[w] = pc[w], NEW r, r = on[w]
    PROVE  /\ DebitSum(consumed, Debited(r)) \in Int /\ DebitSum(consumed', Debited(r)) \in Int
           /\ DebitSum(consumed', Debited(r)) <= DebitSum(consumed, Debited(r))
<1>1. r \in Requests /\ Debited(r) \subseteq Requests
  BY RowInHand, BalanceOf DEF RequestSteps
<1>2. consumed \in [Requests -> Nat] /\ consumed' \in [Requests -> Nat]
  BY TypeStep DEF TypeOK
<1>3. ASSUME \A q \in Debited(r) : consumed'[q] = consumed[q]
      PROVE  DebitSum(consumed, Debited(r)) \in Int
             /\ DebitSum(consumed', Debited(r)) = DebitSum(consumed, Debited(r))
  BY <1>1, <1>2, <1>3, DebitKept
<1>4. CASE \E v \in Workers : ApproveWrite(v)
  <2>1. PICK v \in Workers : ApproveWrite(v)
    BY <1>4
  <2>2. v # w /\ pc[v] = "approve.write"
    BY <2>1, EndOthers DEF ApproveWrite
  <2>3. PICK q \in Requests : q = on[v]
    BY <2>2, RowInHand DEF RequestSteps
  <2>4. /\ consumed'[q] = consumed[q] + 1
        /\ \A x \in Requests : x # q => consumed'[x] = consumed[x]
    BY <1>2, <2>1, <2>3 DEF ApproveWrite
  <2>5. CASE q \in Debited(r)
    <3>1. LedgerOf(v) = LedgerOf(w)
      BY <2>2, <2>3, <2>5 DEF LedgerOf, Debited, RequestsOf
    <3>2. ~Taking(v)
      BY <2>2, <3>1 DEF LedgersApart
    <3>3. TotalDays(q) \in Int /\ TotalDays(q) <= 0
      BY <2>2, <2>3, <3>2, TotalDaysInt DEF Taking
    <3>4. DebitSum(consumed, Debited(r)) \in Int
          /\ DebitSum(consumed', Debited(r)) = DebitSum(consumed, Debited(r)) + TotalDays(q)
      BY <1>1, <1>2, <2>4, <2>5, DebitAdds
    <3>5. QED
      BY <3>3, <3>4
  <2>6. CASE q \notin Debited(r)
    BY <1>1, <1>3, <2>4, <2>6
  <2>7. QED
    BY <2>5, <2>6
<1>5. CASE ~ \E v \in Workers : ApproveWrite(v)
  BY <1>3, <1>5, LedgerSteps
<1>6. QED
  BY <1>4, <1>5

\* A credit meanwhile adds days, or goes to another ledger.
LEMMA CreditsStand ==
    ASSUME TypeOK, LedgersApart, [Next]_vars,
           NEW w \in Workers, pc[w] = "approve.write", pc'[w] = pc[w], NEW r, r = on[w],
           NEW y, y = LedgerYear(r), NEW C, C = RequestsOf(EmployeeOf[r], PolicyOf[r])
    PROVE  /\ CreditSum(reversed, y, C) \in Int /\ CreditSum(reversed', y, C) \in Int
           /\ CreditSum(reversed', y, C) >= CreditSum(reversed, y, C)
<1>1. r \in Requests /\ C \subseteq Requests /\ y \in Years
  BY RowInHand, BalanceOf DEF RequestSteps
<1>2. reversed \in [Requests -> [Years -> Nat]]
  BY DEF TypeOK
<1>3. ASSUME \A q \in C : reversed'[q][y] = reversed[q][y]
      PROVE  CreditSum(reversed, y, C) \in Int
             /\ CreditSum(reversed', y, C) = CreditSum(reversed, y, C)
  BY <1>1, <1>2, <1>3, CreditKept
<1>4. CASE \E v \in Workers : CancelWrite(v) /\ WasApproved(v)
  <2>1. PICK v \in Workers : CancelWrite(v) /\ WasApproved(v)
    BY <1>4
  <2>2. v # w /\ pc[v] = "cancel.write"
    BY <2>1, EndOthers DEF CancelWrite
  <2>3. PICK q \in Requests : q = on[v]
    BY <2>2, RowInHand DEF RequestSteps
  <2>4. reversed' = [reversed EXCEPT ![q][today] = @ + 1] /\ today \in Years
    BY <2>1, <2>3 DEF CancelWrite, TypeOK
  <2>5. CASE q \in C /\ today = y
    <3>1. LedgerOf(v) = LedgerOf(w)
      BY <2>2, <2>3, <2>5 DEF LedgerOf, RequestsOf
    <3>2. ~Taking(v)
      BY <2>2, <3>1 DEF LedgersApart
    <3>3. TotalDays(q) \in Int /\ TotalDays(q) >= 0
      BY <2>1, <2>2, <2>3, <3>2, TotalDaysInt DEF Taking
    <3>4. /\ reversed'[q][y] = reversed[q][y] + 1
          /\ \A x \in C : x # q => reversed'[x][y] = reversed[x][y]
      <4>1. reversed[q] \in [Years -> Nat]
        BY <1>2
      <4>2. reversed'[q] = [reversed[q] EXCEPT ![y] = @ + 1]
        BY <1>2, <2>4, <2>5
      <4>3. \A x \in C : x # q => reversed'[x] = reversed[x]
        BY <1>1, <1>2, <2>4
      <4>4. QED
        BY <1>1, <4>1, <4>2, <4>3
    <3>5. /\ CreditSum(reversed, y, C) \in Int
          /\ CreditSum(reversed', y, C) = CreditSum(reversed, y, C) + TotalDays(q)
      <4>1. q \in C /\ C \subseteq Requests /\ y \in Years
        BY <1>1, <2>5
      <4>2. OneMoreCredit(reversed', reversed, y, C, q)
        BY <1>2, <3>4, <4>1 DEF OneMoreCredit
      <4>3. QED
        BY <4>2, CreditAdds
    <3>6. QED
      BY <3>3, <3>5
  <2>6. CASE ~(q \in C /\ today = y)
    <3>1. \A x \in C : reversed'[x][y] = reversed[x][y]
      BY <1>1, <1>2, <2>4, <2>6
    <3>2. QED
      BY <1>3, <3>1
  <2>7. QED
    BY <2>5, <2>6
<1>5. CASE ~ \E v \in Workers : CancelWrite(v) /\ WasApproved(v)
  <2>1. reversed' = reversed
    BY <1>5, LedgerSteps DEF CancelWrite
  <2>2. QED
    BY <1>3, <2>1
<1>6. QED
  BY <1>4, <1>5

LEMMA CoverStep ==
    ASSUME TypeOK, CoverInv, LedgersApart, [GrantStands]_vars, [Next]_vars
    PROVE  CoverInv'
<1>1. SUFFICES ASSUME NEW w \in Workers, pc'[w] = "approve.write"
               PROVE  Covered(on[w])' /\ on'[w] = on[w]
    BY DEF CoverInv, Covered
<1>2. CASE pc'[w] = pc[w] /\ on'[w] = on[w]
  <2>1. PICK r : r = on[w]
    OBVIOUS
  <2>2. r \in Requests /\ Covered(r)
    BY <1>1, <1>2, <2>1, RowInHand DEF CoverInv, RequestSteps
  <2>3. Grant(r) \in Int /\ Grant(r)' \in Int
    <3>1. TypeOK'
      BY TypeStep
    <3>2. EmployeeOf[r] \in Employees /\ PolicyOf[r] \in Policies /\ LedgerYear(r) \in Years
      BY <2>2, PayloadAssumption DEF LedgerYear
    <3>3. granted'[EmployeeOf[r]] \in [Policies -> [Years -> Int]]
      BY <3>1, <3>2 DEF TypeOK
    <3>4. granted'[EmployeeOf[r]][PolicyOf[r]] \in [Years -> Int]
      BY <3>2, <3>3
    <3>5. Grant(r)' \in Int
      BY <3>2, <3>4 DEF Grant
    <3>6. QED
      BY <2>2, <3>5, GrantType
  <2>4. Grant(r)' >= Grant(r)
    <3>1. CASE GrantStands
      BY <1>1, <1>2, <2>1, <3>1 DEF GrantStands, Grant
    <3>2. CASE UNCHANGED vars
      BY <2>3, <3>2 DEF vars, tables, Grant
    <3>3. QED
      BY <3>1, <3>2
  <2> DEFINE e == EmployeeOf[r]
             p == PolicyOf[r]
             y == LedgerYear(r)
  <2>5. /\ DebitSum(consumed, Debited(r)) \in Int /\ DebitSum(consumed', Debited(r)) \in Int
        /\ DebitSum(consumed', Debited(r)) <= DebitSum(consumed, Debited(r))
    BY <1>1, <1>2, <2>1, DebitsStand
  <2>6. /\ CreditSum(reversed, y, RequestsOf(e, p)) \in Int
        /\ CreditSum(reversed', y, RequestsOf(e, p)) \in Int
        /\ CreditSum(reversed', y, RequestsOf(e, p)) >= CreditSum(reversed, y, RequestsOf(e, p))
    BY <1>1, <1>2, <2>1, CreditsStand
  <2>7. /\ Remaining(e, p, y) = Grant(r) - (DebitSum(consumed, Debited(r))
                                              - CreditSum(reversed, y, RequestsOf(e, p)))
        /\ Remaining(e, p, y)' = Grant(r)' - (DebitSum(consumed', Debited(r))
                                                - CreditSum(reversed', y, RequestsOf(e, p)))
    BY <2>2, BalanceOf
  <2>8. /\ Covered(r) = (Remaining(e, p, y) >= TotalDays(r))
        /\ Covered(r)' = (Remaining(e, p, y)' >= TotalDays(r))
        /\ TotalDays(r) \in Int
    BY <2>2, TotalDaysInt DEF Covered
  <2> HIDE DEF e, p, y
  <2>9. Remaining(e, p, y) >= TotalDays(r)
    BY <2>2, <2>8
  <2>10. Remaining(e, p, y)' >= TotalDays(r)
    BY <2>3, <2>4, <2>5, <2>6, <2>7, <2>8, <2>9
  <2>11. Covered(r)'
    BY <2>8, <2>10
  <2>12. QED
    BY <1>2, <2>1, <2>11 DEF Covered
<1>3. CASE ApproveBalance(w) /\ Covered(on[w]) /\ on'[w] = on[w] /\ UNCHANGED tables
  <2>1. PICK r \in Requests : r = on[w]
    BY <1>3, RowInHand DEF ApproveBalance, RequestSteps
  <2> DEFINE e == EmployeeOf[r]
             p == PolicyOf[r]
             y == LedgerYear(r)
  <2>2. UNCHANGED <<consumed, reversed, granted>>
    BY <1>3 DEF tables
  <2>3. Grant(r)' = Grant(r)
    BY <2>2 DEF Grant
  <2>4. Remaining(e, p, y)' = Remaining(e, p, y)
    BY <2>2, <2>3, BalanceOf
  <2>5. Covered(r)' = Covered(r)
    BY <2>4 DEF Covered
  <2>6. QED
    BY <1>3, <2>1, <2>5 DEF Covered
<1>4. ~ \E r \in Requests : ApproveBegin(w, r) \/ RejectBegin(w, r) \/ CancelBegin(w, r)
  BY <1>1 DEF TypeOK, ApproveBegin, RejectBegin, CancelBegin, Begin
<1>5. QED
  BY <1>1, <1>2, <1>3, <1>4, Whereabouts

\* The debit of an approval takes no more than the balance it checked.
LEMMA ApprovalLeaves ==
    ASSUME TypeOK, CoverInv, NEW w \in Workers, ApproveWrite(w), NEW r, r = on[w]
    PROVE  r \in Requests /\ Remaining(EmployeeOf[r], PolicyOf[r], LedgerYear(r))' >= 0
<1> DEFINE e == EmployeeOf[r]
           p == PolicyOf[r]
           y == LedgerYear(r)
           C == RequestsOf(e, p)
<1>1. pc[w] = "approve.write"
  BY DEF ApproveWrite
<1>2. r \in Requests
  BY <1>1, RowInHand DEF RequestSteps
<1>3. /\ consumed' = [consumed EXCEPT ![r] = @ + 1]
      /\ reversed' = reversed /\ granted' = granted
  BY DEF ApproveWrite
<1>4. /\ consumed \in [Requests -> Nat] /\ consumed' \in [Requests -> Nat]
      /\ consumed'[r] = consumed[r] + 1
      /\ \A q \in Requests : q # r => consumed'[q] = consumed[q]
  BY <1>2, <1>3 DEF TypeOK
<1>5. /\ Debited(r) \subseteq Requests /\ C \subseteq Requests /\ y \in Years /\ r \in Debited(r)
      /\ Remaining(e, p, y) = Grant(r) - (DebitSum(consumed, Debited(r)) - CreditSum(reversed, y, C))
      /\ Remaining(e, p, y)' = Grant(r)' - (DebitSum(consumed', Debited(r)) - CreditSum(reversed', y, C))
  BY <1>2, BalanceOf
<1>6. Remaining(e, p, y) >= TotalDays(r)
  BY <1>1 DEF CoverInv, Covered
<1>7. TotalDays(r) \in Int /\ Grant(r) \in Int /\ Grant(r)' = Grant(r)
  BY <1>2, <1>3, TotalDaysInt, GrantType DEF Grant
<1> HIDE DEF C, e, p, y
<1>8. DebitSum(consumed, Debited(r)) \in Int
      /\ DebitSum(consumed', Debited(r)) = DebitSum(consumed, Debited(r)) + TotalDays(r)
  BY <1>4, <1>5, DebitAdds
<1>9. CreditSum(reversed, y, C) \in Int
  <2>1. reversed \in [Requests -> [Years -> Nat]]
    BY DEF TypeOK
  <2>2. QED
    BY <1>5, <2>1, CreditKept
<1>10. Remaining(e, p, y)' >= 0
  BY <1>3, <1>5, <1>6, <1>7, <1>8, <1>9
<1>11. QED
  BY <1>2, <1>10 DEF e, p, y

\* As long as nobody else is about to take days from the ledger an approval has
\* checked, and no adjustment does, the approval leaves that ledger at zero or above:
\* approvals of other ledgers, cancellations that give days back, submissions and
\* administration may run beside it (services.py:147-220).
THEOREM ApprovalCoveredHolds ==
    Spec /\ []LedgersApart /\ [][GrantStands]_vars => ApprovalCovered
<1> DEFINE Safe(r) == (status[r] = "pending" /\ status'[r] = "approved")
                         => Remaining(EmployeeOf[r], PolicyOf[r], LedgerYear(r))' >= 0
<1>1. Init => CoverInv
  BY DEF Init, CoverInv
<1>2. TypeOK /\ CoverInv /\ LedgersApart /\ [GrantStands]_vars /\ [Next]_vars => CoverInv'
  BY CoverStep
<1>3. TypeOK /\ CoverInv /\ [Next]_vars => [\A r \in Requests : Safe(r)]_vars
  <2> SUFFICES ASSUME TypeOK, CoverInv, [Next]_vars, NEW r \in Requests,
                      status[r] = "pending", status'[r] = "approved"
               PROVE  Remaining(EmployeeOf[r], PolicyOf[r], LedgerYear(r))' >= 0
      OBVIOUS
  <2>1. ASSUME NEW w \in Workers, SubmitInsert(w) \/ RejectWrite(w) \/ CancelWrite(w)
        PROVE  FALSE
    BY <2>1 DEF SubmitInsert, RejectWrite, CancelWrite, TypeOK
  <2>2. ASSUME NEW w \in Workers, ApproveWrite(w)
        PROVE  r = on[w]
    BY <2>2 DEF ApproveWrite, TypeOK
  <2>3. QED
    BY <2>1, <2>2, StatusSteps, ApprovalLeaves
<1>4. QED
  BY <1>1, <1>2, <1>3, TypeCorrect, PTL DEF Spec, ApprovalCovered

-----------------------------------------------------------------------------
(* One decider *)

Decisions == {"approve", "reject", "cancel"}

\* Only worker d runs the handlers of H.
Alone(d, H) == \A w \in Workers : w # d => Handles[w] \cap H = {}

\* Only worker d is inside a decision.
SoleInv(d) == \A w \in Workers : w # d => pc[w] \notin {"approve.balance"} \cup DecisionWrites

LEMMA SoleStep ==
    ASSUME NEW d, Alone(d, Decisions), TypeOK, SoleInv(d), [Next]_vars
    PROVE  SoleInv(d)'
<1> SUFFICES ASSUME NEW w \in Workers, w # d
             PROVE  pc'[w] \notin {"approve.balance"} \cup DecisionWrites
    BY DEF SoleInv
<1>1. pc[w] \notin {"approve.balance"} \cup DecisionWrites
  BY DEF SoleInv
<1>2. ~ \E r \in Requests : ApproveBegin(w, r) \/ RejectBegin(w, r) \/ CancelBegin(w, r)
  BY DEF Alone, Decisions, ApproveBegin, RejectBegin, CancelBegin, Begin
<1>3. pc[w] # "approve.balance"
  BY <1>1
<1>4. QED
  BY <1>1, <1>2, <1>3, Whereabouts DEF DecisionWrites

LEMMA SoleHolds == ASSUME NEW d, Alone(d, Decisions) PROVE Spec => []SoleInv(d)
<1>1. Init => SoleInv(d)
  BY DEF Init, SoleInv, DecisionWrites
<1>2. TypeOK /\ SoleInv(d) /\ [Next]_vars => SoleInv(d)'
  BY SoleStep
<1>3. QED
  BY <1>1, <1>2, TypeCorrect, PTL DEF Spec

\* A deployment where one worker takes all the decisions keeps them apart, so that
\* the handlers implement the lifecycle and credit every cancellation once, whatever
\* is submitted or administered meanwhile.
THEOREM OneDecider ==
    ASSUME NEW d, Alone(d, Decisions)
    PROVE  Spec => ImplementsLifecycle /\ []CancelCreditsOnce
<1>1. SoleInv(d) => RowsApart
  BY DEF SoleInv, RowsApart
<1>2. QED
  BY <1>1, SoleHolds, ImplementsLifecycleHolds, CancelCreditsOnceHolds, PTL

\* Where that worker makes the adjustments too, its approvals never overdraw.
THEOREM OneDeciderCovers ==
    ASSUME NEW d, Alone(d, Decisions \cup {"adjust"})
    PROVE  Spec => ApprovalCovered
<1>1. Alone(d, Decisions)
  BY DEF Alone
<1>2. SoleInv(d) => LedgersApart
  BY DEF SoleInv, LedgersApart, Taking, DecisionWrites
<1>3. TypeOK /\ SoleInv(d) /\ [Next]_vars => [GrantStands]_vars
  <2> SUFFICES ASSUME TypeOK, SoleInv(d), [Next]_vars, NEW w \in Workers,
                      pc[w] = "approve.write", pc'[w] = "approve.write"
               PROVE  Grant(on[w])' >= Grant(on[w]) \/ on'[w] # on[w]
      BY DEF GrantStands
  <2>1. w = d
    BY DEF SoleInv, DecisionWrites
  <2>2. granted' = granted
    <3> SUFFICES ASSUME NEW v \in Workers, "adjust" \in Handles[v], pc[v] = "idle"
                 PROVE  FALSE
        BY LedgerSteps
    <3>1. v = d
      BY DEF Alone
    <3>2. QED
      BY <2>1, <3>1
  <2>3. on[w] \in Requests
    BY RowInHand DEF RequestSteps
  <2>4. Grant(on[w]) \in Int
    BY <2>3, GrantType
  <2>5. ASSUME on'[w] = on[w]
        PROVE  Grant(on[w])' = Grant(on[w])
    BY <2>2, <2>5 DEF Grant
  <2>6. QED
    BY <2>4, <2>5
<1>4. QED
  BY <1>1, <1>2, <1>3, TypeCorrect, SoleHolds, ApprovalCoveredHolds, PTL DEF Spec

-----------------------------------------------------------------------------
(* Deactivation of policies *)

\* No submission that has found its policy active is under way while a deactivation of
\* that policy has found no request of it.
PoliciesApart ==
    \A v, w \in Workers :
        (pc[v] \in {"submit.overlap", "submit.insert"} /\ pc[w] = "deactivate.write")
            => PolicyOf[on[v]] # on[w]

\* No pending or approved request belongs to a deleted policy.
DeletedPolicyUnused ==
    \A r \in Requests : policy[PolicyOf[r]] = "deleted" => ~Live(r)

\* A submission about to insert, and a deactivation about to delete, still find what
\* they read.
PolicyInv ==
    /\ DeletedPolicyUnused
    /\ \A w \in Workers :
          /\ pc[w] \in {"submit.overlap", "submit.insert"} => policy[PolicyOf[on[w]]] # "deleted"
          /\ pc[w] = "deactivate.write" => \A r \in Requests : PolicyOf[r] = on[w] => ~Live(r)

\* Only a submission makes a request live.
LEMMA LiveSteps ==
    ASSUME IInv, [Next]_vars, NEW r \in Requests, Live(r)'
    PROVE  Live(r) \/ \E w \in Workers : SubmitInsert(w) /\ on[w] = r
<1>1. TypeOK
  BY DEF IInv
<1>2. CASE status' = status
  BY <1>2 DEF Live
<1>3. ASSUME NEW w \in Workers, SubmitInsert(w) \/ ApproveWrite(w) \/ RejectWrite(w) \/ CancelWrite(w)
      PROVE  Live(r) \/ (SubmitInsert(w) /\ on[w] = r)
  <2>1. CASE on[w] # r
    <3>1. PICK s \in Status : status' = [status EXCEPT ![on[w]] = s]
      BY <1>3 DEF SubmitInsert, ApproveWrite, RejectWrite, CancelWrite, Status
    <3>2. status \in [Requests -> Status \cup {"absent"}]
      BY <1>1 DEF TypeOK
    <3>3. status'[r] = status[r]
      BY <2>1, <3>1, <3>2
    <3>4. QED
      BY <3>3 DEF Live
  <2>2. CASE ApproveWrite(w) /\ on[w] = r
    BY <2>2 DEF ApproveWrite, IInv, LockInv, ApproveSteps, Live
  <2>3. CASE (RejectWrite(w) \/ CancelWrite(w)) /\ on[w] = r
    BY <1>1, <2>3 DEF RejectWrite, CancelWrite, TypeOK, Live
  <2>4. QED
    BY <1>3, <2>1, <2>2, <2>3
<1>4. QED
  BY <1>2, <1>3, StatusSteps

\* Only a deactivation and an update touch a policy, and an update deletes none.
LEMMA PolicySteps ==
    ASSUME TypeOK, [Next]_vars, NEW p \in Policies, policy'[p] = "deleted"
    PROVE  policy[p] = "deleted" \/ \E w \in Workers : DeactivateWrite(w) /\ on[w] = p
<1> USE DEF tables, session, Rollback
<1>1. ASSUME NEW w \in Workers, Proceed(w) \/ Crash(w), ~DeactivateWrite(w)
      PROVE  policy' = policy
  BY <1>1 DEF Proceed, SubmitPolicy, SubmitOverlap, SubmitInsert, ApproveBalance, ApproveWrite,
     RejectWrite, CancelWrite, Crash
<1>2. ASSUME NEW w \in Workers, DeactivateWrite(w), on[w] # p
      PROVE  policy'[p] = policy[p]
  BY <1>2 DEF DeactivateWrite, TypeOK
<1>3. ASSUME NEW w \in Workers, NEW q \in Policies, NEW state \in {"active", "inactive"},
             UpdatePolicy(w, q, state)
      PROVE  policy[p] = "deleted"
  BY <1>3 DEF UpdatePolicy, TypeOK
<1>4. ASSUME NEW w \in Workers, Arrive(w)
      PROVE  policy[p] = "deleted"
  <2>1. CASE policy' = policy
    BY <2>1
  <2>2. CASE policy' # policy
    BY <1>3, <1>4, <2>2 DEF Arrive, SubmitBegin, ApproveBegin, ApproveAgain, RejectBegin,
       CancelBegin, DeactivateBegin, AdjustBalance, DeleteEmployee
  <2>3. QED
    BY <2>1, <2>2
<1>5. NewYear \/ UNCHANGED vars => policy' = policy
  BY DEF NewYear, vars
<1>6. QED
  BY <1>1, <1>2, <1>4, <1>5 DEF Next

\* How a submission comes to its insert, and a deactivation to its write.
LEMMA PolicyReaders ==
    ASSUME TypeOK, [Next]_vars, NEW v \in Workers,
           pc'[v] \in {"submit.overlap", "submit.insert", "deactivate.write"}
    PROVE  \/ /\ on'[v] = on[v]
              /\ \/ pc'[v] = pc[v]
                 \/ pc[v] = "submit.overlap" /\ pc'[v] = "submit.insert"
           \/ pc'[v] = "submit.overlap" /\ on'[v] = on[v] /\ UNCHANGED tables
              /\ policy[PolicyOf[on[v]]] = "active"
           \/ pc'[v] = "deactivate.write" /\ UNCHANGED tables
              /\ \A r \in Requests : PolicyOf[r] = on'[v] => ~Live(r)
<1> DEFINE Same == on'[v] = on[v] /\ (\/ pc'[v] = pc[v]
                                      \/ pc[v] = "submit.overlap" /\ pc'[v] = "submit.insert")
           Active == pc'[v] = "submit.overlap" /\ on'[v] = on[v] /\ UNCHANGED tables
                     /\ policy[PolicyOf[on[v]]] = "active"
           Unused == pc'[v] = "deactivate.write" /\ UNCHANGED tables
                     /\ \A r \in Requests : PolicyOf[r] = on'[v] => ~Live(r)
<1> SUFFICES Same \/ Active \/ Unused
    OBVIOUS
<1>1. ASSUME NEW w \in Workers, End(w)
      PROVE  Same
  BY <1>1, EndOthers
<1>2. ASSUME NEW w \in Workers, NEW step \in Step, Advance(w, step)
      PROVE  Same \/ (v = w /\ pc'[v] = step /\ on'[v] = on[v])
  BY <1>2 DEF Advance, TypeOK
<1>3. ASSUME NEW w \in Workers, Proceed(w)
      PROVE  Same \/ Active
  <2>1. CASE End(w)
    BY <1>1, <2>1
  <2>2. CASE SubmitPolicy(w) /\ ~End(w)
    <3>1. Advance(w, "submit.overlap") /\ UNCHANGED tables /\ policy[PolicyOf[on[w]]] = "active"
      BY <2>2 DEF SubmitPolicy, Rollback
    <3>2. QED
      BY <1>2, <3>1 DEF Step
  <2>3. CASE SubmitOverlap(w) /\ ~End(w)
    <3>1. Advance(w, "submit.insert") /\ pc[w] = "submit.overlap"
      BY <2>3 DEF SubmitOverlap, Rollback
    <3>2. QED
      BY <1>2, <3>1 DEF Step
  <2>4. CASE ApproveBalance(w) /\ ~End(w)
    <3>1. Advance(w, "approve.write")
      BY <2>4 DEF ApproveBalance, Rollback
    <3>2. QED
      BY <1>2, <3>1 DEF Step
  <2>5. QED
    BY <1>3, <2>1, <2>2, <2>3, <2>4
       DEF Proceed, SubmitInsert, ApproveWrite, RejectWrite, CancelWrite, DeactivateWrite
<1>4. ASSUME NEW w \in Workers, NEW r \in Requests,
             SubmitBegin(w, r) \/ ApproveBegin(w, r) \/ RejectBegin(w, r) \/ CancelBegin(w, r)
      PROVE  Same
  BY <1>4 DEF SubmitBegin, ApproveBegin, RejectBegin, CancelBegin, Begin, TypeOK
<1>5. ASSUME NEW w \in Workers, NEW p \in Policies, DeactivateBegin(w, p)
      PROVE  Same \/ Unused
  <2>1. CASE v # w
    BY <1>5, <2>1 DEF DeactivateBegin, Begin, TypeOK
  <2>2. CASE v = w
    <3>1. pc'[v] = "deactivate.write" /\ on'[v] = p /\ UNCHANGED tables
      BY <1>5, <2>2 DEF DeactivateBegin, Begin, TypeOK
    <3>2. QED
      BY <1>5, <3>1 DEF DeactivateBegin
  <2>3. QED
    BY <2>1, <2>2
<1>6. UNCHANGED session => Same
  BY DEF session
<1>7. ASSUME NEW w \in Workers, Crash(w)
      PROVE  Same
  BY <1>1, <1>7 DEF Crash, Rollback
<1> HIDE DEF Same, Active, Unused
<1>8. ASSUME NEW w \in Workers, Arrive(w)
      PROVE  Same \/ Unused
  BY <1>4, <1>5, <1>6, <1>8
     DEF Arrive, ApproveAgain, UpdatePolicy, AdjustBalance, DeleteEmployee
<1>9. NewYear \/ UNCHANGED vars => Same
  BY <1>6 DEF NewYear, vars
<1>10. QED
  BY <1>3, <1>7, <1>8, <1>9 DEF Next

LEMMA PolicyStep == IInv /\ PoliciesApart /\ PolicyInv /\ [Next]_vars => PolicyInv'
<1> SUFFICES ASSUME IInv, PoliciesApart, PolicyInv, [Next]_vars
             PROVE  PolicyInv'
    OBVIOUS
<1> DEFINE Submitting(w) == pc[w] \in {"submit.overlap", "submit.insert"}
           Deactivating(w) == pc[w] = "deactivate.write"
           Unused(p) == \A r \in Requests : PolicyOf[r] = p => ~Live(r)
<1>1. TypeOK /\ \A r \in Requests : PolicyOf[r] \in Policies
  BY PayloadAssumption DEF IInv
<1>2. ASSUME NEW w \in Workers, SubmitInsert(w)
      PROVE  /\ on[w] \in Requests /\ policy' = policy /\ policy[PolicyOf[on[w]]] # "deleted"
             /\ Submitting(w) /\ pc'[w] = "idle"
             /\ \A v \in Workers : v # w => pc'[v] = pc[v] /\ on'[v] = on[v]
  BY <1>1, <1>2, EndOthers, RowInHand DEF SubmitInsert, RequestSteps, PolicyInv
<1>3. ASSUME NEW w \in Workers, DeactivateWrite(w)
      PROVE  /\ on[w] \in Policies /\ status' = status /\ Unused(on[w])
             /\ Deactivating(w) /\ pc'[w] = "idle"
             /\ \A v \in Workers : v # w => pc'[v] = pc[v] /\ on'[v] = on[v]
  BY <1>1, <1>3, EndOthers DEF DeactivateWrite, TypeOK, PolicyInv
<1>4. ASSUME NEW r \in Requests, policy'[PolicyOf[r]] = "deleted", Live(r)'
      PROVE  FALSE
  <2>1. CASE policy[PolicyOf[r]] = "deleted"
    <3>1. PICK w \in Workers : SubmitInsert(w) /\ on[w] = r
      BY <1>4, <2>1, LiveSteps DEF PolicyInv, DeletedPolicyUnused
    <3>2. QED
      BY <1>2, <2>1, <3>1
  <2>2. CASE policy[PolicyOf[r]] # "deleted"
    <3>1. PICK w \in Workers : DeactivateWrite(w) /\ on[w] = PolicyOf[r]
      BY <1>1, <1>4, <2>2, PolicySteps
    <3>2. ~Live(r) /\ status' = status
      BY <1>3, <3>1
    <3>3. QED
      BY <1>4, <3>2 DEF Live
  <2>3. QED
    BY <2>1, <2>2
<1>5. ASSUME NEW v \in Workers, Submitting(v)', policy'[PolicyOf[on'[v]]] = "deleted"
      PROVE  FALSE
  <2>1. on'[v] = on[v] /\ policy[PolicyOf[on[v]]] # "deleted"
        /\ (Submitting(v) \/ policy' = policy)
    BY <1>1, <1>5, PolicyReaders DEF PolicyInv, tables
  <2>2. on[v] \in Requests
    <3>1. TypeOK'
      BY <1>1, TypeStep
    <3>2. QED
      BY <1>5, <2>1, <3>1 DEF TypeOK, RequestSteps
  <2>3. PICK w \in Workers : DeactivateWrite(w) /\ on[w] = PolicyOf[on[v]]
    BY <1>1, <1>5, <2>1, <2>2, PolicySteps
  <2>4. Submitting(v)
    BY <1>5, <2>1
  <2>5. QED
    BY <1>3, <2>3, <2>4 DEF PoliciesApart
<1>6. ASSUME NEW v \in Workers, Deactivating(v)', NEW r \in Requests, PolicyOf[r] = on'[v], Live(r)'
      PROVE  FALSE
  <2>1. \/ Deactivating(v) /\ on'[v] = on[v]
        \/ UNCHANGED tables /\ ~Live(r)
    BY <1>1, <1>6, PolicyReaders
  <2>2. CASE Deactivating(v) /\ on'[v] = on[v]
    <3>1. ~Live(r)
      BY <1>6, <2>2 DEF PolicyInv
    <3>2. PICK w \in Workers : SubmitInsert(w) /\ on[w] = r
      BY <1>6, <3>1, LiveSteps
    <3>3. QED
      BY <1>2, <1>6, <2>2, <3>2 DEF PoliciesApart
  <2>3. CASE UNCHANGED tables /\ ~Live(r)
    BY <1>6, <2>3 DEF tables, Live
  <2>4. QED
    BY <2>1, <2>2, <2>3
<1>7. QED
  BY <1>4, <1>5, <1>6 DEF PolicyInv, DeletedPolicyUnused

\* What the docstring of deactivate_policy says, that a policy with pending or approved
\* requests is not deactivated, holds as long as no submission that read the policy is
\* under way between the deactivation's check and its write: neither takes a lock on the
\* policy (services.py:67-137, 578-611).
THEOREM DeletedPolicyUnusedHolds == Spec /\ []PoliciesApart => []DeletedPolicyUnused
<1>1. Init => PolicyInv
  BY PayloadAssumption DEF Init, PolicyInv, DeletedPolicyUnused, Live
<1>2. IInv /\ PoliciesApart /\ PolicyInv /\ [Next]_vars => PolicyInv'
  BY PolicyStep
<1>3. PolicyInv => DeletedPolicyUnused
  BY DEF PolicyInv
<1>4. QED
  BY <1>1, <1>2, <1>3, InvHolds, PTL DEF Spec

-----------------------------------------------------------------------------
(* Locks *)

\* A row lock belongs to a handler that is under way and took it for that row: none
\* outlives its transaction.
HeldInv ==
    /\ \A r \in Requests : requestLock[r] # NoOne =>
          pc[requestLock[r]] \in ApproveSteps /\ on[requestLock[r]] = r
    /\ \A e \in Employees : employeeLock[e] # NoOne =>
          pc[employeeLock[e]] \in SubmitSteps /\ EmployeeOf[on[employeeLock[e]]] = e

\* The write of w waits for a row that v has locked.
WaitsFor(w, v) ==
    \/ pc[w] = "approve.write" /\ employeeLock[EmployeeOf[on[w]]] = v
    \/ pc[w] \in {"reject.write", "cancel.write"} /\ requestLock[on[w]] = v
    \/ pc[w] = "cancel.write" /\ WasApproved(w) /\ employeeLock[EmployeeOf[on[w]]] = v

\* Submissions come before approvals, and these before rejections and cancellations.
Rank(w) == CASE pc[w] \in SubmitSteps -> 0 [] pc[w] \in ApproveSteps -> 1 [] OTHER -> 2

\* Whoever is waited for is under way, and of a lower rank than the one who waits.
NoCircularWait ==
    \A w, v \in Workers : WaitsFor(w, v) => pc[v] # "idle" /\ Rank(v) < Rank(w)

\* An idle worker holds no row.
LEMMA HeldByOthers ==
    ASSUME TypeOK, HeldInv, NEW w \in Workers, pc[w] = "idle"
    PROVE  /\ \A r \in Requests : requestLock[r] # NoOne =>
                 /\ requestLock[r] \in Workers /\ requestLock[r] # w
                 /\ pc[requestLock[r]] \in ApproveSteps /\ on[requestLock[r]] = r
           /\ \A e \in Employees : employeeLock[e] # NoOne =>
                 /\ employeeLock[e] \in Workers /\ employeeLock[e] # w
                 /\ pc[employeeLock[e]] \in SubmitSteps /\ EmployeeOf[on[employeeLock[e]]] = e
BY DEF TypeOK, HeldInv, ApproveSteps, SubmitSteps

\* The other handlers' locks stay with them; a new lock is that of its handler's row.
LEMMA HeldStep ==
    ASSUME TypeOK, HeldInv, [Next]_vars
    PROVE  HeldInv'
<1> USE NoOneAssumption, PayloadAssumption DEF ApproveSteps, SubmitSteps
<1>1. ASSUME NEW w \in Workers, End(w)
      PROVE  HeldInv'
  BY <1>1 DEF End, HeldInv, TypeOK
<1>2. ASSUME UNCHANGED session
      PROVE  HeldInv'
  BY <1>2 DEF session, HeldInv
<1>3. ASSUME NEW w \in Workers, NEW step \in {"submit.overlap", "submit.insert", "approve.write"},
             Advance(w, step),
             step = "approve.write" => pc[w] \in ApproveSteps,
             step # "approve.write" => pc[w] \in SubmitSteps
      PROVE  HeldInv'
  BY <1>3 DEF Advance, HeldInv, TypeOK
<1>4. ASSUME NEW w \in Workers, Proceed(w)
      PROVE  HeldInv'
  <2>1. CASE End(w)
    BY <1>1, <2>1
  <2>2. CASE ~End(w)
    BY <1>3, <1>4, <2>2 DEF Proceed, SubmitPolicy, SubmitOverlap, SubmitInsert, ApproveBalance,
       ApproveWrite, RejectWrite, CancelWrite, DeactivateWrite, Rollback
  <2>3. QED
    BY <2>1, <2>2
<1>5. ASSUME NEW w \in Workers, pc[w] = "idle",
             \A v \in Workers : v # w => pc'[v] = pc[v] /\ on'[v] = on[v],
             UNCHANGED <<requestLock, employeeLock>>
      PROVE  HeldInv'
  <2>1. \A r \in Requests : requestLock[r] # NoOne =>
            pc'[requestLock[r]] \in ApproveSteps /\ on'[requestLock[r]] = r
    BY <1>5, HeldByOthers
  <2>2. \A e \in Employees : employeeLock[e] # NoOne =>
            pc'[employeeLock[e]] \in SubmitSteps /\ EmployeeOf[on'[employeeLock[e]]] = e
    BY <1>5, HeldByOthers
  <2>3. QED
    BY <1>5, <2>1, <2>2 DEF HeldInv
<1>6. ASSUME NEW w \in Workers, NEW r \in Requests, SubmitBegin(w, r)
      PROVE  HeldInv'
  <2>1. /\ pc[w] = "idle" /\ pc'[w] = "submit.policy" /\ on'[w] = r
        /\ \A v \in Workers : v # w => pc'[v] = pc[v] /\ on'[v] = on[v]
    BY <1>6 DEF SubmitBegin, Begin, TypeOK
  <2>2. /\ requestLock' = requestLock
        /\ \A e \in Employees : employeeLock'[e] = IF e = EmployeeOf[r] THEN w ELSE employeeLock[e]
    BY <1>6 DEF SubmitBegin, TypeOK
  <2>3. \A q \in Requests : requestLock'[q] # NoOne =>
            pc'[requestLock'[q]] \in ApproveSteps /\ on'[requestLock'[q]] = q
    BY <2>1, <2>2, HeldByOthers
  <2>4. \A e \in Employees : employeeLock'[e] # NoOne =>
            pc'[employeeLock'[e]] \in SubmitSteps /\ EmployeeOf[on'[employeeLock'[e]]] = e
    BY <2>1, <2>2, HeldByOthers
  <2>5. QED
    BY <2>3, <2>4 DEF HeldInv
<1>7. ASSUME NEW w \in Workers, NEW r \in Requests, ApproveBegin(w, r)
      PROVE  HeldInv'
  <2>1. /\ pc[w] = "idle" /\ pc'[w] = "approve.balance" /\ on'[w] = r
        /\ \A v \in Workers : v # w => pc'[v] = pc[v] /\ on'[v] = on[v]
    BY <1>7 DEF ApproveBegin, Begin, TypeOK
  <2>2. /\ employeeLock' = employeeLock
        /\ \A q \in Requests : requestLock'[q] = IF q = r THEN w ELSE requestLock[q]
    BY <1>7 DEF ApproveBegin, TypeOK
  <2>3. \A q \in Requests : requestLock'[q] # NoOne =>
            pc'[requestLock'[q]] \in ApproveSteps /\ on'[requestLock'[q]] = q
    BY <2>1, <2>2, HeldByOthers
  <2>4. \A e \in Employees : employeeLock'[e] # NoOne =>
            pc'[employeeLock'[e]] \in SubmitSteps /\ EmployeeOf[on'[employeeLock'[e]]] = e
    BY <2>1, <2>2, HeldByOthers
  <2>5. QED
    BY <2>3, <2>4 DEF HeldInv
<1>8. ASSUME NEW w \in Workers, NEW r \in Requests, RejectBegin(w, r) \/ CancelBegin(w, r)
      PROVE  HeldInv'
  BY <1>5, <1>8 DEF RejectBegin, CancelBegin, Begin, TypeOK
<1>9. ASSUME NEW w \in Workers, NEW p \in Policies, DeactivateBegin(w, p)
      PROVE  HeldInv'
  BY <1>5, <1>9 DEF DeactivateBegin, Begin, TypeOK
<1>10. ASSUME NEW w \in Workers, Arrive(w)
       PROVE  HeldInv'
  BY <1>2, <1>6, <1>7, <1>8, <1>9, <1>10
     DEF Arrive, ApproveAgain, UpdatePolicy, AdjustBalance, DeleteEmployee
<1>11. ASSUME NEW w \in Workers, Crash(w)
       PROVE  HeldInv'
  BY <1>1, <1>11 DEF Crash, Rollback
<1>12. NewYear \/ UNCHANGED vars => HeldInv'
  BY <1>2 DEF NewYear, vars
<1>13. QED
  BY <1>4, <1>10, <1>11, <1>12 DEF Next

\* The safety behind HandlersEnd: whoever waits for a request waits for an approval,
\* an approval waits for submissions only, and a submission that has its lock waits for
\* nobody.  So the handlers never wait in a circle, and none waits for a handler that
\* has ended or crashed (services.py:67-306).
THEOREM NoCircularWaitHolds == Spec => []NoCircularWait
<1>1. Init => HeldInv
  BY DEF Init, HeldInv
<1>2. TypeOK /\ HeldInv => NoCircularWait
  <2> SUFFICES ASSUME TypeOK, HeldInv, NEW w \in Workers, NEW v \in Workers, WaitsFor(w, v)
               PROVE  pc[v] # "idle" /\ Rank(v) < Rank(w)
      BY DEF NoCircularWait
  <2>1. on[w] \in Requests /\ EmployeeOf[on[w]] \in Employees
    BY RowInHand DEF WaitsFor, RequestSteps
  <2>2. \/ pc[w] \in {"approve.write", "cancel.write"} /\ pc[v] \in SubmitSteps
        \/ pc[w] \in {"reject.write", "cancel.write"} /\ pc[v] \in ApproveSteps
    BY <2>1, NoOneAssumption DEF WaitsFor, HeldInv
  <2>3. QED
    BY <2>2 DEF Rank, SubmitSteps, ApproveSteps
<1>3. TypeOK /\ HeldInv /\ [Next]_vars => HeldInv'
  BY HeldStep
<1>4. QED
  BY <1>1, <1>2, <1>3, TypeCorrect, PTL DEF Spec

=============================================================================
