------------------------- MODULE KeyedPunchesProofs -------------------------
(***************************************************************************)
(* Proofs about KeyedPunches: the lookup before the insert and the partial *)
(* unique index together keep one active record for each import key, and   *)
(* every answer with a record is true.                                     *)
(***************************************************************************)
EXTENDS KeyedPunches, TLAPS

LEMMA TypeInit == Init => TypeOK
BY NoPostAssumption DEF Init, TypeOK, PostStep, Answer

\* A step along the handler, and a reply, keep the columns in their domains.
LEMMA GotoType ==
    ASSUME TypeOK, NEW p \in Posts, NEW s \in PostStep, step[p] # "unsent", Goto(p, s)
    PROVE  TypeOK'
BY DEF Goto, TypeOK

LEMMA ReplyType ==
    ASSUME TypeOK, NEW p \in Posts, NEW a \in Answer, NEW id \in Posts \cup {NoPost},
           step[p] # "unsent", Reply(p, a, id)
    PROVE  TypeOK'
BY DEF Reply, TypeOK, PostStep

\* Settling a post against an active record of its key is one of two replies.
LEMMA SettleReply ==
    ASSUME NEW p \in Posts, NEW q \in Posts, Settle(p, q)
    PROVE  \/ content[q] = payload[p] /\ Reply(p, "replayed", q)
           \/ Reply(p, "refused", NoPost)
BY DEF Settle

LEMMA TypeStep == TypeOK /\ [Next]_vars => TypeOK'
<1> SUFFICES ASSUME TypeOK, [Next]_vars
             PROVE  TypeOK'
    OBVIOUS
<1>1. ASSUME NEW p \in Posts, NEW k \in Keys, NEW d \in Payloads, Send(p, k, d)
      PROVE  TypeOK'
  BY <1>1 DEF Send, TypeOK, PostStep
<1>2. ASSUME NEW p \in Posts, Refuse(p) \/ Fail(p)
      PROVE  TypeOK'
  BY <1>2, ReplyType DEF Refuse, Fail, Answer
<1>3. ASSUME NEW p \in Posts, LookupActive(p) \/ Reread(p)
      PROVE  TypeOK'
  <2>1. ASSUME NEW q \in Posts, Settle(p, q)
        PROVE  TypeOK'
    BY <1>3, <2>1, SettleReply, ReplyType DEF LookupActive, Reread, Answer
  <2>2. QED
    BY <1>3, <2>1, GotoType, ReplyType DEF LookupActive, Reread, Active, PostStep, Answer
<1>4. ASSUME NEW p \in Posts, LookupDeleted(p)
      PROVE  TypeOK'
  BY <1>4, GotoType, ReplyType DEF LookupDeleted, PostStep, Answer
<1>5. ASSUME NEW p \in Posts, Insert(p)
      PROVE  TypeOK'
  <2>1. step[p] = "not deleted" /\ (Goto(p, "inserted") \/ Goto(p, "conflict"))
    BY <1>5 DEF Insert
  <2>2. "inserted" \in PostStep /\ "conflict" \in PostStep
    BY DEF PostStep
  <2>3. QED
    BY <2>1, <2>2, GotoType
<1>6. ASSUME NEW p \in Posts, Commit(p)
      PROVE  TypeOK'
  <2>1. "done" \in PostStep /\ {"created", "failed"} \subseteq Answer
    BY DEF PostStep, Answer
  <2>2. step' \in [Posts -> PostStep] /\ record' \in [Posts -> {"none", "active", "deleted"}]
    BY <1>6, <2>1 DEF Commit, TypeOK
  <2>3. answer' \in [Posts -> Answer]
    BY <1>6, <2>1 DEF Commit, TypeOK
  <2>4. QED
    BY <1>6, <2>2, <2>3 DEF Commit, TypeOK
<1>7. ASSUME NEW p \in Posts, Delete(p) \/ Correct(p)
      PROVE  TypeOK'
  BY <1>7 DEF Delete, Correct, TypeOK
<1>8. CASE UNCHANGED vars
  BY <1>8 DEF vars, TypeOK
<1>9. QED
  BY <1>1, <1>2, <1>3, <1>4, <1>5, <1>6, <1>7, <1>8 DEF Next, Serve

\* Type correctness of the keyed create, for any number of posts, keys and
\* payloads (attendance/services.py:80-231).
THEOREM TypeCorrect == Spec => []TypeOK
<1>1. QED
  BY TypeInit, TypeStep, PTL DEF Spec

-----------------------------------------------------------------------------
(* The inductive invariant *)

\* The post has its key's place in the unique index: an active record, or an
\* insert that has not committed yet.
Indexed(p) == record[p] = "active" \/ step[p] = "inserted"

\* The unique index has one place for each key.
IndexInv == \A p, q \in Posts :
    (Indexed(p) /\ Indexed(q) /\ key[p] = key[q]) => p = q

\* A post says nothing before it is sent, has an answer once its handler has returned, a
\* record not before, and its record holds what it sent or a correction.
HistoryInv == \A p \in Posts :
    /\ record[p] # "none" => step[p] = "done" /\ content[p] \in {payload[p], Corrected}
    /\ answer[p] # "none" <=> step[p] = "done"
    /\ step[p] = "unsent" => payload[p] = Blank

IInv == TypeOK /\ IndexInv /\ HistoryInv /\ AnswersTruthful

LEMMA InvInit == Init => IInv
BY TypeInit DEF Init, IInv, IndexInv, Indexed, HistoryInv, AnswersTruthful

\* A step along the handler that takes no place in the index.
LEMMA GotoInv ==
    ASSUME IInv, TypeOK', NEW p \in Posts, NEW s \in PostStep, Goto(p, s),
           s \notin {"unsent", "inserted", "done"},
           step[p] \notin {"unsent", "done"}
    PROVE  IInv'
<1>1. /\ \A q \in Posts : q # p => step'[q] = step[q]
      /\ step'[p] = s
      /\ UNCHANGED <<key, payload, answer, told, record, content>>
  BY DEF Goto, IInv, TypeOK
<1>2. IndexInv'
  BY <1>1 DEF IInv, IndexInv, Indexed
<1>3. HistoryInv' /\ AnswersTruthful'
  BY <1>1 DEF IInv, HistoryInv, AnswersTruthful
<1>4. QED
  BY <1>2, <1>3 DEF IInv

\* A reply that names no record.
LEMMA ReplyNoneInv ==
    ASSUME IInv, TypeOK', NEW p \in Posts, NEW a \in {"refused", "failed"}, Reply(p, a, NoPost),
           step[p] \notin {"unsent", "done"}
    PROVE  IInv'
<1>1. /\ \A q \in Posts : q # p => /\ step'[q] = step[q] /\ answer'[q] = answer[q]
                                   /\ told'[q] = told[q]
      /\ step'[p] = "done" /\ answer'[p] = a
      /\ UNCHANGED <<key, payload, record, content>>
  BY DEF Reply, IInv, TypeOK
<1>2. record[p] = "none"
  BY DEF IInv, HistoryInv, TypeOK
<1>3. IndexInv'
  BY <1>1 DEF IInv, IndexInv, Indexed
<1>4. HistoryInv'
  BY <1>1, <1>2 DEF IInv, HistoryInv
<1>5. AnswersTruthful'
  BY <1>1, <1>2 DEF IInv, AnswersTruthful
<1>6. QED
  BY <1>3, <1>4, <1>5 DEF IInv

\* A replay of the active record of the post's key.
LEMMA ReplayInv ==
    ASSUME IInv, TypeOK', NEW p \in Posts, NEW q \in Active(key[p]), Reply(p, "replayed", q),
           content[q] = payload[p], step[p] \notin {"unsent", "done"}
    PROVE  IInv'
<1>1. /\ \A o \in Posts : o # p => /\ step'[o] = step[o] /\ answer'[o] = answer[o]
                                   /\ told'[o] = told[o]
      /\ step'[p] = "done" /\ answer'[p] = "replayed" /\ told'[p] = q
      /\ UNCHANGED <<key, payload, record, content>>
  BY DEF Reply, IInv, TypeOK
<1>2. record[p] = "none" /\ q \in Posts /\ key[q] = key[p] /\ record[q] = "active"
  BY DEF IInv, HistoryInv, TypeOK, Active
<1>3. IndexInv'
  BY <1>1 DEF IInv, IndexInv, Indexed
<1>4. HistoryInv'
  BY <1>1, <1>2 DEF IInv, HistoryInv
<1>5. AnswersTruthful'
  BY <1>1, <1>2 DEF IInv, AnswersTruthful
<1>6. QED
  BY <1>3, <1>4, <1>5 DEF IInv

\* Settling a post that is still under way, whichever way it goes.
LEMMA SettleInv ==
    ASSUME IInv, TypeOK', NEW p \in Posts, NEW q \in Active(key[p]), Settle(p, q),
           step[p] \notin {"unsent", "done"}
    PROVE  IInv'
<1>1. q \in Posts
  BY DEF Active
<1>2. QED
  BY <1>1, SettleReply, ReplayInv, ReplyNoneInv

LEMMA InsertInv ==
    ASSUME IInv, TypeOK', NEW p \in Posts, Insert(p)
    PROVE  IInv'
<1>1. CASE Goto(p, "conflict")
  BY <1>1, GotoInv DEF Insert, PostStep
<1>2. CASE Active(key[p]) = {} /\ Goto(p, "inserted")
  <2>1. /\ \A q \in Posts : q # p => step'[q] = step[q]
        /\ step'[p] = "inserted" /\ step[p] = "not deleted"
        /\ UNCHANGED <<key, payload, answer, told, record, content>>
    BY <1>2 DEF Insert, Goto, IInv, TypeOK
  <2>2. \A q \in Posts : (q # p /\ key[q] = key[p]) => ~Indexed(q)
    BY <1>2 DEF Insert, Active, Indexed
  <2>3. IndexInv'
    BY <2>1, <2>2 DEF IInv, IndexInv, Indexed
  <2>4. HistoryInv' /\ AnswersTruthful'
    BY <2>1, ZenonT(60) DEF IInv, HistoryInv, AnswersTruthful
  <2>5. QED
    BY <2>3, <2>4 DEF IInv
<1>3. QED
  BY <1>1, <1>2 DEF Insert

LEMMA CommitInv ==
    ASSUME IInv, TypeOK', NEW p \in Posts, Commit(p)
    PROVE  IInv'
<1>1. /\ \A q \in Posts : q # p => /\ step'[q] = step[q] /\ answer'[q] = answer[q]
                                   /\ told'[q] = told[q] /\ record'[q] = record[q]
                                   /\ content'[q] = content[q]
      /\ step[p] = "inserted" /\ step'[p] = "done"
      /\ record'[p] = "active" /\ content'[p] = payload[p]
      /\ (answer'[p] = "created" /\ told'[p] = p) \/ answer'[p] = "failed"
      /\ UNCHANGED <<key, payload>>
  BY DEF Commit, IInv, TypeOK
<1>2. IndexInv'
  BY <1>1 DEF IInv, IndexInv, Indexed
<1>3. HistoryInv'
  BY <1>1 DEF IInv, HistoryInv
<1>4. AnswersTruthful'
  <2> SUFFICES ASSUME NEW q \in Posts
               PROVE  /\ answer'[q] \in {"created", "replayed"} =>
                            /\ told'[q] \in Posts
                            /\ key'[told'[q]] = key'[q]
                            /\ record'[told'[q]] # "none"
                            /\ content'[told'[q]] \in {payload'[q], Corrected}
                      /\ answer'[q] \in {"replayed", "refused"} => record'[q] = "none"
      BY DEF AnswersTruthful
  <2>1. CASE q = p
    BY <1>1, <2>1
  <2>2. CASE q # p
    <3>1. answer[q] \in {"created", "replayed"} => told[q] # p
      BY <1>1 DEF IInv, AnswersTruthful, HistoryInv
    <3>2. QED
      BY <1>1, <2>2, <3>1 DEF IInv, AnswersTruthful
  <2>3. QED
    BY <2>1, <2>2
<1>5. QED
  BY <1>2, <1>3, <1>4 DEF IInv

\* What other users do to a record leaves its post alone.
LEMMA StaffInv ==
    ASSUME IInv, TypeOK', NEW p \in Posts, Delete(p) \/ Correct(p)
    PROVE  IInv'
<1>1. /\ UNCHANGED <<step, key, payload, answer, told>>
      /\ \A q \in Posts : /\ record'[q] = "active" => record[q] = "active"
                          /\ record'[q] = "none" <=> record[q] = "none"
                          /\ content'[q] \in {content[q], Corrected}
  BY DEF Delete, Correct, IInv, TypeOK
<1>2. IndexInv'
  BY <1>1 DEF IInv, IndexInv, Indexed
<1>3. HistoryInv'
  BY <1>1 DEF IInv, HistoryInv
<1>4. AnswersTruthful'
  BY <1>1 DEF IInv, AnswersTruthful
<1>5. QED
  BY <1>2, <1>3, <1>4 DEF IInv

LEMMA SendInv ==
    ASSUME IInv, TypeOK', NEW p \in Posts, NEW k \in Keys, NEW d \in Payloads, Send(p, k, d)
    PROVE  IInv'
<1>1. /\ \A q \in Posts : q # p => /\ step'[q] = step[q] /\ key'[q] = key[q]
                                   /\ payload'[q] = payload[q]
      /\ step[p] = "unsent" /\ step'[p] = "sent"
      /\ UNCHANGED <<answer, told, record, content>>
  BY DEF Send, IInv, TypeOK
<1>2. record[p] = "none" /\ answer[p] = "none"
  BY <1>1 DEF IInv, HistoryInv, TypeOK
<1>3. IndexInv'
  BY <1>1, <1>2 DEF IInv, IndexInv, Indexed
<1>4. HistoryInv'
  BY <1>1, <1>2 DEF IInv, HistoryInv
<1>5. AnswersTruthful'
  BY <1>1, <1>2 DEF IInv, AnswersTruthful
<1>6. QED
  BY <1>3, <1>4, <1>5 DEF IInv

LEMMA InvStep == IInv /\ [Next]_vars => IInv'
<1> SUFFICES ASSUME IInv, [Next]_vars
             PROVE  IInv'
    OBVIOUS
<1>1. TypeOK'
  BY TypeStep DEF IInv
<1>2. ASSUME NEW p \in Posts, Refuse(p) \/ Fail(p)
      PROVE  IInv'
  BY <1>1, <1>2, ReplyNoneInv DEF Refuse, Fail
<1>3. ASSUME NEW p \in Posts, LookupActive(p) \/ Reread(p)
      PROVE  IInv'
  BY <1>1, <1>3, SettleInv, GotoInv, ReplyNoneInv DEF LookupActive, Reread, PostStep
<1>4. ASSUME NEW p \in Posts, LookupDeleted(p)
      PROVE  IInv'
  BY <1>1, <1>4, GotoInv, ReplyNoneInv DEF LookupDeleted, PostStep
<1>5. CASE UNCHANGED vars
  BY <1>1, <1>5 DEF vars, IInv, IndexInv, Indexed, HistoryInv, AnswersTruthful
<1>6. QED
  BY <1>1, <1>2, <1>3, <1>4, <1>5, InsertInv, CommitInv, StaffInv, SendInv DEF Next, Serve

\* The inductive invariant holds in every reachable state of any instance.
THEOREM InvHolds == Spec => []IInv
<1>1. QED
  BY InvInit, InvStep, PTL DEF Spec

\* One active record for each import key, whatever is sent again, given up on, late,
\* deleted or corrected (attendance/services.py:205-231, models.py:66-76).
THEOREM OneActiveHolds == Spec => []OneActive
<1>1. IInv => OneActive
  BY DEF IInv, IndexInv, Indexed, OneActive
<1>2. QED
  BY <1>1, InvHolds, PTL

\* A 201 or a 200 names a record that was committed with the post's own key and
\* content, and a refused or replayed post leaves none of its own
\* (attendance/services.py:156-231).
THEOREM AnswersTruthfulHolds == Spec => []AnswersTruthful
<1>1. IInv => AnswersTruthful
  BY DEF IInv
<1>2. QED
  BY <1>1, InvHolds, PTL

\* Two attempts answered with two different records under one key: one of the two
\* records has been deleted in between.
AnswersAgree == \A p, q \in Posts :
    (/\ answer[p] \in {"created", "replayed"} /\ answer[q] \in {"created", "replayed"}
     /\ key[p] = key[q] /\ told[p] # told[q])
        => "deleted" \in {record[told[p]], record[told[q]]}

\* Two answers with one key name one record, unless one was deleted in between
\* (attendance/services.py:156-231).
THEOREM AnswersAgreeHolds == Spec => []AnswersAgree
<1>1. IInv => AnswersAgree
  <2> SUFFICES ASSUME IInv, NEW p \in Posts, NEW q \in Posts,
                      answer[p] \in {"created", "replayed"}, answer[q] \in {"created", "replayed"},
                      key[p] = key[q], told[p] # told[q]
               PROVE  "deleted" \in {record[told[p]], record[told[q]]}
      BY DEF AnswersAgree
  <2>1. /\ told[p] \in Posts /\ told[q] \in Posts
        /\ key[told[p]] = key[told[q]]
        /\ record[told[p]] # "none" /\ record[told[q]] # "none"
    BY DEF IInv, AnswersTruthful
  <2>2. ~(record[told[p]] = "active" /\ record[told[q]] = "active")
    BY <2>1 DEF IInv, IndexInv, Indexed
  <2>3. QED
    BY <2>1, <2>2 DEF IInv, TypeOK
<1>2. QED
  BY <1>1, InvHolds, PTL

-----------------------------------------------------------------------------
(* Implementation of KeyedStore *)

Held(k) == {content[q] : q \in Active(k)}

\* A step that leaves records alone leaves the store alone.
LEMMA HeldKept ==
    ASSUME UNCHANGED <<key, record, content>>
    PROVE  \A k \in Keys : Held(k)' = Held(k)
BY DEF Held, Active

\* Under a key lies one punch at most: that of its active record.
LEMMA HeldOne ==
    ASSUME IInv, NEW q \in Posts, record[q] = "active"
    PROVE  Active(key[q]) = {q} /\ Held(key[q]) = {content[q]}
<1>1. Active(key[q]) = {q}
  BY DEF IInv, IndexInv, Indexed, Active
<1>2. QED
  BY <1>1 DEF Held

\* A post under way is an open request of the store.
LEMMA OpenPost ==
    ASSUME IInv, NEW p \in Posts, step[p] \notin {"unsent", "done"}
    PROVE  /\ key[p] \in Keys /\ payload[p] \in Payloads
           /\ payload[p] # Blank /\ answer[p] = "none" /\ record[p] = "none"
BY PayloadAssumption DEF IInv, TypeOK, HistoryInv

\* A reply that names no record declines the request.
LEMMA DeclineStep ==
    ASSUME IInv, NEW p \in Posts, NEW a \in {"refused", "failed"}, Reply(p, a, NoPost),
           step[p] \notin {"unsent", "done"}
    PROVE  Store!Decline(p)
<1>1. [k \in Keys |-> Held(k)]' = [k \in Keys |-> Held(k)]
  BY HeldKept DEF Reply
<1>2. QED
  BY <1>1, OpenPost DEF Reply, Held, Store!Decline, Store!Open, Store!Answered

\* A replay finds the punch it was sent under the key.
LEMMA SettleStep ==
    ASSUME IInv, NEW p \in Posts, NEW q \in Active(key[p]), Settle(p, q),
           step[p] \notin {"unsent", "done"}
    PROVE  Store!Replay(p) \/ Store!Decline(p)
<1>1. q \in Posts /\ record[q] = "active" /\ key[q] = key[p]
  BY DEF Active
<1>2. CASE content[q] = payload[p] /\ Reply(p, "replayed", q)
  <2>1. [k \in Keys |-> Held(k)]' = [k \in Keys |-> Held(k)]
    BY <1>2, HeldKept DEF Reply
  <2>2. [k \in Keys |-> Held(k)][key[p]] = {payload[p]}
    BY <1>1, <1>2, HeldOne, OpenPost
  <2>3. QED
    BY <1>2, <2>1, <2>2, OpenPost DEF Reply, Held, Store!Replay, Store!Open, Store!Answered
<1>3. QED
  BY <1>1, <1>2, SettleReply, DeclineStep

\* A commit finds nothing under the key: its insert has the key's place in the index.
LEMMA CommitStep ==
    ASSUME IInv, NEW p \in Posts, Commit(p)
    PROVE  Store!Create(p)
<1>1. /\ step[p] = "inserted" /\ UNCHANGED <<key, payload>>
      /\ record' = [record EXCEPT ![p] = "active"] /\ content' = [content EXCEPT ![p] = payload[p]]
      /\ \E a \in {"created", "failed"} : answer' = [answer EXCEPT ![p] = a]
  BY DEF Commit
<1>2. Active(key[p]) = {} /\ Held(key[p]) = {}
  BY <1>1, OpenPost DEF IInv, IndexInv, Indexed, Active, Held
<1>3. ASSUME NEW k \in Keys
      PROVE  Held(k)' = IF k = key[p] THEN {payload[p]} ELSE Held(k)
  <2>1. CASE k = key[p]
    <3>1. Active(k)' = {p}
      BY <1>1, <1>2, <2>1 DEF Active, IInv, TypeOK
    <3>2. QED
      BY <1>1, <2>1, <3>1 DEF Held, IInv, TypeOK
  <2>2. CASE k # key[p]
    <3>1. Active(k)' = Active(k) /\ p \notin Active(k)
      BY <1>1, <2>2 DEF Active, IInv, TypeOK
    <3>2. \A q \in Active(k) : content'[q] = content[q]
      BY <1>1, <3>1 DEF Active, IInv, TypeOK
    <3>3. QED
      BY <2>2, <3>1, <3>2 DEF Held
  <2>3. QED
    BY <2>1, <2>2
<1>4. [k \in Keys |-> Held(k)]' = [[k \in Keys |-> Held(k)] EXCEPT ![key[p]] = {payload[p]}]
  BY <1>1, <1>3, OpenPost
<1>5. [k \in Keys |-> Held(k)][key[p]] = {}
  BY <1>1, <1>2, OpenPost
<1>6. QED
  BY <1>1, <1>4, <1>5, OpenPost DEF Held, Store!Create, Store!Open, Store!Answered

\* The deletion or correction of an active record is that of its key's punch; of a
\* deleted record it is a stutter.
LEMMA StaffStep ==
    ASSUME IInv, NEW p \in Posts, Delete(p) \/ Correct(p)
    PROVE  \/ \E k \in Keys : Store!Delete(k) \/ Store!Correct(k)
           \/ UNCHANGED Store!vars
<1>1. key[p] \in Keys /\ UNCHANGED <<key, payload, answer>>
  BY DEF Delete, Correct, IInv, HistoryInv, TypeOK
<1>2. ASSUME NEW k \in Keys, k # key[p] \/ record[p] # "active"
      PROVE  Held(k)' = Held(k)
  <2>1. Active(k)' = Active(k) /\ p \notin Active(k)
    BY <1>1, <1>2 DEF Delete, Correct, Active, IInv, TypeOK
  <2>2. \A q \in Active(k) : content'[q] = content[q]
    BY <2>1 DEF Delete, Correct, Active, IInv, TypeOK
  <2>3. QED
    BY <2>1, <2>2 DEF Held
<1>3. CASE record[p] # "active"
  <2>1. [k \in Keys |-> Held(k)]' = [k \in Keys |-> Held(k)]
    BY <1>2, <1>3
  <2>2. QED
    BY <1>1, <2>1 DEF Held, Store!vars
<1>4. CASE record[p] = "active"
  <2> PICK j \in Keys : j = key[p]
    BY <1>1
  <2>1. Active(j) = {p} /\ [k \in Keys |-> Held(k)][j] # {}
    BY <1>1, <1>4, HeldOne
  <2>2. CASE Delete(p)
    <3>1. Held(j)' = {}
      BY <1>1, <2>1, <2>2 DEF Held, Delete, Active, IInv, TypeOK
    <3>2. [k \in Keys |-> Held(k)]' = [[k \in Keys |-> Held(k)] EXCEPT ![j] = {}]
      BY <1>1, <1>2, <3>1
    <3>3. Store!Delete(j)
      BY <1>1, <2>1, <2>2, <3>2 DEF Held, Delete, Store!Delete
    <3>4. QED
      BY <3>3
  <2>3. CASE Correct(p)
    <3>1. Active(j)' = {p} /\ content'[p] = Corrected
      BY <1>1, <2>1, <2>3 DEF Correct, Active, IInv, TypeOK
    <3>2. Held(j)' = {Corrected}
      BY <1>1, <3>1 DEF Held
    <3>3. [k \in Keys |-> Held(k)]' = [[k \in Keys |-> Held(k)] EXCEPT ![j] = {Corrected}]
      BY <1>1, <1>2, <3>2
    <3>4. Store!Correct(j)
      BY <1>1, <2>1, <2>3, <3>3 DEF Held, Correct, Store!Correct
    <3>5. QED
      BY <3>4
  <2>4. QED
    BY <2>2, <2>3
<1>5. QED
  BY <1>3, <1>4

\* A step of a post along its handler shows nothing to the store.
LEMMA GotoStep ==
    ASSUME NEW p \in Posts, NEW s, Goto(p, s)
    PROVE  UNCHANGED Store!vars
<1>1. [k \in Keys |-> Held(k)]' = [k \in Keys |-> Held(k)]
  BY HeldKept DEF Goto
<1>2. QED
  BY <1>1 DEF Goto, Held, Store!vars

\* Each step of the handlers and of other users is a step of the store, or leaves it alone.
LEMMA StoreStep == IInv /\ [Next]_vars => [Store!Next]_(Store!vars)
<1> SUFFICES ASSUME IInv, [Next]_vars
             PROVE  Store!Next \/ UNCHANGED Store!vars
    OBVIOUS
<1>1. ASSUME NEW p \in Posts, NEW k \in Keys, NEW d \in Payloads, Send(p, k, d)
      PROVE  Store!Next
  <2>1. record[p] = "none" /\ payload[p] = Blank
    BY <1>1 DEF Send, IInv, HistoryInv, TypeOK
  <2>2. \A j \in Keys : Active(j)' = Active(j)
    BY <1>1, <2>1 DEF Send, Active, IInv, TypeOK
  <2>3. [j \in Keys |-> Held(j)]' = [j \in Keys |-> Held(j)]
    BY <1>1, <2>2 DEF Held, Send
  <2>4. Store!Send(p, k, d)
    BY <1>1, <2>1, <2>3 DEF Send, Held, Store!Send
  <2>5. QED
    BY <2>4 DEF Store!Next
<1>2. ASSUME NEW p \in Posts, Refuse(p) \/ Fail(p)
      PROVE  Store!Next
  BY <1>2, DeclineStep DEF Refuse, Fail, Store!Next
<1>3. ASSUME NEW p \in Posts, LookupActive(p) \/ Reread(p)
      PROVE  Store!Next \/ UNCHANGED Store!vars
  BY <1>3, SettleStep, DeclineStep, GotoStep DEF LookupActive, Reread, Store!Next
<1>4. ASSUME NEW p \in Posts, LookupDeleted(p) \/ Insert(p)
      PROVE  Store!Next \/ UNCHANGED Store!vars
  BY <1>4, DeclineStep, GotoStep DEF LookupDeleted, Insert, Store!Next
<1>5. ASSUME NEW p \in Posts, Commit(p)
      PROVE  Store!Next
  BY <1>5, CommitStep DEF Store!Next
<1>6. ASSUME NEW p \in Posts, Delete(p) \/ Correct(p)
      PROVE  Store!Next \/ UNCHANGED Store!vars
  BY <1>6, StaffStep DEF Store!Next
<1>7. CASE UNCHANGED vars
  <2>1. [k \in Keys |-> Held(k)]' = [k \in Keys |-> Held(k)]
    BY <1>7, HeldKept DEF vars
  <2>2. QED
    BY <1>7, <2>1 DEF vars, Held, Store!vars
<1>8. QED
  BY <1>1, <1>2, <1>3, <1>4, <1>5, <1>6, <1>7 DEF Next, Serve

\* The keyed create implements the atomic store, for any number of attempts, keys and
\* punches: it is one step to its clients (attendance/services.py:156-231).
THEOREM ImplementsStoreHolds == Spec => ImplementsStore
<1>1. Init => Store!Init
  BY DEF Init, Active, Store!Init
<1>2. QED
  BY <1>1, StoreStep, InvHolds, PTL DEF Spec, ImplementsStore, Store!Spec

=============================================================================
