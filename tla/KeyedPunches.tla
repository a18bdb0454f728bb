---------------------------- MODULE KeyedPunches ----------------------------
(***************************************************************************)
(* The keyed create of a daily time record (attendance/services.py,        *)
(* create_dtr), as concurrent transactions of the API at READ COMMITTED,   *)
(* beside the deletion and the correction of records by other users.       *)
(*                                                                         *)
(* A post is one POST /daily-time-records that carries an import key.  Its *)
(* sender may have given up on it long before it commits.  A record is     *)
(* named by the post that created it.                                      *)
(***************************************************************************)
CONSTANTS
    Posts,     \* requests that may be sent
    NoPost,    \* no request, no record
    Keys,      \* (employee, source_ref) pairs
    Payloads,  \* login, logout and shift, as the create sent them
    Corrected, \* what a correction changes them to
    Blank,     \* no key, no payload
    Staff      \* what other users do to records: "delete", "correct"

ASSUME NoPostAssumption == NoPost \notin Posts
ASSUME PayloadAssumption == Corrected \notin Payloads /\ Blank \notin Payloads

\* Where a post is in create_dtr.
PostStep == {"unsent", "sent", "not active", "not deleted", "inserted", "conflict", "done"}

Answer == {"none", "created", "replayed", "refused", "failed"}

VARIABLES
    step,    \* the next step of a post
    key,     \* the import key of a post
    payload, \* its times and shift
    answer,  \* what the API answered: 201, 200, 4xx, 5xx or a broken connection
    told,    \* the record named in a 201 or 200
    record,  \* is_deleted of the record a post created, "none" without one
    content  \* the times and shift of that record

vars == <<step, key, payload, answer, told, record, content>>

-----------------------------------------------------------------------------

Active(k) == {p \in Posts : key[p] = k /\ record[p] = "active"}
Deleted(k) == {p \in Posts : key[p] = k /\ record[p] = "deleted"}

Goto(p, s) ==
    /\ step' = [step EXCEPT ![p] = s]
    /\ UNCHANGED <<key, payload, answer, told, record, content>>

\* The handler returns; nothing but the answer changes.
Reply(p, a, id) ==
    /\ step' = [step EXCEPT ![p] = "done"]
    /\ answer' = [answer EXCEPT ![p] = a]
    /\ told' = [told EXCEPT ![p] = id]
    /\ UNCHANGED <<key, payload, record, content>>

\* Slip: the replay does not compare the payloads.
SettleBlindly(p, q) == Reply(p, "replayed", q)

\* The key has the active record q: the same punch is replayed, another is a 409.
Settle(p, q) ==
    IF content[q] = payload[p] THEN Reply(p, "replayed", q) ELSE Reply(p, "refused", NoPost)

\* Slip: the request leaves without its import key.
SendKeyless(p, k, d) ==
    /\ step[p] = "unsent"
    /\ step' = [step EXCEPT ![p] = "sent"]
    /\ payload' = [payload EXCEPT ![p] = d]
    /\ UNCHANGED <<key, answer, told, record, content>>

Send(p, k, d) ==
    /\ step[p] = "unsent"
    /\ step' = [step EXCEPT ![p] = "sent"]
    /\ key' = [key EXCEPT ![p] = k]
    /\ payload' = [payload EXCEPT ![p] = d]
    /\ UNCHANGED <<answer, told, record, content>>

\* Not permitted, unknown employee or shift, malformed dates: 4xx before any lookup.
Refuse(p) == step[p] = "sent" /\ Reply(p, "refused", NoPost)

LookupActive(p) ==
    /\ step[p] = "sent"
    /\ \/ \E q \in Active(key[p]) : Settle(p, q)
       \/ Active(key[p]) = {} /\ Goto(p, "not active")

\* A key whose record was deleted is a 409.
LookupDeleted(p) ==
    /\ step[p] = "not active"
    /\ IF Deleted(key[p]) # {} THEN Reply(p, "refused", NoPost) ELSE Goto(p, "not deleted")

\* Slip: no unique index.
InsertFreely(p) == step[p] = "not deleted" /\ Goto(p, "inserted")

\* The flush in the savepoint.  The partial unique index makes it wait for an
\* uncommitted insert of the same key, and fail on a committed active one.
Insert(p) ==
    /\ step[p] = "not deleted"
    /\ \A q \in Posts : (step[q] = "inserted" /\ key[q] = key[p]) => q = p
    /\ IF Active(key[p]) = {} THEN Goto(p, "inserted") ELSE Goto(p, "conflict")

\* After the IntegrityError: re-read the winner; 409 when it is gone again.
Reread(p) ==
    /\ step[p] = "conflict"
    /\ \/ \E q \in Active(key[p]) : Settle(p, q)
       \/ Active(key[p]) = {} /\ Reply(p, "refused", NoPost)

\* COMMIT; the refresh of the row that follows may still fail.
Commit(p) ==
    /\ step[p] = "inserted"
    /\ record' = [record EXCEPT ![p] = "active"]
    /\ content' = [content EXCEPT ![p] = payload[p]]
    /\ step' = [step EXCEPT ![p] = "done"]
    /\ \/ answer' = [answer EXCEPT ![p] = "created"] /\ told' = [told EXCEPT ![p] = p]
       \/ answer' = [answer EXCEPT ![p] = "failed"] /\ UNCHANGED told
    /\ UNCHANGED <<key, payload>>

\* The request is lost on its way, or the worker dies: PostgreSQL rolls back.
Fail(p) == step[p] \notin {"unsent", "done"} /\ Reply(p, "failed", NoPost)

-----------------------------------------------------------------------------
(* Other users *)

\* delete_dtr: soft delete of an active record.
Delete(p) ==
    /\ "delete" \in Staff
    /\ record[p] = "active"
    /\ record' = [record EXCEPT ![p] = "deleted"]
    /\ UNCHANGED <<step, key, payload, answer, told, content>>

\* update_dtr: the times of a record are corrected; it was active when the
\* handler loaded it, and may be deleted since.
Correct(p) ==
    /\ "correct" \in Staff
    /\ record[p] # "none"
    /\ content' = [content EXCEPT ![p] = Corrected]
    /\ UNCHANGED <<step, key, payload, answer, told, record>>

-----------------------------------------------------------------------------

Init ==
    /\ step = [p \in Posts |-> "unsent"]
    /\ key = [p \in Posts |-> Blank]
    /\ payload = [p \in Posts |-> Blank]
    /\ answer = [p \in Posts |-> "none"]
    /\ told = [p \in Posts |-> NoPost]
    /\ record = [p \in Posts |-> "none"]
    /\ content = [p \in Posts |-> Blank]

\* The API handles a post, or other users act on a record.
Serve(p) ==
    \/ Refuse(p) \/ LookupActive(p) \/ LookupDeleted(p)
    \/ Insert(p) \/ Reread(p) \/ Commit(p) \/ Fail(p)

Next == \E p \in Posts :
            \/ \E k \in Keys, d \in Payloads : Send(p, k, d)
            \/ Serve(p) \/ Delete(p) \/ Correct(p)

Spec == Init /\ [][Next]_vars

-----------------------------------------------------------------------------
(* Properties *)

\* The type invariant: a post that was sent has a key and a payload.
TypeOK ==
    /\ step \in [Posts -> PostStep]
    /\ key \in [Posts -> Keys \cup {Blank}]
    /\ payload \in [Posts -> Payloads \cup {Blank}]
    /\ answer \in [Posts -> Answer]
    /\ told \in [Posts -> Posts \cup {NoPost}]
    /\ record \in [Posts -> {"none", "active", "deleted"}]
    /\ content \in [Posts -> Payloads \cup {Corrected, Blank}]
    /\ \A p \in Posts : step[p] # "unsent" => key[p] \in Keys /\ payload[p] \in Payloads

\* At most one active record for each import key, however many attempts with that
\* key are under way at once, some long given up by their sender.
OneActive == \A p, q \in Posts :
    (record[p] = "active" /\ record[q] = "active" /\ key[p] = key[q]) => p = q

\* A post that was answered with a record was answered truthfully: the record was
\* committed under the post's own key, and nothing but a later correction tells
\* its content from what the post sent.
AnswersTruthful == \A p \in Posts :
    /\ answer[p] \in {"created", "replayed"} =>
          /\ told[p] \in Posts
          /\ key[told[p]] = key[p]
          /\ record[told[p]] # "none"
          /\ content[told[p]] \in {payload[p], Corrected}
    /\ answer[p] \in {"replayed", "refused"} => record[p] = "none"

Store == INSTANCE KeyedStore WITH held <- [k \in Keys |-> {content[q] : q \in Active(k)}]

\* Each attempt takes effect in one step, however its lookups, its insert and its commit
\* are interleaved with those of others: it records its punch only while nothing lies
\* under its key, and is a replay only while that very punch does.
ImplementsStore == Store!Spec

=============================================================================
