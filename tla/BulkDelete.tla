----------------------------- MODULE BulkDelete ------------------------------
(***************************************************************************)
(* Deleting many records of the CMS with one request: into the trash, or   *)
(* for good.                                                               *)
(*                                                                         *)
(* The request is not a transaction.  It goes through the ids, and for     *)
(* each one runs the whole deletion of a single record: the right of the   *)
(* actor is read again, then a SERIALIZABLE transaction finds the record   *)
(* and writes it.  A refusal of one id is noted and the next one follows;  *)
(* the loss of the right, or an error of the system, ends the request.     *)
(* What a single deletion checks of an account is the subject of Staff.    *)
(***************************************************************************)
EXTENDS Naturals, Sequences, FiniteSets

CONSTANTS
    Record,  \* rows of one kind
    Batcher, \* requests that can be in flight at the same time
    NoBatch  \* no request

IdLists == {ids \in UNION {[1..n -> Record] : n \in 1..Cardinality(Record)} :
                \A i, j \in DOMAIN ids : i # j => ids[i] # ids[j]}

\* The statuses of the answers: no right, not there, conflict, system error
Statuses == {403, 404, 409, 500}

\* `at` is the place of the id that is worked on.  "authorize": the right has to
\* be read; "delete": it was there; "end": the answer is ready.  `succeeded`,
\* `failed` and `remaining` are the answer.  History: `touched` are the rows the
\* request changed, `overrun` counts them since the right was lost.
Batch == [ids : IdLists, mode : {"trash", "permanent"}, at : Nat,
          step : {"authorize", "delete", "end"},
          succeeded : SUBSET Record, failed : SUBSET (Record \X Statuses),
          remaining : SUBSET Record, touched : SUBSET Record, overrun : Nat]

ASSUME BulkAssumption ==
    /\ IsFiniteSet(Record)
    /\ NoBatch \notin Batch

VARIABLES
    record,    \* where each row is
    entitled,  \* the right to delete of each request's actor
    batch

bulkVars == <<record, entitled, batch>>

BulkTypeOK ==
    /\ record \in [Record -> {"live", "trashed", "purged"}]
    /\ entitled \in [Batcher -> BOOLEAN]
    /\ \A b \in Batcher : batch[b] = NoBatch \/ batch[b] \in Batch

BulkInit ==
    /\ record = [x \in Record |-> "live"]
    /\ entitled = [b \in Batcher |-> TRUE]
    /\ batch = [b \in Batcher |-> NoBatch]

-----------------------------------------------------------------------------
(* One request                                                             *)

At(b, step) == batch[b] # NoBatch /\ batch[b].step = step
Current(b)  == batch[b].ids[batch[b].at]

\* The ids that have not been worked on
Rest(b) == {batch[b].ids[i] : i \in batch[b].at + 1 .. Len(batch[b].ids)}

\* 401, 403, 429 and errors of the system
EndsBatch(status) == status \in {403, 500}

Submit(b, ids, mode) ==
    /\ batch[b] = NoBatch
    /\ entitled[b]
    /\ batch' = [batch EXCEPT ![b] =
           [ids |-> ids, mode |-> mode, at |-> 1, step |-> "authorize", succeeded |-> {},
            failed |-> {}, remaining |-> {}, touched |-> {}, overrun |-> 0]]
    /\ UNCHANGED <<record, entitled>>

\* The step after the current id, which is the end after the last one
NextStep(b) == IF Rest(b) = {} THEN "end" ELSE "authorize"

\* remainingIds
Unreached(b, status) == IF EndsBatch(status) THEN Rest(b) ELSE {}

\* The current id fails; `touched` is {} unless it was deleted all the same.
Failed(b, status, touched) ==
    [batch[b] EXCEPT !.at = @ + 1,
                     !.step = IF EndsBatch(status) THEN "end" ELSE NextStep(b),
                     !.failed = @ \cup {<<Current(b), status>>},
                     !.remaining = Unreached(b, status),
                     !.touched = @ \cup touched,
                     !.overrun = IF entitled[b] THEN @ ELSE @ + Cardinality(touched)]

Fail(b, status, touched) == batch' = [batch EXCEPT ![b] = Failed(b, status, touched)]

\* A mistaken loop that reads the right once, before it starts.
AuthorizedOnce(b) == TRUE

\* authorize(): the row of the actor, as it is now
Authorized(b) == entitled[b]

Authorize(b) ==
    /\ At(b, "authorize")
    /\ IF Authorized(b) THEN batch' = [batch EXCEPT ![b].step = "delete"]
                        ELSE Fail(b, 403, {})
    /\ UNCHANGED <<record, entitled>>

\* Whether a deletion of this mode finds the row
FindsRecord(mode, x) ==
    IF mode = "trash" THEN record[x] = "live" ELSE record[x] # "purged"

DeleteCurrent(b) ==
    record' = [record EXCEPT ![Current(b)] =
                   IF batch[b].mode = "trash" THEN "trashed" ELSE "purged"]

\* The current id was deleted.
Deleted(b) ==
    [batch[b] EXCEPT !.at = @ + 1,
                     !.step = NextStep(b),
                     !.succeeded = @ \cup {Current(b)},
                     !.touched = @ \cup {Current(b)},
                     !.overrun = IF entitled[b] THEN @ ELSE @ + 1]

Delete(b) ==
    /\ At(b, "delete")
    /\ FindsRecord(batch[b].mode, Current(b))
    /\ DeleteCurrent(b)
    /\ batch' = [batch EXCEPT ![b] = Deleted(b)]
    /\ UNCHANGED entitled

NotFound(b) ==
    /\ At(b, "delete")
    /\ ~FindsRecord(batch[b].mode, Current(b))
    /\ Fail(b, 404, {})
    /\ UNCHANGED <<record, entitled>>

\* The transaction was chosen to be aborted (P2034).
Conflict(b) ==
    /\ At(b, "delete")
    /\ FindsRecord(batch[b].mode, Current(b))
    /\ Fail(b, 409, {})
    /\ UNCHANGED <<record, entitled>>

\* The database cannot be reached, or goes away before it has answered a COMMIT.
Outage(b) ==
    /\ At(b, "authorize") \/ At(b, "delete")
    /\ Fail(b, 500, {})
    /\ UNCHANGED <<record, entitled>>

LostCommit(b) ==
    /\ At(b, "delete")
    /\ FindsRecord(batch[b].mode, Current(b))
    /\ DeleteCurrent(b)
    /\ Fail(b, 500, {Current(b)})
    /\ UNCHANGED entitled

\* The answer is sent, or the process dies before that.
LeaveBatch(b) ==
    /\ batch[b] # NoBatch
    /\ batch' = [batch EXCEPT ![b] = NoBatch]
    /\ UNCHANGED <<record, entitled>>

-----------------------------------------------------------------------------
(* Others                                                                  *)

\* Somebody else trashes, restores or purges a row.
MoveRecord(x, place) ==
    /\ record[x] # place
    /\ record[x] # "purged"
    /\ record' = [record EXCEPT ![x] = place]
    /\ UNCHANGED <<entitled, batch>>

\* The right is withdrawn or given: updateDeletePermissions(), a lock, the trash
Entitle(b, right) ==
    /\ entitled[b] # right
    /\ entitled' = [entitled EXCEPT ![b] = right]
    /\ batch' = IF batch[b] = NoBatch THEN batch ELSE [batch EXCEPT ![b].overrun = 0]
    /\ UNCHANGED record

-----------------------------------------------------------------------------
BatchStep(b) ==
    \/ \E ids \in IdLists, mode \in {"trash", "permanent"} : Submit(b, ids, mode)
    \/ Authorize(b) \/ Delete(b) \/ NotFound(b) \/ Conflict(b)
    \/ Outage(b) \/ LostCommit(b) \/ LeaveBatch(b)
    \/ \E right \in BOOLEAN : Entitle(b, right)

BulkNext ==
    \/ \E b \in Batcher : BatchStep(b)
    \/ \E x \in Record, place \in {"live", "trashed", "purged"} : MoveRecord(x, place)

BulkSpec == BulkInit /\ [][BulkNext]_bulkVars

-----------------------------------------------------------------------------
(* Safety                                                                  *)

FailedIds(b) == {f[1] : f \in batch[b].failed}

\* The answer accounts for every id exactly once; what it says succeeded was
\* deleted by this request, and what it says is left was not touched by it.  Of
\* the failures only the one that the system ended with may have been deleted.
\* ("báo đúng phần đã thành công", bulkDelete)
BulkReportTrue ==
    \A b \in Batcher : At(b, "end") =>
        LET p == batch[b]
        IN  /\ p.succeeded \cup FailedIds(b) \cup p.remaining = {p.ids[i] : i \in DOMAIN p.ids}
            /\ Cardinality(p.succeeded) + Cardinality(p.failed) + Cardinality(p.remaining)
                   = Len(p.ids)
            /\ p.succeeded \subseteq p.touched
            /\ p.touched \subseteq p.succeeded \cup {f[1] : f \in {g \in p.failed : g[2] = 500}}
            /\ p.remaining \cap p.touched = {}

\* Once the actor has lost the right, at most the record that was authorised
\* already is deleted.  (authorize in every trash and purge of the loop)
LostRightStopsBatch == \A b \in Batcher : batch[b] # NoBatch => batch[b].overrun <= 1

\* A bulk deletion says truly what it did, and a right that was withdrawn ends it.
\* (bulkDelete, authorize)
BulkDeletionTrue == BulkReportTrue /\ LostRightStopsBatch
=============================================================================
