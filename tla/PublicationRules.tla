-------------------------- MODULE PublicationRules --------------------------
(***************************************************************************)
(* The pure rules of publication shared by News, Projects, Pages and       *)
(* Cooperation: who may do what to a record, when a record is public, and  *)
(* which columns a command writes.  No state; every operator is read off   *)
(* one function of src/common/.                                            *)
(*                                                                         *)
(* A record is [life, status, sched, pub]: `life` stands for the row       *)
(* existing and for deleted_at, `sched` for scheduledAt, `pub` for         *)
(* publishedAt.  Instants are naturals, Null is SQL NULL, and Keep is the  *)
(* `undefined` by which Prisma leaves a column out of the UPDATE.          *)
(***************************************************************************)
EXTENDS Integers

CONSTANTS
    Null,        \* SQL NULL
    Keep,        \* undefined in Prisma's data: the column is not written
    MinLead,     \* MIN_SCHEDULE_LEAD_MS, in clock units
    MaxHorizon   \* MAX_SCHEDULE_HORIZON_MS, in clock units

Status == {"DRAFT", "PENDING", "PUBLISHED"}

ASSUME RulesAssumption ==
    /\ Null \notin Nat
    /\ Keep \notin Nat \cup Status \cup {Null}
    /\ MinLead \in Nat \ {0}
    /\ MaxHorizon \in Nat

Time      == Nat
MaybeTime == Time \cup {Null}
Role      == {"EDITOR", "ADMIN", "SUPER_ADMIN"}
Life      == {"none", "live", "trashed", "purged"}
Record    == [life : Life, status : Status, sched : MaybeTime, pub : MaybeTime]

Admins == {"ADMIN", "SUPER_ADMIN"}

\* A mistaken write that stores undefined in the columns it should skip.
ColumnOverwritten(new, old) == new

\* The value a column has after an UPDATE whose data names it `new`.
Column(new, old) == IF new = Keep THEN old ELSE new

-----------------------------------------------------------------------------
(* Visibility: publication.ts                                              *)

\* A mistaken rule that shows a scheduled record only after its hour.
VisibleAfterHour(r, t) ==
    r.status = "PUBLISHED" \/ (r.status = "PENDING" /\ r.sched # Null /\ r.sched < t)

IsPubliclyVisible(r, t) ==
    \/ r.status = "PUBLISHED"
    \/ r.status = "PENDING" /\ r.sched # Null /\ r.sched <= t

\* What a public route answers: the visibility rule on a row not in the trash.
Public(r, t) == r.life = "live" /\ IsPubliclyVisible(r, t)

\* The rows a reconciler run promotes, the WHERE of its UPDATE.
Due(r, t) ==
    /\ r.status = "PENDING"
    /\ r.life = "live"
    /\ r.sched # Null
    /\ r.sched <= t

-----------------------------------------------------------------------------
(* Schedule state: publication-schedule.ts                                 *)

HasBeenPublic(pub, t) == pub # Null /\ pub <= t

IsActiveFutureSchedule(r, t) ==
    /\ r.status = "PENDING"
    /\ r.sched # Null
    /\ r.pub # Null
    /\ r.sched > t
    /\ r.pub = r.sched

\* A mistaken rule that looks for history only in published records.
HistoryIfPublished(r, t) == r.pub # Null /\ r.status = "PUBLISHED"

HasHistoricalPublication(r, t) == r.pub # Null /\ ~IsActiveFutureSchedule(r, t)

\* A mistaken rule that lets an editor change a pending record, scheduled or not.
EditorMayEditPending(r) == r.status # "PUBLISHED"

EditorMayEditScheduled(r) ==
    /\ r.pub = Null
    /\ \/ r.status = "DRAFT"
       \/ r.status = "PENDING" /\ r.sched = Null

\* A mistaken rule that keeps the schedule of a record sent back to draft.
ClearedUnlessDraft(next) == IF next = "PUBLISHED" THEN Null ELSE Keep

ClearedSchedule(next) == IF next \in {"PUBLISHED", "DRAFT"} THEN Null ELSE Keep

\* A mistaken rule that keeps the planned instant when publishing ahead of it.
PlannedInstantKept(pub, next, t) ==
    IF next = "PENDING" \/ pub # Null THEN pub
    ELSE IF next = "PUBLISHED" THEN t ELSE Null

\* The pending branch writes back the value that was read, it does not skip
\* the column.
PublishedAtFor(pub, next, t) ==
    IF next = "PENDING" \/ HasBeenPublic(pub, t) THEN pub
    ELSE IF next = "PUBLISHED" THEN t ELSE Null

\* The instants assertScheduleWindow accepts at time t.
ScheduleWindow(t) == (t + MinLead) .. (t + MaxHorizon)

-----------------------------------------------------------------------------
(* Permissions: content-approval.ts and content-editing.ts                 *)

\* A mistaken rule that lets an editor take any step from a draft.
TransitionFromDraft(role, current, next) == role \in Admins \/ current = "DRAFT"

MayChangeStatus(role, current, next) ==
    \/ role \in Admins
    \/ role = "EDITOR" /\ current = "DRAFT" /\ next = "PENDING"

MayEditContent(role, r) == role \in Admins \/ EditorMayEditScheduled(r)
=============================================================================
