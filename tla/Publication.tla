---------------------------- MODULE Publication ----------------------------
(***************************************************************************)
(* The life of content records (News, Projects, Pages, Cooperation): what  *)
(* staff commands, the trash, the five-minute reconciler and the clock do  *)
(* to the publication columns, under every interleaving.                   *)
(*                                                                         *)
(* A staff command loads the record, checks it, computes the columns to    *)
(* write, and then runs `update({ where: { id } })`, which checks nothing  *)
(* again.  So a command is two steps: a Read... action that leaves the     *)
(* planned write in a request slot, and Commit.  Trash, restore and purge  *)
(* are SERIALIZABLE transactions and the reconciler is a single UPDATE, so *)
(* each is one step.                                                       *)
(***************************************************************************)
EXTENDS PublicationRules

CONSTANTS
    Row,                \* the records of one module
    Slot,               \* commands that can be in flight at the same time
    Server,             \* processes that run the cron job
    Idle,               \* a slot with no command in it
    MaxTime,            \* bound on the clock
    RescheduleDrafts    \* TRUE for Projects, where a draft that has been
                        \* public may be scheduled again

ASSUME PublicationAssumption ==
    /\ MaxTime \in Nat
    /\ RescheduleDrafts \in BOOLEAN

VARIABLES
    now,        \* the clock of the application and of the database
    row,        \* the table
    request,    \* request[q]: the command in slot q, with its planned write
    running,    \* running[s]: the scheduler's re-entry flag in process s
    active      \* active[s]: a handleCron call of s awaits its UPDATE

(* History variables: they record what happened and guard nothing.         *)
VARIABLES
    shown,      \* shown[r]: the publishedAt r carried when it first was public
    granted,    \* granted[r]: an administrator published or scheduled r, and
                \* nothing has taken it down since
    reviewed,   \* reviewed[r]: no editor changed r's content since then
    raced       \* raced[r]: some command wrote r after r had changed under it

history == <<shown, granted, reviewed, raced>>
vars    == <<now, row, request, running, active, history>>

\* A command in flight, from an editor or not.  `at` is the single `new Date()` of the handler;
\* `stale` records that the row was written, or became public, after the read.
Request == [op     : {"edit", "status", "schedule", "cancel", "hide"},
            row    : Row,
            editor : BOOLEAN,
            status : Status \cup {Keep},
            sched  : MaybeTime \cup {Keep},
            pub    : MaybeTime \cup {Keep},
            at     : Time,
            stale  : BOOLEAN]

ASSUME IdleAssumption == Idle \notin Request

TypeOK ==
    /\ now \in Time
    /\ row \in [Row -> Record]
    /\ request \in [Slot -> Request \cup {Idle}]
    /\ running \in [Server -> BOOLEAN]
    /\ active \in [Server -> BOOLEAN]
    /\ shown \in [Row -> MaybeTime]
    /\ granted \in [Row -> BOOLEAN]
    /\ reviewed \in [Row -> BOOLEAN]
    /\ raced \in [Row -> BOOLEAN]

NoRow == [life |-> "none", status |-> "DRAFT", sched |-> Null, pub |-> Null]

Init ==
    /\ now = 0
    /\ row = [r \in Row |-> NoRow]
    /\ request = [q \in Slot |-> Idle]
    /\ running = [s \in Server |-> FALSE]
    /\ active = [s \in Server |-> FALSE]
    /\ shown = [r \in Row |-> Null]
    /\ granted = [r \in Row |-> FALSE]
    /\ reviewed = [r \in Row |-> FALSE]
    /\ raced = [r \in Row |-> FALSE]

-----------------------------------------------------------------------------
(* Bookkeeping of the history variables                                    *)

\* Remember the publication mark of every row that is public for the first time.
NoteShown ==
    shown' = [r \in Row |-> IF shown[r] = Null /\ Public(row'[r], now')
                            THEN row'[r].pub
                            ELSE shown[r]]

\* Slots after a step that ended the commands in `done` and touched the rows
\* in `touched`.
Outdate(done, touched) ==
    request' = [q \in Slot |->
        IF q \in done \/ request[q] = Idle THEN Idle
        ELSE IF request[q].row \in touched
             THEN [request[q] EXCEPT !.stale = TRUE]
             ELSE request[q]]

-----------------------------------------------------------------------------
(* Staff commands, first half: load, check, plan the write                 *)

Plan(q, r, op, role, status, sched, pub) ==
    /\ request[q] = Idle
    /\ request' = [request EXCEPT ![q] =
           [op |-> op, row |-> r, editor |-> role = "EDITOR", status |-> status,
            sched |-> sched, pub |-> pub, at |-> now, stale |-> FALSE]]
    /\ UNCHANGED <<now, row, running, active, history>>

\* update(): only the content columns.
ReadForEdit(q, r, role) ==
    /\ row[r].life = "live"
    /\ MayEditContent(role, row[r])
    /\ Plan(q, r, "edit", role, Keep, Keep, Keep)

\* updateStatus()
ReadForStatus(q, r, role, next) ==
    /\ row[r].life = "live"
    /\ MayChangeStatus(role, row[r].status, next)
    /\ Plan(q, r, "status", role, next, ClearedSchedule(next),
            PublishedAtFor(row[r].pub, next, now))

\* schedulePublication(), an ADMIN route.
MaySchedule(r) ==
    /\ r.status # "PUBLISHED"
    /\ HasHistoricalPublication(r, now) => RescheduleDrafts /\ r.status = "DRAFT"

ReadForSchedule(q, r, role, t) ==
    /\ row[r].life = "live"
    /\ role \in Admins
    /\ MaySchedule(row[r])
    /\ t \in ScheduleWindow(now)
    /\ Plan(q, r, "schedule", role, "PENDING", t, t)

\* A mistaken check that lets a schedule be cancelled after its hour.
AnyScheduleMayBeCancelled(r) == r.sched # Null

\* cancelScheduledPublication(), an ADMIN route.
MayCancel(r) ==
    /\ r.sched # Null
    /\ r.sched > now
    /\ IsActiveFutureSchedule(r, now)

ReadForCancel(q, r, role) ==
    /\ row[r].life = "live"
    /\ role \in Admins
    /\ MayCancel(row[r])
    /\ Plan(q, r, "cancel", role, "DRAFT", Null, Null)

\* remove(), an ADMIN route that only hides: publishedAt is not written.
ReadForHide(q, r, role) ==
    /\ row[r].life = "live"
    /\ role \in Admins
    /\ Plan(q, r, "hide", role, "DRAFT", Null, Keep)

-----------------------------------------------------------------------------
(* Staff commands, second half: the UPDATE by id                           *)

Grants(c) == c.op = "schedule" \/ c.status = "PUBLISHED"

\* A row written so needs a new decision before it may be shown.
TakenDown(new) ==
    \/ new.status = "DRAFT"
    \/ new.status = "PENDING" /\ new.sched = Null

\* The row must still exist, in the trash or not; no other column is compared.
Commit(q) ==
    /\ request[q] # Idle
    /\ LET c == request[q]
           r == c.row
           new == [life   |-> row[r].life,
                   status |-> Column(c.status, row[r].status),
                   sched  |-> Column(c.sched, row[r].sched),
                   pub    |-> Column(c.pub, row[r].pub)]
       IN  /\ row[r].life \in {"live", "trashed"}
           /\ row' = [row EXCEPT ![r] = new]
           /\ Outdate({q}, {r})
           /\ granted' = [granted EXCEPT ![r] = Grants(c) \/ (@ /\ ~TakenDown(new))]
           /\ reviewed' = [reviewed EXCEPT ![r] =
                  Grants(c) \/ (@ /\ ~(c.op = "edit" /\ c.editor))]
           /\ raced' = [raced EXCEPT ![r] = @ \/ c.stale]
    /\ UNCHANGED <<now, running, active>>
    /\ NoteShown

\* The command ends without writing: the row is gone (P2025), the database
\* refused, or the process died.
Abandon(q) ==
    /\ request[q] # Idle
    /\ Outdate({q}, {})
    /\ UNCHANGED <<now, row, running, active, history>>

-----------------------------------------------------------------------------
(* Creation and the trash                                                  *)

\* create(): always a draft with no marks, whatever the role.
Create(r) ==
    /\ row[r].life = "none"
    /\ row' = [row EXCEPT ![r].life = "live"]
    /\ UNCHANGED <<now, request, running, active, history>>

\* The draft that trash() and restore() leave; publishedAt is not written.
Withdrawn(r, life) == [r EXCEPT !.life = life, !.status = "DRAFT", !.sched = Null]

Rewrite(r, new) ==
    /\ row' = [row EXCEPT ![r] = new]
    /\ Outdate({}, {r})
    /\ granted' = [granted EXCEPT ![r] = FALSE]
    /\ UNCHANGED <<now, running, active, reviewed, raced>>
    /\ NoteShown

Trash(r)   == row[r].life = "live" /\ Rewrite(r, Withdrawn(row[r], "trashed"))
Restore(r) == row[r].life = "trashed" /\ Rewrite(r, Withdrawn(row[r], "live"))

\* purge() takes a row in the trash or not.
Purge(r) ==
    /\ row[r].life \in {"live", "trashed"}
    /\ Rewrite(r, [row[r] EXCEPT !.life = "purged"])

-----------------------------------------------------------------------------
(* The reconciler                                                          *)

\* What the UPDATE makes of a due row.
Promoted(r) ==
    [r EXCEPT !.status = "PUBLISHED",
              !.pub    = IF r.pub = Null THEN r.sched ELSE r.pub,
              !.sched  = Null]

PublishDue ==
    LET due == {r \in Row : Due(row[r], now)}
    IN  /\ row' = [r \in Row |-> IF r \in due THEN Promoted(row[r]) ELSE row[r]]
        /\ Outdate({}, due)
        /\ UNCHANGED <<now, granted, reviewed, raced>>
        /\ NoteShown

\* POST publish-scheduled runs the same UPDATE and does not look at the flag.
PublishScheduledNow ==
    /\ PublishDue
    /\ UNCHANGED <<running, active>>

\* The cron fires; a run that finds the flag set returns at once.
CronFire(s) ==
    /\ ~running[s]
    /\ running' = [running EXCEPT ![s] = TRUE]
    /\ active' = [active EXCEPT ![s] = TRUE]
    /\ UNCHANGED <<now, row, request, history>>

\* `finally { this.running = false }`
EndRun(s) ==
    /\ running' = [running EXCEPT ![s] = FALSE]
    /\ active' = [active EXCEPT ![s] = FALSE]

CronPublish(s) == active[s] /\ PublishDue /\ EndRun(s)

\* A mistaken error path that leaves the re-entry flag set.
FailWithoutFinally(s) ==
    /\ active[s]
    /\ active' = [active EXCEPT ![s] = FALSE]
    /\ UNCHANGED <<now, row, request, running, history>>

\* The UPDATE throws and the error is logged, or the process restarts.
CronFail(s) ==
    /\ active[s]
    /\ EndRun(s)
    /\ UNCHANGED <<now, row, request, history>>

-----------------------------------------------------------------------------
(* Time                                                                    *)

\* A schedule that falls due makes its row public with no write at all.
Tick ==
    /\ now < MaxTime
    /\ now' = now + 1
    /\ UNCHANGED row
    /\ Outdate({}, {r \in Row : Public(row[r], now) # Public(row[r], now')})
    /\ NoteShown
    /\ UNCHANGED <<running, active, granted, reviewed, raced>>

-----------------------------------------------------------------------------
ReadStep(q, r, role) ==
    \/ ReadForEdit(q, r, role)
    \/ \E next \in Status : ReadForStatus(q, r, role, next)
    \/ \E t \in ScheduleWindow(now) : ReadForSchedule(q, r, role, t)
    \/ ReadForCancel(q, r, role)
    \/ ReadForHide(q, r, role)

Next ==
    \/ \E q \in Slot, r \in Row, role \in Role : ReadStep(q, r, role)
    \/ \E q \in Slot : Commit(q) \/ Abandon(q)
    \/ \E r \in Row : Create(r) \/ Trash(r) \/ Restore(r) \/ Purge(r)
    \/ \E s \in Server : CronFire(s) \/ CronPublish(s) \/ CronFail(s)
    \/ PublishScheduledNow
    \/ Tick

\* The cron keeps firing while some process is up, and the database does not
\* refuse every run for ever.
Fairness ==
    /\ WF_vars(\E s \in Server : CronFire(s))
    /\ SF_vars(\E s \in Server : CronPublish(s))

Spec     == Init /\ [][Next]_vars
FairSpec == Spec /\ Fairness

-----------------------------------------------------------------------------
(* Safety                                                                  *)

\* A record is on the public site only while some administrator's decision to
\* publish or schedule it stands: no interleaving of stale writes, trash,
\* restore, reconciler and clock brings a record back by itself.
\* (updateStatus, schedulePublication, trash, restore, publishDue...)
PublicOnlyIfGranted == \A r \in Row : Public(row[r], now) => granted[r]

\* Unless a command raced, a scheduled record carries its schedule as its mark
\* and a public one carries a mark that is not ahead of the clock: what is
\* public is never dated in the future.  (publishedAtFor, clearedSchedule)
MarkMatchesState ==
    \A r \in Row : ~raced[r] =>
        /\ row[r].sched # Null => row[r].pub = row[r].sched
        /\ Public(row[r], now) => HasBeenPublic(row[r].pub, now)

\* Unless a command raced, publishedAt stays the mark of the first publication
\* through hiding, trash, restore, republication and the reconciler.
\* (publishedAtFor, hasHistoricalPublication, the COALESCE of the UPDATE)
FirstMarkKept ==
    \A r \in Row :
        ~raced[r] /\ shown[r] # Null => row[r].pub = shown[r]

\* Unless a command raced, the content the public reads is the content an
\* administrator let out: no editor changed it after the decision.
\* (assertContentEditAllowed, editorMayEditScheduled)
ApprovedContentOnly ==
    \A r \in Row : ~raced[r] /\ Public(row[r], now) => reviewed[r]

\* An editor's command, if it does not race, neither publishes a record nor
\* takes one down.  (assertContentStatusTransition)
EditorLeavesSiteAlone ==
    [][\A q \in Slot :
          request[q] # Idle /\ Commit(q) /\ request[q].editor /\ ~request[q].stale
             => \A r \in Row : Public(row[r], now) = Public(row'[r], now')]_vars

\* The reconciler changes only what is stored: what it promotes was already
\* public, and it hides nothing.  (the UPDATE of publishDue... against
\* publiclyVisibleWhere)
ReconcilerUnseen ==
    [][PublishDue => \A r \in Row : Public(row[r], now) = Public(row'[r], now')]_vars

(* What the site promises: the refinement                                  *)

\* The hour a visitor may still look forward to.
Promised(r) ==
    IF r.life = "live" /\ r.status = "PENDING" /\ r.sched # Null /\ r.sched > now
    THEN r.sched ELSE Null

Site == INSTANCE PublicSite WITH
    Horizon <- MaxHorizon,
    clock   <- now,
    site    <- {r \in Row : Public(row[r], now)},
    promise <- [r \in Row |-> Promised(row[r])],
    cleared <- {r \in Row : row[r].life = "live" /\ granted[r]}

\* The table, the commands, the trash and the reconciler together give visitors
\* what PublicSite promises.
ImplementsSite == Site!SiteSpec

-----------------------------------------------------------------------------
(* The inductive invariant behind the safety properties                    *)

\* Each command writes the columns of its UPDATE and no others.
PlanShape(c) ==
    /\ c.op = "edit"     => c.status = Keep /\ c.sched = Keep /\ c.pub = Keep
    /\ c.op = "status"   => c.status \in Status /\ c.sched = ClearedSchedule(c.status)
    /\ c.op = "schedule" => /\ c.status = "PENDING"
                            /\ c.sched \in ScheduleWindow(c.at)
                            /\ c.pub = c.sched
    /\ c.op = "cancel"   => c.status = "DRAFT" /\ c.sched = Null /\ c.pub = Null
    /\ c.op = "hide"     => c.status = "DRAFT" /\ c.sched = Null /\ c.pub = Keep

\* A plan whose row has not moved since: an editor's is an edit, or the
\* submission of what is still a draft.
PlanCurrent(c) ==
    /\ row[c.row].life = "live"
    /\ c.editor => \/ c.op = "edit"
                   \/ /\ c.op = "status" /\ c.status = "PENDING"
                      /\ row[c.row].status = "DRAFT"

\* If no earlier command raced on it either, the plan still rests on the facts
\* it checked.
PlanFresh(c) ==
    LET r == row[c.row]
    IN  /\ shown[c.row] # Null => shown[c.row] <= c.at
        /\ c.op = "edit" /\ c.editor => EditorMayEditScheduled(r)
        /\ c.op = "status" => c.pub = PublishedAtFor(r.pub, c.status, c.at)
        /\ c.op = "schedule" /\ ~RescheduleDrafts =>
              ~HasHistoricalPublication(r, c.at)
        /\ c.op = "cancel" => IsActiveFutureSchedule(r, c.at)

SlotSound(q) ==
    LET c == request[q]
    IN  c # Idle =>
          /\ c.at <= now
          /\ PlanShape(c)
          /\ ~c.stale => PlanCurrent(c)
          /\ ~c.stale /\ ~raced[c.row] => PlanFresh(c)

\* Only a pending row has a schedule, within the window, and exactly the rows
\* that are scheduled or published stand on a grant.
RowGranted(r) ==
    /\ row[r].life = "none" => row[r] = NoRow
    /\ row[r].sched # Null => /\ row[r].status = "PENDING"
                              /\ row[r].sched <= now + MaxHorizon
    /\ granted[r] <=> /\ row[r].life \in {"live", "trashed"}
                      /\ row[r].status = "PUBLISHED" \/ row[r].sched # Null

\* The marks and the review of a row that no command raced on.
RowMarked(r) ==
    ~raced[r] =>
        /\ row[r].sched # Null => row[r].pub = row[r].sched
        /\ row[r].status = "PUBLISHED" => HasBeenPublic(row[r].pub, now)
        /\ row[r].status = "PUBLISHED" \/ row[r].sched # Null => reviewed[r]
        /\ Public(row[r], now) => shown[r] # Null
        /\ shown[r] # Null =>
              /\ shown[r] <= now
              /\ ~RescheduleDrafts => row[r].pub = shown[r]

PlansInv == \A q \in Slot : SlotSound(q)
GrantInv == \A r \in Row : RowGranted(r)
MarkInv  == \A r \in Row : RowMarked(r)

IInv == TypeOK /\ PlansInv /\ GrantInv /\ MarkInv

-----------------------------------------------------------------------------
(* Liveness                                                                *)

\* A record whose hour has come does not stay pending: it is promoted, or staff
\* take it down, whatever runs fail on the way.  (handleCron)
DueIsSettled == \A r \in Row : Due(row[r], now) ~> ~Due(row[r], now)
=============================================================================
