------------------------- MODULE PublicationProofs -------------------------
(***************************************************************************)
(* Theorems about Publication for every set of records, slots and          *)
(* processes, every clock bound and every schedule window.                 *)
(***************************************************************************)
EXTENDS Publication, TLAPS

\* A planned write is made of values its columns can hold.
LEMMA PlanTyped ==
    ASSUME TypeOK, NEW q \in Slot, NEW r \in Row, NEW role \in Role,
           NEW op \in {"edit", "status", "schedule", "cancel", "hide"},
           NEW status \in Status \cup {Keep},
           NEW sched \in MaybeTime \cup {Keep},
           NEW pub \in MaybeTime \cup {Keep},
           Plan(q, r, op, role, status, sched, pub)
    PROVE  TypeOK'
<1>1. request' \in [Slot -> Request \cup {Idle}]
  BY DEF TypeOK, Plan, Request, Time
<1> QED
  BY <1>1 DEF TypeOK, Plan, history

\* Marking commands as outdated, or ending them, keeps the slots well typed.
LEMMA OutdateTyped ==
    ASSUME TypeOK, NEW done, NEW touched, Outdate(done, touched)
    PROVE  request' \in [Slot -> Request \cup {Idle}]
<1>1. ASSUME NEW q \in Slot
      PROVE  \/ request'[q] = Idle
             \/ request[q] \in Request /\ request'[q] = request[q]
             \/ request[q] \in Request
                  /\ request'[q] = [request[q] EXCEPT !.stale = TRUE]
  BY DEF TypeOK, Outdate
<1>2. ASSUME NEW c \in Request
      PROVE  [c EXCEPT !.stale = TRUE] \in Request
  BY DEF Request
<1>3. \A q \in Slot : request'[q] \in Request \cup {Idle}
  BY <1>1, <1>2
<1> QED
  BY <1>3 DEF Outdate

\* The mark remembered of a first showing is a mark the column can hold.
LEMMA NoteShownTyped ==
    ASSUME TypeOK, NoteShown, row' \in [Row -> Record]
    PROVE  shown' \in [Row -> MaybeTime]
<1>1. \A r \in Row : row'[r].pub \in MaybeTime
  BY DEF Record
<1> QED
  BY <1>1 DEF TypeOK, NoteShown

\* The reconciler writes only what the columns can hold.
LEMMA PublishDueTyped ==
    ASSUME TypeOK, PublishDue
    PROVE  /\ row' \in [Row -> Record]
           /\ request' \in [Slot -> Request \cup {Idle}]
           /\ shown' \in [Row -> MaybeTime]
<1>1. ASSUME NEW r \in Row
      PROVE  Promoted(row[r]) \in Record
  BY DEF TypeOK, Promoted, Record, Status, MaybeTime
<1>2. row' \in [Row -> Record]
  BY <1>1 DEF TypeOK, PublishDue
<1>3. request' \in [Slot -> Request \cup {Idle}]
  BY OutdateTyped DEF PublishDue
<1>4. shown' \in [Row -> MaybeTime]
  BY <1>2, NoteShownTyped DEF PublishDue
<1> QED
  BY <1>2, <1>3, <1>4

\* Trash, restore and purge write only what the columns can hold.
LEMMA RewriteTyped ==
    ASSUME TypeOK, NEW r \in Row, NEW new \in Record, Rewrite(r, new)
    PROVE  TypeOK'
<1>1. row' \in [Row -> Record]
  BY DEF TypeOK, Rewrite
<1>2. request' \in [Slot -> Request \cup {Idle}]
  BY OutdateTyped DEF Rewrite
<1>3. shown' \in [Row -> MaybeTime]
  BY <1>1, NoteShownTyped DEF Rewrite
<1>4. granted' \in [Row -> BOOLEAN]
  BY DEF TypeOK, Rewrite
<1> QED
  BY <1>1, <1>2, <1>3, <1>4 DEF TypeOK, Rewrite

-----------------------------------------------------------------------------
\* Every variable keeps its type: in particular a command never plans a value
\* its column cannot hold, and no interleaving produces one.
THEOREM TypeCorrect == Spec => []TypeOK
<1>1. Init => TypeOK
  BY DEF Init, TypeOK, NoRow, Record, Life, Status, MaybeTime, Time
<1>2. TypeOK /\ [Next]_vars => TypeOK'
  <2> SUFFICES ASSUME TypeOK, [Next]_vars
               PROVE  TypeOK'
    OBVIOUS
  <2>1. ASSUME NEW q \in Slot, NEW r \in Row, NEW role \in Role,
               ReadStep(q, r, role)
        PROVE  TypeOK'
    <3>1. CASE ReadForEdit(q, r, role)
      BY <3>1, PlanTyped DEF ReadForEdit
    <3>2. ASSUME NEW next \in Status, ReadForStatus(q, r, role, next)
          PROVE  TypeOK'
      <4>1. PublishedAtFor(row[r].pub, next, now) \in MaybeTime
        BY DEF PublishedAtFor, TypeOK, Record, MaybeTime, Time
      <4>2. ClearedSchedule(next) \in MaybeTime \cup {Keep}
        BY DEF ClearedSchedule, MaybeTime
      <4> QED
        BY <3>2, <4>1, <4>2, PlanTyped DEF ReadForStatus
    <3>3. ASSUME NEW t \in ScheduleWindow(now), ReadForSchedule(q, r, role, t)
          PROVE  TypeOK'
      <4>1. t \in MaybeTime
        BY RulesAssumption DEF ScheduleWindow, TypeOK, MaybeTime, Time
      <4> QED
        BY <3>3, <4>1, PlanTyped DEF ReadForSchedule, Status
    <3>4. CASE ReadForCancel(q, r, role)
      BY <3>4, PlanTyped DEF ReadForCancel, Status, MaybeTime
    <3>5. CASE ReadForHide(q, r, role)
      BY <3>5, PlanTyped DEF ReadForHide, Status, MaybeTime
    <3> QED
      BY <2>1, <3>1, <3>2, <3>3, <3>4, <3>5 DEF ReadStep
  <2>2. ASSUME NEW q \in Slot, Commit(q)
        PROVE  TypeOK'
    <3> DEFINE c == request[q]
               r == c.row
    <3>1. c \in Request
      BY <2>2 DEF TypeOK, Commit
    <3>2. r \in Row /\ row[r] \in Record
      BY <3>1 DEF TypeOK, Request
    <3>3. /\ Column(c.status, row[r].status) \in Status
          /\ Column(c.sched, row[r].sched) \in MaybeTime
          /\ Column(c.pub, row[r].pub) \in MaybeTime
      BY <3>1, <3>2 DEF Column, Request, Record
    <3>4. row' \in [Row -> Record]
      BY <2>2, <3>2, <3>3 DEF Commit, TypeOK, Record
    <3>5. request' \in [Slot -> Request \cup {Idle}]
      BY <2>2, OutdateTyped DEF Commit
    <3>6. shown' \in [Row -> MaybeTime]
      BY <2>2, <3>4, NoteShownTyped DEF Commit
    <3>7. /\ granted' \in [Row -> BOOLEAN]
          /\ reviewed' \in [Row -> BOOLEAN]
          /\ raced' \in [Row -> BOOLEAN]
      BY <2>2, <3>1, <3>2 DEF Commit, TypeOK, Request, Grants, TakenDown
    <3> QED
      BY <2>2, <3>4, <3>5, <3>6, <3>7 DEF Commit, TypeOK
  <2>3. ASSUME NEW q \in Slot, Abandon(q)
        PROVE  TypeOK'
    BY <2>3, OutdateTyped DEF Abandon, TypeOK, history
  <2>4. ASSUME NEW r \in Row, Create(r)
        PROVE  TypeOK'
    BY <2>4 DEF Create, TypeOK, history, Record, Life
  <2>5. ASSUME NEW r \in Row, Trash(r) \/ Restore(r)
        PROVE  TypeOK'
    <3>1. /\ Withdrawn(row[r], "trashed") \in Record
          /\ Withdrawn(row[r], "live") \in Record
      BY DEF Withdrawn, TypeOK, Record, Life, Status, MaybeTime
    <3> QED
      BY <2>5, <3>1, RewriteTyped DEF Trash, Restore
  <2>6. ASSUME NEW r \in Row, Purge(r)
        PROVE  TypeOK'
    <3>1. [row[r] EXCEPT !.life = "purged"] \in Record
      BY DEF TypeOK, Record, Life
    <3> QED
      BY <2>6, <3>1, RewriteTyped DEF Purge
  <2>7. ASSUME NEW s \in Server, CronFire(s) \/ CronFail(s)
        PROVE  TypeOK'
    BY <2>7 DEF CronFire, CronFail, EndRun, TypeOK, history
  <2>8. ASSUME NEW s \in Server, CronPublish(s)
        PROVE  TypeOK'
    <3>1. PublishDue /\ EndRun(s)
      BY <2>8 DEF CronPublish
    <3> QED
      BY <3>1, PublishDueTyped DEF PublishDue, EndRun, TypeOK
  <2>9. CASE PublishScheduledNow
    <3>1. PublishDue /\ UNCHANGED <<running, active>>
      BY <2>9 DEF PublishScheduledNow
    <3> QED
      BY <3>1, PublishDueTyped DEF PublishDue, TypeOK
  <2>10. CASE Tick
    <3>1. request' \in [Slot -> Request \cup {Idle}]
      BY <2>10, OutdateTyped DEF Tick
    <3>2. shown' \in [Row -> MaybeTime]
      BY <2>10, NoteShownTyped DEF Tick, TypeOK
    <3> QED
      BY <2>10, <3>1, <3>2 DEF Tick, TypeOK, Time
  <2>11. CASE UNCHANGED vars
    BY <2>11 DEF vars, history, TypeOK
  <2> QED
    BY <2>1, <2>2, <2>3, <2>4, <2>5, <2>6, <2>7, <2>8, <2>9, <2>10,
       <2>11 DEF Next
<1> QED
  BY <1>1, <1>2, PTL DEF Spec

-----------------------------------------------------------------------------
(* The inductive invariant.  A step touches some rows, and outdates the    *)
(* commands on them; everything said of the other rows carries over.       *)

\* Commands on rows that a step does not touch stay as fresh as they were.
LEMMA PlansKept ==
    ASSUME TypeOK, PlansInv, NEW done, NEW touched, Outdate(done, touched),
           now' \in Time, now <= now',
           \A r \in Row \ touched :
              /\ row'[r] = row[r]
              /\ raced'[r] = raced[r]
              /\ ~raced[r] => shown'[r] = shown[r]
    PROVE  PlansInv'
<1> SUFFICES ASSUME NEW q \in Slot, request'[q] # Idle
             PROVE  SlotSound(q)'
  BY DEF PlansInv, SlotSound
<1> DEFINE c == request[q]
<1>1. c # Idle /\ c \in Request
  BY DEF Outdate, TypeOK
<1>2. CASE c.row \in touched
  <2>1. request'[q] = [c EXCEPT !.stale = TRUE]
    BY <1>1, <1>2 DEF Outdate
  <2>2. c.at <= now /\ c.at \in Time /\ PlanShape(c)
    BY <1>1 DEF PlansInv, SlotSound, Request
  <2>3. c.at <= now'
    BY <2>2 DEF TypeOK, Time
  <2> QED
    BY <1>1, <2>1, <2>2, <2>3 DEF SlotSound, PlanShape, Request
<1>3. CASE c.row \notin touched
  <2>1. request'[q] = c
    BY <1>1, <1>3 DEF Outdate
  <2>2. ASSUME ~c.stale
        PROVE  PlanCurrent(request[q])'
    BY <1>1, <1>3, <2>1, <2>2 DEF PlansInv, SlotSound, PlanCurrent, Request
  <2>3. ASSUME ~c.stale, ~raced'[c.row]
        PROVE  PlanFresh(request[q])'
    <3>1. c.row \in Row /\ row'[c.row] = row[c.row] /\ ~raced[c.row]
          /\ shown'[c.row] = shown[c.row]
      BY <1>1, <1>3, <2>3 DEF Request
    <3>2. PlanFresh(request[q])
      BY <1>1, <2>3, <3>1 DEF PlansInv, SlotSound
    <3> QED
      BY <1>1, <2>1, <3>1, <3>2 DEF PlanFresh, TypeOK, Time, MaybeTime, Request
  <2>4. c.at <= now'
    BY <1>1 DEF PlansInv, SlotSound, TypeOK, Request, Time
  <2> QED
    BY <1>1, <2>1, <2>2, <2>3, <2>4 DEF PlansInv, SlotSound, PlanShape
<1> QED
  BY <1>2, <1>3

\* A row that a step leaves alone is not shown for the first time by it.
LEMMA ShownKept ==
    ASSUME MarkInv, NoteShown, NEW r \in Row, ~raced[r],
           Public(row'[r], now') = Public(row[r], now)
    PROVE  shown'[r] = shown[r]
BY DEF MarkInv, RowMarked, NoteShown

\* The marks of a row survive a step that leaves it alone.
LEMMA MarkKept ==
    ASSUME TypeOK, NEW r \in Row, RowMarked(r), now' \in Time, now <= now',
           row'[r] = row[r], raced'[r] = raced[r], reviewed'[r] = reviewed[r],
           Public(row'[r], now') = Public(row[r], now),
           ~raced[r] => shown'[r] = shown[r]
    PROVE  RowMarked(r)'
<1>1. shown[r] \in MaybeTime /\ row[r] \in Record
  BY DEF TypeOK
<1> QED
  BY <1>1 DEF RowMarked, HasBeenPublic, TypeOK, Time, MaybeTime, Record

\* What a read leaves in its slot.
LEMMA PlanFields ==
    ASSUME request \in [Slot -> Request \cup {Idle}], NEW q \in Slot, NEW r,
           NEW role, NEW op, NEW status, NEW sched, NEW pub,
           Plan(q, r, op, role, status, sched, pub)
    PROVE  /\ request'[q].op = op
           /\ request'[q].row = r
           /\ request'[q].editor <=> role = "EDITOR"
           /\ request'[q].status = status
           /\ request'[q].sched = sched
           /\ request'[q].pub = pub
           /\ request'[q].at = now
           /\ ~request'[q].stale
           /\ now' = now /\ row' = row /\ shown' = shown /\ raced' = raced
BY DEF Plan, history

\* A new plan is fresh and well shaped.
LEMMA PlanInvariant ==
    ASSUME IInv, NEW q \in Slot, NEW r \in Row, NEW role \in Role,
           NEW op \in {"edit", "status", "schedule", "cancel", "hide"},
           NEW status, NEW sched, NEW pub,
           Plan(q, r, op, role, status, sched, pub),
           TypeOK',
           SlotSound(q)'
    PROVE  IInv'
<1>1. PlansInv'
  <2> SUFFICES ASSUME NEW p \in Slot, p # q
               PROVE  SlotSound(p)'
    BY DEF PlansInv
  <2>1. request'[p] = request[p]
    BY DEF Plan, IInv, TypeOK
  <2> QED
    BY <2>1 DEF Plan, SlotSound, PlanShape, PlanCurrent, PlanFresh, history, IInv, PlansInv
<1>2. GrantInv' /\ MarkInv'
  BY DEF Plan, history, IInv, GrantInv, RowGranted, MarkInv, RowMarked
<1> QED
  BY <1>1, <1>2 DEF IInv

\* Every command starts from a plan that the state it read justifies.
LEMMA ReadInvariant ==
    ASSUME IInv, TypeOK', NEW q \in Slot, NEW r \in Row, NEW role \in Role,
           ReadStep(q, r, role)
    PROVE  IInv'
<1>1. /\ now \in Time
      /\ row[r] \in Record
      /\ request \in [Slot -> Request \cup {Idle}]
  BY DEF IInv, TypeOK
<1>2. ~raced[r] /\ shown[r] # Null => shown[r] <= now
  BY DEF IInv, MarkInv, RowMarked
<1>3. CASE ReadForEdit(q, r, role)
  <2>1. SlotSound(q)'
    BY <1>1, <1>2, <1>3, PlanFields
       DEF ReadForEdit, SlotSound, PlanShape, PlanCurrent, PlanFresh, Time,
           MayEditContent, Admins
  <2> QED
    BY <1>3, <2>1, PlanInvariant DEF ReadForEdit
<1>4. ASSUME NEW next \in Status, ReadForStatus(q, r, role, next)
      PROVE  IInv'
  <2>1. SlotSound(q)'
    BY <1>1, <1>2, <1>4, PlanFields
       DEF ReadForStatus, SlotSound, PlanShape, PlanCurrent, PlanFresh, Time,
           MayChangeStatus, Admins
  <2> QED
    BY <1>4, <2>1, PlanInvariant DEF ReadForStatus
<1>5. ASSUME NEW t \in ScheduleWindow(now), ReadForSchedule(q, r, role, t)
      PROVE  IInv'
  <2>0. t \in Time
    BY <1>1, RulesAssumption DEF ScheduleWindow, Time
  <2>1. SlotSound(q)'
    BY <1>1, <1>2, <1>5, <2>0, PlanFields
       DEF ReadForSchedule, SlotSound, PlanShape, PlanCurrent, PlanFresh, Time,
           MaySchedule, Admins
  <2> QED
    BY <1>5, <2>1, PlanInvariant DEF ReadForSchedule
<1>6. CASE ReadForCancel(q, r, role)
  <2>1. SlotSound(q)'
    BY <1>1, <1>2, <1>6, PlanFields
       DEF ReadForCancel, SlotSound, PlanShape, PlanCurrent, PlanFresh, Time,
           MayCancel, Admins
  <2> QED
    BY <1>6, <2>1, PlanInvariant DEF ReadForCancel
<1>7. CASE ReadForHide(q, r, role)
  <2>1. SlotSound(q)'
    BY <1>1, <1>2, <1>7, PlanFields
       DEF ReadForHide, SlotSound, PlanShape, PlanCurrent, PlanFresh, Time,
           Admins
  <2> QED
    BY <1>7, <2>1, PlanInvariant DEF ReadForHide
<1> QED
  BY <1>3, <1>4, <1>5, <1>6, <1>7 DEF ReadStep

\* A step that throws a row away, or brings it back, leaves a draft without a
\* schedule and without a grant.
LEMMA RewriteInvariant ==
    ASSUME IInv, TypeOK', NEW r \in Row, NEW new, Rewrite(r, new),
           \/ new.life = "purged" /\ new = [row[r] EXCEPT !.life = "purged"]
           \/ \E life \in {"live", "trashed"} : new = Withdrawn(row[r], life)
    PROVE  IInv'
<1>1. /\ TypeOK /\ PlansInv /\ GrantInv /\ MarkInv
      /\ now' = now /\ now \in Time
      /\ row \in [Row -> Record]
  BY DEF IInv, TypeOK, Rewrite
<1>2. /\ row'[r] = new
      /\ \A s \in Row \ {r} : row'[s] = row[s] /\ granted'[s] = granted[s]
      /\ ~granted'[r]
      /\ reviewed' = reviewed /\ raced' = raced
  BY <1>1 DEF Rewrite, TypeOK
<1>3. ~Public(row'[r], now')
  <2>1. new.life = "purged" \/ new.status = "DRAFT"
    BY <1>1 DEF Withdrawn, Record
  <2> QED
    BY <1>2, <2>1 DEF Public, IsPubliclyVisible
<1>4. ASSUME NEW s \in Row, ~raced[s]
      PROVE  shown'[s] = shown[s]
  <2>1. CASE s = r
    BY <1>3, <2>1 DEF Rewrite, NoteShown
  <2>2. CASE s # r
    BY <1>1, <1>2, <1>4, <2>2, ShownKept DEF Rewrite
  <2> QED
    BY <2>1, <2>2
<1>5. PlansInv'
  BY <1>1, <1>2, <1>4, PlansKept DEF Rewrite, Time
<1>6. GrantInv'
  <2> SUFFICES ASSUME NEW s \in Row
               PROVE  RowGranted(s)'
    BY DEF GrantInv
  <2>1. CASE s # r
    BY <1>1, <1>2, <2>1 DEF GrantInv, RowGranted
  <2>2. CASE s = r
    <3>1. /\ new.life # "none"
          /\ \/ new.life = "purged" /\ new.status = row[r].status
                /\ new.sched = row[r].sched
             \/ new.status = "DRAFT" /\ new.sched = Null
      BY <1>1 DEF Withdrawn, Record
    <3> QED
      BY <1>1, <1>2, <2>2, <3>1 DEF GrantInv, RowGranted
  <2> QED
    BY <2>1, <2>2
<1>7. ASSUME NEW s \in Row
      PROVE  RowMarked(s)'
  <2>1. CASE s = r
    BY <1>1, <1>2, <1>3, <1>4, <2>1
       DEF MarkInv, RowMarked, Withdrawn, Record
  <2>2. CASE s # r
    BY <1>1, <1>2, <1>4, <1>7, <2>2, MarkKept DEF MarkInv, Time
  <2> QED
    BY <2>1, <2>2
<1> QED
  BY <1>5, <1>6, <1>7 DEF IInv, MarkInv

\* The reconciler promotes rows that were public and marked already.
LEMMA PublishInvariant ==
    ASSUME IInv, TypeOK', PublishDue
    PROVE  IInv'
<1> DEFINE due == {r \in Row : Due(row[r], now)}
<1>1. /\ TypeOK /\ PlansInv /\ GrantInv /\ MarkInv
      /\ now' = now /\ now \in Time
      /\ row \in [Row -> Record]
      /\ granted' = granted /\ reviewed' = reviewed /\ raced' = raced
  BY DEF IInv, TypeOK, PublishDue
<1>2. ASSUME NEW r \in Row
      PROVE  row'[r] = IF r \in due THEN Promoted(row[r]) ELSE row[r]
  BY DEF PublishDue
<1>3. ASSUME NEW r \in due
      PROVE  /\ r \in Row
             /\ row'[r].life = "live" /\ row'[r].status = "PUBLISHED"
             /\ row'[r].sched = Null
             /\ row'[r].pub = IF row[r].pub = Null THEN row[r].sched ELSE row[r].pub
  BY <1>1, <1>2 DEF Due, Promoted, Record
<1>4. ASSUME NEW r \in Row
      PROVE  Public(row'[r], now') = Public(row[r], now)
  BY <1>1, <1>2, <1>3 DEF Public, IsPubliclyVisible, Due
<1>5. ASSUME NEW r \in Row, ~raced[r]
      PROVE  shown'[r] = shown[r]
  BY <1>1, <1>4, <1>5, ShownKept DEF PublishDue
<1>6. PlansInv'
  BY <1>1, <1>2, <1>5, PlansKept DEF PublishDue, Time
<1>7. GrantInv'
  BY <1>1, <1>2, <1>3 DEF GrantInv, RowGranted, Due
<1>8. ASSUME NEW r \in Row
      PROVE  RowMarked(r)'
  <2>1. CASE r \notin due
    BY <1>1, <1>2, <1>4, <1>5, <2>1, MarkKept DEF MarkInv, Time
  <2>2. CASE r \in due
    <3>1. RowMarked(r) /\ Due(row[r], now)
      BY <1>1, <2>2 DEF MarkInv
    <3> QED
      BY <1>1, <1>3, <1>4, <1>5, <2>2, <3>1
         DEF RowMarked, Due, Public, IsPubliclyVisible, HasBeenPublic
  <2> QED
    BY <2>1, <2>2
<1> QED
  BY <1>6, <1>7, <1>8 DEF IInv, MarkInv

\* A record that falls due becomes public with its schedule as its mark.
LEMMA TickInvariant ==
    ASSUME IInv, TypeOK', Tick
    PROVE  IInv'
<1> DEFINE turned == {r \in Row : Public(row[r], now) # Public(row[r], now')}
<1>1. /\ TypeOK /\ PlansInv /\ GrantInv /\ MarkInv
      /\ now \in Time /\ now' \in Time /\ now' = now + 1
      /\ row \in [Row -> Record]
      /\ row' = row /\ granted' = granted /\ reviewed' = reviewed /\ raced' = raced
  BY DEF IInv, TypeOK, Tick
<1>2. ASSUME NEW r \in Row \ turned, ~raced[r]
      PROVE  shown'[r] = shown[r]
  BY <1>1, <1>2, ShownKept DEF Tick
<1>3. PlansInv'
  BY <1>1, <1>2, PlansKept DEF Tick, Time
<1>4. GrantInv'
  BY <1>1, RulesAssumption DEF GrantInv, RowGranted, Record, MaybeTime, Time
<1>5. ASSUME NEW r \in Row
      PROVE  RowMarked(r)'
  <2>1. CASE r \notin turned
    BY <1>1, <1>2, <2>1, MarkKept DEF MarkInv, Time
  <2>2. CASE r \in turned
    <3>1. /\ row[r].life = "live" /\ row[r].status = "PENDING"
          /\ row[r].sched # Null /\ row[r].sched <= now'
          /\ Public(row'[r], now')
          /\ row[r] \in Record /\ shown[r] \in MaybeTime
      BY <1>1, <2>2 DEF Public, IsPubliclyVisible, Record, MaybeTime, Time, TypeOK
    <3>2. RowMarked(r)
      BY <1>1 DEF MarkInv
    <3>3. shown'[r] = IF shown[r] = Null THEN row'[r].pub ELSE shown[r]
      BY <3>1 DEF Tick, NoteShown
    <3> QED
      BY <1>1, <3>1, <3>2, <3>3
         DEF RowMarked, HasBeenPublic, Record, MaybeTime, Time
  <2> QED
    BY <2>1, <2>2
<1> QED
  BY <1>3, <1>4, <1>5 DEF IInv, MarkInv

\* A command that commits keeps the invariant: on a row that moved under it only
\* the grant is promised, on any other row the facts it checked still hold.
LEMMA CommitInvariant ==
    ASSUME IInv, TypeOK', NEW q \in Slot, Commit(q)
    PROVE  IInv'
<1> DEFINE c == request[q]
<1>0. PICK r \in Row : r = c.row
  BY DEF IInv, TypeOK, Commit, Request
<1>1. /\ TypeOK /\ PlansInv /\ GrantInv /\ MarkInv
      /\ now' = now /\ now \in Time
      /\ row \in [Row -> Record]
      /\ c \in Request
  BY DEF IInv, TypeOK, Commit, Request
<1>2. /\ row[r].life \in {"live", "trashed"}
      /\ row'[r].life = row[r].life
      /\ row'[r].status = Column(c.status, row[r].status)
      /\ row'[r].sched = Column(c.sched, row[r].sched)
      /\ row'[r].pub = Column(c.pub, row[r].pub)
      /\ raced'[r] <=> raced[r] \/ c.stale
      /\ granted'[r] <=> Grants(c) \/ (granted[r] /\ ~TakenDown(row'[r]))
      /\ reviewed'[r] <=> Grants(c) \/ (reviewed[r] /\ ~(c.op = "edit" /\ c.editor))
  BY <1>0, <1>1 DEF Commit, TypeOK
<1>3. ASSUME NEW s \in Row \ {r}
      PROVE  /\ row'[s] = row[s] /\ granted'[s] = granted[s]
             /\ reviewed'[s] = reviewed[s] /\ raced'[s] = raced[s]
  BY <1>0, <1>1 DEF Commit, TypeOK
<1>4. ASSUME NEW s \in Row \ {r}, ~raced[s]
      PROVE  shown'[s] = shown[s]
  BY <1>1, <1>3, <1>4, ShownKept DEF Commit
<1>5. PlansInv'
  BY <1>0, <1>1, <1>3, <1>4, PlansKept DEF Commit, Time
<1>6. /\ PlanShape(c) /\ RowGranted(r) /\ row[r] \in Record
      /\ c.at \in Time /\ c.at <= now
      /\ c.op = "schedule" => c.sched \in Time /\ c.sched <= now + MaxHorizon
  <2>1. PlanShape(c) /\ RowGranted(r) /\ row[r] \in Record /\ c.at <= now /\ c.at \in Time
    BY <1>0, <1>1 DEF PlansInv, SlotSound, GrantInv, Commit, Request
  <2> QED
    BY <1>1, <2>1, RulesAssumption DEF PlanShape, ScheduleWindow, Time
<1>7. c.op \in {"edit", "status", "schedule", "cancel", "hide"}
  BY <1>1 DEF Request
<1>8. GrantInv'
  <2> SUFFICES RowGranted(r)'
    BY <1>1, <1>3 DEF GrantInv, RowGranted
  <2> DEFINE old == row[r]
             new == row'[r]
  <2>1. /\ new.life = old.life /\ old.life \in {"live", "trashed"}
        /\ new.sched # Null => new.status = "PENDING" /\ new.sched <= now + MaxHorizon
    BY <1>2, <1>6, <1>7, RulesAssumption
       DEF RowGranted, PlanShape, ClearedSchedule, Column, Status, Record
  <2>2. new.status \in Status
    BY <1>2, <1>6, <1>7, RulesAssumption DEF PlanShape, Column, Status, Record
  <2>3. granted'[r] <=> Grants(c) \/ (granted[r] /\ ~TakenDown(new))
    BY <1>2
  <2>4. granted[r] <=> old.status = "PUBLISHED" \/ old.sched # Null
    BY <1>2, <1>6 DEF RowGranted
  <2>5. ~TakenDown(new) <=> new.status = "PUBLISHED" \/ new.sched # Null
    BY <2>1, <2>2 DEF TakenDown, Status
  <2>6. Grants(c) => ~TakenDown(new)
    BY <1>2, <1>6, <1>7, RulesAssumption
       DEF Grants, PlanShape, TakenDown, Column, Time, Status
  <2>7. ~Grants(c) /\ ~TakenDown(new) => old.status = "PUBLISHED" \/ old.sched # Null
    BY <1>2, <1>6, <1>7, RulesAssumption
       DEF Grants, PlanShape, ClearedSchedule, TakenDown, Column, Status, Record
  <2>8. granted'[r] <=> new.status = "PUBLISHED" \/ new.sched # Null
    BY <2>3, <2>4, <2>5, <2>6, <2>7
  <2> QED
    BY <1>1, <2>1, <2>8 DEF RowGranted
<1>9. RowMarked(r)'
  <2> SUFFICES ASSUME ~raced'[r]
               PROVE  RowMarked(r)'
    BY DEF RowMarked
  <2>1. /\ ~raced[r] /\ RowMarked(r) /\ PlanFresh(c)
        /\ shown[r] \in MaybeTime
    BY <1>0, <1>1, <1>2 DEF MarkInv, PlansInv, SlotSound, Commit, TypeOK
  <2>2. shown'[r] = IF shown[r] = Null /\ Public(row'[r], now)
                    THEN row'[r].pub ELSE shown[r]
    BY <1>0, <1>1 DEF Commit, NoteShown
  <2> USE DEF RowMarked, Column, Public, IsPubliclyVisible, HasBeenPublic
  <2>3. CASE c.op = "edit"
    BY <1>0, <1>1, <1>2, <1>6, <2>1, <2>2, <2>3
       DEF PlanShape, PlanFresh, EditorMayEditScheduled, Grants
  <2>4. CASE c.op = "hide"
    BY <1>0, <1>1, <1>2, <1>6, <2>1, <2>2, <2>4, RulesAssumption DEF PlanShape, Status
  <2>5. CASE c.op = "cancel"
    BY <1>0, <1>1, <1>2, <1>6, <2>1, <2>2, <2>5, RulesAssumption
       DEF PlanShape, PlanFresh, IsActiveFutureSchedule, Status, Record,
           MaybeTime, Time
  <2>6. CASE c.op = "schedule"
    BY <1>0, <1>1, <1>2, <1>6, <2>1, <2>2, <2>6, RulesAssumption
       DEF PlanShape, PlanFresh, HasHistoricalPublication,
           IsActiveFutureSchedule, Status, Record, MaybeTime, Time, Grants
  <2>7. CASE c.op = "status"
    BY <1>0, <1>1, <1>2, <1>6, <2>1, <2>2, <2>7, RulesAssumption
       DEF PlanShape, PlanFresh, PublishedAtFor, ClearedSchedule, Status, Record,
           MaybeTime, Time, Grants, RowGranted
  <2> QED
    BY <1>7, <2>3, <2>4, <2>5, <2>6, <2>7
<1>10. ASSUME NEW s \in Row \ {r}
       PROVE  RowMarked(s)'
  BY <1>1, <1>3, <1>4, MarkKept DEF MarkInv, Time
<1> QED
  BY <1>5, <1>8, <1>9, <1>10 DEF IInv, MarkInv

\* Ending a command without a write, creating a row and the flags of the cron
\* job leave every fact standing.
LEMMA QuietInvariant ==
    ASSUME IInv, TypeOK',
           \/ \E q \in Slot : Abandon(q)
           \/ \E r \in Row : Create(r)
           \/ \E s \in Server : CronFire(s) \/ CronFail(s)
           \/ UNCHANGED vars
    PROVE  IInv'
<1>1. TypeOK /\ PlansInv /\ GrantInv /\ MarkInv /\ now \in Time
  BY DEF IInv, TypeOK
<1>2. ASSUME NEW q \in Slot, Abandon(q)
      PROVE  IInv'
  <2>1. PlansInv'
    BY <1>1, <1>2, PlansKept DEF Abandon, history, Time
  <2>2. GrantInv' /\ MarkInv'
    BY <1>1, <1>2 DEF Abandon, history, GrantInv, RowGranted, MarkInv, RowMarked
  <2> QED
    BY <2>1, <2>2 DEF IInv
<1>3. ASSUME NEW r \in Row, Create(r)
      PROVE  IInv'
  <2>1. /\ \A s \in Row \ {r} : row'[s] = row[s]
        /\ row[r] = NoRow
        /\ row'[r] = [NoRow EXCEPT !.life = "live"]
    BY <1>1, <1>3 DEF Create, TypeOK, GrantInv, RowGranted
  <2>2. ~Public(row'[r], now) /\ ~Public(row[r], now)
    BY <2>1 DEF NoRow, Public, IsPubliclyVisible
  <2>3. PlansInv'
    <3> SUFFICES ASSUME NEW q \in Slot, request[q] # Idle, ~request[q].stale
                 PROVE  /\ PlanCurrent(request[q])'
                        /\ ~raced[request[q].row] => PlanFresh(request[q])'
      BY <1>1, <1>3 DEF PlansInv, SlotSound, PlanShape, Create, history
    <3>1. /\ PlanCurrent(request[q]) /\ request[q].row \in Row
          /\ ~raced[request[q].row] => PlanFresh(request[q])
      BY <1>1 DEF PlansInv, SlotSound, TypeOK, Request
    <3>2. request[q].row # r
      BY <2>1, <3>1 DEF PlanCurrent, NoRow
    <3> QED
      BY <1>3, <2>1, <3>1, <3>2 DEF PlanCurrent, PlanFresh, Create, history
  <2>4. GrantInv'
    BY <1>1, <1>3, <2>1 DEF GrantInv, RowGranted, NoRow, Create, history
  <2>5. MarkInv'
    <3> SUFFICES ASSUME NEW s \in Row
                 PROVE  RowMarked(s)'
      BY DEF MarkInv
    <3>1. CASE s = r
      BY <1>1, <1>3, <2>1, <2>2, <3>1
         DEF MarkInv, RowMarked, NoRow, Create, history
    <3>2. CASE s # r
      BY <1>1, <1>3, <2>1, <3>2 DEF MarkInv, RowMarked, Create, history
    <3> QED
      BY <3>1, <3>2
  <2> QED
    BY <2>3, <2>4, <2>5 DEF IInv
<1>4. ASSUME UNCHANGED <<now, row, request, history>>
      PROVE  IInv'
  BY <1>1, <1>4
     DEF history, IInv, PlansInv, SlotSound, PlanShape, PlanCurrent, PlanFresh, GrantInv,
         RowGranted, MarkInv, RowMarked
<1> QED
  BY <1>2, <1>3, <1>4 DEF CronFire, CronFail, vars

\* Plans, grants and marks stay consistent through every interleaving: the
\* strengthening from which every safety theorem below follows.
THEOREM InductiveInvariant == Spec => []IInv
<1>1. Init => IInv
  <2> SUFFICES ASSUME Init
               PROVE  IInv
    OBVIOUS
  <2>1. TypeOK
    BY DEF Init, TypeOK, NoRow, Record, Life, Status, MaybeTime, Time
  <2>2. PlansInv
    BY DEF Init, PlansInv, SlotSound
  <2>3. GrantInv /\ MarkInv
    BY DEF Init, GrantInv, RowGranted, MarkInv, RowMarked, NoRow, Public,
           IsPubliclyVisible
  <2> QED
    BY <2>1, <2>2, <2>3 DEF IInv
<1>2. IInv /\ TypeOK' /\ [Next]_vars => IInv'
  <2> SUFFICES ASSUME IInv, TypeOK', [Next]_vars
               PROVE  IInv'
    OBVIOUS
  <2>1. ASSUME NEW q \in Slot, NEW r \in Row, NEW role \in Role,
               ReadStep(q, r, role)
        PROVE  IInv'
    BY <2>1, ReadInvariant
  <2>2. ASSUME NEW q \in Slot, Commit(q)
        PROVE  IInv'
    BY <2>2, CommitInvariant
  <2>3. ASSUME NEW r \in Row, Trash(r) \/ Restore(r)
        PROVE  IInv'
    BY <2>3, RewriteInvariant DEF Trash, Restore
  <2>4. ASSUME NEW r \in Row, Purge(r)
        PROVE  IInv'
    <3>1. [row[r] EXCEPT !.life = "purged"].life = "purged"
      BY DEF IInv, TypeOK, Record
    <3> QED
      BY <2>4, <3>1, RewriteInvariant DEF Purge
  <2>5. ASSUME PublishScheduledNow \/ \E s \in Server : CronPublish(s)
        PROVE  IInv'
    BY <2>5, PublishInvariant DEF PublishScheduledNow, CronPublish
  <2>6. CASE Tick
    BY <2>6, TickInvariant
  <2> QED
    BY <2>1, <2>2, <2>3, <2>4, <2>5, <2>6, QuietInvariant DEF Next
<1> QED
  BY <1>1, <1>2, TypeCorrect, PTL DEF Spec

-----------------------------------------------------------------------------
(* What follows from it                                                    *)

\* Whatever interleaves, a record is public only while an administrator's
\* decision to publish or schedule it stands.
THEOREM GrantTheorem == Spec => []PublicOnlyIfGranted
<1>1. IInv => PublicOnlyIfGranted
  BY DEF IInv, GrantInv, RowGranted, PublicOnlyIfGranted, Public, IsPubliclyVisible
<1> QED
  BY <1>1, InductiveInvariant, PTL

\* Unless a command raced, schedule and mark agree and no public record is dated
\* in the future.
THEOREM MarkTheorem == Spec => []MarkMatchesState
<1>1. IInv => MarkMatchesState
  <2> SUFFICES ASSUME IInv, NEW r \in Row, ~raced[r]
               PROVE  /\ row[r].sched # Null => row[r].pub = row[r].sched
                      /\ Public(row[r], now) => HasBeenPublic(row[r].pub, now)
    BY DEF MarkMatchesState
  <2> QED
    BY DEF IInv, MarkInv, RowMarked, Public, IsPubliclyVisible, HasBeenPublic
<1> QED
  BY <1>1, InductiveInvariant, PTL

\* Where a draft with a history cannot be scheduled again (News, Pages and
\* Cooperation), publishedAt is for ever the mark of the first publication.
THEOREM FirstMarkTheorem ==
    ASSUME RescheduleDrafts = FALSE
    PROVE  Spec => []FirstMarkKept
<1>1. IInv => FirstMarkKept
  BY DEF IInv, MarkInv, RowMarked, FirstMarkKept
<1> QED
  BY <1>1, InductiveInvariant, PTL

\* Unless a command raced, the public reads what an administrator let out.
THEOREM ApprovalTheorem == Spec => []ApprovedContentOnly
<1>1. IInv => ApprovedContentOnly
  BY DEF IInv, MarkInv, RowMarked, ApprovedContentOnly, Public, IsPubliclyVisible
<1> QED
  BY <1>1, InductiveInvariant, PTL

\* No run of the reconciler changes what the public sees.
THEOREM ReconcilerTheorem == Spec => ReconcilerUnseen
<1>1. IInv /\ PublishDue => \A r \in Row : Public(row[r], now) = Public(row'[r], now')
  <2> SUFFICES ASSUME IInv, PublishDue, NEW r \in Row
               PROVE  Public(row[r], now) = Public(row'[r], now')
    OBVIOUS
  <2>1. row[r] \in Record /\ now' = now
    BY DEF IInv, TypeOK, PublishDue
  <2>2. row'[r] = IF Due(row[r], now) THEN Promoted(row[r]) ELSE row[r]
    BY DEF PublishDue
  <2> QED
    BY <2>1, <2>2 DEF Due, Promoted, Public, IsPubliclyVisible, Record
<1> QED
  BY <1>1, InductiveInvariant, PTL DEF ReconcilerUnseen

\* An editor's command that did not race neither publishes nor takes down.
THEOREM EditorTheorem == Spec => EditorLeavesSiteAlone
<1>1. ASSUME IInv, NEW q \in Slot, request[q] # Idle, Commit(q),
             request[q].editor, ~request[q].stale, NEW s \in Row
      PROVE  Public(row[s], now) = Public(row'[s], now')
  <2> DEFINE c == request[q]
  <2>1. PICK r \in Row : r = c.row
    BY <1>1 DEF IInv, TypeOK, Request
  <2>2. /\ now' = now /\ row \in [Row -> Record]
        /\ s # r => row'[s] = row[s]
        /\ row'[r].life = row[r].life
        /\ row'[r].status = Column(c.status, row[r].status)
        /\ row'[r].sched = Column(c.sched, row[r].sched)
    BY <1>1, <2>1 DEF Commit, IInv, TypeOK
  <2>3. PlanShape(c) /\ PlanCurrent(c) /\ RowGranted(r)
    BY <1>1, <2>1 DEF IInv, PlansInv, SlotSound, GrantInv
  <2>4. CASE s = r /\ c.op = "edit"
    BY <2>2, <2>3, <2>4 DEF PlanShape, Column, Public, IsPubliclyVisible
  <2>5. CASE s = r /\ c.op # "edit"
    <3>1. /\ row[r].status = "DRAFT" /\ row[r].sched = Null
          /\ row'[r].status = "PENDING" /\ row'[r].sched = Null
      BY <1>1, <2>1, <2>2, <2>3, <2>5, RulesAssumption
         DEF PlanShape, PlanCurrent, RowGranted, ClearedSchedule, Column, Status
    <3> QED
      BY <2>2, <2>5, <3>1 DEF Public, IsPubliclyVisible
  <2> QED
    BY <2>2, <2>4, <2>5
<1>2. IInv => \A q \in Slot :
         request[q] # Idle /\ Commit(q) /\ request[q].editor /\ ~request[q].stale
            => \A r \in Row : Public(row[r], now) = Public(row'[r], now')
  BY <1>1
<1> QED
  BY <1>2, InductiveInvariant, PTL DEF EditorLeavesSiteAlone

-----------------------------------------------------------------------------
(* The refinement: Publication implements PublicSite, for every set of     *)
(* records, slots and processes and every schedule window.                 *)

\* A step that touches one record releases it, promises it or withdraws it.
LEMMA OneRecordStep ==
    ASSUME IInv, IInv', now' = now, NEW r \in Row,
           \A s \in Row \ {r} : row'[s] = row[s] /\ granted'[s] = granted[s]
    PROVE  Site!SiteNext
<1> DEFINE new  == row'[r]
           seen == {s \in Row : Public(row[s], now)}
           hour == [s \in Row |-> Promised(row[s])]
           held == {s \in Row : row[s].life = "live" /\ granted[s]}
<1>0. PICK next : next = Promised(row[r])'
  OBVIOUS
<1>1. /\ now \in Time /\ new \in Record
      /\ \A s \in Row \ {r} : Promised(row[s])' = Promised(row[s])
  BY DEF IInv, TypeOK, Promised
<1>2. /\ new.sched # Null => new.status = "PENDING" /\ new.sched <= now + MaxHorizon
      /\ granted'[r] <=> /\ new.life \in {"live", "trashed"}
                         /\ new.status = "PUBLISHED" \/ new.sched # Null
  BY DEF IInv, GrantInv, RowGranted
<1>3. next = IF new.life = "live" /\ new.status = "PENDING" /\ new.sched # Null
                   /\ new.sched > now
             THEN new.sched ELSE Null
  BY <1>0 DEF Promised
<1>4. /\ hour \in [Row -> {hour[s] : s \in Row}]
      /\ hour' = [hour EXCEPT ![r] = next]
  BY <1>0, <1>1
<1>5. CASE Public(new, now)
  <2>1. next = Null /\ new.life = "live" /\ granted'[r]
    BY <1>1, <1>2, <1>3, <1>5 DEF Public, IsPubliclyVisible, Record, MaybeTime, Time
  <2>2. seen' = seen \cup {r} /\ held' = held \cup {r}
    BY <1>5, <2>1
  <2>3. Site!Release(r)
    BY <1>4, <2>1, <2>2 DEF Site!Release
  <2> QED
    BY <2>3 DEF Site!SiteNext
<1>6. CASE next # Null
  <2>1. /\ next = new.sched /\ next \in (now + 1)..(now + MaxHorizon)
        /\ new.life = "live" /\ granted'[r] /\ ~Public(new, now)
    BY <1>1, <1>2, <1>3, <1>6, RulesAssumption
       DEF Public, IsPubliclyVisible, Record, MaybeTime, Time
  <2>2. seen' = seen \ {r} /\ held' = held \cup {r}
    BY <2>1
  <2>3. Site!Promise(r, next)
    BY <1>4, <2>1, <2>2 DEF Site!Promise
  <2> QED
    BY <2>1, <2>3 DEF Site!SiteNext
<1>7. CASE ~Public(new, now) /\ next = Null
  <2>1. ~(new.life = "live" /\ granted'[r])
    BY <1>1, <1>2, <1>3, <1>7
       DEF Public, IsPubliclyVisible, Record, MaybeTime, Time, Status
  <2>2. seen' = seen \ {r} /\ held' = held \ {r}
    BY <1>7, <2>1
  <2>3. Site!Withdraw(r)
    BY <1>4, <1>7, <2>2 DEF Site!Withdraw
  <2> QED
    BY <2>3 DEF Site!SiteNext
<1> QED
  BY <1>5, <1>6, <1>7

\* The clock brings out the records whose promised hour it reaches.
LEMMA TickAdvances ==
    ASSUME IInv, Tick
    PROVE  Site!Advance
<1> DEFINE hour == [s \in Row |-> Promised(row[s])]
           due  == {s \in Row : hour[s] # Null /\ hour[s] <= now + 1}
<1>1. /\ now' = now + 1 /\ row' = row /\ granted' = granted /\ now \in Time
      /\ \A s \in Row : row[s] \in Record
  BY DEF IInv, TypeOK, Tick
<1>2. ASSUME NEW s \in Row
      PROVE  /\ Public(row[s], now)' <=> Public(row[s], now) \/ s \in due
             /\ Promised(row[s])' = IF s \in due THEN Null ELSE hour[s]
  <2>1. Promised(row[s])' = IF /\ row[s].life = "live" /\ row[s].status = "PENDING"
                               /\ row[s].sched # Null /\ row[s].sched > now + 1
                            THEN row[s].sched ELSE Null
    BY <1>1 DEF Promised
  <2>2. Public(row[s], now)' <=> Public(row[s], now + 1)
    BY <1>1
  <2> QED
    BY <1>1, <2>1, <2>2, RulesAssumption
       DEF Promised, Public, IsPubliclyVisible, Record, MaybeTime, Time
<1> QED
  BY <1>1, <1>2 DEF Site!Advance

\* The reconciler is not seen: promoting a due record changes neither what is
\* shown nor what is promised.
LEMMA PublishStutters ==
    ASSUME IInv, PublishDue
    PROVE  UNCHANGED Site!siteVars
<1>1. /\ now' = now /\ granted' = granted /\ now \in Time
      /\ \A s \in Row : row[s] \in Record
      /\ \A s \in Row : row'[s] = IF Due(row[s], now) THEN Promoted(row[s]) ELSE row[s]
  BY DEF IInv, TypeOK, PublishDue
<1>2. ASSUME NEW s \in Row
      PROVE  /\ Public(row[s], now)' <=> Public(row[s], now)
             /\ Promised(row[s])' = Promised(row[s])
             /\ row'[s].life = row[s].life
  <2>1. Promised(row[s])' = IF /\ row'[s].life = "live" /\ row'[s].status = "PENDING"
                               /\ row'[s].sched # Null /\ row'[s].sched > now
                            THEN row'[s].sched ELSE Null
    BY <1>1 DEF Promised
  <2>2. CASE ~Due(row[s], now)
    BY <1>1, <2>1, <2>2 DEF Promised
  <2>3. CASE Due(row[s], now)
    <3>1. /\ row'[s].life = "live" /\ row[s].life = "live"
          /\ row'[s].status = "PUBLISHED" /\ row'[s].sched = Null
      BY <1>1, <2>3 DEF Promoted, Record, Due
    <3> QED
      BY <1>1, <2>1, <2>3, <3>1
         DEF Promised, Due, Public, IsPubliclyVisible, Record, MaybeTime, Time
  <2> QED
    BY <2>2, <2>3
<1> QED
  BY <1>1, <1>2 DEF Site!siteVars

\* The table, the commands, the trash and the reconciler, under every
\* interleaving, give visitors the site that PublicSite promises: records come
\* and go one by one, each showing rests on a standing decision, and a promised
\* record comes out exactly at its hour whether the reconciler runs or not.
THEOREM RefinementTheorem == Spec => ImplementsSite
<1>1. Init => Site!SiteInit
  BY DEF Init, Site!SiteInit, NoRow, Public, IsPubliclyVisible, Promised
<1>2. IInv /\ IInv' /\ [Next]_vars => [Site!SiteNext]_(Site!siteVars)
  <2> SUFFICES ASSUME IInv, IInv', [Next]_vars
               PROVE  Site!SiteNext \/ UNCHANGED Site!siteVars
    OBVIOUS
  <2>1. ASSUME NEW q \in Slot, Commit(q)
        PROVE  Site!SiteNext
    <3>1. PICK r \in Row : r = request[q].row
      BY <2>1 DEF IInv, TypeOK, Commit, Request
    <3>2. /\ now' = now
          /\ \A s \in Row \ {r} : row'[s] = row[s] /\ granted'[s] = granted[s]
      BY <2>1, <3>1 DEF Commit, IInv, TypeOK
    <3> QED
      BY <3>2, OneRecordStep
  <2>2. ASSUME NEW r \in Row, Create(r) \/ Trash(r) \/ Restore(r) \/ Purge(r)
        PROVE  Site!SiteNext
    <3>1. /\ now' = now
          /\ \A s \in Row \ {r} : row'[s] = row[s] /\ granted'[s] = granted[s]
      BY <2>2 DEF Create, Trash, Restore, Purge, Rewrite, history, IInv, TypeOK
    <3> QED
      BY <3>1, OneRecordStep
  <2>3. CASE Tick
    BY <2>3, TickAdvances DEF Site!SiteNext
  <2>4. CASE PublishScheduledNow \/ \E s \in Server : CronPublish(s)
    BY <2>4, PublishStutters DEF PublishScheduledNow, CronPublish
  <2>5. CASE UNCHANGED <<now, row, granted>>
    BY <2>5 DEF Site!siteVars, Promised
  <2>6. ASSUME NEW q \in Slot, NEW r \in Row, NEW role \in Role, ReadStep(q, r, role)
        PROVE  UNCHANGED <<now, row, granted>>
    BY <2>6 DEF ReadStep, ReadForEdit, ReadForStatus, ReadForSchedule,
                ReadForCancel, ReadForHide, Plan, history
  <2>7. ASSUME \/ \E q \in Slot : Abandon(q)
               \/ \E s \in Server : CronFire(s) \/ CronFail(s)
               \/ UNCHANGED vars
        PROVE  UNCHANGED <<now, row, granted>>
    BY <2>7 DEF Abandon, CronFire, CronFail, vars, history
  <2> QED
    BY <2>1, <2>2, <2>3, <2>4, <2>5, <2>6, <2>7 DEF Next
<1> QED
  BY <1>1, <1>2, InductiveInvariant, PTL DEF Spec, ImplementsSite, Site!SiteSpec
=============================================================================
