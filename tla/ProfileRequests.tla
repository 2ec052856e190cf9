--------------------------- MODULE ProfileRequests ---------------------------
(***************************************************************************)
(* The profile of one member of staff and the requests to change it:       *)
(* submission, review, and the trash of requests and of the account.       *)
(*                                                                         *)
(* No route of UsersService uses a transaction: a submission looks for the *)
(* pending request and writes later, a review reads the request, updates   *)
(* the profile and marks the request, each a statement of its own.  The    *)
(* trash is SERIALIZABLE: a restoration commits on the snapshot it checked *)
(* unless its row, or another row that was restored, has changed.          *)
(***************************************************************************)
CONSTANTS
    Row,         \* rows of profile_change_requests that can be created
    Slot,        \* routes that can be in flight at the same time
    None,        \* no route, no row, no payload
    Field,       \* EDITABLE_PROFILE_KEYS
    Name,        \* the one of them that must not be blank
    Value,       \* what a field may hold, trimmed
    Blank        \* the empty string, and NULL, which is shown as one

\* A payload names the fields it changes, one at least.
Payload == UNION {[fields -> Value] : fields \in (SUBSET Field) \ {{}}}

Status == {"PENDING", "APPROVED", "REJECTED"}

\* A row of profile_change_requests.  One that was never created is "none".
Record == [life : {"none", "live", "trashed", "purged"}, status : Status,
           payload : Payload \cup {None}]

Ops == {"write", "log", "find", "create", "overwrite", "apply", "mark", "restore"}

\* A route in flight and its next statement.  `outdated` is history: what it
\* read has changed since.  `broken`: PostgreSQL will not let it commit.
Request == [op : Ops, row : Row \cup {None}, payload : Payload \cup {None},
            decision : Status, outdated : BOOLEAN, broken : BOOLEAN]

ASSUME ProfilesAssumption ==
    /\ Name \in Field
    /\ Blank \in Value
    /\ None \notin Payload
    /\ None \notin Row /\ None \notin Slot
    /\ None \notin Request

VARIABLES
    profile,    \* the columns of users
    owner,      \* whether the account is live, trashed or purged
    row,        \* the table
    request

(* History variables: they record what happened and guard nothing.         *)
VARIABLES
    applied,    \* applied[r]: the payload of r that was last put in the profile
    muddled,    \* rows that an outdated route wrote, or whose review was cut short
    doubled     \* an outdated route made a request wait beside another

history == <<applied, muddled, doubled>>
vars    == <<profile, owner, row, request, history>>

ProfilesTypeOK ==
    /\ profile \in [Field -> Value]
    /\ profile[Name] # Blank
    /\ owner \in {"live", "trashed", "purged"}
    /\ row \in [Row -> Record]
    /\ \A r \in Row : row[r].life = "live" => row[r].payload \in Payload
    /\ request \in [Slot -> Request \cup {None}]
    /\ applied \in [Row -> Payload \cup {None}]
    /\ muddled \subseteq Row
    /\ doubled \in BOOLEAN

Init ==
    /\ profile \in {p \in [Field -> Value] : p[Name] # Blank}
    /\ owner = "live"
    /\ row = [r \in Row |-> [life |-> "none", status |-> "PENDING", payload |-> None]]
    /\ request = [q \in Slot |-> None]
    /\ applied = [r \in Row |-> None]
    /\ muddled = {}
    /\ doubled = FALSE

-----------------------------------------------------------------------------
(* Shared steps                                                            *)

Exists(r)       == row[r].life \in {"live", "trashed"}
Waits(record)   == record.life = "live" /\ record.status = "PENDING"
Waiting         == {r \in Row : Waits(row[r])}
InFlight(q, op) == request[q] # None /\ request[q].op = op

\* The profile with the fields of a payload replaced.
Updated(payload) ==
    [f \in Field |-> IF f \in DOMAIN payload THEN payload[f] ELSE profile[f]]

\* A route that has read what it needs.
Start(q, op, r, payload, decision) ==
    /\ request[q] = None
    /\ request' = [request EXCEPT ![q] =
           [op |-> op, row |-> r, payload |-> payload, decision |-> decision,
            outdated |-> FALSE, broken |-> FALSE]]
    /\ UNCHANGED <<profile, owner, row, history>>

\* What a step does to a row.
Effects == {"untouched", "written", "restored"}

\* Another route in flight once the row r is `record`, or is about to be: a row that
\* starts to wait concerns every route that looked for such a row, and a restoration
\* breaks off only at a row that has been written.
Outdated(c, r, record, effect) ==
    [c EXCEPT
       !.outdated = @ \/ c.row = r \/ (c.op \in {"create", "restore"} /\ Waits(record)),
       !.broken   = @ \/ /\ c.op = "restore" /\ effect # "untouched"
                         /\ \/ c.row = r
                            \/ effect = "restored" /\ c.decision = "PENDING" /\ Waits(record)]

\* The route of slot q continues as c; the row r is now `record`.
Touch(q, c, r, record, effect) ==
    request' = [p \in Slot |->
        IF p = q THEN c
        ELSE IF request[p] = None THEN None ELSE Outdated(request[p], r, record, effect)]

\* The last statement of the route in slot q, or of a transaction in no slot.
WriteRow(q, r, record, effect) ==
    /\ row' = [row EXCEPT ![r] = record]
    /\ Touch(q, None, r, record, effect)

-----------------------------------------------------------------------------
(* Submission                                                              *)

\* What of the body differs from the profile.
Difference(body) ==
    [f \in {g \in DOMAIN body : body[g] # profile[g]} |-> body[f]]

\* A mistaken check that lets the name be blank.
ChangesAnything(payload) == DOMAIN payload # {}

Worthwhile(payload) ==
    /\ DOMAIN payload # {}
    /\ Name \in DOMAIN payload => payload[Name] # Blank

\* The role is read with every request: the member may be promoted meanwhile.
ReadForSubmit(q, body, privileged) ==
    LET payload == Difference(body)
    IN  /\ owner = "live"
        /\ Worthwhile(payload)
        /\ Start(q, IF privileged THEN "write" ELSE "find", None, payload, "PENDING")

\* An administrator's own profile: update, then a record of it.
WriteOwn(q) ==
    /\ InFlight(q, "write")
    /\ owner # "purged"
    /\ profile' = Updated(request[q].payload)
    /\ request' = [request EXCEPT ![q].op = "log"]
    /\ UNCHANGED <<owner, row, history>>

LogOwn(q, r) ==
    /\ InFlight(q, "log")
    /\ owner # "purged"
    /\ row[r].life = "none"
    /\ WriteRow(q, r, [life |-> "live", status |-> "APPROVED",
                       payload |-> request[q].payload], "written")
    /\ applied' = [applied EXCEPT ![r] = request[q].payload]
    /\ UNCHANGED <<profile, owner, muddled, doubled>>

\* A mistaken search that finds requests in the trash.
AnyPending(r) == Exists(r) /\ row[r].status = "PENDING"

IsPending(r) == Waits(row[r])

FindPending(q) ==
    /\ InFlight(q, "find")
    /\ \/ \E r \in Row :
            /\ IsPending(r)
            /\ request' = [request EXCEPT ![q].op = "overwrite", ![q].row = r]
       \/ /\ \A r \in Row : ~IsPending(r)
          /\ request' = [request EXCEPT ![q].op = "create"]
    /\ UNCHANGED <<profile, owner, row, history>>

\* The UPDATE by id: the row may have been reviewed or trashed meanwhile.
Overwrite(q) ==
    LET c == request[q]
    IN  /\ InFlight(q, "overwrite")
        /\ Exists(c.row)
        /\ WriteRow(q, c.row, [row[c.row] EXCEPT !.payload = c.payload], "written")
        /\ muddled' = IF c.outdated THEN muddled \cup {c.row} ELSE muddled
        /\ UNCHANGED <<profile, owner, applied, doubled>>

Create(q, r) ==
    LET c == request[q]
    IN  /\ InFlight(q, "create")
        /\ owner # "purged"
        /\ row[r].life = "none"
        /\ WriteRow(q, r, [life |-> "live", status |-> "PENDING", payload |-> c.payload],
                    "written")
        /\ doubled' = (doubled \/ c.outdated)
        /\ UNCHANGED <<profile, owner, applied, muddled>>

-----------------------------------------------------------------------------
(* Review                                                                  *)

\* A mistaken review that does not look at the status.
ReviewAny(r) == row[r].life = "live"

MayReview(r) == row[r].life = "live" /\ row[r].status = "PENDING"

ReadForReview(q, r, decision) ==
    /\ MayReview(r)
    /\ Start(q, IF decision = "APPROVED" THEN "apply" ELSE "mark", r,
             row[r].payload, decision)

\* The payload that was read reaches the profile, also of a trashed account.
ApplyReview(q) ==
    LET c == request[q]
    IN  /\ InFlight(q, "apply")
        /\ owner # "purged"
        /\ profile' = Updated(c.payload)
        /\ Touch(q, [c EXCEPT !.op = "mark"], c.row, row[c.row], "untouched")
        /\ applied' = [applied EXCEPT ![c.row] = c.payload]
        /\ muddled' = IF c.outdated THEN muddled \cup {c.row} ELSE muddled
        /\ UNCHANGED <<owner, row, doubled>>

MarkReview(q) ==
    LET c == request[q]
    IN  /\ InFlight(q, "mark")
        /\ Exists(c.row)
        /\ WriteRow(q, c.row, [row[c.row] EXCEPT !.status = c.decision], "written")
        /\ muddled' = IF c.outdated THEN muddled \cup {c.row} ELSE muddled
        /\ UNCHANGED <<profile, owner, applied, doubled>>

-----------------------------------------------------------------------------
(* The trash                                                               *)

WriteByTrash(r, life) ==
    /\ WriteRow(None, r, [row[r] EXCEPT !.life = life], "written")
    /\ UNCHANGED <<profile, owner, history>>

Trash(r) == row[r].life = "live" /\ WriteByTrash(r, "trashed")
Purge(r) == Exists(r) /\ WriteByTrash(r, "purged")

\* A mistaken restoration that does not look for a newer request.
OthersIgnored(r) == TRUE

NoOtherPending(r) == row[r].status = "PENDING" => Waiting \ {r} = {}

ReadForRestore(q, r) ==
    /\ row[r].life = "trashed"
    /\ owner = "live"
    /\ NoOtherPending(r)
    /\ Start(q, "restore", r, row[r].payload, row[r].status)

\* Two restorations that looked for each other's row cannot both commit.
CommitRestore(q) ==
    LET c == request[q]
    IN  /\ InFlight(q, "restore")
        /\ ~c.broken
        /\ row[c.row].life = "trashed"
        /\ WriteRow(q, c.row, [row[c.row] EXCEPT !.life = "live"], "restored")
        /\ doubled' = (doubled \/ (c.outdated /\ c.decision = "PENDING"))
        /\ UNCHANGED <<profile, owner, applied, muddled>>

TrashOwner ==
    /\ owner = "live"
    /\ owner' = "trashed"
    /\ UNCHANGED <<profile, row, request, history>>

RestoreOwner ==
    /\ owner = "trashed"
    /\ owner' = "live"
    /\ UNCHANGED <<profile, row, request, history>>

\* ON DELETE CASCADE
PurgeOwner ==
    /\ owner # "purged"
    /\ owner' = "purged"
    /\ row' = [r \in Row |-> IF Exists(r) THEN [row[r] EXCEPT !.life = "purged"] ELSE row[r]]
    /\ UNCHANGED <<profile, request, history>>

\* An error, a conflict of the database, or the death of the process.
Abandon(q) ==
    LET c == request[q]
    IN  /\ c # None
        /\ request' = [request EXCEPT ![q] = None]
        /\ muddled' = IF c.op = "mark" /\ c.decision = "APPROVED"
                      THEN muddled \cup {c.row} ELSE muddled
        /\ UNCHANGED <<profile, owner, row, applied, doubled>>

-----------------------------------------------------------------------------
Submission(q) ==
    \/ \E body \in Payload, privileged \in BOOLEAN : ReadForSubmit(q, body, privileged)
    \/ WriteOwn(q) \/ FindPending(q) \/ Overwrite(q)
    \/ \E r \in Row : LogOwn(q, r) \/ Create(q, r)

Review(q) ==
    \/ \E r \in Row, decision \in {"APPROVED", "REJECTED"} : ReadForReview(q, r, decision)
    \/ ApplyReview(q) \/ MarkReview(q)

TrashStep ==
    \/ \E r \in Row : Trash(r) \/ Purge(r)
    \/ TrashOwner \/ RestoreOwner \/ PurgeOwner

Next ==
    \/ TrashStep
    \/ \E q \in Slot :
         \/ Submission(q) \/ Review(q) \/ CommitRestore(q) \/ Abandon(q)
         \/ \E r \in Row : ReadForRestore(q, r)

Spec == Init /\ [][Next]_vars

-----------------------------------------------------------------------------
(* Safety                                                                  *)

\* At most one request of a member waits, unless a route that found none made a
\* second one after another had come to wait; overlapping restorations cannot.
\* (submitProfileChange: findFirst then create; restore: the pending check)
OnePendingRequest ==
    ~doubled => \A r, s \in Waiting : r = s

\* What the table says was decided is what happened to the profile: the payload
\* of an approved request is the one that was applied, and nothing of a rejected
\* or waiting one was.  Between the two statements of a review, and for a request
\* that an outdated route wrote or whose review was cut short, nothing is said.
\* (reviewProfileRequest)
BeingMarked(r) ==
    \E q \in Slot : /\ InFlight(q, "mark")
                    /\ request[q].row = r /\ request[q].decision = "APPROVED"

DecisionsHold ==
    \A r \in Row : Exists(r) /\ r \notin muddled /\ ~BeingMarked(r) =>
        applied[r] = IF row[r].status = "APPROVED" THEN row[r].payload ELSE None

\* When a submission is written it waits for a decision: it never ends up in a
\* request that is in the trash or already decided, unless that happened after
\* the route had looked.  (submitProfileChange: the pending request it finds)
SubmissionWaits ==
    [][\A r \in Row :
         row[r].life # "none" /\ row'[r].payload # row[r].payload =>
             Waits(row'[r]) \/ r \in muddled']_vars

=============================================================================
