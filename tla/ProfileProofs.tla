--------------------------- MODULE ProfileProofs ----------------------------
(***************************************************************************)
(* Theorems about ProfileRequests for every set of rows, routes, fields    *)
(* and values.                                                             *)
(***************************************************************************)
EXTENDS ProfileRequests, TLAPS

\* What a submission may carry: a name, if there is one, that is not blank.
Proper == {p \in Payload : Name \in DOMAIN p => p[Name] # Blank}

\* A row that was never created was never applied; any other one holds what a
\* submission carried.
RowHolds(r) ==
    IF row[r].life = "none" THEN applied[r] = None ELSE row[r].payload \in Proper

\* What a route in flight has read and can rely on, whoever acted since.
RouteHolds(c) ==
    /\ c.payload \in Proper
    /\ c.op \in {"overwrite", "apply", "mark", "restore"} =>
           c.row \in Row /\ row[c.row].life # "none"
    /\ c.op = "apply" => c.decision = "APPROVED"
    /\ c.op = "mark" => c.decision # "PENDING"
    /\ c.op = "restore" /\ c.decision # "PENDING" => row[c.row].status # "PENDING"

\* What it can rely on as long as it is not outdated.
StillHolds(c) ==
    /\ c.op \in {"overwrite", "apply", "mark"} /\ Exists(c.row) => Waits(row[c.row])
    /\ c.op = "apply" /\ Exists(c.row) => row[c.row].payload = c.payload
    /\ c.op = "mark" /\ c.decision = "APPROVED" /\ Exists(c.row) =>
           applied[c.row] = row[c.row].payload
    /\ c.op = "create" => Waiting = {}
    /\ c.op = "restore" /\ c.decision = "PENDING" => Waiting \subseteq {c.row}

RouteInv(q) ==
    request[q] # None =>
        RouteHolds(request[q]) /\ (~request[q].outdated => StillHolds(request[q]))

RoutesInv == \A q \in Slot : RouteInv(q)

\* The same of all routes but one.
OthersInv(q) == \A p \in Slot \ {q} : RouteInv(p)

\* The inductive invariant.
ProfilesInv ==
    /\ ProfilesTypeOK
    /\ \A r \in Row : RowHolds(r)
    /\ RoutesInv
    /\ OnePendingRequest
    /\ DecisionsHold

-----------------------------------------------------------------------------
(* Payloads                                                                *)

\* A payload is a function from some fields to values.
LEMMA PayloadShape ==
    /\ \A p \in Payload : DOMAIN p \in SUBSET Field /\ p \in [DOMAIN p -> Value]
    /\ \A fields \in SUBSET Field : fields # {} => [fields -> Value] \subseteq Payload
BY DEF Payload

\* What the check of a submission lets through is proper.  (submitProfileChange)
LEMMA DifferenceProper ==
    ASSUME NEW body \in Payload, Worthwhile(Difference(body))
    PROVE  Difference(body) \in Proper
<1> DEFINE fields == {g \in DOMAIN body : body[g] # profile[g]}
<1>1. DOMAIN Difference(body) = fields /\ fields # {} /\ fields \in SUBSET Field
  BY PayloadShape DEF Difference, Worthwhile
<1>2. Difference(body) \in [fields -> Value]
  BY PayloadShape DEF Difference
<1>3. Difference(body) \in Payload
  BY <1>1, <1>2, PayloadShape
<1> QED
  BY <1>3 DEF Proper, Worthwhile

\* A profile that takes over a proper payload keeps its name.  (update)
LEMMA UpdatedTyped ==
    ASSUME ProfilesTypeOK, NEW payload \in Proper
    PROVE  Updated(payload) \in [Field -> Value] /\ Updated(payload)[Name] # Blank
<1>1. payload \in [DOMAIN payload -> Value] /\ (Name \in DOMAIN payload => payload[Name] # Blank)
  BY PayloadShape DEF Proper
<1> QED
  BY <1>1, ProfilesAssumption DEF Updated, ProfilesTypeOK

-----------------------------------------------------------------------------
(* Steps                                                                   *)

\* The effects that the steps name.
LEMMA NamedEffects == "untouched" \in Effects /\ "written" \in Effects /\ "restored" \in Effects
BY DEF Effects

\* What a route in flight may become when another one writes a row.
LEMMA OutdatedTyped ==
    ASSUME NEW c \in Request, NEW r \in Row, NEW record \in Record, NEW effect \in Effects
    PROVE  LET d == Outdated(c, r, record, effect)
           IN  /\ d \in Request
               /\ d.op = c.op /\ d.row = c.row /\ d.payload = c.payload
               /\ d.decision = c.decision
               /\ ~d.outdated => /\ ~c.outdated /\ c.row # r
                                 /\ c.op \in {"create", "restore"} => ~Waits(record)
<1>1. Outdated(c, r, record, effect).outdated =
          (c.outdated \/ c.row = r \/ (c.op \in {"create", "restore"} /\ Waits(record)))
  BY DEF Outdated, Request
<1>2. Outdated(c, r, record, effect) \in Request
  BY DEF Outdated, Request, Waits
<1> QED
  BY <1>1, <1>2 DEF Outdated, Request

\* Another route than that of slot q is marking r as approved.
MarkedBut(q, r) ==
    \E p \in Slot \ {q} : /\ InFlight(p, "mark")
                          /\ request[p].row = r /\ request[p].decision = "APPROVED"

\* The whole invariant after a row has been written, from what the step did to
\* that row and to its own slot.
LEMMA TouchKeeps ==
    ASSUME ProfilesInv, NEW q, NEW c \in Request \cup {None},
           NEW r \in Row, NEW record \in Record, NEW effect \in Effects,
           NEW x \in Payload \cup {None},
           row' = [row EXCEPT ![r] = record],
           applied' = [applied EXCEPT ![r] = x],
           record.life # "none", record.payload \in Proper,
           row[r].life # "none" /\ row[r].status # "PENDING" => record.status # "PENDING",
           Touch(q, c, r, record, effect),
           profile' \in [Field -> Value], profile'[Name] # Blank, UNCHANGED owner,
           muddled \subseteq muddled', muddled' \subseteq Row, doubled' \in BOOLEAN,
           \* if the slot q goes on, it goes on to mark this row as approved
           c # None =>
               /\ q \in Slot /\ c.op = "mark" /\ c.decision = "APPROVED"
               /\ c.row = r /\ c.payload \in Proper
               /\ ~c.outdated /\ record.life # "purged" =>
                      Waits(record) /\ x = record.payload,
           \* and it was marking no other
           q \in Slot /\ InFlight(q, "mark") => request[q].row = r,
           \* what becomes of the row r
           record.life # "purged" /\ r \notin muddled' /\ c = None =>
               \/ MarkedBut(q, r)
               \/ x = IF record.status = "APPROVED" THEN record.payload ELSE None,
           \* what waits
           doubled' = FALSE => doubled = FALSE,
           doubled' = FALSE /\ Waits(record) => Waiting \subseteq {r}
    PROVE  ProfilesInv'
<1> USE ProfilesAssumption
<1>1. /\ request' \in [Slot -> Request \cup {None}]
      /\ OthersInv(q)'
      /\ \A p \in Slot \ {q} :
             /\ (request'[p] = None) = (request[p] = None)
             /\ request[p] # None => /\ request'[p].op = request[p].op
                                     /\ request'[p].row = request[p].row
                                     /\ request'[p].decision = request[p].decision
  <2>0. ProfilesTypeOK /\ RoutesInv /\ \A s \in Row \ {r} : applied'[s] = applied[s]
    BY DEF ProfilesInv, ProfilesTypeOK
  <2>1. row' \in [Row -> Record] /\ row \in [Row -> Record]
        /\ \A s \in Row : row'[s] = IF s = r THEN record ELSE row[s]
    BY <2>0 DEF ProfilesTypeOK
  <2>2. ASSUME NEW p \in Slot, p # q
        PROVE  request'[p] = IF request[p] = None THEN None
                             ELSE Outdated(request[p], r, record, effect)
    BY <2>2 DEF Touch
  <2>3. \A p \in Slot : request[p] \in Request \cup {None}
    BY <2>0 DEF ProfilesTypeOK
  <2>4. \A p \in Slot : p # q => request'[p] \in Request \cup {None}
    BY <2>2, <2>3, OutdatedTyped
  <2>5. \A p \in Slot : p = q => request'[p] = c
    BY DEF Touch
  <2>6. request' \in [Slot -> Request \cup {None}]
    BY <2>4, <2>5 DEF Touch
  <2>7. ASSUME NEW p \in Slot, p # q
        PROVE  /\ (request'[p] = None) = (request[p] = None)
               /\ request[p] # None =>
                     /\ request'[p].op = request[p].op /\ request'[p].row = request[p].row
                     /\ request'[p].payload = request[p].payload
                     /\ request'[p].decision = request[p].decision
                     /\ ~request'[p].outdated =>
                           /\ ~request[p].outdated /\ request[p].row # r
                           /\ request[p].op \in {"create", "restore"} => ~Waits(record)
    BY <2>2, <2>3, <2>7, OutdatedTyped
  <2>8. ASSUME NEW p \in Slot, p # q, request'[p] # None
        PROVE  RouteInv(p)'
    <3> DEFINE d == request[p]
    <3>1. RouteHolds(d) /\ (~d.outdated => StillHolds(d)) /\ d # None
      BY <2>0, <2>7, <2>8 DEF RoutesInv, RouteInv
    <3>2. RouteHolds(request[p])'
      BY <2>1, <2>7, <2>8, <3>1 DEF RouteHolds
    <3>3. ASSUME ~request'[p].outdated PROVE StillHolds(request[p])'
      <4>1. d.row # r /\ StillHolds(d) /\ ~d.outdated
            /\ (d.op \in {"create", "restore"} => ~Waits(record))
        BY <2>7, <2>8, <3>1, <3>3
      <4>2. d.op \in {"create", "restore"} => Waiting' \subseteq Waiting
        BY <2>1, <4>1 DEF Waiting, Waits
      <4>3. d.op \in {"overwrite", "apply", "mark"} =>
                row'[d.row] = row[d.row] /\ applied'[d.row] = applied[d.row]
        BY <2>0, <2>1, <3>1, <4>1 DEF RouteHolds
      <4> QED
        BY <2>7, <2>8, <4>1, <4>2, <4>3 DEF StillHolds, Exists, Waits
    <3> QED
      BY <3>2, <3>3 DEF RouteInv
  <2>9. OthersInv(q)'
    BY <2>8 DEF OthersInv, RouteInv
  <2> QED
    BY <2>6, <2>7, <2>9
<1>2. /\ row' \in [Row -> Record] /\ applied' \in [Row -> Payload \cup {None}]
      /\ \A s \in Row : row'[s] = IF s = r THEN record ELSE row[s]
      /\ \A s \in Row : applied'[s] = IF s = r THEN x ELSE applied[s]
  <2>1. row \in [Row -> Record] /\ applied \in [Row -> Payload \cup {None}]
    BY DEF ProfilesInv, ProfilesTypeOK
  <2> QED
    BY <2>1
<1>3. record.payload \in Payload
  BY DEF Proper
<1>4. ProfilesTypeOK'
  BY <1>1, <1>2, <1>3 DEF ProfilesInv, ProfilesTypeOK
<1>5. \A s \in Row : RowHolds(s)'
  BY <1>2 DEF ProfilesInv, RowHolds
<1>6. RoutesInv'
  <2>1. \A p \in Slot : p = q => request'[p] = c
    BY DEF Touch
  <2>2. ASSUME NEW p \in Slot, p = q, request'[p] # None
        PROVE  RouteInv(p)'
    <3>1. request'[p] = c /\ c # None
      BY <2>1, <2>2
    <3>2. row'[r] = record /\ applied'[r] = x /\ record.life \in {"live", "trashed", "purged"}
      BY <1>2 DEF Record
    <3> QED
      BY <3>1, <3>2 DEF RouteInv, RouteHolds, StillHolds, Exists
  <2> QED
    BY <1>1, <2>2 DEF RoutesInv, OthersInv, RouteInv
<1>7. OnePendingRequest'
  <2>1. ~doubled' => doubled' = FALSE /\ ~doubled
    BY DEF ProfilesInv, ProfilesTypeOK
  <2> QED
    BY <1>2, <2>1 DEF ProfilesInv, OnePendingRequest, Waiting
<1>8. DecisionsHold'
  <2> SUFFICES ASSUME NEW s \in Row, Exists(s)', s \notin muddled', ~BeingMarked(s)'
               PROVE  applied'[s] = IF row'[s].status = "APPROVED" THEN row'[s].payload ELSE None
    BY DEF DecisionsHold
  <2>1. CASE s = r
    <3>1. record.life # "purged"
      BY <1>2, <2>1 DEF Exists
    <3>2. ASSUME NEW p \in Slot, p # q, InFlight(p, "mark"), request[p].row = r,
                 request[p].decision = "APPROVED"
          PROVE  FALSE
      BY <1>1, <2>1, <3>2 DEF BeingMarked, InFlight
    <3>3. c = None
      <4> SUFFICES ASSUME c # None PROVE FALSE
        OBVIOUS
      <4>1. q \in Slot => request'[q] = c
        BY DEF Touch
      <4> QED
        BY <2>1, <4>1 DEF BeingMarked, InFlight
    <3> QED
      BY <1>2, <2>1, <3>1, <3>2, <3>3 DEF MarkedBut
  <2>2. CASE s # r
    <3>1. Exists(s) /\ s \notin muddled
      BY <1>2, <2>2 DEF Exists
    <3>2. ~BeingMarked(s)
      <4> SUFFICES ASSUME NEW p \in Slot, InFlight(p, "mark"), request[p].row = s,
                          request[p].decision = "APPROVED"
                   PROVE  FALSE
        BY DEF BeingMarked
      <4>1. p # q
        BY <2>2
      <4>2. request'[p] # None /\ request'[p].op = "mark" /\ request'[p].row = s
            /\ request'[p].decision = "APPROVED"
        BY <1>1, <4>1 DEF InFlight
      <4> QED
        BY <4>2 DEF BeingMarked, InFlight
    <3> QED
      BY <1>2, <2>2, <3>1, <3>2 DEF ProfilesInv, DecisionsHold
  <2> QED
    BY <2>1, <2>2
<1> QED
  BY <1>4, <1>5, <1>6, <1>7, <1>8 DEF ProfilesInv

\* A route starts, goes on or ends without writing a row.
LEMMA SlotKeeps ==
    ASSUME ProfilesInv, NEW q \in Slot, NEW c \in Request \cup {None},
           request' = [request EXCEPT ![q] = c], UNCHANGED <<row, applied, doubled>>,
           profile' \in [Field -> Value], profile'[Name] # Blank,
           owner' \in {"live", "trashed", "purged"},
           muddled \subseteq muddled', muddled' \subseteq Row,
           c # None => RouteHolds(c) /\ (~c.outdated => StillHolds(c)),
           InFlight(q, "mark") /\ request[q].decision = "APPROVED" =>
               request[q].row \in muddled'
    PROVE  ProfilesInv'
<1>1. /\ request' \in [Slot -> Request \cup {None}]
      /\ \A p \in Slot : request'[p] = IF p = q THEN c ELSE request[p]
  BY DEF ProfilesInv, ProfilesTypeOK
<1>2. ProfilesTypeOK'
  BY <1>1 DEF ProfilesInv, ProfilesTypeOK
<1>3. \A r \in Row : RowHolds(r)'
  BY DEF ProfilesInv, RowHolds
<1>4. RoutesInv'
  BY <1>1 DEF ProfilesInv, RoutesInv, RouteInv, RouteHolds, StillHolds, Exists, Waiting
<1>5. OnePendingRequest'
  BY DEF ProfilesInv, OnePendingRequest, Waiting
<1>6. DecisionsHold'
  <2> SUFFICES ASSUME NEW s \in Row, Exists(s)', s \notin muddled', ~BeingMarked(s)'
               PROVE  applied'[s] = IF row'[s].status = "APPROVED" THEN row'[s].payload ELSE None
    BY DEF DecisionsHold
  <2>1. Exists(s) /\ s \notin muddled
    BY DEF Exists
  <2>2. ~BeingMarked(s)
    BY <1>1 DEF BeingMarked, InFlight
  <2> QED
    BY <2>1, <2>2 DEF ProfilesInv, DecisionsHold
<1> QED
  BY <1>2, <1>3, <1>4, <1>5, <1>6 DEF ProfilesInv

-----------------------------------------------------------------------------
(* Each action keeps the invariant                                         *)

\* A route in flight, and the row it is about.
LEMMA RouteFacts ==
    ASSUME ProfilesInv, NEW q \in Slot, request[q] # None
    PROVE  /\ request[q] \in Request /\ RouteHolds(request[q]) /\ request[q].payload \in Payload
           /\ ~request[q].outdated => StillHolds(request[q])
           /\ request[q].op \in {"overwrite", "apply", "mark", "restore"} =>
                  /\ request[q].row \in Row /\ row[request[q].row] \in Record
                  /\ row[request[q].row].life # "none"
                  /\ row[request[q].row].payload \in Proper
                  /\ applied[request[q].row] \in Payload \cup {None}
<1>1. request[q] \in Request /\ RouteHolds(request[q])
      /\ (~request[q].outdated => StillHolds(request[q]))
  BY DEF ProfilesInv, ProfilesTypeOK, RoutesInv, RouteInv
<1>2. request[q].payload \in Payload
  BY <1>1 DEF RouteHolds, Proper
<1> QED
  BY <1>1, <1>2 DEF ProfilesInv, ProfilesTypeOK, RouteHolds, RowHolds

\* A submission reads the profile; nothing of it rests on a row yet.  (submitProfileChange)
LEMMA SubmitReads ==
    ASSUME ProfilesInv, NEW q \in Slot, NEW body \in Payload, NEW privileged \in BOOLEAN,
           ReadForSubmit(q, body, privileged)
    PROVE  ProfilesInv'
<1> DEFINE c == [op |-> IF privileged THEN "write" ELSE "find", row |-> None,
                 payload |-> Difference(body), decision |-> "PENDING",
                 outdated |-> FALSE, broken |-> FALSE]
<1>1. Difference(body) \in Proper
  BY DifferenceProper DEF ReadForSubmit
<1>2. c \in Request
  BY <1>1 DEF Request, Ops, Status, Proper
<1>3. RouteHolds(c) /\ StillHolds(c)
  BY <1>1 DEF RouteHolds, StillHolds
<1>4. /\ request' = [request EXCEPT ![q] = c] /\ request[q] = None
      /\ UNCHANGED <<profile, owner, row, applied, muddled, doubled>>
  BY DEF ReadForSubmit, Start, history
<1> HIDE DEF c
<1> QED
  BY <1>2, <1>3, <1>4, SlotKeeps DEF ProfilesInv, ProfilesTypeOK, InFlight

\* The UPDATE of an administrator's own profile, whose row comes later.  (submitProfileChange)
LEMMA OwnWritten ==
    ASSUME ProfilesInv, NEW q \in Slot, WriteOwn(q)
    PROVE  ProfilesInv'
<1> DEFINE c == [request[q] EXCEPT !.op = "log"]
<1>1. request[q] # None /\ request[q].op = "write"
  BY DEF WriteOwn, InFlight
<1>2. request[q] \in Request /\ RouteHolds(request[q])
  BY <1>1, RouteFacts
<1>3. c \in Request /\ RouteHolds(c) /\ StillHolds(c)
  BY <1>2 DEF Request, Ops, RouteHolds, StillHolds
<1>4. /\ request' = [request EXCEPT ![q] = c]
      /\ profile' = Updated(request[q].payload)
      /\ UNCHANGED <<owner, row, applied, muddled, doubled>>
  BY DEF WriteOwn, history
<1>5. profile' \in [Field -> Value] /\ profile'[Name] # Blank
  BY <1>2, <1>4, UpdatedTyped DEF ProfilesInv, RouteHolds
<1> HIDE DEF c
<1> QED
  BY <1>1, <1>3, <1>4, <1>5, SlotKeeps DEF ProfilesInv, ProfilesTypeOK, InFlight

\* The search finds the request that waits, or that none does.  (submitProfileChange)
LEMMA PendingFound ==
    ASSUME ProfilesInv, NEW q \in Slot, FindPending(q)
    PROVE  ProfilesInv'
<1>1. request[q] # None /\ request[q].op = "find"
  BY DEF FindPending, InFlight
<1>2. request[q] \in Request /\ RouteHolds(request[q])
  BY <1>1, RouteFacts
<1>3. UNCHANGED <<profile, owner, row, applied, muddled, doubled>>
  BY DEF FindPending, history
<1>4. ASSUME NEW r \in Row, IsPending(r),
             request' = [request EXCEPT ![q].op = "overwrite", ![q].row = r]
      PROVE  ProfilesInv'
  <2> DEFINE c == [request[q] EXCEPT !.op = "overwrite", !.row = r]
  <2>1. c \in Request /\ RouteHolds(c) /\ StillHolds(c)
    BY <1>2, <1>4 DEF Request, Ops, RouteHolds, StillHolds, IsPending, Waits
  <2>2. request' = [request EXCEPT ![q] = c]
    BY <1>4 DEF ProfilesInv, ProfilesTypeOK
  <2> HIDE DEF c
  <2> QED
    BY <1>1, <1>3, <2>1, <2>2, SlotKeeps DEF ProfilesInv, ProfilesTypeOK, InFlight
<1>5. ASSUME \A r \in Row : ~IsPending(r), request' = [request EXCEPT ![q].op = "create"]
      PROVE  ProfilesInv'
  <2> DEFINE c == [request[q] EXCEPT !.op = "create"]
  <2>1. c \in Request /\ RouteHolds(c) /\ StillHolds(c)
    BY <1>2, <1>5 DEF Request, Ops, RouteHolds, StillHolds, IsPending, Waiting
  <2>2. request' = [request EXCEPT ![q] = c]
    BY <1>5
  <2> HIDE DEF c
  <2> QED
    BY <1>1, <1>3, <2>1, <2>2, SlotKeeps DEF ProfilesInv, ProfilesTypeOK, InFlight
<1> QED
  BY <1>4, <1>5 DEF FindPending

\* A review starts from a row that waits.  (reviewProfileRequest)
LEMMA ReviewReads ==
    ASSUME ProfilesInv, NEW q \in Slot, NEW r \in Row, NEW decision \in {"APPROVED", "REJECTED"},
           ReadForReview(q, r, decision)
    PROVE  ProfilesInv'
<1> DEFINE c == [op |-> IF decision = "APPROVED" THEN "apply" ELSE "mark", row |-> r,
                 payload |-> row[r].payload, decision |-> decision,
                 outdated |-> FALSE, broken |-> FALSE]
<1>1. Waits(row[r]) /\ row[r].payload \in Proper
  BY DEF ReadForReview, MayReview, Waits, ProfilesInv, RowHolds
<1>2. c \in Request
  BY <1>1 DEF Request, Ops, Status, Proper
<1>3. RouteHolds(c) /\ StillHolds(c)
  BY <1>1 DEF RouteHolds, StillHolds, Waits
<1>4. /\ request' = [request EXCEPT ![q] = c] /\ request[q] = None
      /\ UNCHANGED <<profile, owner, row, applied, muddled, doubled>>
  BY DEF ReadForReview, Start, history
<1> HIDE DEF c
<1> QED
  BY <1>2, <1>3, <1>4, SlotKeeps DEF ProfilesInv, ProfilesTypeOK, InFlight

\* A restoration of a waiting request starts when no other waits.  (restore)
LEMMA RestoreReads ==
    ASSUME ProfilesInv, NEW q \in Slot, NEW r \in Row, ReadForRestore(q, r)
    PROVE  ProfilesInv'
<1> DEFINE c == [op |-> "restore", row |-> r, payload |-> row[r].payload,
                 decision |-> row[r].status, outdated |-> FALSE, broken |-> FALSE]
<1>1. row[r] \in Record /\ row[r].life = "trashed" /\ row[r].payload \in Proper
  BY DEF ReadForRestore, ProfilesInv, ProfilesTypeOK, RowHolds
<1>2. c \in Request
  BY <1>1 DEF Request, Ops, Record, Proper
<1>3. RouteHolds(c) /\ StillHolds(c)
  BY <1>1 DEF RouteHolds, StillHolds, ReadForRestore, NoOtherPending
<1>4. /\ request' = [request EXCEPT ![q] = c] /\ request[q] = None
      /\ UNCHANGED <<profile, owner, row, applied, muddled, doubled>>
  BY DEF ReadForRestore, Start, history
<1> HIDE DEF c
<1> QED
  BY <1>2, <1>3, <1>4, SlotKeeps DEF ProfilesInv, ProfilesTypeOK, InFlight

\* A route that ends early leaves a decision half way, which is noted.
LEMMA RouteAbandoned ==
    ASSUME ProfilesInv, NEW q \in Slot, Abandon(q)
    PROVE  ProfilesInv'
<1>1. /\ request[q] # None /\ request' = [request EXCEPT ![q] = None]
      /\ UNCHANGED <<profile, owner, row, applied, doubled>>
      /\ muddled' = IF request[q].op = "mark" /\ request[q].decision = "APPROVED"
                    THEN muddled \cup {request[q].row} ELSE muddled
  BY DEF Abandon
<1>2. muddled \subseteq muddled' /\ muddled' \subseteq Row
  BY <1>1, RouteFacts DEF ProfilesInv, ProfilesTypeOK
<1> QED
  BY <1>1, <1>2, SlotKeeps DEF ProfilesInv, ProfilesTypeOK, InFlight

\* The row of a change that has been applied already.  (submitProfileChange)
LEMMA OwnLogged ==
    ASSUME ProfilesInv, NEW q \in Slot, NEW r \in Row, LogOwn(q, r)
    PROVE  ProfilesInv'
<1> DEFINE x == request[q].payload
           record == [life |-> "live", status |-> "APPROVED", payload |-> x]
<1>1. request[q] # None /\ request[q].op = "log" /\ row[r].life = "none"
  BY DEF LogOwn, InFlight
<1>2. x \in Proper /\ x \in Payload
  BY <1>1, RouteFacts DEF RouteHolds
<1>3. record \in Record /\ ~Waits(record)
  BY <1>2 DEF Record, Status, Waits
<1>4. /\ row' = [row EXCEPT ![r] = record] /\ applied' = [applied EXCEPT ![r] = x]
      /\ Touch(q, None, r, record, "written")
      /\ UNCHANGED <<profile, owner, muddled, doubled>>
  BY DEF LogOwn, WriteRow
<1>5. record.life = "live" /\ record.status = "APPROVED" /\ record.payload = x
  OBVIOUS
<1> HIDE DEF record, x
<1> QED
  BY <1>1, <1>2, <1>3, <1>4, <1>5, TouchKeeps, NamedEffects DEF ProfilesInv, ProfilesTypeOK, InFlight

\* The request that was found is overwritten by id.  (submitProfileChange)
LEMMA PendingOverwritten ==
    ASSUME ProfilesInv, NEW q \in Slot, Overwrite(q)
    PROVE  ProfilesInv'
<1> DEFINE c == request[q]
           r == c.row
           record == [row[r] EXCEPT !.payload = c.payload]
           x == applied[r]
<1>1. c # None /\ c.op = "overwrite" /\ Exists(r)
  BY DEF Overwrite, InFlight
<1>2. /\ c \in Request /\ RouteHolds(c) /\ (~c.outdated => StillHolds(c))
      /\ r \in Row /\ row[r] \in Record /\ c.payload \in Payload
      /\ x \in Payload \cup {None}
  BY <1>1, RouteFacts
<1>3. /\ record \in Record /\ record.life = row[r].life /\ record.status = row[r].status
      /\ record.payload = c.payload /\ record.payload \in Proper
  BY <1>2 DEF Record, RouteHolds
<1>4. /\ row' = [row EXCEPT ![r] = record] /\ Touch(q, None, r, record, "written")
      /\ muddled' = IF c.outdated THEN muddled \cup {r} ELSE muddled
      /\ UNCHANGED <<profile, owner, applied, doubled>>
  BY DEF Overwrite, WriteRow
<1>5. applied' = [applied EXCEPT ![r] = x]
  BY <1>2, <1>4 DEF ProfilesInv, ProfilesTypeOK
<1>6. r \notin muddled' => r \notin muddled /\ ~c.outdated
  BY <1>4
<1>7. r \notin muddled' => MarkedBut(q, r) \/ (x = None /\ record.status = "PENDING")
  <2> SUFFICES ASSUME r \notin muddled' PROVE MarkedBut(q, r) \/ (x = None /\ record.status = "PENDING")
    OBVIOUS
  <2>1. row[r].status = "PENDING"
    BY <1>1, <1>2, <1>6 DEF StillHolds, Waits
  <2>2. BeingMarked(r) => MarkedBut(q, r)
    BY <1>1 DEF BeingMarked, MarkedBut, InFlight
  <2>3. ~BeingMarked(r) => x = None
    BY <1>1, <1>2, <1>6, <2>1 DEF ProfilesInv, DecisionsHold
  <2> QED
    BY <1>3, <2>1, <2>2, <2>3
<1>8. Waits(record) /\ ~doubled => Waiting \subseteq {r}
  BY <1>2, <1>3 DEF Waits, Waiting, ProfilesInv, OnePendingRequest
<1>9. /\ row[r].life # "none"
      /\ profile' \in [Field -> Value] /\ profile'[Name] # Blank
      /\ muddled \subseteq muddled' /\ muddled' \subseteq Row /\ doubled' \in BOOLEAN
      /\ ~InFlight(q, "mark")
  BY <1>1, <1>2, <1>4 DEF ProfilesInv, ProfilesTypeOK, Exists, InFlight
<1> HIDE DEF record, x, r, c
<1> QED
  BY <1>2, <1>3, <1>4, <1>5, <1>7, <1>8, <1>9, TouchKeeps, NamedEffects

\* A request is created when none was found.  (submitProfileChange)
LEMMA RequestCreated ==
    ASSUME ProfilesInv, NEW q \in Slot, NEW r \in Row, Create(q, r)
    PROVE  ProfilesInv'
<1> DEFINE c == request[q]
           record == [life |-> "live", status |-> "PENDING", payload |-> c.payload]
<1>1. c # None /\ c.op = "create" /\ row[r].life = "none"
  BY DEF Create, InFlight
<1>2. /\ c \in Request /\ c.payload \in Proper /\ c.payload \in Payload
      /\ ~c.outdated => Waiting = {}
  BY <1>1, RouteFacts DEF RouteHolds, StillHolds
<1>3. record \in Record
  BY <1>2 DEF Record, Status
<1>4. /\ row' = [row EXCEPT ![r] = record] /\ Touch(q, None, r, record, "written")
      /\ doubled' = (doubled \/ c.outdated)
      /\ UNCHANGED <<profile, owner, applied, muddled>>
  BY DEF Create, WriteRow
<1>5. applied[r] = None /\ applied' = [applied EXCEPT ![r] = None]
  BY <1>1, <1>4 DEF ProfilesInv, ProfilesTypeOK, RowHolds
<1>6. record.life = "live" /\ record.status = "PENDING" /\ record.payload = c.payload
  OBVIOUS
<1>7. /\ profile' \in [Field -> Value] /\ profile'[Name] # Blank
      /\ muddled \subseteq muddled' /\ muddled' \subseteq Row /\ doubled' \in BOOLEAN
      /\ ~InFlight(q, "mark")
  BY <1>1, <1>2, <1>4 DEF ProfilesInv, ProfilesTypeOK, InFlight, Request
<1>8. doubled' = FALSE => doubled = FALSE /\ Waiting \subseteq {r}
  BY <1>2, <1>4 DEF ProfilesInv, ProfilesTypeOK
<1> HIDE DEF record, c
<1> QED
  <2>1. applied' = [applied EXCEPT ![r] = None]
    BY <1>5
  <2>2. record.life # "none" /\ record.payload \in Proper
    BY <1>2, <1>6
  <2>3. row[r].life # "none" /\ row[r].status # "PENDING" => record.status # "PENDING"
    BY <1>1
  <2>4. UNCHANGED owner
    BY <1>4
  <2>5. q \in Slot /\ InFlight(q, "mark") => request[q].row = r
    BY <1>7
  <2>6. None = (IF record.status = "APPROVED" THEN record.payload ELSE None)
    BY <1>6
  <2>7. doubled' = FALSE => doubled = FALSE
    BY <1>8
  <2>8. doubled' = FALSE /\ Waits(record) => Waiting \subseteq {r}
    BY <1>8
  <2> QED
    BY <1>3, <1>4, <1>7, <2>1, <2>2, <2>3, <2>4, <2>5, <2>6, <2>7, <2>8, TouchKeeps, NamedEffects

\* The approved payload goes to the profile, before the row is marked.
\* (reviewProfileRequest)
LEMMA ReviewApplied ==
    ASSUME ProfilesInv, NEW q \in Slot, ApplyReview(q)
    PROVE  ProfilesInv'
<1> DEFINE c == request[q]
           r == c.row
           d == [c EXCEPT !.op = "mark"]
           record == row[r]
           x == c.payload
<1>1. c # None /\ c.op = "apply"
  BY DEF ApplyReview, InFlight
<1>2. /\ c \in Request /\ RouteHolds(c) /\ (~c.outdated => StillHolds(c))
      /\ r \in Row /\ record \in Record /\ record.life # "none" /\ record.payload \in Proper
      /\ x \in Payload /\ x \in Proper
  BY <1>1, RouteFacts DEF RouteHolds
<1>3. /\ d \in Request /\ d.op = "mark" /\ d.decision = "APPROVED" /\ d.row = r
      /\ d.payload \in Proper /\ d.outdated = c.outdated /\ d # None
  BY <1>1, <1>2, ProfilesAssumption DEF Request, Ops, RouteHolds
<1>4. /\ profile' = Updated(x) /\ Touch(q, d, r, record, "untouched")
      /\ applied' = [applied EXCEPT ![r] = x]
      /\ muddled' = IF c.outdated THEN muddled \cup {r} ELSE muddled
      /\ UNCHANGED <<owner, row, doubled>>
  BY DEF ApplyReview
<1>5. row' = [row EXCEPT ![r] = record]
  BY <1>2, <1>4 DEF ProfilesInv, ProfilesTypeOK
<1>6. ~c.outdated /\ record.life # "purged" => Waits(record) /\ x = record.payload
  BY <1>1, <1>2 DEF StillHolds, Exists, Record
<1>7. Waits(record) /\ ~doubled => Waiting \subseteq {r}
  BY <1>2 DEF Waiting, ProfilesInv, OnePendingRequest
<1>8. /\ profile' \in [Field -> Value] /\ profile'[Name] # Blank
      /\ muddled \subseteq muddled' /\ muddled' \subseteq Row /\ doubled' \in BOOLEAN
      /\ ~InFlight(q, "mark")
  BY <1>1, <1>2, <1>4, UpdatedTyped DEF ProfilesInv, ProfilesTypeOK, InFlight
<1>9. record = row[r] /\ (doubled' = FALSE => doubled = FALSE)
  BY <1>4
<1> HIDE DEF record, x, d, r, c
<1> QED
  BY <1>2, <1>3, <1>4, <1>5, <1>6, <1>7, <1>8, <1>9, TouchKeeps, NamedEffects

\* The row gets its decision, by id.  (reviewProfileRequest)
LEMMA ReviewMarked ==
    ASSUME ProfilesInv, NEW q \in Slot, MarkReview(q)
    PROVE  ProfilesInv'
<1> DEFINE c == request[q]
           r == c.row
           record == [row[r] EXCEPT !.status = c.decision]
           x == applied[r]
<1>1. c # None /\ c.op = "mark" /\ Exists(r)
  BY DEF MarkReview, InFlight
<1>2. /\ c \in Request /\ RouteHolds(c) /\ (~c.outdated => StillHolds(c))
      /\ r \in Row /\ row[r] \in Record /\ row[r].payload \in Proper
      /\ c.decision \in Status \ {"PENDING"} /\ x \in Payload \cup {None}
  BY <1>1, RouteFacts DEF RouteHolds, Request
<1>3. /\ record \in Record /\ record.life = row[r].life /\ record.status = c.decision
      /\ record.payload = row[r].payload /\ ~Waits(record)
  BY <1>2 DEF Record, Waits
<1>4. /\ row' = [row EXCEPT ![r] = record] /\ Touch(q, None, r, record, "written")
      /\ muddled' = IF c.outdated THEN muddled \cup {r} ELSE muddled
      /\ UNCHANGED <<profile, owner, applied, doubled>>
  BY DEF MarkReview, WriteRow
<1>5. applied' = [applied EXCEPT ![r] = x]
  BY <1>2, <1>4 DEF ProfilesInv, ProfilesTypeOK
<1>6. r \notin muddled' => r \notin muddled /\ ~c.outdated
  BY <1>4
<1>7. r \notin muddled' => \/ MarkedBut(q, r)
                           \/ x = IF c.decision = "APPROVED" THEN record.payload ELSE None
  <2> SUFFICES ASSUME r \notin muddled', ~MarkedBut(q, r)
               PROVE  x = IF c.decision = "APPROVED" THEN record.payload ELSE None
    OBVIOUS
  <2>1. CASE c.decision = "APPROVED"
    BY <1>1, <1>2, <1>3, <1>6, <2>1 DEF StillHolds
  <2>2. CASE c.decision # "APPROVED"
    <3>1. row[r].status = "PENDING"
      BY <1>1, <1>2, <1>6 DEF StillHolds, Waits
    <3>2. ~BeingMarked(r)
      BY <2>2 DEF BeingMarked, MarkedBut
    <3> QED
      BY <1>1, <1>2, <1>6, <2>2, <3>1, <3>2 DEF ProfilesInv, DecisionsHold
  <2> QED
    BY <2>1, <2>2
<1>8. /\ row[r].life # "none" /\ c.decision # "PENDING"
      /\ profile' \in [Field -> Value] /\ profile'[Name] # Blank
      /\ muddled \subseteq muddled' /\ muddled' \subseteq Row /\ doubled' \in BOOLEAN
  BY <1>1, <1>2, <1>4 DEF ProfilesInv, ProfilesTypeOK, Exists
<1>9. request[q].row = r
  OBVIOUS
<1> HIDE DEF record, x, r, c
<1> QED
  BY <1>2, <1>3, <1>4, <1>5, <1>7, <1>8, <1>9, TouchKeeps, NamedEffects

\* The trash, and a restoration, change the life of a row and nothing else of it.
LEMMA LifeChanged ==
    ASSUME ProfilesInv, NEW q, NEW r \in Row, NEW life \in {"live", "trashed", "purged"},
           NEW effect \in Effects,
           life # "purged" => Exists(r), row[r].life # "none",
           row' = [row EXCEPT ![r] = [row[r] EXCEPT !.life = life]],
           Touch(q, None, r, [row[r] EXCEPT !.life = life], effect),
           UNCHANGED <<profile, owner, applied, muddled>>, doubled' \in BOOLEAN,
           q \in Slot => ~InFlight(q, "mark"),
           doubled' = FALSE => doubled = FALSE,
           doubled' = FALSE /\ life = "live" /\ row[r].status = "PENDING" => Waiting \subseteq {r}
    PROVE  ProfilesInv'
<1> DEFINE record == [row[r] EXCEPT !.life = life]
           x == applied[r]
<1>1. row[r] \in Record /\ row[r].payload \in Proper /\ x \in Payload \cup {None}
  BY DEF ProfilesInv, ProfilesTypeOK, RowHolds
<1>2. /\ record \in Record /\ record.life = life /\ record.status = row[r].status
      /\ record.payload = row[r].payload /\ record.payload \in Proper
      /\ Waits(record) => life = "live" /\ row[r].status = "PENDING"
  BY <1>1 DEF Record, Waits
<1>3. /\ row' = [row EXCEPT ![r] = record] /\ Touch(q, None, r, record, effect)
      /\ applied' = [applied EXCEPT ![r] = x]
  BY DEF ProfilesInv, ProfilesTypeOK
<1>4. life # "purged" /\ r \notin muddled' =>
          \/ MarkedBut(q, r)
          \/ x = IF record.status = "APPROVED" THEN record.payload ELSE None
  <2>1. BeingMarked(r) => MarkedBut(q, r)
    BY DEF BeingMarked, MarkedBut
  <2>2. life # "purged" /\ r \notin muddled /\ ~BeingMarked(r) =>
            x = IF row[r].status = "APPROVED" THEN row[r].payload ELSE None
    BY DEF ProfilesInv, DecisionsHold
  <2> QED
    BY <1>2, <2>1, <2>2
<1>5. /\ profile' \in [Field -> Value] /\ profile'[Name] # Blank
      /\ muddled \subseteq muddled' /\ muddled' \subseteq Row
      /\ owner' = owner
  BY DEF ProfilesInv, ProfilesTypeOK
<1>6. doubled' = FALSE /\ Waits(record) => Waiting \subseteq {r}
  BY <1>2
<1>7. record.life # "none"
  BY <1>2
<1>8. row[r].life # "none" /\ row[r].status # "PENDING" => record.status # "PENDING"
  BY <1>2
<1>9. record.life # "purged" /\ r \notin muddled' =>
          \/ MarkedBut(q, r)
          \/ x = IF record.status = "APPROVED" THEN record.payload ELSE None
  BY <1>2, <1>4
<1> HIDE DEF record, x
<1> QED
  <2>1. record \in Record /\ record.payload \in Proper
    BY <1>2
  <2>2. owner' = owner
    BY <1>5
  <2>3. q \in Slot /\ InFlight(q, "mark") => request[q].row = r
    OBVIOUS
  <2> QED
    BY <1>1, <1>3, <1>5, <1>6, <1>7, <1>8, <1>9, <2>1, <2>2, <2>3, TouchKeeps

\* One row goes to the trash, or for good.  (trash, purge)
LEMMA TrashedByHand ==
    ASSUME ProfilesInv, NEW r \in Row, Trash(r) \/ Purge(r)
    PROVE  ProfilesInv'
<1>1. PICK life \in {"trashed", "purged"} : /\ Exists(r)
                                            /\ WriteByTrash(r, life)
  BY DEF Trash, Purge, Exists
<1>2. /\ row' = [row EXCEPT ![r] = [row[r] EXCEPT !.life = life]]
      /\ Touch(None, None, r, [row[r] EXCEPT !.life = life], "written")
      /\ UNCHANGED <<profile, owner, applied, muddled>> /\ doubled' = doubled
  BY <1>1 DEF WriteByTrash, WriteRow, history
<1>3. life \in {"live", "trashed", "purged"} /\ life # "live" /\ row[r].life # "none"
      /\ doubled' \in BOOLEAN /\ None \notin Slot
  BY <1>1, <1>2, ProfilesAssumption DEF Exists, ProfilesInv, ProfilesTypeOK
<1> QED
  BY <1>1, <1>2, <1>3, LifeChanged, NamedEffects

\* A row comes back from the trash.  (restore)
LEMMA RestoreCommitted ==
    ASSUME ProfilesInv, NEW q \in Slot, CommitRestore(q)
    PROVE  ProfilesInv'
<1> DEFINE c == request[q]
           r == c.row
<1>1. c # None /\ c.op = "restore" /\ row[r].life = "trashed"
  BY DEF CommitRestore, InFlight
<1>2. /\ c \in Request /\ RouteHolds(c) /\ (~c.outdated => StillHolds(c))
      /\ r \in Row /\ row[r] \in Record
  BY <1>1, RouteFacts
<1>3. /\ row' = [row EXCEPT ![r] = [row[r] EXCEPT !.life = "live"]]
      /\ Touch(q, None, r, [row[r] EXCEPT !.life = "live"], "restored")
      /\ doubled' = (doubled \/ (c.outdated /\ c.decision = "PENDING"))
      /\ UNCHANGED <<profile, owner, applied, muddled>>
  BY DEF CommitRestore, WriteRow
<1>4. doubled' = FALSE => doubled = FALSE /\ ~(c.outdated /\ c.decision = "PENDING")
  BY <1>3 DEF ProfilesInv, ProfilesTypeOK
<1>5. doubled' = FALSE /\ row[r].status = "PENDING" => Waiting \subseteq {r}
  <2>1. row[r].status = "PENDING" => c.decision = "PENDING"
    BY <1>1, <1>2 DEF RouteHolds
  <2> QED
    BY <1>1, <1>2, <1>4, <2>1 DEF StillHolds
<1>6. Exists(r) /\ row[r].life # "none" /\ doubled' \in BOOLEAN /\ ~InFlight(q, "mark")
  BY <1>1, <1>3 DEF Exists, InFlight
<1> HIDE DEF r, c
<1> QED
  BY <1>2, <1>3, <1>4, <1>5, <1>6, LifeChanged, NamedEffects

\* The member himself goes to the trash and comes back.  (trash, restore)
LEMMA OwnerMoved ==
    ASSUME ProfilesInv, TrashOwner \/ RestoreOwner
    PROVE  ProfilesInv'
<1>1. owner' \in {"live", "trashed", "purged"} /\ UNCHANGED <<profile, row, request, history>>
  BY DEF TrashOwner, RestoreOwner
<1>2. ProfilesTypeOK'
  BY <1>1 DEF ProfilesInv, ProfilesTypeOK, history
<1> QED
  BY <1>1, <1>2 DEF ProfilesInv, RowHolds, RoutesInv, RouteInv, RouteHolds, StillHolds, Exists,
     Waiting, OnePendingRequest, DecisionsHold, BeingMarked, InFlight, history

\* Purging the account takes rows away from under the routes: nothing they rely on
\* is about a row that is gone.  (ON DELETE CASCADE)
LEMMA OwnerPurged ==
    ASSUME ProfilesInv, PurgeOwner
    PROVE  ProfilesInv'
<1>1. /\ owner' = "purged" /\ UNCHANGED <<profile, request, applied, muddled, doubled>>
      /\ row' = [r \in Row |-> IF Exists(r) THEN [row[r] EXCEPT !.life = "purged"] ELSE row[r]]
  BY DEF PurgeOwner, history
<1>2. ASSUME NEW r \in Row
      PROVE  /\ row'[r] \in Record
             /\ row'[r].payload = row[r].payload /\ row'[r].status = row[r].status
             /\ row'[r].life \in {"none", "purged"} /\ (row'[r].life = "none") = (row[r].life = "none")
  <2>1. row[r] \in Record /\ row'[r] = IF Exists(r) THEN [row[r] EXCEPT !.life = "purged"] ELSE row[r]
    BY <1>1 DEF ProfilesInv, ProfilesTypeOK
  <2> QED
    BY <2>1 DEF Exists, Record
<1>3. row' \in [Row -> Record]
  BY <1>1, <1>2
<1>4. ProfilesTypeOK'
  BY <1>1, <1>2, <1>3 DEF ProfilesInv, ProfilesTypeOK
<1>5. \A r \in Row : RowHolds(r)'
  BY <1>1, <1>2 DEF ProfilesInv, RowHolds
<1>6. Waiting' = {}
  BY <1>2 DEF Waiting, Waits
<1>7. ASSUME NEW q \in Slot PROVE RouteInv(q)'
  <2> SUFFICES ASSUME request[q] # None
               PROVE  /\ RouteHolds(request[q])'
                      /\ ~request[q].outdated => StillHolds(request[q])'
    BY <1>1 DEF RouteInv
  <2>1. RouteHolds(request[q]) /\ request'[q] = request[q]
    BY <1>1, RouteFacts
  <2>2. RouteHolds(request[q])'
    BY <1>2, <2>1 DEF RouteHolds
  <2>3. request[q].op \in {"overwrite", "apply", "mark"} => ~Exists(request[q].row)'
    BY <1>2, <2>1 DEF RouteHolds, Exists
  <2> QED
    BY <1>6, <2>1, <2>2, <2>3 DEF StillHolds
<1> QED
  BY <1>2, <1>4, <1>5, <1>6, <1>7 DEF ProfilesInv, RoutesInv, OnePendingRequest, DecisionsHold,
     Exists

\* Every step keeps the invariant.
LEMMA ProfilesStep == ProfilesInv /\ [Next]_vars => ProfilesInv'
<1> SUFFICES ASSUME ProfilesInv, [Next]_vars PROVE ProfilesInv'
  OBVIOUS
<1>1. ASSUME NEW q \in Slot, Submission(q) PROVE ProfilesInv'
  BY <1>1, SubmitReads, OwnWritten, PendingFound, PendingOverwritten, OwnLogged, RequestCreated
     DEF Submission
<1>2. ASSUME NEW q \in Slot, Review(q) PROVE ProfilesInv'
  BY <1>2, ReviewReads, ReviewApplied, ReviewMarked DEF Review
<1>3. ASSUME NEW q \in Slot,
             CommitRestore(q) \/ Abandon(q) \/ \E r \in Row : ReadForRestore(q, r)
      PROVE  ProfilesInv'
  BY <1>3, RestoreCommitted, RouteAbandoned, RestoreReads
<1>4. CASE TrashStep
  BY <1>4, TrashedByHand, OwnerMoved, OwnerPurged DEF TrashStep
<1>5. CASE UNCHANGED vars
  <2>1. ProfilesTypeOK'
    BY <1>5 DEF ProfilesInv, ProfilesTypeOK, vars, history
  <2> QED
    BY <1>5, <2>1 DEF ProfilesInv, RowHolds, RoutesInv, RouteInv, RouteHolds, StillHolds, Exists,
       Waiting, OnePendingRequest, DecisionsHold, BeingMarked, InFlight, vars, history
<1> QED
  BY <1>1, <1>2, <1>3, <1>4, <1>5 DEF Next

-----------------------------------------------------------------------------
(* Theorems                                                                *)

\* The invariant of the profile, its requests and the routes in flight.
THEOREM ProfilesInvariant == Spec => []ProfilesInv
<1>1. Init => ProfilesInv
  <2> SUFFICES ASSUME Init PROVE ProfilesInv
    OBVIOUS
  <2>1. ProfilesTypeOK
    BY DEF Init, ProfilesTypeOK, Record, Status
  <2>2. \A r \in Row : RowHolds(r) /\ ~Exists(r)
    BY DEF Init, RowHolds, Exists
  <2>3. RoutesInv
    BY DEF Init, RoutesInv, RouteInv
  <2>4. OnePendingRequest
    BY DEF Init, OnePendingRequest, Waiting, Waits
  <2> QED
    BY <2>1, <2>2, <2>3, <2>4 DEF ProfilesInv, DecisionsHold
<1> QED
  BY <1>1, ProfilesStep, PTL DEF Spec

\* The profile, the table and the routes keep their types: no step puts a blank
\* name in the profile.  (submitProfileChange, reviewProfileRequest)
THEOREM ProfilesTyped == Spec => []ProfilesTypeOK
<1>1. ProfilesInv => ProfilesTypeOK
  BY DEF ProfilesInv
<1> QED
  BY <1>1, ProfilesInvariant, PTL

\* At most one request waits, unless an outdated route made a second one.
\* (submitProfileChange, restore)
THEOREM OnePendingRequestAlways == Spec => []OnePendingRequest
<1>1. ProfilesInv => OnePendingRequest
  BY DEF ProfilesInv
<1> QED
  BY <1>1, ProfilesInvariant, PTL

\* What the table says was decided is what happened to the profile, apart from
\* requests that were muddled and those being marked.  (reviewProfileRequest)
THEOREM DecisionsHoldAlways == Spec => []DecisionsHold
<1>1. ProfilesInv => DecisionsHold
  BY DEF ProfilesInv
<1> QED
  BY <1>1, ProfilesInvariant, PTL

\* A submission that changes a row leaves it waiting, unless it was outdated.
\* (submitProfileChange)
THEOREM SubmissionWaitsAlways == Spec => SubmissionWaits
<1> DEFINE Kept == \A r \in Row : row[r].life # "none" /\ row'[r].payload # row[r].payload =>
                       Waits(row'[r]) \/ r \in muddled'
<1>1. ProfilesInv /\ [Next]_vars => [Kept]_vars
  <2> SUFFICES ASSUME ProfilesInv, Next, NEW s \in Row, row[s].life # "none",
                      row'[s].payload # row[s].payload
               PROVE  Waits(row'[s]) \/ s \in muddled'
    OBVIOUS
  <2> USE DEF ProfilesInv, ProfilesTypeOK
  <2>1. ASSUME NEW q \in Slot, NEW r \in Row, LogOwn(q, r) \/ Create(q, r) PROVE FALSE
    BY <2>1 DEF LogOwn, Create, WriteRow
  <2>2. ASSUME NEW q \in Slot, MarkReview(q) PROVE FALSE
    <3>1. request[q] # None /\ request[q].op = "mark"
      BY <2>2 DEF MarkReview, InFlight
    <3>2. request[q].row \in Row /\ row[request[q].row] \in Record
      BY <3>1, RouteFacts
    <3> QED
      BY <2>2, <3>2 DEF MarkReview, WriteRow, Record
  <2>3. ASSUME NEW q \in Slot, CommitRestore(q) PROVE FALSE
    <3>1. request[q] # None /\ request[q].op = "restore"
      BY <2>3 DEF CommitRestore, InFlight
    <3>2. request[q].row \in Row /\ row[request[q].row] \in Record
      BY <3>1, RouteFacts
    <3> QED
      BY <2>3, <3>2 DEF CommitRestore, WriteRow, Record
  <2>4. ASSUME TrashStep PROVE FALSE
    <3>1. row[s] \in Record
      OBVIOUS
    <3>2. \A life : [row[s] EXCEPT !.life = life].payload = row[s].payload
      BY <3>1 DEF Record
    <3>3. CASE \E r \in Row : Trash(r) \/ Purge(r)
      <4>1. PICK r \in Row, life \in {"trashed", "purged"} :
               row' = [row EXCEPT ![r] = [row[r] EXCEPT !.life = life]]
        BY <3>3 DEF Trash, Purge, WriteByTrash, WriteRow
      <4>2. row'[s] = IF s = r THEN [row[s] EXCEPT !.life = life] ELSE row[s]
        BY <4>1
      <4> QED
        BY <3>2, <4>2
    <3>4. CASE TrashOwner \/ RestoreOwner
      BY <3>4 DEF TrashOwner, RestoreOwner
    <3>5. CASE PurgeOwner
      <4>1. row'[s] = IF Exists(s) THEN [row[s] EXCEPT !.life = "purged"] ELSE row[s]
        BY <3>5 DEF PurgeOwner
      <4> QED
        BY <3>2, <4>1
    <3> QED
      BY <2>4, <3>3, <3>4, <3>5 DEF TrashStep
  <2>5. ASSUME NEW q \in Slot, Overwrite(q) PROVE Waits(row'[s]) \/ s \in muddled'
    <3> DEFINE c == request[q]
    <3>1. c # None /\ c.op = "overwrite" /\ Exists(c.row)
      BY <2>5 DEF Overwrite, InFlight
    <3>2. c.row \in Row /\ row[c.row] \in Record /\ (~c.outdated => StillHolds(c))
      BY <3>1, RouteFacts
    <3>3. /\ row' = [row EXCEPT ![c.row] = [row[c.row] EXCEPT !.payload = c.payload]]
          /\ muddled' = IF c.outdated THEN muddled \cup {c.row} ELSE muddled
      BY <2>5 DEF Overwrite, WriteRow
    <3>4. s = c.row
      BY <3>2, <3>3
    <3>5. row'[s].life = row[s].life /\ row'[s].status = row[s].status
      BY <3>2, <3>3, <3>4 DEF Record
    <3> QED
      BY <3>1, <3>2, <3>3, <3>4, <3>5 DEF StillHolds, Waits
  <2>6. ASSUME NEW q \in Slot,
               \/ \E body \in Payload, privileged \in BOOLEAN : ReadForSubmit(q, body, privileged)
               \/ WriteOwn(q) \/ FindPending(q) \/ ApplyReview(q) \/ Abandon(q)
               \/ \E r \in Row, decision \in {"APPROVED", "REJECTED"} : ReadForReview(q, r, decision)
               \/ \E r \in Row : ReadForRestore(q, r)
        PROVE  FALSE
    BY <2>6 DEF ReadForSubmit, WriteOwn, FindPending, ApplyReview, Abandon, ReadForReview,
       ReadForRestore, Start
  <2> QED
    BY <2>1, <2>2, <2>3, <2>4, <2>5, <2>6 DEF Next, Submission, Review
<1> QED
  BY <1>1, ProfilesInvariant, PTL DEF Spec, SubmissionWaits
=============================================================================
