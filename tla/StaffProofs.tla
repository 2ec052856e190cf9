---------------------------- MODULE StaffProofs ----------------------------
(***************************************************************************)
(* Theorems about Staff for every set of accounts, slots, updates and      *)
(* routes.                                                                 *)
(***************************************************************************)
EXTENDS Staff, TLAPS

-----------------------------------------------------------------------------
(* Types                                                                   *)

\* What a write does to a request in flight: it is still the same request, and
\* as long as it is not outdated the write concerned neither its target nor,
\* where it counts them, a Super Admin.  (Outdated)
LEMMA OutdatedFields ==
    ASSUME NEW c \in Request, NEW b, NEW taken \in BOOLEAN, NEW serial \in BOOLEAN
    PROVE  LET o == Outdated(c, b, taken, serial)
           IN  /\ o \in Request
               /\ o.op = c.op /\ o.actor = c.actor /\ o.target = c.target
               /\ o.change = c.change /\ o.senior = c.senior /\ o.checked = c.checked
               /\ c.checked /\ ~o.moved => ~c.moved /\ c.target # b
               /\ c.checked /\ ~o.skewed => ~c.skewed /\ ~(taken /\ serial)
               /\ c.checked /\ ~o.lost =>
                      ~c.lost /\ ~(taken /\ ~(serial /\ c.op \in Taking))
BY DEF Outdated, Request

\* A request that comes in is a request.  (Begin)
LEMMA BeginTyped ==
    ASSUME TypeOK, NEW q \in Slot, NEW op \in Ops, NEW a \in Account, NEW b \in Account,
           NEW change \in Change, NEW permit \in BOOLEAN, Begin(q, op, a, b, change, permit),
           op = "invite" => change.role \in Role
    PROVE  TypeOK'
<1>1. [op |-> op, actor |-> a, target |-> b, change |-> change, permit |-> permit,
       senior |-> user[a].role = "SUPER_ADMIN", checked |-> FALSE,
       moved |-> FALSE, skewed |-> FALSE, lost |-> FALSE] \in Request
  BY DEF Request
<1> QED
  BY <1>1 DEF Begin, TypeOK

\* The bodies that the routes of UsersService build.  (NoChange, createInvitation)
LEMMA ChangesTyped ==
    /\ NoChange \in Change
    /\ \A role \in Role : /\ [NoChange EXCEPT !.role = role] \in Change
                           /\ [NoChange EXCEPT !.role = role].role = role
BY DEF NoChange, Change

\* The actions of BeginStep keep the types.
LEMMA BeginStepTyped ==
    ASSUME TypeOK, NEW q \in Slot, NEW a \in Account, NEW b \in Account, BeginStep(q, a, b)
    PROVE  TypeOK'
<1>1. ASSUME NEW change \in Changes, BeginUpdate(q, a, b, change) PROVE TypeOK'
  BY <1>1, BeginTyped, StaffAssumption DEF BeginUpdate, Ops
<1>2. CASE BeginRemove(q, a, b)
  BY <1>2, BeginTyped, ChangesTyped DEF BeginRemove, Ops
<1>3. ASSUME NEW permit \in BOOLEAN, BeginPermit(q, a, b, permit) PROVE TypeOK'
  BY <1>3, BeginTyped, ChangesTyped DEF BeginPermit, Ops
<1>4. ASSUME NEW role \in Role, BeginInvite(q, a, b, role) PROVE TypeOK'
  BY <1>4, BeginTyped, ChangesTyped DEF BeginInvite, Ops
<1>5. ASSUME NEW op \in {"trash", "restore", "purge"}, BeginTrash(q, op, a, b) PROVE TypeOK'
  BY <1>5, BeginTyped, ChangesTyped DEF BeginTrash, Ops, Taking
<1> QED
  BY <1>1, <1>2, <1>3, <1>4, <1>5 DEF BeginStep

\* Marking a request as checked keeps the types.  (Checked)
LEMMA CheckedTyped ==
    ASSUME TypeOK, NEW q \in Slot, request[q] # Idle, Checked(q)
    PROVE  TypeOK'
<1>1. [request[q] EXCEPT !.checked = TRUE] \in Request
  BY DEF TypeOK, Request
<1>2. request' \in [Slot -> Request \cup {Idle}]
  BY <1>1 DEF Checked, TypeOK
<1>3. \A p \in Slot : request'[p] # Idle =>
          /\ request[p] # Idle
          /\ request'[p].op = request[p].op /\ request'[p].change = request[p].change
  BY <1>1 DEF Checked, TypeOK, Request
<1> QED
  BY <1>2, <1>3 DEF Checked, TypeOK

\* Every check marks the request as checked.
LEMMA CheckStepChecks ==
    ASSUME NEW q \in Slot, CheckStep(q)
    PROVE  request[q] # Idle /\ Checked(q)
BY DEF CheckStep, CheckUpdate, CheckRemove, CheckPermit, CheckTaking, Pending

\* A write of a row keeps the types.  (Write)
LEMMA WriteTyped ==
    ASSUME TypeOK, NEW q \in Slot, request[q] # Idle, NEW u \in User,
           NEW serial \in BOOLEAN, Write(q, u, serial)
    PROVE  TypeOK'
<1>1. request[q] \in Request /\ request[q].target \in Account
  BY DEF TypeOK, Request
<1> DEFINE taken == IsSuperAdmin(user[request[q].target]) /\ ~IsSuperAdmin(u)
<1>2. taken \in BOOLEAN
  BY DEF IsSuperAdmin, Live, TypeOK, User
<1>3. \A p \in Slot : request[p] # Idle =>
          Outdated(request[p], request[q].target, taken, serial) \in Request
  <2> HIDE DEF taken
  <2>1. \A p \in Slot : request[p] # Idle => request[p] \in Request
    BY DEF TypeOK
  <2> QED
    BY <1>2, <2>1, OutdatedFields
<1>4. request' \in [Slot -> Request \cup {Idle}]
  BY <1>3 DEF Write
<1>5. user' \in [Account -> User]
  BY <1>1 DEF Write, TypeOK
<1>6. raced' \in BOOLEAN
  <2> HIDE DEF taken
  <2>1. request[q].moved \in BOOLEAN /\ request[q].lost \in BOOLEAN
    BY <1>1 DEF Request
  <2>2. raced' = (raced \/ (taken /\ (request[q].moved \/ request[q].lost)))
    BY DEF Write, taken
  <2> QED
    BY <2>2
<1>7. usurped' \in BOOLEAN
  BY DEF Write
<1>8. \A p \in Slot : request'[p] # Idle =>
          /\ request[p] # Idle
          /\ request'[p].op = request[p].op /\ request'[p].change = request[p].change
  <2> HIDE DEF taken
  <2>1. \A p \in Slot : request[p] # Idle => request[p] \in Request
    BY DEF TypeOK
  <2>2. \A p \in Slot : request'[p] # Idle =>
            /\ request[p] # Idle
            /\ request'[p] = Outdated(request[p], request[q].target, taken, serial)
    BY DEF Write, taken
  <2> QED
    BY <1>2, <2>1, <2>2, OutdatedFields
<1> QED
  BY <1>4, <1>5, <1>6, <1>7, <1>8 DEF TypeOK

\* A row that is written is a row of users.
LEMMA RowsTyped ==
    ASSUME NEW u \in User
    PROVE  /\ \A role \in Role, active \in BOOLEAN :
                 [u EXCEPT !.role = role, !.active = active] \in User
           /\ \A active \in BOOLEAN : [u EXCEPT !.active = active] \in User
           /\ \A permit \in BOOLEAN : [u EXCEPT !.mayDelete = permit] \in User
           /\ [u EXCEPT !.life = "trashed", !.active = FALSE] \in User
           /\ [u EXCEPT !.life = "purged"] \in User
           /\ [u EXCEPT !.life = "live", !.active = FALSE] \in User
           /\ [u EXCEPT !.setUp = TRUE] \in User
BY DEF User

\* What a request that writes has checked and may take: the rows each write
\* leaves, and what it takes from its target.  (update, remove, trash, purge)
Sanctioned(q, u, serial) ==
    LET c == request[q]
        b == c.target
    IN  /\ request[q] # Idle
        /\ u \in User
        /\ serial \in BOOLEAN
        /\ Write(q, u, serial)
        /\ Administers(user[b]) => u.setUp
        /\ IsSuperAdmin(user[b]) /\ ~IsSuperAdmin(u) =>
               c.checked /\ Takes(c) /\ (c.op \in Taking => ~c.skewed)

\* Every write step is a sanctioned write.
LEMMA WritesSanctioned ==
    ASSUME TypeOK, NEW q \in Slot, WriteStep(q)
    PROVE  \E u \in User, serial \in BOOLEAN : Sanctioned(q, u, serial)
<1> DEFINE c == request[q]
           u == user[c.target]
<1>1. request[q] # Idle
  BY DEF WriteStep, WriteUpdate, WriteRemove, WritePermit, WriteInvite, CommitTaking,
         CommitRestore, Ready, Pending
<1>2. c \in Request /\ u \in User
  BY <1>1 DEF TypeOK, Request
<1>3. CASE WriteUpdate(q)
  <2> DEFINE role   == NewRole(u.role, c.change.role)
             active == c.change.lock # "set" /\ (u.active \/ c.change.lock = "clear")
             new    == [u EXCEPT !.role = role, !.active = active]
  <2>1. role \in Role
    BY <1>2, StaffAssumption DEF NewRole, User, Request, Change
  <2>2. active \in BOOLEAN
    OBVIOUS
  <2>3. new \in User
    <3> HIDE DEF role, active
    <3> QED
      BY <1>2, <2>1, <2>2, RowsTyped
  <2>4. Write(q, new, FALSE)
    BY <1>3 DEF WriteUpdate
  <2>5. new.setUp = u.setUp /\ new.life = u.life /\ new.role = role /\ new.active = active
    BY <1>2 DEF User
  <2>6. Administers(u) => new.setUp
    BY <2>5 DEF Administers, CanLogIn
  <2>7. IsSuperAdmin(u) /\ ~IsSuperAdmin(new) => Takes(c)
    <3> SUFFICES ASSUME IsSuperAdmin(u), ~IsSuperAdmin(new) PROVE Demotes(c.change)
      BY <1>3 DEF Takes, WriteUpdate, Ready
    <3>1. ~active \/ role # "SUPER_ADMIN"
      <4> HIDE DEF new, active, role
      <4> QED
        BY <2>5 DEF IsSuperAdmin, Live
    <3>2. CASE ~active
      BY <3>2 DEF IsSuperAdmin, Demotes
    <3>3. CASE role # "SUPER_ADMIN"
      BY <3>3 DEF IsSuperAdmin, Demotes, NewRole
    <3> QED
      BY <3>1, <3>2, <3>3
  <2>8. c.checked /\ c.op \notin Taking
    BY <1>3 DEF WriteUpdate, Ready, Taking
  <2> HIDE DEF new
  <2>9. Sanctioned(q, new, FALSE)
    BY <1>1, <2>3, <2>4, <2>6, <2>7, <2>8 DEF Sanctioned
  <2> QED
    BY <2>3, <2>9
<1>4. CASE WriteRemove(q)
  <2> DEFINE new == [u EXCEPT !.active = FALSE]
  <2>1. new \in User /\ new.setUp = u.setUp
    BY <1>2, RowsTyped DEF User
  <2>2. c.checked /\ c.op = "remove" /\ Write(q, new, FALSE)
    BY <1>4 DEF WriteRemove, Ready
  <2> HIDE DEF new
  <2>3. Sanctioned(q, new, FALSE)
    BY <1>1, <2>1, <2>2 DEF Sanctioned, Takes, Taking, Administers, CanLogIn
  <2> QED
    BY <2>1, <2>3
<1>5. CASE WritePermit(q)
  <2> DEFINE new == [u EXCEPT !.mayDelete = c.permit]
  <2>1. c.permit \in BOOLEAN
    BY <1>2 DEF Request
  <2>2. /\ new \in User
        /\ new.setUp = u.setUp /\ new.life = u.life /\ new.role = u.role
        /\ new.active = u.active
    BY <1>2, <2>1, RowsTyped DEF User
  <2>3. Write(q, new, FALSE)
    BY <1>5 DEF WritePermit
  <2> HIDE DEF new
  <2>4. Sanctioned(q, new, FALSE)
    BY <1>1, <2>2, <2>3 DEF Sanctioned, IsSuperAdmin, Live, Administers, CanLogIn
  <2> QED
    BY <2>2, <2>4
<1>6. CASE WriteInvite(q)
  <2> DEFINE new == [NoUser EXCEPT !.life = "live", !.role = c.change.role, !.active = TRUE]
  <2>1. c.change.role \in Role
    BY <1>6 DEF WriteInvite, Pending, TypeOK
  <2>2. new \in User
    BY <2>1 DEF NoUser, User
  <2>3. Write(q, new, FALSE) /\ u.life = "none"
    BY <1>6 DEF WriteInvite
  <2> HIDE DEF new
  <2>4. Sanctioned(q, new, FALSE)
    BY <1>1, <2>2, <2>3 DEF Sanctioned, IsSuperAdmin, Live, Administers, CanLogIn
  <2> QED
    BY <2>2, <2>4
<1>7. ASSUME NEW op \in Taking, CommitTaking(q, op)
      PROVE  \E w \in User, serial \in BOOLEAN : Sanctioned(q, w, serial)
  <2> DEFINE new == IF op = "trash" THEN [u EXCEPT !.life = "trashed", !.active = FALSE]
                    ELSE [u EXCEPT !.life = "purged"]
  <2>1. new \in User /\ new.setUp = u.setUp
    BY <1>2, RowsTyped DEF User
  <2>2. c.checked /\ c.op \in Taking /\ Write(q, new, TRUE)
    BY <1>7 DEF CommitTaking, Ready
  <2>3. IsSuperAdmin(u) => ~c.skewed
    BY <1>7 DEF CommitTaking, Serializable, IsSuperAdmin
  <2> HIDE DEF new
  <2>4. Sanctioned(q, new, TRUE)
    BY <1>1, <2>1, <2>2, <2>3 DEF Sanctioned, Takes, Administers, CanLogIn
  <2> QED
    BY <2>1, <2>4
<1>8. CASE CommitRestore(q)
  <2> DEFINE new == [u EXCEPT !.life = "live", !.active = FALSE]
  <2>1. new \in User /\ new.setUp = u.setUp
    BY <1>2, RowsTyped DEF User
  <2>2. Write(q, new, TRUE) /\ u.life = "trashed"
    BY <1>8 DEF CommitRestore
  <2> HIDE DEF new
  <2>3. Sanctioned(q, new, TRUE)
    BY <1>1, <2>1, <2>2 DEF Sanctioned, IsSuperAdmin, Live, Administers, CanLogIn
  <2> QED
    BY <2>1, <2>3
<1> QED
  BY <1>3, <1>4, <1>5, <1>6, <1>7, <1>8 DEF WriteStep

\* An accepted invitation keeps the types.  (acceptInvitation)
LEMMA AcceptTyped ==
    ASSUME TypeOK, NEW b \in Account, Accept(b)
    PROVE  TypeOK'
<1>1. \A p \in Slot : request[p] # Idle => request[p] \in Request
  BY DEF TypeOK
<1>2. \A p \in Slot : request[p] # Idle =>
          LET o == Outdated(request[p], b, FALSE, FALSE)
          IN  o \in Request /\ o.op = request[p].op /\ o.change = request[p].change
  BY <1>1 DEF Outdated, Request
<1>3. user' \in [Account -> User]
  BY DEF Accept, TypeOK, User
<1> QED
  BY <1>2, <1>3 DEF Accept, TypeOK

\* Type correctness of the staff accounts: the rows are users and the requests in
\* flight are requests, and an invitation always names a role.
THEOREM StaffTyped == Spec => []TypeOK
<1>1. Init => TypeOK
  <2> SUFFICES ASSUME Init PROVE TypeOK
    OBVIOUS
  <2>1. Founder \in User /\ NoUser \in User
    BY DEF Founder, NoUser, User, Role
  <2>2. user \in [Account -> User]
    BY <2>1 DEF Init
  <2> QED
    BY <2>2 DEF Init, TypeOK
<1>2. TypeOK /\ [Next]_vars => TypeOK'
  <2> SUFFICES ASSUME TypeOK, [Next]_vars PROVE TypeOK'
    OBVIOUS
  <2>1. ASSUME NEW q \in Slot, CheckStep(q) PROVE TypeOK'
    BY <2>1, CheckStepChecks, CheckedTyped
  <2>2. ASSUME NEW q \in Slot, WriteStep(q) PROVE TypeOK'
    <3>1. PICK u \in User, serial \in BOOLEAN : Sanctioned(q, u, serial)
      BY <2>2, WritesSanctioned
    <3> QED
      BY <3>1, WriteTyped DEF Sanctioned
  <2>3. ASSUME NEW q \in Slot, Abandon(q) PROVE TypeOK'
    BY <2>3 DEF Abandon, TypeOK
  <2>4. CASE UNCHANGED vars
    BY <2>4 DEF vars, TypeOK
  <2> QED
    BY <2>1, <2>2, <2>3, <2>4, BeginStepTyped, AcceptTyped DEF Next
<1> QED
  BY <1>1, <1>2, PTL DEF Spec

-----------------------------------------------------------------------------
(* The inductive invariant                                                 *)

\* A sanctioned write keeps what the checks in flight have established.
LEMMA WriteKeepsChecks ==
    ASSUME StaffInv, NEW q \in Slot, NEW u \in User, NEW serial \in BOOLEAN,
           Sanctioned(q, u, serial)
    PROVE  ChecksInv'
<1> DEFINE b == request[q].target
           taken == IsSuperAdmin(user[b]) /\ ~IsSuperAdmin(u)
<1> SUFFICES ASSUME NEW p \in Slot, request'[p] # Idle, request'[p].checked
             PROVE  CheckHolds(request[p])'
  BY DEF ChecksInv
<1> DEFINE c == request[p]
           o == request'[p]
<1>1. taken \in BOOLEAN /\ b \in Account
  BY DEF IsSuperAdmin, Live, StaffInv, TypeOK, User, Sanctioned, Request
<1>2. c # Idle /\ p # q /\ o = Outdated(c, b, taken, serial)
  BY DEF Sanctioned, Write
<1>3. c \in Request /\ c.target \in Account
  BY <1>2 DEF StaffInv, TypeOK, Request
<1>4. user' = [user EXCEPT ![b] = u] /\ user \in [Account -> User]
  BY DEF Sanctioned, Write, StaffInv, TypeOK
<1> HIDE DEF taken, b, c, o
<1>5. /\ o.op = c.op /\ o.actor = c.actor /\ o.target = c.target
      /\ o.change = c.change /\ o.senior = c.senior /\ o.checked = c.checked
      /\ c.checked /\ ~o.moved => ~c.moved /\ c.target # b
      /\ c.checked /\ ~o.skewed => ~c.skewed /\ ~(taken /\ serial)
      /\ c.checked /\ ~o.lost => ~c.lost /\ ~(taken /\ ~(serial /\ c.op \in Taking))
  BY <1>1, <1>2, <1>3, OutdatedFields
<1>6. c.checked /\ Takes(o) = Takes(c)
  BY <1>5 DEF Takes, o
<1>7. CheckHolds(c)
  BY <1>2, <1>5, <1>6 DEF StaffInv, ChecksInv, c
<1>8. ASSUME ~o.moved PROVE ~c.moved /\ user'[o.target] = user[c.target]
  BY <1>3, <1>4, <1>5, <1>6, <1>8
<1>9. ASSUME NEW t \in Account, ~taken, OthersRemain(t)
      PROVE  OthersRemain(t)'
  <2>1. PICK a \in Account : a # t /\ IsSuperAdmin(user[a])
    BY <1>9 DEF OthersRemain, SuperAdmins
  <2>2. IsSuperAdmin(user'[a])
    <3>1. CASE a = b
      BY <1>1, <1>4, <1>9, <2>1, <3>1 DEF taken
    <3>2. CASE a # b
      BY <1>4, <2>1, <3>2
    <3> QED
      BY <3>1, <3>2
  <2> QED
    BY <2>1, <2>2 DEF OthersRemain, SuperAdmins
<1>10. ASSUME ~o.moved, ~o.lost, o.op \in Taking => ~o.skewed, Takes(o),
              IsSuperAdmin(user'[o.target])
       PROVE  \E a \in Account : a # o.target /\ IsSuperAdmin(user'[a])
  <2>1. ~taken
    BY <1>1, <1>5, <1>6, <1>10
  <2>2. OthersRemain(c.target)
    BY <1>5, <1>6, <1>7, <1>8, <1>10 DEF CheckHolds
  <2>3. PICK t \in Account : t = c.target
    BY <1>3
  <2>4. OthersRemain(t)'
    BY <1>9, <2>1, <2>2, <2>3
  <2> QED
    BY <1>5, <2>3, <2>4 DEF OthersRemain, SuperAdmins
<1> QED
  BY <1>5, <1>6, <1>7, <1>8, <1>10 DEF o, CheckHolds, OthersRemain, SuperAdmins, Takes

\* A sanctioned write leaves a Super Admin, unless it was outdated.
LEMMA WriteKeepsSuperAdmin ==
    ASSUME StaffInv, NEW q \in Slot, NEW u \in User, NEW serial \in BOOLEAN,
           Sanctioned(q, u, serial), ~raced'
    PROVE  SuperAdmins' # {}
<1> DEFINE c == request[q]
           b == c.target
           taken == IsSuperAdmin(user[b]) /\ ~IsSuperAdmin(u)
<1>1. c \in Request /\ b \in Account
  BY DEF StaffInv, TypeOK, Request, Sanctioned
<1>2. user' = [user EXCEPT ![b] = u] /\ user \in [Account -> User]
  BY DEF Sanctioned, Write, StaffInv, TypeOK
<1>3. ~raced /\ ~(taken /\ (c.moved \/ c.lost))
  BY DEF Sanctioned, Write
<1> SUFFICES \E a \in Account : IsSuperAdmin(user'[a])
  BY DEF SuperAdmins
<1>4. CASE ~taken
  <2>1. PICK a \in Account : IsSuperAdmin(user[a])
    BY <1>3 DEF StaffInv, LastSuperAdminKept, SuperAdmins
  <2> QED
    BY <1>1, <1>2, <1>4, <2>1
<1>5. CASE taken
  <2>1. OthersRemain(b)
    BY <1>3, <1>5 DEF Sanctioned, StaffInv, ChecksInv, CheckHolds
  <2>2. PICK a \in Account \ {b} : IsSuperAdmin(user[a])
    BY <2>1 DEF OthersRemain, SuperAdmins
  <2> QED
    BY <1>1, <1>2, <2>2
<1> QED
  BY <1>4, <1>5

\* A sanctioned write leaves somebody who administers, unless it was carried out
\* for one who no longer did.
LEMMA WriteKeepsAdministrator ==
    ASSUME StaffInv, NEW q \in Slot, NEW u \in User, NEW serial \in BOOLEAN,
           Sanctioned(q, u, serial), ~usurped'
    PROVE  \E a \in Account : Administers(user'[a])
<1> DEFINE c == request[q]
           b == c.target
<1>1. c \in Request /\ b \in Account /\ c.actor \in Account
  BY DEF StaffInv, TypeOK, Request, Sanctioned
<1>2. user' = [user EXCEPT ![b] = u] /\ user \in [Account -> User]
  BY DEF Sanctioned, Write, StaffInv, TypeOK
<1>3. /\ ~usurped
      /\ Administers(user[b]) /\ ~Administers(u) =>
             Administers(user[c.actor]) /\ (c.actor = b => ~c.moved)
  BY DEF Sanctioned, Write
<1>4. CASE Administers(user[b]) /\ ~Administers(u)
  <2>1. IsSuperAdmin(user[b]) /\ ~IsSuperAdmin(u)
    BY <1>4 DEF Sanctioned, Administers, CanLogIn, IsSuperAdmin
  <2>2. c.checked /\ Takes(c)
    BY <2>1 DEF Sanctioned
  <2>3. c.actor # b
    BY <1>3, <1>4, <2>1, <2>2 DEF StaffInv, ChecksInv, CheckHolds, Sanctioned, IsSuperAdmin
  <2> QED
    BY <1>1, <1>2, <1>3, <1>4, <2>3
<1>5. CASE ~(Administers(user[b]) /\ ~Administers(u))
  <2>1. PICK a \in Account : Administers(user[a])
    BY <1>3 DEF StaffInv, SomebodyAdministers
  <2> QED
    BY <1>1, <1>2, <1>5, <2>1
<1> QED
  BY <1>4, <1>5

\* An accepted invitation takes nothing from anybody.
LEMMA AcceptKeeps ==
    ASSUME StaffInv, NEW b \in Account, Accept(b)
    PROVE  ChecksInv' /\ LastSuperAdminKept' /\ SomebodyAdministers'
<1>1. \A a \in Account : /\ user'[a].role = user[a].role
                         /\ IsSuperAdmin(user[a]) <=> IsSuperAdmin(user'[a])
                         /\ Administers(user[a]) => Administers(user'[a])
  <2>1. \A a \in Account : /\ user'[a].role = user[a].role
                           /\ user'[a].life = user[a].life
                           /\ user'[a].active = user[a].active
                           /\ user[a].setUp => user'[a].setUp
    BY DEF Accept, StaffInv, TypeOK, User
  <2> QED
    BY <2>1 DEF IsSuperAdmin, Administers, CanLogIn, Live
<1>2. ASSUME NEW t \in Account, OthersRemain(t) PROVE OthersRemain(t)'
  BY <1>1, <1>2 DEF OthersRemain, SuperAdmins
<1>3. \A p \in Slot : request[p] # Idle =>
          request[p] \in Request /\ request[p].target \in Account
  BY DEF StaffInv, TypeOK, Request
<1>4. ASSUME NEW p \in Slot, request'[p] # Idle, request'[p].checked
      PROVE  CheckHolds(request[p])'
  <2> DEFINE c == request[p]
             o == request'[p]
  <2>1. c \in Request /\ o = Outdated(c, b, FALSE, FALSE)
    BY <1>3, <1>4 DEF Accept
  <2>2. /\ o.op = c.op /\ o.actor = c.actor /\ o.target = c.target
        /\ o.change = c.change /\ o.senior = c.senior /\ o.checked = c.checked
        /\ c.checked
        /\ ~o.moved => ~c.moved
        /\ ~o.skewed => ~c.skewed
        /\ ~o.lost => ~c.lost
    <3> HIDE DEF c, o
    <3>1. o.checked
      BY <1>4 DEF o
    <3> QED
      BY <2>1, <3>1 DEF Outdated, Request
  <2>3. CheckHolds(c)
    BY <1>4, <2>2 DEF Accept, StaffInv, ChecksInv
  <2>4. c.target \in Account
    BY <2>1 DEF Request
  <2>5. PICK t \in Account : t = c.target
    BY <2>4
  <2>6. OthersRemain(t) => OthersRemain(t)'
    BY <1>2
  <2>7. /\ user'[t].role = user[t].role
        /\ IsSuperAdmin(user'[t]) => IsSuperAdmin(user[t])
    BY <1>1
  <2>8. Takes(o) = Takes(c)
    BY <2>2 DEF Takes
  <2> HIDE DEF c, o
  <2>9. OthersRemain(t)' => OthersRemain(request[p].target)'
    BY <2>2, <2>5 DEF OthersRemain, SuperAdmins, o
  <2> QED
    BY <2>2, <2>3, <2>5, <2>6, <2>7, <2>8, <2>9 DEF CheckHolds, o
<1>5. ChecksInv'
  BY <1>4 DEF ChecksInv
<1>6. SuperAdmins # {} => SuperAdmins' # {}
  BY <1>1 DEF SuperAdmins
<1> QED
  BY <1>1, <1>5, <1>6 DEF Accept, StaffInv, LastSuperAdminKept, SomebodyAdministers

\* Beginning, checking and giving up leave the accounts alone.
LEMMA OthersKeep ==
    ASSUME StaffInv, UNCHANGED <<user, raced, usurped>>
    PROVE  LastSuperAdminKept' /\ SomebodyAdministers'
BY DEF StaffInv, LastSuperAdminKept, SomebodyAdministers, SuperAdmins

\* A request that comes in has checked nothing yet.  (Begin)
LEMMA BeginKeeps ==
    ASSUME StaffInv, NEW q \in Slot, NEW a \in Account, NEW b \in Account,
           BeginStep(q, a, b)
    PROVE  ChecksInv' /\ UNCHANGED <<user, raced, usurped>>
<1>1. ASSUME NEW op, NEW change, NEW permit, Begin(q, op, a, b, change, permit)
      PROVE  ChecksInv' /\ UNCHANGED <<user, raced, usurped>>
  <2>1. \A p \in Slot : request'[p] # Idle /\ request'[p].checked =>
            request'[p] = request[p]
    BY <1>1 DEF Begin, StaffInv, TypeOK
  <2> QED
    BY <1>1, <2>1 DEF Begin, StaffInv, ChecksInv, CheckHolds, OthersRemain, SuperAdmins
<1> QED
  BY <1>1 DEF BeginStep, BeginUpdate, BeginRemove, BeginPermit, BeginInvite, BeginTrash

\* A check establishes what it checked.  (update, remove, updateDeletePermissions,
\* trash, purge)
LEMMA CheckKeeps ==
    ASSUME StaffInv, NEW q \in Slot, CheckStep(q)
    PROVE  ChecksInv' /\ UNCHANGED <<user, raced, usurped>>
<1>1. request[q] # Idle /\ Checked(q)
  BY CheckStepChecks
<1>2. request[q] \in Request
  BY <1>1 DEF StaffInv, TypeOK
<1>3. CheckHolds(request[q])
  <2> DEFINE c == request[q]
  <2>1. CASE CheckUpdate(q)
    <3>1. c.op = "update"
      BY <2>1 DEF CheckUpdate, Pending
    <3>2. user[c.target].role = "SUPER_ADMIN" /\ Demotes(c.change) => OthersRemain(c.target)
      BY <2>1 DEF CheckUpdate
    <3>3. c.actor = c.target /\ Demotes(c.change) => user[c.target].role # "SUPER_ADMIN"
      BY <2>1 DEF CheckUpdate, Demotes
    <3> QED
      BY <3>1, <3>2, <3>3 DEF CheckHolds, Takes, Taking, IsSuperAdmin
  <2>2. CASE CheckRemove(q)
    BY <2>2 DEF CheckRemove, Pending, NotOneself, CheckHolds, Taking, IsSuperAdmin
  <2>3. CASE CheckPermit(q)
    BY <2>3 DEF CheckPermit, Pending, CheckHolds, Takes, Taking
  <2>4. ASSUME NEW op \in Taking, CheckTaking(q, op) PROVE CheckHolds(c)
    BY <2>4 DEF CheckTaking, Pending, NotOneself, CheckHolds, Taking, IsSuperAdmin
  <2> QED
    BY <2>1, <2>2, <2>3, <2>4 DEF CheckStep
<1>4. ASSUME NEW p \in Slot, request'[p] # Idle, request'[p].checked
      PROVE  CheckHolds(request[p])'
  <2>1. CASE p = q
    <3>1. request'[p] = [request[q] EXCEPT !.checked = TRUE]
      BY <1>1, <2>1 DEF Checked, StaffInv, TypeOK
    <3>2. /\ request'[p].op = request[q].op /\ request'[p].actor = request[q].actor
          /\ request'[p].target = request[q].target /\ request'[p].change = request[q].change
          /\ request'[p].senior = request[q].senior /\ request'[p].moved = request[q].moved
          /\ request'[p].lost = request[q].lost /\ request'[p].skewed = request[q].skewed
      BY <1>2, <3>1 DEF Request
    <3> QED
      BY <1>1, <1>3, <3>2 DEF Checked, CheckHolds, OthersRemain, SuperAdmins, Takes
  <2>2. CASE p # q
    <3>1. request'[p] = request[p]
      BY <1>1, <2>2 DEF Checked, StaffInv, TypeOK
    <3>2. CheckHolds(request[p])
      BY <1>4, <3>1 DEF StaffInv, ChecksInv
    <3> QED
      BY <1>1, <3>1, <3>2 DEF Checked, CheckHolds, OthersRemain, SuperAdmins, Takes
  <2> QED
    BY <2>1, <2>2
<1> QED
  BY <1>1, <1>4 DEF Checked, ChecksInv

\* The inductive invariant: what the checks in flight still guarantee, with the two
\* properties of the table that rest on it.
THEOREM StaffInvariant == Spec => []StaffInv
<1>1. Init /\ TypeOK => StaffInv
  <2> SUFFICES ASSUME Init, TypeOK PROVE StaffInv
    OBVIOUS
  <2>1. PICK f \in Account : user = [a \in Account |-> IF a = f THEN Founder ELSE NoUser]
    BY DEF Init
  <2>2. IsSuperAdmin(user[f]) /\ Administers(user[f])
    BY <2>1 DEF Founder, IsSuperAdmin, Administers, CanLogIn, Live
  <2>3. LastSuperAdminKept /\ SomebodyAdministers
    BY <2>2 DEF LastSuperAdminKept, SomebodyAdministers, SuperAdmins
  <2> QED
    BY <2>3 DEF Init, StaffInv, ChecksInv
<1>2. StaffInv /\ TypeOK' /\ [Next]_vars => StaffInv'
  <2> SUFFICES ASSUME StaffInv, TypeOK', [Next]_vars PROVE StaffInv'
    OBVIOUS
  <2>1. ASSUME NEW q \in Slot, NEW a \in Account, NEW b \in Account, BeginStep(q, a, b)
        PROVE  StaffInv'
    BY <2>1, BeginKeeps, OthersKeep DEF StaffInv
  <2>2. ASSUME NEW q \in Slot, CheckStep(q) PROVE StaffInv'
    BY <2>2, CheckKeeps, OthersKeep DEF StaffInv
  <2>3. ASSUME NEW q \in Slot, WriteStep(q) PROVE StaffInv'
    <3>1. PICK u \in User, serial \in BOOLEAN : Sanctioned(q, u, serial)
      BY <2>3, WritesSanctioned DEF StaffInv
    <3>2. ChecksInv'
      BY <3>1, WriteKeepsChecks
    <3>3. LastSuperAdminKept' /\ SomebodyAdministers'
      BY <3>1, WriteKeepsSuperAdmin, WriteKeepsAdministrator
      DEF LastSuperAdminKept, SomebodyAdministers
    <3> QED
      BY <3>2, <3>3 DEF StaffInv
  <2>4. ASSUME NEW q \in Slot, Abandon(q) PROVE StaffInv'
    <3>1. \A p \in Slot : request'[p] # Idle => request'[p] = request[p]
      BY <2>4 DEF Abandon, StaffInv, TypeOK
    <3>2. ChecksInv'
      BY <2>4, <3>1
      DEF Abandon, StaffInv, ChecksInv, CheckHolds, OthersRemain, SuperAdmins
    <3> QED
      BY <2>4, <3>2, OthersKeep DEF Abandon, StaffInv
  <2>5. ASSUME NEW b \in Account, Accept(b) PROVE StaffInv'
    BY <2>5, AcceptKeeps DEF StaffInv
  <2>6. CASE UNCHANGED vars
    BY <2>6 DEF vars, StaffInv, ChecksInv, CheckHolds, OthersRemain, SuperAdmins,
                LastSuperAdminKept, SomebodyAdministers
  <2> QED
    BY <2>1, <2>2, <2>3, <2>4, <2>5, <2>6 DEF Next
<1> QED
  BY <1>1, <1>2, StaffTyped, PTL DEF Spec

\* For any number of accounts and requests in flight: an active Super Admin is
\* left, unless one was taken on a check that was outdated when the request wrote.
THEOREM LastSuperAdminKeptAlways == Spec => []LastSuperAdminKept
<1>1. StaffInv => LastSuperAdminKept
  BY DEF StaffInv
<1> QED
  BY <1>1, StaffInvariant, PTL

\* For any number of accounts and requests in flight: somebody who can log in
\* administers the accounts, unless one who did was taken by somebody who no
\* longer did, or took himself on an outdated check.
THEOREM SomebodyAdministersAlways == Spec => []SomebodyAdministers
<1>1. StaffInv => SomebodyAdministers
  BY DEF StaffInv
<1> QED
  BY <1>1, StaffInvariant, PTL

\* A Super Admin moves to or out of the trash by the request of a Super Admin only,
\* even one who was promoted while the request was under way.
THEOREM MembersSpareSuperAdminsAlways == Spec => MembersSpareSuperAdmins
<1> DEFINE Spared ==
      \A b \in Account :
          /\ Exists(user[b]) /\ user[b].role = "SUPER_ADMIN"
          /\ user'[b].life # user[b].life
          =>
             \E q \in Slot : /\ request[q] # Idle /\ request'[q] = Idle
                             /\ request[q].target = b
                             /\ request[q].senior
<1>1. StaffInv /\ [Next]_vars => [Spared]_vars
  <2> SUFFICES ASSUME StaffInv, [Next]_vars, NEW b \in Account,
                      Exists(user[b]), user[b].role = "SUPER_ADMIN",
                      user'[b].life # user[b].life
               PROVE  \E q \in Slot : /\ request[q] # Idle /\ request'[q] = Idle
                                      /\ request[q].target = b
                                      /\ request[q].senior
    OBVIOUS
  <2>1. PICK q \in Slot : WriteStep(q)
    <3>1. \A q \in Slot, a, c \in Account : BeginStep(q, a, c) => UNCHANGED user
      BY BeginKeeps
    <3>2. \A q \in Slot : CheckStep(q) \/ Abandon(q) => UNCHANGED user
      BY CheckKeeps DEF Abandon
    <3>3. \A c \in Account : Accept(c) => user'[b].life = user[b].life
      BY DEF Accept, StaffInv, TypeOK, User
    <3> QED
      BY <3>1, <3>2, <3>3 DEF Next, vars
  <2> DEFINE c == request[q]
             u == user[c.target]
  <2>2. c # Idle /\ c \in Request /\ c.target \in Account /\ u \in User
    BY <2>1 DEF WriteStep, WriteUpdate, WriteRemove, WritePermit, WriteInvite,
                CommitTaking, CommitRestore, Ready, Pending, StaffInv, TypeOK, Request
  <2>3. \A w, serial : Write(q, w, serial) =>
            user' = [user EXCEPT ![c.target] = w] /\ request'[q] = Idle
    BY DEF Write
  <2>4. ASSUME NEW w, NEW serial, Write(q, w, serial)
        PROVE  request'[q] = Idle /\ c.target = b /\ w.life # u.life
    BY <2>2, <2>3, <2>4 DEF StaffInv, TypeOK
  <2>5. c.target = b /\ request'[q] = Idle
    BY <2>1, <2>4 DEF WriteStep, WriteUpdate, WriteRemove, WritePermit, WriteInvite,
                      CommitTaking, CommitRestore
  <2>6. ~WriteUpdate(q)
    <3> DEFINE role   == NewRole(u.role, c.change.role)
               active == c.change.lock # "set" /\ (u.active \/ c.change.lock = "clear")
               new    == [u EXCEPT !.role = role, !.active = active]
    <3>1. new.life = u.life
      <4> HIDE DEF role, active
      <4> QED
        BY <2>2 DEF User
    <3>2. WriteUpdate(q) => Write(q, new, FALSE)
      BY DEF WriteUpdate
    <3> HIDE DEF new
    <3> QED
      BY <2>4, <3>1, <3>2
  <2>7. ~WriteRemove(q) /\ ~WritePermit(q)
    <3>1. \A x : /\ [u EXCEPT !.active = x].life = u.life
                 /\ [u EXCEPT !.mayDelete = x].life = u.life
      BY <2>2 DEF User
    <3> QED
      BY <2>4, <3>1 DEF WriteRemove, WritePermit
  <2>8. ~WriteInvite(q)
    BY <2>5 DEF WriteInvite, Exists
  <2>9. CASE CommitRestore(q)
    BY <2>2, <2>5, <2>9 DEF CommitRestore
  <2>10. ASSUME NEW op \in Taking, CommitTaking(q, op) PROVE c.senior
    <3>1. c.checked /\ ~c.moved /\ c.op \in Taking
      BY <2>10 DEF CommitTaking, Ready, Serializable
    <3> QED
      BY <2>2, <2>5, <3>1 DEF StaffInv, ChecksInv, CheckHolds
  <2> QED
    BY <2>1, <2>2, <2>5, <2>6, <2>7, <2>8, <2>9, <2>10 DEF WriteStep
<1> QED
  BY <1>1, StaffInvariant, PTL DEF Spec, MembersSpareSuperAdmins
=============================================================================
