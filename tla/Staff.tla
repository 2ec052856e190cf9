------------------------------- MODULE Staff -------------------------------
(***************************************************************************)
(* The accounts of the staff: who administers them, and whether somebody   *)
(* still does, under every interleaving of the staff routes with the trash. *)
(*                                                                         *)
(* A request is authorised when it comes in (Begin...), checks its target  *)
(* and counts the Super Admins that would be left (Check...), and writes   *)
(* (Write..., Commit...), with other requests in between.  The routes of    *)
(* UsersService use no transaction.  Those of the trash are SERIALIZABLE:   *)
(* they abort when their target has changed since their snapshot, or when   *)
(* another of them has taken a Super Admin they counted; a plain UPDATE of  *)
(* another account they do not notice.                                      *)
(***************************************************************************)
CONSTANTS
    Account,     \* rows of users that can be created
    Slot,        \* requests that can be in flight at the same time
    Idle,        \* a slot with no request in it
    Keep,        \* a column that an update leaves alone
    Changes,     \* the updates that are tried
    Routes       \* the routes that are called in this instance

Role == {"EDITOR", "ADMIN", "SUPER_ADMIN"}

User == [life      : {"none", "live", "trashed", "purged"},
         role      : Role,
         active    : BOOLEAN,
         setUp     : BOOLEAN,     \* setupCompletedAt is not NULL
         mayDelete : BOOLEAN]     \* canDeleteCms

\* The body of an update: the role and isActive, either of which may be absent.
Change == [role : Role \cup {Keep}, lock : {"set", "clear", "leave"}]

Taking == {"trash", "purge"}
Ops    == {"update", "remove", "permit", "invite", "restore"} \cup Taking

\* `senior`: the actor was a Super Admin when authorised.  `moved`, `skewed`:
\* since the check the target was written, or a transaction of the trash took a
\* Super Admin away.  `lost` is history: since the check some Super Admin went,
\* and not between two transactions of the trash.
Request == [op : Ops, actor : Account, target : Account, change : Change,
            permit : BOOLEAN, senior : BOOLEAN, checked : BOOLEAN,
            moved : BOOLEAN, skewed : BOOLEAN, lost : BOOLEAN]

ASSUME StaffAssumption ==
    /\ Keep \notin Role
    /\ Idle \notin Request
    /\ Changes \subseteq Change

VARIABLES
    user,       \* the table
    request

(* History variables: they record what happened and guard nothing.         *)
VARIABLES
    raced,      \* a Super Admin was taken by a request whose check was outdated
    usurped     \* one who administers was taken by somebody who no longer did,
                \* or took himself on an outdated check

vars == <<user, request, raced, usurped>>

TypeOK ==
    /\ user \in [Account -> User]
    /\ request \in [Slot -> Request \cup {Idle}]
    /\ \A q \in Slot : request[q] # Idle /\ request[q].op = "invite" =>
           request[q].change.role \in Role
    /\ raced \in BOOLEAN
    /\ usurped \in BOOLEAN

NoUser == [life |-> "none", role |-> "EDITOR", active |-> FALSE, setUp |-> FALSE,
           mayDelete |-> FALSE]

\* The seed: one Super Admin.
Founder == [life |-> "live", role |-> "SUPER_ADMIN", active |-> TRUE, setUp |-> TRUE,
            mayDelete |-> FALSE]

Init ==
    /\ \E f \in Account : user = [a \in Account |-> IF a = f THEN Founder ELSE NoUser]
    /\ request = [q \in Slot |-> Idle]
    /\ raced = FALSE
    /\ usurped = FALSE

-----------------------------------------------------------------------------
(* Who is who                                                              *)

Live(u)         == u.life = "live"
Exists(u)       == u.life \in {"live", "trashed"}
IsSuperAdmin(u) == Live(u) /\ u.active /\ u.role = "SUPER_ADMIN"
CanLogIn(u)     == Live(u) /\ u.active /\ u.setUp
Administers(u)  == CanLogIn(u) /\ u.role = "SUPER_ADMIN"

SuperAdmins == {a \in Account : IsSuperAdmin(user[a])}

\* A mistaken count that forgets isActive.
AnyoneElse(a) == \E b \in Account \ {a} : Live(user[b]) /\ user[b].role = "SUPER_ADMIN"

\* assertNotLastSuperAdmin(): whether a Super Admin is left without a.
OthersRemain(a) == SuperAdmins \ {a} # {}

-----------------------------------------------------------------------------
(* A request comes in                                                      *)

Begin(q, op, a, b, change, permit) ==
    /\ op \in Routes
    /\ request[q] = Idle
    /\ request' = [request EXCEPT ![q] =
           [op |-> op, actor |-> a, target |-> b, change |-> change, permit |-> permit,
            senior |-> user[a].role = "SUPER_ADMIN", checked |-> FALSE,
            moved |-> FALSE, skewed |-> FALSE, lost |-> FALSE]]
    /\ UNCHANGED <<user, raced, usurped>>

NoChange == [role |-> Keep, lock |-> "leave"]

\* The routes of UsersController: JwtStrategy and RolesGuard.
BeginUpdate(q, a, b, change) ==
    Administers(user[a]) /\ Begin(q, "update", a, b, change, FALSE)

BeginRemove(q, a, b) ==
    Administers(user[a]) /\ Begin(q, "remove", a, b, NoChange, FALSE)

BeginPermit(q, a, b, permit) ==
    Administers(user[a]) /\ Begin(q, "permit", a, b, NoChange, permit)

BeginInvite(q, a, b, role) ==
    /\ Administers(user[a])
    /\ user[b].life = "none"
    /\ Begin(q, "invite", a, b, [NoChange EXCEPT !.role = role], FALSE)

\* The routes of the trash: authorize().
BeginTrash(q, op, a, b) ==
    /\ CanLogIn(user[a])
    /\ user[a].role = "SUPER_ADMIN" \/ user[a].mayDelete
    /\ Begin(q, op, a, b, NoChange, FALSE)

-----------------------------------------------------------------------------
(* It looks at its target                                                  *)

Pending(q, op) == request[q] # Idle /\ request[q].op = op /\ ~request[q].checked
Ready(q, op)   == request[q] # Idle /\ request[q].op = op /\ request[q].checked

Checked(q) ==
    /\ request' = [request EXCEPT ![q] = [@ EXCEPT !.checked = TRUE]]
    /\ UNCHANGED <<user, raced, usurped>>

\* The update takes the Super Admin's rights away.
Demotes(change) ==
    \/ change.role \notin {Keep, "SUPER_ADMIN"}
    \/ change.lock = "set"

\* A mistaken route that takes its caller for a target like any other.
AnyTarget(c) == TRUE

\* Nobody removes himself.
NotOneself(c) == c.actor # c.target

CheckUpdate(q) ==
    LET c == request[q]
        u == user[c.target]
    IN  /\ Pending(q, "update")
        /\ Live(u)
        /\ c.actor = c.target => c.change.role \in {Keep, u.role} /\ c.change.lock # "set"
        /\ u.role = "SUPER_ADMIN" /\ Demotes(c.change) => OthersRemain(c.target)
        /\ Checked(q)

CheckRemove(q) ==
    LET c == request[q]
    IN  /\ Pending(q, "remove")
        /\ Live(user[c.target])
        /\ NotOneself(c)
        /\ user[c.target].role = "SUPER_ADMIN" => OthersRemain(c.target)
        /\ Checked(q)

\* updateDeletePermissions() looks at the actor again.
CheckPermit(q) ==
    LET c == request[q]
    IN  /\ Pending(q, "permit")
        /\ IsSuperAdmin(user[c.actor])
        /\ Live(user[c.target])
        /\ user[c.target].role # "SUPER_ADMIN"
        /\ Checked(q)

\* trash() and purge(): the snapshot of the transaction.
CheckTaking(q, op) ==
    LET c == request[q]
        u == user[c.target]
    IN  /\ Pending(q, op)
        /\ IF op = "trash" THEN Live(u) ELSE Exists(u)
        /\ NotOneself(c)
        /\ u.role = "SUPER_ADMIN" => c.senior /\ OthersRemain(c.target)
        /\ Checked(q)

-----------------------------------------------------------------------------
(* It writes                                                               *)

\* A request in flight after a write of the row b.
Outdated(c, b, taken, serial) ==
    IF ~c.checked THEN c
    ELSE [c EXCEPT !.moved  = @ \/ c.target = b,
                   !.skewed = @ \/ (taken /\ serial),
                   !.lost   = @ \/ (taken /\ ~(serial /\ c.op \in Taking))]

\* The row b becomes u, written by the request in slot q; `serial` tells a
\* transaction of the trash from a plain UPDATE.
Write(q, u, serial) ==
    LET c     == request[q]
        b     == c.target
        taken == IsSuperAdmin(user[b]) /\ ~IsSuperAdmin(u)
    IN  /\ user' = [user EXCEPT ![b] = u]
        /\ request' = [p \in Slot |->
               IF p = q \/ request[p] = Idle THEN Idle
               ELSE Outdated(request[p], b, taken, serial)]
        /\ raced' = (raced \/ (taken /\ (c.moved \/ c.lost)))
        /\ usurped' = (usurped \/ /\ Administers(user[b]) /\ ~Administers(u)
                                  /\ \/ ~Administers(user[c.actor])
                                     \/ c.actor = b /\ c.moved)

\* A mistaken update that writes the columns its body leaves out.
RoleOverwritten(old, new) == new

NewRole(old, new) == IF new = Keep THEN old ELSE new

WriteUpdate(q) ==
    LET c == request[q]
        u == user[c.target]
    IN  /\ Ready(q, "update")
        /\ Exists(u)
        /\ Write(q, [u EXCEPT !.role   = NewRole(@, c.change.role),
                              !.active = c.change.lock # "set" /\ (@ \/ c.change.lock = "clear")],
                 FALSE)

WriteRemove(q) ==
    /\ Ready(q, "remove")
    /\ Exists(user[request[q].target])
    /\ Write(q, [user[request[q].target] EXCEPT !.active = FALSE], FALSE)

WritePermit(q) ==
    /\ Ready(q, "permit")
    /\ Exists(user[request[q].target])
    /\ Write(q, [user[request[q].target] EXCEPT !.mayDelete = request[q].permit], FALSE)

\* createInvitation(): the account counts as active before it is set up.  Its
\* invitation refers to the one who invited, whose row must still be there.
WriteInvite(q) ==
    LET c == request[q]
    IN  /\ Pending(q, "invite")
        /\ Exists(user[c.actor])
        /\ user[c.target].life = "none"
        /\ Write(q, [NoUser EXCEPT !.life = "live", !.role = c.change.role,
                                   !.active = TRUE], FALSE)

\* A mistaken isolation level: the transaction does not notice the others.
UnnoticedOthers(c) == TRUE

\* What PostgreSQL lets a SERIALIZABLE transaction commit: its row is as it saw
\* it, and so is what it counted, as far as other such transactions go.
Serializable(c) == ~c.moved /\ ~(c.skewed /\ user[c.target].role = "SUPER_ADMIN")

CommitTaking(q, op) ==
    /\ Ready(q, op)
    /\ Serializable(request[q])
    /\ Write(q, IF op = "trash"
                THEN [user[request[q].target] EXCEPT !.life = "trashed", !.active = FALSE]
                ELSE [user[request[q].target] EXCEPT !.life = "purged"],
             TRUE)

\* restore() looks at one row only.  The account comes back locked.
CommitRestore(q) ==
    LET c == request[q]
        u == user[c.target]
    IN  /\ Pending(q, "restore")
        /\ u.life = "trashed"
        /\ u.role = "SUPER_ADMIN" => c.senior
        /\ Write(q, [u EXCEPT !.life = "live", !.active = FALSE], TRUE)

\* acceptInvitation(), by the one who was invited.
Accept(b) ==
    /\ Live(user[b]) /\ user[b].active /\ ~user[b].setUp
    /\ user' = [user EXCEPT ![b].setUp = TRUE]
    /\ request' = [p \in Slot |->
           IF request[p] = Idle THEN Idle ELSE Outdated(request[p], b, FALSE, FALSE)]
    /\ UNCHANGED <<raced, usurped>>

\* Refused, aborted, failed, or the process died.
Abandon(q) ==
    /\ request[q] # Idle
    /\ request' = [request EXCEPT ![q] = Idle]
    /\ UNCHANGED <<user, raced, usurped>>

-----------------------------------------------------------------------------
BeginStep(q, a, b) ==
    \/ \E change \in Changes : BeginUpdate(q, a, b, change)
    \/ BeginRemove(q, a, b)
    \/ \E permit \in BOOLEAN : BeginPermit(q, a, b, permit)
    \/ \E role \in Role : BeginInvite(q, a, b, role)
    \/ \E op \in {"trash", "restore", "purge"} : BeginTrash(q, op, a, b)

CheckStep(q) ==
    \/ CheckUpdate(q) \/ CheckRemove(q) \/ CheckPermit(q)
    \/ \E op \in Taking : CheckTaking(q, op)

WriteStep(q) ==
    \/ WriteUpdate(q) \/ WriteRemove(q) \/ WritePermit(q) \/ WriteInvite(q)
    \/ \E op \in Taking : CommitTaking(q, op)
    \/ CommitRestore(q)

Next ==
    \/ \E q \in Slot, a, b \in Account : BeginStep(q, a, b)
    \/ \E q \in Slot : CheckStep(q) \/ WriteStep(q) \/ Abandon(q)
    \/ \E b \in Account : Accept(b)

Spec == Init /\ [][Next]_vars

-----------------------------------------------------------------------------
(* Safety                                                                  *)

\* The count keeps an active Super Admin, and where it does not, some request
\* took one away on a check that was outdated when it wrote.  In particular the
\* trash alone never takes the last one.  (assertNotLastSuperAdmin, trash, purge)
LastSuperAdminKept == ~raced => SuperAdmins # {}

\* Somebody who can log in administers the accounts, whatever the count counted
\* (it takes invited accounts for active ones), unless a request was carried out
\* for an actor who had lost his own rights meanwhile.  (the rules on isSelf in
\* update, and on the actor in remove, trash and purge)
SomebodyAdministers == ~usurped => \E a \in Account : Administers(user[a])

\* No member with the delete permission moves a Super Admin to or out of the
\* trash, nor one who became Super Admin while the request was under way.
\* (the rules on the actor's role in trash, restore and purge)
MembersSpareSuperAdmins ==
    [][\A b \in Account :
          /\ Exists(user[b]) /\ user[b].role = "SUPER_ADMIN"
          /\ user'[b].life # user[b].life
          =>
             \E q \in Slot : /\ request[q] # Idle /\ request'[q] = Idle
                             /\ request[q].target = b
                             /\ request[q].senior]_vars

-----------------------------------------------------------------------------
(* The inductive invariant behind the safety properties                    *)

\* What a request may take from its target by the write that is still to come.
Takes(c) == c.op \in {"remove"} \cup Taking \/ (c.op = "update" /\ Demotes(c.change))

\* What a check that nothing has outdated still guarantees.
CheckHolds(c) ==
    /\ c.op \notin {"invite", "restore"}
    /\ ~c.moved /\ c.actor = c.target /\ Takes(c) => user[c.target].role # "SUPER_ADMIN"
    /\ ~c.moved /\ c.op \in Taking /\ user[c.target].role = "SUPER_ADMIN" => c.senior
    /\ /\ ~c.moved /\ ~c.lost /\ (c.op \in Taking => ~c.skewed)
       /\ Takes(c) /\ IsSuperAdmin(user[c.target])
       => OthersRemain(c.target)

ChecksInv == \A q \in Slot : request[q] # Idle /\ request[q].checked => CheckHolds(request[q])

StaffInv ==
    /\ TypeOK
    /\ ChecksInv
    /\ LastSuperAdminKept
    /\ SomebodyAdministers

-----------------------------------------------------------------------------
(* What a message of the service says with no exception for races          *)

\* users.service.ts: there must be at least one active Super Admin.
SuperAdminRemains == SuperAdmins # {}
=============================================================================
