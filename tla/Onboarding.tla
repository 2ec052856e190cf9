----------------------------- MODULE Onboarding -----------------------------
(***************************************************************************)
(* How an account comes to log in: its invitations, the acceptance that     *)
(* sets its first password, and the lock after too many wrong passwords.    *)
(*                                                                         *)
(* acceptInvitation() is a READ COMMITTED transaction of four statements.   *)
(* It is modelled with the row locks it holds: on the invitation from its   *)
(* claim on, on the account from its write on.  What it writes is visible   *)
(* when it commits.  A statement that meets a locked row waits, and a       *)
(* deadlock is broken by abandoning a transaction.                          *)
(***************************************************************************)
EXTENDS Naturals

CONSTANTS
    Invite,       \* rows of account_invitations that can be created
    Caller,       \* requests that can be in flight at the same time
    NoCall,       \* a slot with no request in it
    NoInvite,     \* no row of account_invitations
    MaxFailed     \* MAX_FAILED_ATTEMPTS

\* `wrong` is failedLoginAttempts; `lock` is lockedUntil: NULL, in the future, past.
Owner == [life   : {"live", "trashed", "purged"},
          active : BOOLEAN,
          setUp  : BOOLEAN,
          wrong  : 0..(MaxFailed - 1),
          lock   : {"none", "held", "over"}]

\* The statements a request has still to run: a login with a wrong or the right
\* password; the replacement of the invitations by a new one, their discarding;
\* and an acceptance that has claimed its invitation, checked the account,
\* written it, and listed the invitations to revoke.
Accepting == {"claimed", "checked", "written", "revoking"}
Statements == {"wrong", "right", "resend", "replace", "revoke", "discard"} \cup Accepting

\* `wrong` is the count a login read; `seen` are the open invitations that an
\* updateMany found when it started; `stale` is history: the count was written
\* since it was read.
Call == [op : Statements, invite : Invite \cup {NoInvite}, seen : SUBSET Invite,
         wrong : 0..(MaxFailed - 1), stale : BOOLEAN]

ASSUME OnboardingAssumption ==
    /\ MaxFailed \in Nat \ {0}
    /\ NoInvite \notin Invite
    /\ NoCall \notin Call

VARIABLES
    account,    \* the row of users
    invite,     \* account_invitations; "dead" is revoked or deleted
    cooling,    \* the last invitation is less than RESEND_COOLDOWN_MS old
    call        \* the requests in flight

(* History variables: they record what happened and guard nothing.          *)
VARIABLES
    setBy,      \* the invitations that set the password
    late,       \* an invitation was created past an acceptance's last statement
    guesses,    \* wrong passwords answered since the last lock or right one
    miscounted  \* a login wrote a count that had changed since it read it

onboardingVars    == <<account, invite, cooling, call, setBy, late, guesses, miscounted>>
onboardingHistory == <<setBy, late, guesses, miscounted>>

\* The request in slot q has the statement op still to run; it is an acceptance.
Runs(q, op) == call[q] # NoCall /\ call[q].op = op
Accepts(q)  == call[q] # NoCall /\ call[q].op \in Accepting

OnboardingTypeOK ==
    /\ account \in Owner
    /\ invite \in [Invite -> {"unused", "live", "expired", "used", "dead"}]
    /\ cooling \in BOOLEAN
    /\ call \in [Caller -> Call \cup {NoCall}]
    /\ \A q \in Caller : Accepts(q) => call[q].invite \in Invite
    /\ setBy \subseteq Invite
    /\ late \in BOOLEAN /\ miscounted \in BOOLEAN
    /\ guesses \in Nat

Nothing == [op |-> "wrong", invite |-> NoInvite, seen |-> {}, wrong |-> 0, stale |-> FALSE]

\* createInvitation(): the account waits for its owner.
OnboardingInit ==
    /\ account = [life |-> "live", active |-> TRUE, setUp |-> FALSE, wrong |-> 0,
                  lock |-> "none"]
    /\ \E i \in Invite :
           invite = [j \in Invite |-> IF j = i THEN "live" ELSE "unused"]
    /\ cooling = TRUE
    /\ call = [q \in Caller |-> NoCall]
    /\ setBy = {}
    /\ late = FALSE /\ miscounted = FALSE
    /\ guesses = 0

-----------------------------------------------------------------------------
(* Rows and locks                                                          *)

\* The rows an acceptance has locked: its invitation, and later the account.
Claimed(i) == \E q \in Caller : Accepts(q) /\ call[q].invite = i
Holds(q)   == Runs(q, "written") \/ Runs(q, "revoking")
Held       == \E q \in Caller : Holds(q)

\* Neither used nor revoked: what every updateMany looks for, expired or not.
Open(i) == invite[i] \in {"live", "expired"}

OpenInvites == {i \in Invite : Open(i)}

\* The rows of S that are still open are revoked or deleted.
Killed(S) == [i \in Invite |-> IF i \in S /\ Open(i) THEN "dead" ELSE invite[i]]

Put(q, c) == call' = [call EXCEPT ![q] = c]

Step(q, op) ==
    /\ Put(q, [call[q] EXCEPT !.op = op])
    /\ UNCHANGED <<account, invite, cooling, onboardingHistory>>

HangUp(q) ==
    /\ call[q] # NoCall
    /\ Put(q, NoCall)
    /\ UNCHANGED <<account, invite, cooling, onboardingHistory>>

-----------------------------------------------------------------------------
(* Sending and withdrawing invitations                                      *)

\* resendInvitation(): the checks, outside the transaction.
ReadForResend(q) ==
    /\ call[q] = NoCall
    /\ account.life = "live" /\ ~account.setUp /\ account.active
    /\ ~cooling
    /\ Put(q, [Nothing EXCEPT !.op = "resend"])
    /\ UNCHANGED <<account, invite, cooling, onboardingHistory>>

\* revokeInvitation(): its check.
ReadForRevoke(q) ==
    /\ call[q] = NoCall
    /\ account.life = "live" /\ ~account.setUp
    /\ Put(q, [Nothing EXCEPT !.op = "revoke"])
    /\ UNCHANGED <<account, invite, cooling, onboardingHistory>>

\* updateMany over the invitations that are open when it starts.
ListInvites(q, before, after) ==
    /\ Runs(q, before)
    /\ Put(q, [call[q] EXCEPT !.op = after, !.seen = OpenInvites])
    /\ UNCHANGED <<account, invite, cooling, onboardingHistory>>

\* A resend commits: what it listed dies, a new invitation comes.  The row of
\* the account must still be there for it.
Replace(q, i) ==
    /\ Runs(q, "replace")
    /\ account.life # "purged"
    /\ \A j \in call[q].seen : ~Claimed(j)
    /\ invite[i] = "unused"
    /\ invite' = [Killed(call[q].seen) EXCEPT ![i] = "live"]
    /\ cooling' = TRUE
    /\ Put(q, NoCall)
    /\ late' = (late \/ \E p \in Caller : Runs(p, "revoking"))
    /\ UNCHANGED <<account, setBy, guesses, miscounted>>

Discard(q) ==
    /\ Runs(q, "discard")
    /\ \A j \in call[q].seen : ~Claimed(j)
    /\ invite' = Killed(call[q].seen)
    /\ Put(q, NoCall)
    /\ UNCHANGED <<account, cooling, onboardingHistory>>

CoolDown ==
    /\ cooling
    /\ cooling' = FALSE
    /\ UNCHANGED <<account, invite, call, onboardingHistory>>

\* Its time is over.  A row claimed by then stays claimed.
Expire(i) ==
    /\ invite[i] = "live"
    /\ invite' = [invite EXCEPT ![i] = "expired"]
    /\ UNCHANGED <<account, cooling, call, onboardingHistory>>

-----------------------------------------------------------------------------
(* Accepting one                                                            *)

Claim(q, i) ==
    /\ call[q] = NoCall
    /\ invite[i] = "live" /\ ~Claimed(i)
    /\ Put(q, [Nothing EXCEPT !.op = "claimed", !.invite = i])
    /\ UNCHANGED <<account, invite, cooling, onboardingHistory>>

\* A mistaken acceptance that trusts the claim alone.
ClaimSuffices == account.life = "live" /\ account.active

AwaitsSetUp == account.life = "live" /\ account.active /\ ~account.setUp

CheckAccount(q) ==
    /\ Runs(q, "claimed")
    /\ AwaitsSetUp
    /\ Step(q, "checked")

\* The account's row is locked from here to the end.
WriteAccount(q) ==
    /\ Runs(q, "checked")
    /\ account.life # "purged" /\ ~Held
    /\ Step(q, "written")

\* A mistaken acceptance that forgets the other invitations.
OthersForgotten(q) == {}

\* The other invitations that the last statement finds.
Others(q) == OpenInvites \ {call[q].invite}

ListOthers(q) ==
    /\ Runs(q, "written")
    /\ Put(q, [call[q] EXCEPT !.op = "revoking", !.seen = Others(q)])
    /\ UNCHANGED <<account, invite, cooling, onboardingHistory>>

\* It commits, once none of the other invitations is locked any more.
FinishAccept(q) ==
    LET i == call[q].invite
    IN  /\ Runs(q, "revoking")
        /\ \A j \in call[q].seen : ~Claimed(j)
        /\ invite' = [Killed(call[q].seen) EXCEPT ![i] = "used"]
        /\ account' = [account EXCEPT !.setUp = TRUE]
        /\ setBy' = setBy \cup {i}
        /\ Put(q, NoCall)
        /\ UNCHANGED <<cooling, late, guesses, miscounted>>

-----------------------------------------------------------------------------
(* Logging in                                                               *)

\* A mistaken login that does not look at the lock.
LockIgnored == TRUE

LockOpen == account.lock # "held"

\* login(): the account is read, and the password compared with what was read.
ReadForLogin(q, answer) ==
    /\ call[q] = NoCall
    /\ account.life = "live" /\ account.active /\ account.setUp
    /\ LockOpen
    /\ Put(q, [Nothing EXCEPT !.op = answer, !.wrong = account.wrong])
    /\ UNCHANGED <<account, invite, cooling, onboardingHistory>>

\* The count and the lock are written; the logins in flight have read old ones.
WriteCount(q, wrong, lock) ==
    /\ account.life # "purged" /\ ~Held
    /\ account' = [account EXCEPT !.wrong = wrong, !.lock = lock]
    /\ call' = [p \in Caller |->
           IF p = q \/ call[p] = NoCall THEN NoCall
           ELSE [call[p] EXCEPT !.stale = TRUE]]
    /\ miscounted' = (miscounted \/ call[q].stale)
    /\ UNCHANGED <<invite, cooling, setBy, late>>

\* A mistaken threshold, and a mistaken lock that never comes.
OneMore(n) == n > MaxFailed

TooMany(n) == n >= MaxFailed

WriteWrong(q) ==
    LET n == call[q].wrong + 1
    IN  /\ Runs(q, "wrong")
        /\ IF TooMany(n) THEN WriteCount(q, 0, "held") /\ guesses' = 0
           ELSE WriteCount(q, n, "none") /\ guesses' = guesses + 1

WriteRight(q) ==
    /\ Runs(q, "right")
    /\ WriteCount(q, 0, "none")
    /\ guesses' = 0

\* Fifteen minutes have passed.
LockEnds ==
    /\ account.lock = "held"
    /\ account' = [account EXCEPT !.lock = "over"]
    /\ UNCHANGED <<invite, cooling, call, onboardingHistory>>

-----------------------------------------------------------------------------
(* What the administrators do to the account meanwhile                      *)

SetActive(active) ==
    /\ account.life = "live" /\ ~Held
    /\ account.active # active
    /\ account' = [account EXCEPT !.active = active]
    /\ UNCHANGED <<invite, cooling, call, onboardingHistory>>

Trash ==
    /\ account.life = "live" /\ ~Held
    /\ account' = [account EXCEPT !.life = "trashed", !.active = FALSE]
    /\ UNCHANGED <<invite, cooling, call, onboardingHistory>>

Restore ==
    /\ account.life = "trashed" /\ ~Held
    /\ account' = [account EXCEPT !.life = "live", !.active = FALSE]
    /\ UNCHANGED <<invite, cooling, call, onboardingHistory>>

\* The invitations go with the account.
Purge ==
    /\ account.life # "purged" /\ ~Held
    /\ \A i \in Invite : ~Claimed(i)
    /\ account' = [account EXCEPT !.life = "purged"]
    /\ invite' = Killed(Invite)
    /\ UNCHANGED <<cooling, call, onboardingHistory>>

\* The purge of the one who invited deletes the invitations he sent.
Disinvite(S) ==
    /\ S # {} /\ \A i \in S : Open(i) /\ ~Claimed(i)
    /\ invite' = Killed(S)
    /\ UNCHANGED <<account, cooling, call, onboardingHistory>>

-----------------------------------------------------------------------------
InviteStep ==
    \/ \E q \in Caller : \/ ReadForResend(q) \/ ReadForRevoke(q)
                       \/ ListInvites(q, "resend", "replace")
                       \/ ListInvites(q, "revoke", "discard")
                       \/ Discard(q)
    \/ \E q \in Caller, i \in Invite : Replace(q, i)
    \/ CoolDown
    \/ \E i \in Invite : Expire(i)

AcceptStep ==
    \/ \E q \in Caller, i \in Invite : Claim(q, i)
    \/ \E q \in Caller : CheckAccount(q) \/ WriteAccount(q) \/ ListOthers(q) \/ FinishAccept(q)

LoginStep ==
    \/ \E q \in Caller, answer \in {"wrong", "right"} : ReadForLogin(q, answer)
    \/ \E q \in Caller : WriteWrong(q) \/ WriteRight(q)
    \/ LockEnds

AdminStep ==
    \/ \E active \in BOOLEAN : SetActive(active)
    \/ Trash \/ Restore \/ Purge
    \/ \E S \in SUBSET Invite : Disinvite(S)

OnboardingNext ==
    \/ InviteStep \/ AcceptStep \/ LoginStep \/ AdminStep
    \/ \E q \in Caller : HangUp(q)

OnboardingSpec == OnboardingInit /\ [][OnboardingNext]_onboardingVars

-----------------------------------------------------------------------------
(* Safety                                                                   *)

\* One acceptance sets the password, however many invitations overlapping resends
\* have left alive and however many people follow them at once: an acceptance
\* that would be the second one waits for the first, which waits for it.  Only an
\* invitation created past the last statement of an acceptance escapes.
\* (acceptInvitation)
SetUpOnce == ~late => \A i, j \in setBy : i = j

\* Logins that do not overlap are counted one by one: a wrong password is never
\* the MaxFailed-th in a row without locking the account.  (login)
GuessesCounted == ~miscounted => guesses = account.wrong /\ guesses < MaxFailed

\* Nothing but the clock ends a lock, unless a login that had read the account
\* before writes after.  (login)
LockStands ==
    [][account.lock = "held" =>
         account'.lock \in {"held", "over"} \/ miscounted']_onboardingVars

-----------------------------------------------------------------------------
(* The inductive invariant behind them                                      *)

\* Row locks: no two acceptances hold the same row, and nobody revokes a row that
\* is claimed.
LocksInv ==
    \A p \in Caller : Accepts(p) =>
        /\ Open(call[p].invite)
        /\ \A q \in Caller \ {p} : Accepts(q) =>
               /\ call[q].invite # call[p].invite
               /\ ~(Holds(p) /\ Holds(q))

\* The last statement of an acceptance lists every invitation that could be
\* claimed; and once the account is set up nobody is past its check.
OnceInv ==
    /\ setBy # {} => account.setUp
    /\ ~late => \A p \in Caller :
           /\ Runs(p, "revoking") => Others(p) \subseteq call[p].seen
           /\ account.setUp /\ Accepts(p) => Runs(p, "claimed")

\* A login that nothing overtook has read the count that stands, and no lock.
CountInv ==
    \A p \in Caller : (Runs(p, "wrong") \/ Runs(p, "right")) /\ ~call[p].stale =>
        call[p].wrong = account.wrong /\ LockOpen

OnboardingInv ==
    /\ OnboardingTypeOK
    /\ LocksInv
    /\ OnceInv
    /\ SetUpOnce
    /\ CountInv
    /\ GuessesCounted
=============================================================================
