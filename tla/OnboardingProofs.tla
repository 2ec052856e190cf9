-------------------------- MODULE OnboardingProofs --------------------------
(***************************************************************************)
(* Theorems about Onboarding for every set of invitations and slots, and   *)
(* every number of wrong passwords, and about its composition with Staff.  *)
(***************************************************************************)
EXTENDS MCAccounts, TLAPS

-----------------------------------------------------------------------------
(* Types                                                                   *)

\* What a slot may hold.
Fits(c) ==
    \/ c = NoCall
    \/ c \in Call /\ (c.op \in Accepting => c.invite \in Invite)

\* Putting a request in a slot keeps the slots well typed.
LEMMA PutTyped ==
    ASSUME OnboardingTypeOK, NEW q \in Caller, NEW c, Fits(c), Put(q, c)
    PROVE  /\ call' \in [Caller -> Call \cup {NoCall}]
           /\ \A p \in Caller : call'[p] # NoCall /\ call'[p].op \in Accepting =>
                  call'[p].invite \in Invite
           /\ call'[q] = c
           /\ \A p \in Caller \ {q} : call'[p] = call[p]
<1>1. c \in Call \cup {NoCall}
  BY DEF Fits
<1>2. /\ call' \in [Caller -> Call \cup {NoCall}]
      /\ call'[q] = c
      /\ \A p \in Caller \ {q} : call'[p] = call[p]
  BY <1>1 DEF OnboardingTypeOK, Put, Accepts
<1> QED
  BY <1>2 DEF OnboardingTypeOK, Fits, Accepts

\* The requests that come in, and the steps they take, fit a slot.
LEMMA RequestsTyped ==
    /\ \A op \in Statements, i \in Invite : Fits([Nothing EXCEPT !.op = op, !.invite = i])
    /\ \A op \in Statements \ Accepting, n \in 0..(MaxFailed - 1) :
           Fits([Nothing EXCEPT !.op = op, !.wrong = n])
    /\ \A op \in Statements \ Accepting : Fits([Nothing EXCEPT !.op = op])
    /\ \A c \in Call, op \in Statements, S \in SUBSET Invite :
           op \notin Accepting \/ c.invite \in Invite =>
               Fits([c EXCEPT !.op = op]) /\ Fits([c EXCEPT !.op = op, !.seen = S])
    /\ \A c \in Call : Fits(c) => Fits([c EXCEPT !.stale = TRUE])
    /\ Fits(NoCall)
<1> USE OnboardingAssumption
<1>1. Nothing \in Call
  BY DEF Nothing, Call, Statements
<1>2. \A op \in Statements, i \in Invite : Fits([Nothing EXCEPT !.op = op, !.invite = i])
  BY <1>1 DEF Nothing, Call, Fits
<1>3. /\ \A op \in Statements \ Accepting, n \in 0..(MaxFailed - 1) :
             Fits([Nothing EXCEPT !.op = op, !.wrong = n])
      /\ \A op \in Statements \ Accepting : Fits([Nothing EXCEPT !.op = op])
  BY <1>1 DEF Nothing, Call, Fits
<1>4. ASSUME NEW c \in Call, NEW op \in Statements, NEW S \in SUBSET Invite,
             op \notin Accepting \/ c.invite \in Invite
      PROVE  Fits([c EXCEPT !.op = op]) /\ Fits([c EXCEPT !.op = op, !.seen = S])
  BY <1>4 DEF Call, Fits
<1>5. ASSUME NEW c \in Call, Fits(c) PROVE Fits([c EXCEPT !.stale = TRUE])
  BY <1>5 DEF Call, Fits
<1> QED
  BY <1>2, <1>3, <1>4, <1>5 DEF Fits

\* Revoking keeps the invitations well typed.
LEMMA KilledTyped ==
    ASSUME OnboardingTypeOK, NEW S
    PROVE  Killed(S) \in [Invite -> {"unused", "live", "expired", "used", "dead"}]
BY DEF OnboardingTypeOK, Killed, Accepts

\* The steps of the invitations keep the types.
LEMMA InviteTyped ==
    ASSUME OnboardingTypeOK, InviteStep
    PROVE  OnboardingTypeOK'
<1> USE DEF onboardingHistory
<1>1. ASSUME NEW q \in Caller, ReadForResend(q) \/ ReadForRevoke(q) PROVE OnboardingTypeOK'
  BY <1>1, PutTyped, RequestsTyped
     DEF ReadForResend, ReadForRevoke, OnboardingTypeOK, Statements, Accepting, Accepts
<1>2. ASSUME NEW q \in Caller, NEW before, NEW after \in Statements \ Accepting,
             ListInvites(q, before, after)
      PROVE  OnboardingTypeOK'
  <2>1. Fits([call[q] EXCEPT !.op = after, !.seen = OpenInvites])
    BY <1>2, RequestsTyped DEF ListInvites, Runs, OnboardingTypeOK, OpenInvites, Accepts
  <2> QED
    BY <1>2, <2>1, PutTyped DEF ListInvites, OnboardingTypeOK, Accepts
<1>3. ASSUME NEW q \in Caller, Discard(q) PROVE OnboardingTypeOK'
  BY <1>3, PutTyped, KilledTyped, RequestsTyped DEF Discard, OnboardingTypeOK, Accepts
<1>4. ASSUME NEW q \in Caller, NEW i \in Invite, Replace(q, i) PROVE OnboardingTypeOK'
  BY <1>4, PutTyped, KilledTyped, RequestsTyped DEF Replace, OnboardingTypeOK, Accepts
<1>5. CASE CoolDown
  BY <1>5 DEF CoolDown, OnboardingTypeOK, Accepts
<1>6. ASSUME NEW i \in Invite, Expire(i) PROVE OnboardingTypeOK'
  BY <1>6 DEF Expire, OnboardingTypeOK, Accepts
<1> QED
  BY <1>1, <1>2, <1>3, <1>4, <1>5, <1>6 DEF InviteStep, Statements, Accepting

\* The steps of an acceptance keep the types.
LEMMA AcceptTyped ==
    ASSUME OnboardingTypeOK, AcceptStep
    PROVE  OnboardingTypeOK'
<1> USE DEF onboardingHistory
<1>1. ASSUME NEW q \in Caller, NEW i \in Invite, Claim(q, i) PROVE OnboardingTypeOK'
  BY <1>1, PutTyped, RequestsTyped DEF Claim, OnboardingTypeOK, Statements, Accepting, Accepts
<1>2. ASSUME NEW q \in Caller, NEW op \in Accepting, Step(q, op),
             call[q] # NoCall, call[q].op \in Accepting
      PROVE  OnboardingTypeOK'
  <2>1. Fits([call[q] EXCEPT !.op = op])
    BY <1>2, RequestsTyped DEF OnboardingTypeOK, Statements, Accepts
  <2> QED
    BY <1>2, <2>1, PutTyped DEF Step, OnboardingTypeOK, Accepts
<1>3. ASSUME NEW q \in Caller, ListOthers(q) PROVE OnboardingTypeOK'
  <2>1. Fits([call[q] EXCEPT !.op = "revoking", !.seen = Others(q)])
    BY <1>3, RequestsTyped
       DEF ListOthers, Runs, OnboardingTypeOK, Others, OpenInvites, Statements, Accepting,
            Accepts
  <2> QED
    BY <1>3, <2>1, PutTyped DEF ListOthers, OnboardingTypeOK, Accepts
<1>4. ASSUME NEW q \in Caller, FinishAccept(q) PROVE OnboardingTypeOK'
  <2>1. call[q].invite \in Invite
    BY <1>4 DEF FinishAccept, Runs, OnboardingTypeOK, Accepting, Accepts
  <2>2. account' \in Owner
    BY <1>4 DEF FinishAccept, OnboardingTypeOK, Owner, Accepts
  <2>3. invite' \in [Invite -> {"unused", "live", "expired", "used", "dead"}]
    BY <1>4, <2>1, KilledTyped DEF FinishAccept
  <2> QED
    BY <1>4, <2>1, <2>2, <2>3, PutTyped, RequestsTyped
       DEF FinishAccept, OnboardingTypeOK, Accepts
<1> QED
  BY <1>1, <1>2, <1>3, <1>4 DEF AcceptStep, CheckAccount, WriteAccount, Runs, Accepting

\* Writing the count keeps the types.
LEMMA CountTyped ==
    ASSUME OnboardingTypeOK, NEW q \in Caller, call[q] # NoCall, NEW n \in 0..(MaxFailed - 1),
           NEW lock \in {"none", "held"}, WriteCount(q, n, lock), guesses' \in Nat
    PROVE  OnboardingTypeOK'
<1>1. \A p \in Caller : call[p] # NoCall =>
          call[p] \in Call /\ Fits([call[p] EXCEPT !.stale = TRUE])
  BY RequestsTyped DEF OnboardingTypeOK, Fits, Accepts
<1>2. call' \in [Caller -> Call \cup {NoCall}]
  BY <1>1, RequestsTyped DEF WriteCount, Fits
<1>3. \A p \in Caller : call'[p] # NoCall /\ call'[p].op \in Accepting =>
          call'[p].invite \in Invite
  BY <1>1 DEF WriteCount, Fits
<1>4. account' \in Owner
  BY DEF WriteCount, OnboardingTypeOK, Owner, Accepts
<1>5. miscounted' \in BOOLEAN
  BY DEF WriteCount, OnboardingTypeOK, Call, Accepts
<1> QED
  BY <1>2, <1>3, <1>4, <1>5 DEF WriteCount, OnboardingTypeOK, Accepts

\* The steps of a login keep the types.
LEMMA LoginTyped ==
    ASSUME OnboardingTypeOK, LoginStep
    PROVE  OnboardingTypeOK'
<1> USE OnboardingAssumption
<1>1. ASSUME NEW q \in Caller, NEW answer \in {"wrong", "right"}, ReadForLogin(q, answer)
      PROVE  OnboardingTypeOK'
  <2>1. Fits([Nothing EXCEPT !.op = answer, !.wrong = account.wrong])
    BY RequestsTyped DEF OnboardingTypeOK, Owner, Statements, Accepting, Accepts
  <2> QED
    BY <1>1, <2>1, PutTyped DEF ReadForLogin, OnboardingTypeOK, onboardingHistory, Accepts
<1>2. ASSUME NEW q \in Caller, WriteWrong(q) PROVE OnboardingTypeOK'
  <2>1. call[q].wrong \in 0..(MaxFailed - 1) /\ call[q] # NoCall
    BY <1>2 DEF WriteWrong, Runs, OnboardingTypeOK, Call, Accepts
  <2>2. guesses' \in Nat
    BY <1>2 DEF WriteWrong, OnboardingTypeOK, Accepts
  <2>3. CASE TooMany(call[q].wrong + 1)
    BY <1>2, <2>1, <2>2, <2>3, CountTyped DEF WriteWrong
  <2>4. CASE ~TooMany(call[q].wrong + 1)
    <3>1. call[q].wrong + 1 \in 0..(MaxFailed - 1)
      BY <2>1, <2>4 DEF TooMany
    <3> QED
      BY <1>2, <2>1, <2>2, <2>4, <3>1, CountTyped DEF WriteWrong
  <2> QED
    BY <2>3, <2>4
<1>3. ASSUME NEW q \in Caller, WriteRight(q) PROVE OnboardingTypeOK'
  BY <1>3, CountTyped DEF WriteRight, Runs
<1>4. CASE LockEnds
  BY <1>4 DEF LockEnds, OnboardingTypeOK, Owner, onboardingHistory, Accepts
<1> QED
  BY <1>1, <1>2, <1>3, <1>4 DEF LoginStep

\* The administrators' steps keep the types.
LEMMA AdminTyped ==
    ASSUME OnboardingTypeOK, AdminStep
    PROVE  OnboardingTypeOK'
<1> USE DEF onboardingHistory
<1>1. ASSUME NEW active \in BOOLEAN, SetActive(active) PROVE OnboardingTypeOK'
  BY <1>1 DEF SetActive, OnboardingTypeOK, Owner, Accepts
<1>2. CASE Trash \/ Restore
  BY <1>2 DEF Trash, Restore, OnboardingTypeOK, Owner, Accepts
<1>3. CASE Purge
  BY <1>3, KilledTyped DEF Purge, OnboardingTypeOK, Owner, Accepts
<1>4. ASSUME NEW S \in SUBSET Invite, Disinvite(S) PROVE OnboardingTypeOK'
  BY <1>4, KilledTyped DEF Disinvite, OnboardingTypeOK, Accepts
<1> QED
  BY <1>1, <1>2, <1>3, <1>4 DEF AdminStep

\* Type correctness of an account that is being set up and logged in to.
THEOREM OnboardingTyped == OnboardingSpec => []OnboardingTypeOK
<1>1. OnboardingInit => OnboardingTypeOK
  <2> SUFFICES ASSUME OnboardingInit PROVE OnboardingTypeOK
    OBVIOUS
  <2>1. account \in Owner
    BY OnboardingAssumption DEF OnboardingInit, Owner
  <2> QED
    BY <2>1 DEF OnboardingInit, OnboardingTypeOK, Accepts
<1>2. OnboardingTypeOK /\ [OnboardingNext]_onboardingVars => OnboardingTypeOK'
  <2> SUFFICES ASSUME OnboardingTypeOK, [OnboardingNext]_onboardingVars PROVE OnboardingTypeOK'
    OBVIOUS
  <2>1. ASSUME NEW q \in Caller, HangUp(q) PROVE OnboardingTypeOK'
    BY <2>1, PutTyped, RequestsTyped DEF HangUp, OnboardingTypeOK, onboardingHistory, Accepts
  <2>2. CASE UNCHANGED onboardingVars
    BY <2>2 DEF onboardingVars, OnboardingTypeOK, Accepts
  <2> QED
    BY <2>1, <2>2, InviteTyped, AcceptTyped, LoginTyped, AdminTyped DEF OnboardingNext
<1> QED
  BY <1>1, <1>2, PTL DEF OnboardingSpec

-----------------------------------------------------------------------------
(* The inductive invariant                                                 *)

\* Everything in OnboardingInv but the types.
Safe == LocksInv /\ OnceInv /\ SetUpOnce /\ CountInv /\ GuessesCounted

Claiming(c) == c # NoCall /\ c.op \in Accepting
Holding(c)  == c # NoCall /\ c.op \in {"written", "revoking"}

\* A step that puts c in the slot q keeps the locks, if it revokes no claimed row
\* and c fits in with the other acceptances.
LEMMA PutKeepsLocks ==
    ASSUME OnboardingInv, NEW q \in Caller, NEW c, Fits(c), Put(q, c),
           \A p \in Caller \ {q} : Accepts(p) => invite'[call[p].invite] \in {"live", "expired"},
           Claiming(c) =>
               /\ invite'[c.invite] \in {"live", "expired"}
               /\ \A p \in Caller \ {q} : Accepts(p) =>
                      /\ call[p].invite # c.invite
                      /\ ~(Holding(c) /\ Holds(p))
    PROVE  LocksInv'
<1>1. call'[q] = c /\ (\A p \in Caller \ {q} : call'[p] = call[p])
  BY PutTyped DEF OnboardingInv
<1>2. \A p \in Caller \ {q} : (Accepts(p)' <=> Accepts(p)) /\ (Holds(p)' <=> Holds(p))
  BY <1>1 DEF Accepts, Holds, Runs
<1>3. (Accepts(q)' <=> Claiming(c)) /\ (Holds(q)' <=> Holding(c))
  BY <1>1 DEF Accepts, Holds, Runs, Claiming, Holding
<1> QED
  BY <1>1, <1>2, <1>3 DEF OnboardingInv, LocksInv, Open

\* It keeps the acceptance unique, if it opens no invitation behind the back of an
\* acceptance that has listed the others.
LEMMA PutKeepsOnce ==
    ASSUME OnboardingInv, NEW q \in Caller, NEW c, Fits(c), Put(q, c),
           UNCHANGED <<setBy, account>>,
           late' \/ ~late,
           \/ late'
           \/ \A i \in Invite : Open(i)' => Open(i)
           \/ \A p \in Caller : ~Runs(p, "revoking"),
           c # NoCall /\ c.op = "revoking" =>
               \A i \in Invite \ {c.invite} : Open(i)' => i \in c.seen,
           ~late /\ account.setUp /\ Claiming(c) => c.op = "claimed"
    PROVE  OnceInv' /\ SetUpOnce'
<1>1. call'[q] = c /\ (\A p \in Caller \ {q} : call'[p] = call[p])
  BY PutTyped DEF OnboardingInv
<1>2. ASSUME ~late', NEW p \in Caller, Runs(p, "revoking")'
      PROVE  Others(p)' \subseteq call'[p].seen
  <2>1. CASE p = q
    BY <1>1, <1>2, <2>1 DEF Runs, Others, OpenInvites
  <2>2. CASE p # q
    <3>1. Runs(p, "revoking") /\ call'[p] = call[p]
      BY <1>1, <1>2, <2>2 DEF Runs
    <3>2. Others(p) \subseteq call[p].seen
      BY <1>2, <3>1 DEF OnboardingInv, OnceInv
    <3> QED
      BY <1>2, <3>1, <3>2 DEF Others, OpenInvites
  <2> QED
    BY <2>1, <2>2
<1>3. ASSUME ~late', NEW p \in Caller, account'.setUp, Accepts(p)'
      PROVE  Runs(p, "claimed")'
  BY <1>1, <1>3 DEF OnboardingInv, OnceInv, Accepts, Runs, Claiming
<1>4. SetUpOnce'
  BY DEF OnboardingInv, SetUpOnce
<1> QED
  BY <1>2, <1>3, <1>4 DEF OnboardingInv, OnceInv

\* It keeps the count, if c is no login or one that has just read it.
LEMMA PutKeepsCount ==
    ASSUME OnboardingInv, NEW q \in Caller, NEW c, Fits(c), Put(q, c),
           UNCHANGED <<guesses, miscounted>>, account'.wrong = account.wrong,
           account'.lock = account.lock,
           c # NoCall /\ c.op \in {"wrong", "right"} => c.wrong = account.wrong /\ LockOpen
    PROVE  CountInv' /\ GuessesCounted'
<1>1. call'[q] = c /\ (\A p \in Caller \ {q} : call'[p] = call[p])
  BY PutTyped DEF OnboardingInv
<1>2. CountInv'
  BY <1>1 DEF OnboardingInv, CountInv, Runs, LockOpen
<1> QED
  BY <1>2 DEF OnboardingInv, GuessesCounted

\* Steps that leave the requests alone, keep the claimed rows open and open none.
LEMMA FrameKeeps ==
    ASSUME OnboardingInv, UNCHANGED <<call, onboardingHistory>>,
           account'.setUp = account.setUp, account'.wrong = account.wrong,
           account.lock = account'.lock \/ account'.lock # "held",
           \A i \in Invite : Claimed(i) /\ Open(i) => Open(i)',
           \A i \in Invite : Open(i)' => Open(i)
    PROVE  Safe'
<1> USE DEF onboardingHistory
<1>1. \A p \in Caller : Accepts(p)' <=> Accepts(p)
  BY DEF Accepts
<1>2. \A p \in Caller : (Holds(p)' <=> Holds(p)) /\ (\A op : Runs(p, op)' <=> Runs(p, op))
  BY DEF Holds, Runs
<1>3. LocksInv'
  <2>1. \A p \in Caller : Accepts(p) => call[p].invite \in Invite /\ Claimed(call[p].invite)
    BY DEF Claimed, OnboardingInv, OnboardingTypeOK
  <2> QED
    BY <1>1, <1>2, <2>1 DEF OnboardingInv, LocksInv, Open
<1>4. OnceInv' /\ SetUpOnce'
  <2>1. \A p \in Caller : Others(p)' \subseteq Others(p)
    BY DEF Others, OpenInvites
  <2> QED
    BY <1>1, <1>2, <2>1 DEF OnboardingInv, OnceInv, SetUpOnce
<1>5. CountInv' /\ GuessesCounted'
  BY <1>2 DEF OnboardingInv, CountInv, GuessesCounted, LockOpen
<1> QED
  BY <1>3, <1>4, <1>5 DEF Safe

\* The three together, for the steps that touch nothing but their own slot.
LEMMA PutKeeps ==
    ASSUME OnboardingInv, NEW q \in Caller, NEW c, Fits(c), Put(q, c),
           UNCHANGED <<account, invite, onboardingHistory>>,
           Claiming(c) =>
               /\ Open(c.invite)
               /\ \A p \in Caller \ {q} : Accepts(p) =>
                      /\ call[p].invite # c.invite
                      /\ ~(Holding(c) /\ Holds(p)),
           c # NoCall /\ c.op = "revoking" => \A i \in Invite \ {c.invite} : Open(i) => i \in c.seen,
           ~late /\ account.setUp /\ Claiming(c) => c.op = "claimed",
           c # NoCall /\ c.op \in {"wrong", "right"} => c.wrong = account.wrong /\ LockOpen
    PROVE  Safe'
<1> USE DEF onboardingHistory
<1>1. LocksInv'
  <2>1. \A p \in Caller \ {q} : Accepts(p) => invite'[call[p].invite] \in {"live", "expired"}
    BY DEF OnboardingInv, LocksInv, Open
  <2> QED
    BY <2>1, PutKeepsLocks DEF Open
<1>2. OnceInv' /\ SetUpOnce'
  <2>1. \A i \in Invite : Open(i)' <=> Open(i)
    BY DEF Open
  <2> QED
    BY <2>1, PutKeepsOnce
<1>3. CountInv' /\ GuessesCounted'
  BY PutKeepsCount
<1> QED
  BY <1>1, <1>2, <1>3 DEF Safe

\* Sending and withdrawing invitations keeps the rest.
LEMMA InviteKeeps ==
    ASSUME OnboardingInv, InviteStep
    PROVE  Safe'
<1> USE DEF onboardingHistory
<1>1. ASSUME NEW q \in Caller, ReadForResend(q) \/ ReadForRevoke(q) PROVE Safe'
  <2>1. PICK op \in {"resend", "revoke"} : Put(q, [Nothing EXCEPT !.op = op])
    BY <1>1 DEF ReadForResend, ReadForRevoke
  <2> DEFINE c == [Nothing EXCEPT !.op = op]
  <2>2. Fits(c) /\ c.op = op
    <3>1. op \in Statements \ Accepting
      BY DEF Statements, Accepting
    <3> QED
      BY <3>1, RequestsTyped DEF Nothing
  <2>3. UNCHANGED <<account, invite, onboardingHistory>>
    BY <1>1 DEF ReadForResend, ReadForRevoke
  <2> HIDE DEF c
  <2> QED
    BY <2>1, <2>2, <2>3, PutKeeps DEF Claiming, Accepting, c
<1>2. ASSUME NEW q \in Caller, NEW before, NEW after \in {"replace", "discard"},
             ListInvites(q, before, after)
      PROVE  Safe'
  <2> DEFINE c == [call[q] EXCEPT !.op = after, !.seen = OpenInvites]
  <2>1. Fits(c) /\ c.op = after
    BY <1>2, RequestsTyped
       DEF ListInvites, Runs, OnboardingInv, OnboardingTypeOK, OpenInvites, Statements, Accepting, Call
  <2>2. Put(q, c) /\ UNCHANGED <<account, invite, onboardingHistory>>
    BY <1>2 DEF ListInvites
  <2> HIDE DEF c
  <2> QED
    BY <2>1, <2>2, PutKeeps DEF Claiming, Accepting
<1>3. ASSUME NEW q \in Caller, Discard(q) PROVE Safe'
  <2>1. \A p \in Caller : Accepts(p) => invite'[call[p].invite] \in {"live", "expired"}
    <3>1. ASSUME NEW p \in Caller, Accepts(p)
          PROVE  invite'[call[p].invite] \in {"live", "expired"}
      <4>1. call[p].invite \in Invite /\ Open(call[p].invite)
        BY <3>1 DEF OnboardingInv, OnboardingTypeOK, LocksInv
      <4>2. call[p].invite \notin call[q].seen
        BY <1>3, <3>1 DEF Discard, Claimed
      <4> QED
        BY <1>3, <4>1, <4>2 DEF Discard, Killed, Open
    <3> QED
      BY <3>1
  <2>2. \A i \in Invite : Open(i)' => Open(i)
    BY <1>3 DEF Discard, Killed, Open
  <2>3. Put(q, NoCall) /\ UNCHANGED <<account, onboardingHistory>> /\ Fits(NoCall)
    BY <1>3 DEF Discard, Fits
  <2>4. LocksInv'
    BY <2>1, <2>3, PutKeepsLocks DEF Claiming
  <2>5. OnceInv' /\ SetUpOnce'
    BY <2>2, <2>3, PutKeepsOnce DEF Claiming
  <2>6. CountInv' /\ GuessesCounted'
    BY <2>3, PutKeepsCount
  <2> QED
    BY <2>4, <2>5, <2>6 DEF Safe
<1>4. ASSUME NEW q \in Caller, NEW i \in Invite, Replace(q, i) PROVE Safe'
  <2>1. \A p \in Caller : Accepts(p) => invite'[call[p].invite] \in {"live", "expired"}
    <3>1. ASSUME NEW p \in Caller, Accepts(p)
          PROVE  invite'[call[p].invite] \in {"live", "expired"}
      <4>1. call[p].invite \in Invite /\ Open(call[p].invite)
        BY <3>1 DEF OnboardingInv, OnboardingTypeOK, LocksInv
      <4>2. call[p].invite \notin call[q].seen
        BY <1>4, <3>1 DEF Replace, Claimed
      <4> QED
        BY <1>4, <4>1, <4>2 DEF Replace, Killed, Open
    <3> QED
      BY <3>1
  <2>2. late' \/ \A p \in Caller : ~Runs(p, "revoking")
    BY <1>4 DEF Replace
  <2>3. /\ Put(q, NoCall) /\ UNCHANGED <<account, setBy, guesses, miscounted>>
        /\ Fits(NoCall) /\ (late' \/ ~late)
    BY <1>4 DEF Replace, Fits
  <2>4. LocksInv'
    BY <2>1, <2>3, PutKeepsLocks DEF Claiming
  <2>5. OnceInv' /\ SetUpOnce'
    BY <2>2, <2>3, PutKeepsOnce DEF Claiming
  <2>6. CountInv' /\ GuessesCounted'
    BY <2>3, PutKeepsCount
  <2> QED
    BY <2>4, <2>5, <2>6 DEF Safe
<1>5. CASE CoolDown
  BY <1>5, FrameKeeps DEF CoolDown, Open
<1>6. ASSUME NEW i \in Invite, Expire(i) PROVE Safe'
  <2>1. \A j \in Invite : Open(j)' <=> Open(j)
    BY <1>6 DEF Expire, Open, OnboardingInv, OnboardingTypeOK
  <2> QED
    BY <1>6, <2>1, FrameKeeps DEF Expire
<1> QED
  BY <1>1, <1>2, <1>3, <1>4, <1>5, <1>6 DEF InviteStep

\* The statements of an acceptance before its commit keep the rest.
LEMMA ClaimKeeps ==
    ASSUME OnboardingInv, NEW q \in Caller, NEW i \in Invite, Claim(q, i)
    PROVE  Safe'
<1> DEFINE c == [Nothing EXCEPT !.op = "claimed", !.invite = i]
<1>1. Fits(c) /\ c.op = "claimed" /\ c.invite = i
  BY RequestsTyped DEF Statements, Accepting, Nothing
<1>2. Put(q, c) /\ UNCHANGED <<account, invite, onboardingHistory>> /\ Open(i)
  BY DEF Claim, Open
<1>3. \A p \in Caller : Accepts(p) => call[p].invite # i
  BY DEF Claim, Claimed
<1> HIDE DEF c
<1> QED
  BY <1>1, <1>2, <1>3, PutKeeps DEF Holding

LEMMA StepKeeps ==
    ASSUME OnboardingInv, NEW q \in Caller, NEW op \in {"checked", "written"}, Step(q, op),
           Accepts(q), ~late => ~account.setUp, op = "checked" \/ ~Held
    PROVE  Safe'
<1> DEFINE c == [call[q] EXCEPT !.op = op]
<1>1. call[q] \in Call /\ call[q].invite \in Invite
  BY DEF OnboardingInv, OnboardingTypeOK, Accepts
<1>2. Fits(c) /\ c.op = op /\ c.invite = call[q].invite
  BY <1>1, RequestsTyped DEF Statements, Accepting, Call
<1>3. Put(q, c) /\ UNCHANGED <<account, invite, onboardingHistory>>
  BY DEF Step
<1>4. /\ Open(call[q].invite)
      /\ \A p \in Caller \ {q} : Accepts(p) => call[p].invite # call[q].invite
  BY DEF OnboardingInv, LocksInv
<1>5. Holding(c) => \A p \in Caller : ~Holds(p)
  BY <1>2 DEF Holding, Held
<1> HIDE DEF c
<1> QED
  BY <1>2, <1>3, <1>4, <1>5, PutKeeps

LEMMA ListOthersKeeps ==
    ASSUME OnboardingInv, NEW q \in Caller, ListOthers(q)
    PROVE  Safe'
<1> DEFINE c == [call[q] EXCEPT !.op = "revoking", !.seen = Others(q)]
<1>1. Accepts(q) /\ Holds(q) /\ ~Runs(q, "claimed")
  BY DEF ListOthers, Runs, Accepts, Accepting, Holds
<1>2. call[q] \in Call /\ call[q].invite \in Invite
  BY <1>1 DEF OnboardingInv, OnboardingTypeOK, Accepts
<1>3. Fits(c) /\ c.op = "revoking" /\ c.invite = call[q].invite /\ c.seen = Others(q)
  BY <1>2, RequestsTyped DEF Statements, Accepting, Call, Others, OpenInvites
<1>4. Put(q, c) /\ UNCHANGED <<account, invite, onboardingHistory>>
  BY DEF ListOthers
<1>5. /\ Open(call[q].invite)
      /\ \A p \in Caller \ {q} : Accepts(p) =>
             call[p].invite # call[q].invite /\ ~Holds(p)
  BY <1>1 DEF OnboardingInv, LocksInv
<1>6. \A i \in Invite \ {c.invite} : Open(i) => i \in c.seen
  BY <1>3 DEF Others, OpenInvites
<1>7. ~late => ~account.setUp
  BY <1>1 DEF OnboardingInv, OnceInv
<1> HIDE DEF c
<1> QED
  BY <1>3, <1>4, <1>5, <1>6, <1>7, PutKeeps

\* Once the last statement of an acceptance has nothing to wait for, there is no
\* other acceptance to become the second.
LEMMA FinishKeeps ==
    ASSUME OnboardingInv, NEW q \in Caller, FinishAccept(q)
    PROVE  Safe'
<1> DEFINE i == call[q].invite
<1>1. Accepts(q) /\ Runs(q, "revoking") /\ ~Runs(q, "claimed")
  BY DEF FinishAccept, Runs, Accepts, Accepting
<1>2. i \in Invite /\ call[q] \in Call
  BY <1>1 DEF OnboardingInv, OnboardingTypeOK, Accepts
<1>3. Put(q, NoCall) /\ Fits(NoCall) /\ UNCHANGED <<late, guesses, miscounted>>
  BY DEF FinishAccept, Fits
<1>4. LocksInv'
  <2>1. ASSUME NEW p \in Caller \ {q}, Accepts(p)
        PROVE  invite'[call[p].invite] \in {"live", "expired"}
    <3>1. call[p].invite \in Invite /\ Open(call[p].invite) /\ call[p].invite # i
      BY <1>1, <2>1 DEF OnboardingInv, OnboardingTypeOK, LocksInv
    <3>2. call[p].invite \notin call[q].seen
      BY <2>1 DEF FinishAccept, Claimed
    <3> QED
      BY <3>1, <3>2 DEF FinishAccept, Killed, Open
  <2> QED
    BY <1>3, <2>1, PutKeepsLocks DEF Claiming
<1>5. OnceInv' /\ SetUpOnce'
  <2>1. call'[q] = NoCall /\ (\A p \in Caller \ {q} : call'[p] = call[p])
    BY <1>3, PutTyped DEF OnboardingInv
  <2>2. ASSUME ~late, NEW p \in Caller, Accepts(p)
        PROVE  p = q
    <3>1. CASE call[p].invite = i
      BY <1>1, <2>2, <3>1 DEF OnboardingInv, LocksInv
    <3>2. CASE call[p].invite # i
      <4>1. call[p].invite \in Others(q)
        BY <2>2, <3>2 DEF OnboardingInv, OnboardingTypeOK, LocksInv, Others, OpenInvites
      <4>2. call[p].invite \in call[q].seen
        BY <1>1, <2>2, <4>1 DEF OnboardingInv, OnceInv
      <4> QED
        BY <2>2, <4>2 DEF FinishAccept, Claimed
    <3> QED
      BY <3>1, <3>2
  <2>3. ~late => ~account.setUp /\ setBy = {}
    BY <1>1 DEF OnboardingInv, OnceInv
  <2>4. ~late' => \A p \in Caller : ~Accepts(p)'
    BY <1>3, <2>1, <2>2 DEF Accepts
  <2>5. \A p \in Caller : Runs(p, "revoking") => Accepts(p)
    BY DEF Runs, Accepts, Accepting
  <2>6. ~late' => \A p \in Caller : ~Runs(p, "revoking")'
    BY <2>4 DEF Runs, Accepts, Accepting
  <2>7. account'.setUp
    BY DEF FinishAccept, OnboardingInv, OnboardingTypeOK, Owner
  <2>8. SetUpOnce'
    BY <1>3, <2>3 DEF FinishAccept, SetUpOnce
  <2> QED
    BY <2>4, <2>6, <2>7, <2>8 DEF OnceInv
<1>6. CountInv' /\ GuessesCounted'
  <2>1. account'.wrong = account.wrong /\ account'.lock = account.lock
    BY DEF FinishAccept, OnboardingInv, OnboardingTypeOK, Owner
  <2> QED
    BY <1>3, <2>1, PutKeepsCount
<1> QED
  BY <1>4, <1>5, <1>6 DEF Safe

\* The acceptance of an invitation keeps the rest.
LEMMA AcceptKeeps ==
    ASSUME OnboardingInv, AcceptStep
    PROVE  Safe'
<1>1. ASSUME NEW q \in Caller, CheckAccount(q) PROVE Safe'
  <2>1. Accepts(q) /\ ~account.setUp /\ Step(q, "checked")
    BY <1>1 DEF CheckAccount, AwaitsSetUp, Runs, Accepts, Accepting
  <2> QED
    BY <2>1, StepKeeps
<1>2. ASSUME NEW q \in Caller, WriteAccount(q) PROVE Safe'
  <2>1. Accepts(q) /\ ~Runs(q, "claimed") /\ Step(q, "written") /\ ~Held
    BY <1>2 DEF WriteAccount, Runs, Accepts, Accepting
  <2>2. ~late => ~account.setUp
    BY <2>1 DEF OnboardingInv, OnceInv
  <2> QED
    BY <2>1, <2>2, StepKeeps
<1> QED
  BY <1>1, <1>2, ClaimKeeps, ListOthersKeeps, FinishKeeps DEF AcceptStep

\* Writing the count makes every other login in flight stale.
LEMMA CountKeeps ==
    ASSUME OnboardingInv, NEW q \in Caller, Runs(q, "wrong") \/ Runs(q, "right"),
           NEW n \in 0..(MaxFailed - 1), NEW lock \in {"none", "held"},
           WriteCount(q, n, lock),
           ~miscounted' => guesses' = n
    PROVE  Safe'
<1>1. \A p \in Caller :
          call'[p] = IF p = q \/ call[p] = NoCall THEN NoCall
                        ELSE [call[p] EXCEPT !.stale = TRUE]
  BY DEF WriteCount
<1>2. ASSUME NEW p \in Caller, call'[p] # NoCall
      PROVE  /\ call[p] # NoCall /\ call'[p].stale
             /\ call'[p].op = call[p].op
             /\ call'[p].invite = call[p].invite
             /\ call'[p].seen = call[p].seen
  <2>1. call[p] \in Call /\ call'[p] = [call[p] EXCEPT !.stale = TRUE]
    BY <1>1, <1>2 DEF OnboardingInv, OnboardingTypeOK
  <2> QED
    BY <1>1, <1>2, <2>1 DEF Call
<1>3. /\ \A p \in Caller : Accepts(p)' => Accepts(p)
      /\ \A p \in Caller : Holds(p)' => Holds(p)
  BY <1>2 DEF Accepts, Holds, Runs
<1>4. UNCHANGED <<invite, setBy, late>>
  BY DEF WriteCount
<1>5. account'.wrong = n /\ account'.setUp = account.setUp
  BY DEF WriteCount, OnboardingInv, OnboardingTypeOK, Owner
<1>6. LocksInv'
  BY <1>2, <1>3, <1>4 DEF OnboardingInv, LocksInv, Open, Accepts
<1>7. OnceInv' /\ SetUpOnce'
  <2>1. \A p \in Caller : Runs(p, "revoking")' =>
            Runs(p, "revoking") /\ Others(p)' = Others(p) /\ call'[p].seen = call[p].seen
    BY <1>2, <1>4 DEF Runs, Others, OpenInvites, Open
  <2>2. \A p \in Caller : Accepts(p)' => Accepts(p) /\ (Runs(p, "claimed") => Runs(p, "claimed")')
    BY <1>2 DEF Runs, Accepts
  <2> QED
    BY <1>4, <1>5, <2>1, <2>2 DEF OnboardingInv, OnceInv, SetUpOnce
<1>8. CountInv'
  BY <1>2 DEF CountInv, Runs
<1>9. GuessesCounted'
  BY <1>5, OnboardingAssumption DEF GuessesCounted
<1> QED
  BY <1>6, <1>7, <1>8, <1>9 DEF Safe

\* Logging in keeps the rest.
LEMMA LoginKeeps ==
    ASSUME OnboardingInv, LoginStep
    PROVE  Safe'
<1> USE OnboardingAssumption
<1>1. ASSUME NEW q \in Caller, NEW answer \in {"wrong", "right"}, ReadForLogin(q, answer)
      PROVE  Safe'
  <2> DEFINE c == [Nothing EXCEPT !.op = answer, !.wrong = account.wrong]
  <2>1. answer \in Statements \ Accepting /\ account.wrong \in 0..(MaxFailed - 1)
    BY DEF Statements, Accepting, OnboardingInv, OnboardingTypeOK, Owner
  <2>2. Fits(c) /\ c.op = answer /\ c.wrong = account.wrong
    BY <2>1, RequestsTyped DEF Nothing
  <2>3. Put(q, c) /\ UNCHANGED <<account, invite, onboardingHistory>> /\ LockOpen
    BY <1>1 DEF ReadForLogin
  <2> HIDE DEF c
  <2> QED
    BY <2>2, <2>3, PutKeeps DEF Claiming, Accepting
<1>2. ASSUME NEW q \in Caller, WriteWrong(q) PROVE Safe'
  <2> DEFINE n == call[q].wrong + 1
  <2>1. call[q].wrong \in 0..(MaxFailed - 1) /\ Runs(q, "wrong")
    BY <1>2 DEF WriteWrong, Runs, OnboardingInv, OnboardingTypeOK, Call
  <2>2. CASE TooMany(n)
    BY <1>2, <2>1, <2>2, CountKeeps DEF WriteWrong
  <2>3. CASE ~TooMany(n)
    <3>1. n \in 0..(MaxFailed - 1)
      BY <2>1, <2>3 DEF TooMany
    <3>2. WriteCount(q, n, "none") /\ guesses' = guesses + 1
      BY <1>2, <2>3 DEF WriteWrong
    <3>3. ~miscounted' => ~call[q].stale /\ ~miscounted
      BY <3>2 DEF WriteCount
    <3>4. CASE miscounted'
      BY <2>1, <3>1, <3>2, <3>4, CountKeeps
    <3>5. CASE ~miscounted'
      <4>1. guesses' = n
        BY <2>1, <3>2, <3>3, <3>5 DEF OnboardingInv, CountInv, GuessesCounted
      <4> QED
        BY <2>1, <3>1, <3>2, <4>1, CountKeeps
    <3> QED
      BY <3>4, <3>5
  <2> QED
    BY <2>2, <2>3
<1>3. ASSUME NEW q \in Caller, WriteRight(q) PROVE Safe'
  BY <1>3, CountKeeps DEF WriteRight
<1>4. CASE LockEnds
  <2>1. /\ account'.setUp = account.setUp /\ account'.wrong = account.wrong
        /\ account'.lock # "held"
    BY <1>4 DEF LockEnds, OnboardingInv, OnboardingTypeOK, Owner
  <2> QED
    BY <1>4, <2>1, FrameKeeps DEF LockEnds, Open
<1> QED
  BY <1>1, <1>2, <1>3, <1>4 DEF LoginStep

\* What the administrators do meanwhile keeps the rest.
LEMMA AdminKeeps ==
    ASSUME OnboardingInv, AdminStep
    PROVE  Safe'
<1>1. ASSUME NEW active \in BOOLEAN, SetActive(active) PROVE Safe'
  <2>1. account'.setUp = account.setUp /\ account'.wrong = account.wrong
        /\ account'.lock = account.lock
    BY <1>1 DEF SetActive, OnboardingInv, OnboardingTypeOK, Owner
  <2> QED
    BY <1>1, <2>1, FrameKeeps DEF SetActive, Open
<1>2. CASE Trash \/ Restore
  <2>1. account'.setUp = account.setUp /\ account'.wrong = account.wrong
        /\ account'.lock = account.lock
    BY <1>2 DEF Trash, Restore, OnboardingInv, OnboardingTypeOK, Owner
  <2> QED
    BY <1>2, <2>1, FrameKeeps DEF Trash, Restore, Open
<1>3. CASE Purge
  <2>1. account'.setUp = account.setUp /\ account'.wrong = account.wrong
        /\ account'.lock = account.lock
    BY <1>3 DEF Purge, OnboardingInv, OnboardingTypeOK, Owner
  <2>2. \A i \in Invite : Open(i)' => Open(i)
    BY <1>3 DEF Purge, Killed, Open
  <2> QED
    BY <1>3, <2>1, <2>2, FrameKeeps DEF Purge
<1>4. ASSUME NEW S \in SUBSET Invite, Disinvite(S) PROVE Safe'
  <2>1. \A i \in Invite : Open(i)' => Open(i)
    BY <1>4 DEF Disinvite, Killed, Open
  <2>2. \A i \in Invite : Claimed(i) /\ Open(i) => Open(i)'
    BY <1>4 DEF Disinvite, Killed, Open
  <2> QED
    BY <1>4, <2>1, <2>2, FrameKeeps DEF Disinvite
<1> QED
  BY <1>1, <1>2, <1>3, <1>4 DEF AdminStep

\* The inductive invariant holds in every reachable state.
THEOREM OnboardingSafe == OnboardingSpec => []OnboardingInv
<1>1. OnboardingInit => OnboardingInv
  <2> SUFFICES ASSUME OnboardingInit PROVE OnboardingInv
    OBVIOUS
  <2>1. OnboardingTypeOK
    <3>1. account \in Owner
      BY OnboardingAssumption DEF OnboardingInit, Owner
    <3> QED
      BY <3>1 DEF OnboardingInit, OnboardingTypeOK, Accepts
  <2>2. \A q \in Caller : call[q] = NoCall
    BY DEF OnboardingInit
  <2>3. LocksInv /\ OnceInv /\ CountInv
    BY <2>2 DEF OnboardingInit, LocksInv, OnceInv, CountInv, Accepts, Runs
  <2>4. SetUpOnce /\ GuessesCounted
    BY OnboardingAssumption DEF OnboardingInit, SetUpOnce, GuessesCounted
  <2> QED
    BY <2>1, <2>3, <2>4 DEF OnboardingInv
<1>2. OnboardingInv /\ [OnboardingNext]_onboardingVars => Safe'
  <2> SUFFICES ASSUME OnboardingInv, [OnboardingNext]_onboardingVars PROVE Safe'
    OBVIOUS
  <2>1. ASSUME NEW q \in Caller, HangUp(q) PROVE Safe'
    BY <2>1, PutKeeps DEF HangUp, Claiming, Fits
  <2>2. CASE UNCHANGED onboardingVars
    <3>1. /\ UNCHANGED <<call, onboardingHistory, account>>
          /\ \A i \in Invite : Open(i)' <=> Open(i)
      BY <2>2 DEF onboardingVars, onboardingHistory, Open
    <3> QED
      BY <3>1, FrameKeeps
  <2> QED
    BY <2>1, <2>2, InviteKeeps, AcceptKeeps, LoginKeeps, AdminKeeps DEF OnboardingNext
<1> QED
  BY <1>1, <1>2, OnboardingTyped, PTL DEF OnboardingSpec, OnboardingInv, Safe

\* One acceptance sets the password.
THEOREM SetUpOnceAlways == OnboardingSpec => []SetUpOnce
BY OnboardingSafe, PTL DEF OnboardingInv

\* Logins that do not overlap are counted one by one.
THEOREM GuessesCountedAlways == OnboardingSpec => []GuessesCounted
BY OnboardingSafe, PTL DEF OnboardingInv

\* A lock stands until its time is over, unless a login that overlapped another
\* one writes.
THEOREM LockStandsAlways == OnboardingSpec => LockStands
<1>1. ASSUME OnboardingInv, [OnboardingNext]_onboardingVars, account.lock = "held"
      PROVE  account'.lock \in {"held", "over"} \/ miscounted'
  <2>1. ASSUME NEW q \in Caller, WriteWrong(q) \/ WriteRight(q) PROVE miscounted'
    <3>1. (Runs(q, "wrong") \/ Runs(q, "right")) /\ miscounted' = (miscounted \/ call[q].stale)
      BY <2>1 DEF WriteWrong, WriteRight, WriteCount
    <3>2. call[q].stale
      BY <1>1, <3>1 DEF OnboardingInv, CountInv, LockOpen
    <3> QED
      BY <3>1, <3>2
  <2>2. ASSUME account' = account PROVE account'.lock = "held"
    BY <1>1, <2>2
  <2>3. account \in Owner
    BY <1>1 DEF OnboardingInv, OnboardingTypeOK
  <2>4. CASE InviteStep
    BY <2>2, <2>4
       DEF InviteStep, ReadForResend, ReadForRevoke, ListInvites, Discard, Replace, CoolDown, Expire
  <2>5. CASE AcceptStep
    BY <1>1, <2>3, <2>5
    DEF AcceptStep, Claim, CheckAccount, WriteAccount, Step, ListOthers, FinishAccept, Owner
  <2>6. CASE LoginStep
    BY <2>1, <2>2, <2>3, <2>6 DEF LoginStep, ReadForLogin, LockEnds, Owner
  <2>7. CASE AdminStep
    BY <1>1, <2>3, <2>7 DEF AdminStep, SetActive, Trash, Restore, Purge, Disinvite, Owner
  <2>8. CASE UNCHANGED onboardingVars \/ \E q \in Caller : HangUp(q)
    BY <2>2, <2>8 DEF HangUp, onboardingVars
  <2> QED
    BY <1>1, <2>4, <2>5, <2>6, <2>7, <2>8 DEF OnboardingNext
<1> QED
  BY <1>1, OnboardingSafe, PTL DEF OnboardingSpec, LockStands

-----------------------------------------------------------------------------
(* Both modules of the accounts                                            *)

\* A behaviour of the instance is one of either module: what is proved of the
\* staff or of the owner of an account is true of it.  (update, acceptInvitation)
THEOREM AccountsAreBoth == AccountsSpec => Spec /\ OnboardingSpec
<1>1. AccountsInit => Init /\ OnboardingInit
  BY DEF AccountsInit
<1>2. [AccountsNext]_accountsVars => [Next]_vars /\ [OnboardingNext]_onboardingVars
  BY DEF AccountsNext, accountsVars
<1> QED
  BY <1>1, <1>2, PTL DEF AccountsSpec, Spec, OnboardingSpec
=============================================================================
