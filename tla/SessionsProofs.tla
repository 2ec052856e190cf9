--------------------------- MODULE SessionsProofs ---------------------------
(***************************************************************************)
(* Theorems about Sessions for every set of tokens, links, addresses and   *)
(* slots, and every bound.                                                 *)
(***************************************************************************)
EXTENDS Sessions, TLAPS

\* A request made of what the account holds is a request.
LEMMA BlankTyped ==
    ASSUME TypeOK
    PROVE  Blank \in Request /\ Snapshot \in Seen /\ Nothing \in Seen
BY DEF TypeOK, Blank, Nothing, Snapshot, Request, Seen, Account, Ops

\* Putting a request in a slot keeps the slots well typed.
LEMMA PutTyped ==
    ASSUME TypeOK, NEW q \in Slot, NEW c \in Request \cup {Idle}, Put(q, c)
    PROVE  request' \in [Slot -> Request \cup {Idle}]
BY DEF TypeOK, Put

\* Rows that are not live stay as they are.
LEMMA KilledTyped ==
    ASSUME NEW S, NEW States, "dead" \in States, NEW rows \in [S -> States]
    PROVE  Killed(rows) \in [S -> States]
BY DEF Killed

\* Reading the account into a well-typed request keeps the types.
LEMMA ReadTyped ==
    ASSUME TypeOK, NEW route, NEW q \in Slot, NEW c \in Request, Read(route, q, c)
    PROVE  TypeOK'
BY PutTyped DEF Read, TypeOK, history

\* Overtaking requests keeps the slots well typed.
LEMMA OvertakenTyped ==
    ASSUME TypeOK, NEW q \in Slot, request[q] # Idle
    PROVE  [request[q] EXCEPT !.stray = TRUE] \in Request
BY DEF TypeOK, Request

\* The actions of SessionStep keep the types.
LEMMA SessionTyped ==
    ASSUME TypeOK, SessionStep
    PROVE  TypeOK'
<1> USE SessionsAssumption
<1>1. ASSUME NEW q \in Slot, ReadForLogin(q) PROVE TypeOK'
  <2>1. [Blank EXCEPT !.seen = Snapshot, !.proof = account.hash] \in Request
    BY BlankTyped DEF TypeOK, Account, Request
  <2> QED
    BY <1>1, <2>1, ReadTyped DEF ReadForLogin
<1>2. ASSUME NEW q \in Slot, Rotate(q) PROVE TypeOK'
  <2>1. [request[q] EXCEPT !.op = "issue", !.tokens = {}] \in Request
    BY <1>2 DEF Rotate, InFlight, TypeOK, Request, Ops
  <2>2. request' \in [Slot -> Request \cup {Idle}]
    BY <1>2, <2>1, PutTyped DEF Rotate
  <2> QED
    BY <1>2, <2>2 DEF Rotate, TypeOK, history
<1>3. ASSUME NEW q \in Slot, RevokeAll(q) PROVE TypeOK'
  BY <1>3, PutTyped, KilledTyped DEF RevokeAll, TypeOK, Finish
<1>4. ASSUME NEW q \in Slot, Abandon(q) PROVE TypeOK'
  BY <1>4, PutTyped DEF Abandon, TypeOK, Finish
<1>5. ASSUME NEW q \in Slot, NEW t \in Token, ReadForRefresh(q, t) PROVE TypeOK'
  <2> DEFINE op == IF account.active THEN "rotate" ELSE "revoke"
             c  == [Blank EXCEPT !.op = op, !.seen = Snapshot, !.tokens = {t},
                                 !.proof = proof[t], !.stray = t \in strays]
  <2>1. op \in Ops
    BY DEF Ops
  <2>2. ASSUME NEW o \in Ops, NEW old \in BOOLEAN
        PROVE  [Blank EXCEPT !.op = o, !.seen = Snapshot, !.tokens = {t},
                             !.proof = proof[t], !.stray = old] \in Request
    BY BlankTyped DEF TypeOK, Request
  <2>3. Read("refresh", q, c)
    BY <1>5 DEF ReadForRefresh
  <2>4. c \in Request
    <3>1. (t \in strays) \in BOOLEAN
      OBVIOUS
    <3> HIDE DEF op
    <3> QED
      BY <2>1, <2>2, <3>1, Zenon
  <2> QED
    BY <2>3, <2>4, ReadTyped
<1>6. ASSUME NEW q \in Slot, NEW t \in Token, Issue(q, t) PROVE TypeOK'
  BY <1>6, PutTyped DEF Issue, TypeOK, Request, Seen, InFlight, Finish
<1>7. ASSUME NEW t \in Token, Logout(t) \/ ExpireToken(t) PROVE TypeOK'
  BY <1>7 DEF Logout, ExpireToken, TypeOK, history
<1> QED
  BY <1>1, <1>2, <1>3, <1>4, <1>5, <1>6, <1>7 DEF SessionStep

\* The actions of AdminStep keep the types.
LEMMA AdminTyped ==
    ASSUME TypeOK, AdminStep
    PROVE  TypeOK'
<1> USE SessionsAssumption
<1>1. ASSUME NEW route, NEW q \in Slot, NEW lock \in {"set", "clear", "leave"},
             NEW email \in Email \cup {Keep}, NEW ends \in BOOLEAN,
             ReadForUpdate(route, q, lock, email, ends)
      PROVE  TypeOK'
  <2>1. [Blank EXCEPT !.op = "update", !.lock = lock, !.email = email,
                      !.ends = ends] \in Request
    BY BlankTyped DEF Request, Ops
  <2> QED
    BY <1>1, <2>1, ReadTyped DEF ReadForUpdate
<1>2. ASSUME NEW q \in Slot, WriteUpdate(q) PROVE TypeOK'
  <2>1. request[q] \in Request
    BY <1>2 DEF WriteUpdate, InFlight, TypeOK
  <2>2. account' \in Account
    BY <1>2, <2>1 DEF WriteUpdate, TypeOK, Account, Request
  <2>3. [request[q] EXCEPT !.op = "revoke"] \in Request
    BY <2>1 DEF Request, Ops
  <2>4. request' \in [Slot -> Request \cup {Idle}]
    BY <1>2, <2>3, OvertakenTyped DEF WriteUpdate, TypeOK
  <2> QED
    BY <1>2, <2>2, <2>4 DEF WriteUpdate, TypeOK, history
<1>3. ASSUME Trash PROVE TypeOK'
  <2>1. request' \in [Slot -> Request \cup {Idle}]
    BY <1>3, OvertakenTyped DEF Trash, TypeOK
  <2> QED
    BY <1>3, <2>1, KilledTyped DEF Trash, TypeOK, Account
<1>4. ASSUME Restore PROVE TypeOK'
  BY <1>4 DEF Restore, TypeOK, Account, history
<1>5. ASSUME Purge PROVE TypeOK'
  BY <1>5, KilledTyped DEF Purge, TypeOK, Account, Challenge
<1> QED
  BY <1>1, <1>2, <1>3, <1>4, <1>5
  DEF AdminStep, ReadForLock, ReadForUnlock, ReadForRole, ReadForAddress

\* The actions of PasswordStep keep the types.
LEMMA PasswordTyped ==
    ASSUME TypeOK, PasswordStep
    PROVE  TypeOK'
<1> USE SessionsAssumption
<1>1. ASSUME NEW route, NEW q \in Slot, NEW op \in Ops, NEW serial \in Nat,
             Read(route, q, [Blank EXCEPT !.op = op, !.seen = Snapshot,
                                          !.serial = serial])
      PROVE  TypeOK'
  <2>1. [Blank EXCEPT !.op = op, !.seen = Snapshot, !.serial = serial] \in Request
    BY BlankTyped DEF Request
  <2> QED
    BY <1>1, <2>1, ReadTyped
<1>2. ASSUME NEW route, NEW q \in Slot, NEW op \in Ops,
             Read(route, q, [Blank EXCEPT !.op = op, !.seen = Snapshot])
      PROVE  TypeOK'
  <2>1. [Blank EXCEPT !.op = op, !.seen = Snapshot] \in Request
    BY BlankTyped DEF Request
  <2> QED
    BY <1>2, <2>1, ReadTyped
<1>3. ASSUME NEW q \in Slot, RevokeLinks(q) PROVE TypeOK'
  <2>1. request[q] \in Request
    BY <1>3 DEF RevokeLinks, InFlight, TypeOK
  <2>2. [request[q] EXCEPT !.op = "link",
                           !.links = {l \in Link : link[l] = "live"}] \in Request
    BY <2>1 DEF Request, Ops
  <2> QED
    BY <1>3, <2>2, PutTyped DEF RevokeLinks, TypeOK, history
<1>4. ASSUME NEW q \in Slot, NEW l \in Link, CreateLink(q, l) PROVE TypeOK'
  <2>1. request[q] \in Request
    BY <1>4 DEF CreateLink, InFlight, TypeOK
  <2>2. link' \in [Link -> {"unused", "live", "used", "dead"}]
    <3>1. Killed(link) \in [Link -> {"unused", "live", "used", "dead"}]
      BY KilledTyped DEF TypeOK
    <3> QED
      BY <1>4, <3>1 DEF CreateLink, TypeOK
  <2>3. request' \in [Slot -> Request \cup {Idle}]
    BY <1>4, PutTyped DEF CreateLink, Finish
  <2> QED
    BY <1>4, <2>1, <2>2, <2>3 DEF CreateLink, TypeOK, Request, Seen
<1>5. ASSUME SetPassword
      PROVE  account' \in Account /\ token' \in [Token -> {"unused", "live", "dead"}]
             /\ unrevoked' = FALSE
  <2>1. account' \in Account
    <3>1. account.hash + 1 \in Nat /\ account.version + 1 \in Nat
      BY DEF TypeOK, Account
    <3> QED
      BY <1>5, <3>1 DEF SetPassword, TypeOK, Account
  <2>2. Killed(token) \in [Token -> {"unused", "live", "dead"}]
    BY KilledTyped DEF TypeOK
  <2> QED
    BY <1>5, <2>1, <2>2 DEF SetPassword
<1>6. ASSUME NEW q \in Slot, NEW l \in Link, ResetPassword(q, l) PROVE TypeOK'
  <2>1. request' \in [Slot -> Request \cup {Idle}]
    BY <1>6, OvertakenTyped DEF ResetPassword, Overtake, TypeOK
  <2>2. link' \in [Link -> {"unused", "live", "used", "dead"}]
    BY <1>6, KilledTyped DEF ResetPassword, TypeOK
  <2> QED
    BY <1>5, <1>6, <2>1, <2>2 DEF ResetPassword, TypeOK
<1>7. ASSUME NEW q \in Slot, StoreCode(q) PROVE TypeOK'
  <2>1. request[q] \in Request
    BY <1>7 DEF StoreCode, InFlight, TypeOK
  <2>2. [request[q] EXCEPT !.op = "mail", !.seen = Nothing,
                           !.serial = code.serial + 1] \in Request
    <3>1. code.serial + 1 \in Nat
      BY DEF TypeOK, Challenge
    <3> QED
      BY <2>1, <3>1, BlankTyped DEF Request, Ops
  <2>3. request' \in [Slot -> Request \cup {Idle}]
    BY <1>7, <2>2, PutTyped DEF StoreCode
  <2>4. code' \in Challenge
    <3>1. request[q].seen \in Seen
      BY <2>1 DEF Request
    <3> QED
      BY <1>7, <3>1 DEF StoreCode, TypeOK, Challenge, Seen, SessionsAssumption
  <2> QED
    BY <1>7, <2>3, <2>4 DEF StoreCode, TypeOK, history
<1>8. ASSUME NEW q \in Slot, MailFails(q) PROVE TypeOK'
  BY <1>8, PutTyped DEF MailFails, TypeOK, Challenge, Finish, history
<1>9. ASSUME NEW q \in Slot, CountWrong(q) PROVE TypeOK'
  BY <1>9, PutTyped DEF CountWrong, Claimable, TypeOK, Challenge, Finish, history
<1>10. ASSUME NEW q \in Slot, ChangePassword(q) PROVE TypeOK'
  <2>1. request' \in [Slot -> Request \cup {Idle}]
    BY <1>10, OvertakenTyped DEF ChangePassword, Overtake, TypeOK
  <2> QED
    BY <1>5, <1>10, <2>1, KilledTyped DEF ChangePassword, TypeOK, Challenge
<1>11. ASSUME NEW l \in Link, ExpireLink(l) PROVE TypeOK'
  BY <1>11 DEF ExpireLink, TypeOK, history
<1>12. ASSUME ExpireCode PROVE TypeOK'
  BY <1>12 DEF ExpireCode, TypeOK, Challenge, history
<1>13. ASSUME NEW kind \in {"link", "code"}, CoolDown(kind) PROVE TypeOK'
  BY <1>13 DEF CoolDown, TypeOK, history
<1>14. ASSUME NEW q \in Slot, NEW op \in {"wrong", "change"}, ReadForChange(q, op)
       PROVE  TypeOK'
  BY <1>1, <1>14 DEF ReadForChange, TypeOK, Challenge, Ops
<1>15. ASSUME NEW q \in Slot, NEW l \in Link, ReadForReset(q, l) PROVE TypeOK'
  <2>1. [Blank EXCEPT !.op = "reset", !.links = {l}] \in Request
    BY BlankTyped DEF Request, Ops
  <2> QED
    BY <1>15, <2>1, ReadTyped DEF ReadForReset
<1> QED
  BY <1>2, <1>3, <1>4, <1>6, <1>7, <1>8, <1>9, <1>10, <1>11, <1>12, <1>13, <1>14, <1>15
  DEF PasswordStep, ReadForForgot, ReadForCode, Ops

\* Type correctness of the sessions model.
THEOREM SessionsTyped == Spec => []TypeOK
<1>1. Init => TypeOK
  <2> SUFFICES ASSUME Init PROVE TypeOK
    OBVIOUS
  <2>1. account \in Account /\ code \in Challenge
    BY SessionsAssumption DEF Init, Account, Challenge
  <2> QED
    BY <2>1 DEF Init, TypeOK
<1>2. TypeOK /\ [Next]_vars => TypeOK'
  <2> SUFFICES ASSUME TypeOK, [Next]_vars PROVE TypeOK'
    OBVIOUS
  <2>1. CASE UNCHANGED vars
    BY <2>1 DEF vars, history, TypeOK
  <2> QED
    BY <2>1, SessionTyped, AdminTyped, PasswordTyped DEF Next
<1> QED
  BY <1>1, <1>2, PTL DEF Spec

-----------------------------------------------------------------------------
(* The inductive invariant, one lemma for each kind of step                *)

\* Everything in SessionsInv but the types.
Bonds ==
    /\ VersionsInv
    /\ RequestsInv
    /\ TrashInv
    /\ NothingOutlivesPassword
    /\ LockedHoldsNoSession

\* What a request must satisfy to be put in a slot.
Sound(c) ==
    /\ Opening(c) => c.seen.version = c.seen.hash
    /\ ~c.stray => NotOvertaken(c)
    /\ c.op = "update" /\ c.lock = "set" => c.ends

\* Reading into a sound request.
LEMMA ReadKeeps ==
    ASSUME SessionsInv, NEW route, NEW q \in Slot, NEW c \in Request, Sound(c),
           Read(route, q, c)
    PROVE  Bonds'
<1>1. request'[q] = c /\ (\A p \in Slot \ {q} : request'[p] = request[p])
  BY DEF SessionsInv, TypeOK, Read, Put
<1>2. /\ UNCHANGED <<account, token, link, access, proof, issuedFor, strays, unrevoked>>
      /\ request[q] = Idle
  BY DEF Read, history
<1>3. VersionsInv'
  BY <1>1, <1>2 DEF SessionsInv, VersionsInv, Sound, Opening
<1>4. RequestsInv'
  BY <1>1, <1>2 DEF SessionsInv, RequestsInv, Sound, NotOvertaken, Opening
<1>5. TrashInv' /\ NothingOutlivesPassword'
  BY <1>2 DEF SessionsInv, TrashInv, NothingOutlivesPassword
<1>6. LockedHoldsNoSession'
  BY <1>1, <1>2 DEF SessionsInv, LockedHoldsNoSession, InFlight
<1> QED
  BY <1>3, <1>4, <1>5, <1>6 DEF Bonds

\* Ending a request that had no revocation left to do, or killing rows.
LEMMA FinishKeeps ==
    ASSUME SessionsInv, NEW q \in Slot, Finish(q),
           UNCHANGED <<account, access, proof, issuedFor, strays>>,
           \A t \in Token : token'[t] = "live" => token[t] = "live",
           \A l \in Link : link'[l] = "live" => link[l] = "live",
           \/ unrevoked'
           \/ unrevoked' = unrevoked /\ ~InFlight(q, "revoke")
           \/ \A t \in Token : token'[t] # "live"
    PROVE  Bonds'
<1>1. request'[q] = Idle /\ (\A p \in Slot \ {q} : request'[p] = request[p])
  BY DEF SessionsInv, TypeOK, Finish, Put
<1>2. VersionsInv'
  BY <1>1 DEF SessionsInv, VersionsInv, Opening
<1>3. RequestsInv'
  BY <1>1 DEF SessionsInv, RequestsInv, NotOvertaken, Opening
<1>4. TrashInv' /\ NothingOutlivesPassword'
  BY DEF SessionsInv, TrashInv, NothingOutlivesPassword
<1>5. LockedHoldsNoSession'
  BY <1>1 DEF SessionsInv, LockedHoldsNoSession, InFlight
<1> QED
  BY <1>2, <1>3, <1>4, <1>5 DEF Bonds

\* Rows that die, a challenge or a cooldown that changes: nothing else moves.
LEMMA DyingKeeps ==
    ASSUME SessionsInv,
           UNCHANGED <<account, access, request, proof, issuedFor, strays, unrevoked>>,
           \A t \in Token : token'[t] = "live" => token[t] = "live",
           \A l \in Link : link'[l] = "live" => link[l] = "live"
    PROVE  Bonds'
BY DEF SessionsInv, Bonds, VersionsInv, RequestsInv, NotOvertaken, Opening, TrashInv,
       NothingOutlivesPassword, LockedHoldsNoSession, InFlight

\* The sessions' own steps.
LEMMA SessionKeeps ==
    ASSUME SessionsInv, TypeOK', SessionStep
    PROVE  Bonds'
<1> USE SessionsAssumption
<1>1. ASSUME NEW q \in Slot, ReadForLogin(q) PROVE Bonds'
  <2> DEFINE c == [Blank EXCEPT !.seen = Snapshot, !.proof = account.hash]
  <2>1. c \in Request
    BY BlankTyped DEF SessionsInv, TypeOK, Account, Request
  <2>2. Sound(c)
    BY <1>1 DEF Sound, NotOvertaken, Opening, Blank, Snapshot, ReadForLogin, Usable,
                SessionsInv, VersionsInv
  <2>3. Read("login", q, c)
    BY <1>1 DEF ReadForLogin
  <2> QED
    BY <2>1, <2>2, <2>3, ReadKeeps
<1>2. ASSUME NEW q \in Slot, Rotate(q) PROVE Bonds'
  <2>1. /\ request[q] \in Request /\ request[q].op = "rotate"
        /\ request'[q] = [request[q] EXCEPT !.op = "issue", !.tokens = {}]
        /\ \A p \in Slot \ {q} : request'[p] = request[p]
    BY <1>2 DEF Rotate, InFlight, Put, SessionsInv, TypeOK
  <2>2. /\ UNCHANGED <<account, link, access, proof, issuedFor, strays, unrevoked>>
        /\ \A t \in Token : token'[t] = "live" => token[t] = "live"
    BY <1>2 DEF Rotate, history
  <2> DEFINE c == [request[q] EXCEPT !.op = "issue", !.tokens = {}]
  <2>3. c.op = "issue" /\ c.seen = request[q].seen /\ c.proof = request[q].proof
        /\ c.stray = request[q].stray
    BY <2>1 DEF Request
  <2>4. /\ request'[q].op = "issue" /\ request'[q].seen = request[q].seen
        /\ request'[q].proof = request[q].proof /\ request'[q].stray = request[q].stray
        /\ request[q] # Idle
    BY <1>2, <2>1, <2>3 DEF Rotate, InFlight
  <2> HIDE DEF c
  <2>5. VersionsInv'
    <3>1. ASSUME NEW p \in Slot, request'[p] # Idle, Opening(request'[p])
          PROVE  request'[p].seen.version = request'[p].seen.hash
      <4>1. CASE p = q
        BY <2>1, <2>4, <4>1 DEF SessionsInv, VersionsInv, Opening
      <4>2. CASE p # q
        BY <2>1, <3>1, <4>2 DEF SessionsInv, VersionsInv
      <4> QED
        BY <4>1, <4>2
    <3> QED
      BY <2>2, <3>1 DEF SessionsInv, VersionsInv
  <2>6. RequestsInv'
    BY <2>1, <2>2, <2>4 DEF SessionsInv, RequestsInv, NotOvertaken, Opening
  <2>7. TrashInv' /\ NothingOutlivesPassword'
    BY <2>2 DEF SessionsInv, TrashInv, NothingOutlivesPassword
  <2>8. LockedHoldsNoSession'
    BY <2>1, <2>2 DEF SessionsInv, LockedHoldsNoSession, InFlight
  <2> QED
    BY <2>5, <2>6, <2>7, <2>8 DEF Bonds
<1>3. ASSUME NEW q \in Slot, RevokeAll(q) PROVE Bonds'
  <2>1. \A t \in Token : token'[t] # "live"
    BY <1>3 DEF RevokeAll, Killed, SessionsInv, TypeOK
  <2> QED
    BY <1>3, <2>1, FinishKeeps DEF RevokeAll
<1>4. ASSUME NEW q \in Slot, Abandon(q) PROVE Bonds'
  <2>1. CASE request[q].op = "revoke"
    <3>1. unrevoked'
      BY <1>4, <2>1 DEF Abandon
    <3> QED
      BY <1>4, <3>1, FinishKeeps DEF Abandon
  <2>2. CASE request[q].op # "revoke"
    <3>1. unrevoked' = unrevoked
      BY <1>4, <2>2 DEF Abandon, SessionsInv, TypeOK
    <3>2. ~InFlight(q, "revoke")
      BY <2>2 DEF InFlight
    <3> QED
      BY <1>4, <3>1, <3>2, FinishKeeps DEF Abandon
  <2> QED
    BY <2>1, <2>2
<1>5. ASSUME NEW q \in Slot, NEW t \in Token, ReadForRefresh(q, t) PROVE Bonds'
  <2>1. TypeOK
    BY DEF SessionsInv
  <2>2. ASSUME NEW op \in {"rotate", "revoke"}, NEW old \in BOOLEAN, old = (t \in strays),
               op = "rotate" => account.active,
               Read("refresh", q,
                    [Blank EXCEPT !.op = op, !.seen = Snapshot, !.tokens = {t},
                                  !.proof = proof[t], !.stray = old])
        PROVE  Bonds'
    <3> DEFINE c == [Blank EXCEPT !.op = op, !.seen = Snapshot, !.tokens = {t},
                                  !.proof = proof[t], !.stray = old]
    <3>1. c \in Request
      BY <2>1, BlankTyped DEF TypeOK, Request, Ops
    <3>2. token[t] = "live"
      BY <1>5 DEF ReadForRefresh
    <3>3. Sound(c)
      BY <2>2, <3>2 DEF Sound, NotOvertaken, Opening, Blank, Snapshot, SessionsInv,
                        VersionsInv, TrashInv, NothingOutlivesPassword
    <3> QED
      BY <2>2, <3>1, <3>3, ReadKeeps
  <2>3. (t \in strays) \in BOOLEAN
    OBVIOUS
  <2>4. CASE account.active
    BY <1>5, <2>2, <2>3, <2>4, Zenon DEF ReadForRefresh
  <2>5. CASE ~account.active
    BY <1>5, <2>2, <2>3, <2>5, Zenon DEF ReadForRefresh
  <2> QED
    BY <2>4, <2>5
<1>6. ASSUME NEW q \in Slot, NEW t \in Token, Issue(q, t) PROVE Bonds'
  <2>1. request[q] \in Request /\ request[q] # Idle /\ request[q].op = "issue"
    BY <1>6 DEF Issue, InFlight, SessionsInv, TypeOK
  <2>2. /\ UNCHANGED <<account, link, issuedFor, unrevoked>>
        /\ token' = [token EXCEPT ![t] = "live"]
        /\ proof' = [proof EXCEPT ![t] = request[q].proof]
        /\ account.life # "purged"
    BY <1>6 DEF Issue, Exists
  <2>3. \/ t \in strays' /\ strays \subseteq strays' /\ strays' \subseteq strays \cup {t}
        \/ ~request[q].stray /\ strays' = strays
    BY <1>6 DEF Issue
  <2>4. request'[q] = Idle /\ (\A p \in Slot \ {q} : request'[p] = request[p])
    BY <1>6 DEF Issue, Finish, Put, SessionsInv, TypeOK
  <2>5. VersionsInv'
    BY <1>6, <2>1, <2>2, <2>4 DEF Issue, SessionsInv, VersionsInv, Opening
  <2>6. RequestsInv'
    BY <2>2, <2>4 DEF SessionsInv, RequestsInv, NotOvertaken, Opening
  <2>7. TrashInv'
    BY <2>1, <2>2, <2>3 DEF SessionsInv, TypeOK, TrashInv, RequestsInv, NotOvertaken, Opening
  <2>8. NothingOutlivesPassword'
    BY <2>1, <2>2, <2>3
    DEF SessionsInv, TypeOK, NothingOutlivesPassword, RequestsInv, NotOvertaken, Opening
  <2>9. LockedHoldsNoSession'
    BY <2>1, <2>2, <2>3, <2>4
    DEF SessionsInv, TypeOK, LockedHoldsNoSession, InFlight, RequestsInv, NotOvertaken, Opening
  <2> QED
    BY <2>5, <2>6, <2>7, <2>8, <2>9 DEF Bonds
<1>7. ASSUME NEW t \in Token, Logout(t) \/ ExpireToken(t) PROVE Bonds'
  BY <1>7, DyingKeeps DEF Logout, ExpireToken, history, SessionsInv, TypeOK
<1> QED
  BY <1>1, <1>2, <1>3, <1>4, <1>5, <1>6, <1>7 DEF SessionStep

\* Ending all sessions at once, with every request in flight overtaken: nothing
\* that was true of the account before is needed.
LEMMA EndAllKeeps ==
    ASSUME SessionsInv, TypeOK',
           account'.version = account'.hash,
           UNCHANGED <<access, proof, issuedFor, strays>>,
           \A t \in Token : token'[t] # "live",
           \A l \in Link : link'[l] = "live" =>
               link[l] = "live" /\ account'.hash = account.hash,
           \A q \in Slot : \/ request'[q] = Idle
                           \/ /\ request[q] # Idle
                              /\ request'[q] = [request[q] EXCEPT !.stray = TRUE]
    PROVE  Bonds'
<1>1. ASSUME NEW q \in Slot, request'[q] # Idle
      PROVE  /\ request[q] # Idle
             /\ request'[q].stray
             /\ request'[q].op = request[q].op
             /\ request'[q].seen = request[q].seen
             /\ request'[q].lock = request[q].lock
             /\ request'[q].ends = request[q].ends
  BY <1>1 DEF SessionsInv, TypeOK, Request
<1>2. VersionsInv'
  BY <1>1 DEF SessionsInv, VersionsInv, Opening
<1>3. RequestsInv'
  BY <1>1 DEF SessionsInv, RequestsInv
<1>4. TrashInv' /\ NothingOutlivesPassword' /\ LockedHoldsNoSession'
  BY DEF SessionsInv, TrashInv, NothingOutlivesPassword, LockedHoldsNoSession
<1> QED
  BY <1>2, <1>3, <1>4 DEF Bonds

\* The administrator's steps.
LEMMA AdminKeeps ==
    ASSUME SessionsInv, TypeOK', AdminStep
    PROVE  Bonds'
<1> USE SessionsAssumption
<1>1. ASSUME NEW route, NEW q \in Slot, NEW lock \in {"set", "clear", "leave"},
             NEW email \in Email \cup {Keep}, NEW ends \in BOOLEAN,
             lock = "set" => ends, ReadForUpdate(route, q, lock, email, ends)
      PROVE  Bonds'
  <2> DEFINE c == [Blank EXCEPT !.op = "update", !.lock = lock, !.email = email,
                                !.ends = ends]
  <2>1. c \in Request
    BY BlankTyped DEF Request, Ops, SessionsInv
  <2>2. Sound(c)
    BY <1>1 DEF Sound, NotOvertaken, Opening, Blank
  <2>3. Read(route, q, c)
    BY <1>1 DEF ReadForUpdate
  <2> QED
    BY <2>1, <2>2, <2>3, ReadKeeps
<1>2. ASSUME NEW q \in Slot, WriteUpdate(q) PROVE Bonds'
  <2> DEFINE c == request[q]
  <2>1. /\ c \in Request /\ c # Idle /\ c.op = "update"
        /\ account.life # "purged"
        /\ UNCHANGED <<token, link, access, proof, issuedFor, strays, unrevoked>>
    BY <1>2 DEF WriteUpdate, InFlight, Exists, SessionsInv, TypeOK, history
  <2>2. c.lock = "set" => c.ends
    BY <2>1 DEF SessionsInv, RequestsInv
  <2>3. /\ account'.hash = account.hash /\ account'.version = account.version
        /\ account'.life = account.life
        /\ account.active /\ c.lock # "set" => account'.active
    BY <1>2, <2>1 DEF WriteUpdate, SessionsInv, TypeOK, Account, Request
  <2>4. IF c.ends THEN request'[q] # Idle /\ request'[q].op = "revoke"
                  ELSE request'[q] = Idle
    <3>1. [c EXCEPT !.op = "revoke"].op = "revoke"
          /\ [c EXCEPT !.op = "revoke"] # Idle
      BY <2>1 DEF Request, Ops
    <3> QED
      BY <1>2, <3>1 DEF WriteUpdate, SessionsInv, TypeOK
  <2>5. ASSUME NEW p \in Slot, p # q, request[p] # Idle
        PROVE  /\ request'[p] # Idle
               /\ request'[p].op = request[p].op /\ request'[p].seen = request[p].seen
               /\ request'[p].lock = request[p].lock /\ request'[p].ends = request[p].ends
               /\ request'[p].proof = request[p].proof
               /\ IF c.lock = "set" THEN request'[p].stray
                                    ELSE request'[p].stray = request[p].stray
    <3>1. /\ request[p] \in Request
          /\ request'[p] = IF c.lock # "set" THEN request[p]
                           ELSE [request[p] EXCEPT !.stray = TRUE]
      BY <1>2, <2>5 DEF WriteUpdate, SessionsInv, TypeOK
    <3>2. [request[p] EXCEPT !.stray = TRUE] \in Request
      BY <3>1 DEF Request
    <3> QED
      BY <2>5, <3>1, <3>2 DEF Request
  <2>6. ASSUME NEW p \in Slot, p # q, request[p] = Idle PROVE request'[p] = Idle
    BY <1>2, <2>6 DEF WriteUpdate, SessionsInv, TypeOK
  <2>7. VersionsInv'
    <3>1. ASSUME NEW p \in Slot, request'[p] # Idle, Opening(request'[p])
          PROVE  request'[p].seen.version = request'[p].seen.hash
      BY <2>4, <2>5, <2>6, <3>1 DEF SessionsInv, VersionsInv, Opening
    <3> QED
      BY <2>1, <2>3, <3>1 DEF SessionsInv, VersionsInv
  <2>8. RequestsInv'
    <3>1. ASSUME NEW p \in Slot, request'[p] # Idle
          PROVE  /\ ~request'[p].stray =>
                        /\ request'[p].op \in {"issue", "rotate"} =>
                               /\ request'[p].proof = account'.hash
                               /\ account'.active
                               /\ account'.life # "trashed"
                        /\ request'[p].op \in {"forgot", "link"} =>
                               request'[p].seen.hash = account'.hash
                 /\ request'[p].op = "update" /\ request'[p].lock = "set" =>
                        request'[p].ends
      <4>1. CASE p = q
        BY <2>4, <3>1, <4>1
      <4>2. CASE p # q
        BY <2>3, <2>5, <2>6, <3>1, <4>2
        DEF SessionsInv, RequestsInv, NotOvertaken, Opening
      <4> QED
        BY <4>1, <4>2
    <3> QED
      BY <3>1 DEF RequestsInv, NotOvertaken, Opening
  <2>9. TrashInv' /\ NothingOutlivesPassword'
    BY <2>1, <2>3 DEF SessionsInv, TrashInv, NothingOutlivesPassword
  <2>10. LockedHoldsNoSession'
    <3>1. CASE c.ends
      BY <2>4, <3>1 DEF LockedHoldsNoSession, InFlight
    <3>2. CASE ~c.ends
      BY <2>1, <2>2, <2>3, <2>5, <3>2 DEF SessionsInv, LockedHoldsNoSession, InFlight
    <3> QED
      BY <3>1, <3>2
  <2> QED
    BY <2>7, <2>8, <2>9, <2>10 DEF Bonds
<1>3. ASSUME Trash PROVE Bonds'
  <2>1. /\ account'.version = account'.hash /\ account'.hash = account.hash
        /\ \A t \in Token : token'[t] # "live"
    BY <1>3 DEF Trash, Killed, SessionsInv, TypeOK, Account, VersionsInv
  <2>2. \A q \in Slot : \/ request'[q] = Idle
                        \/ /\ request[q] # Idle
                           /\ request'[q] = [request[q] EXCEPT !.stray = TRUE]
    BY <1>3 DEF Trash
  <2>3. UNCHANGED <<link, access, proof, issuedFor, strays>>
    BY <1>3 DEF Trash
  <2> QED
    BY <2>1, <2>2, <2>3, EndAllKeeps
<1>4. ASSUME Restore PROVE Bonds'
  <2>1. /\ account.life = "trashed" /\ account'.life = "live"
        /\ account'.hash = account.hash /\ account'.version = account.version
        /\ UNCHANGED <<token, link, access, request, proof, issuedFor, strays, unrevoked>>
    BY <1>4 DEF Restore, SessionsInv, TypeOK, Account, history
  <2>2. VersionsInv'
    BY <2>1 DEF SessionsInv, VersionsInv
  <2>3. RequestsInv'
    BY <2>1 DEF SessionsInv, RequestsInv, NotOvertaken
  <2>4. TrashInv' /\ NothingOutlivesPassword' /\ LockedHoldsNoSession'
    BY <2>1 DEF SessionsInv, TrashInv, NothingOutlivesPassword, LockedHoldsNoSession
  <2> QED
    BY <2>2, <2>3, <2>4 DEF Bonds
<1>5. ASSUME Purge PROVE Bonds'
  <2>1. /\ account'.life = "purged" /\ account'.active = account.active
        /\ account'.hash = account.hash /\ account'.version = account.version
        /\ \A t \in Token : token'[t] # "live"
        /\ \A l \in Link : link'[l] # "live"
        /\ UNCHANGED <<access, request>>
    BY <1>5 DEF Purge, Killed, SessionsInv, TypeOK, Account
  <2>2. VersionsInv'
    BY <2>1 DEF SessionsInv, VersionsInv
  <2>3. RequestsInv'
    BY <2>1 DEF SessionsInv, RequestsInv, NotOvertaken
  <2>4. TrashInv' /\ NothingOutlivesPassword' /\ LockedHoldsNoSession'
    BY <2>1 DEF TrashInv, NothingOutlivesPassword, LockedHoldsNoSession
  <2> QED
    BY <2>2, <2>3, <2>4 DEF Bonds
<1> QED
  BY <1>1, <1>2, <1>3, <1>4, <1>5
  DEF AdminStep, ReadForLock, ReadForUnlock, ReadForRole, ReadForAddress

\* A request that goes on to its next write: what it may change of itself.
LEMMA MoveKeeps ==
    ASSUME SessionsInv, NEW q \in Slot, request[q] # Idle,
           ~Opening(request[q]), request[q].op # "revoke",
           NEW c \in Request, Sound(c), Put(q, c),
           UNCHANGED <<account, token, link, access, proof, issuedFor, strays, unrevoked>>
    PROVE  Bonds'
<1>1. request'[q] = c /\ (\A p \in Slot \ {q} : request'[p] = request[p])
  BY DEF SessionsInv, TypeOK, Put
<1>2. VersionsInv'
  BY <1>1 DEF SessionsInv, VersionsInv, Sound, Opening
<1>3. RequestsInv'
  BY <1>1 DEF SessionsInv, RequestsInv, Sound, NotOvertaken, Opening
<1>4. TrashInv' /\ NothingOutlivesPassword'
  BY DEF SessionsInv, TrashInv, NothingOutlivesPassword
<1>5. LockedHoldsNoSession'
  BY <1>1 DEF SessionsInv, LockedHoldsNoSession, InFlight
<1> QED
  BY <1>2, <1>3, <1>4, <1>5 DEF Bonds

\* The steps on the password, its links and its challenge.
LEMMA PasswordKeeps ==
    ASSUME SessionsInv, TypeOK', PasswordStep
    PROVE  Bonds'
<1> USE SessionsAssumption
<1>t. TypeOK
  BY DEF SessionsInv
<1>1. ASSUME NEW q \in Slot, ReadForForgot(q) PROVE Bonds'
  <2> DEFINE c == [Blank EXCEPT !.op = "forgot", !.seen = Snapshot]
  <2>1. c \in Request
    BY <1>t, BlankTyped DEF TypeOK, Account, Request, Ops
  <2>2. Sound(c)
    BY DEF Sound, NotOvertaken, Opening, Blank, Snapshot
  <2>3. Read("forgot", q, c)
    BY <1>1 DEF ReadForForgot
  <2> QED
    BY <2>1, <2>2, <2>3, ReadKeeps
<1>2. ASSUME NEW q \in Slot, RevokeLinks(q) PROVE Bonds'
  <2> DEFINE c == [request[q] EXCEPT !.op = "link",
                                     !.links = {l \in Link : link[l] = "live"}]
  <2>1. request[q] \in Request /\ request[q] # Idle /\ request[q].op = "forgot"
    BY <1>t, <1>2 DEF RevokeLinks, InFlight, TypeOK
  <2>2. c \in Request
    BY <2>1 DEF Request, Ops
  <2>3. c.op = "link" /\ c.seen = request[q].seen /\ c.stray = request[q].stray
    BY <2>1 DEF Request
  <2>4. Put(q, c)
    BY <1>2 DEF RevokeLinks
  <2>5. ~request[q].stray => request[q].seen.hash = account.hash
    BY <2>1 DEF SessionsInv, RequestsInv, NotOvertaken
  <2> HIDE DEF c
  <2>6. Sound(c)
    BY <2>3, <2>5 DEF Sound, NotOvertaken, Opening
  <2>7. UNCHANGED <<account, token, link, access, proof, issuedFor, strays, unrevoked>>
    BY <1>2 DEF RevokeLinks, history
  <2> QED
    BY <2>1, <2>2, <2>4, <2>6, <2>7, MoveKeeps DEF Opening
<1>3. ASSUME NEW q \in Slot, NEW l \in Link, CreateLink(q, l) PROVE Bonds'
  <2>1. request[q] \in Request /\ request[q] # Idle /\ request[q].op = "link"
    BY <1>t, <1>3 DEF CreateLink, InFlight, TypeOK
  <2>2. /\ UNCHANGED <<account, token, access, proof, unrevoked>>
        /\ \A k \in Link : k # l /\ link'[k] = "live" => link[k] = "live"
        /\ issuedFor' = [issuedFor EXCEPT ![l] = request[q].seen.hash]
    BY <1>t, <1>3 DEF CreateLink, Killed, TypeOK
  <2>3. \/ l \in strays' /\ strays \subseteq strays'
        \/ ~request[q].stray /\ strays' = strays
    BY <1>3 DEF CreateLink
  <2>4. request'[q] = Idle /\ (\A p \in Slot \ {q} : request'[p] = request[p])
    BY <1>t, <1>3 DEF CreateLink, Finish, Put, TypeOK
  <2>5. VersionsInv'
    BY <2>2, <2>4 DEF SessionsInv, VersionsInv, Opening
  <2>6. RequestsInv'
    BY <2>2, <2>4 DEF SessionsInv, RequestsInv, NotOvertaken, Opening
  <2>7. TrashInv'
    BY <2>2, <2>3 DEF SessionsInv, TrashInv
  <2>8. NothingOutlivesPassword'
    BY <2>1, <2>2, <2>3
    DEF SessionsInv, TypeOK, NothingOutlivesPassword, RequestsInv, NotOvertaken
  <2>9. LockedHoldsNoSession'
    BY <2>1, <2>2, <2>3, <2>4 DEF SessionsInv, LockedHoldsNoSession, InFlight
  <2> QED
    BY <2>5, <2>6, <2>7, <2>8, <2>9 DEF Bonds
<1>4. ASSUME SetPassword
      PROVE  /\ account'.version = account'.hash
             /\ \A t \in Token : token'[t] # "live"
  BY <1>4, <1>t DEF SetPassword, Killed, SessionsInv, TypeOK, Account, VersionsInv
<1>5. ASSUME NEW q \in Slot, NEW l \in Link, ResetPassword(q, l) PROVE Bonds'
  <2>1. \A k \in Link : link'[k] # "live"
    BY <1>5, <1>t DEF ResetPassword, Killed, TypeOK
  <2>2. /\ UNCHANGED <<access, proof, issuedFor, strays>>
        /\ SetPassword
        /\ \A p \in Slot : \/ request'[p] = Idle
                            \/ /\ request[p] # Idle
                               /\ request'[p] = [request[p] EXCEPT !.stray = TRUE]
    BY <1>5 DEF ResetPassword, Overtake
  <2> QED
    BY <1>4, <2>1, <2>2, EndAllKeeps
<1>6. ASSUME NEW q \in Slot, ChangePassword(q) PROVE Bonds'
  <2>1. \A k \in Link : link'[k] # "live"
    BY <1>6, <1>t DEF ChangePassword, Killed, TypeOK
  <2>2. /\ UNCHANGED <<access, proof, issuedFor, strays>>
        /\ SetPassword
        /\ \A p \in Slot : \/ request'[p] = Idle
                            \/ /\ request[p] # Idle
                               /\ request'[p] = [request[p] EXCEPT !.stray = TRUE]
    BY <1>6 DEF ChangePassword, Overtake
  <2> QED
    BY <1>4, <2>1, <2>2, EndAllKeeps
<1>7. ASSUME NEW l \in Link, ExpireLink(l) PROVE Bonds'
  BY <1>7, <1>t, DyingKeeps DEF ExpireLink, history, TypeOK
<1>8. ASSUME NEW q \in Slot, ReadForCode(q) PROVE Bonds'
  <2> DEFINE c == [Blank EXCEPT !.op = "code", !.seen = Snapshot]
  <2>1. c \in Request
    BY <1>t, BlankTyped DEF TypeOK, Account, Request, Ops
  <2>2. Sound(c)
    BY DEF Sound, NotOvertaken, Opening, Blank
  <2>3. Read("change", q, c)
    BY <1>8 DEF ReadForCode
  <2> QED
    BY <2>1, <2>2, <2>3, ReadKeeps
<1>9. ASSUME NEW q \in Slot, StoreCode(q) PROVE Bonds'
  <2> DEFINE c == [request[q] EXCEPT !.op = "mail", !.seen = Nothing,
                                     !.serial = code.serial + 1]
  <2>1. request[q] \in Request /\ request[q] # Idle /\ request[q].op = "code"
    BY <1>t, <1>9 DEF StoreCode, InFlight, TypeOK
  <2>2. Nothing \in Seen /\ code.serial + 1 \in Nat
    BY <1>t DEF Nothing, Seen, TypeOK, Challenge
  <2>3. c \in Request
    BY <2>1, <2>2 DEF Request, Ops
  <2>4. c.op = "mail"
    BY <2>1 DEF Request
  <2>5. Put(q, c)
    BY <1>9 DEF StoreCode
  <2> HIDE DEF c
  <2>6. Sound(c)
    BY <2>4 DEF Sound, NotOvertaken, Opening
  <2>7. UNCHANGED <<account, token, link, access, proof, issuedFor, strays, unrevoked>>
    BY <1>9 DEF StoreCode, history
  <2> QED
    BY <2>1, <2>3, <2>5, <2>6, <2>7, MoveKeeps DEF Opening
<1>10. ASSUME NEW q \in Slot, MailFails(q) \/ CountWrong(q) PROVE Bonds'
  <2>1. /\ Finish(q) /\ ~InFlight(q, "revoke")
        /\ UNCHANGED <<account, token, link, access, proof, issuedFor, strays, unrevoked>>
    BY <1>10 DEF MailFails, CountWrong, InFlight, history
  <2> QED
    BY <2>1, FinishKeeps
<1>11. ASSUME NEW q \in Slot, NEW op \in {"wrong", "change"}, ReadForChange(q, op)
       PROVE  Bonds'
  <2> DEFINE c == [Blank EXCEPT !.op = op, !.seen = Snapshot, !.serial = code.serial]
  <2>1. c \in Request
    BY <1>t, BlankTyped DEF TypeOK, Account, Challenge, Request, Ops
  <2>2. Sound(c)
    BY DEF Sound, NotOvertaken, Opening, Blank
  <2>3. Read("change", q, c)
    BY <1>11 DEF ReadForChange
  <2> QED
    BY <2>1, <2>2, <2>3, ReadKeeps
<1>12. ASSUME ExpireCode \/ \E kind \in {"link", "code"} : CoolDown(kind) PROVE Bonds'
  <2>1. UNCHANGED <<account, token, link, access, request, proof, issuedFor, strays,
                    unrevoked>>
    BY <1>12 DEF ExpireCode, CoolDown, history
  <2> QED
    BY <2>1, DyingKeeps
<1>13. ASSUME NEW q \in Slot, NEW l \in Link, ReadForReset(q, l) PROVE Bonds'
  <2> DEFINE c == [Blank EXCEPT !.op = "reset", !.links = {l}]
  <2>1. c \in Request
    BY BlankTyped, <1>t DEF Request, Ops
  <2>2. Sound(c)
    BY DEF Sound, NotOvertaken, Opening, Blank
  <2>3. Read("reset", q, c)
    BY <1>13 DEF ReadForReset
  <2> QED
    BY <2>1, <2>2, <2>3, ReadKeeps
<1> QED
  BY <1>1, <1>2, <1>3, <1>5, <1>6, <1>7, <1>8, <1>9, <1>10, <1>11, <1>12, <1>13
  DEF PasswordStep

-----------------------------------------------------------------------------
(* The theorems                                                            *)

\* Every reachable state satisfies the inductive invariant.
THEOREM SessionsInvariant == Spec => []SessionsInv
<1> USE SessionsAssumption
<1>1. Init /\ TypeOK => SessionsInv
  BY DEF Init, SessionsInv, VersionsInv, RequestsInv, TrashInv, NothingOutlivesPassword,
         LockedHoldsNoSession
<1>2. SessionsInv /\ TypeOK' /\ [Next]_vars => SessionsInv'
  <2>1. ASSUME SessionsInv, TypeOK', Next PROVE Bonds'
    BY <2>1, SessionKeeps, AdminKeeps, PasswordKeeps DEF Next
  <2>2. ASSUME SessionsInv, UNCHANGED vars PROVE Bonds'
    BY <2>2, DyingKeeps DEF vars, history
  <2> QED
    BY <2>1, <2>2 DEF Bonds, SessionsInv
<1> QED
  BY <1>1, <1>2, SessionsTyped, PTL DEF Spec

\* No session or reset link outlives its password, whatever the interleaving,
\* except the ones written by a request that the change overtook.
THEOREM NothingOutlivesPasswordAlways == Spec => []NothingOutlivesPassword
<1>1. SessionsInv => NothingOutlivesPassword
  BY DEF SessionsInv
<1> QED
  BY <1>1, SessionsInvariant, PTL

\* An access token that is accepted was read off the account with the password
\* it has now.
THEOREM AccessTokenFreshAlways == Spec => []AccessTokenFresh
<1>1. SessionsInv => AccessTokenFresh
  BY DEF SessionsInv, VersionsInv, AccessTokenFresh, Accepted
<1> QED
  BY <1>1, SessionsInvariant, PTL

\* A locked account holds no session outside the windows the property names.
THEOREM LockedHoldsNoSessionAlways == Spec => []LockedHoldsNoSession
<1>1. SessionsInv => LockedHoldsNoSession
  BY DEF SessionsInv
<1> QED
  BY <1>1, SessionsInvariant, PTL

\* The challenge never changes under its id, and an id is never given again.
LEMMA ChallengeKept ==
    ASSUME TypeOK, ChallengeInv,
           \/ code'.serial = code.serial /\ code'.hash = code.hash /\ code'.email = code.email
           \/ code'.serial = code.serial + 1,
           \A p \in Slot : request'[p] # Idle /\ request'[p].op = "change" =>
               \/ /\ request[p] # Idle /\ request[p].op = "change"
                  /\ request'[p].serial = request[p].serial
                  /\ request'[p].seen = request[p].seen
               \/ /\ request'[p].serial = code'.serial
                  /\ request'[p].seen.hash = code'.hash
                  /\ request'[p].seen.email = code'.email
    PROVE  ChallengeInv'
<1>1. /\ code.serial \in Nat
      /\ \A p \in Slot : request[p] # Idle => request[p].serial \in Nat
  BY DEF TypeOK, Challenge, Request
<1> QED
  BY <1>1 DEF ChallengeInv, InFlight

\* A request marked as overtaken is otherwise as it was.
LEMMA MarkedSame ==
    ASSUME NEW c \in Request
    PROVE  /\ [c EXCEPT !.stray = TRUE].op = c.op
           /\ [c EXCEPT !.stray = TRUE].serial = c.serial
           /\ [c EXCEPT !.stray = TRUE].seen = c.seen
BY DEF Request

\* A step on the requests that leaves the challenge alone and reads none.
LEMMA OthersKeepChallenge ==
    ASSUME TypeOK, ChallengeInv, SessionStep \/ AdminStep
    PROVE  ChallengeInv'
<1> USE SessionsAssumption
<1>1. ASSUME NEW route, NEW q \in Slot, NEW c, c.op # "change", Read(route, q, c)
      PROVE  ChallengeInv'
  <2>1. request'[q] = c /\ (\A p \in Slot \ {q} : request'[p] = request[p])
        /\ UNCHANGED code
    BY <1>1 DEF TypeOK, Read, Put
  <2> QED
    BY <1>1, <2>1, ChallengeKept
<1>2. ASSUME NEW q \in Slot, Finish(q), UNCHANGED code PROVE ChallengeInv'
  <2>1. request'[q] = Idle /\ (\A p \in Slot \ {q} : request'[p] = request[p])
    BY <1>2 DEF TypeOK, Finish, Put
  <2> QED
    BY <1>2, <2>1, ChallengeKept
<1>3. ASSUME UNCHANGED request,
             code'.serial = code.serial /\ code'.hash = code.hash /\ code'.email = code.email
      PROVE  ChallengeInv'
  BY <1>3, ChallengeKept
<1>4. ASSUME SessionStep PROVE ChallengeInv'
  <2>1. ASSUME NEW q \in Slot, ReadForLogin(q) PROVE ChallengeInv'
    <3>1. [Blank EXCEPT !.seen = Snapshot, !.proof = account.hash].op # "change"
      BY DEF Blank
    <3> QED
      BY <1>1, <2>1, <3>1 DEF ReadForLogin
  <2>2. ASSUME NEW q \in Slot, Rotate(q) PROVE ChallengeInv'
    <3>1. request[q] \in Request
      BY <2>2 DEF Rotate, InFlight, TypeOK
    <3>2. [request[q] EXCEPT !.op = "issue", !.tokens = {}].op = "issue"
      BY <3>1 DEF Request
    <3>3. /\ request'[q].op = "issue" /\ UNCHANGED code
          /\ \A p \in Slot \ {q} : request'[p] = request[p]
      BY <2>2, <3>2 DEF Rotate, Put, TypeOK
    <3> QED
      BY <3>3, ChallengeKept
  <2>3. ASSUME NEW q \in Slot, RevokeAll(q) \/ Abandon(q) \/ \E t \in Token : Issue(q, t)
        PROVE  ChallengeInv'
    BY <1>2, <2>3 DEF RevokeAll, Abandon, Issue
  <2>4. ASSUME NEW q \in Slot, NEW t \in Token, ReadForRefresh(q, t) PROVE ChallengeInv'
    <3>1. ASSUME NEW op \in {"rotate", "revoke"}, NEW old
          PROVE  [Blank EXCEPT !.op = op, !.seen = Snapshot, !.tokens = {t},
                               !.proof = proof[t], !.stray = old].op # "change"
      BY <3>1 DEF Blank
    <3>2. CASE account.active
      BY <1>1, <2>4, <3>1, <3>2, Zenon DEF ReadForRefresh
    <3>3. CASE ~account.active
      BY <1>1, <2>4, <3>1, <3>3, Zenon DEF ReadForRefresh
    <3> QED
      BY <3>2, <3>3
  <2>5. ASSUME NEW t \in Token, Logout(t) \/ ExpireToken(t) PROVE ChallengeInv'
    BY <1>3, <2>5 DEF Logout, ExpireToken
  <2> QED
    BY <1>4, <2>1, <2>2, <2>3, <2>4, <2>5 DEF SessionStep
<1>5. ASSUME AdminStep PROVE ChallengeInv'
  <2>1. ASSUME NEW route, NEW q \in Slot, NEW lock, NEW email, NEW ends,
               ReadForUpdate(route, q, lock, email, ends)
        PROVE  ChallengeInv'
    <3>1. [Blank EXCEPT !.op = "update", !.lock = lock, !.email = email,
                        !.ends = ends].op # "change"
      BY DEF Blank
    <3> QED
      BY <1>1, <2>1, <3>1 DEF ReadForUpdate
  <2>2. ASSUME NEW q \in Slot, WriteUpdate(q) PROVE ChallengeInv'
    <3>1. request[q] \in Request /\ UNCHANGED code
      BY <2>2 DEF WriteUpdate, InFlight, TypeOK, history
    <3>2. [request[q] EXCEPT !.op = "revoke"].op = "revoke"
      BY <3>1 DEF Request
    <3>3. request'[q] = Idle \/ request'[q].op = "revoke"
      BY <2>2, <3>2 DEF WriteUpdate, TypeOK
    <3>4. ASSUME NEW p \in Slot, p # q, request'[p] # Idle
          PROVE  /\ request[p] # Idle /\ request'[p].op = request[p].op
                 /\ request'[p].serial = request[p].serial
                 /\ request'[p].seen = request[p].seen
      BY <2>2, <3>4, MarkedSame DEF WriteUpdate, TypeOK
    <3> QED
      BY <3>1, <3>3, <3>4, ChallengeKept
  <2>3. ASSUME Trash PROVE ChallengeInv'
    <3>1. ASSUME NEW p \in Slot, request'[p] # Idle
          PROVE  /\ request[p] # Idle /\ request'[p].op = request[p].op
                 /\ request'[p].serial = request[p].serial
                 /\ request'[p].seen = request[p].seen
      BY <2>3, <3>1, MarkedSame DEF Trash, TypeOK
    <3> QED
      BY <2>3, <3>1, ChallengeKept DEF Trash
  <2>4. ASSUME Restore \/ Purge PROVE ChallengeInv'
    BY <1>3, <2>4 DEF Restore, Purge, TypeOK, Challenge
  <2> QED
    BY <1>5, <2>1, <2>2, <2>3, <2>4
    DEF AdminStep, ReadForLock, ReadForUnlock, ReadForRole, ReadForAddress
<1> QED
  BY <1>4, <1>5

\* The steps on the password, its links and its challenge.
LEMMA PasswordKeepsChallenge ==
    ASSUME TypeOK, ChallengeInv, PasswordStep
    PROVE  ChallengeInv'
<1> USE SessionsAssumption
<1>1. ASSUME NEW route, NEW q \in Slot, NEW c,
             c.op = "change" => /\ c.serial = code.serial
                                /\ c.seen.hash = code.hash /\ c.seen.email = code.email,
             Read(route, q, c)
      PROVE  ChallengeInv'
  <2>1. request'[q] = c /\ (\A p \in Slot \ {q} : request'[p] = request[p])
        /\ UNCHANGED code
    BY <1>1 DEF TypeOK, Read, Put
  <2> QED
    BY <1>1, <2>1, ChallengeKept
<1>2. ASSUME NEW q \in Slot, Finish(q),
             code'.serial = code.serial /\ code'.hash = code.hash /\ code'.email = code.email
      PROVE  ChallengeInv'
  <2>1. request'[q] = Idle /\ (\A p \in Slot \ {q} : request'[p] = request[p])
    BY <1>2 DEF TypeOK, Finish, Put
  <2> QED
    BY <1>2, <2>1, ChallengeKept
<1>3. ASSUME NEW q \in Slot, NEW c, c.op # "change", Put(q, c),
             \/ UNCHANGED code
             \/ code'.serial = code.serial + 1
      PROVE  ChallengeInv'
  <2>1. request'[q] = c /\ (\A p \in Slot \ {q} : request'[p] = request[p])
    BY <1>3 DEF TypeOK, Put
  <2> QED
    BY <1>3, <2>1, ChallengeKept
<1>4. ASSUME code'.serial = code.serial /\ code'.hash = code.hash /\ code'.email = code.email,
             \A p \in Slot : \/ request'[p] = Idle
                             \/ /\ request[p] # Idle
                                /\ request'[p] = [request[p] EXCEPT !.stray = TRUE]
      PROVE  ChallengeInv'
  <2>1. ASSUME NEW p \in Slot, request'[p] # Idle
        PROVE  /\ request[p] # Idle /\ request'[p].op = request[p].op
               /\ request'[p].serial = request[p].serial
               /\ request'[p].seen = request[p].seen
    BY <1>4, <2>1, MarkedSame DEF TypeOK
  <2> QED
    BY <1>4, <2>1, ChallengeKept
<1>5. ASSUME NEW q \in Slot, \/ ReadForForgot(q) \/ ReadForCode(q)
                             \/ \E l \in Link : ReadForReset(q, l)
      PROVE  ChallengeInv'
  <2>1. /\ [Blank EXCEPT !.op = "forgot", !.seen = Snapshot].op # "change"
        /\ [Blank EXCEPT !.op = "code", !.seen = Snapshot].op # "change"
        /\ \A l \in Link : [Blank EXCEPT !.op = "reset", !.links = {l}].op # "change"
    BY DEF Blank
  <2> QED
    BY <1>1, <1>5, <2>1 DEF ReadForForgot, ReadForCode, ReadForReset
<1>6. ASSUME NEW q \in Slot, NEW op \in {"wrong", "change"}, ReadForChange(q, op)
      PROVE  ChallengeInv'
  <2> DEFINE c == [Blank EXCEPT !.op = op, !.seen = Snapshot, !.serial = code.serial]
  <2>1. c.serial = code.serial /\ c.seen.hash = code.hash /\ c.seen.email = code.email
    BY <1>6 DEF Blank, Snapshot, ReadForChange, ChallengeStands
  <2>2. Read("change", q, c)
    BY <1>6 DEF ReadForChange
  <2> QED
    BY <1>1, <2>1, <2>2
<1>7. ASSUME NEW q \in Slot, RevokeLinks(q) PROVE ChallengeInv'
  <2>1. [request[q] EXCEPT !.op = "link",
                           !.links = {l \in Link : link[l] = "live"}].op # "change"
    BY <1>7 DEF RevokeLinks, InFlight, TypeOK, Request
  <2> QED
    BY <1>3, <1>7, <2>1 DEF RevokeLinks
<1>8. ASSUME NEW q \in Slot, StoreCode(q) PROVE ChallengeInv'
  <2>1. [request[q] EXCEPT !.op = "mail", !.seen = Nothing,
                           !.serial = code.serial + 1].op # "change"
    BY <1>8 DEF StoreCode, InFlight, TypeOK, Request
  <2>2. code'.serial = code.serial + 1
    BY <1>8 DEF StoreCode
  <2> QED
    BY <1>3, <1>8, <2>1, <2>2 DEF StoreCode
<1>9. ASSUME NEW q \in Slot, \/ \E l \in Link : CreateLink(q, l)
                             \/ MailFails(q) \/ CountWrong(q)
      PROVE  ChallengeInv'
  <2>1. Finish(q)
    BY <1>9 DEF CreateLink, MailFails, CountWrong
  <2>2. code'.serial = code.serial /\ code'.hash = code.hash /\ code'.email = code.email
    BY <1>9 DEF CreateLink, MailFails, CountWrong, TypeOK, Challenge
  <2> QED
    BY <1>2, <2>1, <2>2
<1>10. ASSUME \/ \E q \in Slot, l \in Link : ResetPassword(q, l)
              \/ \E q \in Slot : ChangePassword(q)
       PROVE  ChallengeInv'
  <2>1. code'.serial = code.serial /\ code'.hash = code.hash /\ code'.email = code.email
    BY <1>10 DEF ResetPassword, ChangePassword, TypeOK, Challenge
  <2> QED
    BY <1>4, <1>10, <2>1 DEF ResetPassword, ChangePassword, Overtake
<1>11. ASSUME \/ \E l \in Link : ExpireLink(l)
              \/ ExpireCode
              \/ \E kind \in {"link", "code"} : CoolDown(kind)
       PROVE  ChallengeInv'
  <2>1. /\ UNCHANGED request
        /\ code'.serial = code.serial /\ code'.hash = code.hash /\ code'.email = code.email
    BY <1>11 DEF ExpireLink, ExpireCode, CoolDown, TypeOK, Challenge
  <2> QED
    BY <2>1, ChallengeKept
<1> QED
  BY <1>5, <1>6, <1>7, <1>8, <1>9, <1>10, <1>11 DEF PasswordStep

\* No step changes the password without using up a live link or the challenge
\* that stands for the password it replaces.
THEOREM ChangesArePaidFor == Spec => EveryChangeIsPaidFor
<1> USE SessionsAssumption
<1> DEFINE Paid == \/ \E l \in Link : link[l] = "live" /\ link'[l] = "used"
                   \/ ChallengeStands /\ ~code'.open
<1>1. Init => ChallengeInv
  BY DEF Init, ChallengeInv, InFlight
<1>2. TypeOK /\ ChallengeInv /\ [Next]_vars => ChallengeInv'
  <2>1. ASSUME TypeOK, ChallengeInv, UNCHANGED vars PROVE ChallengeInv'
    BY <2>1 DEF vars, ChallengeInv, InFlight
  <2> QED
    BY <2>1, OthersKeepChallenge, PasswordKeepsChallenge DEF Next
<1>3. ASSUME TypeOK, ChallengeInv, [Next]_vars
      PROVE  [account'.hash # account.hash => Paid]_vars
  <2>1. ASSUME NEW q \in Slot, NEW l \in Link, ResetPassword(q, l) PROVE Paid
    BY <1>3, <2>1 DEF ResetPassword, Killed, TypeOK
  <2>2. ASSUME NEW q \in Slot, ChangePassword(q) PROVE Paid
    <3>1. /\ request[q] # Idle /\ request[q].op = "change"
          /\ request[q].serial = code.serial /\ code.open /\ code.wrong < MaxWrong
          /\ account.hash = request[q].seen.hash /\ account.email = request[q].seen.email
      BY <2>2 DEF ChangePassword, InFlight, Claimable, StillSeen
    <3>2. code.hash = account.hash /\ code.email = account.email
      BY <1>3, <3>1 DEF ChallengeInv, InFlight
    <3>3. ~code'.open
      BY <1>3, <2>2 DEF ChangePassword, TypeOK, Challenge
    <3> QED
      BY <3>1, <3>2, <3>3 DEF ChallengeStands
  <2>3. ASSUME SessionStep \/ AdminStep PROVE account'.hash = account.hash
    BY <1>3, <2>3
    DEF SessionStep, ReadForLogin, Rotate, RevokeAll, Abandon, ReadForRefresh, Issue,
        Logout, ExpireToken, AdminStep, ReadForLock, ReadForUnlock, ReadForRole,
        ReadForAddress, ReadForUpdate, WriteUpdate, Trash, Restore, Purge, Read, TypeOK, Account
  <2>4. CASE PasswordStep
    <3>1. \/ account'.hash = account.hash
          \/ \E q \in Slot, l \in Link : ResetPassword(q, l)
          \/ \E q \in Slot : ChangePassword(q)
      BY <2>4
      DEF PasswordStep, ReadForForgot, RevokeLinks, CreateLink, ReadForReset, ExpireLink,
          ReadForCode, StoreCode, MailFails, ReadForChange, CountWrong, ExpireCode, CoolDown, Read
    <3> QED
      BY <2>1, <2>2, <3>1
  <2> QED
    BY <1>3, <2>3, <2>4 DEF Next
<1> QED
  BY <1>1, <1>2, <1>3, SessionsTyped, PTL DEF Spec, EveryChangeIsPaidFor
=============================================================================
