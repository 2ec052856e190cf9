------------------------------ MODULE Sessions ------------------------------
(***************************************************************************)
(* The sessions and the password of one CMS account: login, refresh,       *)
(* logout, forgotten and changed passwords, the administrator's lock and   *)
(* the trash, under every interleaving.                                    *)
(*                                                                         *)
(* Most routes read the account and write later without looking again: a   *)
(* Read... action leaves what it saw in a request slot and a later action  *)
(* writes.  A READ COMMITTED transaction whose outcome rests on one claim  *)
(* of a row is one step; the one that rests on an earlier statement's      *)
(* snapshot (issuePasswordReset) is two.  SERIALIZABLE transactions are    *)
(* one step.  Expiry and cooldowns are steps that may happen at any time.  *)
(***************************************************************************)
EXTENDS Naturals

CONSTANTS
    Token,       \* rows of refresh_tokens that can be created
    Link,        \* rows of password_reset_tokens that can be created
    Email,       \* addresses the account may have
    Slot,        \* requests that can be in flight at the same time
    Idle,        \* a slot with no request in it
    Keep,        \* no address: one that is not written, or was not read
    Routes,      \* the routes that are called in this instance
    MaxWrong,    \* wrong codes after which a challenge is dead
    MaxChanges,  \* bound on the password changes
    MaxCodes     \* bound on the challenges sent

Ops == {"issue", "rotate", "revoke", "update", "forgot", "link", "reset", "code",
        "mail", "wrong", "change"}

Account == [life    : {"live", "trashed", "purged"},
            active  : BOOLEAN,
            hash    : Nat,       \* the how-manieth passwordHash it is
            version : Nat,       \* tokenVersion
            email   : Email]

\* password_change_codes, one row per account; `serial` is its id.
Challenge == [serial : Nat, hash : Nat, email : Email \cup {Keep},
              wrong : 0..MaxWrong, open : BOOLEAN]

\* What a request remembers of the account.
Seen == [hash : Nat, version : Nat, email : Email \cup {Keep}]

\* A request: what it saw, the columns it will write, the rows it works on.
\* `proof` and `stray` are history: the password its caller proved, and whether
\* a password change, a lock or the trash overtook it.
Request == [op : Ops, seen : Seen, lock : {"set", "clear", "leave"},
            email : Email \cup {Keep}, ends : BOOLEAN, tokens : SUBSET Token,
            links : SUBSET Link, serial : Nat, proof : Nat, stray : BOOLEAN]

ASSUME SessionsAssumption ==
    /\ Keep \notin Email
    /\ Idle \notin Request
    /\ MaxWrong \in Nat \ {0}
    /\ MaxChanges \in Nat
    /\ MaxCodes \in Nat

VARIABLES
    account,
    token,      \* token[t]: "unused", "live", or "dead" (revoked, expired, deleted)
    link,       \* link[l]: likewise, or "used"
    code,       \* the challenge
    cooling,    \* the kinds, "link" or "code", issued less than a minute ago
    access,     \* the access tokens issued: [version, hash], the latter history
    request

(* History variables: they record what happened and guard nothing.         *)
VARIABLES
    proof,      \* proof[t]: the password proved by the login t descends from
    issuedFor,  \* issuedFor[l]: the password that l was issued to replace
    strays,     \* tokens and links written by a request that was overtaken
    unrevoked   \* a revocation of all tokens was due and did not happen

history == <<proof, issuedFor, strays, unrevoked>>
vars    == <<account, token, link, code, cooling, access, request, history>>

TypeOK ==
    /\ account \in Account
    /\ token \in [Token -> {"unused", "live", "dead"}]
    /\ link \in [Link -> {"unused", "live", "used", "dead"}]
    /\ code \in Challenge
    /\ cooling \subseteq {"link", "code"}
    /\ access \subseteq [version : Nat, hash : Nat]
    /\ request \in [Slot -> Request \cup {Idle}]
    /\ proof \in [Token -> Nat]
    /\ issuedFor \in [Link -> Nat]
    /\ strays \subseteq Token \cup Link
    /\ unrevoked \in BOOLEAN

\* An account that completed its setup, with no session yet.
Init ==
    /\ \E e \in Email :
         /\ account = [life |-> "live", active |-> TRUE, hash |-> 0,
                       version |-> 0, email |-> e]
         /\ code = [serial |-> 0, hash |-> 0, email |-> e, wrong |-> 0,
                    open |-> FALSE]
    /\ token = [t \in Token |-> "unused"]
    /\ link = [l \in Link |-> "unused"]
    /\ cooling = {}
    /\ access = {}
    /\ request = [q \in Slot |-> Idle]
    /\ proof = [t \in Token |-> 0]
    /\ issuedFor = [l \in Link |-> 0]
    /\ strays = {}
    /\ unrevoked = FALSE

-----------------------------------------------------------------------------
(* Shared steps                                                            *)

Exists == account.life # "purged"
Usable == account.life = "live" /\ account.active

\* JwtStrategy.validate() lets an access token in, until it expires.
Accepted(a) == Usable /\ a.version = account.version

Killed(rows)     == [x \in DOMAIN rows |-> IF rows[x] = "live" THEN "dead" ELSE rows[x]]
Put(q, c)        == request' = [request EXCEPT ![q] = c]
Finish(q)        == Put(q, Idle)
InFlight(q, op)  == request[q] # Idle /\ request[q].op = op

Nothing  == [hash |-> 0, version |-> 0, email |-> Keep]
Snapshot == [hash |-> account.hash, version |-> account.version,
             email |-> account.email]

Blank == [op |-> "issue", seen |-> Nothing, lock |-> "leave", email |-> Keep,
          ends |-> FALSE, tokens |-> {}, links |-> {}, serial |-> 0,
          proof |-> 0, stray |-> FALSE]

\* A route read the account and found what it needs.
Read(route, q, c) ==
    /\ route \in Routes
    /\ request[q] = Idle
    /\ Put(q, c)
    /\ UNCHANGED <<account, token, link, code, cooling, access, history>>

\* All requests but the one in slot q are overtaken.
Overtake(q) ==
    request' = [p \in Slot |-> IF p = q \/ request[p] = Idle THEN Idle
                               ELSE [request[p] EXCEPT !.stray = TRUE]]

-----------------------------------------------------------------------------
(* Sessions: login, refresh, logout                                        *)

\* login() with the right password, up to its last write.
ReadForLogin(q) ==
    /\ Usable
    /\ Read("login", q, [Blank EXCEPT !.seen = Snapshot, !.proof = account.hash])

\* A mistaken refresh that does not look at isActive.
RefreshAnyAccount(q, t) ==
    /\ token[t] = "live"
    /\ Read("refresh", q,
            [Blank EXCEPT !.op = "rotate", !.seen = Snapshot, !.tokens = {t},
                          !.proof = proof[t], !.stray = t \in strays])

\* refresh() of a live token, up to the update of its row.  The account may be
\* in the trash; an inactive one loses all its tokens instead.
ReadForRefresh(q, t) ==
    /\ token[t] = "live"
    /\ Read("refresh", q,
            [Blank EXCEPT !.op     = IF account.active THEN "rotate" ELSE "revoke",
                          !.seen   = Snapshot,
                          !.tokens = {t},
                          !.proof  = proof[t],
                          !.stray  = t \in strays])

\* The presented token is revoked by id, whatever has become of it.
Rotate(q) ==
    /\ InFlight(q, "rotate")
    /\ Exists
    /\ token' = [t \in Token |-> IF t \in request[q].tokens THEN "dead" ELSE token[t]]
    /\ Put(q, [request[q] EXCEPT !.op = "issue", !.tokens = {}])
    /\ UNCHANGED <<account, link, code, cooling, access, history>>

\* issueTokens() signs what was read of the account.
Issue(q, t) ==
    /\ InFlight(q, "issue")
    /\ Exists
    /\ token[t] = "unused"
    /\ token' = [token EXCEPT ![t] = "live"]
    /\ access' = access \cup {[version |-> request[q].seen.version,
                               hash    |-> request[q].seen.hash]}
    /\ proof' = [proof EXCEPT ![t] = request[q].proof]
    /\ strays' = IF request[q].stray THEN strays \cup {t} ELSE strays
    /\ Finish(q)
    /\ UNCHANGED <<account, link, code, cooling, issuedFor, unrevoked>>

Logout(t) ==
    /\ "logout" \in Routes
    /\ token[t] = "live"
    /\ token' = [token EXCEPT ![t] = "dead"]
    /\ UNCHANGED <<account, link, code, cooling, access, request, history>>

\* revokeAllTokens(), outside any transaction.
RevokeAll(q) ==
    /\ InFlight(q, "revoke")
    /\ token' = Killed(token)
    /\ unrevoked' = FALSE
    /\ Finish(q)
    /\ UNCHANGED <<account, link, code, cooling, access, proof, issuedFor, strays>>

-----------------------------------------------------------------------------
(* The administrator: update(), remove() and the trash                     *)

\* update() of the lock, of the address or of the role (`ends` alone), and
\* remove(), which locks.
ReadForUpdate(route, q, lock, email, ends) ==
    /\ account.life = "live"
    /\ Read(route, q, [Blank EXCEPT !.op = "update", !.lock = lock,
                                    !.email = email, !.ends = ends])

ReadForLock(q)        == ReadForUpdate("lock", q, "set", Keep, TRUE)
ReadForUnlock(q)      == ReadForUpdate("lock", q, "clear", Keep, FALSE)
ReadForRole(q)        == ReadForUpdate("role", q, "leave", Keep, TRUE)
ReadForAddress(q, e)  == ReadForUpdate("address", q, "leave", e, FALSE)

\* The write by id, in the trash or not; the revocation is a statement of its own.
WriteUpdate(q) ==
    LET c    == request[q]
        next == IF c.ends THEN [c EXCEPT !.op = "revoke"] ELSE Idle
    IN  /\ InFlight(q, "update")
        /\ Exists
        /\ account' = [account EXCEPT !.active = IF c.lock = "leave" THEN @ ELSE c.lock = "clear",
                                      !.email  = IF c.email = Keep THEN @ ELSE c.email]
        /\ request' = [p \in Slot |->
               IF p = q THEN next
               ELSE IF request[p] = Idle \/ c.lock # "set" THEN request[p]
               ELSE [request[p] EXCEPT !.stray = TRUE]]
        /\ UNCHANGED <<token, link, code, cooling, access, history>>

Trash ==
    /\ "trash" \in Routes
    /\ account.life = "live"
    /\ account' = [account EXCEPT !.life = "trashed", !.active = FALSE]
    /\ token' = Killed(token)
    /\ request' = [p \in Slot |-> IF request[p] = Idle THEN Idle
                                  ELSE [request[p] EXCEPT !.stray = TRUE]]
    /\ unrevoked' = FALSE
    /\ UNCHANGED <<link, code, cooling, access, proof, issuedFor, strays>>

\* A restored account comes back locked.
Restore ==
    /\ "trash" \in Routes
    /\ account.life = "trashed"
    /\ account' = [account EXCEPT !.life = "live", !.active = FALSE]
    /\ UNCHANGED <<token, link, code, cooling, access, request, history>>

\* Deleting the row deletes its tokens, links and challenge.
Purge ==
    /\ "trash" \in Routes
    /\ Exists
    /\ account' = [account EXCEPT !.life = "purged"]
    /\ token' = Killed(token)
    /\ link' = Killed(link)
    /\ code' = [code EXCEPT !.open = FALSE]
    /\ unrevoked' = FALSE
    /\ UNCHANGED <<cooling, access, request, proof, issuedFor, strays>>

-----------------------------------------------------------------------------
(* Forgotten passwords                                                     *)

\* forgotPassword(): the account and the cooldown, read before the transaction.
ReadForForgot(q) ==
    /\ Usable
    /\ "link" \notin cooling
    /\ Read("forgot", q, [Blank EXCEPT !.op = "forgot", !.seen = Snapshot])

\* The transaction's first statement sees the links committed so far.
RevokeLinks(q) ==
    /\ InFlight(q, "forgot")
    /\ Put(q, [request[q] EXCEPT !.op = "link",
                                 !.links = {l \in Link : link[l] = "live"}])
    /\ UNCHANGED <<account, token, link, code, cooling, access, history>>

\* It commits with the new link.
CreateLink(q, l) ==
    /\ InFlight(q, "link")
    /\ Exists
    /\ link[l] = "unused"
    /\ link' = [k \in Link |-> IF k = l THEN "live"
                               ELSE IF k \in request[q].links THEN Killed(link)[k]
                               ELSE link[k]]
    /\ issuedFor' = [issuedFor EXCEPT ![l] = request[q].seen.hash]
    /\ strays' = IF request[q].stray THEN strays \cup {l} ELSE strays
    /\ cooling' = cooling \cup {"link"}
    /\ Finish(q)
    /\ UNCHANGED <<account, token, code, access, proof, unrevoked>>

\* A mistaken change that leaves the sessions alone.
SetHashOnly ==
    /\ account.hash < MaxChanges
    /\ account' = [account EXCEPT !.hash = @ + 1, !.version = @ + 1]
    /\ UNCHANGED <<token, unrevoked>>

\* A mistaken change that forgets the version of the access tokens.
SetSameVersion ==
    /\ account.hash < MaxChanges
    /\ account' = [account EXCEPT !.hash = @ + 1]
    /\ token' = Killed(token)
    /\ unrevoked' = FALSE

\* The new hash; resetPassword() and changePassword() end all sessions with it.
SetPassword ==
    /\ account.hash < MaxChanges
    /\ account' = [account EXCEPT !.hash = @ + 1, !.version = @ + 1]
    /\ token' = Killed(token)
    /\ unrevoked' = FALSE

\* resetPassword() up to its write: the link is good and so is the account.
ReadForReset(q, l) ==
    /\ link[l] = "live"
    /\ Usable
    /\ Read("reset", q, [Blank EXCEPT !.op = "reset", !.links = {l}])

\* A mistaken reset that leaves the other links alone.
ResetOneLink(q, l) ==
    /\ InFlight(q, "reset")
    /\ l \in request[q].links
    /\ link[l] = "live"
    /\ Exists
    /\ SetPassword
    /\ link' = [link EXCEPT ![l] = "used"]
    /\ Overtake(q)
    /\ UNCHANGED <<code, cooling, access, proof, issuedFor, strays>>

\* Its write, by id, locked or not: the claim of the link decides.
ResetPassword(q, l) ==
    /\ InFlight(q, "reset")
    /\ l \in request[q].links
    /\ link[l] = "live"
    /\ Exists
    /\ SetPassword
    /\ link' = [Killed(link) EXCEPT ![l] = "used"]
    /\ Overtake(q)
    /\ UNCHANGED <<code, cooling, access, proof, issuedFor, strays>>

-----------------------------------------------------------------------------
(* Changed passwords: a challenge by mail, then the change                 *)

\* requestPasswordChangeCode() with the right password.
ReadForCode(q) ==
    /\ Usable
    /\ Read("change", q, [Blank EXCEPT !.op = "code", !.seen = Snapshot])

StoreCode(q) ==
    /\ InFlight(q, "code")
    /\ Exists
    /\ "code" \notin cooling
    /\ code.serial < MaxCodes
    /\ code' = [serial |-> code.serial + 1, hash |-> request[q].seen.hash,
                email |-> request[q].seen.email, wrong |-> 0, open |-> TRUE]
    /\ cooling' = cooling \cup {"code"}
    /\ Put(q, [request[q] EXCEPT !.op = "mail", !.seen = Nothing,
                                 !.serial = code.serial + 1])
    /\ UNCHANGED <<account, token, link, access, history>>

\* The mail was not sent: the challenge is closed, if it is still this one.
MailFails(q) ==
    /\ InFlight(q, "mail")
    /\ code' = [code EXCEPT !.open = @ /\ code.serial # request[q].serial]
    /\ Finish(q)
    /\ UNCHANGED <<account, token, link, cooling, access, history>>

\* The checks of changePassword() on the challenge.
ChallengeStands ==
    /\ code.open
    /\ code.wrong < MaxWrong
    /\ code.email = account.email
    /\ code.hash = account.hash

\* changePassword() with the right password; the code typed is right or wrong.
ReadForChange(q, op) ==
    /\ Usable
    /\ ChallengeStands
    /\ Read("change", q, [Blank EXCEPT !.op = op, !.seen = Snapshot,
                                     !.serial = code.serial])

\* A mistaken claim with no limit on the wrong codes.
ClaimableAnyTime(serial) == code.serial = serial /\ code.open

\* The challenge can still be claimed, or charged with a wrong code.  (The code charges
\* an expired one too, which nothing can claim any more.)
Claimable(serial) == code.serial = serial /\ code.open /\ code.wrong < MaxWrong

CountWrong(q) ==
    /\ InFlight(q, "wrong")
    /\ code' = IF Claimable(request[q].serial) THEN [code EXCEPT !.wrong = @ + 1] ELSE code
    /\ Finish(q)
    /\ UNCHANGED <<account, token, link, cooling, access, history>>

\* A mistaken update of the account by its id alone.
StillUsable(seen) == Usable

\* The account still is what was read of it.
StillSeen(seen) ==
    /\ Usable
    /\ account.hash = seen.hash
    /\ account.email = seen.email

ChangePassword(q) ==
    /\ InFlight(q, "change")
    /\ Claimable(request[q].serial)
    /\ StillSeen(request[q].seen)
    /\ SetPassword
    /\ code' = [code EXCEPT !.open = FALSE]
    /\ link' = Killed(link)
    /\ Overtake(q)
    /\ UNCHANGED <<cooling, access, proof, issuedFor, strays>>

-----------------------------------------------------------------------------
(* Time and failure                                                        *)

ExpireToken(t) ==
    /\ token[t] = "live"
    /\ token' = [token EXCEPT ![t] = "dead"]
    /\ UNCHANGED <<account, link, code, cooling, access, request, history>>

ExpireLink(l) ==
    /\ link[l] = "live"
    /\ link' = [link EXCEPT ![l] = "dead"]
    /\ UNCHANGED <<account, token, code, cooling, access, request, history>>

ExpireCode ==
    /\ code.open
    /\ code' = [code EXCEPT !.open = FALSE]
    /\ UNCHANGED <<account, token, link, cooling, access, request, history>>

\* The minute between two mails is over.
CoolDown(kind) ==
    /\ kind \in cooling
    /\ cooling' = cooling \ {kind}
    /\ UNCHANGED <<account, token, link, code, access, request, history>>

\* The request ends without its next write: it was refused, it failed, or the
\* process died.  It may also have nothing left to do.
Abandon(q) ==
    /\ request[q] # Idle
    /\ Finish(q)
    /\ unrevoked' = (unrevoked \/ request[q].op = "revoke")
    /\ UNCHANGED <<account, token, link, code, cooling, access, proof, issuedFor, strays>>

-----------------------------------------------------------------------------
SessionStep ==
    \/ \E q \in Slot : ReadForLogin(q) \/ Rotate(q) \/ RevokeAll(q) \/ Abandon(q)
    \/ \E q \in Slot, t \in Token : ReadForRefresh(q, t) \/ Issue(q, t)
    \/ \E t \in Token : Logout(t) \/ ExpireToken(t)

AdminStep ==
    \/ \E q \in Slot : \/ ReadForLock(q) \/ ReadForUnlock(q) \/ ReadForRole(q)
                       \/ WriteUpdate(q)
    \/ \E q \in Slot, e \in Email \ {account.email} : ReadForAddress(q, e)
    \/ Trash \/ Restore \/ Purge

PasswordStep ==
    \/ \E q \in Slot : ReadForForgot(q) \/ RevokeLinks(q)
    \/ \E q \in Slot, l \in Link : \/ CreateLink(q, l)
                                   \/ ReadForReset(q, l) \/ ResetPassword(q, l)
    \/ \E l \in Link : ExpireLink(l)
    \/ \E q \in Slot : ReadForCode(q) \/ StoreCode(q) \/ MailFails(q)
    \/ \E q \in Slot, op \in {"wrong", "change"} : ReadForChange(q, op)
    \/ \E q \in Slot : CountWrong(q) \/ ChangePassword(q)
    \/ ExpireCode
    \/ \E kind \in {"link", "code"} : CoolDown(kind)

Next == SessionStep \/ AdminStep \/ PasswordStep

Spec == Init /\ [][Next]_vars

-----------------------------------------------------------------------------
(* Safety                                                                  *)

\* A session or a reset link never outlives the password it belongs to, unless
\* the request that wrote it was overtaken by the change.
\* (resetPassword, changePassword)
NothingOutlivesPassword ==
    /\ \A t \in Token \ strays : token[t] = "live" => proof[t] = account.hash
    /\ \A l \in Link \ strays : link[l] = "live" => issuedFor[l] = account.hash

\* No access token read off the account before a password change is accepted
\* after it, overtaken or not.  (tokenVersion, JwtStrategy.validate)
AccessTokenFresh == \A a \in access : Accepted(a) => a.hash = account.hash

\* What the comment on changePassword says instead: there is no tokenVersion, and
\* an access token stays usable after a password change, until it expires.
AccessTokensOutliveChange ==
    [][account'.hash # account.hash => \A a \in access : Accepted(a) => Accepted(a)']_vars

\* A locked account holds no session, unless the request that opened it was
\* overtaken by the lock or the revocation is still to come or was lost.
\* (update, remove, trash, and the isActive branch of refresh)
LockedHoldsNoSession ==
    ~account.active =>
        \/ \A t \in Token \ strays : token[t] # "live"
        \/ unrevoked
        \/ \E q \in Slot : InFlight(q, "revoke")

\* Each password change uses up one link, or the one challenge that was mailed
\* to the account's address for the password it replaces; two requests never
\* change it on the strength of the same proof.  (the claims of resetPassword
\* and changePassword, and the WHERE of the latter's update)
EveryChangeIsPaidFor ==
    [][account'.hash # account.hash =>
         \/ \E l \in Link : link[l] = "live" /\ link'[l] = "used"
         \/ ChallengeStands /\ ~code'.open]_vars

-----------------------------------------------------------------------------
(* The inductive invariant behind the safety properties                    *)

\* A request on its way to a new session.
Opening(c) == c.op \in {"issue", "rotate"}

\* The version of an access token tells the passwords apart.
VersionsInv ==
    /\ account.version = account.hash
    /\ \A a \in access : a.version = a.hash
    /\ \A q \in Slot : request[q] # Idle /\ Opening(request[q]) =>
           request[q].seen.version = request[q].seen.hash

\* What a request that nothing overtook carries is still true of the account.
NotOvertaken(c) ==
    /\ Opening(c) => /\ c.proof = account.hash
                     /\ account.active
                     /\ account.life # "trashed"
    /\ c.op \in {"forgot", "link"} => c.seen.hash = account.hash

RequestsInv ==
    \A q \in Slot : request[q] # Idle =>
        /\ ~request[q].stray => NotOvertaken(request[q])
        /\ request[q].op = "update" /\ request[q].lock = "set" => request[q].ends

\* The trash ends the sessions there are, the purge those still to come too.
TrashInv ==
    /\ account.life = "trashed" => \A t \in Token \ strays : token[t] # "live"
    /\ account.life = "purged"  => \A t \in Token : token[t] # "live"

\* A change in flight saw the challenge it carries, and ids are never reused.
ChallengeInv ==
    \A q \in Slot : InFlight(q, "change") =>
        /\ request[q].serial <= code.serial
        /\ request[q].serial = code.serial =>
               /\ request[q].seen.hash = code.hash
               /\ request[q].seen.email = code.email

SessionsInv ==
    /\ TypeOK
    /\ VersionsInv
    /\ RequestsInv
    /\ TrashInv
    /\ NothingOutlivesPassword
    /\ LockedHoldsNoSession
=============================================================================
