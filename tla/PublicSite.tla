----------------------------- MODULE PublicSite -----------------------------
(***************************************************************************)
(* What the publication machinery promises to the visitors of the site,    *)
(* with no table, no status and no reconciler: records come and go one at  *)
(* a time when staff decide so, each decision to show something clears the *)
(* record first, and the clock brings out exactly the records whose        *)
(* promised hour it reaches.                                               *)
(***************************************************************************)
EXTENDS Integers

CONSTANTS
    Row,
    Null,
    Horizon    \* how far ahead an hour may be promised

VARIABLES
    clock,
    site,      \* the records a visitor can see
    promise,   \* promise[r]: the hour at which r will come out, or Null
    cleared    \* the records an administrator's standing decision lets out

siteVars == <<clock, site, promise, cleared>>

SiteInit ==
    /\ clock = 0
    /\ site = {}
    /\ promise = [r \in Row |-> Null]
    /\ cleared = {}

\* Staff show r at once.
Release(r) ==
    /\ site' = site \cup {r}
    /\ promise' = [promise EXCEPT ![r] = Null]
    /\ cleared' = cleared \cup {r}
    /\ UNCHANGED clock

\* Staff set an hour for r that is still ahead; r is not on the site until then.
Promise(r, t) ==
    /\ site' = site \ {r}
    /\ promise' = [promise EXCEPT ![r] = t]
    /\ cleared' = cleared \cup {r}
    /\ UNCHANGED clock

\* r leaves the site, or stays off it: no decision to show it stands any more.
Withdraw(r) ==
    /\ site' = site \ {r}
    /\ promise' = [promise EXCEPT ![r] = Null]
    /\ cleared' = cleared \ {r}
    /\ UNCHANGED clock

\* The clock moves and the records whose hour it reaches come out.
Advance ==
    LET due == {r \in Row : promise[r] # Null /\ promise[r] <= clock + 1}
    IN  /\ clock' = clock + 1
        /\ site' = site \cup due
        /\ promise' = [r \in Row |-> IF r \in due THEN Null ELSE promise[r]]
        /\ UNCHANGED cleared

SiteNext ==
    \/ \E r \in Row : Release(r) \/ Withdraw(r)
    \/ \E r \in Row : \E t \in (clock + 1)..(clock + Horizon) : Promise(r, t)
    \/ Advance

SiteSpec == SiteInit /\ [][SiteNext]_siteVars
=============================================================================
