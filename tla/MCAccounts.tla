----------------------------- MODULE MCAccounts -----------------------------
(***************************************************************************)
(* Model-checking instance of the accounts: all of them, as far as they    *)
(* administer each other, and one of them until and when its owner logs    *)
(* in.  The two share no column but isActive and the trash, which either   *)
(* module moves by itself, so that a behaviour of this instance is a       *)
(* behaviour of one of the two, chosen at the start.                       *)
(***************************************************************************)
EXTENDS MCStaff, Onboarding

CONSTANT MaxGuesses  \* bound on a history counter

VARIABLE subject  \* which of the two runs

accountsVars == <<subject, vars, onboardingVars>>

AccountsInit ==
    /\ subject \in {"staff", "owner"}
    /\ Init /\ OnboardingInit

AccountsNext ==
    \/ subject = "staff" /\ Next /\ UNCHANGED <<subject, onboardingVars>>
    \/ subject = "owner" /\ OnboardingNext /\ UNCHANGED <<subject, vars>>

AccountsSpec == AccountsInit /\ [][AccountsNext]_accountsVars

\* The sets of requests overlap in this instance.
AccountsSymmetry == Symmetry \cup Permutations(Invite)

FewGuesses == guesses <= MaxGuesses
=============================================================================
