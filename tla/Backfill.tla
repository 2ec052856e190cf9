------------------------------ MODULE Backfill -------------------------------
(***************************************************************************)
(* The scripts that add approved English translations to texts stored as   *)
(* JSON: of the items of a project, and of the labels on its map.          *)
(*                                                                         *)
(* A run selects the rows, works out what they will hold, and then updates *)
(* one after the other those that change, whole columns by id, outside any *)
(* transaction.  Staff may edit in between, and a run that dies half way   *)
(* is started again.  Nothing keeps two runs apart.                        *)
(***************************************************************************)
CONSTANTS
    Script,     \* runs that can be in flight at the same time
    Sheet,      \* the rows that the scripts are about
    Spot,       \* the texts of a row
    Wording,    \* Vietnamese texts
    Translated, \* those with an approved translation
    Nothing     \* no text; no run

\* English that staff wrote, that a script added, or none (a blank is none).
Text == [vi : Wording, en : {"none", "written", "added"}]

Words == [Spot -> Text \cup {Nothing}]

\* What a run has still to write.  `late` is history: rows written since it read.
Plan == [next : UNION {[sheets -> Words] : sheets \in SUBSET Sheet}, late : SUBSET Sheet]

ASSUME BackfillAssumption ==
    /\ Translated \subseteq Wording
    /\ Nothing \notin Text
    /\ Nothing \notin Plan

VARIABLES
    words,  \* the columns of each row
    plan    \* runs in flight

backfillVars == <<words, plan>>

BackfillTypeOK ==
    /\ words \in [Sheet -> Words]
    /\ plan \in [Script -> Plan \cup {Nothing}]

\* Old rows have texts without English.
BackfillInit ==
    /\ \E old \in [Spot -> {t \in Text : t.en = "none"}] : words = [d \in Sheet |-> old]
    /\ plan = [s \in Script |-> Nothing]

-----------------------------------------------------------------------------
hasEn(text) == text.en # "none"

\* (A label without a translation is rewritten as {vi}, which is the same Text.)
backfillText(text) ==
    IF text = Nothing \/ hasEn(text) \/ text.vi \notin Translated THEN text
    ELSE [text EXCEPT !.en = "added"]

Filled(d) == [p \in Spot |-> backfillText(words[d][p])]

\* The rows that change; without one, or in a dry run, nothing is written.
ReadTexts(s) ==
    LET changed == {d \in Sheet : Filled(d) # words[d]}
    IN  /\ plan[s] = Nothing
        /\ changed # {}
        /\ plan' = [plan EXCEPT ![s] = [next |-> [d \in changed |-> Filled(d)], late |-> {}]]
        /\ UNCHANGED words

Planned(s, d) == plan[s] # Nothing /\ d \in DOMAIN plan[s].next

\* The plans once the row d has been written.
Noticed(plans, d) == [s \in Script |-> IF plans[s] = Nothing THEN Nothing
                                       ELSE [plans[s] EXCEPT !.late = @ \cup {d}]]

UpdateTexts(s, d) ==
    LET left == DOMAIN plan[s].next \ {d}
    IN  /\ Planned(s, d)
        /\ words' = [words EXCEPT ![d] = plan[s].next[d]]
        /\ plan' = Noticed([plan EXCEPT ![s] =
                               IF left = {} THEN Nothing
                               ELSE [@ EXCEPT !.next = [e \in left |-> plan[s].next[e]]]], d)

DropScript(s) ==
    /\ plan[s] # Nothing
    /\ plan' = [plan EXCEPT ![s] = Nothing]
    /\ UNCHANGED words

\* A PATCH by staff replaces a text.
EditText(d, p, text) ==
    /\ words' = [words EXCEPT ![d][p] = text]
    /\ plan' = Noticed(plan, d)

-----------------------------------------------------------------------------
BackfillNext ==
    \/ \E s \in Script :
         \/ ReadTexts(s) \/ DropScript(s)
         \/ \E d \in Sheet : UpdateTexts(s, d)
    \/ \E d \in Sheet, p \in Spot, text \in {t \in Text : t.en # "added"} \cup {Nothing} :
         EditText(d, p, text)

BackfillSpec == BackfillInit /\ [][BackfillNext]_backfillVars

-----------------------------------------------------------------------------
(* Safety                                                                  *)

\* A run adds English and takes nothing away, neither a Vietnamese text nor
\* English that is there already, from a row that nobody wrote since it read.
\* ("không bao giờ ghi đè", backfill-project-items.js)
BackfillAddsOnly ==
    \A s \in Script, d \in Sheet :
        /\ Planned(s, d) /\ words'[d] # words[d] /\ d \notin plan[s].late
        /\ plan'[s] = Nothing \/ d \notin DOMAIN plan'[s].next
        => \A p \in Spot : words'[d][p] = words[d][p]
                           \/ words'[d][p] = [words[d][p] EXCEPT !.en = "added"]
=============================================================================
