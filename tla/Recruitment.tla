----------------------------- MODULE Recruitment -----------------------------
(***************************************************************************)
(* The positions that are advertised, the applications for them, and the   *)
(* inbox in which applications and contact forms arrive.                   *)
(*                                                                         *)
(* A position has no schedule: it is public while it is PUBLISHED and its  *)
(* deadline, a day in Viet Nam, is not over.  An EDITOR may change drafts  *)
(* only, and at most hand them in.  An update reads the position, checks,  *)
(* and writes by id; an application looks the position up and then inserts *)
(* a row that names it without a foreign key.                              *)
(***************************************************************************)
EXTENDS Naturals

CONSTANTS
    Vacancy,    \* rows of recruitment_positions that can be created
    Recruiter,  \* updates that can be in flight at the same time
    Applicant,  \* applications that can be in flight at the same time
    Letter,     \* rows of contact_submissions that can be created
    Deadlines,  \* the deadlines that positions are given, NoDeadline or days
    NoDeadline,
    Unsent,     \* a field that a request does not contain; no request, no position
    LastDay     \* bound on the days that pass

Days == 0..LastDay

ContentStatuses == {"DRAFT", "PENDING", "PUBLISHED"}

\* `text` stands for the columns visitors read: every update changes it.
Position == [life : {"none", "live", "trashed", "purged"}, status : ContentStatuses,
             deadline : Deadlines, text : {0, 1}]

\* An update that was allowed.  `late` is history: the position changed since.
PositionUpdate == [position : Vacancy, editor : BOOLEAN, status : ContentStatuses \cup {Unsent},
                   deadline : Deadlines \cup {Unsent}, late : BOOLEAN]

\* An application that has found its position open.  `late`: the position changed
\* since, or the day is over.
Application == [position : Vacancy, late : BOOLEAN]

\* `of` is the position of an application.
Submission == [life : {"none", "live", "trashed", "purged"}, of : Vacancy \cup {Unsent},
               handled : BOOLEAN]

ASSUME RecruitmentAssumption ==
    /\ LastDay \in Nat
    /\ NoDeadline \notin Nat
    /\ Deadlines \subseteq Days \cup {NoDeadline}
    /\ Unsent \notin Vacancy
    /\ Unsent \notin Deadlines
    /\ Unsent \notin PositionUpdate
    /\ Unsent \notin Application

VARIABLES
    today,
    position,
    updating,   \* updates of positions in flight
    applying,   \* applications in flight
    letter      \* contact_submissions

recruitmentVars == <<today, position, updating, applying, letter>>

RecruitmentTypeOK ==
    /\ today \in Days
    /\ position \in [Vacancy -> Position]
    /\ updating \in [Recruiter -> PositionUpdate \cup {Unsent}]
    /\ applying \in [Applicant -> Application \cup {Unsent}]
    /\ letter \in [Letter -> Submission]

RecruitmentInit ==
    /\ today = 0
    /\ \E deadline \in Deadlines :
           position = [v \in Vacancy |-> [life |-> "none", status |-> "DRAFT",
                                          deadline |-> deadline, text |-> 0]]
    /\ updating = [r \in Recruiter |-> Unsent]
    /\ applying = [a \in Applicant |-> Unsent]
    /\ letter = [l \in Letter |-> [life |-> "none", of |-> Unsent, handled |-> FALSE]]

-----------------------------------------------------------------------------
(* Positions                                                               *)

\* deadline IS NULL OR deadline >= vietnameseToday(now)
NotOver(v) == position[v].deadline # NoDeadline => today <= position[v].deadline

\* The WHERE of findAllPublic() and of an application
Open(v) == position[v].life = "live" /\ position[v].status = "PUBLISHED" /\ NotOver(v)

\* The positions become `rows`; requests that have read one of `written` are late.
WritePositions(written, rows, updates) ==
    /\ position' = rows
    /\ updating' = [r \in Recruiter |-> IF updates[r] # Unsent /\ updates[r].position \in written
                                        THEN [updates[r] EXCEPT !.late = TRUE] ELSE updates[r]]
    /\ applying' = [a \in Applicant |-> IF applying[a] # Unsent /\ applying[a].position \in written
                                        THEN [applying[a] EXCEPT !.late = TRUE] ELSE applying[a]]
    /\ UNCHANGED <<today, letter>>

\* assertEditorCanOnlyCreateDraft()
CreatePosition(v, editor, status, deadline) ==
    /\ position[v].life = "none"
    /\ editor => status \in {"DRAFT", Unsent}
    /\ WritePositions({v}, [position EXCEPT ![v] =
           [@ EXCEPT !.life = "live", !.deadline = deadline,
                     !.status = IF status = Unsent THEN "DRAFT" ELSE status]], updating)

\* A mistaken rule that lets an EDITOR change what he has handed in or more.
MayHandIn(editor, v, status) == editor => status \in {"DRAFT", "PENDING", Unsent}

\* update(): drafts only, and assertEditorCanOnlySubmitForReview()
MayUpdate(editor, v, status) ==
    editor => position[v].status = "DRAFT" /\ status \in {"DRAFT", "PENDING", Unsent}

CheckUpdate(r, v, editor, status, deadline) ==
    /\ updating[r] = Unsent
    /\ position[v].life = "live"
    /\ MayUpdate(editor, v, status)
    /\ updating' = [updating EXCEPT ![r] =
           [position |-> v, editor |-> editor, status |-> status, deadline |-> deadline,
            late |-> FALSE]]
    /\ UNCHANGED <<today, position, applying, letter>>

Merged(sent, stored) == IF sent = Unsent THEN stored ELSE sent

WriteUpdate(r) ==
    LET u   == updating[r]
        old == position[u.position]
    IN  /\ u # Unsent
        /\ old.life \in {"live", "trashed"}
        /\ WritePositions({u.position},
               [position EXCEPT ![u.position] =
                   [old EXCEPT !.status = Merged(u.status, old.status),
                               !.deadline = Merged(u.deadline, old.deadline),
                               !.text = 1 - old.text]],
               [updating EXCEPT ![r] = Unsent])

DropUpdate(r) ==
    /\ updating[r] # Unsent
    /\ updating' = [updating EXCEPT ![r] = Unsent]
    /\ UNCHANGED <<today, position, applying, letter>>

\* remove() and the trash, in and out: a DRAFT either way
BinPosition(v, life) ==
    /\ position[v].life = (IF life = "live" THEN "trashed" ELSE "live")
    /\ WritePositions({v}, [position EXCEPT ![v].life = life, ![v].status = "DRAFT"], updating)

PurgePosition(v) ==
    /\ position[v].life \in {"live", "trashed"}
    /\ WritePositions({v}, [position EXCEPT ![v].life = "purged"], updating)

\* Midnight in Viet Nam
Midnight ==
    /\ today < LastDay
    /\ today' = today + 1
    /\ applying' = [a \in Applicant |-> IF applying[a] = Unsent THEN Unsent
                                        ELSE [applying[a] EXCEPT !.late = TRUE]]
    /\ UNCHANGED <<position, updating, letter>>

-----------------------------------------------------------------------------
(* Applications and contact forms                                          *)

\* A mistaken lookup that does not look at the deadline.
Advertised(v) == position[v].life = "live" /\ position[v].status = "PUBLISHED"

\* The lookup of create(), with its own idea of today
AcceptsApplications(v) == Open(v)

LookUp(a, v) ==
    /\ applying[a] = Unsent
    /\ AcceptsApplications(v)
    /\ applying' = [applying EXCEPT ![a] = [position |-> v, late |-> FALSE]]
    /\ UNCHANGED <<today, position, updating, letter>>

\* The mail about a new row is sent without waiting for it, whatever comes of it.
SaveLetter(l, of) ==
    /\ letter[l].life = "none"
    /\ letter' = [letter EXCEPT ![l].life = "live", ![l].of = of]

SaveApplication(a, l) ==
    /\ applying[a] # Unsent
    /\ SaveLetter(l, applying[a].position)
    /\ applying' = [applying EXCEPT ![a] = Unsent]
    /\ UNCHANGED <<today, position, updating>>

DropApplication(a) ==
    /\ applying[a] # Unsent
    /\ applying' = [applying EXCEPT ![a] = Unsent]
    /\ UNCHANGED <<today, position, updating, letter>>

ContactForm(l) ==
    /\ SaveLetter(l, Unsent)
    /\ UNCHANGED <<today, position, updating, applying>>

\* update() of a submission found it before it came into the trash, or now: every
\* row was live once, and any number of requests may have found it then.
UpdateLetter(l, handled) ==
    /\ letter[l].life \in {"live", "trashed"}
    /\ letter' = [letter EXCEPT ![l].handled = handled]
    /\ UNCHANGED <<today, position, updating, applying>>

\* Trash, restore and purge of a submission, whose CV goes with it
MoveLetter(l, life) ==
    /\ CASE life = "trashed" -> letter[l].life = "live"
         [] life = "live"    -> letter[l].life = "trashed"
         [] life = "purged"  -> letter[l].life \in {"live", "trashed"}
    /\ letter' = [letter EXCEPT ![l].life = life]
    /\ UNCHANGED <<today, position, updating, applying>>

-----------------------------------------------------------------------------
VacancyStep(v) ==
    \/ \E editor \in BOOLEAN, status \in ContentStatuses \cup {Unsent} :
         \/ \E deadline \in Deadlines : CreatePosition(v, editor, status, deadline)
         \/ \E r \in Recruiter, deadline \in Deadlines \cup {Unsent} :
                CheckUpdate(r, v, editor, status, deadline)
    \/ \E life \in {"live", "trashed"} : BinPosition(v, life)
    \/ PurgePosition(v)
    \/ \E a \in Applicant : LookUp(a, v)

LetterStep(l) ==
    \/ \E a \in Applicant : SaveApplication(a, l)
    \/ ContactForm(l)
    \/ \E handled \in BOOLEAN : UpdateLetter(l, handled)
    \/ \E life \in {"live", "trashed", "purged"} : MoveLetter(l, life)

RecruitmentNext ==
    \/ \E v \in Vacancy : VacancyStep(v)
    \/ \E r \in Recruiter : WriteUpdate(r) \/ DropUpdate(r)
    \/ \E a \in Applicant : DropApplication(a)
    \/ \E l \in Letter : LetterStep(l)
    \/ Midnight

RecruitmentSpec == RecruitmentInit /\ [][RecruitmentNext]_recruitmentVars

-----------------------------------------------------------------------------
(* Safety                                                                  *)

Advertisements == {<<v, position[v].text>> : v \in {w \in Vacancy : Open(w)}}

\* What visitors read of the open positions is not changed by an EDITOR, unless
\* somebody published the draft after his update had been allowed.
\* (create and update: the two assertions on role and status)
EditorsSpareOpenings ==
    [][\A r \in Recruiter :
         /\ updating[r] # Unsent /\ updating'[r] = Unsent
         /\ updating[r].editor /\ ~updating[r].late
         => Advertisements' = Advertisements]_recruitmentVars

\* An application that is saved is for a position that takes applications at that
\* moment, unless it changed, or the day ended, since it was looked up: no
\* foreign key and no second look protect it.  (JobApplicationsService.create)
ApplicationsWereOpen ==
    [][\A a \in Applicant, l \in Letter :
         /\ applying[a] # Unsent /\ applying'[a] = Unsent /\ ~applying[a].late
         /\ letter[l].life = "none" /\ letter'[l].life = "live"
         => Open(letter'[l].of)]_recruitmentVars
=============================================================================
