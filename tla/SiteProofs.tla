----------------------------- MODULE SiteProofs ------------------------------
(***************************************************************************)
(* Theorems about the services of MCSite, each by itself and all of them   *)
(* beside each other, for every set of rows, of requests and of values.    *)
(***************************************************************************)
EXTENDS MCSite, BatchProofs

-----------------------------------------------------------------------------
(* Banners                                                                 *)

\* What a PATCH that nobody overlapped will write agrees with the row where it
\* contains nothing.  (mergeDisplayWindow)
PatchFresh(w) ==
    LET p == patch[w]
    IN  p # Absent /\ p.window # Absent /\ ~p.overlapped =>
            /\ "from" \notin p.sent => p.window.from = banner[p.slide].window.from
            /\ "until" \notin p.sent => p.window.until = banner[p.slide].window.until

\* The inductive invariant: windows are in order, those that are planned too.
BannersInv ==
    /\ BannersTypeOK
    /\ \A s \in Slide : InOrder(banner[s].window)
    /\ \A w \in Patcher : patch[w] # Absent /\ patch[w].window # Absent =>
           InOrder(patch[w].window)
    /\ \A w \in Patcher : PatchFresh(w)

\* Merging gives a window.  (mergeDisplayWindow)
LEMMA MergeTyped ==
    ASSUME NEW current \in DisplayWindow, NEW from \in Bounds \cup {Absent},
           NEW until \in Bounds \cup {Absent}
    PROVE  mergeDisplayWindow(current, from, until) \in DisplayWindow
BY DEF mergeDisplayWindow, resolveBound, DisplayWindow

\* Writing a row with a window in order keeps the invariant, whatever becomes of
\* the slots that were done with.  (WriteBanners)
LEMMA WriteBannersKeeps ==
    ASSUME BannersInv, NEW s \in Slide, NEW row \in BannerRow, InOrder(row.window),
           NEW patches \in [Patcher -> BannerPatch \cup {Absent}],
           \A w \in Patcher : patches[w] \in {patch[w], Absent},
           WriteBanners({s}, [banner EXCEPT ![s] = row], patches)
    PROVE  BannersInv'
<1>1. banner' = [banner EXCEPT ![s] = row] /\ banner' \in [Slide -> BannerRow]
  BY DEF WriteBanners, BannersInv, BannersTypeOK
<1>2. ASSUME NEW w \in Patcher
      PROVE  /\ patch'[w] \in BannerPatch \cup {Absent}
             /\ patch'[w] # Absent =>
                  /\ patch[w] # Absent
                  /\ patch'[w].window = patch[w].window /\ patch'[w].sent = patch[w].sent
                  /\ patch'[w].slide = patch[w].slide
                  /\ ~patch'[w].overlapped => ~patch[w].overlapped /\ patch[w].slide # s
  <2>1. patch'[w] = IF patches[w] # Absent /\ patches[w].slide \in {s}
                    THEN [patches[w] EXCEPT !.overlapped = TRUE] ELSE patches[w]
    BY DEF WriteBanners
  <2> QED
    BY <2>1 DEF BannerPatch
<1>3. DOMAIN patch' = Patcher /\ patch' = [w \in Patcher |-> patch'[w]]
  BY DEF WriteBanners
<1>4. BannersTypeOK'
  BY <1>1, <1>2, <1>3 DEF BannersTypeOK
<1>5. \A r \in Slide : InOrder(banner[r].window)'
  BY <1>1 DEF BannersInv, BannersTypeOK, InOrder
<1>6. \A w \in Patcher : patch'[w] # Absent /\ patch'[w].window # Absent =>
          InOrder(patch[w].window)'
  BY <1>2 DEF BannersInv, InOrder
<1>7. ASSUME NEW w \in Patcher PROVE PatchFresh(w)'
  <2>1. patch'[w] # Absent /\ ~patch'[w].overlapped =>
            banner'[patch[w].slide] = banner[patch[w].slide]
    BY <1>1, <1>2 DEF BannersInv, BannersTypeOK
  <2> QED
    BY <1>2, <2>1 DEF PatchFresh, BannersInv
<1> QED
  BY <1>4, <1>5, <1>6, <1>7 DEF BannersInv

\* A request that has found its banner keeps it.  (ReadBanner, FindBanner)
LEMMA NewPatchKeeps ==
    ASSUME BannersInv, NEW w \in Patcher, NEW p \in BannerPatch \cup {Absent},
           patch' = [patch EXCEPT ![w] = p], UNCHANGED banner,
           p # Absent /\ p.window # Absent =>
               /\ InOrder(p.window)
               /\ "from" \notin p.sent => p.window.from = banner[p.slide].window.from
               /\ "until" \notin p.sent => p.window.until = banner[p.slide].window.until
    PROVE  BannersInv'
<1>1. BannersTypeOK'
  BY DEF BannersInv, BannersTypeOK
<1>2. \A v \in Patcher : patch'[v] = IF v = w THEN p ELSE patch[v]
  BY DEF BannersInv, BannersTypeOK
<1>3. \A v \in Patcher : PatchFresh(v)'
  BY <1>2 DEF PatchFresh, BannersInv
<1> QED
  BY <1>1, <1>2, <1>3 DEF BannersInv, InOrder

\* Each action of a banner or of a request keeps the invariant.
LEMMA BannersStep == BannersInv /\ [BannersNext]_bannersVars => BannersInv'
<1> SUFFICES ASSUME BannersInv, [BannersNext]_bannersVars PROVE BannersInv'
  OBVIOUS
<1> USE BannersAssumption
<1>1. /\ patch \in [Patcher -> BannerPatch \cup {Absent}]
      /\ banner \in [Slide -> BannerRow]
      /\ \A w \in Patcher : patch[w] \in {patch[w], Absent}
  BY DEF BannersInv, BannersTypeOK
<1>2. ASSUME NEW s \in Slide, NEW active \in BOOLEAN, NEW from \in Bounds \cup {Absent},
             NEW until \in Bounds \cup {Absent}, CreateBanner(s, active, from, until)
      PROVE  BannersInv'
  <2> DEFINE row == [life |-> "live", active |-> active,
                     window |-> mergeDisplayWindow(EMPTY_DISPLAY_WINDOW, from, until)]
  <2>1. EMPTY_DISPLAY_WINDOW \in DisplayWindow
    BY DEF EMPTY_DISPLAY_WINDOW, DisplayWindow, Bounds
  <2>2. row \in BannerRow /\ InOrder(row.window)
    BY <1>2, <2>1, MergeTyped DEF CreateBanner, WindowAccepted, BannerRow
  <2>3. WriteBanners({s}, [banner EXCEPT ![s] = row], patch)
    BY <1>2 DEF CreateBanner
  <2> HIDE DEF row
  <2> QED
    BY <1>1, <2>2, <2>3, WriteBannersKeeps
<1>3. ASSUME NEW s \in Slide, NEW w \in Patcher, NEW active \in BOOLEAN \cup {Absent},
             NEW from \in Bounds \cup {Absent}, NEW until \in Bounds \cup {Absent},
             ReadBanner(w, s, active, from, until)
      PROVE  BannersInv'
  <2> DEFINE window == mergeDisplayWindow(banner[s].window, from, until)
             sent == {b \in {"from", "until"} : (IF b = "from" THEN from ELSE until) # Absent}
             p == [slide |-> s, active |-> active, window |-> window, sent |-> sent,
                   overlapped |-> FALSE]
  <2>1. window \in DisplayWindow /\ InOrder(window)
    BY <1>1, <1>3, MergeTyped DEF ReadBanner, WindowAccepted, BannerRow
  <2>2. /\ "from" \notin sent => window.from = banner[s].window.from
        /\ "until" \notin sent => window.until = banner[s].window.until
    BY DEF mergeDisplayWindow, resolveBound
  <2>3. sent \in SUBSET {"from", "until"}
    OBVIOUS
  <2>4. patch' = [patch EXCEPT ![w] = p] /\ UNCHANGED banner
    BY <1>3 DEF ReadBanner
  <2> HIDE DEF window, sent
  <2>5. p \in BannerPatch
    BY <2>1, <2>3 DEF BannerPatch
  <2> QED
    BY <2>1, <2>2, <2>4, <2>5, NewPatchKeeps
<1>4. ASSUME NEW s \in Slide, NEW w \in Patcher, FindBanner(w, s) PROVE BannersInv'
  <2> DEFINE p == [slide |-> s, active |-> FALSE, window |-> Absent, sent |-> {},
                   overlapped |-> FALSE]
  <2>1. p \in BannerPatch
    BY DEF BannerPatch
  <2> QED
    BY <1>4, <2>1, NewPatchKeeps DEF FindBanner
<1>5. ASSUME NEW w \in Patcher, WriteBanner(w) PROVE BannersInv'
  <2> DEFINE p == patch[w]
             active == IF p.active = Absent THEN banner[p.slide].active ELSE p.active
             row == [banner[p.slide] EXCEPT !.window = WindowWritten(p), !.active = active]
  <2>1. p \in BannerPatch /\ p.slide \in Slide
    BY <1>1, <1>5 DEF WriteBanner, BannerPatch
  <2>2. WindowWritten(p) \in DisplayWindow /\ InOrder(WindowWritten(p))
    BY <1>1, <1>5, <2>1 DEF WindowWritten, BannersInv, BannerPatch, BannerRow, WriteBanner
  <2>3. active \in BOOLEAN
    BY <1>1, <2>1 DEF BannerPatch, BannerRow
  <2>4. WriteBanners({p.slide}, [banner EXCEPT ![p.slide] = row], [patch EXCEPT ![w] = Absent])
    BY <1>1, <1>5, <2>1 DEF WriteBanner
  <2> HIDE DEF active
  <2>5. row \in BannerRow /\ row.window = WindowWritten(p)
    BY <1>1, <2>1, <2>2, <2>3 DEF BannerRow
  <2>6. /\ [patch EXCEPT ![w] = Absent] \in [Patcher -> BannerPatch \cup {Absent}]
        /\ \A v \in Patcher : [patch EXCEPT ![w] = Absent][v] \in {patch[v], Absent}
    BY <1>1
  <2> HIDE DEF row, p
  <2> QED
    BY <2>1, <2>2, <2>4, <2>5, <2>6, WriteBannersKeeps
<1>6. ASSUME NEW w \in Patcher, DropPatch(w) PROVE BannersInv'
  BY <1>6, NewPatchKeeps DEF DropPatch
<1>7. ASSUME NEW s \in Slide, NEW life \in {"live", "trashed"}, BinBanner(s, life)
      PROVE  BannersInv'
  <2> DEFINE row == [banner[s] EXCEPT !.life = life, !.active = FALSE]
  <2>1. row \in BannerRow /\ InOrder(row.window)
    BY <1>1 DEF BannerRow, BannersInv
  <2>2. WriteBanners({s}, [banner EXCEPT ![s] = row], patch)
    BY <1>1, <1>7 DEF BinBanner
  <2> HIDE DEF row
  <2> QED
    BY <1>1, <2>1, <2>2, WriteBannersKeeps
<1>8. ASSUME NEW s \in Slide, PurgeBanner(s) PROVE BannersInv'
  <2> DEFINE row == [banner[s] EXCEPT !.life = "purged"]
  <2>1. row \in BannerRow /\ InOrder(row.window)
    BY <1>1 DEF BannerRow, BannersInv
  <2>2. WriteBanners({s}, [banner EXCEPT ![s] = row], patch)
    BY <1>1, <1>8 DEF PurgeBanner
  <2> HIDE DEF row
  <2> QED
    BY <1>1, <2>1, <2>2, WriteBannersKeeps
<1>9. CASE UNCHANGED bannersVars
  BY <1>9 DEF bannersVars, BannersInv, BannersTypeOK, PatchFresh, InOrder
<1> QED
  BY <1>2, <1>3, <1>4, <1>5, <1>6, <1>7, <1>8, <1>9 DEF BannersNext, SlideStep

\* The invariant of the banners holds always.
THEOREM BannersInvariant == BannersSpec => []BannersInv
<1>1. BannersInit => BannersInv
  BY BannersAssumption DEF BannersInit, BannersInv, BannersTypeOK, PatchFresh, InOrder,
     EMPTY_DISPLAY_WINDOW, BannerRow, DisplayWindow, Bounds
<1> QED
  BY <1>1, BannersStep, PTL DEF BannersSpec

\* A banner that is switched on is on the home page at some instant.
\* (update, mergeDisplayWindow, assertDisplayWindow)
THEOREM EveryBannerShowableAlways == BannersSpec => []EveryBannerShowable
<1>1. BannersInv => EveryBannerShowable
  <2> SUFFICES ASSUME BannersInv, NEW s \in Slide, banner[s].life = "live", banner[s].active
               PROVE  \E now \in {0} \cup Instants : s \in OnHomePage(now)
    BY DEF EveryBannerShowable
  <2> DEFINE window == banner[s].window
  <2>1. window.from \in Bounds /\ window.until \in Bounds /\ InOrder(window)
    BY DEF BannersInv, BannersTypeOK, BannerRow, DisplayWindow
  <2>2. \A now : Within(window, now) => s \in OnHomePage(now)
    BY Zenon DEF OnHomePage
  <2> DEFINE from == window.from
             until == window.until
  <2>3. \A b \in Bounds : b # Unbounded => b \in Instants /\ b \in Nat /\ 0 < b
    BY BannersAssumption DEF Bounds
  <2>4. \A now \in Nat : (from # Unbounded => from <= now) /\ (until # Unbounded => now < until)
                         => s \in OnHomePage(now)
    BY <2>2 DEF Within
  <2>5. (from # Unbounded => from \in Instants /\ from \in Nat /\ from <= from)
        /\ (until # Unbounded => 0 < until)
    BY <2>1, <2>3
  <2>6. from # Unbounded /\ until # Unbounded => from < until
    BY <2>1 DEF InOrder
  <2> HIDE DEF window, from, until
  <2>7. CASE from = Unbounded
    BY <2>4, <2>5, <2>7
  <2>8. CASE from # Unbounded
    BY <2>4, <2>5, <2>6, <2>8
  <2> QED
    BY <2>7, <2>8
<1> QED
  BY <1>1, BannersInvariant, PTL

\* A PATCH that nobody overlapped changes only the bounds that it contains.  (update)
THEOREM BannerPatchKeepsRestAlways == BannersSpec => [][BannerPatchKeepsRest]_bannersVars
<1>1. BannersInv /\ [BannersNext]_bannersVars => [BannerPatchKeepsRest]_bannersVars
  <2> SUFFICES ASSUME BannersInv, BannersNext, NEW w \in Patcher, patch[w] # Absent,
                      patch'[w] = Absent, ~patch[w].overlapped
               PROVE  KeepsUnsent(patch[w])
    BY DEF BannerPatchKeepsRest
  <2> USE BannersAssumption
  <2>1. /\ banner \in [Slide -> BannerRow] /\ patch \in [Patcher -> BannerPatch \cup {Absent}]
        /\ patch[w] \in BannerPatch /\ patch[w].slide \in Slide
    BY DEF BannersInv, BannersTypeOK, BannerPatch
  <2>2. WriteBanner(w) \/ UNCHANGED banner
    <3>1. \A x \in BannerPatch : [x EXCEPT !.overlapped = TRUE] \in BannerPatch
      BY DEF BannerPatch
    <3>2. \A slides, rows : ~WriteBanners(slides, rows, patch)
      BY <2>1, <3>1 DEF WriteBanners
    <3>3. \A v \in Patcher : v # w => ~WriteBanner(v)
      BY <2>1, <3>1 DEF WriteBanner, WriteBanners
    <3> QED
      BY <3>2, <3>3 DEF BannersNext, SlideStep, CreateBanner, ReadBanner, FindBanner, DropPatch,
                        BinBanner, PurgeBanner
  <2>3. CASE WriteBanner(w)
    <3>1. banner'[patch[w].slide].window = WindowWritten(patch[w])
      BY <2>1, <2>3 DEF WriteBanner, WriteBanners, BannerRow
    <3> QED
      BY <3>1 DEF KeepsUnsent, WindowWritten, BannersInv, PatchFresh
  <2>4. CASE UNCHANGED banner
    BY <2>4 DEF KeepsUnsent
  <2> QED
    BY <2>2, <2>3, <2>4
<1> QED
  BY <1>1, BannersInvariant, PTL DEF BannersSpec

-----------------------------------------------------------------------------
(* Recruitment                                                             *)

\* What an update that nobody overtook knows of its position.  (update)
DraftStill(r) ==
    LET u == updating[r]
    IN  u # Unsent /\ u.editor /\ ~u.late =>
            /\ u.status \in {"DRAFT", "PENDING", Unsent}
            /\ position[u.position].status = "DRAFT"

\* What an application that nothing overtook knows of its position.  (create)
OpenStill(a) == applying[a] # Unsent /\ ~applying[a].late => Open(applying[a].position)

\* The inductive invariant.
RecruitmentInv ==
    /\ RecruitmentTypeOK
    /\ \A r \in Recruiter : DraftStill(r)
    /\ \A a \in Applicant : OpenStill(a)

\* Writing a position keeps the invariant, whatever becomes of the slots that were
\* done with.  (WritePositions)
LEMMA WritePositionsKeeps ==
    ASSUME RecruitmentInv, NEW v \in Vacancy, NEW row \in Position,
           NEW updates \in [Recruiter -> PositionUpdate \cup {Unsent}],
           \A r \in Recruiter : updates[r] \in {updating[r], Unsent},
           WritePositions({v}, [position EXCEPT ![v] = row], updates)
    PROVE  RecruitmentInv'
<1>1. /\ position' = [position EXCEPT ![v] = row] /\ position' \in [Vacancy -> Position]
      /\ UNCHANGED <<today, letter>>
  BY DEF WritePositions, RecruitmentInv, RecruitmentTypeOK
<1>2. ASSUME NEW r \in Recruiter
      PROVE  /\ updating'[r] \in PositionUpdate \cup {Unsent}
             /\ updating'[r] # Unsent =>
                  /\ updating[r] # Unsent
                  /\ updating'[r].editor = updating[r].editor
                  /\ updating'[r].status = updating[r].status
                  /\ updating'[r].position = updating[r].position
                  /\ ~updating'[r].late => ~updating[r].late /\ updating[r].position # v
  <2>1. updating'[r] = IF updates[r] # Unsent /\ updates[r].position \in {v}
                       THEN [updates[r] EXCEPT !.late = TRUE] ELSE updates[r]
    BY DEF WritePositions
  <2> QED
    BY <2>1 DEF PositionUpdate
<1>3. ASSUME NEW a \in Applicant
      PROVE  /\ applying'[a] \in Application \cup {Unsent}
             /\ applying'[a] # Unsent =>
                  /\ applying[a] # Unsent
                  /\ applying'[a].position = applying[a].position
                  /\ ~applying'[a].late => ~applying[a].late /\ applying[a].position # v
  <2>1. applying'[a] = IF applying[a] # Unsent /\ applying[a].position \in {v}
                       THEN [applying[a] EXCEPT !.late = TRUE] ELSE applying[a]
    BY DEF WritePositions
  <2>2. applying[a] \in Application \cup {Unsent}
    BY DEF RecruitmentInv, RecruitmentTypeOK
  <2> QED
    BY <2>1, <2>2 DEF Application
<1>4. /\ updating' = [r \in Recruiter |-> updating'[r]]
      /\ applying' = [a \in Applicant |-> applying'[a]]
  BY DEF WritePositions
<1>5. RecruitmentTypeOK'
  BY <1>1, <1>2, <1>3, <1>4 DEF RecruitmentInv, RecruitmentTypeOK
<1>6. ASSUME NEW r \in Recruiter PROVE DraftStill(r)'
  <2>1. updating'[r] # Unsent /\ ~updating'[r].late =>
            position'[updating[r].position] = position[updating[r].position]
    BY <1>1, <1>2 DEF RecruitmentInv, RecruitmentTypeOK
  <2> QED
    BY <1>2, <2>1 DEF DraftStill, RecruitmentInv
<1>7. ASSUME NEW a \in Applicant PROVE OpenStill(a)'
  <2>1. applying'[a] # Unsent /\ ~applying'[a].late =>
            position'[applying[a].position] = position[applying[a].position]
    BY <1>1, <1>3 DEF RecruitmentInv, RecruitmentTypeOK
  <2> QED
    BY <1>1, <1>3, <2>1 DEF OpenStill, Open, NotOver, RecruitmentInv
<1> QED
  BY <1>5, <1>6, <1>7 DEF RecruitmentInv

\* An update that comes in, or that ends without a write, keeps the invariant.
\* (CheckUpdate, DropUpdate)
LEMMA UpdatingKeeps ==
    ASSUME RecruitmentInv, NEW r \in Recruiter, NEW u \in PositionUpdate \cup {Unsent},
           updating' = [updating EXCEPT ![r] = u],
           UNCHANGED <<today, position, applying, letter>>,
           u # Unsent /\ u.editor => /\ u.status \in {"DRAFT", "PENDING", Unsent}
                                     /\ position[u.position].status = "DRAFT"
    PROVE  RecruitmentInv'
<1>1. RecruitmentTypeOK'
  BY DEF RecruitmentInv, RecruitmentTypeOK
<1>2. \A s \in Recruiter : updating'[s] = IF s = r THEN u ELSE updating[s]
  BY DEF RecruitmentInv, RecruitmentTypeOK
<1>3. \A s \in Recruiter : DraftStill(s)'
  BY <1>2 DEF DraftStill, RecruitmentInv
<1> QED
  BY <1>1, <1>3 DEF RecruitmentInv, OpenStill, Open, NotOver

\* The same of an application, with what happens to the inbox.
LEMMA ApplyingKeeps ==
    ASSUME RecruitmentInv, NEW a \in Applicant, NEW p \in Application \cup {Unsent},
           applying' = [applying EXCEPT ![a] = p],
           UNCHANGED <<today, position, updating>>, letter' \in [Letter -> Submission],
           p # Unsent => Open(p.position)
    PROVE  RecruitmentInv'
<1>1. RecruitmentTypeOK'
  BY DEF RecruitmentInv, RecruitmentTypeOK
<1>2. \A b \in Applicant : applying'[b] = IF b = a THEN p ELSE applying[b]
  BY DEF RecruitmentInv, RecruitmentTypeOK
<1>3. \A b \in Applicant : OpenStill(b)'
  BY <1>2 DEF OpenStill, Open, NotOver, RecruitmentInv
<1> QED
  BY <1>1, <1>3 DEF RecruitmentInv, DraftStill

\* What happens to the inbox alone keeps the invariant.
LEMMA InboxKeeps ==
    ASSUME RecruitmentInv, UNCHANGED <<today, position, updating, applying>>,
           letter' \in [Letter -> Submission]
    PROVE  RecruitmentInv'
BY DEF RecruitmentInv, RecruitmentTypeOK, DraftStill, OpenStill, Open, NotOver

\* Each action keeps the invariant.
LEMMA RecruitmentStep == RecruitmentInv /\ [RecruitmentNext]_recruitmentVars => RecruitmentInv'
<1> SUFFICES ASSUME RecruitmentInv, [RecruitmentNext]_recruitmentVars PROVE RecruitmentInv'
  OBVIOUS
<1> USE RecruitmentAssumption
<1>1. /\ updating \in [Recruiter -> PositionUpdate \cup {Unsent}]
      /\ applying \in [Applicant -> Application \cup {Unsent}]
      /\ position \in [Vacancy -> Position]
      /\ letter \in [Letter -> Submission]
      /\ \A r \in Recruiter : updating[r] \in {updating[r], Unsent}
  BY DEF RecruitmentInv, RecruitmentTypeOK
<1>2. ASSUME NEW v \in Vacancy, NEW editor \in BOOLEAN, NEW status \in ContentStatuses \cup {Unsent},
             NEW deadline \in Deadlines, CreatePosition(v, editor, status, deadline)
      PROVE  RecruitmentInv'
  <2> DEFINE new == IF status = Unsent THEN "DRAFT" ELSE status
             row == [position[v] EXCEPT !.life = "live", !.deadline = deadline, !.status = new]
  <2>1. new \in ContentStatuses
    BY DEF ContentStatuses
  <2>2. WritePositions({v}, [position EXCEPT ![v] = row], updating)
    BY <1>1, <1>2 DEF CreatePosition
  <2> HIDE DEF new
  <2>3. row \in Position
    BY <1>1, <2>1 DEF Position
  <2> HIDE DEF row
  <2> QED
    BY <1>1, <2>2, <2>3, WritePositionsKeeps
<1>3. ASSUME NEW v \in Vacancy, NEW r \in Recruiter, NEW editor \in BOOLEAN,
             NEW status \in ContentStatuses \cup {Unsent}, NEW deadline \in Deadlines \cup {Unsent},
             CheckUpdate(r, v, editor, status, deadline)
      PROVE  RecruitmentInv'
  <2> DEFINE u == [position |-> v, editor |-> editor, status |-> status,
                   deadline |-> deadline, late |-> FALSE]
  <2>1. u \in PositionUpdate
    BY DEF PositionUpdate
  <2>2. u.editor => u.status \in {"DRAFT", "PENDING", Unsent} /\ position[u.position].status = "DRAFT"
    BY <1>3 DEF CheckUpdate, MayUpdate
  <2>3. updating' = [updating EXCEPT ![r] = u] /\ UNCHANGED <<today, position, applying, letter>>
    BY <1>3 DEF CheckUpdate
  <2> HIDE DEF u
  <2> QED
    BY <2>1, <2>2, <2>3, UpdatingKeeps
<1>4. ASSUME NEW r \in Recruiter, WriteUpdate(r) PROVE RecruitmentInv'
  <2> DEFINE u == updating[r]
             status == Merged(u.status, position[u.position].status)
             deadline == Merged(u.deadline, position[u.position].deadline)
             text == 1 - position[u.position].text
             row == [position[u.position] EXCEPT !.status = status, !.deadline = deadline,
                                                 !.text = text]
  <2>1. u \in PositionUpdate /\ u.position \in Vacancy
    BY <1>1, <1>4 DEF WriteUpdate, PositionUpdate
  <2>2. status \in ContentStatuses /\ deadline \in Deadlines
    BY <1>1, <2>1 DEF Merged, PositionUpdate, Position
  <2>3. text \in {0, 1}
    BY <1>1, <2>1 DEF Position
  <2>4. WritePositions({u.position}, [position EXCEPT ![u.position] = row],
                       [updating EXCEPT ![r] = Unsent])
    BY <1>4, Zenon DEF WriteUpdate
  <2>5. /\ [updating EXCEPT ![r] = Unsent] \in [Recruiter -> PositionUpdate \cup {Unsent}]
        /\ \A s \in Recruiter : [updating EXCEPT ![r] = Unsent][s] \in {updating[s], Unsent}
    BY <1>1
  <2> HIDE DEF status, deadline, text
  <2>6. row \in Position
    BY <1>1, <2>1, <2>2, <2>3 DEF Position
  <2> HIDE DEF row, u
  <2> QED
    BY <2>1, <2>4, <2>5, <2>6, WritePositionsKeeps
<1>5. ASSUME NEW r \in Recruiter, DropUpdate(r) PROVE RecruitmentInv'
  BY <1>5, UpdatingKeeps DEF DropUpdate
<1>6. ASSUME NEW v \in Vacancy, NEW life \in {"live", "trashed"}, BinPosition(v, life)
      PROVE  RecruitmentInv'
  <2> DEFINE row == [position[v] EXCEPT !.life = life, !.status = "DRAFT"]
  <2>1. row \in Position
    BY <1>1 DEF Position, ContentStatuses
  <2>2. WritePositions({v}, [position EXCEPT ![v] = row], updating)
    BY <1>1, <1>6 DEF BinPosition
  <2> HIDE DEF row
  <2> QED
    BY <1>1, <2>1, <2>2, WritePositionsKeeps
<1>7. ASSUME NEW v \in Vacancy, PurgePosition(v) PROVE RecruitmentInv'
  <2> DEFINE row == [position[v] EXCEPT !.life = "purged"]
  <2>1. row \in Position
    BY <1>1 DEF Position
  <2>2. WritePositions({v}, [position EXCEPT ![v] = row], updating)
    BY <1>1, <1>7 DEF PurgePosition
  <2> HIDE DEF row
  <2> QED
    BY <1>1, <2>1, <2>2, WritePositionsKeeps
<1>8. CASE Midnight
  <2>1. today' \in Days /\ UNCHANGED <<position, updating, letter>>
    BY <1>8 DEF Midnight, Days, RecruitmentInv, RecruitmentTypeOK
  <2>2. \A a \in Applicant : /\ applying'[a] \in Application \cup {Unsent}
                             /\ applying'[a] # Unsent => applying'[a].late
    BY <1>1, <1>8 DEF Midnight, Application
  <2>3. applying' = [a \in Applicant |-> applying'[a]]
    BY <1>8 DEF Midnight
  <2> QED
    BY <2>1, <2>2, <2>3 DEF RecruitmentInv, RecruitmentTypeOK, DraftStill, OpenStill
<1>9. ASSUME NEW a \in Applicant, NEW v \in Vacancy, LookUp(a, v) PROVE RecruitmentInv'
  <2> DEFINE p == [position |-> v, late |-> FALSE]
  <2>1. p \in Application /\ Open(p.position)
    BY <1>9 DEF Application, LookUp, AcceptsApplications
  <2> QED
    BY <1>1, <1>9, <2>1, ApplyingKeeps DEF LookUp
<1>10. ASSUME NEW l \in Letter, NEW of \in Vacancy \cup {Unsent}, SaveLetter(l, of)
       PROVE  letter' \in [Letter -> Submission]
  BY <1>1, <1>10 DEF SaveLetter, Submission
<1>11. ASSUME NEW a \in Applicant, NEW l \in Letter, SaveApplication(a, l) PROVE RecruitmentInv'
  <2>1. applying[a].position \in Vacancy
    BY <1>1, <1>11 DEF SaveApplication, Application
  <2>2. letter' \in [Letter -> Submission]
    BY <1>10, <1>11, <2>1 DEF SaveApplication
  <2> QED
    BY <1>11, <2>2, ApplyingKeeps DEF SaveApplication
<1>12. ASSUME NEW a \in Applicant, DropApplication(a) PROVE RecruitmentInv'
  BY <1>1, <1>12, ApplyingKeeps DEF DropApplication
<1>13. ASSUME NEW l \in Letter, ContactForm(l) PROVE RecruitmentInv'
  BY <1>10, <1>13, InboxKeeps DEF ContactForm
<1>14. ASSUME NEW l \in Letter, NEW handled \in BOOLEAN, UpdateLetter(l, handled)
       PROVE  RecruitmentInv'
  <2>1. letter' \in [Letter -> Submission]
    BY <1>1, <1>14 DEF UpdateLetter, Submission
  <2> QED
    BY <1>14, <2>1, InboxKeeps DEF UpdateLetter
<1>15. ASSUME NEW l \in Letter, NEW life \in {"live", "trashed", "purged"}, MoveLetter(l, life)
       PROVE  RecruitmentInv'
  <2>1. letter' \in [Letter -> Submission]
    BY <1>1, <1>15 DEF MoveLetter, Submission
  <2> QED
    BY <1>15, <2>1, InboxKeeps DEF MoveLetter
<1>16. CASE UNCHANGED recruitmentVars
  BY <1>16 DEF recruitmentVars, RecruitmentInv, RecruitmentTypeOK, DraftStill, OpenStill, Open, NotOver
<1> QED
  BY <1>2, <1>3, <1>4, <1>5, <1>6, <1>7, <1>8, <1>9, <1>11, <1>12, <1>13, <1>14, <1>15, <1>16
     DEF RecruitmentNext, VacancyStep, LetterStep

\* The invariant of the positions and applications holds always.
THEOREM RecruitmentInvariant == RecruitmentSpec => []RecruitmentInv
<1>1. RecruitmentInit => RecruitmentInv
  BY RecruitmentAssumption DEF RecruitmentInit, RecruitmentInv, RecruitmentTypeOK, DraftStill,
     OpenStill, Position, ContentStatuses, Submission, Days
<1> QED
  BY <1>1, RecruitmentStep, PTL DEF RecruitmentSpec

\* What visitors read of the open positions is not changed by an EDITOR, unless
\* somebody published the draft after his update had been allowed.
\* (create and update: the two assertions on role and status)
THEOREM EditorsSpareOpeningsAlways == RecruitmentSpec => EditorsSpareOpenings
<1>1. RecruitmentInv /\ [RecruitmentNext]_recruitmentVars =>
      [\A r \in Recruiter :
         /\ updating[r] # Unsent /\ updating'[r] = Unsent
         /\ updating[r].editor /\ ~updating[r].late
         => Advertisements' = Advertisements]_recruitmentVars
  <2> SUFFICES ASSUME RecruitmentInv, RecruitmentNext, NEW r \in Recruiter, updating[r] # Unsent,
                      updating'[r] = Unsent, updating[r].editor, ~updating[r].late
               PROVE  Advertisements' = Advertisements
    OBVIOUS
  <2> USE RecruitmentAssumption
  <2> DEFINE u == updating[r]
  <2>1. /\ position \in [Vacancy -> Position]
        /\ updating \in [Recruiter -> PositionUpdate \cup {Unsent}]
        /\ u \in PositionUpdate /\ u.position \in Vacancy
    BY DEF RecruitmentInv, RecruitmentTypeOK, PositionUpdate
  <2>2. WriteUpdate(r) \/ UNCHANGED <<position, today>>
    <3>1. \A x \in PositionUpdate : [x EXCEPT !.late = TRUE] # Unsent
      BY DEF PositionUpdate
    <3>2. \A taken, rows : ~WritePositions(taken, rows, updating)
      BY <2>1, <3>1 DEF WritePositions
    <3>3. \A s \in Recruiter : s # r => ~WriteUpdate(s)
      BY <2>1, <3>1 DEF WriteUpdate, WritePositions
    <3>4. ~Midnight
      BY DEF Midnight
    <3> QED
      BY <3>2, <3>3, <3>4
         DEF RecruitmentNext, VacancyStep, LetterStep, CreatePosition, CheckUpdate, BinPosition,
             PurgePosition, LookUp, DropUpdate, DropApplication, SaveApplication, ContactForm,
             UpdateLetter, MoveLetter
  <2>3. CASE WriteUpdate(r)
    <3>1. PICK w \in Vacancy : w = u.position
      BY <2>1
    <3>2. position[w].status = "DRAFT" /\ u.status \in {"DRAFT", "PENDING", Unsent}
      BY <3>1 DEF RecruitmentInv, DraftStill
    <3>3. Merged(u.status, position[w].status) # "PUBLISHED"
      BY <3>2 DEF Merged
    <3>4. /\ \A v \in Vacancy : v # w => position'[v] = position[v]
          /\ position'[w].status = Merged(u.status, position[w].status)
          /\ today' = today
      BY <2>1, <2>3, <3>1 DEF WriteUpdate, WritePositions, Position
    <3>5. ~Open(w) /\ ~Open(w)'
      BY <3>2, <3>3, <3>4 DEF Open
    <3>6. \A v \in Vacancy : v # w => position'[v].text = position[v].text /\ (Open(v)' <=> Open(v))
      BY <3>4 DEF Open, NotOver
    <3> QED
      BY <3>5, <3>6 DEF Advertisements
  <2>4. CASE UNCHANGED <<position, today>>
    BY <2>4 DEF Advertisements, Open, NotOver
  <2> QED
    BY <2>2, <2>3, <2>4
<1> QED
  BY <1>1, RecruitmentInvariant, PTL DEF RecruitmentSpec, EditorsSpareOpenings

\* An application that is saved is for a position that takes applications at that
\* moment, unless it changed, or the day ended, since it was looked up.
\* (JobApplicationsService.create)
THEOREM ApplicationsWereOpenAlways == RecruitmentSpec => ApplicationsWereOpen
<1>1. RecruitmentInv /\ [RecruitmentNext]_recruitmentVars =>
      [\A a \in Applicant, l \in Letter :
         /\ applying[a] # Unsent /\ applying'[a] = Unsent /\ ~applying[a].late
         /\ letter[l].life = "none" /\ letter'[l].life = "live"
         => Open(letter'[l].of)]_recruitmentVars
  <2> SUFFICES ASSUME RecruitmentInv, RecruitmentNext, NEW a \in Applicant, NEW l \in Letter,
                      applying[a] # Unsent, applying'[a] = Unsent, ~applying[a].late,
                      letter[l].life = "none", letter'[l].life = "live"
               PROVE  Open(letter'[l].of)
    OBVIOUS
  <2>1. letter \in [Letter -> Submission] /\ Open(applying[a].position)
    BY DEF RecruitmentInv, RecruitmentTypeOK, OpenStill
  <2>2. letter' # letter /\ applying' # applying
    OBVIOUS
  <2>3. PICK b \in Applicant, k \in Letter : SaveApplication(b, k)
    BY <2>2 DEF RecruitmentNext, VacancyStep, LetterStep, CreatePosition, CheckUpdate, WriteUpdate,
                WritePositions, BinPosition, PurgePosition, Midnight, LookUp, DropUpdate,
                DropApplication, ContactForm, UpdateLetter, MoveLetter
  <2>4. applying \in [Applicant -> Application \cup {Unsent}]
    BY DEF RecruitmentInv, RecruitmentTypeOK
  <2>5. b = a /\ k = l
    BY <2>1, <2>3, <2>4 DEF SaveApplication, SaveLetter
  <2> QED
    BY <2>1, <2>3, <2>5 DEF SaveApplication, SaveLetter, Submission
<1> QED
  BY <1>1, RecruitmentInvariant, PTL DEF RecruitmentSpec, ApplicationsWereOpen

-----------------------------------------------------------------------------
(* Settings                                                                *)

\* The branding is at every moment a value for each of its fields, whatever number
\* of updates is in flight.  (updateBranding, nextValue, parseBranding)
THEOREM SettingsTyped == SettingsSpec => []SettingsTypeOK
<1> USE SettingsAssumption
<1>1. SettingsInit => SettingsTypeOK
  BY DEF SettingsInit, SettingsTypeOK, Branding
<1>2. SettingsTypeOK /\ [SettingsNext]_settingsVars => SettingsTypeOK'
  <2> SUFFICES ASSUME SettingsTypeOK, [SettingsNext]_settingsVars PROVE SettingsTypeOK'
    OBVIOUS
  <2>1. ASSUME NEW d \in Designer, NEW body \in Bodies, ReadBranding(d, body)
        PROVE  SettingsTypeOK'
    <3> DEFINE next == [f \in Fields |-> nextValue(Received(body), f)]
    <3>1. \A f \in DOMAIN body : body[f] \in Texts \cup {NoText}
      BY DEF Bodies
    <3>2. next \in Branding
      BY <3>1 DEF Received, nextValue, Branding
    <3>3. redesign' = [redesign EXCEPT ![d] = next] /\ UNCHANGED <<stored, branding, contact>>
      BY <2>1 DEF ReadBranding
    <3> HIDE DEF next
    <3> QED
      BY <3>2, <3>3 DEF SettingsTypeOK
  <2>2. ASSUME NEW d \in Designer, SaveBranding(d) PROVE SettingsTypeOK'
    BY <2>2 DEF SaveBranding, SettingsTypeOK
  <2>3. ASSUME NEW d \in Designer, DropBranding(d) PROVE SettingsTypeOK'
    BY <2>3 DEF DropBranding, SettingsTypeOK
  <2>4. ASSUME NEW text \in Texts, ReplaceContact(text) PROVE SettingsTypeOK'
    BY <2>4 DEF ReplaceContact, SettingsTypeOK
  <2>5. CASE UNCHANGED settingsVars
    BY <2>5 DEF settingsVars, SettingsTypeOK
  <2> QED
    BY <2>1, <2>2, <2>3, <2>4, <2>5 DEF SettingsNext
<1> QED
  BY <1>1, <1>2, PTL DEF SettingsSpec

-----------------------------------------------------------------------------
(* News                                                                    *)

\* What an answer says of the posts that were not written since its first query:
\* after that query they are as it found them, after both the two agree.
\* (findAllPaginated, searchNews, countPostsByCategory)
AnswerTrue(a) ==
    LET kept == Post \ a.changed
    IN  /\ a.kind = "page" =>
             /\ a.first # Unasked
             /\ a.second = Unasked => \A p \in kept : p \in a.first <=> p \in Listed(a.of)
             /\ a.second # Unasked => \A p \in kept : p \in a.first <=> p \in a.second
        /\ a.kind = "search" =>
             /\ a.first # Unasked /\ \A p \in kept : p \in a.first => Public(p)
             /\ a.second # Unasked => \A p \in kept : p \in a.second => Public(p)
        /\ a.kind = "counts" =>
             /\ a.first # Unasked /\ a.second = Unasked =>
                    \A p \in kept : p \in a.first <=> p \in Filed(a.of)
             /\ a.first = Unasked /\ a.second # Unasked =>
                    \A p \in kept : p \in a.second => p \in Filed(a.of)
             /\ a.first # Unasked /\ a.second # Unasked =>
                    \A p \in kept : p \in a.second => p \in a.first

AnswerFresh(r) == answer[r] # Missing => AnswerTrue(answer[r])

\* A category in the trash is inactive, and updates that found it before are late.
\* (trash and restore of a category)
BinInv ==
    /\ \A c \in Category \ reopened : category[c].life = "trashed" => ~category[c].active
    /\ \A k \in Clerk : edit[k] # Missing /\ category[edit[k].category].life = "trashed" =>
           edit[k].late

\* The inductive invariant.
NewsInv == NewsTypeOK /\ BinInv /\ \A r \in Reader : AnswerFresh(r)

\* A step that writes some posts, or their category, leaves the answers true of the
\* others.  (Since)
LEMMA SinceKeeps ==
    ASSUME NewsInv, NEW touched \in SUBSET Post, answer' = Since(touched),
           \A p \in Post \ touched :
               /\ post'[p] = post[p]
               /\ post[p].category # Missing =>
                      category'[post[p].category].active = category[post[p].category].active
    PROVE  /\ answer' \in [Reader -> Answer \cup {Missing}]
           /\ \A r \in Reader : AnswerFresh(r)'
<1>1. answer \in [Reader -> Answer \cup {Missing}] /\ Missing \notin Answer
  BY NewsAssumption DEF NewsInv, NewsTypeOK
<1>2. ASSUME NEW r \in Reader, answer'[r] # Missing
      PROVE  /\ answer[r] # Missing /\ answer[r] \in Answer
             /\ answer'[r] = [answer[r] EXCEPT !.changed = @ \cup touched]
  BY <1>1, <1>2 DEF Since
<1>3. ASSUME NEW a \in Answer
      PROVE  LET b == [a EXCEPT !.changed = @ \cup touched]
             IN  /\ b \in Answer /\ b.kind = a.kind /\ b.of = a.of
                 /\ b.first = a.first /\ b.second = a.second
                 /\ b.changed = a.changed \cup touched
  BY DEF Answer
<1>4. answer' \in [Reader -> Answer \cup {Missing}]
  BY <1>1, <1>2, <1>3 DEF Since
<1>5. ASSUME NEW p \in Post \ touched, NEW c \in Category \cup {Missing}
      PROVE  /\ Public(p)' <=> Public(p)
             /\ p \in Listed(c)' <=> p \in Listed(c)
             /\ p \in Filed(c)' <=> p \in Filed(c)
  BY <1>5 DEF Public, Listed, Filed
<1>6. ASSUME NEW r \in Reader PROVE AnswerFresh(r)'
  <2> SUFFICES ASSUME answer'[r] # Missing PROVE AnswerFresh(r)'
    BY DEF AnswerFresh
  <2>1. PICK a \in Answer : a = answer[r]
    BY <1>2
  <2>2. PICK b \in Answer :
            /\ b = answer'[r] /\ b.kind = a.kind /\ b.of = a.of
            /\ b.first = a.first /\ b.second = a.second /\ b.changed = a.changed \cup touched
    BY <1>2, <1>3, <2>1
  <2>3. a.of \in Category \cup {Missing} /\ AnswerFresh(r) /\ a # Missing
    BY <1>1, <2>1 DEF Answer, NewsInv
  <2>4. /\ Listed(b.of)' = Listed(a.of)' /\ Filed(b.of)' = Filed(a.of)'
    BY <2>2
  <2>5. \A p \in Post \ b.changed :
            /\ p \in Post \ a.changed
            /\ Public(p)' <=> Public(p)
            /\ p \in Listed(b.of)' <=> p \in Listed(a.of)
            /\ p \in Filed(b.of)' <=> p \in Filed(a.of)
    BY <1>5, <2>2, <2>3, <2>4
  <2> QED
    BY <2>1, <2>2, <2>3, <2>5 DEF AnswerFresh, AnswerTrue
<1> QED
  BY <1>4, <1>6

\* A query of one answer keeps the invariant.  (Ask, Then, Reply)
LEMMA QueryKeeps ==
    ASSUME NewsInv, NEW r \in Reader, NEW a \in Answer \cup {Missing},
           answer' = [answer EXCEPT ![r] = a], UNCHANGED <<post, category, edit, reopened>>,
           a # Missing => AnswerTrue(a)
    PROVE  NewsInv'
<1>1. NewsTypeOK' /\ BinInv'
  BY DEF NewsInv, NewsTypeOK, BinInv
<1>2. \A s \in Reader : answer'[s] = IF s = r THEN a ELSE answer[s]
  BY DEF NewsInv, NewsTypeOK
<1>3. ASSUME NEW b PROVE AnswerTrue(b)' <=> AnswerTrue(b)
  BY DEF AnswerTrue, Listed, Filed, Public
<1>4. ASSUME NEW s \in Reader PROVE AnswerFresh(s)'
  <2>1. PICK b : b = answer'[s]
    OBVIOUS
  <2>2. b # Missing => AnswerTrue(b)
    BY <1>2, <2>1 DEF NewsInv, AnswerFresh
  <2>3. b # Missing => AnswerTrue(b)'
    BY <1>3, <2>2
  <2> QED
    BY <2>1, <2>3 DEF AnswerFresh, AnswerTrue
<1> QED
  BY <1>1, <1>4 DEF NewsInv

\* The steps of a reader keep the invariant.
LEMMA ReaderStepKeeps == ASSUME NewsInv, NEW r \in Reader, ReaderStep(r) PROVE NewsInv'
<1> USE NewsAssumption
<1> DEFINE Result == (SUBSET Post) \cup {Unasked}
<1>1. /\ answer \in [Reader -> Answer \cup {Missing}]
      /\ \A c : /\ Listed(c) \in Result /\ Listed(c) # Unasked
                /\ Filed(c) \in Result /\ Filed(c) # Unasked
                /\ Filed(c) \cap Found \in Result /\ Filed(c) \cap Found # Unasked
      /\ Found \in Result /\ Found # Unasked /\ Unasked \in Result
      /\ \A p \in Found : Public(p)
  <2>1. /\ \A c : Listed(c) \in SUBSET Post /\ Filed(c) \in SUBSET Post
        /\ Found \in SUBSET Post /\ \A p \in Found : Public(p)
    BY DEF Found, Listed, Filed
  <2>2. \A ids \in SUBSET Post : ids \in Result /\ ids # Unasked
    BY DEF Unasked
  <2>3. Unasked \in Result
    BY Zenon
  <2> HIDE DEF Result
  <2>4. \A c : Filed(c) \cap Found \in SUBSET Post
    BY <2>1
  <2>5. answer \in [Reader -> Answer \cup {Missing}]
    BY DEF NewsInv, NewsTypeOK
  <2> QED
    BY <2>1, <2>2, <2>3, <2>4, <2>5
<1>2. ASSUME NEW kind \in {"page", "counts", "search"}, NEW c \in Category \cup {Missing},
             NEW first \in Result, NEW second \in Result,
             Ask(r, kind, c, first, second),
             AnswerTrue([kind |-> kind, of |-> c, first |-> first, second |-> second,
                         changed |-> {}])
      PROVE  NewsInv'
  <2>1. [kind |-> kind, of |-> c, first |-> first, second |-> second, changed |-> {}] \in Answer
    BY DEF Answer
  <2> QED
    BY <1>2, <2>1, QueryKeeps DEF Ask
<1> HIDE DEF Result
<1>3. ASSUME NEW c \in Category \cup {Missing}, CountPage(r, c) PROVE NewsInv'
  <2>1. AnswerTrue([kind |-> "page", of |-> c, first |-> Listed(c), second |-> Unasked,
                    changed |-> {}])
    BY <1>1 DEF AnswerTrue
  <2> QED
    BY <1>1, <1>2, <1>3, <2>1 DEF CountPage
<1>4. ASSUME NEW c \in Category, CountCategory(r, c) PROVE NewsInv'
  <2>1. AnswerTrue([kind |-> "counts", of |-> c, first |-> Filed(c), second |-> Unasked,
                    changed |-> {}])
    BY <1>1 DEF AnswerTrue
  <2>2. AnswerTrue([kind |-> "counts", of |-> c, first |-> Unasked, second |-> Filed(c) \cap Found,
                    changed |-> {}])
    BY <1>1 DEF AnswerTrue
  <2> QED
    BY <1>1, <1>2, <1>4, <2>1, <2>2 DEF CountCategory
<1>5. ASSUME FindPosts(r) PROVE NewsInv'
  <2>1. AnswerTrue([kind |-> "search", of |-> Missing, first |-> Found, second |-> Unasked,
                    changed |-> {}])
    BY <1>1 DEF AnswerTrue
  <2> QED
    BY <1>1, <1>2, <1>5, <2>1 DEF FindPosts
<1>6. ASSUME SecondQuery(r) PROVE NewsInv'
  <2> DEFINE a == answer[r]
  <2>1. a \in Answer /\ AnswerTrue(a) /\ a.of \in Category \cup {Missing}
    BY <1>1, <1>6 DEF SecondQuery, NewsInv, AnswerFresh, Answer
  <2>2. ASSUME NEW first \in Result, NEW second \in Result,
               Then(r, first, second),
               AnswerTrue([a EXCEPT !.first = first, !.second = second])
        PROVE  NewsInv'
    <3>1. [a EXCEPT !.first = first, !.second = second] \in Answer
      BY <2>1 DEF Answer, Result
    <3>2. answer' = [answer EXCEPT ![r] = [a EXCEPT !.first = first, !.second = second]]
      BY <1>1, <2>2, Zenon DEF Then
    <3> QED
      BY <2>2, <3>1, <3>2, QueryKeeps DEF Then
  <2>3. ASSUME NEW first, NEW second
        PROVE  LET b == [a EXCEPT !.first = first, !.second = second]
               IN  /\ b.kind = a.kind /\ b.of = a.of /\ b.changed = a.changed
                   /\ b.first = first /\ b.second = second
    BY <2>1 DEF Answer
  <2>4. a.first \in Result /\ a.second \in Result
    BY <2>1 DEF Answer, Result
  <2>5. ASSUME a.kind = "page", a.second = Unasked, Then(r, a.first, Listed(a.of)) PROVE NewsInv'
    <3>1. AnswerTrue([a EXCEPT !.first = a.first, !.second = Listed(a.of)])
      BY <1>1, <2>1, <2>3, <2>5 DEF AnswerTrue
    <3> QED
      BY <1>1, <2>2, <2>4, <2>5, <3>1
  <2>6. ASSUME a.kind = "search", a.second = Unasked, Then(r, a.first, LoadPosts(a.first))
        PROVE  NewsInv'
    <3>1. a.first # Unasked
      BY <2>1, <2>6 DEF AnswerTrue
    <3>2. LoadPosts(a.first) \in Result /\ LoadPosts(a.first) \subseteq a.first
      BY <2>4, <3>1 DEF LoadPosts, Result
    <3>3. AnswerTrue([a EXCEPT !.first = a.first, !.second = LoadPosts(a.first)])
      BY <2>1, <2>3, <2>6, <3>1, <3>2 DEF AnswerTrue
    <3> QED
      BY <2>2, <2>4, <2>6, <3>1, <3>2, <3>3
  <2>7. ASSUME a.kind = "counts", a.second = Unasked, Then(r, a.first, Filed(a.of) \cap Found)
        PROVE  NewsInv'
    <3>1. AnswerTrue([a EXCEPT !.first = a.first, !.second = Filed(a.of) \cap Found])
      BY <2>1, <2>3, <2>7 DEF AnswerTrue
    <3> QED
      BY <1>1, <2>2, <2>4, <2>7, <3>1
  <2>8. ASSUME a.kind = "counts", a.first = Unasked, Then(r, Filed(a.of), a.second)
        PROVE  NewsInv'
    <3>1. AnswerTrue([a EXCEPT !.first = Filed(a.of), !.second = a.second])
      BY <1>1, <2>1, <2>3, <2>8 DEF AnswerTrue
    <3> QED
      BY <1>1, <2>2, <2>4, <2>8, <3>1
  <2> QED
    BY <1>6, <2>5, <2>6, <2>7, <2>8 DEF SecondQuery
<1>7. ASSUME Reply(r) PROVE NewsInv'
  BY <1>7, QueryKeeps DEF Reply
<1> QED
  BY <1>3, <1>4, <1>5, <1>6, <1>7 DEF ReaderStep

\* The foreign key of posts.
Linked(rows, categories) ==
    \A p \in Post : There(rows[p]) /\ rows[p].category # Missing =>
        There(categories[rows[p].category])

\* A write of one post keeps the invariant.  (WritePosts)
LEMMA OnePostKeeps ==
    ASSUME NewsInv, NEW p \in Post, NEW row \in PostRow,
           WritePosts({p}, [post EXCEPT ![p] = row]), UNCHANGED <<category, edit, reopened>>,
           There(row) /\ row.category # Missing => There(category[row.category])
    PROVE  NewsInv'
<1>1. /\ post \in [Post -> PostRow] /\ post' = [post EXCEPT ![p] = row]
      /\ answer' = Since({p}) /\ Linked(post, category)
  BY DEF NewsInv, NewsTypeOK, WritePosts, Linked, There
<1>2. /\ answer' \in [Reader -> Answer \cup {Missing}]
      /\ \A r \in Reader : AnswerFresh(r)'
  BY <1>1, SinceKeeps
<1>3. Linked(post', category)
  BY <1>1 DEF Linked
<1>4. NewsTypeOK'
  BY <1>1, <1>2, <1>3 DEF NewsInv, NewsTypeOK, Linked, There
<1>5. BinInv'
  BY DEF NewsInv, BinInv
<1> QED
  BY <1>2, <1>4, <1>5 DEF NewsInv

\* The steps of a post keep the invariant.
LEMMA PostStepKeeps == ASSUME NewsInv, NEW p \in Post, PostStep(p) PROVE NewsInv'
<1>1. /\ post[p] \in PostRow
      /\ There(post[p]) /\ post[p].category # Missing => There(category[post[p].category])
  BY DEF NewsInv, NewsTypeOK, There
<1>3. ASSUME NEW c \in Category \cup {Missing}, NewPost(p, c) PROVE NewsInv'
  <2> DEFINE row == [post[p] EXCEPT !.life = "live", !.category = c]
  <2>1. row \in PostRow /\ row.category = c
    BY <1>1 DEF PostRow
  <2>2. WritePosts({p}, [post EXCEPT ![p] = row])
    BY <1>3, Zenon DEF NewPost
  <2> HIDE DEF row
  <2> QED
    BY <1>3, <2>1, <2>2, OnePostKeeps DEF NewPost
<1>4. ASSUME NEW c \in Category \cup {Missing}, MovePost(p, c) PROVE NewsInv'
  <2> DEFINE row == [post[p] EXCEPT !.category = c]
  <2>1. row \in PostRow /\ row.category = c
    BY <1>1 DEF PostRow
  <2>2. WritePosts({p}, [post EXCEPT ![p] = row])
    BY <1>4, Zenon DEF MovePost
  <2> HIDE DEF row
  <2> QED
    BY <1>4, <2>1, <2>2, OnePostKeeps DEF MovePost
<1>5. ASSUME NEW public \in BOOLEAN, PublishPost(p, public) PROVE NewsInv'
  <2> DEFINE row == [post[p] EXCEPT !.public = public]
  <2>1. row \in PostRow /\ row.category = post[p].category /\ row.life = post[p].life
    BY <1>1 DEF PostRow
  <2>2. WritePosts({p}, [post EXCEPT ![p] = row])
    BY <1>5, Zenon DEF PublishPost
  <2> HIDE DEF row
  <2> QED
    BY <1>1, <1>5, <2>1, <2>2, OnePostKeeps DEF PublishPost, There
<1>6. ASSUME NEW life \in {"live", "trashed"}, BinPost(p, life) PROVE NewsInv'
  <2> DEFINE row == [post[p] EXCEPT !.life = life, !.public = FALSE]
  <2>1. row \in PostRow /\ row.category = post[p].category /\ There(post[p])
    BY <1>1, <1>6 DEF PostRow, BinPost, There
  <2>2. WritePosts({p}, [post EXCEPT ![p] = row])
    BY <1>6, Zenon DEF BinPost
  <2> HIDE DEF row
  <2> QED
    BY <1>1, <1>6, <2>1, <2>2, OnePostKeeps DEF BinPost
<1>7. ASSUME PurgePost(p) PROVE NewsInv'
  <2> DEFINE row == [post[p] EXCEPT !.life = "purged"]
  <2>1. row \in PostRow /\ ~There(row)
    BY <1>1 DEF PostRow, There
  <2>2. WritePosts({p}, [post EXCEPT ![p] = row])
    BY <1>7, Zenon DEF PurgePost
  <2> HIDE DEF row
  <2> QED
    BY <1>7, <2>1, <2>2, OnePostKeeps DEF PurgePost
<1> QED
  BY <1>3, <1>4, <1>5, <1>6, <1>7 DEF PostStep

\* The steps of a category and of its updates keep the invariant.
LEMMA CategoryStepKeeps ==
    ASSUME NewsInv,
           (\E c \in Category : CategoryStep(c))
               \/ (\E k \in Clerk : UpdateCategory(k) \/ DropEdit(k))
    PROVE  NewsInv'
<1> USE NewsAssumption
<1>1. /\ post \in [Post -> PostRow] /\ category \in [Category -> CategoryRow]
      /\ answer \in [Reader -> Answer \cup {Missing}]
      /\ edit \in [Clerk -> Edit \cup {Missing}] /\ reopened \subseteq Category
      /\ Linked(post, category)
  BY DEF NewsInv, NewsTypeOK, Linked, There
<1>2. \A p \in Post : post[p].category \in Category \cup {Missing}
  BY <1>1 DEF PostRow
\* nothing happens to the posts and what is shown of them
<1>3. ASSUME UNCHANGED <<post, answer>>, category' \in [Category -> CategoryRow],
             edit' \in [Clerk -> Edit \cup {Missing}], reopened' \subseteq Category, BinInv',
             \A c \in Category : There(category[c]) => category'[c] = category[c]
      PROVE  NewsInv'
  <2>1. \A p \in Post : There(post[p]) /\ post[p].category # Missing =>
            category'[post[p].category] = category[post[p].category]
    BY <1>1, <1>2, <1>3 DEF Linked
  <2>2. Linked(post, category')
    BY <1>1, <2>1 DEF Linked
  <2>3. NewsTypeOK'
    BY <1>1, <1>3, <2>2 DEF NewsTypeOK, Linked, There
  <2>4. ASSUME NEW p \in Post, NEW c \in Category \cup {Missing}
        PROVE  /\ Public(p)' <=> Public(p)
               /\ p \in Listed(c)' <=> p \in Listed(c)
               /\ p \in Filed(c)' <=> p \in Filed(c)
    BY <1>3, <2>1 DEF Public, Listed, Filed, There
  <2>5. ASSUME NEW r \in Reader PROVE AnswerFresh(r)'
    <3>1. answer[r] # Missing =>
              answer[r].of \in Category \cup {Missing} /\ AnswerTrue(answer[r])
      BY <1>1 DEF Answer, NewsInv, AnswerFresh
    <3>2. PICK b : b = answer[r] /\ b = answer'[r]
      BY <1>3
    <3>3. b # Missing => AnswerTrue(b)'
      BY <2>4, <3>1, <3>2 DEF AnswerTrue
    <3> QED
      BY <3>2, <3>3 DEF AnswerFresh, AnswerTrue
  <2> QED
    BY <1>3, <2>3, <2>5 DEF NewsInv
\* one category is written, and its posts are touched
<1>4. ASSUME NEW c \in Category, NEW row \in CategoryRow, There(row),
             category' = [category EXCEPT ![c] = row], UNCHANGED post,
             answer' = Since(FiledUnder(c)),
             edit' \in [Clerk -> Edit \cup {Missing}], reopened' \subseteq Category, BinInv'
      PROVE  NewsInv'
  <2>1. FiledUnder(c) \in SUBSET Post /\ \A p \in Post \ FiledUnder(c) : post[p].category # c
    BY DEF FiledUnder
  <2>2. category' \in [Category -> CategoryRow] /\ Linked(post, category')
    BY <1>1, <1>2, <1>4 DEF Linked
  <2>3. \A p \in Post \ FiledUnder(c) : post'[p] = post[p] /\
            (post[p].category # Missing =>
                 category'[post[p].category].active = category[post[p].category].active)
    BY <1>1, <1>2, <1>4, <2>1
  <2>4. /\ answer' \in [Reader -> Answer \cup {Missing}]
        /\ \A r \in Reader : AnswerFresh(r)'
    BY <1>4, <2>1, <2>3, SinceKeeps
  <2>5. NewsTypeOK'
    BY <1>1, <1>4, <2>2, <2>4 DEF NewsTypeOK, Linked, There
  <2> QED
    BY <1>4, <2>4, <2>5 DEF NewsInv
<1>5. ASSUME NEW c \in Category, NEW active \in BOOLEAN, NewCategory(c, active) PROVE NewsInv'
  <2>1. category' \in [Category -> CategoryRow]
        /\ \A d \in Category : category'[d] = IF d = c THEN [life |-> "live", active |-> active]
                                              ELSE category[d]
    BY <1>1, <1>5 DEF NewCategory, CategoryRow
  <2>2. BinInv'
    BY <1>1, <1>5, <2>1 DEF NewCategory, NewsInv, BinInv, Edit
  <2> QED
    BY <1>1, <1>3, <1>5, <2>1, <2>2 DEF NewCategory, There
<1>6. ASSUME NEW c \in Category, NEW active \in BOOLEAN, NEW k \in Clerk, FindCategory(k, c, active)
      PROVE  NewsInv'
  <2>1. [category |-> c, active |-> active, late |-> FALSE] \in Edit
    BY DEF Edit
  <2>2. edit' \in [Clerk -> Edit \cup {Missing}] /\ BinInv'
    BY <1>1, <1>6, <2>1 DEF FindCategory, NewsInv, BinInv
  <2> QED
    BY <1>1, <1>3, <1>6, <2>2 DEF FindCategory
<1>7. ASSUME NEW k \in Clerk, UpdateCategory(k) PROVE NewsInv'
  <2> DEFINE e == edit[k]
             row == [category[e.category] EXCEPT !.active = e.active]
  <2>1. e \in Edit /\ e.category \in Category
    BY <1>1, <1>7 DEF UpdateCategory, Edit
  <2>2. row \in CategoryRow /\ row.life = category[e.category].life /\ There(row)
    BY <1>1, <1>7, <2>1 DEF UpdateCategory, Edit, CategoryRow, There
  <2>3. category' = [category EXCEPT ![e.category] = row]
    BY <1>7, Zenon DEF UpdateCategory
  <2>4. reopened' = IF e.late THEN reopened \cup {e.category} ELSE reopened
    BY <1>7 DEF UpdateCategory
  <2>5. edit' = [edit EXCEPT ![k] = Missing]
    BY <1>7 DEF UpdateCategory
  <2> HIDE DEF row
  <2>6. \A d \in Category : d # e.category => category'[d] = category[d]
    BY <1>1, <2>3
  <2>7. category[e.category].life = "trashed" => e.category \in reopened'
    BY <1>7, <2>1, <2>4 DEF UpdateCategory, NewsInv, BinInv
  <2>8. \A d \in Category : category'[d].life = category[d].life
    BY <1>1, <2>1, <2>2, <2>3
  <2>9. \A d \in Category \ reopened' : category'[d].life = "trashed" => ~category'[d].active
    BY <2>4, <2>6, <2>7, <2>8 DEF NewsInv, BinInv
  <2>10. \A j \in Clerk : edit'[j] # Missing => edit'[j] = edit[j] /\ edit[j].category \in Category
    BY <1>1, <2>5 DEF Edit
  <2>11. BinInv'
    BY <2>8, <2>9, <2>10 DEF NewsInv, BinInv
  <2>12. edit' \in [Clerk -> Edit \cup {Missing}] /\ reopened' \subseteq Category
    BY <1>1, <2>1, <2>4, <2>5
  <2> QED
    BY <1>4, <1>7, <2>1, <2>2, <2>3, <2>11, <2>12 DEF UpdateCategory
<1>8. ASSUME NEW k \in Clerk, DropEdit(k) PROVE NewsInv'
  <2>1. edit' \in [Clerk -> Edit \cup {Missing}] /\ BinInv'
    BY <1>1, <1>8 DEF DropEdit, NewsInv, BinInv
  <2> QED
    BY <1>1, <1>3, <1>8, <2>1 DEF DropEdit
<1>9. ASSUME NEW c \in Category, NEW life \in {"live", "trashed"}, BinCategory(c, life)
      PROVE  NewsInv'
  <2> DEFINE row == [category[c] EXCEPT !.life = life, !.active = FALSE]
  <2>1. row \in CategoryRow /\ row.life = life /\ ~row.active /\ There(row)
    BY <1>1 DEF CategoryRow, There
  <2>2. category' = [category EXCEPT ![c] = row]
    BY <1>9, Zenon DEF BinCategory, ActiveInTrash
  <2> HIDE DEF row
  <2>3. \A d \in Category : category'[d] = IF d = c THEN row ELSE category[d]
    BY <1>1, <2>2
  <2>4. ASSUME NEW j \in Clerk
        PROVE  /\ edit'[j] \in Edit \cup {Missing}
               /\ edit'[j] # Missing =>
                    /\ edit[j] # Missing /\ edit'[j].category = edit[j].category
                    /\ edit[j].late => edit'[j].late
                    /\ edit[j].category = c => edit'[j].late
    <3>1. edit'[j] = IF edit[j] # Missing /\ edit[j].category = c
                     THEN [edit[j] EXCEPT !.late = TRUE] ELSE edit[j]
      BY <1>9 DEF BinCategory
    <3> QED
      BY <1>1, <3>1 DEF Edit
  <2>5. edit' = [j \in Clerk |-> edit'[j]]
    BY <1>9 DEF BinCategory
  <2>6. reopened' = reopened \ {c}
    BY <1>9 DEF BinCategory
  <2>7. \A d \in Category \ reopened' : category'[d].life = "trashed" => ~category'[d].active
    BY <2>1, <2>3, <2>6 DEF NewsInv, BinInv
  <2>8. \A j \in Clerk : edit'[j] # Missing /\ category'[edit'[j].category].life = "trashed" =>
                             edit'[j].late
    BY <1>1, <2>3, <2>4 DEF NewsInv, BinInv, Edit
  <2>9. BinInv'
    BY <2>7, <2>8 DEF BinInv
  <2>10. edit' \in [Clerk -> Edit \cup {Missing}]
    BY <2>4, <2>5
  <2> QED
    BY <1>1, <1>4, <1>9, <2>1, <2>2, <2>6, <2>9, <2>10 DEF BinCategory
<1>10. ASSUME NEW c \in Category, PurgeCategory(c) PROVE NewsInv'
  <2> DEFINE moved(p) == [post[p] EXCEPT !.category = Missing]
             row == [category[c] EXCEPT !.life = "purged"]
  <2>1. \A p \in Post : /\ moved(p) \in PostRow /\ moved(p).category = Missing
    BY <1>1 DEF PostRow
  <2>2. row \in CategoryRow /\ row.life = "purged"
    BY <1>1 DEF CategoryRow
  <2>3. category' = [category EXCEPT ![c] = row] /\ UNCHANGED <<edit, reopened>>
    BY <1>10, Zenon DEF PurgeCategory
  <2>4. /\ \A p \in Post : post'[p] = IF post[p].category = c THEN moved(p) ELSE post[p]
        /\ post' = [p \in Post |-> post'[p]]
        /\ answer' = Since(FiledUnder(c))
    BY <1>10 DEF PurgeCategory, WritePosts, FiledUnder
  <2> HIDE DEF moved, row
  <2>5. category' \in [Category -> CategoryRow]
        /\ \A d \in Category : category'[d] = IF d = c THEN row ELSE category[d]
    BY <1>1, <2>2, <2>3
  <2>6. post' \in [Post -> PostRow]
    BY <1>1, <2>1, <2>4
  <2>7. FiledUnder(c) \in SUBSET Post /\ \A p \in Post \ FiledUnder(c) : post[p].category # c
    BY DEF FiledUnder
  <2>8. \A p \in Post \ FiledUnder(c) : post'[p] = post[p] /\
            (post[p].category # Missing =>
                 category'[post[p].category].active = category[post[p].category].active)
    BY <1>2, <2>4, <2>5, <2>7
  <2>9. /\ answer' \in [Reader -> Answer \cup {Missing}]
        /\ \A r \in Reader : AnswerFresh(r)'
    BY <2>4, <2>7, <2>8, SinceKeeps
  <2>10. Linked(post', category')
    BY <1>1, <1>2, <2>1, <2>4, <2>5 DEF Linked
  <2>11. NewsTypeOK'
    BY <1>1, <2>3, <2>5, <2>6, <2>9, <2>10 DEF NewsTypeOK, Linked, There
  <2>12. BinInv'
    BY <1>1, <2>2, <2>3, <2>5 DEF NewsInv, BinInv, Edit
  <2> QED
    BY <2>9, <2>11, <2>12 DEF NewsInv
<1> QED
  BY <1>5, <1>6, <1>7, <1>8, <1>9, <1>10 DEF CategoryStep

\* The invariant of the news holds always.
THEOREM NewsInvariant == NewsSpec => []NewsInv
<1>1. NewsInit => NewsInv
  <2> SUFFICES ASSUME NewsInit PROVE NewsInv
    OBVIOUS
  <2>1. NewsTypeOK
    BY NewsAssumption DEF NewsInit, NewsTypeOK, PostRow, CategoryRow
  <2> QED
    BY <2>1 DEF NewsInit, NewsInv, BinInv, AnswerFresh
<1>2. NewsInv /\ [NewsNext]_newsVars => NewsInv'
  <2>1. NewsInv /\ UNCHANGED newsVars => NewsInv'
    BY DEF newsVars, NewsInv, NewsTypeOK, BinInv, AnswerFresh, AnswerTrue, Listed, Filed, Public
  <2> QED
    BY <2>1, ReaderStepKeeps, PostStepKeeps, CategoryStepKeeps DEF NewsNext
<1> QED
  BY <1>1, <1>2, PTL DEF NewsSpec

\* An answer is wrong about posts only that were written since its first query.
\* (findAllPaginated, searchNews, countPostsByCategory)
THEOREM AnswersHoldAlways == NewsSpec => []AnswersHold
<1>1. NewsInv => AnswersHold
  <2> SUFFICES ASSUME NewsInv, NEW r \in Reader, Answered(answer[r])
               PROVE  LET a == answer[r]
                      IN  /\ a.kind = "page" => a.first \ a.changed = a.second \ a.changed
                          /\ a.kind = "search" => \A p \in a.second \ a.changed : Public(p)
                          /\ a.kind = "counts" => a.second \ a.changed \subseteq a.first
    BY DEF AnswersHold
  <2>1. PICK a \in Answer : a = answer[r]
    BY DEF Answered, NewsInv, NewsTypeOK
  <2>2. a.first # Unasked /\ a.second # Unasked /\ AnswerTrue(a)
    BY <2>1 DEF Answered, NewsInv, AnswerFresh
  <2>3. a.first \subseteq Post /\ a.second \subseteq Post
    BY <2>1, <2>2 DEF Answer
  <2> QED
    BY <2>1, <2>2, <2>3 DEF AnswerTrue
<1> QED
  BY <1>1, NewsInvariant, PTL

\* The page of a category in the trash is empty, unless an update that had found it
\* before opened it again.  (findAllPaginated, trash and restore of a category)
THEOREM BinnedCategoryClosedAlways == NewsSpec => []BinnedCategoryClosed
<1>1. NewsInv => BinnedCategoryClosed
  BY NewsAssumption DEF NewsInv, BinInv, BinnedCategoryClosed, Listed
<1> QED
  BY <1>1, NewsInvariant, PTL

-----------------------------------------------------------------------------
(* All services together                                                   *)

\* One service at a time does what it does by itself, and what another does is
\* nothing to it: what is proved of a service holds beside the others.
\* (AppModule's imports: the services share no table that these modules model)
THEOREM SiteIsItsServices ==
    SiteSpec => /\ NewsSpec /\ BannersSpec /\ RecruitmentSpec /\ SettingsSpec
                /\ MediaSpec /\ BulkSpec /\ BackupsSpec /\ BackfillSpec
<1>1. SiteInit => /\ NewsInit /\ BannersInit /\ RecruitmentInit /\ SettingsInit
                  /\ MediaInit /\ BulkInit /\ BackupsInit /\ BackfillInit
  BY DEF SiteInit
<1>2. [SiteNext]_siteVars =>
         /\ [NewsNext]_newsVars /\ [BannersNext]_bannersVars
         /\ [RecruitmentNext]_recruitmentVars /\ [SettingsNext]_settingsVars
         /\ [MediaNext]_mediaVars /\ [BulkNext]_bulkVars
         /\ [BackupsNext]_backupVars /\ [BackfillNext]_backfillVars
  <2>1. SiteNext =>
          /\ NewsNext \/ UNCHANGED newsVars
          /\ BannersNext \/ UNCHANGED bannersVars
          /\ RecruitmentNext \/ UNCHANGED recruitmentVars
          /\ SettingsNext \/ UNCHANGED settingsVars
          /\ MediaNext \/ UNCHANGED mediaVars
          /\ BulkNext \/ UNCHANGED bulkVars
          /\ BackupsNext \/ UNCHANGED backupVars
          /\ BackfillNext \/ UNCHANGED backfillVars
    BY DEF SiteNext, Frame
  <2>2. UNCHANGED siteVars =>
          /\ UNCHANGED newsVars /\ UNCHANGED bannersVars /\ UNCHANGED recruitmentVars
          /\ UNCHANGED settingsVars /\ UNCHANGED mediaVars /\ UNCHANGED bulkVars
          /\ UNCHANGED backupVars /\ UNCHANGED backfillVars
    BY DEF siteVars
  <2> QED
    BY <2>1, <2>2
<1> QED
  BY <1>1, <1>2, PTL DEF SiteSpec, NewsSpec, BannersSpec, RecruitmentSpec, SettingsSpec,
     MediaSpec, BulkSpec, BackupsSpec, BackfillSpec

\* Every variable keeps its type; foreign keys and uploaded files included.
\* (NewsCategory's onDelete: SetNull, uploadImage's unique_filename)
THEOREM SiteTyped == SiteSpec => []SiteTypeOK
<1>1. /\ NewsInv => NewsTypeOK
      /\ BannersInv => BannersTypeOK
      /\ RecruitmentInv => RecruitmentTypeOK
      /\ BulkInv => BulkTypeOK
      /\ BackupsInv => BackupsTypeOK
      /\ BackfillInv => BackfillTypeOK
  BY DEF NewsInv, BannersInv, RecruitmentInv, BulkInv, BackupsInv, BackfillInv
<1>2. /\ NewsTypeOK /\ BannersTypeOK /\ RecruitmentTypeOK /\ SettingsTypeOK
      /\ MediaTypeOK /\ BulkTypeOK /\ BackupsTypeOK /\ BackfillTypeOK
      => SiteTypeOK
  BY DEF SiteTypeOK
<1> QED
  BY <1>1, <1>2, SiteIsItsServices, NewsInvariant, BannersInvariant, RecruitmentInvariant,
     SettingsTyped, UploadedFilesStay, BulkInvariant, BackupsInvariant, BackfillInvariant, PTL

\* An update that nobody overlapped changes only what it contains: the bounds of
\* a banner, the English a script adds.
\* (BannersService.update, backfillText)
THEOREM PatchesKeepTheRestAlways == SiteSpec => PatchesKeepTheRest
<1>1. [][BannerPatchKeepsRest]_bannersVars /\ [][BackfillAddsOnly]_backfillVars
      => PatchesKeepTheRest
  <2>1. [BannerPatchKeepsRest]_bannersVars /\ [BackfillAddsOnly]_backfillVars
        => [BannerPatchKeepsRest /\ BackfillAddsOnly]_siteVars
    <3>1. UNCHANGED bannersVars => BannerPatchKeepsRest
      BY DEF bannersVars, BannerPatchKeepsRest
    <3>2. UNCHANGED backfillVars => BackfillAddsOnly
      BY DEF backfillVars, BackfillAddsOnly
    <3> QED
      BY <3>1, <3>2
  <2> QED
    BY <2>1, PTL DEF PatchesKeepTheRest
<1> QED
  BY <1>1, SiteIsItsServices, BannerPatchKeepsRestAlways, BackfillAddsOnlyAlways, PTL
=============================================================================
