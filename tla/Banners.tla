------------------------------- MODULE Banners -------------------------------
(***************************************************************************)
(* The banners of the home page and the windows of time they are shown in. *)
(*                                                                         *)
(* A PATCH reads the banner, merges the bounds it contains into the window *)
(* that is stored, checks the result, and writes both bounds back by id,   *)
(* the ones it did not contain included.  A DELETE reads the banner and    *)
(* switches it off.  Another request, or the trash, may come in between.   *)
(* The order of the banners is the subject of ContentOrder.                *)
(***************************************************************************)
EXTENDS Naturals

CONSTANTS
    Slide,     \* rows of banners that can be created
    Patcher,   \* updates that can be in flight at the same time
    Instants,  \* the instants that bounds are set to
    Unbounded, \* no bound on that side (null)
    Absent     \* a field that a request does not contain; no request

Bounds == Instants \cup {Unbounded}

DisplayWindow == [from : Bounds, until : Bounds]

BannerRow == [life : {"none", "live", "trashed", "purged"}, active : BOOLEAN,
              window : DisplayWindow]

\* A request that has found its banner: an update with the merged window, or a
\* removal, which writes no window.  `sent` is what it contained; `overlapped` is
\* history: the banner was written since.
BannerPatch == [slide : Slide, active : BOOLEAN \cup {Absent},
                window : DisplayWindow \cup {Absent},
                sent : SUBSET {"from", "until"}, overlapped : BOOLEAN]

ASSUME BannersAssumption ==
    /\ Instants \subseteq Nat \ {0}
    /\ Unbounded \notin Nat
    /\ Absent \notin Bounds
    /\ Absent \notin BOOLEAN
    /\ Absent \notin DisplayWindow
    /\ Absent \notin BannerPatch

VARIABLES
    banner,
    patch

bannersVars == <<banner, patch>>

BannersTypeOK ==
    /\ banner \in [Slide -> BannerRow]
    /\ patch \in [Patcher -> BannerPatch \cup {Absent}]

EMPTY_DISPLAY_WINDOW == [from |-> Unbounded, until |-> Unbounded]

BannersInit ==
    /\ banner = [s \in Slide |-> [life |-> "none", active |-> TRUE,
                                  window |-> EMPTY_DISPLAY_WINDOW]]
    /\ patch = [w \in Patcher |-> Absent]

-----------------------------------------------------------------------------
(* Windows                                                                 *)

\* withinDisplayWindowWhere(): half open, [from, until)
Within(window, now) ==
    /\ window.from # Unbounded => window.from <= now
    /\ window.until # Unbounded => now < window.until

\* bannerPubliclyVisibleWhere()
OnHomePage(now) ==
    {s \in Slide : banner[s].life = "live" /\ banner[s].active /\ Within(banner[s].window, now)}

resolveBound(incoming, current) == IF incoming = Absent THEN current ELSE incoming

mergeDisplayWindow(current, from, until) ==
    [from |-> resolveBound(from, current.from), until |-> resolveBound(until, current.until)]

InOrder(window) ==
    window.from # Unbounded /\ window.until # Unbounded => window.from < window.until

\* A mistaken check that looks at what the request contains, not at the result.
SentInOrder(current, from, until) ==
    from \notin {Absent, Unbounded} /\ until \notin {Absent, Unbounded} => from < until

\* assertDisplayWindow(), on the merged window
WindowAccepted(current, from, until) == InOrder(mergeDisplayWindow(current, from, until))

-----------------------------------------------------------------------------
(* Requests                                                                *)

\* The rows become `rows`; the updates that have read one of `slides` are late.
WriteBanners(slides, rows, patches) ==
    /\ banner' = rows
    /\ patch' = [w \in Patcher |-> IF patches[w] # Absent /\ patches[w].slide \in slides
                                   THEN [patches[w] EXCEPT !.overlapped = TRUE]
                                   ELSE patches[w]]

CreateBanner(s, active, from, until) ==
    /\ banner[s].life = "none"
    /\ WindowAccepted(EMPTY_DISPLAY_WINDOW, from, until)
    /\ WriteBanners({s}, [banner EXCEPT ![s] =
           [life |-> "live", active |-> active,
            window |-> mergeDisplayWindow(EMPTY_DISPLAY_WINDOW, from, until)]], patch)

\* remove(): the read of the banner
FindBanner(w, s) ==
    /\ patch[w] = Absent
    /\ banner[s].life = "live"
    /\ patch' = [patch EXCEPT ![w] = [slide |-> s, active |-> FALSE, window |-> Absent,
                                     sent |-> {}, overlapped |-> FALSE]]
    /\ UNCHANGED banner

\* update() up to the check
ReadBanner(w, s, active, from, until) ==
    LET current == banner[s].window
    IN  /\ patch[w] = Absent
        /\ banner[s].life = "live"
        /\ WindowAccepted(current, from, until)
        /\ patch' = [patch EXCEPT ![w] =
               [slide |-> s, active |-> active,
                window |-> mergeDisplayWindow(current, from, until),
                sent |-> {b \in {"from", "until"} : (IF b = "from" THEN from ELSE until) # Absent},
                overlapped |-> FALSE]]
        /\ UNCHANGED banner

\* A mistaken update that clears the bounds a request does not contain.
ClearsUnsent(p) ==
    [from  |-> IF "from" \in p.sent THEN p.window.from ELSE Unbounded,
     until |-> IF "until" \in p.sent THEN p.window.until ELSE Unbounded]

\* Of an update both bounds, as they were merged
WindowWritten(p) == IF p.window = Absent THEN banner[p.slide].window ELSE p.window

WriteBanner(w) ==
    LET p == patch[w]
    IN  /\ p # Absent
        /\ banner[p.slide].life \in {"live", "trashed"}
        /\ WriteBanners({p.slide},
               [banner EXCEPT ![p.slide].window = WindowWritten(p),
                              ![p.slide].active = IF p.active = Absent THEN @ ELSE p.active],
               [patch EXCEPT ![w] = Absent])

DropPatch(w) ==
    /\ patch[w] # Absent
    /\ patch' = [patch EXCEPT ![w] = Absent]
    /\ UNCHANGED banner

\* Into the trash and out of it: off the site either way.
BinBanner(s, life) ==
    /\ banner[s].life = (IF life = "live" THEN "trashed" ELSE "live")
    /\ WriteBanners({s}, [banner EXCEPT ![s].life = life, ![s].active = FALSE], patch)

PurgeBanner(s) ==
    /\ banner[s].life \in {"live", "trashed"}
    /\ WriteBanners({s}, [banner EXCEPT ![s].life = "purged"], patch)

-----------------------------------------------------------------------------
SlideStep(s) ==
    \/ \E from, until \in Bounds \cup {Absent} :
         \/ \E active \in BOOLEAN : CreateBanner(s, active, from, until)
         \/ \E w \in Patcher, active \in BOOLEAN \cup {Absent} :
                ReadBanner(w, s, active, from, until)
    \/ \E w \in Patcher : FindBanner(w, s)
    \/ \E life \in {"live", "trashed"} : BinBanner(s, life)
    \/ PurgeBanner(s)

BannersNext ==
    \/ \E s \in Slide : SlideStep(s)
    \/ \E w \in Patcher : WriteBanner(w) \/ DropPatch(w)

BannersSpec == BannersInit /\ [][BannersNext]_bannersVars

-----------------------------------------------------------------------------
(* Safety                                                                  *)

\* A banner that is switched on is on the home page at some instant: no start is
\* stored after or at its end, although every window was checked against a row
\* that had changed by the time both bounds were written.
\* (update, mergeDisplayWindow, assertDisplayWindow)
EveryBannerShowable ==
    \A s \in Slide : banner[s].life = "live" /\ banner[s].active =>
        \E now \in {0} \cup Instants : s \in OnHomePage(now)

\* What a request did not contain it leaves as it was.
KeepsUnsent(p) ==
    LET old == banner[p.slide].window
        new == banner'[p.slide].window
    IN  /\ "from" \notin p.sent => new.from = old.from
        /\ "until" \notin p.sent => new.until = old.until

\* A step of an update that nobody overlapped changes only the bounds that it contains.
\* (update: "PATCH chỉ đổi displayFrom")
BannerPatchKeepsRest ==
    \A w \in Patcher : patch[w] # Absent /\ patch'[w] = Absent /\ ~patch[w].overlapped =>
        KeepsUnsent(patch[w])

\* "giá trị bằng đúng cái đang lưu thì câu UPDATE không đổi gì": writing the
\* merged window back never changes a bound that the request did not contain.
WriteBackIsHarmless ==
    [][\A w \in Patcher : patch[w] # Absent /\ patch'[w] = Absent =>
           KeepsUnsent(patch[w])]_bannersVars
=============================================================================
