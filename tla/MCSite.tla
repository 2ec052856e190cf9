------------------------------- MODULE MCSite -------------------------------
(***************************************************************************)
(* Model-checking instance of services that share no table: each step of   *)
(* one leaves what the others keep as it was, so that the states of all of *)
(* them together are the combinations of the states of each.  A behaviour  *)
(* of this instance is a behaviour of one service, chosen at the start,    *)
(* and every property speaks of one service.                               *)
(***************************************************************************)
EXTENDS NewsLists, Banners, Recruitment, SiteSettings, MediaLibrary, BulkDelete,
        Backups, Backfill, TLC

VARIABLE service  \* the one that runs

siteVars == <<service, newsVars, bannersVars, recruitmentVars, settingsVars,
              mediaVars, bulkVars, backupVars, backfillVars>>

SiteInit ==
    /\ service \in {"news", "banners", "recruitment", "settings", "media", "bulk", "backups",
                   "backfill"}
    /\ NewsInit /\ BannersInit /\ RecruitmentInit /\ SettingsInit
    /\ MediaInit /\ BulkInit /\ BackupsInit /\ BackfillInit
    \* what the others start with
    /\ service # "backups" => ~environment.encrypt /\ ~environment.upload
    /\ service # "recruitment" => \A v \in Vacancy : position[v].deadline = NoDeadline
    /\ service # "backfill" => \A d \in Sheet, p \in Spot : words[d][p].vi \in Translated

\* A service that does not run stays as it is.
Frame(s, vars) == service # s => UNCHANGED vars

SiteNext ==
    /\ \/ service = "news"        /\ NewsNext
       \/ service = "banners"     /\ BannersNext
       \/ service = "recruitment" /\ RecruitmentNext
       \/ service = "settings"    /\ SettingsNext
       \/ service = "media"       /\ MediaNext
       \/ service = "bulk"        /\ BulkNext
       \/ service = "backups"     /\ BackupsNext
       \/ service = "backfill"    /\ BackfillNext
    /\ UNCHANGED service
    /\ Frame("news", newsVars) /\ Frame("banners", bannersVars)
    /\ Frame("recruitment", recruitmentVars) /\ Frame("settings", settingsVars)
    /\ Frame("media", mediaVars) /\ Frame("bulk", bulkVars) /\ Frame("backups", backupVars)
    /\ Frame("backfill", backfillVars)

SiteSpec == SiteInit /\ [][SiteNext]_siteVars

\* The sets of rows are equal in this instance, and so are those of requests.
Symmetry == Permutations(Post) \cup Permutations(Patcher)

-----------------------------------------------------------------------------
\* Every variable keeps its type; foreign keys and uploaded files included.
\* (NewsCategory's onDelete: SetNull, uploadImage's unique_filename)
SiteTypeOK ==
    /\ NewsTypeOK /\ BannersTypeOK /\ RecruitmentTypeOK /\ SettingsTypeOK
    /\ MediaTypeOK /\ BulkTypeOK /\ BackupsTypeOK /\ BackfillTypeOK

\* An update that nobody overlapped changes only what it contains: the bounds of
\* a banner, the English a script adds.
\* (BannersService.update, backfillText)
PatchesKeepTheRest == [][BannerPatchKeepsRest /\ BackfillAddsOnly]_siteVars
=============================================================================
