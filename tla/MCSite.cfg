SPECIFICATION SiteSpec
CONSTANTS
    Missing = Missing
    Post = {r1, r2}
    Category = {c1}
    Reader = {p1}
    Clerk = {p1}
    Unbounded = Unbounded
    Absent = Absent
    Slide = {c1}
    Patcher = {q1, q2}
    Instants = {1, 2}
    NoDeadline = NoDeadline
    Unsent = Unsent
    Vacancy = {c1}
    Recruiter = {q1, q2}
    Applicant = {p1}
    Letter = {c1}
    Deadlines = {NoDeadline, 0}
    LastDay = 1
    NoText = NoText
    NotSent = NotSent
    Designer = {q1, q2}
    Texts = {t1}
    NoFile = NoFile
    Asset = {r1, r2}
    Uploader = {q1, q2}
    NoBatch = NoBatch
    Record = {c1, c2, c3}
    Batcher = {p1}
    KEEP_MIN = 2
    KEEP_DAYS = 1
    BackupRuns = 3
    BackupDays = 3
    Nothing = Nothing
    Script = {p1}
    Sheet = {r1, r2}
    Spot = {c1, c2}
    Wording = {t1, t2}
    Translated = {t1}
SYMMETRY Symmetry
CHECK_DEADLOCK FALSE
INVARIANTS
    SiteTypeOK
    AnswersHold
    BinnedCategoryClosed
    EveryBannerShowable
    BulkDeletionTrue
    AWholeBackupSurvives
PROPERTIES
    PatchesKeepTheRest
    EditorsSpareOpenings
    ApplicationsWereOpen
