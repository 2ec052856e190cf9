------------------------------ MODULE NewsLists ------------------------------
(***************************************************************************)
(* What visitors are shown of the news: the pages of a category, the       *)
(* categories with their counts, and the search; and the categories, as    *)
(* staff edit, hide, trash and purge them.                                 *)
(*                                                                         *)
(* Each of the three answers is put together from two statements or more,  *)
(* and posts and categories change in between: a transaction that is READ  *)
(* COMMITTED sees a new snapshot with every statement.  Whether a post is  *)
(* public is the subject of Publication: here it changes at any time.      *)
(***************************************************************************)
EXTENDS FiniteSets, Naturals

CONSTANTS
    Post,      \* rows of news_posts that can be created
    Category,  \* rows of news_categories that can be created
    Reader,    \* answers that can be under way at the same time
    Clerk,     \* updates of a category that can be under way
    Missing    \* no category, no answer under way, no update under way

PostRow == [life : {"none", "live", "trashed", "purged"}, public : BOOLEAN,
            category : Category \cup {Missing}]

CategoryRow == [life : {"none", "live", "trashed", "purged"}, active : BOOLEAN]

\* The result of a query that has not run yet.
Unasked == {Missing}

\* An answer under way.  The two queries of each kind: "page" counts, then lists
\* the posts; "counts" counts all and the public posts of the category, in any
\* order; "search" finds and loads.  `changed` is history: the posts that were
\* written, or whose category was, since the first query.
Answer == [kind : {"page", "counts", "search"}, of : Category \cup {Missing},
           first : (SUBSET Post) \cup {Unasked}, second : (SUBSET Post) \cup {Unasked},
           changed : SUBSET Post]

\* A PATCH of a category that has found it.  `late` is history: the trash came.
Edit == [category : Category, active : BOOLEAN, late : BOOLEAN]

ASSUME NewsAssumption ==
    /\ Missing \notin Category
    /\ Missing \notin Post
    /\ Missing \notin Answer
    /\ Missing \notin Edit
    /\ IsFiniteSet(Post)

VARIABLES
    post,
    category,
    answer,     \* answers under way
    edit,       \* updates of categories under way
    reopened    \* history: categories that a late update wrote

newsVars == <<post, category, answer, edit, reopened>>

NewsTypeOK ==
    /\ post \in [Post -> PostRow]
    /\ category \in [Category -> CategoryRow]
    /\ answer \in [Reader -> Answer \cup {Missing}]
    /\ edit \in [Clerk -> Edit \cup {Missing}]
    /\ reopened \subseteq Category
    \* foreign key
    /\ \A p \in Post : post[p].life \in {"live", "trashed"} /\ post[p].category # Missing =>
           category[post[p].category].life \in {"live", "trashed"}

NewsInit ==
    /\ post = [p \in Post |-> [life |-> "none", public |-> FALSE, category |-> Missing]]
    /\ category = [c \in Category |-> [life |-> "none", active |-> TRUE]]
    /\ answer = [r \in Reader |-> Missing]
    /\ edit = [k \in Clerk |-> Missing]
    /\ reopened = {}

-----------------------------------------------------------------------------
(* Queries                                                                 *)

There(row) == row.life \in {"live", "trashed"}
Public(p)  == post[p].life = "live" /\ post[p].public

\* A mistaken search that leaves visibility to the second query.
NotTrashed == {p \in Post : post[p].life = "live"}

\* SELECT id ... WHERE deleted_at IS NULL AND newsPubliclyVisibleSql(now)
Found == {p \in Post : Public(p)}

\* The WHERE of findAllPaginated(): it looks at the category's isActive only.
Listed(c) == {p \in Post : /\ Public(p)
                           /\ c # Missing => post[p].category = c /\ category[c].active}

\* groupBy categoryId
Filed(c) == {p \in Post : post[p].life = "live" /\ post[p].category = c}

Ask(r, kind, c, first, second) ==
    /\ answer[r] = Missing
    /\ answer' = [answer EXCEPT ![r] = [kind |-> kind, of |-> c, first |-> first,
                                        second |-> second, changed |-> {}]]
    /\ UNCHANGED <<post, category, edit, reopened>>

Then(r, first, second) ==
    /\ answer' = [answer EXCEPT ![r].first = first, ![r].second = second]
    /\ UNCHANGED <<post, category, edit, reopened>>

CountPage(r, c) ==
    /\ c # Missing => category[c].life # "none"
    /\ Ask(r, "page", c, Listed(c), Unasked)

\* countPostsByCategory(): both queries run at once, either may be first.
CountCategory(r, c) ==
    /\ category[c].life = "live"
    /\ \/ Ask(r, "counts", c, Filed(c), Unasked)
       \/ Ask(r, "counts", c, Unasked, Filed(c) \cap Found)

FindPosts(r) == Ask(r, "search", Missing, Found, Unasked)

\* The posts whose id the search found, as they are now.
LoadPosts(ids) == {p \in ids : post[p].life = "live"}

SecondQuery(r) ==
    LET a == answer[r]
    IN  /\ a # Missing
        /\ \/ a.kind = "page" /\ a.second = Unasked /\ Then(r, a.first, Listed(a.of))
           \/ a.kind = "search" /\ a.second = Unasked /\ Then(r, a.first, LoadPosts(a.first))
           \/ a.kind = "counts" /\ a.second = Unasked /\ Then(r, a.first, Filed(a.of) \cap Found)
           \/ a.kind = "counts" /\ a.first = Unasked /\ Then(r, Filed(a.of), a.second)

Reply(r) ==
    /\ answer[r] # Missing
    /\ answer' = [answer EXCEPT ![r] = Missing]
    /\ UNCHANGED <<post, category, edit, reopened>>

-----------------------------------------------------------------------------
(* Posts                                                                   *)

\* The answers under way, once `touched` has been written
Since(touched) == [r \in Reader |-> IF answer[r] = Missing THEN Missing
                                    ELSE [answer[r] EXCEPT !.changed = @ \cup touched]]

\* The posts become `rows`.
WritePosts(touched, rows) ==
    /\ post' = rows
    /\ answer' = Since(touched)

\* A new post is a draft; the category in the body must exist.
NewPost(p, c) ==
    /\ post[p].life = "none"
    /\ c # Missing => There(category[c])
    /\ WritePosts({p}, [post EXCEPT ![p].life = "live", ![p].category = c])
    /\ UNCHANGED <<category, edit, reopened>>

MovePost(p, c) ==
    /\ There(post[p])
    /\ c # Missing => There(category[c])
    /\ WritePosts({p}, [post EXCEPT ![p].category = c])
    /\ UNCHANGED <<category, edit, reopened>>

PublishPost(p, public) ==
    /\ post[p].life = "live" /\ post[p].public # public
    /\ WritePosts({p}, [post EXCEPT ![p].public = public])
    /\ UNCHANGED <<category, edit, reopened>>

\* The trash takes a post off the site, and it comes back as a draft.
BinPost(p, life) ==
    /\ post[p].life = (IF life = "live" THEN "trashed" ELSE "live")
    /\ WritePosts({p}, [post EXCEPT ![p].life = life, ![p].public = FALSE])
    /\ UNCHANGED <<category, edit, reopened>>

PurgePost(p) ==
    /\ There(post[p])
    /\ WritePosts({p}, [post EXCEPT ![p].life = "purged"])
    /\ UNCHANGED <<category, edit, reopened>>

-----------------------------------------------------------------------------
(* Categories                                                              *)

\* A mistaken purge that leaves the posts of the category as they are.
NoPosts(c) == {}

\* What ON DELETE SET NULL writes to
FiledUnder(c) == {p \in Post : post[p].category = c}

NewCategory(c, active) ==
    /\ category[c].life = "none"
    /\ category' = [category EXCEPT ![c] = [life |-> "live", active |-> active]]
    /\ UNCHANGED <<post, answer, edit, reopened>>

\* updateCategory() and removeCategory(), which is an update to inactive: whether
\* the category still has posts is not asked.  An update without isActive changes
\* no column that is modelled.
FindCategory(k, c, active) ==
    /\ edit[k] = Missing
    /\ category[c].life = "live"
    /\ edit' = [edit EXCEPT ![k] = [category |-> c, active |-> active, late |-> FALSE]]
    /\ UNCHANGED <<post, category, answer, reopened>>

UpdateCategory(k) ==
    LET e == edit[k]
    IN  /\ e # Missing
        /\ There(category[e.category])
        /\ category' = [category EXCEPT ![e.category].active = e.active]
        /\ edit' = [edit EXCEPT ![k] = Missing]
        /\ reopened' = IF e.late THEN reopened \cup {e.category} ELSE reopened
        /\ answer' = Since(FiledUnder(e.category))
        /\ UNCHANGED post

DropEdit(k) ==
    /\ edit[k] # Missing
    /\ edit' = [edit EXCEPT ![k] = Missing]
    /\ UNCHANGED <<post, category, answer, reopened>>

\* A mistaken trash that leaves isActive as it is.
KeepActive(active) == active

\* What the trash sets isActive to, on the way in and on the way out.
ActiveInTrash(active) == FALSE

BinCategory(c, life) ==
    /\ category[c].life = (IF life = "live" THEN "trashed" ELSE "live")
    /\ category' = [category EXCEPT ![c].life = life, ![c].active = ActiveInTrash(@)]
    /\ edit' = [k \in Clerk |-> IF edit[k] # Missing /\ edit[k].category = c
                                THEN [edit[k] EXCEPT !.late = TRUE] ELSE edit[k]]
    /\ reopened' = reopened \ {c}
    /\ answer' = Since(FiledUnder(c))
    /\ UNCHANGED post

PurgeCategory(c) ==
    /\ There(category[c])
    /\ category' = [category EXCEPT ![c].life = "purged"]
    /\ WritePosts(FiledUnder(c), [p \in Post |-> IF p \in FiledUnder(c)
                                                 THEN [post[p] EXCEPT !.category = Missing]
                                                 ELSE post[p]])
    /\ UNCHANGED <<edit, reopened>>

-----------------------------------------------------------------------------
ReaderStep(r) ==
    \/ \E c \in Category \cup {Missing} : CountPage(r, c)
    \/ \E c \in Category : CountCategory(r, c)
    \/ FindPosts(r) \/ SecondQuery(r) \/ Reply(r)

PostStep(p) ==
    \/ \E c \in Category \cup {Missing} : NewPost(p, c) \/ MovePost(p, c)
    \/ \E public \in BOOLEAN : PublishPost(p, public)
    \/ \E life \in {"live", "trashed"} : BinPost(p, life)
    \/ PurgePost(p)

CategoryStep(c) ==
    \/ \E active \in BOOLEAN : NewCategory(c, active) \/ \E k \in Clerk : FindCategory(k, c, active)
    \/ \E life \in {"live", "trashed"} : BinCategory(c, life)
    \/ PurgeCategory(c)

NewsNext ==
    \/ \E r \in Reader : ReaderStep(r)
    \/ \E p \in Post : PostStep(p)
    \/ \E c \in Category : CategoryStep(c)
    \/ \E k \in Clerk : UpdateCategory(k) \/ DropEdit(k)

NewsSpec == NewsInit /\ [][NewsNext]_newsVars

-----------------------------------------------------------------------------
(* Safety                                                                  *)

Answered(a) == a # Missing /\ a.first # Unasked /\ a.second # Unasked

\* An answer is wrong about posts only that were written since its first query:
\* of the others, a page counts those it lists, the search returns public ones,
\* although its second query does not look at visibility, and the public count of
\* a category counts posts that the total counts too, whichever was taken first.
\* (findAllPaginated, searchNews, countPostsByCategory)
AnswersHold ==
    \A r \in Reader : Answered(answer[r]) =>
        LET a == answer[r]
        IN  /\ a.kind = "page" => a.first \ a.changed = a.second \ a.changed
            /\ a.kind = "search" => \A p \in a.second \ a.changed : Public(p)
            /\ a.kind = "counts" => a.second \ a.changed \subseteq a.first

\* The page of a category in the trash is empty, although its posts are still
\* filed under it and the query does not look at deletedAt: the trash closes it,
\* and only an update that had found it before can open it again.
\* (findAllPaginated, trash and restore of a category)
BinnedCategoryClosed ==
    \A c \in Category \ reopened : category[c].life = "trashed" => Listed(c) = {}
=============================================================================
