----------------------------- MODULE ProjectTree -----------------------------
(***************************************************************************)
(* The items and the gallery of one project: who may change them, what     *)
(* visitors see of them, and what the trash does to parents and children.  *)
(*                                                                         *)
(* Children have no status of their own: they are public because the       *)
(* project is, so an EDITOR may change them only while he may change the   *)
(* project.  A command reads project and child, checks, and writes the     *)
(* child by id.  The publication of the project is the subject of          *)
(* Publication: here its stage changes at any time.                        *)
(***************************************************************************)
EXTENDS Naturals

CONSTANTS
    Part,     \* rows of project_items that can be created
    Image,    \* rows of project_gallery that can be created
    Hand,     \* commands that can be in flight at the same time
    Nil       \* no command, no item, no image

Life == {"none", "live", "trashed", "purged"}

\* "open": an EDITOR may change it (a draft never published, or waiting without
\* a date); "public": visitors see it; "sealed": neither.
Project == [life : {"live", "trashed", "purged"}, stage : {"open", "sealed", "public"}]

\* `text` stands for the columns visitors read: every edit changes it.
PartRow  == [life : Life, shown : BOOLEAN, text : {0, 1}]
ImageRow == [life : Life, shown : BOOLEAN, text : {0, 1}, part : Part \cup {Nil}]

Commands == {"addPart", "editPart", "hidePart", "addImage", "editImage", "hideImage",
             "sortImages"}

\* `gallery`: the images that are put in a new order.  `shown` and `to`: isActive
\* (Nil: not sent) and the item in the body, the latter if it `moves` the image.
\* `overtaken` is history: the project changed its stage since.
Command == [op : Commands, senior : BOOLEAN, part : Part \cup {Nil},
            image : Image \cup {Nil}, gallery : SUBSET Image, shown : BOOLEAN \cup {Nil},
            to : Part \cup {Nil}, moves : BOOLEAN, overtaken : BOOLEAN]

ASSUME TreeAssumption ==
    /\ Nil \notin Part
    /\ Nil \notin Image
    /\ Nil \notin BOOLEAN
    /\ Nil \notin Command

VARIABLES
    project,
    part,       \* project_items
    image,      \* project_gallery
    command

treeVars == <<project, part, image, command>>

TreeTypeOK ==
    /\ project \in Project
    /\ part \in [Part -> PartRow]
    /\ image \in [Image -> ImageRow]
    /\ command \in [Hand -> Command \cup {Nil}]
    \* foreign keys
    /\ \A g \in Image : image[g].life \in {"live", "trashed"} /\ image[g].part # Nil =>
           part[image[g].part].life \in {"live", "trashed"}

TreeInit ==
    /\ project = [life |-> "live", stage |-> "open"]
    /\ part = [i \in Part |-> [life |-> "none", shown |-> TRUE, text |-> 0]]
    /\ image = [g \in Image |-> [life |-> "none", shown |-> TRUE, text |-> 0, part |-> Nil]]
    /\ command = [q \in Hand |-> Nil]

-----------------------------------------------------------------------------
(* What is there, and who sees it                                          *)

Kept(row) == row.life \in {"live", "trashed"}

\* The images without an item, or whose item is not in the trash.
InGallery(g) == image[g].part # Nil => part[image[g].part].life = "live"

OnSite == project.life = "live" /\ project.stage = "public"

\* What findBySlug(slug, true) and findGallery(slug, true) return.
PublicParts  == {i \in Part : part[i].life = "live" /\ part[i].shown}
PublicImages == {g \in Image : image[g].life = "live" /\ image[g].shown /\ InGallery(g)}

\* A mistaken rule that looks at the project only, not at who asks.
ProjectIsLive(senior) == project.life = "live"

\* assertChildEditAllowed()
MayEditChildren(senior) == senior \/ project.stage = "open"

-----------------------------------------------------------------------------
(* Commands: read and check                                                *)

Working(q, op) == command[q] # Nil /\ command[q].op = op

Bare(op, senior) == [op |-> op, senior |-> senior, part |-> Nil, image |-> Nil,
                     gallery |-> {}, shown |-> TRUE, to |-> Nil, moves |-> FALSE,
                     overtaken |-> FALSE]

Check(q, c) ==
    /\ command[q] = Nil
    /\ project.life = "live"
    /\ MayEditChildren(c.senior)
    /\ c.to # Nil => part[c.to].life = "live"
    /\ command' = [command EXCEPT ![q] = c]
    /\ UNCHANGED <<project, part, image>>

CheckNewPart(q, senior, shown) ==
    Check(q, [Bare("addPart", senior) EXCEPT !.shown = shown])

CheckPart(q, senior, i, shown) ==
    /\ part[i].life = "live"
    /\ \/ Check(q, [Bare("editPart", senior) EXCEPT !.part = i, !.shown = shown])
       \/ senior /\ Check(q, [Bare("hidePart", senior) EXCEPT !.part = i])

\* Whatever isActive the body has, addGalleryImage() does not use it.
CheckNewImage(q, senior, to) ==
    Check(q, [Bare("addImage", senior) EXCEPT !.to = to])

CheckImage(q, senior, g, to) ==
    /\ image[g].life = "live"
    /\ \/ Check(q, [Bare("editImage", senior) EXCEPT !.image = g, !.moves = TRUE, !.to = to])
       \/ to = Nil /\ \E op \in {"editImage", "hideImage"} :
              Check(q, [Bare(op, senior) EXCEPT !.image = g])

\* The list has as many ids as there are images, but may repeat some and leave
\* out others.
CheckSort(q, senior, gallery) ==
    /\ gallery # {}
    /\ \A g \in gallery : image[g].life = "live"
    /\ Check(q, [Bare("sortImages", senior) EXCEPT !.gallery = gallery])

-----------------------------------------------------------------------------
(* Commands: write by id                                                   *)

Complete(q) == command' = [command EXCEPT ![q] = Nil]

WritePart(q, i, row) ==
    /\ part' = [part EXCEPT ![i] = row]
    /\ Complete(q)
    /\ UNCHANGED <<project, image>>

WriteImage(q, g, row) ==
    /\ image' = [image EXCEPT ![g] = row]
    /\ Complete(q)
    /\ UNCHANGED <<project, part>>

AddPart(q, i) ==
    /\ Working(q, "addPart")
    /\ Kept(project) /\ part[i].life = "none"
    /\ WritePart(q, i, [part[i] EXCEPT !.life = "live", !.shown = command[q].shown])

EditPart(q) ==
    LET c == command[q]
    IN  /\ Working(q, "editPart")
        /\ Kept(part[c.part])
        /\ WritePart(q, c.part, [part[c.part] EXCEPT !.shown = IF c.shown = Nil THEN @ ELSE c.shown,
                                                !.text = 1 - @])

HidePart(q) ==
    /\ Working(q, "hidePart")
    /\ Kept(part[command[q].part])
    /\ WritePart(q, command[q].part, [part[command[q].part] EXCEPT !.shown = FALSE])

\* A mistaken schema without foreign keys.
AnyReference(to) == TRUE

\* The item must still be there.
Refers(to) == to # Nil => Kept(part[to])

AddImage(q, g) ==
    LET c == command[q]
    IN  /\ Working(q, "addImage")
        /\ Kept(project) /\ image[g].life = "none" /\ Refers(c.to)
        /\ WriteImage(q, g, [image[g] EXCEPT !.life = "live", !.part = c.to])

\* updateGalleryImage(): isActive in the body is not used here either.
EditImage(q) ==
    LET c == command[q]
    IN  /\ Working(q, "editImage")
        /\ Kept(image[c.image]) /\ Refers(c.to)
        /\ WriteImage(q, c.image, [image[c.image] EXCEPT
                                     !.part = IF c.moves THEN c.to ELSE @,
                                     !.text = 1 - @])

HideImage(q) ==
    /\ Working(q, "hideImage")
    /\ Kept(image[command[q].image])
    /\ WriteImage(q, command[q].image, [image[command[q].image] EXCEPT !.shown = FALSE])

\* One transaction: an image that was purged undoes it.
SortImages(q) ==
    LET gallery == command[q].gallery
    IN  /\ Working(q, "sortImages")
        /\ \A g \in gallery : Kept(image[g])
        /\ image' = [g \in Image |-> IF g \in gallery THEN [image[g] EXCEPT !.text = 1 - @]
                                     ELSE image[g]]
        /\ Complete(q)
        /\ UNCHANGED <<project, part>>

Leave(q) ==
    /\ command[q] # Nil
    /\ Complete(q)
    /\ UNCHANGED <<project, part, image>>

-----------------------------------------------------------------------------
(* The project, and the trash                                              *)

SetStage(stage) ==
    /\ project.life = "live" /\ stage # project.stage
    /\ project' = [project EXCEPT !.stage = stage]
    /\ command' = [q \in Hand |-> IF command[q] = Nil THEN Nil
                                  ELSE [command[q] EXCEPT !.overtaken = TRUE]]
    /\ UNCHANGED <<part, image>>

\* A project that was public is sealed in the trash, and comes back as a draft.
TrashProject ==
    /\ project.life = "live"
    /\ project' = [project EXCEPT !.life = "trashed",
                                  !.stage = IF @ = "public" THEN "sealed" ELSE @]
    /\ command' = [q \in Hand |-> IF command[q] = Nil THEN Nil
                                  ELSE [command[q] EXCEPT !.overtaken = TRUE]]
    /\ UNCHANGED <<part, image>>

RestoreProject ==
    /\ project.life = "trashed"
    /\ project' = [project EXCEPT !.life = "live"]
    /\ UNCHANGED <<part, image, command>>

\* ON DELETE CASCADE
PurgeProject ==
    /\ Kept(project)
    /\ project' = [project EXCEPT !.life = "purged"]
    /\ part' = [i \in Part |-> IF Kept(part[i]) THEN [part[i] EXCEPT !.life = "purged"]
                               ELSE part[i]]
    /\ image' = [g \in Image |-> IF Kept(image[g]) THEN [image[g] EXCEPT !.life = "purged"]
                                 ELSE image[g]]
    /\ UNCHANGED command

TrashPart(i) ==
    /\ part[i].life = "live"
    /\ part' = [part EXCEPT ![i].life = "trashed"]
    /\ UNCHANGED <<project, image, command>>

RestorePart(i) ==
    /\ part[i].life = "trashed" /\ project.life = "live"
    /\ part' = [part EXCEPT ![i].life = "live"]
    /\ UNCHANGED <<project, image, command>>

\* ON DELETE SET NULL: its images become images of the project.
PurgePart(i) ==
    /\ Kept(part[i])
    /\ part' = [part EXCEPT ![i].life = "purged"]
    /\ image' = [g \in Image |-> IF image[g].part = i THEN [image[g] EXCEPT !.part = Nil]
                                 ELSE image[g]]
    /\ UNCHANGED <<project, command>>

TrashImage(g) ==
    /\ image[g].life = "live"
    /\ image' = [image EXCEPT ![g].life = "trashed"]
    /\ UNCHANGED <<project, part, command>>

\* Not before the project and the item are back.
RestoreImage(g) ==
    /\ image[g].life = "trashed" /\ project.life = "live" /\ InGallery(g)
    /\ image' = [image EXCEPT ![g].life = "live"]
    /\ UNCHANGED <<project, part, command>>

PurgeImage(g) ==
    /\ Kept(image[g])
    /\ image' = [image EXCEPT ![g].life = "purged"]
    /\ UNCHANGED <<project, part, command>>

-----------------------------------------------------------------------------
PartStep(i) == TrashPart(i) \/ RestorePart(i) \/ PurgePart(i)

ImageStep(g) == TrashImage(g) \/ RestoreImage(g) \/ PurgeImage(g)

ProjectStep ==
    \/ \E stage \in {"open", "sealed", "public"} : SetStage(stage)
    \/ TrashProject \/ RestoreProject \/ PurgeProject

CommandStep(q) ==
    \/ \E senior, shown \in BOOLEAN : CheckNewPart(q, senior, shown)
    \/ \E senior \in BOOLEAN, shown \in BOOLEAN \cup {Nil}, i \in Part :
         CheckPart(q, senior, i, shown)
    \/ \E senior \in BOOLEAN, to \in Part \cup {Nil} :
         CheckNewImage(q, senior, to) \/ \E g \in Image : CheckImage(q, senior, g, to)
    \/ \E senior \in BOOLEAN, gallery \in SUBSET Image : CheckSort(q, senior, gallery)
    \/ \E i \in Part : AddPart(q, i)
    \/ \E g \in Image : AddImage(q, g)
    \/ EditPart(q) \/ HidePart(q) \/ EditImage(q) \/ HideImage(q) \/ SortImages(q) \/ Leave(q)

TreeNext ==
    \/ ProjectStep
    \/ \E i \in Part : PartStep(i)
    \/ \E g \in Image : ImageStep(g)
    \/ \E q \in Hand : CommandStep(q)

TreeSpec == TreeInit /\ [][TreeNext]_treeVars

-----------------------------------------------------------------------------
(* Safety                                                                  *)

PublicView == [parts  |-> {<<i, part[i].text>> : i \in PublicParts},
               images |-> {<<g, image[g].text>> : g \in PublicImages}]

\* A command of somebody who may change the project, or that was overtaken.
Entitled == \E q \in Hand : /\ command[q] # Nil /\ command'[q] = Nil
                            /\ command[q].senior \/ command[q].overtaken

\* An item or an image leaves or enters the trash, or is purged.
ByTrash == \/ \E i \in Part : part'[i].life # part[i].life /\ part[i].life # "none"
           \/ \E g \in Image : image'[g].life # image[g].life /\ image[g].life # "none"

\* What visitors see of a public project is changed by administrators and the
\* trash only, never by an EDITOR, unless the project became public after his
\* command had been checked.  (assertChildEditAllowed in every child command)
EditorsSparePublic ==
    [][OnSite /\ OnSite' /\ PublicView' # PublicView => Entitled \/ ByTrash]_treeVars

=============================================================================
