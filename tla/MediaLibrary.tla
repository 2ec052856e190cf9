----------------------------- MODULE MediaLibrary ----------------------------
(***************************************************************************)
(* The library of images: rows in the database, and files in an external   *)
(* store that no transaction covers.                                       *)
(*                                                                         *)
(* An upload puts the file into the store first and then inserts the row;  *)
(* the process may die in between.  A row may also be entered by hand, for *)
(* an image that is somewhere else.  Nothing ever deletes a file: the      *)
(* purge of a row leaves it, and destroyImage() has no caller.             *)
(***************************************************************************)
CONSTANTS
    Asset,     \* rows of media_assets that can be created, and files
    Uploader,  \* uploads that can be in flight at the same time
    NoFile     \* no file, no upload

\* `file` is the file that an upload put into the store for this row; NoFile, if
\* url and publicId are what somebody wrote into a request.
AssetRow == [life : {"none", "live", "trashed", "purged"}, active : BOOLEAN,
             file : Asset \cup {NoFile}]

ASSUME MediaAssumption == NoFile \notin Asset \cup BOOLEAN

VARIABLES
    asset,      \* media_assets
    store,      \* the files in the external store
    uploading,  \* uploads whose file is in the store already
    turning     \* updates that have found the row: what they set isActive to,
                \* NoFile if they do not contain it

mediaVars == <<asset, store, uploading, turning>>

\* The file of a row that an upload inserted is there, and no other row or upload
\* has the same: an upload never overwrites.
MediaTypeOK ==
    /\ asset \in [Asset -> AssetRow]
    /\ store \subseteq Asset
    /\ uploading \in [Uploader -> Asset \cup {NoFile}]
    /\ turning \in [Asset -> SUBSET (BOOLEAN \cup {NoFile})]
    /\ \A m \in Asset : asset[m].file # NoFile =>
           /\ asset[m].file \in store
           /\ \A n \in Asset \ {m} : asset[n].file # asset[m].file
           /\ \A u \in Uploader : uploading[u] # asset[m].file

MediaInit ==
    /\ asset = [m \in Asset |-> [life |-> "none", active |-> TRUE, file |-> NoFile]]
    /\ store = {}
    /\ uploading = [u \in Uploader |-> NoFile]
    /\ turning = [m \in Asset |-> {}]

-----------------------------------------------------------------------------
\* unique_filename, overwrite: false
FreshName(file) == file \notin store

\* uploadImage()
UploadFile(u, file) ==
    /\ uploading[u] = NoFile
    /\ FreshName(file)
    /\ store' = store \cup {file}
    /\ uploading' = [uploading EXCEPT ![u] = file]
    /\ UNCHANGED <<asset, turning>>

InsertAsset(m, file, active) ==
    /\ asset[m].life = "none"
    /\ asset' = [asset EXCEPT ![m] = [life |-> "live", active |-> active, file |-> file]]
    /\ UNCHANGED <<store, turning>>

RecordUpload(u, m) ==
    /\ uploading[u] # NoFile
    /\ InsertAsset(m, uploading[u], TRUE)
    /\ uploading' = [uploading EXCEPT ![u] = NoFile]

\* The insert fails, or the process dies: the file stays.
LoseUpload(u) ==
    /\ uploading[u] # NoFile
    /\ uploading' = [uploading EXCEPT ![u] = NoFile]
    /\ UNCHANGED <<asset, store, turning>>

\* create(): a url, and perhaps a publicId, that somebody sends
EnterAsset(m, active) ==
    /\ InsertAsset(m, NoFile, active)
    /\ UNCHANGED uploading

\* update() and remove() find the row, and write it by id.
FindAsset(m, active) ==
    /\ asset[m].life = "live"
    /\ turning' = [turning EXCEPT ![m] = @ \cup {active}]
    /\ UNCHANGED <<asset, store, uploading>>

UpdateAsset(m, active, renamed) ==
    /\ active \in turning[m]
    /\ asset[m].life \in {"live", "trashed"}
    /\ asset' = [asset EXCEPT ![m].active = IF active = NoFile THEN @ ELSE active,
                               ![m].file = IF renamed THEN NoFile ELSE @]
    /\ turning' = [turning EXCEPT ![m] = @ \ {active}]
    /\ UNCHANGED <<store, uploading>>

\* Trash and restore; inactive either way
BinAsset(m, life) ==
    /\ asset[m].life = (IF life = "live" THEN "trashed" ELSE "live")
    /\ asset' = [asset EXCEPT ![m].life = life, ![m].active = FALSE]
    /\ UNCHANGED <<store, uploading, turning>>

PurgeAsset(m) ==
    /\ asset[m].life \in {"live", "trashed"}
    /\ asset' = [asset EXCEPT ![m].life = "purged", ![m].file = NoFile]
    /\ UNCHANGED <<store, uploading, turning>>

AssetStep(m) ==
    \/ \E active \in BOOLEAN : EnterAsset(m, active)
    \/ \E active \in BOOLEAN \cup {NoFile} :
         FindAsset(m, active) \/ \E renamed \in BOOLEAN : UpdateAsset(m, active, renamed)
    \/ \E life \in {"live", "trashed"} : BinAsset(m, life)
    \/ PurgeAsset(m)

MediaNext ==
    \/ \E u \in Uploader :
         \/ \E m \in Asset : UploadFile(u, m) \/ RecordUpload(u, m)
         \/ LoseUpload(u)
    \/ \E m \in Asset : AssetStep(m)

MediaSpec == MediaInit /\ [][MediaNext]_mediaVars
=============================================================================
