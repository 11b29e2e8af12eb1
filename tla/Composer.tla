------------------------------ MODULE Composer ------------------------------
(***************************************************************************)
(* "Send a model" of the desktop app (crates/desktop/src/main.rs): the     *)
(* composer for a picked or dropped file and for a model of the library,   *)
(* the import task with the steps of Engine::import_local_file_with_meta,  *)
(* the share link completed when it ends, and the scan of other apps'      *)
(* folders, which imports the same files beside it.                        *)
(***************************************************************************)
EXTENDS Naturals, FiniteSets

CONSTANTS
    Files,      \* model files; a file stands for its content, too
    MaxEdits    \* bound: composers confirmed, deletions and failures

None == "none"

VARIABLES
    composer,   \* App.composer: what it is for, or NoComposer
    importing,  \* App.importing
    link,       \* App.pending_share_link: the file its fields are about, or None
    tasks,      \* import tasks
    scan,       \* the scan task
    manifest,   \* by file: the manifest in the index is "none", "auto" (titled from the file) or "user"
    blobs,      \* files in the store
    published,  \* files with a share override on
    clip,       \* the copied link: whose fields and whose content id
    edits

composerVars == <<composer, importing, link, tasks, scan, manifest, blobs, published, clip, edits>>

NoComposer == [mode |-> None, file |-> None, publish |-> FALSE]
NoScan == [st |-> "none", todo |-> {}, file |-> None]

ComposerTypeOK ==
    /\ composer = NoComposer
       \/ composer \in [mode : {"import", "edit"}, file : Files, publish : BOOLEAN]
    /\ importing \in BOOLEAN /\ link \in Files \cup {None}
    /\ tasks \subseteq [st : {"hash", "store", "publish", "done", "failed"}, file : Files,
                       publish : BOOLEAN]
    /\ scan.st \in {"none", "next", "store"} /\ scan.todo \subseteq Files
    /\ manifest \in [Files -> {"none", "auto", "user"}]
    /\ blobs \subseteq Files /\ published \subseteq Files
    /\ clip.fields \in Files \cup {None} /\ clip.id \in Files \cup {None}

Init ==
    /\ composer = NoComposer /\ importing = FALSE /\ link = None
    /\ tasks = {} /\ scan = NoScan
    /\ manifest = [f \in Files |-> "none"] /\ blobs = {} /\ published = {}
    /\ clip = [fields |-> None, id |-> None]
    /\ edits = 0

Edit == edits < MaxEdits /\ edits' = edits + 1

-----------------------------------------------------------------------------
(* Mutant: the composer opens while an import is under way. *)
ComposerIsFree == composer = NoComposer

(* Neither the picker, a dropped file nor Edit opens the composer while an
   import or another composer is there. *)
MayOpen == ~importing /\ composer = NoComposer

(* open_composer_picker, open_composer_path, a dropped file *)
OpenPath(f) ==
    /\ MayOpen
    /\ composer' = [mode |-> "import", file |-> f, publish |-> FALSE]
    /\ UNCHANGED <<importing, link, tasks, scan, manifest, blobs, published, clip, edits>>

(* open_composer_edit, of a model in the library *)
OpenEdit(f) ==
    /\ MayOpen /\ f \in blobs /\ manifest[f] # "none"
    /\ composer' = [mode |-> "edit", file |-> f, publish |-> f \in published]
    /\ UNCHANGED <<importing, link, tasks, scan, manifest, blobs, published, clip, edits>>

TogglePublish ==
    /\ composer # NoComposer
    /\ composer' = [composer EXCEPT !.publish = ~@]
    /\ UNCHANGED <<importing, link, tasks, scan, manifest, blobs, published, clip, edits>>

ComposerCancel ==
    /\ composer # NoComposer /\ composer' = NoComposer
    /\ UNCHANGED <<importing, link, tasks, scan, manifest, blobs, published, clip, edits>>

(* confirm_composer for a model of the library: Engine::rename_model, and the
   link with its known id. *)
ConfirmEdit ==
    /\ composer.mode = "edit" /\ Edit
    /\ composer' = NoComposer
    /\ LET f == composer.file IN
        IF manifest[f] = "none" THEN UNCHANGED <<manifest, published, clip>>
        ELSE /\ manifest' = [manifest EXCEPT ![f] = "user"]
             /\ published' = IF composer.publish THEN published \cup {f} ELSE published \ {f}
             /\ clip' = [fields |-> f, id |-> f]
    /\ UNCHANGED <<importing, link, tasks, scan, blobs>>

(* confirm_composer for a file *)
ConfirmImport ==
    /\ composer.mode = "import" /\ Edit
    /\ composer' = NoComposer
    /\ importing' = TRUE /\ link' = composer.file
    /\ tasks' = tasks \cup {[st |-> "hash", file |-> composer.file, publish |-> composer.publish]}
    /\ UNCHANGED <<scan, manifest, blobs, published, clip>>

-----------------------------------------------------------------------------
(* The task: the manifest is stored once the file is hashed, then the blob and
   its row, then the override. *)
Goes(t, st) == tasks' = (tasks \ {t}) \cup {[t EXCEPT !.st = st]}

StoreManifest(t) ==
    /\ t.st = "hash"
    /\ manifest' = [manifest EXCEPT ![t.file] = "user"]
    /\ Goes(t, "store")
    /\ UNCHANGED <<composer, importing, link, scan, blobs, published, clip, edits>>

StoreBlob(t) ==
    /\ t.st = "store"
    /\ blobs' = blobs \cup {t.file}
    /\ Goes(t, IF t.publish THEN "publish" ELSE "done")
    /\ UNCHANGED <<composer, importing, link, scan, manifest, published, clip, edits>>

Publish(t) ==
    /\ t.st = "publish"
    /\ published' = published \cup {t.file}
    /\ Goes(t, "done")
    /\ UNCHANGED <<composer, importing, link, scan, manifest, blobs, clip, edits>>

(* The file cannot be read, or the store cannot take it. *)
ImportFails(t) ==
    /\ t.st \in {"hash", "store"} /\ Edit
    /\ Goes(t, "failed")
    /\ UNCHANGED <<composer, importing, link, scan, manifest, blobs, published, clip>>

(* Mutant: a failed import leaves the window busy. *)
ImportedOrStuck(t) ==
    /\ t.st \in {"done", "failed"}
    /\ tasks' = tasks \ {t}
    /\ importing' = (t.st = "failed") /\ link' = None
    /\ clip' = IF t.st = "done" /\ link # None THEN [fields |-> link, id |-> t.file] ELSE clip
    /\ UNCHANGED <<composer, scan, manifest, blobs, published, edits>>

(* Msg::Imported takes the link and completes it with the ids of the import. *)
Imported(t) ==
    /\ t.st \in {"done", "failed"}
    /\ tasks' = tasks \ {t}
    /\ importing' = FALSE /\ link' = None
    /\ clip' = IF t.st = "done" /\ link # None THEN [fields |-> link, id |-> t.file] ELSE clip
    /\ UNCHANGED <<composer, scan, manifest, blobs, published, edits>>

-----------------------------------------------------------------------------
(* start_scan_import: one scan at a time, over the files it finds. *)
StartScan ==
    /\ scan = NoScan
    /\ scan' = [st |-> "next", todo |-> Files, file |-> None]
    /\ UNCHANGED <<composer, importing, link, tasks, manifest, blobs, published, clip, edits>>

(* import_local_file of the next one: the manifest titled from the file
   replaces the one there is. *)
ScanManifest(f) ==
    /\ scan.st = "next" /\ f \in scan.todo
    /\ manifest' = [manifest EXCEPT ![f] = "auto"]
    /\ scan' = [st |-> "store", todo |-> scan.todo \ {f}, file |-> f]
    /\ UNCHANGED <<composer, importing, link, tasks, blobs, published, clip, edits>>

ScanBlob ==
    /\ scan.st = "store"
    /\ blobs' = blobs \cup {scan.file}
    /\ scan' = [scan EXCEPT !.st = "next", !.file = None]
    /\ UNCHANGED <<composer, importing, link, tasks, manifest, published, clip, edits>>

(* Msg::ScanDone *)
ScanDone ==
    /\ scan.st = "next" /\ scan.todo = {}
    /\ scan' = NoScan
    /\ UNCHANGED <<composer, importing, link, tasks, manifest, blobs, published, clip, edits>>

(* A deletion meanwhile: the blob goes, the manifest and the override stay. *)
Delete(f) ==
    /\ f \in blobs /\ Edit
    /\ blobs' = blobs \ {f}
    /\ UNCHANGED <<composer, importing, link, tasks, scan, manifest, published, clip>>

-----------------------------------------------------------------------------
ImportTask == \E t \in tasks :
    StoreManifest(t) \/ StoreBlob(t) \/ Publish(t) \/ ImportFails(t) \/ Imported(t)

Scanner == (\E f \in Files : ScanManifest(f)) \/ ScanBlob \/ ScanDone

Next ==
    \/ \E f \in Files : OpenPath(f) \/ OpenEdit(f) \/ Delete(f)
    \/ TogglePublish \/ ComposerCancel \/ ConfirmEdit \/ ConfirmImport
    \/ ImportTask \/ StartScan \/ Scanner

Spec == Init /\ [][Next]_composerVars

-----------------------------------------------------------------------------
(* A copied link carries the content id of the file its title, licence and
   description were typed for, however imports and edits follow each other. *)
LinkNamesItsContent == clip.fields = clip.id

(* The import the window shows as under way is, and the link that waits is
   about its file: nothing else completes it. *)
ImportingIsExact ==
    /\ importing <=> tasks # {}
    /\ \A t \in tasks : link = t.file
=============================================================================
