---------------------------- MODULE PagesProofs -----------------------------
(***************************************************************************)
(* Machine-checked proofs about the pages of the desktop app and the       *)
(* commands of Studio, one part after the other, for any files, settings,  *)
(* trackers, failures and restarts.                                        *)
(***************************************************************************)
EXTENDS MCPages, SequenceTheorems, FiniteSetTheorems, TLAPS

-----------------------------------------------------------------------------
(* Send a model: the composer, its import and the scan (Composer) *)

ImportTasks == [st : {"hash", "store", "publish", "done", "failed"}, file : Picked,
                publish : BOOLEAN]

ComposerShape ==
    /\ composer = Compose!NoComposer
       \/ composer \in [mode : {"import", "edit"}, file : Picked, publish : BOOLEAN]
    /\ importing \in BOOLEAN /\ link \in Picked \cup {Compose!None}
    /\ tasks \subseteq ImportTasks
    /\ scan \in [st : {"none", "next", "store"}, todo : SUBSET Picked, file : Picked \cup {Compose!None}]
    /\ scan.st = "store" => scan.file \in Picked
    /\ manifest \in [Picked -> {"none", "auto", "user"}]
    /\ blobs \subseteq Picked /\ published \subseteq Picked
    /\ clip \in [fields : Picked \cup {Compose!None}, id : Picked \cup {Compose!None}]

(* One import at a time: the composer that would start another is not open
   while one runs. *)
OneImport ==
    /\ \A t, o \in tasks : t = o
    /\ composer # Compose!NoComposer => tasks = {}

ComposerInv ==
    ComposerShape /\ OneImport /\ Compose!LinkNamesItsContent /\ Compose!ImportingIsExact

LEMMA ComposerInit == Compose!Init => ComposerInv
  <1> SUFFICES ASSUME Compose!Init PROVE ComposerInv
    OBVIOUS
  <1>1. ComposerShape
    <2>1. clip \in [fields : Picked \cup {Compose!None}, id : Picked \cup {Compose!None}]
      BY DEF Compose!Init
    <2>2. scan \in [st : {"none", "next", "store"}, todo : SUBSET Picked, file : Picked \cup {Compose!None}]
          /\ scan.st = "none"
      BY DEF Compose!Init, Compose!NoScan
    <2> QED
      BY <2>1, <2>2 DEF Compose!Init, ComposerShape
  <1>2. OneImport /\ Compose!LinkNamesItsContent /\ Compose!ImportingIsExact
    BY DEF Compose!Init, OneImport, Compose!LinkNamesItsContent, Compose!ImportingIsExact
  <1> QED
    BY <1>1, <1>2 DEF ComposerInv

(* A task that goes on is still the only one. *)
LEMMA ImportGoes ==
    ASSUME ComposerInv, NEW t \in tasks, NEW to \in {"hash", "store", "publish", "done", "failed"},
           Compose!Goes(t, to)
    PROVE  /\ tasks' \subseteq ImportTasks /\ tasks' # {}
           /\ \A x, o \in tasks' : x = o
           /\ \A x \in tasks' : x.file = t.file
  <1>1. tasks = {t} /\ t \in ImportTasks
    BY DEF ComposerInv, ComposerShape, OneImport
  <1>2. PICK u : u = [t EXCEPT !.st = to]
    OBVIOUS
  <1>3. u \in ImportTasks /\ u.file = t.file
    BY <1>1, <1>2 DEF ImportTasks
  <1>4. tasks' = {u}
    BY <1>1, <1>2 DEF Compose!Goes
  <1> QED
    BY <1>3, <1>4

LEMMA ComposerStep ==
    ASSUME ComposerInv, Compose!Next
    PROVE  ComposerInv'
  <1> USE DEF ComposerInv, OneImport, Compose!LinkNamesItsContent, Compose!ImportingIsExact
  <1>1. ASSUME NEW f \in Picked, Compose!OpenPath(f)
        PROVE  ComposerInv'
    <2>1. composer' \in [mode : {"import", "edit"}, file : Picked, publish : BOOLEAN]
      BY <1>1 DEF Compose!OpenPath
    <2> QED
      BY <1>1, <2>1 DEF Compose!OpenPath, Compose!MayOpen, ComposerShape
  <1>2. ASSUME NEW f \in Picked, Compose!OpenEdit(f)
        PROVE  ComposerInv'
    <2>1. composer' \in [mode : {"import", "edit"}, file : Picked, publish : BOOLEAN]
      BY <1>2 DEF Compose!OpenEdit
    <2> QED
      BY <1>2, <2>1 DEF Compose!OpenEdit, Compose!MayOpen, ComposerShape
  <1>3. ASSUME NEW f \in Picked, Compose!Delete(f)
        PROVE  ComposerInv'
    BY <1>3 DEF Compose!Delete, ComposerShape
  <1>4. CASE Compose!TogglePublish
    <2>1. composer' \in [mode : {"import", "edit"}, file : Picked, publish : BOOLEAN]
      BY <1>4 DEF Compose!TogglePublish, ComposerShape
    <2> QED
      BY <1>4, <2>1 DEF Compose!TogglePublish, ComposerShape
  <1>5. CASE Compose!ComposerCancel
    BY <1>5 DEF Compose!ComposerCancel, ComposerShape
  <1>6. CASE Compose!ConfirmEdit
    <2>1. composer.file \in Picked
      BY <1>6 DEF Compose!ConfirmEdit, ComposerShape, Compose!NoComposer, Compose!None
    <2>2. manifest' \in [Picked -> {"none", "auto", "user"}] /\ published' \subseteq Picked
      BY <1>6, <2>1 DEF Compose!ConfirmEdit, ComposerShape
    <2>3. clip' \in [fields : Picked \cup {Compose!None}, id : Picked \cup {Compose!None}]
          /\ clip'.fields = clip'.id
      <3>1. CASE clip' = clip
        BY <3>1 DEF ComposerShape
      <3>2. CASE clip' = [fields |-> composer.file, id |-> composer.file]
        BY <3>2, <2>1
      <3> QED
        BY <3>1, <3>2, <1>6 DEF Compose!ConfirmEdit
    <2> QED
      BY <1>6, <2>2, <2>3 DEF Compose!ConfirmEdit, ComposerShape
  <1>7. CASE Compose!ConfirmImport
    <2>1. composer.file \in Picked /\ composer.publish \in BOOLEAN /\ tasks = {}
      BY <1>7 DEF Compose!ConfirmImport, ComposerShape, Compose!NoComposer, Compose!None
    <2>2. PICK u : u = [st |-> "hash", file |-> composer.file, publish |-> composer.publish]
      OBVIOUS
    <2>3. u \in ImportTasks /\ u.file = composer.file /\ tasks' = {u}
      BY <1>7, <2>1, <2>2 DEF Compose!ConfirmImport, ImportTasks
    <2> QED
      BY <1>7, <2>1, <2>3 DEF Compose!ConfirmImport, ComposerShape
  <1>8. ASSUME NEW t \in tasks,
               \/ Compose!StoreManifest(t) \/ Compose!StoreBlob(t) \/ Compose!Publish(t)
               \/ Compose!ImportFails(t)
        PROVE  ComposerInv'
    <2>1. t \in ImportTasks /\ t.file \in Picked /\ link = t.file /\ composer = Compose!NoComposer
          /\ importing
      BY DEF ComposerShape, ImportTasks
    <2>2. \E to \in {"hash", "store", "publish", "done", "failed"} : Compose!Goes(t, to)
      BY <1>8 DEF Compose!StoreManifest, Compose!StoreBlob, Compose!Publish, Compose!ImportFails
    <2>3. /\ tasks' \subseteq ImportTasks /\ tasks' # {}
          /\ \A x, o \in tasks' : x = o
          /\ \A x \in tasks' : x.file = t.file
      BY <2>2, ImportGoes
    <2>4. manifest' \in [Picked -> {"none", "auto", "user"}]
      BY <1>8, <2>1 DEF ComposerShape, Compose!StoreManifest, Compose!StoreBlob, Compose!Publish,
         Compose!ImportFails
    <2>5. blobs' \subseteq Picked /\ published' \subseteq Picked
      BY <1>8, <2>1 DEF ComposerShape, Compose!StoreManifest, Compose!StoreBlob, Compose!Publish,
         Compose!ImportFails
    <2>6. UNCHANGED <<composer, importing, link, scan, clip>>
      BY <1>8 DEF Compose!StoreManifest, Compose!StoreBlob, Compose!Publish, Compose!ImportFails
    <2> QED
      BY <2>1, <2>3, <2>4, <2>5, <2>6 DEF ComposerShape
  <1>9. ASSUME NEW t \in tasks, Compose!Imported(t)
        PROVE  ComposerInv'
    <2>1. tasks' = {} /\ link = t.file /\ t.file \in Picked
      BY <1>9 DEF Compose!Imported, ComposerShape, ImportTasks
    <2>2. clip' \in [fields : Picked \cup {Compose!None}, id : Picked \cup {Compose!None}]
          /\ clip'.fields = clip'.id
      <3>1. CASE clip' = clip
        BY <3>1 DEF ComposerShape
      <3>2. CASE clip' = [fields |-> link, id |-> t.file]
        BY <3>2, <2>1
      <3> QED
        BY <3>1, <3>2, <1>9 DEF Compose!Imported
    <2> QED
      BY <1>9, <2>1, <2>2 DEF Compose!Imported, ComposerShape
  <1>10. CASE Compose!StartScan
    <2>1. scan' \in [st : {"none", "next", "store"}, todo : SUBSET Picked, file : Picked \cup {Compose!None}]
          /\ scan'.st = "next"
      BY <1>10 DEF Compose!StartScan
    <2> QED
      BY <1>10, <2>1 DEF Compose!StartScan, ComposerShape
  <1>11. ASSUME NEW f \in Picked, Compose!ScanManifest(f)
         PROVE  ComposerInv'
    <2>1. scan' \in [st : {"none", "next", "store"}, todo : SUBSET Picked, file : Picked \cup {Compose!None}]
          /\ scan'.file = f
      BY <1>11 DEF Compose!ScanManifest, ComposerShape
    <2>2. manifest' \in [Picked -> {"none", "auto", "user"}]
      BY <1>11 DEF Compose!ScanManifest, ComposerShape
    <2> QED
      BY <1>11, <2>1, <2>2 DEF Compose!ScanManifest, ComposerShape
  <1>12. CASE Compose!ScanBlob
    <2>1. scan' \in [st : {"none", "next", "store"}, todo : SUBSET Picked, file : Picked \cup {Compose!None}]
          /\ scan'.st = "next"
      BY <1>12 DEF Compose!ScanBlob, ComposerShape
    <2> QED
      BY <1>12, <2>1 DEF Compose!ScanBlob, ComposerShape
  <1>13. CASE Compose!ScanDone
    <2>1. scan' \in [st : {"none", "next", "store"}, todo : SUBSET Picked, file : Picked \cup {Compose!None}]
          /\ scan'.st = "none"
      BY <1>13 DEF Compose!ScanDone, Compose!NoScan
    <2> QED
      BY <1>13, <2>1 DEF Compose!ScanDone, ComposerShape
  <1> QED
    BY <1>1, <1>2, <1>3, <1>4, <1>5, <1>6, <1>7, <1>8, <1>9, <1>10, <1>11, <1>12, <1>13
    DEF Compose!Next, Compose!ImportTask, Compose!Scanner

LEMMA ComposerFrame ==
    ASSUME ComposerInv, UNCHANGED composerVars
    PROVE  ComposerInv'
  BY DEF ComposerInv, ComposerShape, OneImport, Compose!LinkNamesItsContent, Compose!ImportingIsExact,
     composerVars

LEMMA ComposerAlways == Spec => []ComposerInv
  <1>1. Init => ComposerInv
    BY ComposerInit DEF Init
  <1>2. ComposerInv /\ [Next]_vars => ComposerInv'
    <2> SUFFICES ASSUME ComposerInv, [Next]_vars PROVE ComposerInv'
      OBVIOUS
    <2>1. Compose!Next \/ UNCHANGED composerVars
      BY DEF Next, vars, InBrowse, InSettings, InLibrary, InFold, InComposer, InBundle, InTwice, InShare
    <2> QED
      BY <2>1, ComposerStep, ComposerFrame
  <1> QED
    BY <1>1, <1>2, PTL DEF Spec

(* For any files, and imports, edits, scans and deletions in any order: a
   copied link carries the content id of the file its fields were typed for,
   and the import the window shows as under way is. *)
THEOREM LinksCorrect == Spec => []LinkInv
  <1>1. ComposerInv => LinkInv
    BY DEF ComposerInv, ComposerShape, LinkInv, Compose!ComposerTypeOK, ImportTasks
  <1> QED
    BY <1>1, ComposerAlways, PTL

-----------------------------------------------------------------------------
(* The settings and the seeder they start (AppSettings) *)

EngineType ==
    [tracker : Trackers \cup {Settings!Blank}, route : Settings!Urls, hf : BOOLEAN, gated : BOOLEAN,
     pref : BOOLEAN, ratio : BOOLEAN, start : BOOLEAN, fetch : BOOLEAN]
ConnType ==
    [tracker : Trackers \cup {Settings!Blank}, net : [on : BOOLEAN, url : Settings!Urls], hf : BOOLEAN]

AppShape ==
    /\ up \in BOOLEAN /\ opened \in BOOLEAN /\ torn \in BOOLEAN
    /\ pullingOn \in BOOLEAN /\ dialog \in BOOLEAN
    /\ unwritten \in BOOLEAN /\ decided \in {"nothing", "on", "off"}
    /\ mem \in Settings!Settings /\ disk \in Settings!Settings
    /\ eng \in EngineType /\ applied \in ConnType
    /\ seeder \in Trackers \cup {Settings!NoSeeder}

(* A seeder needs an engine, and an engine an app. *)
Needs ==
    /\ opened => up
    /\ seeder # Settings!NoSeeder => opened
    /\ pullingOn => seeder # Settings!NoSeeder
    /\ dialog => up

(* What the engine was opened with is what the banner compares with. *)
InForce ==
    /\ up => applied.hf = mem.hf
    /\ up /\ opened => /\ eng.hf = mem.hf /\ eng.gated = mem.gated
                       /\ eng.pref = mem.pref /\ eng.ratio = mem.ratio
    /\ eng.tracker = applied.tracker /\ eng.route = Settings!Route(applied.net)

(* A stop is in the memory of an app that runs, and on disk unless its write
   failed or the file was torn since; an app that is gone knows what is on
   disk. *)
StopWritten ==
    decided = "off" => /\ ~unwritten => ~torn /\ ~(disk.iroh /\ disk.world)
                       /\ up => ~(mem.iroh /\ mem.world)
                       /\ ~up => ~unwritten
                       /\ seeder = Settings!NoSeeder

AppInv == AppShape /\ Needs /\ InForce /\ Settings!ServedIffWanted /\ StopWritten

LEMMA DefaultIsSettings == Settings!Default \in Settings!Settings
  <1>1. Home \in Trackers \cup {Settings!Blank}
    BY PagesAssumed DEF Settings!SettingsAssumption
  <1>2. [on |-> FALSE, url |-> Settings!Blank] \in [on : BOOLEAN, url : Settings!Urls]
    BY DEF Settings!Urls
  <1> QED
    BY <1>1, <1>2 DEF Settings!Default, Settings!Settings

(* What a launch makes of the settings. *)
LEMMA ConfigTyped ==
    ASSUME NEW s \in Settings!Settings
    PROVE  /\ Settings!EngineConfig(s) \in EngineType /\ Settings!ConnSnapshot(s) \in ConnType
           /\ Settings!EngineConfig(s).tracker = Settings!ConnSnapshot(s).tracker
           /\ Settings!EngineConfig(s).route = Settings!Route(Settings!ConnSnapshot(s).net)
           /\ Settings!EngineConfig(s).hf = s.hf /\ Settings!EngineConfig(s).gated = s.gated
           /\ Settings!EngineConfig(s).pref = s.pref /\ Settings!EngineConfig(s).ratio = s.ratio
           /\ Settings!ConnSnapshot(s).hf = s.hf
  <1>1. s.net \in [on : BOOLEAN, url : Settings!Urls]
    BY DEF Settings!Settings
  <1>2. Settings!Route(s.net) \in Settings!Urls
    BY <1>1 DEF Settings!Route, Settings!Urls
  <1>3. /\ s.tracker \in Trackers \cup {Settings!Blank} /\ s.hf \in BOOLEAN /\ s.gated \in BOOLEAN
        /\ s.pref \in BOOLEAN /\ s.ratio \in BOOLEAN /\ s.start \in BOOLEAN /\ s.iroh \in BOOLEAN
    BY DEF Settings!Settings
  <1>4. (s.iroh /\ s.start) \in BOOLEAN
    OBVIOUS
  <1>5. Settings!EngineConfig(s) \in EngineType
    BY <1>2, <1>3, <1>4 DEF Settings!EngineConfig, EngineType
  <1>6. Settings!ConnSnapshot(s) \in ConnType
    BY <1>1, <1>3 DEF Settings!ConnSnapshot, ConnType
  <1> QED
    BY <1>5, <1>6 DEF Settings!EngineConfig, Settings!ConnSnapshot

LEMMA AppInit == Settings!Init => AppInv
  <1> SUFFICES ASSUME Settings!Init PROVE AppInv
    OBVIOUS
  <1>1. PICK s \in Settings!Settings : s = Settings!Default
    BY DefaultIsSettings
  <1>2. mem = s /\ disk = s /\ eng = Settings!EngineConfig(s) /\ applied = Settings!ConnSnapshot(s)
    BY <1>1 DEF Settings!Init
  <1>3. AppShape
    BY <1>2, ConfigTyped DEF Settings!Init, AppShape
  <1>4. InForce
    BY <1>2, ConfigTyped DEF Settings!Init, InForce
  <1>5. Needs /\ Settings!ServedIffWanted /\ StopWritten
    BY DEF Settings!Init, Needs, Settings!ServedIffWanted, StopWritten
  <1> QED
    BY <1>3, <1>4, <1>5 DEF AppInv

(* What a start of the seeder may change. *)
LEMMA StartFacts ==
    ASSUME NEW s \in Settings!Settings, seeder \in Trackers \cup {Settings!NoSeeder},
           NEW e \in BOOLEAN, NEW ok \in BOOLEAN, Settings!StartWorldwide(s, e, ok)
    PROVE  /\ mem' \in Settings!Settings
           /\ seeder' \in Trackers \cup {Settings!NoSeeder}
           /\ mem'.hf = s.hf /\ mem'.gated = s.gated /\ mem'.pref = s.pref /\ mem'.ratio = s.ratio
           /\ mem'.iroh = s.iroh /\ mem'.net = s.net /\ mem'.tracker = s.tracker
           /\ ~e \/ ~s.iroh \/ seeder # Settings!NoSeeder => mem' = s /\ seeder' = seeder
           /\ e /\ s.iroh /\ s.world /\ seeder = Settings!NoSeeder =>
                (seeder' # Settings!NoSeeder <=> mem'.world)
  <1>1. PICK w : w = [s EXCEPT !.world = FALSE]
    OBVIOUS
  <1>2. /\ w \in Settings!Settings /\ ~w.world
        /\ w.hf = s.hf /\ w.gated = s.gated /\ w.pref = s.pref /\ w.ratio = s.ratio
        /\ w.iroh = s.iroh /\ w.net = s.net /\ w.tracker = s.tracker
    BY <1>1 DEF Settings!Settings
  <1>3. CASE ~e \/ ~s.iroh \/ seeder # Settings!NoSeeder
    BY <1>3 DEF Settings!StartWorldwide
  <1>4. CASE /\ ~(~e \/ ~s.iroh \/ seeder # Settings!NoSeeder)
             /\ s.tracker = Settings!Blank \/ ~ok
    BY <1>1, <1>2, <1>4 DEF Settings!StartWorldwide
  <1>5. CASE /\ ~(~e \/ ~s.iroh \/ seeder # Settings!NoSeeder)
             /\ ~(s.tracker = Settings!Blank \/ ~ok)
    <2>1. s.tracker \in Trackers \cup {Settings!Blank}
      BY DEF Settings!Settings
    <2>2. s.tracker \in Trackers /\ s.tracker # Settings!NoSeeder
      BY <1>5, <2>1, PagesAssumed DEF Settings!SettingsAssumption
    <2> QED
      BY <1>5, <2>2 DEF Settings!StartWorldwide
  <1> QED
    BY <1>3, <1>4, <1>5

(* A save writes the settings m, or fails and leaves the file as it was or
   torn. *)
Writes(m) ==
    \/ disk' = m /\ torn' = FALSE /\ unwritten' = FALSE
    \/ /\ disk' = disk /\ torn' \in {torn, TRUE}
       /\ unwritten' = (unwritten \/ torn' \/ decided' # decided)

LEMMA SaveWrites ==
    ASSUME NEW m, NEW n, Settings!Save(m, n)
    PROVE  Writes(m)
  BY DEF Settings!Save, Writes

(* The launch of the app. *)
LEMMA LaunchKeeps ==
    ASSUME AppInv, NEW ok \in BOOLEAN, NEW node \in BOOLEAN, Settings!Launch(ok, node)
    PROVE  AppInv'
  <1>1. PICK s \in Settings!Settings : s = Settings!Loaded /\ (~torn => s = disk)
    BY DefaultIsSettings DEF AppInv, AppShape, Settings!Loaded
  <1>2. /\ ~up /\ up' = TRUE /\ opened' = ok /\ seeder = Settings!NoSeeder
        /\ eng' = Settings!EngineConfig(s) /\ applied' = Settings!ConnSnapshot(s)
        /\ UNCHANGED <<pullingOn, dialog, decided>>
    BY <1>1 DEF Settings!Launch, AppInv, Needs
  <1>3. /\ disk' \in Settings!Settings /\ torn' \in BOOLEAN /\ unwritten' \in BOOLEAN
        /\ ~torn => disk' = disk /\ torn' = torn /\ unwritten' = unwritten
    <2>1. CASE torn
      <3>1. Writes(s)
        BY <1>1, <2>1, SaveWrites DEF Settings!Launch
      <3> QED
        BY <2>1, <3>1 DEF Writes, AppInv, AppShape
    <2>2. CASE ~torn
      BY <2>2 DEF Settings!Launch, AppInv, AppShape
    <2> QED
      BY <2>1, <2>2
  <1>4. /\ s.world => Settings!StartWorldwide(s, ok, node)
        /\ ~s.world => mem' = s /\ seeder' = seeder
    BY <1>1 DEF Settings!Launch
  <1>5. /\ mem' \in Settings!Settings
        /\ seeder' \in Trackers \cup {Settings!NoSeeder}
        /\ mem'.hf = s.hf /\ mem'.gated = s.gated /\ mem'.pref = s.pref /\ mem'.ratio = s.ratio
    BY <1>2, <1>4, StartFacts
  <1>6. /\ ~ok \/ ~s.iroh \/ ~s.world => mem' = s /\ seeder' = seeder
        /\ ok /\ s.iroh /\ s.world => mem'.iroh /\ (seeder' # Settings!NoSeeder <=> mem'.world)
    BY <1>2, <1>4, StartFacts
  <1>7. AppShape'
    BY <1>2, <1>3, <1>5, ConfigTyped DEF AppInv, AppShape
  <1>8. InForce'
    <2>1. eng'.hf = mem'.hf /\ eng'.gated = mem'.gated /\ eng'.pref = mem'.pref /\ eng'.ratio = mem'.ratio
      BY <1>2, <1>5, ConfigTyped
    <2>2. applied'.hf = mem'.hf
      BY <1>2, <1>5, ConfigTyped
    <2>3. eng'.tracker = applied'.tracker /\ eng'.route = Settings!Route(applied'.net)
      BY <1>2, ConfigTyped
    <2> QED
      BY <2>1, <2>2, <2>3 DEF InForce, Settings!Route
  <1>9. Needs'
    BY <1>2, <1>6 DEF AppInv, Needs
  <1>10. Settings!ServedIffWanted'
    BY <1>2, <1>6 DEF Settings!ServedIffWanted
  <1>11. StopWritten'
    <2> SUFFICES ASSUME decided = "off"
                 PROVE  /\ ~unwritten' => ~torn' /\ ~(disk'.iroh /\ disk'.world)
                        /\ ~(mem'.iroh /\ mem'.world) /\ seeder' = Settings!NoSeeder
      BY <1>2 DEF StopWritten
    <2>1. ~torn /\ ~(disk.iroh /\ disk.world)
      BY <1>2 DEF AppInv, StopWritten
    <2>2. s = disk /\ mem' = s /\ seeder' = seeder
      BY <1>1, <1>6, <2>1
    <2> QED
      BY <1>2, <1>3, <2>1, <2>2
  <1> QED
    BY <1>7, <1>8, <1>9, <1>10, <1>11 DEF AppInv

(* The app goes, with its seeder. *)
LEMMA GoneKeeps ==
    ASSUME AppInv, Settings!Quit \/ \E tears \in BOOLEAN : Settings!Crash(tears)
    PROVE  AppInv'
  <1>1. /\ ~up' /\ ~opened' /\ seeder' = Settings!NoSeeder /\ ~pullingOn' /\ ~dialog'
        /\ up' \in BOOLEAN /\ opened' \in BOOLEAN /\ pullingOn' \in BOOLEAN /\ dialog' \in BOOLEAN
        /\ UNCHANGED <<mem, disk, eng, applied>>
    BY DEF Settings!Quit, Settings!Crash, Settings!StopWorldwide
  <1>2. /\ torn' \in BOOLEAN /\ ~unwritten' /\ unwritten' \in BOOLEAN
        /\ decided' \in {"nothing", decided}
        /\ decided' = "off" => decided = "off" /\ ~unwritten /\ torn' = torn
    BY DEF AppInv, AppShape, Settings!Quit, Settings!Crash, Settings!Forgets
  <1>3. AppShape'
    BY <1>1, <1>2 DEF AppInv, AppShape
  <1>4. InForce'
    BY <1>1 DEF AppInv, InForce, Settings!Route
  <1>5. Needs' /\ Settings!ServedIffWanted' /\ StopWritten'
    BY <1>1, <1>2 DEF AppInv, Needs, Settings!ServedIffWanted, StopWritten
  <1> QED
    BY <1>3, <1>4, <1>5 DEF AppInv

(* The seeder is stopped: by its switch, after the dialog, or with Iroh. *)
LEMMA StopKeeps ==
    ASSUME AppInv, NEW m \in Settings!Settings, up, UNCHANGED <<up, opened, eng, applied>>,
           mem' = m, m.hf = mem.hf, m.gated = mem.gated, m.pref = mem.pref, m.ratio = mem.ratio,
           ~(m.iroh /\ m.world), Settings!StopWorldwide, Writes(m),
           decided' = "off", dialog' \in {dialog, FALSE}
    PROVE  AppInv'
  <1>1. /\ seeder' = Settings!NoSeeder /\ ~pullingOn' /\ pullingOn' \in BOOLEAN
        /\ disk' \in Settings!Settings /\ torn' \in BOOLEAN /\ unwritten' \in BOOLEAN
        /\ ~unwritten' => /\ ~torn'
                          /\ disk' = m \/ (decided = "off" /\ ~unwritten /\ disk' = disk)
    BY DEF Settings!StopWorldwide, Writes, AppInv, AppShape
  <1>2. AppShape'
    BY <1>1 DEF AppInv, AppShape
  <1>3. InForce'
    BY <1>1 DEF AppInv, InForce, Settings!Route
  <1>4. Needs' /\ Settings!ServedIffWanted' /\ StopWritten'
    BY <1>1 DEF AppInv, Needs, Settings!ServedIffWanted, StopWritten
  <1> QED
    BY <1>2, <1>3, <1>4 DEF AppInv

(* The seeder is started by a switch, with settings s that have both on. *)
LEMMA StartKeeps ==
    ASSUME AppInv, NEW s \in Settings!Settings, NEW ok \in BOOLEAN, up,
           UNCHANGED <<up, opened, eng, applied, pullingOn, dialog>>,
           s.hf = mem.hf, s.gated = mem.gated, s.pref = mem.pref, s.ratio = mem.ratio,
           s.iroh, s.world, ~(mem.iroh /\ mem.world), Settings!StartWorldwide(s, opened, ok),
           Writes(mem'), decided' = "on"
    PROVE  AppInv'
  <1>0. seeder \in Trackers \cup {Settings!NoSeeder} /\ opened \in BOOLEAN
    BY DEF AppInv, AppShape
  <1>1. seeder = Settings!NoSeeder
    BY DEF AppInv, Needs, Settings!ServedIffWanted
  <1>2. /\ mem' \in Settings!Settings
        /\ seeder' \in Trackers \cup {Settings!NoSeeder}
        /\ mem'.hf = s.hf /\ mem'.gated = s.gated /\ mem'.pref = s.pref /\ mem'.ratio = s.ratio
        /\ mem'.iroh
    BY <1>0, StartFacts
  <1>3. ~opened => seeder' = Settings!NoSeeder
    BY <1>0, <1>1, StartFacts
  <1>4. opened => (seeder' # Settings!NoSeeder <=> mem'.world)
    BY <1>0, <1>1, StartFacts
  <1>5. disk' \in Settings!Settings /\ torn' \in BOOLEAN /\ unwritten' \in BOOLEAN
    BY <1>2 DEF Writes, AppInv, AppShape
  <1>6. AppShape'
    BY <1>2, <1>5 DEF AppInv, AppShape
  <1>7. InForce'
    BY <1>2 DEF AppInv, InForce, Settings!Route
  <1>8. Needs' /\ Settings!ServedIffWanted' /\ StopWritten'
    BY <1>1, <1>2, <1>3, <1>4 DEF AppInv, Needs, Settings!ServedIffWanted, StopWritten
  <1> QED
    BY <1>6, <1>7, <1>8 DEF AppInv

(* The other settings leave the seeder alone. *)
LEMMA EditKeeps ==
    ASSUME AppInv, NEW m \in Settings!Settings, up, UNCHANGED <<up, opened, seeder, pullingOn, decided>>,
           mem' = m, (m.iroh /\ m.world) = (mem.iroh /\ mem.world),
           eng' \in EngineType, applied' \in ConnType, dialog' \in BOOLEAN,
           applied'.hf = m.hf,
           opened => /\ eng'.hf = m.hf /\ eng'.gated = m.gated
                     /\ eng'.pref = m.pref /\ eng'.ratio = m.ratio,
           eng'.tracker = eng.tracker, eng'.route = eng.route,
           applied'.tracker = applied.tracker, applied'.net = applied.net,
           Writes(m) \/ Settings!NoSave
    PROVE  AppInv'
  <1>1. /\ disk' \in Settings!Settings /\ torn' \in BOOLEAN /\ unwritten' \in BOOLEAN
        /\ ~unwritten' => \/ ~torn' /\ disk' = m
                          \/ ~unwritten /\ torn' = torn /\ disk' = disk
    BY DEF Writes, Settings!NoSave, AppInv, AppShape
  <1>2. AppShape'
    BY <1>1 DEF AppInv, AppShape
  <1>3. InForce'
    BY DEF AppInv, InForce, Settings!Route
  <1>4. Needs' /\ Settings!ServedIffWanted'
    BY DEF AppInv, Needs, Settings!ServedIffWanted
  <1>5. StopWritten'
    BY <1>1 DEF AppInv, StopWritten
  <1> QED
    BY <1>2, <1>3, <1>4, <1>5 DEF AppInv

LEMMA AppStep ==
    ASSUME AppInv, Settings!Next
    PROVE  AppInv'
  <1>0. /\ mem \in Settings!Settings /\ eng \in EngineType /\ applied \in ConnType
        /\ dialog \in BOOLEAN /\ opened \in BOOLEAN /\ disk \in Settings!Settings
        /\ up => applied.hf = mem.hf
        /\ up /\ opened => /\ eng.hf = mem.hf /\ eng.gated = mem.gated
                           /\ eng.pref = mem.pref /\ eng.ratio = mem.ratio
    BY DEF AppInv, AppShape, InForce
  <1>m. mem \in Settings!Settings
    BY <1>0
  <1>1. ASSUME NEW ok \in BOOLEAN, NEW node \in BOOLEAN, Settings!Launch(ok, node) PROVE AppInv'
    BY <1>1, LaunchKeeps
  <1>2. CASE Settings!Quit \/ \E tears \in BOOLEAN : Settings!Crash(tears)
    BY <1>2, GoneKeeps
  <1>3. CASE Settings!ToggleOff
    <2>1. CASE pullingOn
      <3>1. up /\ dialog' = TRUE /\ UNCHANGED <<up, opened, mem, disk, torn, unwritten, eng, applied, seeder, pullingOn, decided>>
        BY <1>3, <2>1 DEF Settings!ToggleOff, Settings!Edit, Settings!NoSave
      <3>2. AppShape'
        BY <3>1 DEF AppInv, AppShape
      <3>3. InForce'
        BY <3>1 DEF AppInv, InForce, Settings!Route
      <3> QED
        BY <3>1, <3>2, <3>3 DEF AppInv, Needs, Settings!ServedIffWanted, StopWritten
    <2>2. CASE ~pullingOn
      <3>1. PICK m : m = [mem EXCEPT !.world = FALSE]
        OBVIOUS
      <3>2. m \in Settings!Settings /\ ~m.world /\ m.hf = mem.hf /\ m.gated = mem.gated /\ m.pref = mem.pref
            /\ m.ratio = mem.ratio
        BY <3>1, <1>0 DEF Settings!Settings
      <3>3. /\ up /\ mem' = m /\ Settings!StopWorldwide /\ Writes(m) /\ decided' = "off" /\ dialog' = dialog
            /\ UNCHANGED <<up, opened, eng, applied>>
        BY <1>3, <2>2, <3>1, SaveWrites DEF Settings!ToggleOff, Settings!Edit
      <3> QED
        BY <3>2, <3>3, StopKeeps
    <2> QED
      BY <2>1, <2>2
  <1>4. CASE Settings!ConfirmStopWorldwide
    <2>1. PICK m : m = [mem EXCEPT !.world = FALSE]
      OBVIOUS
    <2>2. m \in Settings!Settings /\ ~m.world /\ m.hf = mem.hf /\ m.gated = mem.gated /\ m.pref = mem.pref
          /\ m.ratio = mem.ratio
      BY <2>1, <1>m DEF Settings!Settings
    <2>3. /\ up /\ mem' = m /\ Settings!StopWorldwide /\ Writes(m) /\ decided' = "off" /\ dialog' = FALSE
          /\ UNCHANGED <<up, opened, eng, applied>>
      BY <1>4, <2>1, SaveWrites DEF Settings!ConfirmStopWorldwide, Settings!Edit
    <2> QED
      BY <2>2, <2>3, StopKeeps
  <1>5. CASE Settings!IrohOff
    <2>1. PICK m : m = [mem EXCEPT !.iroh = FALSE]
      OBVIOUS
    <2>2. m \in Settings!Settings /\ ~m.iroh /\ m.hf = mem.hf /\ m.gated = mem.gated /\ m.pref = mem.pref
          /\ m.ratio = mem.ratio
      BY <2>1, <1>m DEF Settings!Settings
    <2>3. /\ up /\ mem' = m /\ Settings!StopWorldwide /\ Writes(m) /\ decided' = "off" /\ dialog' = dialog
          /\ UNCHANGED <<up, opened, eng, applied>>
      BY <1>5, <2>1, SaveWrites DEF Settings!IrohOff, Settings!Edit
    <2> QED
      BY <2>2, <2>3, StopKeeps
  <1>6. ASSUME NEW ok \in BOOLEAN, Settings!ToggleOn(ok) PROVE AppInv'
    <2>1. PICK s : s = [mem EXCEPT !.world = TRUE]
      OBVIOUS
    <2>2. s \in Settings!Settings /\ s.world /\ s.iroh = mem.iroh /\ s.hf = mem.hf /\ s.gated = mem.gated
          /\ s.pref = mem.pref /\ s.ratio = mem.ratio
      BY <2>1, <1>m DEF Settings!Settings
    <2>3. /\ up /\ mem.iroh /\ ~mem.world /\ Settings!StartWorldwide(s, opened, ok)
          /\ Writes(mem') /\ decided' = "on"
          /\ UNCHANGED <<up, opened, eng, applied, pullingOn, dialog>>
      BY <1>6, <2>1, SaveWrites DEF Settings!ToggleOn, Settings!Edit
    <2> QED
      BY <2>2, <2>3, StartKeeps
  <1>7. ASSUME NEW ok \in BOOLEAN, Settings!IrohOn(ok) PROVE AppInv'
    <2>1. PICK s : s = [mem EXCEPT !.iroh = TRUE]
      OBVIOUS
    <2>2. s \in Settings!Settings /\ s.iroh /\ s.world = mem.world /\ s.hf = mem.hf /\ s.gated = mem.gated
          /\ s.pref = mem.pref /\ s.ratio = mem.ratio
      BY <2>1, <1>m DEF Settings!Settings
    <2>3. /\ up /\ ~mem.iroh /\ Writes(mem')
          /\ UNCHANGED <<up, opened, eng, applied, pullingOn, dialog>>
      BY <1>7, SaveWrites DEF Settings!IrohOn, Settings!Edit
    <2>4. CASE mem.world
      <3>1. Settings!StartWorldwide(s, opened, ok) /\ decided' = "on"
        BY <1>7, <2>1, <2>4 DEF Settings!IrohOn
      <3> QED
        BY <2>2, <2>3, <2>4, <3>1, StartKeeps
    <2>5. CASE ~mem.world
      <3>1. mem' = s /\ UNCHANGED <<seeder, decided>>
        BY <1>7, <2>1, <2>5 DEF Settings!IrohOn
      <3> QED
        BY <1>0, <2>2, <2>3, <2>5, <3>1, EditKeeps
    <2> QED
      BY <2>4, <2>5
  <1>8. CASE Settings!CancelStopWorldwide
    <2>1. /\ up /\ Settings!NoSave /\ dialog' = FALSE
          /\ UNCHANGED <<up, opened, mem, eng, applied, seeder, pullingOn, decided>>
      BY <1>8 DEF Settings!CancelStopWorldwide, Settings!Edit
    <2> QED
      BY <1>0, <2>1, EditKeeps
  <1>9. CASE Settings!Peers
    <2>1. pullingOn' \in BOOLEAN /\ seeder # Settings!NoSeeder
          /\ UNCHANGED <<up, opened, mem, disk, torn, unwritten, eng, applied, seeder, dialog, decided>>
      BY <1>9 DEF Settings!Peers
    <2>2. AppShape'
      BY <2>1 DEF AppInv, AppShape
    <2>3. InForce'
      BY <2>1 DEF AppInv, InForce, Settings!Route
    <2> QED
      BY <2>1, <2>2, <2>3 DEF AppInv, Needs, Settings!ServedIffWanted, StopWritten
  <1>10. CASE Settings!SetHfDownload
    <2>1. PICK m : m = [mem EXCEPT !.hf = ~@]
      OBVIOUS
    <2>2. /\ m \in Settings!Settings
          /\ m.iroh = mem.iroh /\ m.world = mem.world /\ m.gated = mem.gated
          /\ m.hf = ~mem.hf /\ m.pref = mem.pref /\ m.ratio = mem.ratio
      BY <2>1, <1>m DEF Settings!Settings
    <2>3. eng' \in EngineType /\ eng'.tracker = eng.tracker /\ eng'.route = eng.route
      BY <1>10, <1>0 DEF Settings!SetHfDownload, EngineType, Settings!Settings
    <2>4. applied' \in ConnType /\ applied'.tracker = applied.tracker /\ applied'.net = applied.net
      BY <1>10, <1>0 DEF Settings!SetHfDownload, ConnType, Settings!Settings
    <2>5. applied'.hf = m.hf
      BY <1>10, <1>0, <2>1, <2>2 DEF Settings!SetHfDownload, Settings!Edit, ConnType, Settings!Settings
    <2>6. opened => eng'.hf = m.hf /\ eng'.gated = m.gated /\ eng'.pref = m.pref /\ eng'.ratio = m.ratio
      BY <1>10, <1>0, <2>1, <2>2 DEF Settings!SetHfDownload, Settings!Edit, EngineType, Settings!Settings
    <2>7. /\ up /\ mem' = m /\ Writes(m)
          /\ UNCHANGED <<up, opened, seeder, pullingOn, dialog, decided>>
      BY <1>10, <2>1, SaveWrites DEF Settings!SetHfDownload, Settings!Edit, Settings!Seeding
    <2> QED
      BY <1>0, <2>2, <2>3, <2>4, <2>5, <2>6, <2>7, EditKeeps
  <1>11. CASE Settings!SetShareGated
    <2>1. PICK m : m = [mem EXCEPT !.gated = ~@]
      OBVIOUS
    <2>2. /\ m \in Settings!Settings
          /\ m.iroh = mem.iroh /\ m.world = mem.world /\ m.gated = ~mem.gated
          /\ m.hf = mem.hf /\ m.pref = mem.pref /\ m.ratio = mem.ratio
      BY <2>1, <1>m DEF Settings!Settings
    <2>3. eng' \in EngineType /\ eng'.tracker = eng.tracker /\ eng'.route = eng.route
      BY <1>11, <1>0 DEF Settings!SetShareGated, EngineType, Settings!Settings
    <2>4. applied' \in ConnType /\ applied'.tracker = applied.tracker /\ applied'.net = applied.net
      BY <1>11, <1>0 DEF Settings!SetShareGated, ConnType, Settings!Settings
    <2>5. applied'.hf = m.hf
      BY <1>11, <1>0, <2>1, <2>2 DEF Settings!SetShareGated, Settings!Edit, ConnType, Settings!Settings
    <2>6. opened => eng'.hf = m.hf /\ eng'.gated = m.gated /\ eng'.pref = m.pref /\ eng'.ratio = m.ratio
      BY <1>11, <1>0, <2>1, <2>2 DEF Settings!SetShareGated, Settings!Edit, EngineType, Settings!Settings
    <2>7. /\ up /\ mem' = m /\ Writes(m)
          /\ UNCHANGED <<up, opened, seeder, pullingOn, dialog, decided>>
      BY <1>11, <2>1, SaveWrites DEF Settings!SetShareGated, Settings!Edit, Settings!Seeding
    <2> QED
      BY <1>0, <2>2, <2>3, <2>4, <2>5, <2>6, <2>7, EditKeeps
  <1>12. CASE Settings!SetDownloadPreference
    <2>1. PICK m : m = [mem EXCEPT !.pref = ~@]
      OBVIOUS
    <2>2. /\ m \in Settings!Settings
          /\ m.iroh = mem.iroh /\ m.world = mem.world /\ m.gated = mem.gated
          /\ m.hf = mem.hf /\ m.pref = ~mem.pref /\ m.ratio = mem.ratio
      BY <2>1, <1>m DEF Settings!Settings
    <2>3. eng' \in EngineType /\ eng'.tracker = eng.tracker /\ eng'.route = eng.route
      BY <1>12, <1>0 DEF Settings!SetDownloadPreference, EngineType, Settings!Settings
    <2>4. applied' \in ConnType /\ applied'.tracker = applied.tracker /\ applied'.net = applied.net
      BY <1>12, <1>0 DEF Settings!SetDownloadPreference, ConnType, Settings!Settings
    <2>5. applied'.hf = m.hf
      BY <1>12, <1>0, <2>1, <2>2 DEF Settings!SetDownloadPreference, Settings!Edit, ConnType, Settings!Settings
    <2>6. opened => eng'.hf = m.hf /\ eng'.gated = m.gated /\ eng'.pref = m.pref /\ eng'.ratio = m.ratio
      BY <1>12, <1>0, <2>1, <2>2 DEF Settings!SetDownloadPreference, Settings!Edit, EngineType, Settings!Settings
    <2>7. /\ up /\ mem' = m /\ Writes(m)
          /\ UNCHANGED <<up, opened, seeder, pullingOn, dialog, decided>>
      BY <1>12, <2>1, SaveWrites DEF Settings!SetDownloadPreference, Settings!Edit, Settings!Seeding
    <2> QED
      BY <1>0, <2>2, <2>3, <2>4, <2>5, <2>6, <2>7, EditKeeps
  <1>13. CASE Settings!SetBtLive
    <2>1. PICK m : m = [mem EXCEPT !.ratio = ~@]
      OBVIOUS
    <2>2. /\ m \in Settings!Settings
          /\ m.iroh = mem.iroh /\ m.world = mem.world /\ m.gated = mem.gated
          /\ m.hf = mem.hf /\ m.pref = mem.pref /\ m.ratio = ~mem.ratio
      BY <2>1, <1>m DEF Settings!Settings
    <2>3. eng' \in EngineType /\ eng'.tracker = eng.tracker /\ eng'.route = eng.route
      BY <1>13, <1>0 DEF Settings!SetBtLive, EngineType, Settings!Settings
    <2>4. applied' \in ConnType /\ applied'.tracker = applied.tracker /\ applied'.net = applied.net
      BY <1>13, <1>0 DEF Settings!SetBtLive, ConnType, Settings!Settings
    <2>5. applied'.hf = m.hf
      BY <1>13, <1>0, <2>1, <2>2 DEF Settings!SetBtLive, Settings!Edit, ConnType, Settings!Settings
    <2>6. opened => eng'.hf = m.hf /\ eng'.gated = m.gated /\ eng'.pref = m.pref /\ eng'.ratio = m.ratio
      BY <1>13, <1>0, <2>1, <2>2 DEF Settings!SetBtLive, Settings!Edit, EngineType, Settings!Settings
    <2>7. /\ up /\ mem' = m /\ Writes(m)
          /\ UNCHANGED <<up, opened, seeder, pullingOn, dialog, decided>>
      BY <1>13, <2>1, SaveWrites DEF Settings!SetBtLive, Settings!Edit, Settings!Seeding
    <2> QED
      BY <1>0, <2>2, <2>3, <2>4, <2>5, <2>6, <2>7, EditKeeps
  <1>14. CASE Settings!SetStart
    <2>1. PICK m : m = [mem EXCEPT !.start = ~@]
      OBVIOUS
    <2>2. /\ m \in Settings!Settings
          /\ m.iroh = mem.iroh /\ m.world = mem.world /\ m.gated = mem.gated
          /\ m.hf = mem.hf /\ m.pref = mem.pref /\ m.ratio = mem.ratio
      BY <2>1, <1>m DEF Settings!Settings
    <2>3. eng' \in EngineType /\ eng'.tracker = eng.tracker /\ eng'.route = eng.route
      BY <1>14, <1>0 DEF Settings!SetStart, EngineType, Settings!Settings
    <2>4. applied' \in ConnType /\ applied'.tracker = applied.tracker /\ applied'.net = applied.net
      BY <1>14, <1>0 DEF Settings!SetStart, ConnType, Settings!Settings
    <2>5. applied'.hf = m.hf
      BY <1>14, <1>0, <2>1, <2>2 DEF Settings!SetStart, Settings!Edit, ConnType, Settings!Settings
    <2>6. opened => eng'.hf = m.hf /\ eng'.gated = m.gated /\ eng'.pref = m.pref /\ eng'.ratio = m.ratio
      BY <1>14, <1>0, <2>1, <2>2 DEF Settings!SetStart, Settings!Edit, EngineType, Settings!Settings
    <2>7. /\ up /\ mem' = m /\ Writes(m)
          /\ UNCHANGED <<up, opened, seeder, pullingOn, dialog, decided>>
      BY <1>14, <2>1, SaveWrites DEF Settings!SetStart, Settings!Edit, Settings!Seeding
    <2> QED
      BY <1>0, <2>2, <2>3, <2>4, <2>5, <2>6, <2>7, EditKeeps
  <1>15. CASE Settings!SetNet
    <2>1. PICK w : w = [mem.net EXCEPT !.on = ~@]
      OBVIOUS
    <2>2. w \in [on : BOOLEAN, url : Settings!Urls]
      <3>1. mem.net \in [on : BOOLEAN, url : Settings!Urls]
        BY <1>0 DEF Settings!Settings
      <3> QED
        BY <2>1, <3>1
    <2>3. PICK m : m = [mem EXCEPT !.net = w]
      OBVIOUS
    <2>4. /\ m \in Settings!Settings
          /\ m.iroh = mem.iroh /\ m.world = mem.world /\ m.gated = mem.gated
          /\ m.hf = mem.hf /\ m.pref = mem.pref /\ m.ratio = mem.ratio
      BY <2>2, <2>3, <1>0 DEF Settings!Settings
    <2>5. mem' = m
      BY <1>15, <2>1, <2>3 DEF Settings!SetNet
    <2>6. /\ up /\ Writes(m)
          /\ UNCHANGED <<up, opened, seeder, pullingOn, dialog, decided, eng, applied>>
      BY <1>15, <2>5, SaveWrites DEF Settings!SetNet, Settings!Edit, Settings!Seeding
    <2> QED
      BY <1>0, <2>4, <2>5, <2>6, EditKeeps
  <1>16. ASSUME NEW x \in Trackers \cup {Settings!Blank}, Settings!TypeTracker(x) PROVE AppInv'
    <2>1. PICK m : m = [mem EXCEPT !.tracker = x]
      OBVIOUS
    <2>2. /\ m \in Settings!Settings
          /\ m.iroh = mem.iroh /\ m.world = mem.world /\ m.gated = mem.gated
          /\ m.hf = mem.hf /\ m.pref = mem.pref /\ m.ratio = mem.ratio
      BY <2>1, <1>m DEF Settings!Settings
    <2>3. /\ up /\ Settings!NoSave /\ mem' = m
          /\ UNCHANGED <<up, opened, seeder, pullingOn, dialog, decided, eng, applied>>
      BY <1>16, <2>1 DEF Settings!TypeTracker, Settings!Edit, Settings!Seeding
    <2> QED
      BY <1>0, <2>2, <2>3, EditKeeps
  <1>17. ASSUME NEW x \in Settings!Urls, Settings!TypeUrl(x) PROVE AppInv'
    <2>1. PICK w : w = [mem.net EXCEPT !.url = x]
      OBVIOUS
    <2>2. w \in [on : BOOLEAN, url : Settings!Urls]
      <3>1. mem.net \in [on : BOOLEAN, url : Settings!Urls]
        BY <1>0 DEF Settings!Settings
      <3> QED
        BY <2>1, <3>1
    <2>3. PICK m : m = [mem EXCEPT !.net = w]
      OBVIOUS
    <2>4. /\ m \in Settings!Settings
          /\ m.iroh = mem.iroh /\ m.world = mem.world /\ m.gated = mem.gated
          /\ m.hf = mem.hf /\ m.pref = mem.pref /\ m.ratio = mem.ratio
      BY <2>2, <2>3, <1>0 DEF Settings!Settings
    <2>5. mem' = m
      BY <1>17, <2>1, <2>3 DEF Settings!TypeUrl
    <2>6. /\ up /\ Settings!NoSave
          /\ UNCHANGED <<up, opened, seeder, pullingOn, dialog, decided, eng, applied>>
      BY <1>17 DEF Settings!TypeUrl, Settings!Edit, Settings!Seeding
    <2> QED
      BY <1>0, <2>4, <2>5, <2>6, EditKeeps
  <1>18. CASE Settings!SaveSettings
    <2>1. /\ up /\ Writes(mem)
          /\ UNCHANGED <<up, opened, mem, seeder, pullingOn, dialog, decided, eng, applied>>
      BY <1>18, SaveWrites DEF Settings!SaveSettings, Settings!Seeding
    <2> QED
      BY <1>0, <2>1, EditKeeps
  <1> QED
    BY <1>1, <1>2, <1>3, <1>4, <1>5, <1>6, <1>7, <1>8, <1>9, <1>10, <1>11, <1>12, <1>13, <1>14,
       <1>15, <1>16, <1>17, <1>18
    DEF Settings!Next

LEMMA AppFrame ==
    ASSUME AppInv, UNCHANGED settingsVars
    PROVE  AppInv'
  BY DEF AppInv, AppShape, Needs, InForce, Settings!Route, Settings!ServedIffWanted, StopWritten,
     settingsVars

LEMMA AppAlways == Spec => []AppInv
  <1>1. Init => AppInv
    BY AppInit DEF Init
  <1>2. AppInv /\ [Next]_vars => AppInv'
    <2> SUFFICES ASSUME AppInv, [Next]_vars PROVE AppInv'
      OBVIOUS
    <2>1. Settings!Next \/ UNCHANGED settingsVars
      BY DEF Next, vars, InBrowse, InSettings, InLibrary, InFold, InComposer, InBundle, InTwice, InShare
    <2> QED
      BY <2>1, AppStep, AppFrame
  <1> QED
    BY <1>1, <1>2, PTL DEF Spec

(* For any trackers, edits, failed writes and crashes: the seeder runs exactly
   when the switches say so, a live option is in force, a changed tracker,
   mirror or proxy is too or the banner asks for a restart, and a stop of
   sharing survives one unless its write failed or the file was torn since. *)
THEOREM SettingsCorrect == Spec => []SettingsInv
  <1>1. ASSUME AppInv PROVE Settings!AppTypeOK
    BY <1>1 DEF AppInv, AppShape, Needs, Settings!AppTypeOK, EngineType
  <1>2. ASSUME AppInv PROVE Settings!SettingsTakeEffect
    <2> SUFFICES ASSUME up, opened
                 PROVE  /\ <<eng.hf, eng.gated, eng.pref, eng.ratio>> = <<mem.hf, mem.gated, mem.pref, mem.ratio>>
                        /\ Settings!Banner \/ <<eng.tracker, eng.route>> = <<mem.tracker, Settings!Route(mem.net)>>
                        /\ Settings!BestRoute(FALSE) = (IF eng.hf THEN "hf" ELSE "settings")
                        /\ "hf" \in Settings!RouteList(FALSE, FALSE) <=> eng.hf
                        /\ Settings!StatusStrip \cap {"hf fallback", "hf off"}
                             = {IF eng.hf THEN "hf fallback" ELSE "hf off"}
      BY DEF Settings!SettingsTakeEffect
    <2>1. /\ eng.hf = mem.hf /\ applied.hf = mem.hf /\ mem.hf \in BOOLEAN
          /\ eng.gated = mem.gated /\ eng.pref = mem.pref /\ eng.ratio = mem.ratio
          /\ eng.tracker = applied.tracker /\ eng.route = Settings!Route(applied.net)
      BY <1>2 DEF AppInv, AppShape, InForce, Settings!Settings
    <2>2. Settings!Banner \/ <<eng.tracker, eng.route>> = <<mem.tracker, Settings!Route(mem.net)>>
      <3>1. CASE Settings!ConnSnapshot(mem) = applied
        <4>1. applied.tracker = mem.tracker /\ applied.net = mem.net
          BY <3>1 DEF Settings!ConnSnapshot
        <4> QED
          BY <2>1, <4>1
      <3> QED
        BY <3>1 DEF Settings!Banner
    <2>3. Settings!HfState = IF eng.hf THEN "on" ELSE "off"
      BY <2>1 DEF Settings!HfState
    <2>4. Settings!BestRoute(FALSE) = (IF eng.hf THEN "hf" ELSE "settings")
      BY <2>3 DEF Settings!BestRoute
    <2>5. "hf" \in Settings!RouteList(FALSE, FALSE) <=> eng.hf
      BY <2>1, <2>3 DEF Settings!RouteList
    <2>6. Settings!StatusStrip \cap {"hf fallback", "hf off"}
            = {IF eng.hf THEN "hf fallback" ELSE "hf off"}
      BY <2>1 DEF Settings!StatusStrip
    <2> QED
      BY <2>1, <2>2, <2>4, <2>5, <2>6
  <1>3. AppInv => Settings!ServedIffWanted /\ Settings!StopIsKept
    BY DEF AppInv, StopWritten, Settings!StopIsKept
  <1>4. AppInv => SettingsInv
    BY <1>1, <1>2, <1>3 DEF SettingsInv
  <1> QED
    BY <1>4, AppAlways, PTL

-----------------------------------------------------------------------------
(* The search page (Browse) *)

BrowseInv ==
    /\ results \in Seq(Rows) /\ Search!IsInjective(results)
    /\ searching \in BOOLEAN /\ loadingMore \in BOOLEAN /\ next \in BOOLEAN /\ failed \in BOOLEAN
    /\ home \in BOOLEAN
    /\ Search!IsABag(pages) /\ DOMAIN pages \subseteq {"search", "more"}
    /\ Search!WaitsForPages

LEMMA BagGrows ==
    ASSUME NEW B, Search!IsABag(B), NEW k
    PROVE  LET C == Search!(+)(B, Search!SetToBag({k}))
           IN  Search!IsABag(C) /\ DOMAIN C = DOMAIN B \cup {k}
  BY DEF Search!IsABag, Search!SetToBag, Search!(+)

LEMMA BagShrinks ==
    ASSUME NEW B, Search!IsABag(B), NEW k
    PROVE  LET C == Search!(-)(B, Search!SetToBag({k}))
           IN  Search!IsABag(C) /\ DOMAIN C \subseteq DOMAIN B
  <1> DEFINE D == [e \in DOMAIN B |-> IF e \in {k} THEN B[e] - 1 ELSE B[e]]
             C == [e \in {d \in DOMAIN B : D[d] > 0} |-> D[e]]
  <1>1. \A e \in DOMAIN B : B[e] \in Nat /\ B[e] > 0
    BY DEF Search!IsABag
  <1>2. \A e \in DOMAIN B : D[e] \in Nat
    BY <1>1
  <1>3. Search!(-)(B, Search!SetToBag({k})) = C
    BY DEF Search!SetToBag, Search!(-)
  <1>4. \A e \in DOMAIN C : C[e] \in Nat /\ C[e] > 0
    BY <1>2
  <1> QED
    BY <1>3, <1>4 DEF Search!IsABag

(* The rows of a page that are not listed yet can follow the ones that are. *)
LEMMA RowsAppend ==
    ASSUME NEW r \in Seq(Rows), NEW f \in Seq(Rows), Search!IsInjective(r), Search!IsInjective(f),
           Search!Range(f) \cap Search!Range(r) = {}
    PROVE  r \o f \in Seq(Rows) /\ Search!IsInjective(r \o f)
  <1>1. r \o f \in Seq(Rows)
    BY ConcatProperties
  <1>2. /\ Len(r) \in Nat /\ Len(f) \in Nat /\ Len(r \o f) = Len(r) + Len(f)
        /\ DOMAIN r = 1 .. Len(r) /\ DOMAIN f = 1 .. Len(f) /\ DOMAIN (r \o f) = 1 .. Len(r) + Len(f)
    BY <1>1, ConcatProperties, LenProperties
  <1>3. \A n \in 1 .. Len(r) + Len(f) : (r \o f)[n] = IF n <= Len(r) THEN r[n] ELSE f[n - Len(r)]
    BY ConcatProperties
  <1>4. ASSUME NEW m \in 1 .. Len(r) + Len(f), NEW n \in 1 .. Len(r) + Len(f),
               (r \o f)[m] = (r \o f)[n]
        PROVE  m = n
    <2>1. CASE m <= Len(r) /\ n <= Len(r)
      <3>1. m \in DOMAIN r /\ n \in DOMAIN r /\ r[m] = r[n]
        BY <1>2, <1>3, <1>4, <2>1
      <3> QED
        BY <3>1 DEF Search!IsInjective
    <2>2. CASE m > Len(r) /\ n > Len(r)
      <3>1. m - Len(r) \in DOMAIN f /\ n - Len(r) \in DOMAIN f /\ f[m - Len(r)] = f[n - Len(r)]
        BY <1>2, <1>3, <1>4, <2>2
      <3>2. m - Len(r) = n - Len(r)
        BY <3>1 DEF Search!IsInjective
      <3> QED
        BY <1>2, <3>2
    <2>3. CASE m <= Len(r) /\ n > Len(r)
      <3>1. m \in DOMAIN r /\ n - Len(r) \in DOMAIN f /\ r[m] = f[n - Len(r)]
        BY <1>2, <1>3, <1>4, <2>3
      <3> QED
        BY <3>1 DEF Search!Range
    <2>4. CASE m > Len(r) /\ n <= Len(r)
      <3>1. n \in DOMAIN r /\ m - Len(r) \in DOMAIN f /\ r[n] = f[m - Len(r)]
        BY <1>2, <1>3, <1>4, <2>4
      <3> QED
        BY <3>1 DEF Search!Range
    <2> QED
      BY <1>2, <2>1, <2>2, <2>3, <2>4
  <1> QED
    BY <1>1, <1>2, <1>4 DEF Search!IsInjective

LEMMA ListingTyped ==
    ASSUME NEW f \in Search!Listings
    PROVE  f \in Seq(Rows) /\ Search!IsInjective(f)
  <1>1. PICK n \in 0 .. Search!Cardinality(Rows) : f \in [1 .. n -> Rows]
    BY DEF Search!Listings, Search!Pages
  <1>2. n \in Nat
    BY <1>1
  <1> QED
    BY <1>1, <1>2 DEF Search!Listings

LEMMA BrowseInit == Search!Init => BrowseInv
  <1> SUFFICES ASSUME Search!Init PROVE BrowseInv
    OBVIOUS
  <1>1. results = <<>> /\ <<>> \in Seq(Rows) /\ DOMAIN results = {}
    BY EmptySeq DEF Search!Init
  <1>2. DOMAIN pages = {} /\ Search!IsABag(pages)
    BY DEF Search!Init, Search!EmptyBag, Search!SetToBag, Search!IsABag
  <1> QED
    BY <1>1, <1>2 DEF Search!Init, BrowseInv, Search!IsInjective, Search!WaitsForPages

LEMMA BrowseStep ==
    ASSUME BrowseInv, Search!Next
    PROVE  BrowseInv'
  <1>0. Search!IsABag(pages) /\ DOMAIN pages \subseteq {"search", "more"}
    BY DEF BrowseInv
  <1>1. CASE Search!Search \/ Search!HomeFeed
    <2>1. /\ Search!StartSearch /\ home' \in BOOLEAN
      BY <1>1 DEF Search!Search, Search!HomeFeed, BrowseInv
    <2>2. Search!IsABag(pages') /\ DOMAIN pages' = DOMAIN pages \cup {"search"}
      BY <1>0, <2>1, BagGrows DEF Search!StartSearch
    <2> QED
      BY <1>0, <2>1, <2>2
      DEF BrowseInv, Search!StartSearch, Search!WaitsForPages, Search!InFlight, Search!BagIn, Search!BagToSet,
          Search!IsInjective
  <1>2. CASE Search!LoadMore
    <2>1. Search!IsABag(pages') /\ DOMAIN pages' = DOMAIN pages \cup {"more"}
      BY <1>0, <1>2, BagGrows DEF Search!LoadMore
    <2> QED
      BY <1>0, <1>2, <2>1
      DEF BrowseInv, Search!LoadMore, Search!LoadMoreShown, Search!WaitsForPages, Search!InFlight, Search!BagIn,
          Search!BagToSet, Search!IsInjective
  <1>3. ASSUME NEW k \in {"search", "more"}, Search!PageFails(k)
        PROVE  BrowseInv'
    <2>1. Search!IsABag(pages') /\ DOMAIN pages' \subseteq {"search", "more"}
      BY <1>0, <1>3, BagShrinks DEF Search!PageFails
    <2> QED
      BY <1>3, <2>1 DEF BrowseInv, Search!PageFails, Search!WaitsForPages, Search!IsInjective
  <1>4. ASSUME NEW k \in {"search", "more"}, NEW page \in Search!Listings, NEW more \in BOOLEAN,
               Search!PageArrives(k, page, more)
        PROVE  BrowseInv'
    <2>1. Search!IsABag(pages') /\ DOMAIN pages' \subseteq {"search", "more"}
      BY <1>0, <1>4, BagShrinks DEF Search!PageArrives
    <2>2. results' \in Seq(Rows) /\ Search!IsInjective(results')
      <3>1. CASE k = "more"
        <4>1. PICK fresh \in Search!Listings :
                Search!OverlapDropped(results, page, fresh) /\ results' = results \o fresh
          BY <1>4, <3>1 DEF Search!PageArrives
        <4>2. Search!Range(fresh) \cap Search!Range(results) = {}
          BY <4>1 DEF Search!OverlapDropped
        <4>3. results \in Seq(Rows) /\ Search!IsInjective(results)
          BY DEF BrowseInv
        <4> QED
          BY <4>1, <4>2, <4>3, ListingTyped, RowsAppend
      <3>2. CASE k # "more"
        <4>1. results' = page
          BY <1>4, <3>2 DEF Search!PageArrives
        <4> QED
          BY <4>1, ListingTyped
      <3> QED
        BY <3>1, <3>2
    <2> QED
      BY <1>4, <2>1, <2>2 DEF BrowseInv, Search!PageArrives, Search!WaitsForPages, Search!IsInjective
  <1> QED
    BY <1>1, <1>2, <1>3, <1>4 DEF Search!Next, Search!Arrive

LEMMA BrowseFrame ==
    ASSUME BrowseInv, UNCHANGED browseVars
    PROVE  BrowseInv'
  BY DEF BrowseInv, browseVars, Search!IsInjective, Search!IsABag, Search!WaitsForPages, Search!InFlight,
     Search!BagIn, Search!BagToSet

-----------------------------------------------------------------------------
(* The rows of models and of the Library (LibraryRows) *)

LibRuns ==
    /\ run \in [Titles -> [st : {"none", "queued", "active"}, at : Nat, ctl : {"none", "pause", "stop"}]]
    /\ \A t \in Titles : /\ run[t].at <= Len(Artifacts[t]) + 1
                         /\ run[t].st # "none" => run[t].at > 0
    /\ msgs \in [Titles -> Seq({"ok", "paused", "stopped", "failed"})]

LibCards ==
    /\ card \in [Titles -> Library!Card]
    /\ manifests \subseteq Titles
    /\ popup = Library!NoPopup \/ popup \in [of : Titles \ Linked, cached : BOOLEAN]
    /\ asked \in [what : {"none", "delete", "download"}, of : Titles \cup Files \cup {"none"}]
    /\ asked.what = "delete" => asked.of \in Files
    /\ asked.what = "download" => asked.of \in Titles \cap Linked
    /\ ops \in 0 .. MaxOps

(* The index has a row for every file, and no others unless a file went
   unnoticed. *)
LibDisk ==
    /\ untold \in BOOLEAN /\ file \subseteq index /\ index \subseteq Files
    /\ seen \subseteq Files /\ listed \subseteq Files
    /\ ~untold => index = file /\ seen \subseteq file /\ listed \subseteq file

(* A title with a row that has a card is known to the database: only a new
   one adds to what the Library would list. *)
CardsKnown == \A t \in Titles \ Linked : card[t] # "none" => t \in manifests

LibInv == LibRuns /\ LibCards /\ LibDisk /\ CardsKnown /\ Library!RowsAreCurrent

(* Nothing is under way of title t. *)
Quiet(t) == run[t].st = "none" /\ msgs[t] = <<>>

LEMMA TitleFacts ==
    ASSUME NEW t \in Titles
    PROVE  /\ Artifacts[t] \in Seq(Files) /\ Len(Artifacts[t]) \in Nat /\ Len(Artifacts[t]) > 0
           /\ Library!First(t) \in Files /\ Weights[t] \subseteq Files
           /\ \A n \in 1 .. Len(Artifacts[t]) : Artifacts[t][n] \in Files
  <1>1. /\ Artifacts \in [Titles -> Seq(Files)] /\ Weights \in [Titles -> SUBSET Files]
        /\ Len(Artifacts[t]) > 0
    BY PagesAssumed DEF Library!LibraryAssumption
  <1>2. PICK a \in Seq(Files) : a = Artifacts[t] /\ Len(a) > 0
    BY <1>1
  <1>3. Len(a) \in Nat /\ (\A n \in 1 .. Len(a) : a[n] \in Files) /\ 1 \in 1 .. Len(a)
    BY <1>2, LenProperties
  <1> QED
    BY <1>1, <1>2, <1>3 DEF Library!First

LEMMA OpsGrow ==
    ASSUME ops \in 0 .. MaxOps, Library!Click
    PROVE  ops' \in 0 .. MaxOps
  BY PagesAssumed DEF Library!LibraryAssumption, Library!Click

(* A refresh makes the snapshot of what is on disk. *)
LEMMA RefreshFacts ==
    ASSUME NEW fs, NEW rows, fs \subseteq rows, rows \subseteq Files, Library!Refresh(fs, rows)
    PROVE  /\ index' = fs /\ seen' = fs /\ ~untold' /\ untold' \in BOOLEAN
           /\ listed' = Library!InstalledModels(fs) /\ listed' \subseteq fs
  <1>1. rows \cap fs = fs
    OBVIOUS
  <1> QED
    BY <1>1 DEF Library!Refresh, Library!InstalledModels

(* A step that refreshes the snapshot of files that are still there. *)
LEMMA RefreshKeeps ==
    ASSUME LibInv, NEW gone, file' = file \ gone, Library!Refresh(file \ gone, index \ gone),
           UNCHANGED manifests
    PROVE  LibDisk' /\ Library!RowsAreCurrent'
  <1>1. file \ gone \subseteq index \ gone /\ index \ gone \subseteq Files
    BY DEF LibInv, LibDisk
  <1>2. /\ index' = file \ gone /\ seen' = file \ gone /\ ~untold' /\ untold' \in BOOLEAN
        /\ listed' = Library!InstalledModels(file \ gone) /\ listed' \subseteq file \ gone
    BY <1>1, RefreshFacts
  <1>3. LibDisk'
    BY <1>1, <1>2 DEF LibDisk
  <1>4. Library!RowsAreCurrent'
    BY <1>2 DEF Library!RowsAreCurrent, Library!InstalledModels, Library!First
  <1> QED
    BY <1>3, <1>4

(* A step that leaves the store and the snapshot alone, and ends nothing that
   was under way. *)
LEMMA QuietKeeps ==
    ASSUME LibInv, UNCHANGED <<file, index, seen, listed, untold>>,
           \A t \in Titles : Quiet(t)' => Quiet(t),
           manifests' = manifests \/ \E t \in Titles : ~Quiet(t)'
    PROVE  LibDisk' /\ Library!RowsAreCurrent'
  <1>1. LibDisk'
    BY DEF LibInv, LibDisk
  <1>2. ASSUME ~untold', \A t \in Titles : Quiet(t)'
        PROVE  seen' = file' /\ listed' = Library!InstalledModels(file)'
    <2>1. manifests' = manifests /\ ~untold /\ \A t \in Titles : Quiet(t)
      BY <1>2
    <2>2. seen = file /\ listed = Library!InstalledModels(file)
      BY <2>1 DEF LibInv, Library!RowsAreCurrent, Quiet
    <2> QED
      BY <2>1, <2>2 DEF Library!InstalledModels, Library!First
  <1>3. Library!RowsAreCurrent'
    BY <1>2 DEF Library!RowsAreCurrent, Quiet, Library!InstalledModels, Library!First
  <1> QED
    BY <1>1, <1>3

(* A run is started, or its refusal is on its way. *)
LEMMA StartRunFacts ==
    ASSUME LibRuns, NEW t \in Titles, Library!StartRun(t)
    PROVE  /\ LibRuns'
           /\ \A o \in Titles : Quiet(o)' => Quiet(o)
           /\ ~Quiet(t)'
  <1> DEFINE new == [st |-> "queued", at |-> 1, ctl |-> "none"]
             RunRec == [st : {"none", "queued", "active"}, at : Nat, ctl : {"none", "pause", "stop"}]
  <1>1. new \in RunRec /\ new.st = "queued" /\ new.at = 1
    OBVIOUS
  <1>2. CASE run[t].st = "none"
    <2>1. run' = [run EXCEPT ![t] = new] /\ msgs' = msgs
      BY <1>2 DEF Library!StartRun
    <2>2. run' \in [Titles -> RunRec] /\ run'[t] = new /\ \A o \in Titles \ {t} : run'[o] = run[o]
      BY <1>1, <2>1 DEF LibRuns
    <2> HIDE DEF new
    <2> QED
      BY <1>1, <1>2, <2>1, <2>2, TitleFacts DEF LibRuns, Quiet
  <1>3. CASE run[t].st # "none"
    <2>1. run' = run /\ msgs' = [msgs EXCEPT ![t] = Append(@, "failed")]
      BY <1>3 DEF Library!StartRun
    <2>2. msgs' \in [Titles -> Seq({"ok", "paused", "stopped", "failed"})]
      BY <2>1 DEF LibRuns
    <2>3. \A o \in Titles : run'[o] = run[o] /\ (o # t => msgs'[o] = msgs[o])
      BY <2>1 DEF LibRuns
    <2> QED
      BY <1>3, <2>1, <2>2, <2>3 DEF LibRuns, Quiet
  <1> QED
    BY <1>2, <1>3

LEMMA SpawnFacts ==
    ASSUME LibRuns, card \in [Titles -> Library!Card], NEW t \in Titles, Library!SpawnTransfer(t)
    PROVE  /\ LibRuns' /\ card' \in [Titles -> Library!Card]
           /\ \A o \in Titles : Quiet(o)' => Quiet(o)
           /\ card[t] = "none" => ~Quiet(t)'
           /\ \A o \in Titles : o # t => card'[o] = card[o]
  <1>1. CASE card[t] # "none"
    <2>1. UNCHANGED <<card, run, msgs>>
      BY <1>1 DEF Library!SpawnTransfer
    <2> QED
      BY <1>1, <2>1 DEF LibRuns, Quiet
  <1>2. CASE card[t] = "none"
    <2>1. card' = [card EXCEPT ![t] = "idle"] /\ Library!StartRun(t)
      BY <1>2 DEF Library!SpawnTransfer
    <2> QED
      BY <2>1, StartRunFacts DEF Library!Card
  <1> QED
    BY <1>1, <1>2

(* A run hears a command: nothing starts or ends by it. *)
LEMMA TellFacts ==
    ASSUME LibRuns, NEW t \in Titles, NEW what \in {"pause", "stop"}, Library!Tell(t, what),
           UNCHANGED msgs
    PROVE  LibRuns' /\ \A o \in Titles : Quiet(o)' => Quiet(o)
  <1> DEFINE new == [run[t] EXCEPT !.ctl = IF @ = "stop" THEN @ ELSE what]
             RunRec == [st : {"none", "queued", "active"}, at : Nat, ctl : {"none", "pause", "stop"}]
  <1>1. run[t] \in RunRec
    BY DEF LibRuns
  <1>2. new \in RunRec /\ new.st = run[t].st /\ new.at = run[t].at
    BY <1>1
  <1>3. run' = run \/ run' = [run EXCEPT ![t] = new]
    BY DEF Library!Tell
  <1> HIDE DEF new
  <1>4. run' \in [Titles -> RunRec] /\ \A o \in Titles : run'[o].st = run[o].st /\ run'[o].at = run[o].at
    BY <1>2, <1>3 DEF LibRuns
  <1> QED
    BY <1>4 DEF LibRuns, Quiet

LEMMA LibInit ==
    ASSUME Library!Init
    PROVE  LibInv
  <1> DEFINE RunRec == [st : {"none", "queued", "active"}, at : Nat, ctl : {"none", "pause", "stop"}]
  <1>1. Library!NoRun \in RunRec /\ Library!NoRun.at = 0 /\ Library!NoRun.st = "none"
    BY DEF Library!NoRun
  <1> HIDE DEF Library!NoRun
  <1>2. run = [t \in Titles |-> Library!NoRun] /\ msgs = [t \in Titles |-> <<>>]
    BY DEF Library!Init
  <1>3. \A t \in Titles : run[t] = Library!NoRun /\ msgs[t] = <<>>
    BY <1>2
  <1>4. LibRuns
    <2>1. run \in [Titles -> RunRec]
      BY <1>1, <1>2
    <2>2. msgs \in [Titles -> Seq({"ok", "paused", "stopped", "failed"})]
      BY <1>2
    <2>3. \A t \in Titles : run[t].at <= Len(Artifacts[t]) + 1 /\ run[t].st = "none"
      BY <1>1, <1>3, TitleFacts
    <2> QED
      BY <2>1, <2>2, <2>3 DEF LibRuns
  <1>5. /\ file \subseteq Files /\ index = file /\ seen = file
        /\ manifests = {t \in Titles : Library!First(t) \in file}
        /\ listed = {Library!First(t) : t \in manifests}
    BY DEF Library!Init
  <1>6. listed = Library!InstalledModels(file) /\ listed \subseteq file
    BY <1>5 DEF Library!InstalledModels
  <1>7. LibDisk /\ Library!RowsAreCurrent
    BY <1>5, <1>6 DEF LibDisk, Library!RowsAreCurrent, Library!Init
  <1>8. LibCards /\ CardsKnown
    <2>1. /\ card = [t \in Titles |-> "none"] /\ popup = Library!NoPopup
          /\ asked = Library!NotAsked /\ ops = 0
      BY DEF Library!Init
    <2>2. Library!NotAsked \in [what : {"none", "delete", "download"}, of : Titles \cup Files \cup {"none"}]
          /\ Library!NotAsked.what = "none"
      BY DEF Library!NotAsked
    <2>3. ops \in 0 .. MaxOps
      BY <2>1, PagesAssumed DEF Library!LibraryAssumption
    <2>4. card \in [Titles -> Library!Card] /\ \A t \in Titles : card[t] = "none"
      BY <2>1 DEF Library!Card
    <2> QED
      BY <1>5, <2>1, <2>2, <2>3, <2>4 DEF LibCards, CardsKnown
  <1> QED
    BY <1>4, <1>7, <1>8 DEF LibInv

(* A click that only starts or answers something of title t. *)
LEMMA SpawnKeeps ==
    ASSUME LibInv, NEW t \in Titles, Library!SpawnTransfer(t),
           UNCHANGED <<file, index, seen, listed, untold>>,
           manifests' = manifests \/ (manifests' = manifests \cup {t} /\ t \in Titles \ Linked),
           t \in Titles \ Linked => t \in manifests',
           ops' = ops \/ Library!Click,
           popup' = popup \/ popup' = Library!NoPopup,
           asked' = asked \/ asked' = Library!NotAsked
    PROVE  LibInv'
  <1>1. /\ LibRuns' /\ card' \in [Titles -> Library!Card]
        /\ \A o \in Titles : Quiet(o)' => Quiet(o)
        /\ card[t] = "none" => ~Quiet(t)'
        /\ \A o \in Titles : o # t => card'[o] = card[o]
    BY SpawnFacts DEF LibInv, LibCards
  <1>2. manifests' = manifests \/ \E o \in Titles : ~Quiet(o)'
    <2>1. CASE card[t] = "none"
      BY <1>1, <2>1
    <2>2. CASE card[t] # "none" /\ t \notin Linked
      <3>1. t \in manifests
        BY <2>2 DEF LibInv, CardsKnown
      <3> QED
        BY <3>1
    <2> QED
      BY <2>1, <2>2
  <1>3. LibDisk' /\ Library!RowsAreCurrent'
    BY <1>1, <1>2, QuietKeeps
  <1>4. CardsKnown'
    BY <1>1 DEF LibInv, CardsKnown
  <1>5. LibCards'
    <2>1. ops' \in 0 .. MaxOps
      BY OpsGrow DEF LibInv, LibCards
    <2>2. Library!NotAsked \in [what : {"none", "delete", "download"}, of : Titles \cup Files \cup {"none"}]
          /\ Library!NotAsked.what = "none"
      BY DEF Library!NotAsked
    <2>3. manifests' \subseteq Titles
      BY DEF LibInv, LibCards
    <2> QED
      BY <1>1, <2>1, <2>2, <2>3 DEF LibInv, LibCards
  <1> QED
    BY <1>1, <1>3, <1>4, <1>5 DEF LibInv

(* A step of the runs and cards that adds no manifest of a title without a
   run and gives no title a card. *)
LEMMA CardStepKeeps ==
    ASSUME LibInv, LibRuns', UNCHANGED <<file, index, seen, listed, untold, popup, asked>>,
           \A o \in Titles : Quiet(o)' => Quiet(o),
           manifests \subseteq manifests', manifests' \subseteq Titles,
           manifests' = manifests \/ \E o \in Titles : ~Quiet(o)',
           card' \in [Titles -> Library!Card],
           \A o \in Titles : card'[o] # "none" => card[o] # "none",
           ops' = ops \/ Library!Click
    PROVE  LibInv'
  <1>1. LibDisk' /\ Library!RowsAreCurrent'
    BY QuietKeeps
  <1>2. CardsKnown'
    BY DEF LibInv, CardsKnown
  <1>3. ops' \in 0 .. MaxOps
    BY OpsGrow DEF LibInv, LibCards
  <1>4. LibCards'
    BY <1>3 DEF LibInv, LibCards
  <1> QED
    BY <1>1, <1>2, <1>4 DEF LibInv

(* A step that opens or closes a dialog and moves no card. *)
LEMMA DialogKeeps ==
    ASSUME LibInv, UNCHANGED <<manifests, card, run, msgs>>,
           LibDisk', Library!RowsAreCurrent',
           ops' = ops \/ Library!Click,
           popup' = popup \/ popup' = Library!NoPopup \/ popup' \in [of : Titles \ Linked, cached : BOOLEAN],
           asked' = asked \/ asked' = Library!NotAsked
             \/ (asked' \in [what : {"delete"}, of : Files])
             \/ (asked' \in [what : {"download"}, of : Titles \cap Linked])
    PROVE  LibInv'
  <1>1. LibRuns' /\ CardsKnown'
    BY DEF LibInv, LibRuns, CardsKnown
  <1>2. ops' \in 0 .. MaxOps
    BY OpsGrow DEF LibInv, LibCards
  <1>3. Library!NotAsked \in [what : {"none", "delete", "download"}, of : Titles \cup Files \cup {"none"}]
        /\ Library!NotAsked.what = "none"
    BY DEF Library!NotAsked
  <1>4. /\ asked' \in [what : {"none", "delete", "download"}, of : Titles \cup Files \cup {"none"}]
        /\ asked'.what = "delete" => asked'.of \in Files
        /\ asked'.what = "download" => asked'.of \in Titles \cap Linked
    <2>1. CASE asked' = asked
      BY <2>1 DEF LibInv, LibCards
    <2>2. CASE asked' = Library!NotAsked
      BY <2>2, <1>3
    <2>3. CASE asked' \in [what : {"delete"}, of : Files]
      BY <2>3
    <2>4. CASE asked' \in [what : {"download"}, of : Titles \cap Linked]
      BY <2>4
    <2> QED
      BY <2>1, <2>2, <2>3, <2>4
  <1>5. LibCards'
    BY <1>2, <1>4 DEF LibInv, LibCards
  <1> QED
    BY <1>1, <1>5 DEF LibInv

(* A step of one run that leaves something of its title under way. *)
LEMMA RunStepFacts ==
    ASSUME LibRuns, NEW t \in Titles, Library!Runs(t)
    PROVE  LibRuns' /\ ~Quiet(t)' /\ \A o \in Titles : Quiet(o)' => Quiet(o)
  <1> DEFINE RunRec == [st : {"none", "queued", "active"}, at : Nat, ctl : {"none", "pause", "stop"}]
  <1>t. run[t] \in RunRec /\ run[t].at <= Len(Artifacts[t]) + 1 /\ Len(Artifacts[t]) \in Nat
    BY TitleFacts DEF LibRuns
  <1>1. CASE Library!RunBegins(t)
    <2> DEFINE new == [run[t] EXCEPT !.st = "active"]
    <2>1. new \in RunRec /\ new.st = "active" /\ new.at = run[t].at
      BY <1>t
    <2>2. run' = [run EXCEPT ![t] = new] /\ msgs' = msgs
      BY <1>1 DEF Library!RunBegins
    <2> HIDE DEF new
    <2>3. run' \in [Titles -> RunRec] /\ run'[t] = new /\ \A o \in Titles : o # t => run'[o] = run[o]
      BY <2>1, <2>2 DEF LibRuns
    <2>4. run[t].st # "none"
      BY <1>1 DEF Library!RunBegins
    <2> QED
      BY <1>t, <2>1, <2>2, <2>3, <2>4 DEF LibRuns, Quiet
  <1>2. CASE Library!FetchFile(t)
    <2> DEFINE new == [run[t] EXCEPT !.at = @ + 1]
    <2>1. run[t].st = "active" /\ run[t].at <= Len(Artifacts[t])
      BY <1>2 DEF Library!FetchFile
    <2>2. new \in RunRec /\ new.st = "active" /\ new.at <= Len(Artifacts[t]) + 1 /\ new.at > 0
      BY <1>t, <2>1
    <2>3. run' = [run EXCEPT ![t] = new] /\ msgs' = msgs
      BY <1>2 DEF Library!FetchFile
    <2> HIDE DEF new
    <2>4. run' \in [Titles -> RunRec] /\ run'[t] = new /\ \A o \in Titles : o # t => run'[o] = run[o]
      BY <2>2, <2>3 DEF LibRuns
    <2> QED
      BY <2>1, <2>2, <2>3, <2>4 DEF LibRuns, Quiet
  <1>3. CASE Library!RunEnds(t)
    <2>1. PICK end \in {"ok", "paused", "stopped", "failed"} : msgs' = [msgs EXCEPT ![t] = Append(@, end)]
      BY <1>3 DEF Library!RunEnds
    <2>2. run' = [run EXCEPT ![t] = Library!NoRun] /\ run[t].st # "none"
      BY <1>3 DEF Library!RunEnds
    <2>3. Library!NoRun \in RunRec /\ Library!NoRun.at = 0 /\ Library!NoRun.st = "none"
      BY DEF Library!NoRun
    <2> HIDE DEF Library!NoRun
    <2>4. /\ run' \in [Titles -> RunRec] /\ run'[t] = Library!NoRun
          /\ \A o \in Titles : o # t => run'[o] = run[o]
      BY <2>2, <2>3 DEF LibRuns
    <2>5. /\ msgs' \in [Titles -> Seq({"ok", "paused", "stopped", "failed"})] /\ msgs'[t] # <<>>
          /\ \A o \in Titles : o # t => msgs'[o] = msgs[o]
      BY <2>1 DEF LibRuns
    <2> QED
      BY <1>t, <2>2, <2>3, <2>4, <2>5 DEF LibRuns, Quiet
  <1> QED
    BY <1>1, <1>2, <1>3 DEF Library!Runs

LEMMA RunsKeep ==
    ASSUME LibInv, NEW t \in Titles, Library!Runs(t)
    PROVE  LibInv'
  <1>1. LibRuns' /\ ~Quiet(t)' /\ \A o \in Titles : Quiet(o)' => Quiet(o)
    BY RunStepFacts DEF LibInv
  <1>2. /\ UNCHANGED <<seen, listed, untold, popup, asked, card, ops>>
        /\ manifests' = manifests \/ manifests' = manifests \cup {t}
    BY DEF Library!Runs, Library!RunBegins, Library!FetchFile, Library!RunEnds
  <1>3. card' \in [Titles -> Library!Card] /\ manifests \subseteq manifests' /\ manifests' \subseteq Titles
    BY <1>2 DEF LibInv, LibCards
  <1>4. CASE ~Library!FetchFile(t)
    <2>1. UNCHANGED <<file, index>>
      BY <1>4 DEF Library!Runs, Library!RunBegins, Library!RunEnds
    <2> QED
      BY <1>1, <1>2, <1>3, <2>1, CardStepKeeps
  <1>5. CASE Library!FetchFile(t)
    <2>1. PICK f \in Files : /\ file' = IF f \in index THEN file ELSE file \cup {f}
                            /\ index' = index \cup {f}
      <3>1. run[t].at <= Len(Artifacts[t]) /\ run[t].st # "none"
        BY <1>5 DEF Library!FetchFile
      <3>2. run[t].at \in Nat /\ run[t].at > 0
        BY <3>1 DEF LibInv, LibRuns
      <3>3. run[t].at \in 1 .. Len(Artifacts[t])
        BY <3>1, <3>2, TitleFacts
      <3>4. Artifacts[t][run[t].at] \in Files
        BY <3>3, TitleFacts
      <3> QED
        BY <1>5, <3>4 DEF Library!FetchFile
    <2>2. LibDisk'
      BY <1>2, <2>1 DEF LibInv, LibDisk
    <2>3. Library!RowsAreCurrent'
      BY <1>1 DEF Library!RowsAreCurrent, Quiet
    <2>4. LibCards' /\ CardsKnown'
      BY <1>2, <1>3 DEF LibInv, LibCards, CardsKnown
    <2> QED
      BY <1>1, <2>2, <2>3, <2>4 DEF LibInv
  <1> QED
    BY <1>4, <1>5

(* A step of the dialogs alone. *)
LEMMA OnlyDialogs ==
    ASSUME LibInv, UNCHANGED <<file, index, manifests, seen, listed, untold, card, run, msgs>>
    PROVE  LibDisk' /\ Library!RowsAreCurrent'
  BY QuietKeeps DEF Quiet

(* What the user starts. *)
LEMMA StartsKeep ==
    ASSUME LibInv,
           \/ Library!PopupDownload \/ Library!ConfirmDownload
           \/ \E t \in Titles : Library!StartDownload(t) \/ Library!AddByLink(t)
    PROVE  LibInv'
  <1>1. CASE Library!PopupDownload
    <2>1. PICK t \in Titles \ Linked : t = popup.of
      BY <1>1 DEF Library!PopupDownload, LibInv, LibCards
    <2> QED
      BY <1>1, <2>1, SpawnKeeps DEF Library!PopupDownload
  <1>2. CASE Library!ConfirmDownload
    <2>1. PICK t \in Titles \cap Linked : t = asked.of
      BY <1>2 DEF Library!ConfirmDownload, LibInv, LibCards
    <2> QED
      BY <1>2, <2>1, SpawnKeeps DEF Library!ConfirmDownload
  <1>3. ASSUME NEW t \in Titles, Library!StartDownload(t) PROVE LibInv'
    BY <1>3, SpawnKeeps DEF Library!StartDownload
  <1>4. ASSUME NEW t \in Titles, Library!AddByLink(t) PROVE LibInv'
    <2>1. CASE Library!SpawnTransfer(t) /\ UNCHANGED asked
      BY <1>4, <2>1, SpawnKeeps DEF Library!AddByLink
    <2>2. CASE asked' = [what |-> "download", of |-> t] /\ UNCHANGED <<card, run, msgs>>
      <3>1. asked' \in [what : {"download"}, of : Titles \cap Linked]
        BY <1>4, <2>2 DEF Library!AddByLink
      <3>2. LibDisk' /\ Library!RowsAreCurrent'
        BY <1>4, <2>2, OnlyDialogs DEF Library!AddByLink
      <3> QED
        BY <1>4, <2>2, <3>1, <3>2, DialogKeeps DEF Library!AddByLink
    <2> QED
      BY <1>4, <2>1, <2>2 DEF Library!AddByLink
  <1> QED
    BY <1>1, <1>2, <1>3, <1>4

(* What the user does to the store, and what becomes of it outside. *)
LEMMA StoreStepsKeep ==
    ASSUME LibInv,
           \/ Library!RefreshClicked \/ Library!ConfirmDelete \/ Library!ConfirmDeleteFails \/ Library!Evict
           \/ \E f \in Files : Library!DeleteByHand(f)
    PROVE  LibInv'
  <1>1. CASE Library!RefreshClicked
    <2>1. file \ {} = file /\ index \ {} = index
      OBVIOUS
    <2>2. LibDisk' /\ Library!RowsAreCurrent'
      BY <1>1, <2>1, RefreshKeeps DEF Library!RefreshClicked
    <2> QED
      BY <1>1, <2>2, DialogKeeps DEF Library!RefreshClicked
  <1>2. CASE Library!ConfirmDelete
    <2>1. LibDisk' /\ Library!RowsAreCurrent'
      BY <1>2, RefreshKeeps DEF Library!ConfirmDelete
    <2> QED
      BY <1>2, <2>1, DialogKeeps DEF Library!ConfirmDelete
  <1>3. CASE Library!ConfirmDeleteFails
    <2>0. LibDisk /\ UNCHANGED <<index, seen, listed>>
          /\ (UNCHANGED <<file, untold>> \/ (file' = file \ {asked.of} /\ untold' = TRUE))
      BY <1>3 DEF Library!ConfirmDeleteFails, LibInv
    <2>1. LibDisk'
      <3>1. CASE UNCHANGED <<file, untold>>
        BY <2>0, <3>1 DEF LibDisk
      <3>2. CASE file' = file \ {asked.of} /\ untold' = TRUE
        BY <2>0, <3>2 DEF LibDisk
      <3> QED
        BY <2>0, <3>1, <3>2
    <2>2. Library!RowsAreCurrent'
      <3>1. CASE UNCHANGED <<file, untold>>
        <4>1. UNCHANGED <<file, index, manifests, seen, listed, untold, card, run, msgs>>
          BY <1>3, <3>1 DEF Library!ConfirmDeleteFails
        <4> QED
          BY <4>1, OnlyDialogs
      <3>2. CASE untold' = TRUE
        BY <3>2 DEF Library!RowsAreCurrent
      <3> QED
        BY <1>3, <3>1, <3>2 DEF Library!ConfirmDeleteFails
    <2> QED
      BY <1>3, <2>1, <2>2, DialogKeeps DEF Library!ConfirmDeleteFails
  <1>4. CASE Library!Evict
    <2>1. PICK gone \in SUBSET index : file' = file \ gone /\ Library!Refresh(file \ gone, index \ gone)
      BY <1>4 DEF Library!Evict
    <2>2. LibDisk' /\ Library!RowsAreCurrent'
      BY <1>4, <2>1, RefreshKeeps DEF Library!Evict
    <2> QED
      BY <1>4, <2>2, DialogKeeps DEF Library!Evict
  <1>5. ASSUME NEW f \in Files, Library!DeleteByHand(f) PROVE LibInv'
    <2>0. LibDisk /\ UNCHANGED <<index, seen, listed>> /\ file' = file \ {f} /\ untold' = TRUE
      BY <1>5 DEF Library!DeleteByHand, LibInv
    <2>1. LibDisk'
      BY <2>0 DEF LibDisk
    <2>2. Library!RowsAreCurrent'
      BY <1>5 DEF Library!DeleteByHand, Library!RowsAreCurrent
    <2> QED
      BY <1>5, <2>1, <2>2, DialogKeeps DEF Library!DeleteByHand
  <1> QED
    BY <1>1, <1>2, <1>3, <1>4, <1>5

(* What a row says is a statement about the snapshot. *)
LEMMA DownloadedFacts ==
    ASSUME NEW t \in Titles
    PROVE  /\ Library!Downloaded(t) \in BOOLEAN
           /\ Library!Downloaded(t) => Weights[t] \subseteq seen
  <1>1. Library!FileRow(t) \in BOOLEAN /\ Library!QuantRow(t) \in BOOLEAN /\ Library!BundleRow(t) \in BOOLEAN
    BY DEF Library!FileRow, Library!QuantRow, Library!BundleRow, Library!InSnapshot
  <1>2. /\ Library!QuantRow(t) => Weights[t] \subseteq seen
        /\ Library!BundleRow(t) => Weights[t] \subseteq seen
    BY DEF Library!QuantRow, Library!BundleRow, Library!InSnapshot
  <1>3. CASE Len(Artifacts[t]) = 1
    <2>1. Library!Row(t) = "file"
      BY <1>3 DEF Library!Row
    <2>2. Library!Downloaded(t) = Library!FileRow(t)
      BY <2>1 DEF Library!Downloaded
    <2>3. Weights[t] = {Library!First(t)}
      BY <1>3, PagesAssumed DEF Library!LibraryAssumption
    <2>4. Library!FileRow(t) => Weights[t] \subseteq seen
      BY <2>3 DEF Library!FileRow, Library!InSnapshot
    <2> QED
      BY <1>1, <2>2, <2>4
  <1>4. CASE Library!Row(t) = "quant"
    <2>1. Library!Downloaded(t) = Library!QuantRow(t)
      BY <1>4 DEF Library!Downloaded
    <2> QED
      BY <1>1, <1>2, <2>1
  <1>5. CASE Library!Row(t) = "bundle"
    <2>1. Library!Downloaded(t) = Library!BundleRow(t)
      BY <1>5 DEF Library!Downloaded
    <2> QED
      BY <1>1, <1>2, <2>1
  <1> QED
    BY <1>3, <1>4, <1>5 DEF Library!Row

(* Dialogs that open and close. *)
LEMMA DialogsKeep ==
    ASSUME LibInv,
           \/ Library!CloseQuantDetail \/ Library!Cancel
           \/ \E t \in Titles : Library!OpenQuantDetail(t)
           \/ \E f \in Files : Library!RequestDelete(f)
    PROVE  LibInv'
  <1>1. LibDisk' /\ Library!RowsAreCurrent'
    BY OnlyDialogs DEF Library!CloseQuantDetail, Library!Cancel, Library!OpenQuantDetail, Library!RequestDelete
  <1>2. CASE Library!CloseQuantDetail
    BY <1>1, <1>2, DialogKeeps DEF Library!CloseQuantDetail
  <1>3. CASE Library!Cancel
    BY <1>1, <1>3, DialogKeeps DEF Library!Cancel
  <1>4. ASSUME NEW t \in Titles, Library!OpenQuantDetail(t) PROVE LibInv'
    <2>1. Library!Downloaded(t) \in BOOLEAN
      BY DownloadedFacts
    <2>2. popup' \in [of : Titles \ Linked, cached : BOOLEAN]
      BY <1>4, <2>1 DEF Library!OpenQuantDetail
    <2> QED
      BY <1>1, <1>4, <2>2, DialogKeeps DEF Library!OpenQuantDetail
  <1>5. ASSUME NEW f \in Files, Library!RequestDelete(f) PROVE LibInv'
    <2>1. asked' \in [what : {"delete"}, of : Files]
      BY <1>5 DEF Library!RequestDelete
    <2> QED
      BY <1>1, <1>5, <2>1, DialogKeeps DEF Library!RequestDelete
  <1> QED
    BY <1>2, <1>3, <1>4, <1>5

(* What the user does to a card, and what the engine reports of it. *)
LEMMA CardsKeep ==
    ASSUME LibInv, NEW t \in Titles,
           \/ Library!SyncCard(t) \/ Library!PauseOrStop(t) \/ Library!ResumeOrRetry(t)
           \/ Library!RemoveTransfer(t)
    PROVE  LibInv'
  <1>1. LibRuns /\ card \in [Titles -> Library!Card] /\ manifests \subseteq Titles
    BY DEF LibInv, LibCards
  <1>2. CASE Library!SyncCard(t)
    <2>1. Library!Synced(t) \in Library!Card
      BY <1>1 DEF Library!Synced, Library!Card, LibRuns
    <2>2. /\ card' \in [Titles -> Library!Card]
          /\ \A o \in Titles : card'[o] # "none" => card[o] # "none"
      BY <1>1, <1>2, <2>1 DEF Library!SyncCard
    <2>3. LibRuns' /\ \A o \in Titles : Quiet(o)' => Quiet(o)
      BY <1>1, <1>2 DEF Library!SyncCard, LibRuns, Quiet
    <2> QED
      BY <1>1, <1>2, <2>2, <2>3, CardStepKeeps DEF Library!SyncCard
  <1>3. CASE Library!PauseOrStop(t)
    <2>1. PICK what \in {"pause", "stop"} : Library!Tell(t, what)
      BY <1>3 DEF Library!PauseOrStop
    <2>2. LibRuns' /\ \A o \in Titles : Quiet(o)' => Quiet(o)
      BY <1>1, <1>3, <2>1, TellFacts DEF Library!PauseOrStop
    <2> QED
      BY <1>1, <1>3, <2>2, CardStepKeeps DEF Library!PauseOrStop
  <1>4. CASE Library!ResumeOrRetry(t)
    <2>1. card[t] # "none"
      BY <1>4 DEF Library!ResumeOrRetry, Library!Offers
    <2>2. card' = [card EXCEPT ![t] = "idle"] /\ Library!StartRun(t)
      BY <1>4 DEF Library!ResumeOrRetry
    <2>3. /\ card' \in [Titles -> Library!Card]
          /\ \A o \in Titles : card'[o] # "none" => card[o] # "none"
      BY <1>1, <2>1, <2>2 DEF Library!Card
    <2>4. LibRuns' /\ \A o \in Titles : Quiet(o)' => Quiet(o)
      BY <1>1, <2>2, StartRunFacts
    <2> QED
      BY <1>1, <1>4, <2>3, <2>4, CardStepKeeps DEF Library!ResumeOrRetry
  <1>5. CASE Library!RemoveTransfer(t)
    <2>1. Library!Tell(t, "stop") /\ card' = [card EXCEPT ![t] = "none"] /\ msgs' = msgs
      BY <1>5 DEF Library!RemoveTransfer
    <2>2. LibRuns' /\ \A o \in Titles : Quiet(o)' => Quiet(o)
      BY <1>1, <2>1, TellFacts
    <2>3. /\ card' \in [Titles -> Library!Card]
          /\ \A o \in Titles : card'[o] # "none" => card[o] # "none"
      BY <1>1, <2>1 DEF Library!Card
    <2> QED
      BY <1>1, <1>5, <2>2, <2>3, CardStepKeeps DEF Library!RemoveTransfer
  <1> QED
    BY <1>2, <1>3, <1>4, <1>5

LEMMA PauseAllKeeps ==
    ASSUME LibInv, Library!PauseAll
    PROVE  LibInv'
  <1> DEFINE RunRec == [st : {"none", "queued", "active"}, at : Nat, ctl : {"none", "pause", "stop"}]
             Heard(o) == [run[o] EXCEPT !.ctl = "pause"]
             Asked(o) == card[o] \in {"running", "queued"} /\ run[o].st # "none" /\ run[o].ctl = "none"
  <1>1. LibRuns /\ run \in [Titles -> RunRec] /\ card \in [Titles -> Library!Card] /\ manifests \subseteq Titles
    BY DEF LibInv, LibCards, LibRuns
  <1>2. \A o \in Titles : /\ Heard(o) \in RunRec
                         /\ Heard(o).st = run[o].st /\ Heard(o).at = run[o].at
    BY <1>1
  <1>3. run' = [o \in Titles |-> IF Asked(o) THEN Heard(o) ELSE run[o]]
    BY DEF Library!PauseAll
  <1> HIDE DEF Heard, Asked
  <1>4. /\ run' \in [Titles -> RunRec]
        /\ \A o \in Titles : run'[o].st = run[o].st /\ run'[o].at = run[o].at
    <2>1. \A o \in Titles : run'[o] = Heard(o) \/ run'[o] = run[o]
      BY <1>3
    <2>2. \A o \in Titles : run'[o] \in RunRec
      BY <1>1, <1>2, <2>1
    <2> QED
      BY <1>2, <1>3, <2>1, <2>2
  <1>5. msgs' = msgs
    BY DEF Library!PauseAll
  <1>6. LibRuns' /\ \A o \in Titles : Quiet(o)' => Quiet(o)
    BY <1>1, <1>4, <1>5 DEF LibRuns, Quiet
  <1> QED
    BY <1>1, <1>6, CardStepKeeps DEF Library!PauseAll

LEMMA ResumeAllKeeps ==
    ASSUME LibInv, Library!ResumeAll
    PROVE  LibInv'
  <1> DEFINE RunRec == [st : {"none", "queued", "active"}, at : Nat, ctl : {"none", "pause", "stop"}]
             fresh == [st |-> "queued", at |-> 1, ctl |-> "none"]
             again == {o \in Titles : card[o] \in {"idle", "queued"} /\ run[o].st = "none"}
  <1>1. LibRuns /\ run \in [Titles -> RunRec] /\ card \in [Titles -> Library!Card] /\ manifests \subseteq Titles
    BY DEF LibInv, LibCards, LibRuns
  <1>2. fresh \in RunRec /\ fresh.st = "queued" /\ fresh.at = 1
    OBVIOUS
  <1>3. /\ card' = [o \in Titles |-> IF o \in again THEN "idle" ELSE card[o]]
        /\ run' = [o \in Titles |-> IF o \in again THEN fresh ELSE run[o]]
        /\ msgs' = msgs
    BY DEF Library!ResumeAll
  <1>4. \A o \in again : card[o] # "none" /\ run[o].st = "none"
    OBVIOUS
  <1> HIDE DEF fresh, again
  <1>5. /\ card' \in [Titles -> Library!Card]
        /\ \A o \in Titles : card'[o] # "none" => card[o] # "none"
    BY <1>1, <1>3, <1>4 DEF Library!Card
  <1>6. run' \in [Titles -> RunRec] /\ \A o \in Titles : run'[o] = fresh \/ run'[o] = run[o]
    BY <1>1, <1>2, <1>3
  <1>7. LibRuns'
    BY <1>1, <1>2, <1>3, <1>6, TitleFacts DEF LibRuns
  <1>8. \A o \in Titles : Quiet(o)' => Quiet(o)
    BY <1>2, <1>3, <1>6 DEF Quiet
  <1> QED
    BY <1>1, <1>5, <1>7, <1>8, CardStepKeeps DEF Library!ResumeAll

(* A message of a run is handled: its card moves and the pages are refreshed. *)
LEMMA HandleDoneKeeps ==
    ASSUME LibInv, NEW t \in Titles, Library!HandleDone(t)
    PROVE  LibInv'
  <1>1. file \ {} = file /\ index \ {} = index
    OBVIOUS
  <1>2. LibDisk' /\ Library!RowsAreCurrent'
    BY <1>1, RefreshKeeps DEF Library!HandleDone
  <1> DEFINE end == Head(msgs[t])
             next_ == IF card[t] = "none" \/ end \in {"ok", "stopped"} THEN "none"
                      ELSE IF end = "failed" THEN "failed" ELSE "idle"
  <1>3. next_ \in Library!Card /\ (next_ # "none" => card[t] # "none")
    BY DEF Library!Card
  <1>4. card' = [card EXCEPT ![t] = next_] /\ msgs' = [msgs EXCEPT ![t] = Tail(@)] /\ msgs[t] # <<>>
    BY DEF Library!HandleDone
  <1> HIDE DEF next_
  <1>5. msgs' \in [Titles -> Seq({"ok", "paused", "stopped", "failed"})]
    <2>1. PICK q \in Seq({"ok", "paused", "stopped", "failed"}) : q = msgs[t] /\ q # <<>>
      BY <1>4 DEF LibInv, LibRuns
    <2>2. Tail(q) \in Seq({"ok", "paused", "stopped", "failed"})
      BY <2>1, HeadTailProperties
    <2> QED
      BY <1>4, <2>1, <2>2 DEF LibInv, LibRuns
  <1>6. LibRuns'
    BY <1>5 DEF Library!HandleDone, LibInv, LibRuns
  <1>7. LibCards' /\ CardsKnown'
    BY <1>3, <1>4 DEF Library!HandleDone, LibInv, LibCards, CardsKnown
  <1> QED
    BY <1>2, <1>6, <1>7 DEF LibInv

LEMMA LibStep ==
    ASSUME LibInv, Library!Next
    PROVE  LibInv'
  <1>1. CASE \E t \in Titles : Library!Runs(t)
    BY <1>1, RunsKeep
  <1>2. CASE \/ Library!PopupDownload \/ Library!ConfirmDownload
             \/ \E t \in Titles : Library!StartDownload(t) \/ Library!AddByLink(t)
    BY <1>2, StartsKeep
  <1>3. CASE \/ Library!RefreshClicked \/ Library!ConfirmDelete \/ Library!ConfirmDeleteFails \/ Library!Evict
             \/ \E f \in Files : Library!DeleteByHand(f)
    BY <1>3, StoreStepsKeep
  <1>4. CASE \/ Library!CloseQuantDetail \/ Library!Cancel
             \/ \E t \in Titles : Library!OpenQuantDetail(t)
             \/ \E f \in Files : Library!RequestDelete(f)
    BY <1>4, DialogsKeep
  <1>5. CASE Library!PauseAll \/ Library!ResumeAll
    BY <1>5, PauseAllKeeps, ResumeAllKeeps
  <1>6. ASSUME NEW t \in Titles, Library!HandleDone(t) PROVE LibInv'
    BY <1>6, HandleDoneKeeps
  <1>7. ASSUME NEW t \in Titles,
               \/ Library!SyncCard(t) \/ Library!PauseOrStop(t) \/ Library!ResumeOrRetry(t)
               \/ Library!RemoveTransfer(t)
        PROVE  LibInv'
    BY <1>7, CardsKeep
  <1> QED
    BY <1>1, <1>2, <1>3, <1>4, <1>5, <1>6, <1>7 DEF Library!Next

LEMMA LibFrame ==
    ASSUME LibInv, UNCHANGED libraryVars
    PROVE  LibInv'
  <1>1. UNCHANGED <<file, index, seen, listed, untold, manifests, card, run, msgs, popup, asked, ops>>
    BY DEF libraryVars
  <1>2. LibDisk' /\ Library!RowsAreCurrent'
    BY <1>1, OnlyDialogs
  <1> QED
    BY <1>1, <1>2, DialogKeeps

LEMMA RowsAlways == Spec => [](BrowseInv /\ LibInv)
  <1>1. Init => BrowseInv /\ LibInv
    BY BrowseInit, LibInit DEF Init
  <1>2. BrowseInv /\ LibInv /\ [Next]_vars => BrowseInv' /\ LibInv'
    <2> SUFFICES ASSUME BrowseInv, LibInv, [Next]_vars PROVE BrowseInv' /\ LibInv'
      OBVIOUS
    <2>1. CASE Search!Next /\ UNCHANGED libraryVars
      BY <2>1, BrowseStep, LibFrame
    <2>2. CASE Library!Next /\ UNCHANGED browseVars
      BY <2>2, LibStep, BrowseFrame
    <2>3. CASE UNCHANGED <<browseVars, libraryVars>>
      BY <2>3, LibFrame, BrowseFrame
    <2> QED
      BY <2>1, <2>2, <2>3 DEF Next, vars, InBrowse, InSettings, InLibrary, InFold, InComposer, InBundle,
         InTwice, InShare
  <1> QED
    BY <1>1, <1>2, PTL DEF Spec

(* For any rows, titles, files and runs: the search page lists no repository
   twice and waits only for a page under way, a row that says Downloaded has
   every weight on disk unless a file went unnoticed, and once nothing is
   under way the pages show what is on disk. *)
THEOREM RowsCorrect == Spec => []RowsInv
  <1>1. ASSUME BrowseInv
        PROVE  Search!BrowseTypeOK /\ Search!WaitsForPages /\ Search!NoRowTwice
    BY <1>1 DEF BrowseInv, Search!BrowseTypeOK, Search!NoRowTwice, Search!BagToSet
  <1>2. ASSUME LibInv PROVE Library!LibraryTypeOK
    <2>1. \A t \in Titles : /\ run[t].st \in {"none", "queued", "active"}
                           /\ run[t].at \in 0 .. Len(Artifacts[t]) + 1
                           /\ run[t].ctl \in {"none", "pause", "stop"}
      <3>1. \A t \in Titles : /\ run[t] \in [st : {"none", "queued", "active"}, at : Nat,
                                              ctl : {"none", "pause", "stop"}]
                             /\ run[t].at <= Len(Artifacts[t]) + 1
        BY <1>2 DEF LibInv, LibRuns
      <3>2. \A t \in Titles : run[t].at \in Nat /\ Len(Artifacts[t]) \in Nat
        BY <3>1, TitleFacts
      <3>3. \A t \in Titles : run[t].at \in 0 .. Len(Artifacts[t]) + 1
        BY <3>1, <3>2
      <3>4. \A t \in Titles : run[t].st \in {"none", "queued", "active"}
        BY <3>1
      <3>5. \A t \in Titles : run[t].ctl \in {"none", "pause", "stop"}
        BY <3>1
      <3> QED
        BY <3>3, <3>4, <3>5
    <2>2. ASSUME NEW t \in Titles
          PROVE  \A n \in 1 .. Len(msgs[t]) : msgs[t][n] \in {"ok", "paused", "stopped", "failed"}
      <3>1. PICK q \in Seq({"ok", "paused", "stopped", "failed"}) : q = msgs[t]
        BY <1>2 DEF LibInv, LibRuns
      <3>2. \A n \in 1 .. Len(q) : q[n] \in {"ok", "paused", "stopped", "failed"}
        OBVIOUS
      <3> QED
        BY <3>1, <3>2
    <2>3. /\ popup.of \in Titles \cup {"none"} /\ popup.cached \in BOOLEAN
      <3>1. popup = [of |-> "none", cached |-> FALSE] \/ popup \in [of : Titles \ Linked, cached : BOOLEAN]
        BY <1>2 DEF LibInv, LibCards, Library!NoPopup
      <3>2. CASE popup = [of |-> "none", cached |-> FALSE]
        BY <3>2
      <3>3. CASE popup \in [of : Titles \ Linked, cached : BOOLEAN]
        BY <3>3
      <3> QED
        BY <3>1, <3>2, <3>3
    <2>4. /\ asked.what \in {"none", "delete", "download"} /\ asked.of \in Titles \cup Files \cup {"none"}
      BY <1>2 DEF LibInv, LibCards
    <2>5. file \subseteq Files /\ index \subseteq Files /\ seen \subseteq Files /\ listed \subseteq Files
      BY <1>2 DEF LibInv, LibDisk
    <2>6. manifests \subseteq Titles /\ card \in [Titles -> Library!Card] /\ untold \in BOOLEAN /\ ops \in 0 .. MaxOps
      BY <1>2 DEF LibInv, LibCards, LibDisk
    <2> QED
      BY <2>1, <2>2, <2>3, <2>4, <2>5, <2>6 DEF Library!LibraryTypeOK
  <1>3. ASSUME LibInv PROVE Library!MissingIsOffered
    <2> SUFFICES ASSUME ~untold
                 PROVE  (\A t \in Titles \ Linked : Library!Downloaded(t) => Weights[t] \subseteq file)
                        /\ listed \subseteq file
      BY DEF Library!MissingIsOffered
    <2>1. seen \subseteq file /\ listed \subseteq file
      BY <1>3 DEF LibInv, LibDisk
    <2> QED
      BY <2>1, DownloadedFacts
  <1>4. BrowseInv /\ LibInv => RowsInv
    BY <1>1, <1>2, <1>3 DEF RowsInv, LibInv
  <1> QED
    BY <1>4, RowsAlways, PTL

-----------------------------------------------------------------------------
(* From progress events to a card and its receipt (ProgressFold) *)

Maybe == Sources \cup {Folded!NoSource}

CardType ==
    [done : 0 .. Size, prev : 0 .. Size, based : BOOLEAN, by : [Sources -> Nat], source : Maybe,
     legs : Seq(Folded!Leg), reason : Maybe]

AttType ==
    [src : Maybe, stage : {"none", "split", "open", "stream"}, tries : 0 .. MaxTries, at : 0 .. Size,
     last : 0 .. Size]

(* What the card has been told of the attempt under way. *)
Said == IF att = Folded!NoAttempt THEN 0 ELSE folded.prev

FoldShape ==
    /\ folded \in CardType /\ att \in AttType /\ Said <= att.at
    /\ att = Folded!NoAttempt \/ att.src \in Sources
    /\ temp \in 0 .. Size /\ rowSource \in Maybe /\ owner \in Maybe /\ tried \subseteq Sources
    /\ st \in {"running", "idle", "done"}
    /\ counted \in Nat /\ net \in Nat /\ runNet \in [Sources -> Nat]
    /\ attempts \in 0 .. MaxAttempts

(* What n attempts may leave uncounted. *)
Allowed(n) == n * (2 * EmitEvery + 1)

(* The bytes on the card are those reported; an attempt has at most a stretch
   of EmitEvery that is not, and its first report may have counted nothing. *)
FoldBytes ==
    /\ counted + (att.at - Said) <= net
    /\ \A s \in Sources : folded.by[s] + (IF s = att.src THEN att.at - Said ELSE 0) <= runNet[s]
    /\ att = Folded!NoAttempt => net <= counted + Allowed(attempts)
    /\ att # Folded!NoAttempt =>
        /\ att.at - Said <= EmitEvery /\ att.last <= Said
        /\ att.stage = "open" => att.at = Said /\ folded.based = FALSE /\ att.last = 0
        /\ net + (2 * EmitEvery + 1)
             <= counted + Allowed(attempts) + (IF folded.based THEN EmitEvery + 1 ELSE 0)
                  + (att.at - Said)

(* The legs go to sources this run has been through, and between two attempts
   the reason of the next leg is one of them. *)
FoldRoute ==
    /\ Folded!SwitchesExplained
    /\ st = "running" /\ folded.legs # <<>> => folded.legs[Len(folded.legs)].to \in tried
    /\ att # Folded!NoAttempt => st = "running" /\ folded.source = att.src /\ att.src \in tried
    /\ att = Folded!NoAttempt /\ st = "running" =>
        /\ folded.source \in tried \cup {Folded!NoSource}
        /\ folded.legs # <<>> => folded.reason \in tried

FoldInv == FoldShape /\ FoldBytes /\ FoldRoute

LEMMA FoldConstants ==
    Folded!NoSource \notin Sources /\ Size \in Nat /\ EmitEvery \in Nat /\ MaxTries \in Nat
    /\ MaxTries >= 1 /\ MaxAttempts \in Nat
  BY PagesAssumed DEF Folded!FoldAssumption

LEMMA AllowedGrows ==
    ASSUME NEW n \in Nat
    PROVE  /\ Allowed(n) \in Nat
           /\ Allowed(n + 1) = Allowed(n) + (2 * EmitEvery + 1)
           /\ Allowed(0) = 0
  <1>1. EmitEvery \in Nat
    BY FoldConstants
  <1>2. PICK k \in Nat : k = 2 * EmitEvery + 1
    BY <1>1
  <1>3. n * k \in Nat /\ (n + 1) * k = n * k + k /\ 0 * k = 0
    OBVIOUS
  <1> QED
    BY <1>2, <1>3 DEF Allowed

(* What an event makes of a card, from what its two halves make of it. *)
Handled(c, n, ev) == Folded!Handle([card |-> c, counted |-> n], ev)

Routed(c, ev) == Folded!NoteRoute(c, ev)
Counts(c, ev) == Folded!Fold(c, ev)

IsFold(c, n, ev, f, r, acc) ==
    /\ acc.counted = n + f.delta /\ acc.card \in CardType
    /\ acc.card.prev = f.prev /\ acc.card.based = f.based
    /\ acc.card.source = r.source /\ acc.card.legs = r.legs /\ acc.card.reason = r.reason
    /\ acc.card.by = [c.by EXCEPT ![ev.src] = @ + f.delta]

LEMMA HandleFacts ==
    ASSUME NEW c \in CardType, NEW n \in Nat, NEW ev, ev.src \in Sources, ev.done \in 0 .. Size,
           Counts(c, ev) \in [prev : 0 .. Size, based : BOOLEAN, delta : Nat],
           Routed(c, ev) \in CardType, Routed(c, ev).by = c.by
    PROVE  IsFold(c, n, ev, Counts(c, ev), Routed(c, ev), Handled(c, n, ev))
  <1>0. PICK f, r, acc : f = Counts(c, ev) /\ r = Routed(c, ev) /\ acc = Handled(c, n, ev)
    OBVIOUS
  <1>a. f \in [prev : 0 .. Size, based : BOOLEAN, delta : Nat] /\ r \in CardType /\ r.by = c.by
    BY <1>0
  <1> DEFINE by2 == [c.by EXCEPT ![ev.src] = @ + f.delta]
             new == [r EXCEPT !.done = ev.done, !.prev = f.prev, !.based = f.based, !.by[ev.src] = @ + f.delta]
  <1>b. f.delta \in Nat /\ c.by \in [Sources -> Nat]
    BY <1>a DEF CardType
  <1>1. by2 \in [Sources -> Nat]
    BY <1>b
  <1>2. acc = [card |-> new, counted |-> n + f.delta]
    BY <1>0 DEF Handled, Folded!Handle, Counts, Routed
  <1>3. new.by = by2
    BY <1>a DEF CardType
  <1>4. /\ new.done = ev.done /\ new.prev = f.prev /\ new.based = f.based
        /\ new.source = r.source /\ new.legs = r.legs /\ new.reason = r.reason
    BY <1>a DEF CardType
  <1>5. new = [r EXCEPT !.done = ev.done, !.prev = f.prev, !.based = f.based, !.by = by2]
    BY <1>a
  <1> HIDE DEF by2
  <1>6. [r EXCEPT !.done = ev.done, !.prev = f.prev, !.based = f.based, !.by = by2] \in CardType
    BY <1>1, <1>a DEF CardType
  <1> HIDE DEF new
  <1>8. new \in CardType
    BY <1>5, <1>6
  <1>9. acc.card = new /\ acc.counted = n + f.delta
    BY <1>2
  <1> QED
    BY <1>0, <1>3, <1>4, <1>8, <1>9 DEF by2, IsFold

(* A report of the source of the card. *)
LEMMA ReportFacts ==
    ASSUME folded \in CardType, counted \in Nat, NEW s \in Sources, NEW d \in 0 .. Size,
           NEW ph \in {"downloading", "verified"}, folded.source = s, folded.prev <= d,
           Folded!Emit(Folded!Event(s, d, ph))
    PROVE  \E delta \in Nat :
              /\ delta = IF ~folded.based /\ folded.prev = 0 THEN 0 ELSE d - folded.prev
              /\ folded' \in CardType /\ counted' = counted + delta
              /\ folded'.prev = d /\ folded'.based
              /\ folded'.source = folded.source /\ folded'.legs = folded.legs /\ folded'.reason = folded.reason
              /\ folded'.by = [folded.by EXCEPT ![s] = @ + delta]
  <1>1. PICK ev : ev = Folded!Event(s, d, ph)
    OBVIOUS
  <1>2. /\ ev.src = s /\ ev.done = d /\ ev.phase = ph /\ ev.start = -1
    BY <1>1 DEF Folded!Event
  <1>3. PICK delta : delta = IF ~folded.based /\ folded.prev = 0 THEN 0 ELSE d - folded.prev
    OBVIOUS
  <1>4. folded.prev \in 0 .. Size /\ folded.based \in BOOLEAN
    BY DEF CardType
  <1>5. Size \in Nat
    BY FoldConstants
  <1>6. delta \in Nat
    BY <1>3, <1>4, <1>5
  <1>7. PICK f : f = [prev |-> d, based |-> TRUE, delta |-> delta]
    OBVIOUS
  <1>8. f = Counts(folded, ev)
    <2>1. Folded!Moves(ev) /\ ~(ev.start >= 0)
      BY <1>2 DEF Folded!Moves
    <2>2. CASE ~folded.based /\ folded.prev = 0
      BY <1>2, <1>3, <1>4, <1>5, <1>7, <2>1, <2>2 DEF Folded!Fold, Counts
    <2>3. CASE ~(~folded.based /\ folded.prev = 0)
      <3>1. delta = d - folded.prev /\ (d > folded.prev \/ d = folded.prev)
        BY <1>3, <1>4, <1>5, <2>3
      <3>2. /\ (IF d > folded.prev THEN d ELSE folded.prev) = d
            /\ (IF d > folded.prev THEN d - folded.prev ELSE 0) = delta
        BY <1>4, <1>5, <3>1
      <3> QED
        BY <1>2, <1>7, <2>1, <2>3, <3>2 DEF Folded!Fold, Counts
    <2> QED
      BY <2>2, <2>3
  <1>9. f \in [prev : 0 .. Size, based : BOOLEAN, delta : Nat] /\ f.prev = d /\ f.based /\ f.delta = delta
    BY <1>6, <1>7
  <1>10. folded = Routed(folded, ev)
    BY <1>2 DEF Folded!NoteRoute, Routed
  <1>11. PICK acc : acc = Handled(folded, counted, ev)
    OBVIOUS
  <1>12. folded' = acc.card /\ counted' = acc.counted
    BY <1>1, <1>11 DEF Handled, Folded!Emit, Folded!Becomes, Folded!Now
  <1>13. /\ acc.counted = counted + f.delta /\ acc.card \in CardType
         /\ acc.card.prev = f.prev /\ acc.card.based = f.based
         /\ acc.card.source = folded.source /\ acc.card.legs = folded.legs /\ acc.card.reason = folded.reason
         /\ acc.card.by = [folded.by EXCEPT ![ev.src] = @ + f.delta]
    <2>1. ev.src \in Sources /\ ev.done \in 0 .. Size /\ folded.by = folded.by
      BY <1>2
    <2>2. IsFold(folded, counted, ev, Counts(folded, ev), Routed(folded, ev), Handled(folded, counted, ev))
      BY <2>1, <1>8, <1>9, <1>10, HandleFacts
    <2> QED
      BY <2>2, <1>8, <1>10, <1>11 DEF IsFold
  <1> QED
    BY <1>2, <1>3, <1>6, <1>9, <1>12, <1>13

(* A failure keeps the count and leaves its source as the next reason. *)
LEMMA FailureFacts ==
    ASSUME folded \in CardType, counted \in Nat, NEW s \in Sources, NEW d \in 0 .. Size,
           Folded!Emit(Folded!Event(s, d, "source-failed"))
    PROVE  /\ folded' \in CardType /\ counted' = counted
           /\ folded'.prev = folded.prev /\ folded'.based = folded.based /\ folded'.by = folded.by
           /\ folded'.source = folded.source /\ folded'.legs = folded.legs /\ folded'.reason = s
  <1>1. PICK ev : ev = Folded!Event(s, d, "source-failed")
    OBVIOUS
  <1>2. /\ ev.src = s /\ ev.done = d /\ ev.phase = "source-failed" /\ ev.start = -1
    BY <1>1 DEF Folded!Event
  <1>3. folded.prev \in 0 .. Size /\ folded.based \in BOOLEAN /\ folded.by \in [Sources -> Nat]
    BY DEF CardType
  <1>4. Counts(folded, ev) = [prev |-> folded.prev, based |-> folded.based, delta |-> 0]
    BY <1>2 DEF Folded!Fold, Folded!Moves, Counts
  <1>5. PICK f : f = Counts(folded, ev)
    OBVIOUS
  <1>6. /\ f \in [prev : 0 .. Size, based : BOOLEAN, delta : Nat]
        /\ f.prev = folded.prev /\ f.based = folded.based /\ f.delta = 0
    BY <1>3, <1>4, <1>5
  <1>7. PICK r : r = Routed(folded, ev)
    OBVIOUS
  <1>8. r = [folded EXCEPT !.reason = s]
    BY <1>2, <1>7 DEF Folded!NoteRoute, Routed
  <1>9. r \in CardType
    BY <1>8 DEF CardType, Maybe
  <1>10. r.by = folded.by /\ r.source = folded.source /\ r.legs = folded.legs /\ r.reason = s
    BY <1>8 DEF CardType
  <1>11. IsFold(folded, counted, ev, Counts(folded, ev), Routed(folded, ev), Handled(folded, counted, ev))
    <2>1. ev.src \in Sources /\ ev.done \in 0 .. Size
      BY <1>2
    <2> QED
      BY <2>1, <1>5, <1>6, <1>7, <1>9, <1>10, HandleFacts
  <1>12. PICK acc : acc = Handled(folded, counted, ev)
    OBVIOUS
  <1>13. folded' = acc.card /\ counted' = acc.counted
    BY <1>1, <1>12 DEF Handled, Folded!Emit, Folded!Becomes, Folded!Now
  <1>14. IsFold(folded, counted, ev, f, r, acc)
    BY <1>5, <1>7, <1>11, <1>12
  <1>15. [folded.by EXCEPT ![ev.src] = @ + f.delta] = folded.by
    BY <1>2, <1>3, <1>6
  <1> QED
    BY <1>6, <1>10, <1>13, <1>14, <1>15 DEF IsFold

(* The card of an attempt that is announced to begin at byte a, on a card of
   another source, and on one of its own. *)
IsAnnounced(c, n, s, a, acc) ==
    /\ acc.card \in CardType /\ acc.counted = n
    /\ acc.card.prev = a /\ acc.card.based = FALSE /\ acc.card.by = c.by /\ acc.card.source = s
    /\ c.source # s => acc.card.legs = Append(c.legs, [to |-> s, reason |-> c.reason])
    /\ c.source = s => acc.card.legs = c.legs

LEMMA ConnectingFacts ==
    ASSUME NEW c \in CardType, NEW n \in Nat, NEW s \in Sources, NEW a \in 0 .. Size
    PROVE  IsAnnounced(c, n, s, a, Handled(c, n, Folded!Connecting(s, a)))
  <1>0. PICK acc : acc = Handled(c, n, Folded!Connecting(s, a))
    OBVIOUS
  <1>1. PICK ev : ev = Folded!Connecting(s, a)
    OBVIOUS
  <1>2. /\ ev.src = s /\ ev.done = a /\ ev.phase = "connecting" /\ ev.start = a
    BY <1>1 DEF Folded!Connecting
  <1>3. Size \in Nat /\ a >= 0
    BY FoldConstants
  <1>4. Counts(c, ev) = [prev |-> a, based |-> FALSE, delta |-> 0]
    BY <1>2, <1>3 DEF Folded!Fold, Counts
  <1>5. PICK f : f = Counts(c, ev)
    OBVIOUS
  <1>6. /\ f \in [prev : 0 .. Size, based : BOOLEAN, delta : Nat]
        /\ f.prev = a /\ f.based = FALSE /\ f.delta = 0
    BY <1>4, <1>5
  <1>7. PICK r : r = Routed(c, ev)
    OBVIOUS
  <1>8. /\ r \in CardType /\ r.by = c.by /\ r.source = s
        /\ c.source # s => r.legs = Append(c.legs, [to |-> s, reason |-> c.reason])
        /\ c.source = s => r.legs = c.legs
    <2>1. CASE c.source = s
      <3>1. r = c
        BY <1>2, <1>7, <2>1 DEF Folded!NoteRoute, Routed
      <3> QED
        BY <2>1, <3>1
    <2>2. CASE c.source # s
      <3>1. PICK leg : leg = [to |-> s, reason |-> c.reason]
        OBVIOUS
      <3>2. leg \in Folded!Leg
        BY <3>1 DEF Folded!Leg, CardType, Maybe
      <3>3. PICK legs : legs = Append(c.legs, leg)
        OBVIOUS
      <3>4. legs \in Seq(Folded!Leg)
        BY <3>2, <3>3 DEF CardType
      <3>5. r = [c EXCEPT !.source = s, !.reason = Folded!NoSource, !.legs = legs]
        BY <1>2, <1>7, <2>2, <3>1, <3>3 DEF Folded!NoteRoute, Routed
      <3>6. r \in CardType
        BY <3>4, <3>5 DEF CardType, Maybe
      <3>7. r.by = c.by /\ r.source = s /\ r.legs = legs
        BY <3>5 DEF CardType
      <3> QED
        BY <2>2, <3>1, <3>3, <3>6, <3>7
    <2> QED
      BY <2>1, <2>2
  <1>9. IsFold(c, n, ev, Counts(c, ev), Routed(c, ev), Handled(c, n, ev))
    <2>1. ev.src \in Sources /\ ev.done \in 0 .. Size
      BY <1>2
    <2> QED
      BY <2>1, <1>5, <1>6, <1>7, <1>8, HandleFacts
  <1>10. IsFold(c, n, ev, f, r, acc)
    BY <1>0, <1>1, <1>5, <1>7, <1>9
  <1>11. [c.by EXCEPT ![ev.src] = @ + f.delta] = c.by
    BY <1>2, <1>6 DEF CardType
  <1> QED
    BY <1>0, <1>6, <1>8, <1>10, <1>11 DEF IsFold, IsAnnounced

LEMMA AnnouncedFacts ==
    ASSUME folded \in CardType, counted \in Nat, NEW s \in Sources, NEW a \in 0 .. Size,
           Folded!Emit(Folded!Connecting(s, a))
    PROVE  /\ folded' \in CardType /\ counted' = counted
           /\ folded'.prev = a /\ folded'.based = FALSE /\ folded'.by = folded.by /\ folded'.source = s
           /\ folded.source # s => folded'.legs = Append(folded.legs, [to |-> s, reason |-> folded.reason])
           /\ folded.source = s => folded'.legs = folded.legs
  <1>1. PICK acc : acc = Handled(folded, counted, Folded!Connecting(s, a))
    OBVIOUS
  <1>2. folded' = acc.card /\ counted' = acc.counted
    BY <1>1 DEF Handled, Folded!Emit, Folded!Becomes, Folded!Now
  <1>3. IsAnnounced(folded, counted, s, a, Handled(folded, counted, Folded!Connecting(s, a)))
    BY ConnectingFacts
  <1> QED
    BY <1>1, <1>2, <1>3 DEF IsAnnounced

LEMMA FreshFacts ==
    /\ Folded!FreshCard \in CardType /\ Folded!FreshCard.by = Folded!Zero
    /\ Folded!FreshCard.legs = <<>> /\ Folded!FreshCard.source = Folded!NoSource
  <1>1. Folded!Zero \in [Sources -> Nat]
    BY DEF Folded!Zero
  <1>2. <<>> \in Seq(Folded!Leg) /\ Size \in Nat
    BY FoldConstants
  <1> HIDE DEF Folded!Zero
  <1> QED
    BY <1>1, <1>2 DEF Folded!FreshCard, CardType, Maybe

LEMMA NoAttemptFacts ==
    /\ Folded!NoAttempt \in AttType /\ Folded!NoAttempt.at = 0
    /\ Folded!NoAttempt.src = Folded!NoSource /\ Folded!NoAttempt.stage = "none"
  BY FoldConstants DEF Folded!NoAttempt, AttType, Maybe

LEMMA FoldInit ==
    ASSUME Folded!Init
    PROVE  FoldInv
  <1>1. /\ temp = 0 /\ rowSource = Folded!NoSource /\ owner = Folded!NoSource /\ att = Folded!NoAttempt /\ tried = {} /\ st = "running"
        /\ folded = Folded!FreshCard /\ counted = 0 /\ net = 0 /\ runNet = Folded!Zero /\ attempts = 0
    BY DEF Folded!Init
  <1>2. Folded!FreshCard \in CardType /\ Folded!FreshCard.by = Folded!Zero /\ Folded!FreshCard.legs = <<>>
        /\ Folded!FreshCard.source = Folded!NoSource
    BY FreshFacts
  <1>3. Folded!NoAttempt \in AttType /\ Folded!NoAttempt.at = 0 /\ Folded!NoAttempt.src = Folded!NoSource
    BY NoAttemptFacts
  <1>a. Said = 0
    BY <1>1 DEF Said
  <1>4. Folded!Zero \in [Sources -> Nat] /\ \A s \in Sources : Folded!Zero[s] = 0
    BY DEF Folded!Zero
  <1> HIDE DEF Folded!Zero, Folded!NoAttempt, Folded!FreshCard
  <1>5. FoldShape
    <2>1. folded \in CardType /\ att \in AttType /\ Said <= att.at /\ runNet \in [Sources -> Nat]
      BY <1>1, <1>2, <1>3, <1>4, <1>a
    <2>2. temp \in 0 .. Size /\ attempts \in 0 .. MaxAttempts /\ counted \in Nat /\ net \in Nat
      BY <1>1, FoldConstants
    <2> QED
      BY <1>1, <2>1, <2>2 DEF FoldShape, Maybe
  <1>6. FoldBytes
    <2>1. Allowed(0) = 0
      BY AllowedGrows
    <2>2. \A s \in Sources : folded.by[s] = 0 /\ runNet[s] = 0
      BY <1>1, <1>2, <1>4
    <2> QED
      BY <1>1, <1>3, <1>a, <2>1, <2>2 DEF FoldBytes
  <1>7. FoldRoute
    BY <1>1, <1>2 DEF FoldRoute, Folded!SwitchesExplained
  <1> QED
    BY <1>5, <1>6, <1>7 DEF FoldInv

(* What an attempt that ends leaves uncounted is what an attempt may. *)
LEMMA EndedBytes ==
    ASSUME FoldInv
    PROVE  /\ \A s \in Sources : folded.by[s] <= runNet[s]
           /\ counted <= net /\ net <= counted + Allowed(attempts)
  <1>1. /\ folded \in CardType /\ att \in AttType /\ Said <= att.at
        /\ counted \in Nat /\ net \in Nat /\ runNet \in [Sources -> Nat] /\ attempts \in Nat
    BY FoldConstants DEF FoldInv, FoldShape
  <1>2. /\ counted + (att.at - Said) <= net
        /\ \A s \in Sources : folded.by[s] + (IF s = att.src THEN att.at - Said ELSE 0) <= runNet[s]
    BY DEF FoldInv, FoldBytes
  <1>3. att.at \in Int /\ Said \in Int /\ EmitEvery \in Nat /\ Allowed(attempts) \in Nat
    <2>1. att.at \in Int /\ EmitEvery \in Nat /\ Allowed(attempts) \in Nat
      BY <1>1, FoldConstants, AllowedGrows DEF AttType
    <2>2. folded.prev \in Int
      BY <1>1, FoldConstants DEF CardType
    <2>3. Said = 0 \/ Said = folded.prev
      BY DEF Said
    <2> QED
      BY <2>1, <2>2, <2>3
  <1>4. folded.by \in [Sources -> Nat]
    BY <1>1 DEF CardType
  <1>5. ASSUME NEW s \in Sources PROVE folded.by[s] <= runNet[s]
    <2>1. folded.by[s] \in Nat /\ runNet[s] \in Nat
      BY <1>1, <1>4
    <2> QED
      BY <1>1, <1>2, <1>3, <2>1
  <1>6. net <= counted + Allowed(attempts)
    <2>1. CASE att = Folded!NoAttempt
      BY <2>1 DEF FoldInv, FoldBytes
    <2>2. CASE att # Folded!NoAttempt
      <3>1. /\ att.at - Said <= EmitEvery
            /\ net + (2 * EmitEvery + 1)
                 <= counted + Allowed(attempts) + (IF folded.based THEN EmitEvery + 1 ELSE 0)
                      + (att.at - Said)
        BY <2>2 DEF FoldInv, FoldBytes
      <3>2. PICK more : more = IF folded.based THEN EmitEvery + 1 ELSE 0
        OBVIOUS
      <3>3. more \in Nat /\ more <= EmitEvery + 1
        BY <1>3, <3>2
      <3>4. net + (2 * EmitEvery + 1) <= counted + Allowed(attempts) + more + (att.at - Said)
        BY <3>1, <3>2
      <3> HIDE DEF Allowed
      <3> QED
        BY <1>1, <1>3, <3>1, <3>3, <3>4
    <2> QED
      BY <2>1, <2>2
  <1> QED
    BY <1>1, <1>2, <1>3, <1>5, <1>6

LEMMA UnderWay ==
    ASSUME FoldInv, att # Folded!NoAttempt
    PROVE  /\ att.src \in Sources /\ folded.source = att.src /\ folded.prev = Said
           /\ att.at \in 0 .. Size /\ Said \in 0 .. Size /\ Said <= att.at
           /\ st = "running" /\ att.src \in tried
  <1>1. folded.prev = Said
    BY DEF Said
  <1>2. folded \in CardType /\ att \in AttType /\ Said <= att.at /\ att.src \in Sources
    BY DEF FoldInv, FoldShape
  <1>3. folded.source = att.src /\ st = "running" /\ att.src \in tried
    BY DEF FoldInv, FoldRoute
  <1> QED
    BY <1>1, <1>2, <1>3 DEF AttType, CardType

LEMMA LegsGrow ==
    ASSUME Folded!SwitchesExplained, folded \in CardType, NEW s \in Sources,
           folded'.legs = Append(folded.legs, [to |-> s, reason |-> folded.reason]),
           folded.legs # <<>> =>
               folded.reason \notin {s, Folded!NoSource} /\ folded.legs[Len(folded.legs)].to # s
    PROVE  /\ Folded!SwitchesExplained' /\ folded'.legs # <<>>
           /\ folded'.legs[Len(folded'.legs)].to = s
  <1>1. PICK legs \in Seq(Folded!Leg) : legs = folded.legs
    BY DEF CardType
  <1>2. PICK leg : leg = [to |-> s, reason |-> folded.reason]
    OBVIOUS
  <1>3. leg \in Folded!Leg /\ leg.to = s /\ leg.reason = folded.reason
    BY <1>2 DEF Folded!Leg, CardType, Maybe
  <1>4. /\ Len(Append(legs, leg)) = Len(legs) + 1 /\ Append(legs, leg) # <<>>
        /\ Append(legs, leg)[Len(legs) + 1] = leg
        /\ \A k \in 1 .. Len(legs) : Append(legs, leg)[k] = legs[k]
    BY <1>3, AppendProperties
  <1>5. folded'.legs = Append(legs, leg)
    BY <1>1, <1>2
  <1>6. ASSUME NEW k \in 2 .. Len(legs) + 1
        PROVE  /\ Append(legs, leg)[k].reason \notin {Folded!NoSource, Append(legs, leg)[k].to}
               /\ Append(legs, leg)[k].to # Append(legs, leg)[k - 1].to
    <2>1. CASE k \in 2 .. Len(legs)
      <3>1. k \in 1 .. Len(legs) /\ k - 1 \in 1 .. Len(legs)
        BY <2>1
      <3>2. legs[k].reason \notin {Folded!NoSource, legs[k].to} /\ legs[k].to # legs[k - 1].to
        BY <1>1, <2>1 DEF Folded!SwitchesExplained
      <3> QED
        BY <1>4, <3>1, <3>2
    <2>2. CASE k = Len(legs) + 1
      <3>1. k - 1 = Len(legs) /\ k - 1 \in 1 .. Len(legs) /\ legs # <<>>
        BY <2>2
      <3>2. folded.reason \notin {s, Folded!NoSource} /\ legs[Len(legs)].to # s
        BY <1>1, <3>1
      <3> QED
        BY <1>3, <1>4, <2>2, <3>1, <3>2
    <2> QED
      BY <2>1, <2>2
  <1>7. Folded!SwitchesExplained'
    BY <1>4, <1>5, <1>6 DEF Folded!SwitchesExplained
  <1> QED
    BY <1>3, <1>4, <1>5, <1>7

(* An attempt begins, of the next source or of the same one: what the one
   before left uncounted is what it may, and the card is told where this one
   begins. *)
LEMMA AttemptBegins ==
    ASSUME FoldInv, NEW s \in Sources, NEW a \in 0 .. Size, st = "running",
           att' \in AttType, att'.src = s, att'.at = a, att'.last = 0, temp' \in 0 .. Size,
           Folded!Emit(Folded!Connecting(s, a)),
           attempts < MaxAttempts, attempts' = attempts + 1,
           UNCHANGED <<rowSource, owner, st, net, runNet>>,
           \/ att # Folded!NoAttempt /\ att.src = s /\ tried' = tried
           \/ att = Folded!NoAttempt /\ s \notin tried /\ tried' = tried \cup {s}
    PROVE  FoldInv'
  <1>1. /\ folded \in CardType /\ counted \in Nat /\ net \in Nat /\ attempts \in 0 .. MaxAttempts
        /\ runNet \in [Sources -> Nat] /\ tried \subseteq Sources /\ rowSource \in Maybe /\ owner \in Maybe
    BY DEF FoldInv, FoldShape
  <1>2. /\ folded' \in CardType /\ counted' = counted
        /\ folded'.prev = a /\ folded'.based = FALSE /\ folded'.by = folded.by /\ folded'.source = s
        /\ folded.source # s => folded'.legs = Append(folded.legs, [to |-> s, reason |-> folded.reason])
        /\ folded.source = s => folded'.legs = folded.legs
    BY <1>1, AnnouncedFacts
  <1>3. att' # Folded!NoAttempt /\ s # Folded!NoSource
    BY FoldConstants, NoAttemptFacts
  <1>4. Said' = a
    BY <1>2, <1>3 DEF Said
  <1>5. a \in Int /\ a - a = 0 /\ a >= 0 /\ EmitEvery \in Nat /\ Size \in Nat /\ MaxAttempts \in Nat
    BY FoldConstants
  <1>6. FoldShape'
    <2>1. tried' \subseteq Sources /\ attempts' \in 0 .. MaxAttempts /\ Said' <= att'.at
      BY <1>1, <1>4, <1>5
    <2> QED
      BY <1>1, <1>2, <1>3, <2>1 DEF FoldShape
  <1>7. FoldBytes'
    <2>1. /\ counted <= net /\ net <= counted + Allowed(attempts)
          /\ \A o \in Sources : folded.by[o] <= runNet[o]
      BY EndedBytes
    <2>2. Allowed(attempts) \in Nat /\ Allowed(attempts') = Allowed(attempts) + (2 * EmitEvery + 1)
      BY <1>1, AllowedGrows
    <2>3. folded.by \in [Sources -> Nat]
      BY <1>1 DEF CardType
    <2>4. att'.at - Said' = 0
      BY <1>4, <1>5
    <2>5. counted' + (att'.at - Said') <= net'
      BY <1>1, <1>2, <2>1, <2>4
    <2>6. \A o \in Sources : folded'.by[o] + (IF o = att'.src THEN att'.at - Said' ELSE 0) <= runNet'[o]
      BY <1>1, <1>2, <2>1, <2>3, <2>4
    <2>7. /\ att'.at - Said' <= EmitEvery /\ att'.last <= Said'
          /\ att'.stage = "open" => att'.at = Said' /\ folded'.based = FALSE /\ att'.last = 0
      BY <1>2, <1>4, <1>5, <2>4
    <2>8. net' + (2 * EmitEvery + 1)
            <= counted' + Allowed(attempts') + (IF folded'.based THEN EmitEvery + 1 ELSE 0)
                 + (att'.at - Said')
      <3>1. net' = net /\ counted' = counted
        BY <1>2
      <3>2. (IF folded'.based THEN EmitEvery + 1 ELSE 0) = 0
        BY <1>2
      <3>3. net + (2 * EmitEvery + 1) <= counted + Allowed(attempts') + 0 + 0
        <4> DEFINE k == 2 * EmitEvery + 1
        <4>1. k \in Nat
          BY <1>5
        <4>2. Allowed(attempts') = Allowed(attempts) + k
          BY <2>2
        <4> HIDE DEF k
        <4>3. net + k <= counted + Allowed(attempts') + 0 + 0
          BY <1>1, <2>1, <2>2, <4>1, <4>2
        <4> QED
          BY <4>3 DEF k
      <3> QED
        BY <2>4, <3>1, <3>2, <3>3
    <2> QED
      BY <1>3, <2>5, <2>6, <2>7, <2>8 DEF FoldBytes, Allowed
  <1>8. FoldRoute'
    <2>1. /\ Folded!SwitchesExplained
          /\ folded.legs # <<>> => folded.legs[Len(folded.legs)].to \in tried
      BY DEF FoldInv, FoldRoute
    <2>2. /\ Folded!SwitchesExplained' /\ s \in tried'
          /\ folded'.legs # <<>> => folded'.legs[Len(folded'.legs)].to \in tried'
      <3>1. CASE att # Folded!NoAttempt
        <4>1. att.src = s /\ folded.source = s /\ s \in tried /\ tried' = tried
          BY <3>1 DEF FoldInv, FoldRoute
        <4>2. folded'.legs = folded.legs
          BY <1>2, <4>1
        <4> QED
          BY <2>1, <4>1, <4>2 DEF Folded!SwitchesExplained
      <3>2. CASE att = Folded!NoAttempt
        <4>1. /\ s \notin tried /\ tried' = tried \cup {s}
              /\ folded.source \in tried \cup {Folded!NoSource}
              /\ folded.legs # <<>> => folded.reason \in tried
          BY <3>2 DEF FoldInv, FoldRoute
        <4>2. folded'.legs = Append(folded.legs, [to |-> s, reason |-> folded.reason])
          BY <1>2, <1>3, <4>1
        <4>3. folded.legs # <<>> =>
                folded.reason \notin {s, Folded!NoSource} /\ folded.legs[Len(folded.legs)].to # s
          BY <1>1, <2>1, <4>1, FoldConstants
        <4>4. Folded!SwitchesExplained' /\ folded'.legs[Len(folded'.legs)].to = s
          BY <1>1, <2>1, <4>2, <4>3, LegsGrow
        <4> QED
          BY <4>1, <4>4
      <3> QED
        BY <3>1, <3>2
    <2> QED
      BY <1>2, <1>3, <2>2 DEF FoldRoute
  <1> QED
    BY <1>6, <1>7, <1>8 DEF FoldInv

LEMMA BeginFacts ==
    ASSUME NEW s \in Sources, NEW left \in 0 .. Size, NEW tries \in 0 .. MaxTries,
           Folded!Begin(s, left, tries)
    PROVE  \E a \in 0 .. Size :
              /\ att' \in AttType /\ att'.src = s /\ att'.at = a /\ att'.last = 0 /\ temp' \in 0 .. Size
              /\ Folded!Emit(Folded!Connecting(s, a))
              /\ attempts < MaxAttempts /\ attempts' = attempts + 1
  <1>1. PICK a : a = IF left < Size THEN left ELSE 0
    OBVIOUS
  <1>2. /\ att' = [src |-> s, stage |-> "open", tries |-> tries, at |-> a, last |-> 0]
        /\ temp' = a /\ Folded!Emit(Folded!Connecting(s, a))
        /\ attempts < MaxAttempts /\ attempts' = attempts + 1
    BY <1>1 DEF Folded!Begin
  <1>3. a \in 0 .. Size /\ 0 \in 0 .. Size
    BY <1>1, FoldConstants
  <1>4. att' \in AttType /\ att'.src = s /\ att'.at = a /\ att'.last = 0
    BY <1>2, <1>3 DEF AttType, Maybe
  <1> QED
    BY <1>2, <1>3, <1>4

LEMMA LeftoverFits ==
    ASSUME FoldInv, NEW s \in Sources
    PROVE  Folded!Leftover(s) \in 0 .. Size
  BY FoldConstants DEF FoldInv, FoldShape, Folded!Leftover

LEMMA ConnectKeeps ==
    ASSUME FoldInv, NEW s \in Sources, Folded!Connect(s)
    PROVE  FoldInv'
  <1>1. /\ st = "running" /\ att = Folded!NoAttempt /\ s \notin tried /\ tried' = tried \cup {s}
        /\ UNCHANGED <<rowSource, owner, st, net, runNet>>
    BY DEF Folded!Connect
  <1>2. CASE Folded!Begin(s, Folded!Leftover(s), 1)
    <2>1. 1 \in 0 .. MaxTries
      BY FoldConstants
    <2> QED
      BY <1>1, <1>2, <2>1, LeftoverFits, BeginFacts, AttemptBegins
  <1>3. CASE /\ attempts < MaxAttempts
             /\ att' = [src |-> s, stage |-> "split", tries |-> 0, at |-> 0, last |-> 0]
             /\ temp' = 0 /\ attempts' = attempts + 1
             /\ Folded!Emit(Folded!Connecting(s, 0))
    <2>1. 0 \in 0 .. Size /\ 0 \in 0 .. MaxTries
      BY FoldConstants
    <2>2. att' \in AttType /\ att'.src = s /\ att'.at = 0 /\ att'.last = 0
      BY <1>3, <2>1 DEF AttType, Maybe
    <2> QED
      BY <1>1, <1>3, <2>1, <2>2, AttemptBegins
  <1> QED
    BY <1>2, <1>3 DEF Folded!Connect

LEMMA SplitFailsKeeps ==
    ASSUME FoldInv, Folded!SplitFails
    PROVE  FoldInv'
  <1>1. /\ att.stage = "split" /\ Folded!Begin(att.src, 0, 1)
        /\ UNCHANGED <<rowSource, owner, tried, st, net, runNet>>
    BY DEF Folded!SplitFails
  <1>2. att # Folded!NoAttempt
    BY <1>1, NoAttemptFacts
  <1>3. att.src \in Sources /\ st = "running" /\ 0 \in 0 .. Size /\ 1 \in 0 .. MaxTries
    BY <1>2, UnderWay, FoldConstants
  <1> QED
    BY <1>1, <1>2, <1>3, BeginFacts, AttemptBegins

LEMMA RetryKeeps ==
    ASSUME FoldInv, Folded!Retry
    PROVE  FoldInv'
  <1>1. /\ att.stage \in {"open", "stream"} /\ att.tries < MaxTries
        /\ Folded!Begin(att.src, temp, att.tries + 1)
        /\ UNCHANGED <<rowSource, owner, tried, st, net, runNet>>
    BY DEF Folded!Retry
  <1>2. att # Folded!NoAttempt
    BY <1>1, NoAttemptFacts
  <1>3. att.src \in Sources /\ st = "running"
    BY <1>2, UnderWay
  <1>4. temp \in 0 .. Size /\ att.tries + 1 \in 0 .. MaxTries
    BY <1>1, FoldConstants DEF FoldInv, FoldShape, AttType
  <1> QED
    BY <1>1, <1>2, <1>3, <1>4, BeginFacts, AttemptBegins

(* The source answers: the card is told again where the bytes begin. *)
LEMMA OpenedKeeps ==
    ASSUME FoldInv, Folded!Opened
    PROVE  FoldInv'
  <1>1. att.stage = "open" /\ UNCHANGED <<rowSource, owner, tried, st, net, runNet, attempts>>
    BY DEF Folded!Opened
  <1>2. att # Folded!NoAttempt
    BY <1>1, NoAttemptFacts
  <1>3. /\ att.src \in Sources /\ folded.source = att.src /\ folded.prev = Said
        /\ att.at \in 0 .. Size /\ st = "running" /\ att.src \in tried
    BY <1>2, UnderWay
  <1>4. PICK a \in 0 .. Size :
          /\ att' = [att EXCEPT !.stage = "stream", !.at = a]
          /\ temp' = a /\ Folded!Emit(Folded!Connecting(att.src, a))
    <2>1. 0 \in 0 .. Size
      BY FoldConstants
    <2> QED
      BY <1>3, <2>1 DEF Folded!Opened
  <1>5. /\ folded \in CardType /\ att \in AttType /\ counted \in Nat /\ net \in Nat
        /\ runNet \in [Sources -> Nat]
    BY DEF FoldInv, FoldShape
  <1>6. att' \in AttType /\ att'.src = att.src /\ att'.at = a /\ att'.last = att.last /\ att'.stage = "stream"
    BY <1>4, <1>5 DEF AttType
  <1>7. att' # Folded!NoAttempt
    BY <1>6, NoAttemptFacts
  <1>8. /\ folded' \in CardType /\ counted' = counted
        /\ folded'.prev = a /\ folded'.based = FALSE /\ folded'.by = folded.by
        /\ folded'.source = folded.source /\ folded'.legs = folded.legs
    BY <1>3, <1>4, <1>5, AnnouncedFacts
  <1>9. Said' = a
    BY <1>7, <1>8 DEF Said
  <1>10. a \in Nat /\ a - a = 0 /\ a <= a /\ EmitEvery \in Nat
    BY FoldConstants
  <1>11. FoldShape'
    BY <1>1, <1>3, <1>4, <1>6, <1>8, <1>9, <1>10 DEF FoldInv, FoldShape
  <1>12. FoldBytes'
    <2>1. /\ att.at = Said /\ folded.based = FALSE /\ att.last = 0
          /\ net + (2 * EmitEvery + 1)
               <= counted + Allowed(attempts) + (IF folded.based THEN EmitEvery + 1 ELSE 0)
                    + (att.at - Said)
      BY <1>1, <1>2 DEF FoldInv, FoldBytes
    <2>2. /\ counted + (att.at - Said) <= net
          /\ \A s \in Sources : folded.by[s] + (IF s = att.src THEN att.at - Said ELSE 0) <= runNet[s]
      BY DEF FoldInv, FoldBytes
    <2>3. att.at - Said = 0 /\ att'.at - Said' = 0
      BY <1>3, <1>6, <1>9, <1>10, <2>1
    <2>4. counted' + (att'.at - Said') <= net'
      BY <1>1, <1>8, <2>2, <2>3
    <2>5. \A s \in Sources : folded'.by[s] + (IF s = att'.src THEN att'.at - Said' ELSE 0) <= runNet'[s]
      BY <1>1, <1>6, <1>8, <2>2, <2>3
    <2>6. net' + (2 * EmitEvery + 1)
            <= counted' + Allowed(attempts') + (IF folded'.based THEN EmitEvery + 1 ELSE 0)
                 + (att'.at - Said')
      <3>1. (IF folded'.based THEN EmitEvery + 1 ELSE 0) = (IF folded.based THEN EmitEvery + 1 ELSE 0)
        BY <1>8, <2>1
      <3>2. att'.at - Said' = att.at - Said
        BY <2>3
      <3>3. net' = net /\ counted' = counted /\ Allowed(attempts') = Allowed(attempts)
        BY <1>1, <1>8 DEF Allowed
      <3> QED
        BY <2>1, <3>1, <3>2, <3>3
    <2>7. att'.at - Said' <= EmitEvery /\ att'.last <= Said'
      BY <1>6, <1>9, <1>10, <2>1, <2>3
    <2> QED
      BY <1>6, <1>7, <2>4, <2>5, <2>6, <2>7 DEF FoldBytes, Allowed
  <1>13. FoldRoute'
    BY <1>1, <1>2, <1>3, <1>6, <1>7, <1>8 DEF FoldInv, FoldRoute, Folded!SwitchesExplained
  <1> QED
    BY <1>11, <1>12, <1>13 DEF FoldInv

(* A byte of the attempt. *)
LEMMA ReceiveKeeps ==
    ASSUME FoldInv, Folded!Receive
    PROVE  FoldInv'
  <1>0. /\ att.stage \in {"split", "stream"} /\ att.at < Size
        /\ net' = net + 1 /\ runNet' = [runNet EXCEPT ![att.src] = @ + 1]
        /\ UNCHANGED <<owner, tried, st, attempts>>
    BY DEF Folded!Receive
  <1>1. /\ att # Folded!NoAttempt /\ att.at < Size
        /\ net' = net + 1 /\ runNet' = [runNet EXCEPT ![att.src] = @ + 1]
        /\ UNCHANGED <<owner, tried, st, attempts>>
    BY <1>0, NoAttemptFacts
  <1>a. PICK at : at = att.at + 1
    OBVIOUS
  <1>2. PICK report \in BOOLEAN :
          /\ (report <=> at - att.last > EmitEvery \/ at = Size)
          /\ att' = [att EXCEPT !.at = at, !.last = IF report THEN at ELSE @]
          /\ temp' = IF att.stage = "split" THEN temp ELSE at
          /\ rowSource' = IF report THEN att.src ELSE rowSource
          /\ IF report THEN Folded!Emit(Folded!Event(att.src, at, "downloading"))
                       ELSE UNCHANGED <<folded, counted>>
    <2>2. PICK report \in BOOLEAN : report <=> at - att.last > EmitEvery \/ at = Size
      OBVIOUS
    <2>3. /\ att' = [att EXCEPT !.at = at, !.last = IF report THEN at ELSE @]
          /\ temp' = IF att.stage = "split" THEN temp ELSE at
          /\ rowSource' = IF report THEN att.src ELSE rowSource
          /\ IF report THEN Folded!Emit(Folded!Event(att.src, at, "downloading"))
                       ELSE UNCHANGED <<folded, counted>>
      <3>1. CASE report
        BY <1>a, <2>2, <3>1 DEF Folded!Receive
      <3>2. CASE ~report
        BY <1>a, <2>2, <3>2 DEF Folded!Receive
      <3> QED
        BY <3>1, <3>2
    <2> QED
      BY <2>2, <2>3
  <1>3. /\ folded \in CardType /\ att \in AttType /\ temp \in 0 .. Size
        /\ counted \in Nat /\ net \in Nat /\ runNet \in [Sources -> Nat] /\ attempts \in Nat
        /\ rowSource \in Maybe /\ owner \in Maybe /\ tried \subseteq Sources
        /\ st \in {"running", "idle", "done"} /\ attempts \in 0 .. MaxAttempts
    BY FoldConstants DEF FoldInv, FoldShape
  <1>4. /\ att.src \in Sources /\ folded.source = att.src /\ folded.prev = Said
        /\ att.at \in 0 .. Size /\ Said \in 0 .. Size /\ Said <= att.at
        /\ st = "running" /\ att.src \in tried
    BY <1>1, UnderWay
  <1>b. att.last <= Said /\ att.last \in 0 .. Size
    BY <1>1, <1>3 DEF FoldInv, FoldBytes, AttType
  <1>5. Size \in Nat /\ EmitEvery \in Nat /\ Folded!NoSource \notin Sources /\ Allowed(attempts) \in Nat
    BY <1>3, FoldConstants, AllowedGrows
  <1>6. at \in 0 .. Size /\ at > Said /\ at = att.at + 1
    BY <1>1, <1>a, <1>4, <1>5
  <1>7. PICK rep : rep = IF report THEN at ELSE Said
    OBVIOUS
  <1>8. /\ att' = [att EXCEPT !.at = at, !.last = IF report THEN at ELSE att.last]
        /\ rep \in 0 .. Size /\ rep <= at
    BY <1>2, <1>4, <1>6, <1>7
  <1>9. /\ att' \in AttType /\ att'.src = att.src /\ att'.at = at /\ att'.stage # "open"
        /\ att'.last <= rep
    <2>1. (IF report THEN at ELSE att.last) \in 0 .. Size /\ (IF report THEN at ELSE att.last) <= rep
      BY <1>6, <1>7, <1>b
    <2>2. att'.stage = att.stage /\ att'.last = IF report THEN at ELSE att.last
      BY <1>3, <1>8 DEF AttType
    <2> QED
      BY <1>0, <1>3, <1>6, <1>8, <2>1, <2>2 DEF AttType
  <1>10. att' # Folded!NoAttempt
    BY <1>4, <1>5, <1>9, NoAttemptFacts
  <1>11. PICK delta \in Nat :
           /\ \/ delta = at - Said /\ rep = at
              \/ delta = 0 /\ rep = at /\ folded.based = FALSE
              \/ delta = 0 /\ rep = Said /\ at - rep <= EmitEvery
                   /\ folded'.based = folded.based
           /\ rep = at => folded'.based = TRUE
           /\ folded' \in CardType /\ counted' = counted + delta /\ folded'.prev = rep
           /\ folded'.source = folded.source /\ folded'.legs = folded.legs
           /\ folded'.by = [folded.by EXCEPT ![att.src] = @ + delta]
    <2>1. CASE report
      <3>1. Folded!Emit(Folded!Event(att.src, at, "downloading"))
        BY <1>2, <2>1
      <3>2. folded.prev <= at
        BY <1>4, <1>6
      <3>3. PICK delta \in Nat :
              /\ delta = IF ~folded.based /\ folded.prev = 0 THEN 0 ELSE at - folded.prev
              /\ folded' \in CardType /\ counted' = counted + delta
              /\ folded'.prev = at /\ folded'.based
              /\ folded'.source = folded.source /\ folded'.legs = folded.legs /\ folded'.reason = folded.reason
              /\ folded'.by = [folded.by EXCEPT ![att.src] = @ + delta]
        BY <1>3, <1>4, <1>6, <3>1, <3>2, ReportFacts
      <3>4. folded.based \in BOOLEAN /\ folded'.based \in BOOLEAN
        BY <1>3, <3>3 DEF CardType
      <3>5. folded'.based = TRUE
        BY <3>3, <3>4
      <3>6. rep = at
        BY <1>7, <2>1
      <3>7. \/ delta = at - Said
            \/ delta = 0 /\ folded.based = FALSE
        <4>1. delta = IF ~folded.based /\ folded.prev = 0 THEN 0 ELSE at - folded.prev
          BY <3>3
        <4>2. CASE folded.based
          BY <1>4, <4>1, <4>2
        <4>3. CASE ~folded.based
          <5>1. folded.based = FALSE
            BY <3>4, <4>3
          <5> QED
            BY <1>4, <4>1, <5>1
        <4> QED
          BY <4>2, <4>3
      <3> QED
        BY <3>3, <3>5, <3>6, <3>7
    <2>2. CASE ~report
      <3>1. folded' = folded /\ counted' = counted /\ rep = Said /\ ~(at - att.last > EmitEvery)
        BY <1>2, <1>7, <2>2
      <3>2. at - rep <= EmitEvery /\ rep # at
        BY <1>4, <1>5, <1>6, <1>b, <3>1
      <3>3. folded.by \in [Sources -> Nat]
        BY <1>3 DEF CardType
      <3>4. folded'.by = [folded.by EXCEPT ![att.src] = @ + 0]
        <4>1. [folded.by EXCEPT ![att.src] = @ + 0] = folded.by
          BY <3>3
        <4> QED
          BY <3>1, <4>1
      <3>5. counted' = counted + 0
        BY <1>3, <3>1
      <3>6. folded' \in CardType /\ folded'.prev = rep /\ folded'.based = folded.based
            /\ folded'.source = folded.source /\ folded'.legs = folded.legs
        BY <1>3, <1>4, <3>1
      <3> QED
        BY <3>1, <3>2, <3>4, <3>5, <3>6
    <2> QED
      BY <2>1, <2>2
  <1>c. Said' = rep
    BY <1>10, <1>11 DEF Said
  <1>12. FoldShape'
    <2>0. rowSource' \in Maybe
      BY <1>2, <1>3, <1>4 DEF Maybe
    <2>1. temp' \in 0 .. Size
      <3>1. temp' = temp \/ temp' = at
        BY <1>2
      <3> QED
        BY <1>3, <1>6, <3>1
    <2>2. runNet' \in [Sources -> Nat] /\ net' \in Nat /\ counted' \in Nat
      <3>1. PICK r \in [Sources -> Nat] : r = runNet
        BY <1>3
      <3>2. runNet' = [r EXCEPT ![att.src] = @ + 1]
        BY <1>1, <3>1
      <3>3. runNet' \in [Sources -> Nat]
        <4>1. att.src \in Sources /\ r[att.src] \in Nat
          BY <1>4
        <4>2. PICK s, v : s = att.src /\ v = r[att.src] + 1
          OBVIOUS
        <4>3. runNet' = [r EXCEPT ![s] = v] /\ s \in Sources /\ v \in Nat
          BY <3>2, <4>1, <4>2
        <4> QED
          BY <4>3
      <3> QED
        BY <1>1, <1>3, <1>11, <3>3
    <2>3. Said' <= att'.at /\ att'.src \in Sources
      BY <1>4, <1>8, <1>9, <1>c
    <2> QED
      BY <1>1, <1>3, <1>9, <1>11, <2>0, <2>1, <2>2, <2>3 DEF FoldShape
  <1>13. FoldBytes'
    <2>0. /\ counted + (att.at - Said) <= net
          /\ \A s \in Sources : folded.by[s] + (IF s = att.src THEN att.at - Said ELSE 0) <= runNet[s]
          /\ att.at - Said <= EmitEvery
          /\ net + (2 * EmitEvery + 1)
               <= counted + Allowed(attempts) + (IF folded.based THEN EmitEvery + 1 ELSE 0)
                    + (att.at - Said)
      BY <1>1 DEF FoldInv, FoldBytes
    <2>a. /\ at \in Nat /\ att.at \in Nat /\ Said \in Nat /\ rep \in Nat /\ delta \in Nat
          /\ at = att.at + 1 /\ Said <= att.at /\ rep <= at
      BY <1>4, <1>5, <1>6, <1>8
    <2>b. \/ delta = at - Said /\ rep = at
          \/ delta = 0 /\ rep = at
          \/ delta = 0 /\ rep = Said /\ at - rep <= EmitEvery
      BY <1>11
    <2>1. delta + (at - rep) <= at - Said /\ delta >= 0 /\ at - rep >= 0 /\ at - rep <= EmitEvery
      <3>1. PICK a, o : a = att.at /\ o = Said
        OBVIOUS
      <3>2. /\ at \in Nat /\ a \in Nat /\ o \in Nat /\ rep \in Nat /\ delta \in Nat /\ EmitEvery \in Nat
            /\ at = a + 1 /\ o <= a /\ rep <= at
        BY <1>5, <2>a, <3>1
      <3>3. \/ delta = at - o /\ rep = at
            \/ delta = 0 /\ rep = at
            \/ delta = 0 /\ rep = o /\ at - rep <= EmitEvery
        BY <2>b, <3>1
      <3>4. delta + (at - rep) <= at - o /\ delta >= 0 /\ at - rep >= 0 /\ at - rep <= EmitEvery
        <4>1. CASE delta = at - o /\ rep = at
          BY <3>2, <4>1
        <4>2. CASE delta = 0 /\ rep = at
          BY <3>2, <4>2
        <4>3. CASE delta = 0 /\ rep = o /\ at - rep <= EmitEvery
          BY <3>2, <4>3
        <4> QED
          BY <3>3, <4>1, <4>2, <4>3
      <3> QED
        BY <3>1, <3>4
    <2>2. counted' + (at - rep) <= net'
      <3>1. counted + (att.at - Said) <= net /\ counted' = counted + delta /\ net' = net + 1
        BY <1>1, <1>11, <2>0
      <3> QED
        BY <1>3, <2>a, <2>1, <3>1
    <2>3. ASSUME NEW s \in Sources
          PROVE  folded'.by[s] + (IF s = att.src THEN at - rep ELSE 0) <= runNet'[s]
      <3>1. folded.by \in [Sources -> Nat] /\ folded.by[s] \in Nat /\ runNet[s] \in Nat
        BY <1>3 DEF CardType
      <3>2. CASE s = att.src
        <4>1. folded'.by[s] = folded.by[s] + delta /\ runNet'[s] = runNet[s] + 1
          BY <1>1, <1>3, <1>4, <1>11, <3>1, <3>2
        <4>2. folded.by[s] + (att.at - Said) <= runNet[s]
          BY <2>0, <3>2
        <4> QED
          <5>1. PICK b, r : b = folded.by[s] /\ r = runNet[s]
            OBVIOUS
          <5>2. b \in Nat /\ r \in Nat /\ b + (att.at - Said) <= r
            BY <3>1, <4>2, <5>1
          <5>3. b + delta + (at - rep) <= r + 1
            BY <2>a, <2>1, <5>2
          <5> QED
            BY <3>2, <4>1, <5>1, <5>3
      <3>3. CASE s # att.src
        <4>1. folded'.by[s] = folded.by[s] /\ runNet'[s] = runNet[s]
          BY <1>1, <1>3, <1>4, <1>11, <3>1, <3>3
        <4>2. folded.by[s] + 0 <= runNet[s]
          BY <2>0, <3>3
        <4> QED
          BY <3>1, <3>3, <4>1, <4>2
      <3> QED
        BY <3>2, <3>3
    <2>4. net' + (2 * EmitEvery + 1)
            <= counted' + Allowed(attempts) + (IF folded'.based THEN EmitEvery + 1 ELSE 0) + (at - rep)
      <3> HIDE DEF Allowed
      <3>1. PICK more, more2 : /\ more = IF folded.based THEN EmitEvery + 1 ELSE 0
                               /\ more2 = IF folded'.based THEN EmitEvery + 1 ELSE 0
        OBVIOUS
      <3>2. more \in {0, EmitEvery + 1} /\ more2 \in {0, EmitEvery + 1}
        BY <3>1
      <3>3. net + (2 * EmitEvery + 1) <= counted + Allowed(attempts) + more + (att.at - Said)
        BY <2>0, <3>1
      <3>4. \/ delta = at - Said /\ rep = at /\ more2 = EmitEvery + 1
            \/ delta = 0 /\ rep = at /\ more = 0 /\ more2 = EmitEvery + 1
            \/ delta = 0 /\ rep = Said /\ more2 = more
        BY <1>11, <3>1
      <3>5. net' = net + 1 /\ counted' = counted + delta
        BY <1>1, <1>11
      <3>6. net' + (2 * EmitEvery + 1) <= counted' + Allowed(attempts) + more2 + (at - rep)
        <4>1. PICK room \in Nat : room = Allowed(attempts)
          BY <1>5
        <4>2. net + (2 * EmitEvery + 1) <= counted + room + more + (att.at - Said)
          BY <3>3, <4>1
        <4>3. att.at - Said <= EmitEvery
          BY <2>0
        <4>4. PICK c, n : c = counted /\ n = net
          OBVIOUS
        <4>5. c \in Nat /\ n \in Nat
          BY <1>3, <4>4
        <4>6. (n + 1) + (2 * EmitEvery + 1) <= (c + delta) + room + more2 + (at - rep)
          <5>1. CASE delta = at - Said /\ rep = at /\ more2 = EmitEvery + 1
            BY <1>5, <2>a, <3>2, <4>2, <4>4, <4>5, <5>1
          <5>2. CASE delta = 0 /\ rep = at /\ more = 0 /\ more2 = EmitEvery + 1
            BY <1>5, <2>a, <4>2, <4>3, <4>4, <4>5, <5>2
          <5>3. CASE delta = 0 /\ rep = Said /\ more2 = more
            BY <1>5, <2>a, <3>2, <4>2, <4>4, <4>5, <5>3
          <5> QED
            BY <3>4, <5>1, <5>2, <5>3
        <4> QED
          BY <3>5, <4>1, <4>4, <4>6
      <3> QED
        BY <3>1, <3>6
    <2> QED
      BY <1>1, <1>9, <1>10, <1>11, <1>c, <2>1, <2>2, <2>3, <2>4 DEF FoldBytes, Allowed
  <1>14. FoldRoute'
    <2>1. /\ Folded!SwitchesExplained
          /\ folded.legs # <<>> => folded.legs[Len(folded.legs)].to \in tried
      BY <1>4 DEF FoldInv, FoldRoute
    <2> QED
      BY <1>1, <1>4, <1>9, <1>10, <1>11, <2>1 DEF FoldRoute, Folded!SwitchesExplained
  <1> QED
    BY <1>12, <1>13, <1>14 DEF FoldInv

(* An attempt that ends, and a card that then says the same of its bytes, or
   more. *)
LEMMA EndKeeps ==
    ASSUME FoldInv, att' = Folded!NoAttempt, NEW more \in Nat,
           folded' \in CardType, counted' = counted + more, counted' <= net,
           \A s \in Sources : folded'.by[s] <= runNet[s],
           temp' \in 0 .. Size, rowSource' \in Maybe, owner' \in Maybe, tried' \subseteq Sources,
           UNCHANGED <<net, runNet, attempts>>, st' \in {"running", "idle", "done"}
    PROVE  FoldShape' /\ FoldBytes'
  <1>1. /\ counted \in Nat /\ net \in Nat /\ runNet \in [Sources -> Nat] /\ attempts \in 0 .. MaxAttempts
    BY DEF FoldInv, FoldShape
  <1>2. net <= counted + Allowed(attempts) /\ Allowed(attempts) \in Nat
    BY <1>1, EndedBytes, AllowedGrows, FoldConstants
  <1>3. att' \in AttType /\ att'.at = 0 /\ Said' = 0 /\ att'.src = Folded!NoSource
    BY NoAttemptFacts DEF Said
  <1>4. FoldShape'
    <2>1. counted' \in Nat
      BY <1>1
    <2>2. Said' <= att'.at
      BY <1>3
    <2> QED
      BY <1>1, <1>3, <2>1, <2>2 DEF FoldShape
  <1>5. FoldBytes'
    <2>1. counted' + (att'.at - Said') <= net'
      BY <1>1, <1>3
    <2>2. ASSUME NEW s \in Sources
          PROVE  folded'.by[s] + (IF s = att'.src THEN att'.at - Said' ELSE 0) <= runNet'[s]
      <3>1. folded'.by[s] \in Nat /\ s # att'.src
        BY <1>3, FoldConstants DEF CardType
      <3> QED
        BY <3>1
    <2>3. net' <= counted' + Allowed(attempts)
      <3> HIDE DEF Allowed
      <3> QED
        BY <1>1, <1>2
    <2> QED
      BY <2>1, <2>2, <2>3 DEF FoldBytes, Allowed
  <1> QED
    BY <1>4, <1>5

(* A source is given up, or refused before it is announced. *)
LEMMA FailureKeeps ==
    ASSUME FoldInv, att' = Folded!NoAttempt, NEW s \in Sources, NEW d \in 0 .. Size,
           Folded!Emit(Folded!Event(s, d, "source-failed")),
           temp' \in 0 .. Size, owner' \in Maybe, tried' = tried \cup {s},
           \/ att = Folded!NoAttempt
           \/ att # Folded!NoAttempt /\ att.src = s,
           UNCHANGED <<rowSource, st, net, runNet, attempts>>
    PROVE  FoldInv'
  <1>1. /\ folded \in CardType /\ counted \in Nat /\ st \in {"running", "idle", "done"}
        /\ tried \subseteq Sources /\ rowSource \in Maybe
    BY DEF FoldInv, FoldShape
  <1>2. /\ folded' \in CardType /\ counted' = counted
        /\ folded'.by = folded.by /\ folded'.source = folded.source /\ folded'.legs = folded.legs
        /\ folded'.reason = s
    BY <1>1, FailureFacts
  <1>3. FoldShape' /\ FoldBytes'
    <2>1. /\ \A o \in Sources : folded.by[o] <= runNet[o]
          /\ counted <= net
      BY EndedBytes
    <2>2. counted' = counted + 0 /\ counted' <= net /\ 0 \in Nat
      BY <1>1, <1>2, <2>1
    <2>3. \A o \in Sources : folded'.by[o] <= runNet[o]
      BY <1>2, <2>1
    <2>4. st' \in {"running", "idle", "done"} /\ tried' \subseteq Sources /\ rowSource' \in Maybe
      BY <1>1
    <2> QED
      BY <1>2, <2>2, <2>3, <2>4, EndKeeps
  <1>4. FoldRoute'
    <2>1. /\ Folded!SwitchesExplained
          /\ st = "running" /\ folded.legs # <<>> => folded.legs[Len(folded.legs)].to \in tried
      BY DEF FoldInv, FoldRoute
    <2>2. st = "running" => folded.source \in tried \cup {Folded!NoSource}
      <3>1. CASE att = Folded!NoAttempt
        BY <3>1 DEF FoldInv, FoldRoute
      <3>2. CASE att # Folded!NoAttempt
        BY <3>2, UnderWay
      <3> QED
        BY <3>1, <3>2
    <2> QED
      BY <1>2, <2>1, <2>2 DEF FoldRoute, Folded!SwitchesExplained
  <1> QED
    BY <1>3, <1>4 DEF FoldInv

LEMMA SourceFailedKeeps ==
    ASSUME FoldInv, NEW bad \in BOOLEAN, Folded!SourceFailed(bad)
    PROVE  FoldInv'
  <1>1. /\ att.stage \in {"open", "stream"} /\ att' = Folded!NoAttempt
        /\ temp' = IF bad THEN 0 ELSE temp
        /\ owner' = IF temp' > 0 THEN att.src ELSE Folded!NoSource
        /\ Folded!Emit(Folded!Event(att.src, temp', "source-failed"))
        /\ UNCHANGED <<rowSource, tried, st, net, runNet, attempts>>
    BY DEF Folded!SourceFailed
  <1>2. att # Folded!NoAttempt
    BY <1>1, NoAttemptFacts
  <1>3. att.src \in Sources /\ att.src \in tried
    BY <1>2, UnderWay
  <1>4. temp' \in 0 .. Size
    BY <1>1, FoldConstants DEF FoldInv, FoldShape
  <1>5. owner' \in Maybe /\ tried' = tried \cup {att.src}
    BY <1>1, <1>3 DEF Maybe
  <1>6. PICK d \in 0 .. Size : d = temp'
    BY <1>4
  <1>7. Folded!Emit(Folded!Event(att.src, d, "source-failed"))
    BY <1>1, <1>6
  <1> QED
    BY <1>1, <1>2, <1>3, <1>4, <1>5, <1>7, FailureKeeps

LEMMA RefusedKeeps ==
    ASSUME FoldInv, NEW s \in Sources, Folded!Refused(s)
    PROVE  FoldInv'
  <1>1. /\ att = Folded!NoAttempt /\ att' = att /\ temp' = Folded!Leftover(s)
        /\ owner' = IF temp' > 0 THEN s ELSE Folded!NoSource
        /\ tried' = tried \cup {s}
        /\ Folded!Emit(Folded!Event(s, temp', "source-failed"))
        /\ UNCHANGED <<rowSource, st, net, runNet, attempts>>
    BY DEF Folded!Refused
  <1>2. temp' \in 0 .. Size
    BY <1>1, LeftoverFits
  <1>3. owner' \in Maybe
    BY <1>1 DEF Maybe
  <1>4. PICK d \in 0 .. Size : d = temp'
    BY <1>2
  <1>5. Folded!Emit(Folded!Event(s, d, "source-failed"))
    BY <1>1, <1>4
  <1>6. att' = Folded!NoAttempt
    BY <1>1
  <1> QED
    BY <1>1, <1>2, <1>3, <1>5, <1>6, FailureKeeps

LEMMA VerifiedKeeps ==
    ASSUME FoldInv, Folded!Verified
    PROVE  FoldInv'
  <1>1. /\ att # Folded!NoAttempt /\ att.at = Size /\ att' = Folded!NoAttempt /\ st' = "done"
        /\ Folded!Emit(Folded!Event(att.src, Size, "verified"))
        /\ UNCHANGED <<temp, rowSource, owner, tried, net, runNet, attempts>>
    BY NoAttemptFacts DEF Folded!Verified
  <1>2. /\ folded \in CardType /\ counted \in Nat /\ net \in Nat /\ runNet \in [Sources -> Nat]
        /\ temp \in 0 .. Size /\ rowSource \in Maybe /\ owner \in Maybe /\ tried \subseteq Sources
    BY DEF FoldInv, FoldShape
  <1>3. /\ att.src \in Sources /\ folded.source = att.src /\ folded.prev = Said
        /\ Said \in 0 .. Size
    BY <1>1, UnderWay
  <1>4. Size \in 0 .. Size /\ folded.prev <= Size
    BY <1>3, FoldConstants
  <1>5. PICK delta \in Nat :
          /\ delta = IF ~folded.based /\ folded.prev = 0 THEN 0 ELSE Size - folded.prev
          /\ folded' \in CardType /\ counted' = counted + delta
          /\ folded'.prev = Size /\ folded'.based
          /\ folded'.source = folded.source /\ folded'.legs = folded.legs /\ folded'.reason = folded.reason
          /\ folded'.by = [folded.by EXCEPT ![att.src] = @ + delta]
    BY <1>1, <1>2, <1>3, <1>4, ReportFacts
  <1>6. delta <= att.at - Said
    <2>1. delta = 0 \/ delta = Size - folded.prev
      BY <1>5
    <2>2. Size - folded.prev = att.at - Said /\ 0 <= att.at - Said
      BY <1>1, <1>3, FoldConstants
    <2> QED
      BY <2>1, <2>2
  <1>7. /\ counted + (att.at - Said) <= net
        /\ \A s \in Sources : folded.by[s] + (IF s = att.src THEN att.at - Said ELSE 0) <= runNet[s]
    BY DEF FoldInv, FoldBytes
  <1>8. PICK left \in Nat : left = att.at - Said
    <2>1. att.at - Said \in Nat
      BY <1>1, <1>3, FoldConstants
    <2> QED
      BY <2>1
  <1>9. counted' <= net
    BY <1>2, <1>5, <1>6, <1>7, <1>8
  <1>10. ASSUME NEW s \in Sources PROVE folded'.by[s] <= runNet[s]
    <2>1. folded.by \in [Sources -> Nat] /\ folded.by[s] \in Nat /\ runNet[s] \in Nat
      BY <1>2 DEF CardType
    <2>2. CASE s = att.src
      <3>1. folded'.by[s] = folded.by[s] + delta /\ folded.by[s] + left <= runNet[s]
        BY <1>3, <1>5, <1>7, <1>8, <2>1, <2>2
      <3> QED
        BY <1>6, <1>8, <2>1, <3>1
    <2>3. CASE s # att.src
      <3>1. folded'.by[s] = folded.by[s] /\ folded.by[s] + 0 <= runNet[s]
        BY <1>3, <1>5, <1>7, <2>1, <2>3
      <3> QED
        BY <2>1, <3>1
    <2> QED
      BY <2>2, <2>3
  <1>11. FoldShape' /\ FoldBytes'
    BY <1>1, <1>2, <1>5, <1>9, <1>10, EndKeeps
  <1>12. FoldRoute'
    <2>1. Folded!SwitchesExplained
      BY DEF FoldInv, FoldRoute
    <2> QED
      BY <1>1, <1>5, <2>1 DEF FoldRoute, Folded!SwitchesExplained
  <1> QED
    BY <1>11, <1>12 DEF FoldInv

LEMMA RunEndsKeeps ==
    ASSUME FoldInv, Folded!RunEnds
    PROVE  FoldInv'
  <1>1. /\ att' = Folded!NoAttempt /\ st' = "idle"
        /\ folded' = [folded EXCEPT !.source = Folded!NoSource]
        /\ temp' = temp \/ temp' = 0 \/ temp' = Size
        /\ rowSource' = rowSource \/ rowSource' = att.src
        /\ UNCHANGED <<owner, tried, counted, net, runNet, attempts>>
    BY DEF Folded!RunEnds
  <1>2. /\ folded \in CardType /\ counted \in Nat /\ att \in AttType
        /\ temp \in 0 .. Size /\ rowSource \in Maybe /\ owner \in Maybe /\ tried \subseteq Sources
    BY DEF FoldInv, FoldShape
  <1>a. temp' \in 0 .. Size /\ rowSource' \in Maybe
    BY <1>1, <1>2, FoldConstants DEF AttType
  <1>3. folded' \in CardType /\ folded'.by = folded.by /\ folded'.legs = folded.legs
    <2>1. Folded!NoSource \in Maybe
      BY DEF Maybe
    <2> QED
      BY <1>1, <1>2, <2>1 DEF CardType
  <1>4. FoldShape' /\ FoldBytes'
    <2>1. /\ \A s \in Sources : folded.by[s] <= runNet[s]
          /\ counted <= net
      BY EndedBytes
    <2>2. counted' = counted + 0 /\ counted' <= net /\ 0 \in Nat
      BY <1>1, <1>2, <2>1
    <2>3. \A s \in Sources : folded'.by[s] <= runNet[s]
      BY <1>3, <2>1
    <2> QED
      BY <1>1, <1>2, <1>3, <1>a, <2>2, <2>3, EndKeeps
  <1>5. FoldRoute'
    <2>1. Folded!SwitchesExplained
      BY DEF FoldInv, FoldRoute
    <2> QED
      BY <1>1, <1>3, <2>1 DEF FoldRoute, Folded!SwitchesExplained
  <1> QED
    BY <1>4, <1>5 DEF FoldInv

(* A new run on a fresh card: nothing of the old one is left to explain. *)
LEMMA ResumeKeeps ==
    ASSUME FoldInv, Folded!Resume
    PROVE  FoldInv'
  <1>1. /\ st = "idle" /\ st' = "running" /\ tried' = {}
        /\ folded' = Folded!FreshCard /\ runNet' = Folded!Zero
        /\ owner' = rowSource /\ (temp' = 0 \/ temp' = temp)
        /\ UNCHANGED <<rowSource, att, counted, net, attempts>>
    BY DEF Folded!Resume
  <1>2. att = Folded!NoAttempt
    BY <1>1 DEF FoldInv, FoldRoute
  <1>3. /\ temp \in 0 .. Size /\ rowSource \in Maybe /\ counted \in Nat /\ net \in Nat
        /\ attempts \in 0 .. MaxAttempts /\ 0 \in 0 .. Size
    BY FoldConstants DEF FoldInv, FoldShape
  <1>4. Folded!FreshCard \in CardType /\ Folded!FreshCard.by = Folded!Zero /\ Folded!FreshCard.legs = <<>>
        /\ Folded!FreshCard.source = Folded!NoSource
    BY FreshFacts
  <1>5. Folded!NoAttempt \in AttType /\ Folded!NoAttempt.at = 0 /\ Folded!NoAttempt.src = Folded!NoSource
    BY NoAttemptFacts
  <1>a. Said' = 0
    BY <1>1, <1>2 DEF Said
  <1>6. Folded!Zero \in [Sources -> Nat] /\ \A s \in Sources : Folded!Zero[s] = 0
    BY DEF Folded!Zero
  <1>7. counted <= net /\ net <= counted + Allowed(attempts)
    BY EndedBytes
  <1> HIDE DEF Folded!Zero, Folded!NoAttempt, Folded!FreshCard
  <1>8. FoldShape'
    <2>1. folded' \in CardType /\ att' \in AttType /\ Said' <= att'.at /\ runNet' \in [Sources -> Nat]
      BY <1>1, <1>2, <1>4, <1>5, <1>6, <1>a
    <2>2. temp' \in 0 .. Size /\ rowSource' \in Maybe /\ owner' \in Maybe
      BY <1>1, <1>3
    <2> QED
      BY <1>1, <1>2, <1>3, <2>1, <2>2 DEF FoldShape
  <1>9. FoldBytes'
    <2>1. \A s \in Sources : folded'.by[s] = 0 /\ runNet'[s] = 0
      BY <1>1, <1>4, <1>6
    <2>2. att'.at = 0 /\ Said' = 0 /\ att' = Folded!NoAttempt
      BY <1>1, <1>2, <1>5, <1>a
    <2>3. counted' + (0 - 0) <= net' /\ net' <= counted' + Allowed(attempts)
      BY <1>1, <1>3, <1>7
    <2>4. attempts' = attempts
      BY <1>1
    <2> QED
      BY <2>1, <2>2, <2>3, <2>4 DEF FoldBytes, Allowed
  <1>10. FoldRoute'
    BY <1>1, <1>2, <1>4 DEF FoldRoute, Folded!SwitchesExplained
  <1> QED
    BY <1>8, <1>9, <1>10 DEF FoldInv

LEMMA FoldStep ==
    ASSUME FoldInv, Folded!Next
    PROVE  FoldInv'
  BY ConnectKeeps, RefusedKeeps, SplitFailsKeeps, OpenedKeeps, ReceiveKeeps, RetryKeeps, SourceFailedKeeps,
     VerifiedKeeps, RunEndsKeeps, ResumeKeeps DEF Folded!Next

LEMMA FoldFrame ==
    ASSUME FoldInv, UNCHANGED foldVars
    PROVE  FoldInv'
  <1>1. UNCHANGED <<temp, rowSource, owner, att, tried, st, folded, counted, net, runNet, attempts>>
    BY DEF foldVars
  <1>2. FoldShape'
    BY <1>1 DEF FoldInv, FoldShape, Said
  <1>3. FoldBytes'
    BY <1>1 DEF FoldInv, FoldBytes, Allowed, Said
  <1>4. FoldRoute'
    BY <1>1 DEF FoldInv, FoldRoute, Folded!SwitchesExplained
  <1> QED
    BY <1>2, <1>3, <1>4 DEF FoldInv

(* For any sources, size, number of tries and reporting interval, over retries
   of a source, splits that fall back to one stream, failovers, quarantines,
   servers that ignore a range, pauses and resumes: the session counter counts
   only bytes that came over the network and misses a bounded number per
   attempt, the receipt gives no source more than it sent, and every change of
   route in a run names another source that failed. *)
THEOREM ReceiptCorrect == Spec => []ReceiptInv
  <1>1. Init => FoldInv
    BY FoldInit DEF Init
  <1>2. FoldInv /\ [Next]_vars => FoldInv'
    BY FoldStep, FoldFrame DEF Next, vars, InBrowse, InSettings, InLibrary, InFold, InComposer, InBundle,
       InTwice, InShare
  <1>3. ASSUME FoldInv PROVE ReceiptInv
    <2>1. Folded!FoldTypeOK
      <3>1. /\ folded \in CardType /\ att \in AttType
            /\ temp \in 0 .. Size /\ rowSource \in Maybe /\ owner \in Maybe /\ tried \subseteq Sources
            /\ st \in {"running", "idle", "done"}
            /\ counted \in Nat /\ net \in Nat /\ runNet \in [Sources -> Nat]
            /\ attempts \in 0 .. MaxAttempts
        BY <1>3 DEF FoldInv, FoldShape
      <3>2. /\ att.src \in Maybe /\ att.at \in 0 .. Size /\ att.last \in 0 .. Size
            /\ att.stage \in {"none", "split", "open", "stream"} /\ att.tries \in 0 .. MaxTries
        BY <3>1 DEF AttType
      <3>3. /\ folded.done \in 0 .. Size /\ folded.prev \in 0 .. Size
            /\ folded.by \in [Sources -> Nat] /\ folded.legs \in Seq(Folded!Leg)
        BY <3>1 DEF CardType
      <3> QED
        BY <3>1, <3>2, <3>3 DEF Folded!FoldTypeOK, Maybe
    <2>2. Folded!ThroughputHonest
      BY <1>3, EndedBytes DEF Folded!ThroughputHonest, Allowed
    <2>3. Folded!ReceiptHonest
      BY <1>3, EndedBytes DEF Folded!ReceiptHonest
    <2>4. Folded!SwitchesExplained
      BY <1>3 DEF FoldInv, FoldRoute
    <2> QED
      BY <2>1, <2>2, <2>3, <2>4 DEF ReceiptInv
  <1> QED
    BY <1>1, <1>2, <1>3, PTL DEF Spec

-----------------------------------------------------------------------------
(* The one seeder of Studio (StudioShare) *)

Cmds == {"start", "stop", "announce", "unseed", "delete", "import", "none"}
Stages == {"lock", "spawn", "stop", "seed", "override", "task", "none"}

(* The commands that hold the mutex of AppState.share over a step. *)
Holds(p) ==
    Studio!At(p, "start", "spawn") \/ Studio!At(p, "stop", "stop") \/ Studio!At(p, "announce", "seed")

(* What may be served: what is shared, what comes from a list out of date, and
   what a command is about to take down. *)
Pending == {b \in Blobs : \E p \in Procs : /\ procs[p].cmd \in {"unseed", "delete"}
                                           /\ procs[p].st = "lock" /\ b \in procs[p].bs}
Excused == Studio!Shareable \cup late \cup Pending

HeldShape ==
    /\ cached \subseteq Blobs /\ on \subseteq Blobs /\ gatedOn \in BOOLEAN
    /\ held \in 0 .. started /\ started \in 0 .. MaxNodes /\ nodes \subseteq 1 .. started
    /\ lock \in Procs \cup {Studio!None}
    /\ seeded \subseteq Blobs /\ late \subseteq Blobs
    /\ procs \in [Procs -> [cmd : Cmds, st : Stages, bs : SUBSET Blobs]]

HeldLock ==
    /\ \A p \in Procs : Holds(p) <=> lock = p
    /\ \A p \in Procs : Studio!At(p, "start", "spawn") \/ Studio!At(p, "stop", "stop") => held = 0
    /\ (\A p \in Procs : ~Studio!At(p, "stop", "stop")) => nodes = {held} \ {0}
    /\ \E n \in 0 .. MaxNodes : nodes \subseteq {n}

HeldServes ==
    /\ nodes = {} => seeded = {}
    /\ seeded \subseteq Excused
    /\ \A p \in Procs : Studio!At(p, "announce", "seed") => procs[p].bs \subseteq Excused

HeldInv == HeldShape /\ HeldLock /\ HeldServes

Proc == [cmd : Cmds, st : Stages, bs : SUBSET Blobs]

LEMMA HeldConstants == Gated \subseteq Blobs /\ Studio!None \notin Procs /\ MaxNodes \in Nat
  BY PagesAssumed DEF Studio!ShareAssumption

LEMMA HeldInit ==
    ASSUME Studio!Init
    PROVE  HeldInv
  <1>1. /\ cached \subseteq Blobs /\ on = Blobs \ Gated /\ gatedOn \in BOOLEAN
        /\ held = 0 /\ lock = Studio!None /\ nodes = {} /\ started = 0 /\ seeded = {} /\ late = {}
        /\ procs = [p \in Procs |-> Studio!Free]
    BY DEF Studio!Init
  <1>2. Studio!Free \in Proc /\ Studio!Free.cmd = "none" /\ Studio!Free.st = "none"
    BY DEF Studio!Free, Studio!None, Proc, Cmds, Stages
  <1>3. \A p \in Procs : procs[p].st = "none" /\ lock # p
    BY <1>1, <1>2, HeldConstants
  <1>4. HeldShape
    BY <1>1, <1>2, HeldConstants DEF HeldShape, Proc
  <1>5. HeldLock
    <2>1. \A p \in Procs : ~Studio!At(p, "start", "spawn") /\ ~Studio!At(p, "stop", "stop")
                           /\ ~Studio!At(p, "announce", "seed")
      BY <1>3 DEF Studio!At
    <2>2. 0 \in 0 .. MaxNodes /\ {0} \ {0} = {}
      BY HeldConstants
    <2> QED
      BY <1>1, <1>3, <2>1, <2>2 DEF HeldLock, Holds
  <1>6. HeldServes
    BY <1>1, <1>3 DEF HeldServes, Studio!At
  <1> QED
    BY <1>4, <1>5, <1>6 DEF HeldInv

(* One command moves, and the others stay where they are. *)
Moves(p, r) == procs' = [procs EXCEPT ![p] = r]

LEMMA MovesFacts ==
    ASSUME HeldInv, NEW p \in Procs, NEW r \in Proc, Moves(p, r)
    PROVE  /\ procs' \in [Procs -> Proc] /\ procs'[p] = r
           /\ \A q \in Procs \ {p} : procs'[q] = procs[q]
           /\ \A q \in Procs \ {p}, c \in Cmds, s \in Stages : Studio!At(q, c, s)' <=> Studio!At(q, c, s)
           /\ \A c \in Cmds, s \in Stages : Studio!At(p, c, s)' <=> r.cmd = c /\ r.st = s
  <1>1. procs \in [Procs -> Proc]
    BY DEF HeldInv, HeldShape, Proc
  <1>2. procs' \in [Procs -> Proc] /\ procs'[p] = r /\ \A q \in Procs \ {p} : procs'[q] = procs[q]
    BY <1>1 DEF Moves
  <1> QED
    BY <1>2 DEF Studio!At

(* A step of a command that does not hold the mutex before or after it. *)
LEMMA AsideLock ==
    ASSUME HeldInv, NEW p \in Procs, NEW r \in Proc, Moves(p, r), ~Holds(p),
           r.st \notin {"spawn", "stop", "seed"}, UNCHANGED <<lock, held, nodes>>
    PROVE  HeldLock'
  <1>1. /\ \A q \in Procs \ {p}, c \in Cmds, s \in Stages : Studio!At(q, c, s)' <=> Studio!At(q, c, s)
        /\ \A c \in Cmds, s \in Stages : Studio!At(p, c, s)' <=> r.cmd = c /\ r.st = s
    BY MovesFacts
  <1>2. /\ ~Studio!At(p, "start", "spawn")' /\ ~Studio!At(p, "stop", "stop")'
        /\ ~Studio!At(p, "announce", "seed")'
    BY <1>1 DEF Cmds, Stages
  <1>3. /\ ~Studio!At(p, "start", "spawn") /\ ~Studio!At(p, "stop", "stop")
        /\ ~Studio!At(p, "announce", "seed")
    BY DEF Holds
  <1>4. \A q \in Procs :
          /\ Studio!At(q, "start", "spawn")' <=> Studio!At(q, "start", "spawn")
          /\ Studio!At(q, "stop", "stop")' <=> Studio!At(q, "stop", "stop")
          /\ Studio!At(q, "announce", "seed")' <=> Studio!At(q, "announce", "seed")
    BY <1>1, <1>2, <1>3 DEF Cmds, Stages
  <1> QED
    BY <1>4 DEF HeldInv, HeldLock, Holds

LEMMA AsideServes ==
    ASSUME HeldInv, NEW p \in Procs, NEW r \in Proc, Moves(p, r),
           r.st \notin {"spawn", "stop", "seed"}, UNCHANGED <<seeded, nodes>>, Excused \subseteq Excused'
    PROVE  HeldServes'
  <1>1. /\ \A q \in Procs \ {p}, c \in Cmds, s \in Stages : Studio!At(q, c, s)' <=> Studio!At(q, c, s)
        /\ \A c \in Cmds, s \in Stages : Studio!At(p, c, s)' <=> r.cmd = c /\ r.st = s
        /\ \A q \in Procs \ {p} : procs'[q] = procs[q]
    BY MovesFacts
  <1>2. ~Studio!At(p, "announce", "seed")'
    BY <1>1 DEF Cmds, Stages
  <1>3. \A q \in Procs \ {p} : Studio!At(q, "announce", "seed")' => Studio!At(q, "announce", "seed")
    BY <1>1 DEF Cmds, Stages
  <1>4. /\ nodes = {} => seeded = {}
        /\ seeded \subseteq Excused
        /\ \A q \in Procs : Studio!At(q, "announce", "seed") => procs[q].bs \subseteq Excused
    BY DEF HeldInv, HeldServes
  <1> HIDE DEF Excused
  <1> QED
    BY <1>1, <1>2, <1>3, <1>4 DEF HeldServes

(* What is about to be taken down: a command that waits for the mutex adds
   its own. *)
LEMMA PendingFacts ==
    ASSUME HeldInv, NEW p \in Procs, NEW r \in Proc, Moves(p, r)
    PROVE  /\ (procs[p].cmd \notin {"unseed", "delete"} \/ procs[p].st # "lock") => Pending \subseteq Pending'
           /\ Pending \subseteq Pending' \cup procs[p].bs
           /\ (r.cmd \in {"unseed", "delete"} /\ r.st = "lock") => r.bs \subseteq Pending'
  <1>1. procs'[p] = r /\ \A q \in Procs \ {p} : procs'[q] = procs[q]
    BY MovesFacts
  <1>2. r.bs \subseteq Blobs
    BY DEF Proc
  <1> QED
    BY <1>1, <1>2 DEF Pending

LEMMA FreeFacts ==
    /\ Studio!Free \in Proc /\ Studio!Free.cmd = "none" /\ Studio!Free.st = "none"
    /\ \A p \in Procs : Studio!Leave(p) => Moves(p, Studio!Free)
  BY DEF Studio!Free, Studio!None, Proc, Cmds, Stages, Studio!Leave, Moves

LEMMA GotoMoves ==
    ASSUME HeldInv, NEW p \in Procs, NEW s \in Stages, Studio!Goto(p, s)
    PROVE  \E r \in Proc : Moves(p, r) /\ r.cmd = procs[p].cmd /\ r.st = s /\ r.bs = procs[p].bs
  <1>1. PICK b \in Proc : b = procs[p]
    BY DEF HeldInv, HeldShape, Proc
  <1>2. PICK r : r = [b EXCEPT !.st = s]
    OBVIOUS
  <1>3. r \in Proc /\ r.cmd = b.cmd /\ r.st = s /\ r.bs = b.bs
    BY <1>2 DEF Proc
  <1>4. Moves(p, r)
    BY <1>1, <1>2 DEF Studio!Goto, Moves, HeldInv, HeldShape
  <1> QED
    BY <1>1, <1>3, <1>4

(* A step to the side of the mutex: what is shared no more is about to be
   taken down. *)
LEMMA AsideKeeps ==
    ASSUME HeldInv, NEW p \in Procs, NEW r \in Proc, Moves(p, r), ~Holds(p),
           r.st \notin {"spawn", "stop", "seed"}, UNCHANGED <<lock, held, nodes, started, seeded>>,
           cached' \subseteq Blobs, on' \subseteq Blobs, gatedOn' \in BOOLEAN, late' \subseteq Blobs,
           Excused \subseteq Excused'
    PROVE  HeldInv'
  <1>1. HeldLock' /\ HeldServes'
    BY AsideLock, AsideServes
  <1>2. procs' \in [Procs -> Proc]
    BY MovesFacts
  <1>3. HeldShape'
    BY <1>2 DEF HeldInv, HeldShape, Proc
  <1> QED
    BY <1>1, <1>3 DEF HeldInv

LEMMA EnterKeeps ==
    ASSUME HeldInv, NEW p \in Procs, NEW cmd \in Cmds, NEW bs \in SUBSET Blobs,
           Studio!Enter(p, cmd, "lock", bs), UNCHANGED <<lock, held, nodes, started, seeded, late>>,
           cached' \subseteq Blobs, on' \subseteq Blobs, gatedOn' \in BOOLEAN,
           Studio!Shareable \subseteq Studio!Shareable' \cup (IF cmd \in {"unseed", "delete"} THEN bs ELSE {})
    PROVE  HeldInv'
  <1>1. PICK r : r = [cmd |-> cmd, st |-> "lock", bs |-> bs]
    OBVIOUS
  <1>2. r \in Proc /\ r.cmd = cmd /\ r.st = "lock" /\ r.bs = bs
    BY <1>1 DEF Proc, Stages
  <1>3. Moves(p, r) /\ procs[p] = Studio!Free
    BY <1>1 DEF Studio!Enter, Moves
  <1>4. procs[p].cmd = "none" /\ procs[p].st = "none"
    BY <1>3, FreeFacts
  <1>5. ~Holds(p)
    BY <1>4 DEF Holds, Studio!At
  <1>6. Excused \subseteq Excused'
    <2>1. Pending \subseteq Pending' /\ (cmd \in {"unseed", "delete"} => bs \subseteq Pending')
      BY <1>2, <1>3, <1>4, PendingFacts
    <2>2. Studio!Shareable \subseteq Studio!Shareable' \cup Pending'
      BY <2>1
    <2> HIDE DEF Pending
    <2> QED
      BY <2>1, <2>2 DEF Excused
  <1>7. late' \subseteq Blobs /\ r.st \notin {"spawn", "stop", "seed"}
    BY <1>2 DEF HeldInv, HeldShape
  <1> QED
    BY <1>2, <1>3, <1>5, <1>6, <1>7, AsideKeeps

(* The user's commands arrive. *)
LEMMA CommandsKeep ==
    ASSUME HeldInv, NEW p \in Procs,
           \/ Studio!StartWorldwide(p) \/ Studio!StopWorldwide(p)
           \/ \E b \in Blobs : Studio!ShareOn(p, b) \/ Studio!ShareOff(p, b) \/ Studio!DeleteModel(p, b)
                               \/ Studio!ImportLocal(p, b)
    PROVE  HeldInv'
  <1>1. cached \subseteq Blobs /\ on \subseteq Blobs /\ gatedOn \in BOOLEAN
    BY DEF HeldInv, HeldShape
  <1>2. /\ "start" \in Cmds /\ "stop" \in Cmds /\ "announce" \in Cmds /\ "unseed" \in Cmds
        /\ "delete" \in Cmds /\ "import" \in Cmds /\ {} \in SUBSET Blobs
    BY DEF Cmds
  <1>3. CASE Studio!StartWorldwide(p)
    <2>1. Studio!Enter(p, "start", "lock", {}) /\ UNCHANGED <<cached, on, gatedOn, held, lock, nodes, started, seeded, late>>
      BY <1>3 DEF Studio!StartWorldwide
    <2> QED
      BY <1>1, <1>2, <2>1, EnterKeeps DEF Studio!Shareable
  <1>4. CASE Studio!StopWorldwide(p)
    <2>1. Studio!Enter(p, "stop", "lock", {}) /\ UNCHANGED <<cached, on, gatedOn, held, lock, nodes, started, seeded, late>>
      BY <1>4 DEF Studio!StopWorldwide
    <2> QED
      BY <1>1, <1>2, <2>1, EnterKeeps DEF Studio!Shareable
  <1>5. ASSUME NEW b \in Blobs, Studio!ShareOn(p, b) PROVE HeldInv'
    <2>1. /\ Studio!Enter(p, "announce", "lock", {}) /\ on' = on \cup {b}
          /\ UNCHANGED <<cached, gatedOn, held, lock, nodes, started, seeded, late>>
      BY <1>5 DEF Studio!ShareOn
    <2>2. on' \subseteq Blobs /\ Studio!Shareable \subseteq Studio!Shareable'
      BY <1>1, <2>1 DEF Studio!Shareable
    <2> QED
      BY <1>1, <1>2, <2>1, <2>2, EnterKeeps
  <1>6. ASSUME NEW b \in Blobs, Studio!ShareOff(p, b) PROVE HeldInv'
    <2>1. /\ Studio!Enter(p, "unseed", "lock", {b}) /\ on' = on \ {b}
          /\ UNCHANGED <<cached, gatedOn, held, lock, nodes, started, seeded, late>>
      BY <1>6 DEF Studio!ShareOff
    <2>2. on' \subseteq Blobs /\ Studio!Shareable \subseteq Studio!Shareable' \cup {b} /\ {b} \in SUBSET Blobs
      BY <1>1, <2>1 DEF Studio!Shareable
    <2> QED
      BY <1>1, <1>2, <2>1, <2>2, EnterKeeps
  <1>7. ASSUME NEW b \in Blobs, Studio!DeleteModel(p, b) PROVE HeldInv'
    <2>1. /\ Studio!Enter(p, "delete", "lock", {b}) /\ cached' = cached \ {b}
          /\ UNCHANGED <<on, gatedOn, held, lock, nodes, started, seeded, late>>
      BY <1>7 DEF Studio!DeleteModel
    <2>2. cached' \subseteq Blobs /\ Studio!Shareable \subseteq Studio!Shareable' \cup {b} /\ {b} \in SUBSET Blobs
      BY <1>1, <2>1 DEF Studio!Shareable
    <2> QED
      BY <1>1, <1>2, <2>1, <2>2, EnterKeeps
  <1>8. ASSUME NEW b \in Blobs, Studio!ImportLocal(p, b) PROVE HeldInv'
    <2>1. /\ Studio!Enter(p, "import", "lock", Studio!Shareable \cup {b}) /\ cached' = cached \cup {b}
          /\ UNCHANGED <<on, gatedOn, held, lock, nodes, started, seeded, late>>
      BY <1>8 DEF Studio!ImportLocal
    <2>2. /\ cached' \subseteq Blobs /\ Studio!Shareable \subseteq Studio!Shareable'
          /\ Studio!Shareable \cup {b} \in SUBSET Blobs
      BY <1>1, <2>1 DEF Studio!Shareable
    <2> QED
      BY <1>1, <1>2, <2>1, <2>2, EnterKeeps
  <1> QED
    BY <1>3, <1>4, <1>5, <1>6, <1>7, <1>8

LEMMA SaveSettingsKeeps ==
    ASSUME HeldInv, NEW p \in Procs, NEW gated \in BOOLEAN, Studio!SaveSettings(p, gated)
    PROVE  HeldInv'
  <1>1. cached \subseteq Blobs /\ on \subseteq Blobs
    BY DEF HeldInv, HeldShape
  <1>2. gatedOn' \in BOOLEAN /\ UNCHANGED <<cached, held, lock, nodes, started, seeded, late>>
    BY DEF Studio!SaveSettings
  <1>3. CASE gatedOn /\ ~gated
    <2>1. on' = on \ Gated /\ Studio!Enter(p, "unseed", "lock", on \cap Gated)
      BY <1>3 DEF Studio!SaveSettings
    <2>2. /\ on' \subseteq Blobs /\ on \cap Gated \in SUBSET Blobs /\ "unseed" \in Cmds
          /\ Studio!Shareable \subseteq Studio!Shareable' \cup (on \cap Gated)
      BY <1>1, <1>2, <2>1 DEF Studio!Shareable, Cmds
    <2> QED
      BY <1>1, <1>2, <2>1, <2>2, EnterKeeps
  <1>4. CASE ~(gatedOn /\ ~gated)
    <2>1. UNCHANGED <<on, procs>> /\ procs[p] = Studio!Free
      BY <1>4 DEF Studio!SaveSettings
    <2>2. Moves(p, Studio!Free) /\ Studio!Free \in Proc /\ Studio!Free.st = "none" /\ ~Holds(p)
      BY <2>1, FreeFacts DEF HeldInv, HeldShape, Moves, Holds, Studio!At
    <2>3. Excused \subseteq Excused'
      BY <1>2, <2>1 DEF Excused, Pending, Studio!Shareable
    <2> QED
      BY <1>1, <1>2, <2>1, <2>2, <2>3, AsideKeeps DEF HeldInv, HeldShape
  <1> QED
    BY <1>3, <1>4

(* A step of the command that holds the mutex, or that takes it: nobody else
   is at a step that needs it. *)
Held(r) == \/ r.cmd = "start" /\ r.st = "spawn"
           \/ r.cmd = "stop" /\ r.st = "stop"
           \/ r.cmd = "announce" /\ r.st = "seed"

LEMMA MutexKeeps ==
    ASSUME HeldInv, NEW p \in Procs, NEW r \in Proc, Moves(p, r), Holds(p) \/ lock = Studio!None,
           lock' = (IF Held(r) THEN p ELSE Studio!None), held' \in 0 .. started', started' \in 0 .. MaxNodes,
           nodes' \subseteq 1 .. started', seeded' \subseteq Blobs, late' \subseteq Blobs,
           UNCHANGED <<cached, on, gatedOn>>,
           (r.cmd = "start" /\ r.st = "spawn") \/ (r.cmd = "stop" /\ r.st = "stop") => held' = 0,
           ~(r.cmd = "stop" /\ r.st = "stop") => nodes' = {held'} \ {0},
           \E n \in 0 .. MaxNodes : nodes' \subseteq {n},
           nodes' = {} => seeded' = {}, seeded' \subseteq Excused',
           r.cmd = "announce" /\ r.st = "seed" => r.bs \subseteq Excused'
    PROVE  HeldInv'
  <1>1. /\ \A q \in Procs \ {p}, c \in Cmds, s \in Stages : Studio!At(q, c, s)' <=> Studio!At(q, c, s)
        /\ \A c \in Cmds, s \in Stages : Studio!At(p, c, s)' <=> r.cmd = c /\ r.st = s
        /\ procs' \in [Procs -> Proc] /\ procs'[p] = r
    BY MovesFacts
  <1>2. \A q \in Procs \ {p} : ~Holds(q)
    BY HeldConstants DEF HeldInv, HeldLock
  <1>3. \A q \in Procs \ {p} : ~Studio!At(q, "start", "spawn")' /\ ~Studio!At(q, "stop", "stop")'
                               /\ ~Studio!At(q, "announce", "seed")'
    BY <1>1, <1>2 DEF Holds, Cmds, Stages
  <1>4. /\ Studio!At(p, "start", "spawn")' <=> r.cmd = "start" /\ r.st = "spawn"
        /\ Studio!At(p, "stop", "stop")' <=> r.cmd = "stop" /\ r.st = "stop"
        /\ Studio!At(p, "announce", "seed")' <=> r.cmd = "announce" /\ r.st = "seed"
    BY <1>1 DEF Cmds, Stages
  <1>5. \A q \in Procs : Holds(q)' <=> lock' = q
    <2>1. \A q \in Procs \ {p} : ~Holds(q)' /\ lock' # q
      BY <1>3, HeldConstants DEF Holds
    <2>2. Holds(p)' <=> lock' = p
      BY <1>4, HeldConstants DEF Holds, Held
    <2> QED
      BY <2>1, <2>2
  <1>6. HeldLock'
    <2>1. /\ (\A q \in Procs : Studio!At(q, "start", "spawn")' \/ Studio!At(q, "stop", "stop")' => held' = 0)
          /\ (\A q \in Procs : ~Studio!At(q, "stop", "stop")') => nodes' = {held'} \ {0}
      BY <1>3, <1>4
    <2> QED
      BY <1>5, <2>1 DEF HeldLock
  <1>7. HeldServes'
    <2>1. \A q \in Procs : Studio!At(q, "announce", "seed")' => procs'[q].bs \subseteq Excused'
      BY <1>1, <1>3, <1>4
    <2> QED
      BY <2>1 DEF HeldServes
  <1>8. HeldShape'
    BY <1>1 DEF HeldInv, HeldShape, Proc
  <1> QED
    BY <1>6, <1>7, <1>8 DEF HeldInv

(* Unless a command that was to take something down is done. *)
LEMMA ExcusedStays ==
    ASSUME HeldInv, NEW p \in Procs, NEW r \in Proc, Moves(p, r), UNCHANGED <<cached, on>>,
           late \subseteq late', procs[p].cmd \notin {"unseed", "delete"} \/ procs[p].st # "lock"
    PROVE  Excused \subseteq Excused'
  <1>1. Pending \subseteq Pending'
    BY PendingFacts
  <1> HIDE DEF Pending
  <1> QED
    BY <1>1 DEF Excused, Studio!Shareable

(* What holds while the mutex is free. *)
LEMMA Unlocked ==
    ASSUME HeldInv, lock = Studio!None
    PROVE  /\ \A p \in Procs : ~Holds(p)
           /\ nodes = {held} \ {0}
           /\ held = 0 => seeded = {}
  <1>1. \A p \in Procs : ~Holds(p)
    BY HeldConstants DEF HeldInv, HeldLock
  <1>2. nodes = {held} \ {0}
    BY <1>1 DEF HeldInv, HeldLock, Holds
  <1> QED
    BY <1>1, <1>2 DEF HeldInv, HeldServes

LEMMA SpawnsKeep ==
    ASSUME HeldInv, NEW p \in Procs, Studio!StartInner(p) \/ Studio!Spawned(p) \/ Studio!SpawnFails(p)
    PROVE  HeldInv'
  <1>0. /\ cached \subseteq Blobs /\ on \subseteq Blobs /\ gatedOn \in BOOLEAN /\ seeded \subseteq Blobs
        /\ late \subseteq Blobs /\ held \in 0 .. started /\ started \in 0 .. MaxNodes
        /\ nodes \subseteq 1 .. started
    BY DEF HeldInv, HeldShape
  <1>f. /\ Studio!Free \in Proc /\ Studio!Free.cmd = "none" /\ Studio!Free.st = "none"
        /\ Studio!Leave(p) => Moves(p, Studio!Free)
    BY FreeFacts
  <1>1. CASE Studio!StartInner(p) /\ held # 0
    <2>1. /\ Studio!At(p, "start", "lock") /\ Studio!Leave(p)
          /\ UNCHANGED <<lock, cached, on, gatedOn, held, nodes, started, seeded, late>>
      BY <1>1 DEF Studio!StartInner
    <2>2. ~Holds(p) /\ procs[p].cmd = "start"
      BY <2>1 DEF Holds, Studio!At
    <2>3. Excused \subseteq Excused'
      BY <1>f, <2>1, <2>2, ExcusedStays
    <2> QED
      BY <1>0, <1>f, <2>1, <2>2, <2>3, AsideKeeps
  <1>2. CASE Studio!StartInner(p) /\ held = 0
    <2>1. /\ Studio!At(p, "start", "lock") /\ lock = Studio!None /\ lock' = p /\ Studio!Goto(p, "spawn")
          /\ UNCHANGED <<cached, on, gatedOn, held, nodes, started, seeded, late>>
      BY <1>2 DEF Studio!StartInner, Studio!Acquire
    <2>2. procs[p].cmd = "start" /\ "spawn" \in Stages
      BY <2>1 DEF Studio!At, Stages
    <2>3. PICK r \in Proc : Moves(p, r) /\ r.cmd = "start" /\ r.st = "spawn"
      BY <2>1, <2>2, GotoMoves
    <2>4. Excused \subseteq Excused'
      BY <2>1, <2>2, <2>3, ExcusedStays
    <2>a. lock = Studio!None
      BY <2>1
    <2>b. nodes = {held} \ {0} /\ (held = 0 => seeded = {})
      BY <2>a, Unlocked
    <2>5. nodes = {} /\ seeded = {} /\ 0 \in 0 .. MaxNodes
      BY <1>2, <2>b, HeldConstants
    <2>6. /\ lock' = (IF Held(r) THEN p ELSE Studio!None) /\ nodes' = {held'} \ {0} /\ held' = 0
          /\ nodes' \subseteq {0} /\ seeded' = {}
      BY <1>2, <2>1, <2>3, <2>5 DEF Held
    <2> QED
      BY <1>0, <2>1, <2>3, <2>5, <2>6, MutexKeeps
  <1>3. CASE Studio!Spawned(p)
    <2>1. /\ Studio!At(p, "start", "spawn") /\ started < MaxNodes /\ started' = started + 1
          /\ held' = started + 1 /\ nodes' = nodes \cup {started + 1}
          /\ lock' = Studio!None /\ Studio!Leave(p) /\ UNCHANGED <<cached, on, gatedOn, seeded, late>>
      BY <1>3 DEF Studio!Spawned
    <2>2. Holds(p) /\ held = 0 /\ procs[p].cmd = "start"
      BY <2>1 DEF Holds, HeldInv, HeldLock, Studio!At
    <2>3. nodes = {}
      <3>1. \A q \in Procs : ~Studio!At(q, "stop", "stop")
        BY <2>1, <2>2 DEF HeldInv, HeldLock, Holds, Studio!At
      <3> QED
        BY <2>2, <3>1 DEF HeldInv, HeldLock
    <2>4. seeded = {}
      BY <2>3 DEF HeldInv, HeldServes
    <2>5. /\ held' \in 0 .. started' /\ started' \in 0 .. MaxNodes /\ nodes' \subseteq 1 .. started'
          /\ nodes' = {held'} \ {0} /\ held' \in 0 .. MaxNodes
      BY <1>0, <2>1, <2>3, HeldConstants
    <2>6. nodes' \subseteq {held'} /\ seeded' = {} /\ lock' = (IF Held(Studio!Free) THEN p ELSE Studio!None)
      BY <1>f, <2>1, <2>4, <2>5 DEF Held
    <2> QED
      BY <1>0, <1>f, <2>1, <2>2, <2>5, <2>6, MutexKeeps
  <1>4. CASE Studio!SpawnFails(p)
    <2>1. /\ Studio!At(p, "start", "spawn") /\ lock' = Studio!None /\ Studio!Leave(p)
          /\ UNCHANGED <<cached, on, gatedOn, held, nodes, started, seeded, late>>
      BY <1>4 DEF Studio!SpawnFails
    <2>2. Holds(p) /\ held = 0 /\ procs[p].cmd = "start"
      BY <2>1 DEF Holds, HeldInv, HeldLock, Studio!At
    <2>3. nodes = {}
      <3>1. \A q \in Procs : ~Studio!At(q, "stop", "stop")
        BY <2>1, <2>2 DEF HeldInv, HeldLock, Holds, Studio!At
      <3> QED
        BY <2>2, <3>1 DEF HeldInv, HeldLock
    <2>4. seeded = {} /\ 0 \in 0 .. MaxNodes
      BY <2>3, HeldConstants DEF HeldInv, HeldServes
    <2>5. /\ nodes' = {held'} \ {0} /\ nodes' \subseteq {0} /\ seeded' = {}
          /\ lock' = (IF Held(Studio!Free) THEN p ELSE Studio!None)
      BY <1>f, <2>1, <2>2, <2>3, <2>4 DEF Held
    <2> QED
      BY <1>0, <1>f, <2>1, <2>2, <2>4, <2>5, MutexKeeps
  <1> QED
    BY <1>1, <1>2, <1>3, <1>4

LEMMA StopsKeep ==
    ASSUME HeldInv, NEW p \in Procs, Studio!TakeHandle(p) \/ Studio!Stopped(p)
    PROVE  HeldInv'
  <1>0. /\ seeded \subseteq Blobs /\ late \subseteq Blobs /\ held \in 0 .. started
        /\ started \in 0 .. MaxNodes /\ nodes \subseteq 1 .. started
    BY DEF HeldInv, HeldShape
  <1>1. CASE Studio!TakeHandle(p)
    <2>1. /\ Studio!At(p, "stop", "lock") /\ lock = Studio!None /\ lock' = p /\ held' = 0
          /\ procs' = [procs EXCEPT ![p] = [cmd |-> "stop", st |-> "stop", bs |-> {}]]
          /\ UNCHANGED <<cached, on, gatedOn, nodes, started, seeded, late>>
      BY <1>1 DEF Studio!TakeHandle, Studio!Acquire
    <2>2. PICK r : r = [cmd |-> "stop", st |-> "stop", bs |-> {}]
      OBVIOUS
    <2>3. r \in Proc /\ r.cmd = "stop" /\ r.st = "stop" /\ Moves(p, r)
      BY <2>1, <2>2 DEF Proc, Cmds, Stages, Moves
    <2>4. procs[p].cmd = "stop"
      BY <2>1 DEF Studio!At
    <2>5. Excused \subseteq Excused'
      BY <2>1, <2>3, <2>4, ExcusedStays
    <2>6. nodes' \subseteq {held} /\ held \in 0 .. MaxNodes
      BY <1>0, <2>1, Unlocked, HeldConstants
    <2>7. seeded' \subseteq Excused' /\ (nodes' = {} => seeded' = {})
      BY <2>1, <2>5 DEF HeldInv, HeldServes
    <2>8. lock' = (IF Held(r) THEN p ELSE Studio!None) /\ held' \in 0 .. started'
      BY <1>0, <2>1, <2>3 DEF Held
    <2> QED
      BY <1>0, <2>1, <2>3, <2>6, <2>7, <2>8, MutexKeeps
  <1>2. CASE Studio!Stopped(p)
    <2>1. /\ Studio!At(p, "stop", "stop") /\ nodes' = {} /\ seeded' = {} /\ late' = {}
          /\ lock' = Studio!None /\ Studio!Leave(p) /\ UNCHANGED <<cached, on, gatedOn, held, started>>
      BY <1>2 DEF Studio!Stopped
    <2>2. Holds(p) /\ held = 0
      BY <2>1 DEF Holds, HeldInv, HeldLock
    <2>3. /\ Studio!Free \in Proc /\ Studio!Free.cmd = "none" /\ Studio!Free.st = "none"
          /\ Moves(p, Studio!Free)
      BY <2>1, FreeFacts
    <2>4. /\ nodes' = {held'} \ {0} /\ nodes' \subseteq {0} /\ 0 \in 0 .. MaxNodes
          /\ lock' = (IF Held(Studio!Free) THEN p ELSE Studio!None)
      BY <2>1, <2>2, <2>3, HeldConstants DEF Held
    <2> QED
      BY <1>0, <2>1, <2>2, <2>3, <2>4, MutexKeeps
  <1> QED
    BY <1>1, <1>2

LEMMA AnnouncesKeep ==
    ASSUME HeldInv, NEW p \in Procs, Studio!AnnounceList(p) \/ Studio!Announced(p)
    PROVE  HeldInv'
  <1>0. /\ seeded \subseteq Blobs /\ late \subseteq Blobs /\ held \in 0 .. started
        /\ started \in 0 .. MaxNodes /\ nodes \subseteq 1 .. started
        /\ cached \subseteq Blobs /\ on \subseteq Blobs /\ gatedOn \in BOOLEAN
        /\ procs[p] \in Proc
    BY DEF HeldInv, HeldShape, Proc
  <1>f. /\ Studio!Free \in Proc /\ Studio!Free.cmd = "none" /\ Studio!Free.st = "none"
        /\ Studio!Leave(p) => Moves(p, Studio!Free)
    BY FreeFacts
  <1>s. /\ seeded \subseteq Excused /\ (nodes = {} => seeded = {})
        /\ Studio!At(p, "announce", "seed") => procs[p].bs \subseteq Excused
    BY DEF HeldInv, HeldServes
  <1>n. \E n \in 0 .. MaxNodes : nodes \subseteq {n}
    BY DEF HeldInv, HeldLock
  <1>1. CASE Studio!AnnounceList(p) /\ held = 0
    <2>1. /\ Studio!At(p, "announce", "lock") /\ Studio!Leave(p)
          /\ UNCHANGED <<lock, cached, on, gatedOn, held, nodes, started, seeded, late>>
      BY <1>1 DEF Studio!AnnounceList
    <2>2. ~Holds(p) /\ procs[p].cmd = "announce"
      BY <2>1 DEF Holds, Studio!At
    <2>3. Excused \subseteq Excused'
      BY <1>f, <2>1, <2>2, ExcusedStays
    <2> QED
      BY <1>0, <1>f, <2>1, <2>2, <2>3, AsideKeeps
  <1>2. CASE Studio!AnnounceList(p) /\ held # 0
    <2>1. /\ Studio!At(p, "announce", "lock") /\ lock = Studio!None /\ lock' = p
          /\ procs' = [procs EXCEPT ![p] = [@ EXCEPT !.st = "seed", !.bs = Studio!Shareable]]
          /\ UNCHANGED <<cached, on, gatedOn, held, nodes, started, seeded, late>>
      BY <1>2 DEF Studio!AnnounceList, Studio!Acquire
    <2>2. PICK b \in Proc : b = procs[p] /\ b.cmd = "announce"
      BY <1>0, <2>1 DEF Studio!At
    <2>3. PICK r : r = [b EXCEPT !.st = "seed", !.bs = Studio!Shareable]
      OBVIOUS
    <2>4. Studio!Shareable \in SUBSET Blobs
      BY <1>0 DEF Studio!Shareable
    <2>5. r \in Proc /\ r.cmd = "announce" /\ r.st = "seed" /\ r.bs = Studio!Shareable
      BY <2>2, <2>3, <2>4 DEF Proc, Stages
    <2>6. Moves(p, r)
      BY <2>1, <2>2, <2>3 DEF Moves, HeldInv, HeldShape
    <2>7. Excused \subseteq Excused' /\ r.bs \subseteq Excused
      BY <2>1, <2>2, <2>5, <2>6, ExcusedStays DEF Excused
    <2>8. nodes' = {held'} \ {0}
      BY <2>1, Unlocked
    <2>9. lock' = (IF Held(r) THEN p ELSE Studio!None)
      BY <2>1, <2>5 DEF Held
    <2> HIDE DEF Excused
    <2> QED
      BY <1>0, <1>s, <1>n, <2>1, <2>5, <2>6, <2>7, <2>8, <2>9, MutexKeeps
  <1>3. CASE Studio!Announced(p)
    <2>1. /\ Studio!At(p, "announce", "seed")
          /\ seeded' = (IF nodes = {} THEN seeded ELSE seeded \cup (procs[p].bs \cap cached))
          /\ lock' = (IF lock = p THEN Studio!None ELSE lock) /\ Studio!Leave(p)
          /\ UNCHANGED <<cached, on, gatedOn, held, nodes, started, late>>
      BY <1>3 DEF Studio!Announced
    <2>2. Holds(p) /\ procs[p].cmd = "announce" /\ lock = p
      BY <2>1 DEF Holds, Studio!At, HeldInv, HeldLock
    <2>3. \A q \in Procs : ~Studio!At(q, "stop", "stop")
      BY <2>1, <2>2 DEF HeldInv, HeldLock, Holds, Studio!At
    <2>4. nodes' = {held'} \ {0}
      BY <2>1, <2>3 DEF HeldInv, HeldLock
    <2>5. Excused \subseteq Excused'
      BY <1>f, <2>1, <2>2, ExcusedStays
    <2>6. seeded' \subseteq Excused' /\ seeded' \subseteq Blobs /\ (nodes' = {} => seeded' = {})
      <3> HIDE DEF Excused
      <3> QED
        BY <1>0, <1>s, <2>1, <2>5
    <2>7. lock' = (IF Held(Studio!Free) THEN p ELSE Studio!None)
      BY <1>f, <2>1, <2>2 DEF Held
    <2> QED
      BY <1>0, <1>f, <1>n, <2>1, <2>2, <2>4, <2>6, <2>7, MutexKeeps
  <1> QED
    BY <1>1, <1>2, <1>3

(* The taking down, under the mutex, and the override of a deletion. *)
LEMMA UnseedsKeep ==
    ASSUME HeldInv, NEW p \in Procs, Studio!Unseed(p) \/ Studio!DeleteOverride(p)
    PROVE  HeldInv'
  <1>0. /\ seeded \subseteq Blobs /\ late \subseteq Blobs /\ held \in 0 .. started
        /\ started \in 0 .. MaxNodes /\ nodes \subseteq 1 .. started
        /\ cached \subseteq Blobs /\ on \subseteq Blobs /\ gatedOn \in BOOLEAN
        /\ procs[p] \in Proc
    BY DEF HeldInv, HeldShape, Proc
  <1>f. /\ Studio!Free \in Proc /\ Studio!Free.cmd = "none" /\ Studio!Free.st = "none"
        /\ Studio!Leave(p) => Moves(p, Studio!Free)
    BY FreeFacts
  <1>s. seeded \subseteq Excused /\ (nodes = {} => seeded = {})
    BY DEF HeldInv, HeldServes
  <1>n. \E n \in 0 .. MaxNodes : nodes \subseteq {n}
    BY DEF HeldInv, HeldLock
  <1>1. CASE Studio!Unseed(p)
    <2>1. /\ procs[p].cmd \in {"unseed", "delete"} /\ procs[p].st = "lock" /\ lock = Studio!None
          /\ seeded' = (IF held = 0 THEN seeded ELSE seeded \ procs[p].bs)
          /\ late' = (IF held = 0 THEN late ELSE late \ procs[p].bs)
          /\ IF procs[p].cmd = "unseed" THEN Studio!Leave(p) ELSE Studio!Goto(p, "override")
          /\ UNCHANGED <<cached, on, gatedOn, held, lock, nodes, started>>
      BY <1>1 DEF Studio!Unseed
    <2>2. PICK r \in Proc : Moves(p, r) /\ ~Held(r) /\ r.st \notin {"spawn", "stop", "seed"}
      <3>1. CASE procs[p].cmd = "unseed"
        BY <1>f, <2>1, <3>1 DEF Held
      <3>2. CASE procs[p].cmd # "unseed"
        <4>1. Studio!Goto(p, "override") /\ "override" \in Stages
          BY <2>1, <3>2 DEF Stages
        <4>2. PICK r \in Proc : Moves(p, r) /\ r.st = "override"
          BY <4>1, GotoMoves
        <4> QED
          BY <4>2 DEF Held
      <3> QED
        BY <3>1, <3>2
    <2>3. Pending \subseteq Pending' \cup procs[p].bs
      BY <2>2, PendingFacts
    <2>4. nodes = {held} \ {0} /\ (held = 0 => seeded = {})
      BY <2>1, Unlocked
    <2>5. seeded' \subseteq Excused' /\ seeded' \subseteq Blobs /\ late' \subseteq Blobs
      <3>1. CASE held = 0
        BY <1>0, <2>1, <2>4, <3>1
      <3>2. CASE held # 0
        <4>1. Studio!Shareable' = Studio!Shareable /\ late' = late \ procs[p].bs
          BY <2>1, <3>2 DEF Studio!Shareable
        <4>2. seeded' = seeded \ procs[p].bs
          BY <2>1, <3>2
        <4> HIDE DEF Pending
        <4> QED
          BY <1>0, <1>s, <2>3, <4>1, <4>2 DEF Excused
      <3> QED
        BY <3>1, <3>2
    <2>6. lock' = (IF Held(r) THEN p ELSE Studio!None) /\ nodes' = {held'} \ {0} /\ (nodes' = {} => seeded' = {})
      BY <1>s, <2>1, <2>2, <2>4
    <2> QED
      BY <1>0, <1>n, <2>1, <2>2, <2>5, <2>6, MutexKeeps
  <1>2. CASE Studio!DeleteOverride(p)
    <2>1. /\ Studio!At(p, "delete", "override") /\ on' = on \ procs[p].bs
          /\ late' = late \cup (procs[p].bs \cap cached) /\ Studio!Leave(p)
          /\ UNCHANGED <<cached, gatedOn, held, lock, nodes, started, seeded>>
      BY <1>2 DEF Studio!DeleteOverride
    <2>2. ~Holds(p) /\ procs[p].st = "override"
      BY <2>1 DEF Holds, Studio!At
    <2>3. Pending \subseteq Pending'
      BY <1>f, <2>1, <2>2, PendingFacts
    <2>4. Excused \subseteq Excused'
      <3>1. Studio!Shareable \subseteq Studio!Shareable' \cup late' /\ late \subseteq late'
        BY <2>1 DEF Studio!Shareable
      <3> HIDE DEF Pending
      <3> QED
        BY <2>3, <3>1 DEF Excused
    <2>5. on' \subseteq Blobs /\ late' \subseteq Blobs
      BY <1>0, <2>1
    <2> QED
      BY <1>0, <1>f, <2>1, <2>2, <2>4, <2>5, AsideKeeps
  <1> QED
    BY <1>1, <1>2

LEMMA ImportsKeep ==
    ASSUME HeldInv, NEW p \in Procs, Studio!ImportHandle(p) \/ Studio!ImportAnnounce(p)
    PROVE  HeldInv'
  <1>0. /\ seeded \subseteq Blobs /\ late \subseteq Blobs
        /\ cached \subseteq Blobs /\ on \subseteq Blobs /\ gatedOn \in BOOLEAN
        /\ procs[p] \in Proc
    BY DEF HeldInv, HeldShape, Proc
  <1>f. /\ Studio!Free \in Proc /\ Studio!Free.cmd = "none" /\ Studio!Free.st = "none"
        /\ Studio!Leave(p) => Moves(p, Studio!Free)
    BY FreeFacts
  <1>1. CASE Studio!ImportHandle(p)
    <2>1. /\ Studio!At(p, "import", "lock")
          /\ IF held = 0 THEN Studio!Leave(p) ELSE Studio!Goto(p, "task")
          /\ UNCHANGED <<cached, on, gatedOn, held, lock, nodes, started, seeded, late>>
      BY <1>1 DEF Studio!ImportHandle
    <2>2. PICK r \in Proc : Moves(p, r) /\ r.st \notin {"spawn", "stop", "seed"}
      <3>1. CASE held = 0
        BY <1>f, <2>1, <3>1
      <3>2. CASE held # 0
        <4>1. Studio!Goto(p, "task") /\ "task" \in Stages
          BY <2>1, <3>2 DEF Stages
        <4> QED
          BY <4>1, GotoMoves
      <3> QED
        BY <3>1, <3>2
    <2>3. ~Holds(p) /\ procs[p].cmd = "import"
      BY <2>1 DEF Holds, Studio!At
    <2>4. Excused \subseteq Excused'
      BY <2>1, <2>2, <2>3, ExcusedStays
    <2> QED
      BY <1>0, <2>1, <2>2, <2>3, <2>4, AsideKeeps
  <1>2. CASE Studio!ImportAnnounce(p)
    <2>1. /\ Studio!At(p, "import", "task") /\ Studio!Leave(p)
          /\ seeded' = (IF nodes = {} THEN seeded ELSE seeded \cup (procs[p].bs \cap cached))
          /\ late' = (IF nodes = {} THEN late ELSE late \cup ((procs[p].bs \cap cached) \ on))
          /\ UNCHANGED <<cached, on, gatedOn, held, lock, nodes, started>>
      BY <1>2 DEF Studio!ImportAnnounce
    <2>2. /\ procs' \in [Procs -> Proc] /\ procs'[p] = Studio!Free
          /\ \A q \in Procs \ {p} : procs'[q] = procs[q]
      BY <1>f, <2>1, MovesFacts
    <2>3. ~Holds(p) /\ procs[p].cmd = "import"
      BY <2>1 DEF Holds, Studio!At
    <2>4. HeldLock'
      BY <1>f, <2>1, <2>3, AsideLock
    <2>5. Excused \subseteq Excused'
      <3>1. late \subseteq late'
        BY <2>1
      <3> QED
        BY <1>f, <2>1, <2>3, <3>1, ExcusedStays
    <2>6. late' \subseteq Blobs /\ seeded' \subseteq Blobs
      BY <1>0, <2>1
    <2>7. seeded' \subseteq Excused' /\ (nodes' = {} => seeded' = {})
      <3>1. seeded \subseteq Excused /\ (nodes = {} => seeded = {})
        BY DEF HeldInv, HeldServes
      <3>2. CASE nodes = {}
        BY <2>1, <2>5, <3>1, <3>2
      <3>3. CASE nodes # {}
        <4>1. procs[p].bs \cap cached \subseteq Studio!Shareable' \cup late'
          BY <2>1, <3>3 DEF Studio!Shareable
        <4>2. procs[p].bs \cap cached \subseteq Excused'
          BY <4>1 DEF Excused
        <4> HIDE DEF Excused
        <4> QED
          BY <2>1, <2>5, <3>1, <3>3, <4>2
      <3> QED
        BY <3>2, <3>3
    <2>8. \A q \in Procs : Studio!At(q, "announce", "seed")' => procs'[q].bs \subseteq Excused'
      <3>1. \A q \in Procs : Studio!At(q, "announce", "seed") => procs[q].bs \subseteq Excused
        BY DEF HeldInv, HeldServes
      <3>2. ~Studio!At(p, "announce", "seed")'
        BY <1>f, <2>2 DEF Studio!At
      <3>3. \A q \in Procs \ {p} : Studio!At(q, "announce", "seed")' => Studio!At(q, "announce", "seed")
        BY <2>2 DEF Studio!At
      <3> HIDE DEF Excused
      <3> QED
        BY <2>2, <2>5, <3>1, <3>2, <3>3
    <2>9. HeldServes'
      BY <2>7, <2>8 DEF HeldServes
    <2>10. HeldShape'
      BY <2>1, <2>2, <2>6 DEF HeldInv, HeldShape, Proc
    <2> QED
      BY <2>4, <2>9, <2>10 DEF HeldInv
  <1> QED
    BY <1>1, <1>2

LEMMA HeldStep ==
    ASSUME HeldInv, Studio!Next
    PROVE  HeldInv'
  <1>1. PICK p \in Procs :
          \/ Studio!StartWorldwide(p) \/ Studio!StopWorldwide(p)
          \/ \E b \in Blobs : Studio!ShareOn(p, b) \/ Studio!ShareOff(p, b) \/ Studio!DeleteModel(p, b)
                              \/ Studio!ImportLocal(p, b)
          \/ \E gated \in BOOLEAN : Studio!SaveSettings(p, gated)
          \/ Studio!Step(p)
    BY DEF Studio!Next
  <1>2. CASE Studio!Step(p)
    BY <1>2, SpawnsKeep, StopsKeep, AnnouncesKeep, UnseedsKeep, ImportsKeep DEF Studio!Step
  <1>3. CASE \E gated \in BOOLEAN : Studio!SaveSettings(p, gated)
    BY <1>3, SaveSettingsKeeps
  <1>4. CASE \/ Studio!StartWorldwide(p) \/ Studio!StopWorldwide(p)
             \/ \E b \in Blobs : Studio!ShareOn(p, b) \/ Studio!ShareOff(p, b) \/ Studio!DeleteModel(p, b)
                                 \/ Studio!ImportLocal(p, b)
    BY <1>4, CommandsKeep
  <1> QED
    BY <1>1, <1>2, <1>3, <1>4

LEMMA HeldFrame ==
    ASSUME HeldInv, UNCHANGED shareVars
    PROVE  HeldInv'
  <1>1. UNCHANGED <<cached, on, gatedOn, held, lock, nodes, started, seeded, late, procs>>
    BY DEF shareVars
  <1>2. HeldShape'
    BY <1>1 DEF HeldInv, HeldShape
  <1>3. HeldLock'
    BY <1>1 DEF HeldInv, HeldLock, Holds, Studio!At
  <1>4. HeldServes'
    BY <1>1 DEF HeldInv, HeldServes, Excused, Pending, Studio!Shareable, Studio!At
  <1> QED
    BY <1>2, <1>3, <1>4 DEF HeldInv

(* What the one seeder means for a user: never two, none that nobody holds,
   and what is served is shared. *)
LEMMA HeldMeans ==
    ASSUME HeldInv
    PROVE  Studio!ShareTypeOK /\ Studio!OneSeeder /\ Studio!ServedIsShared
  <1>1. Studio!ShareTypeOK
    <2>1. held \in 0 .. MaxNodes /\ nodes \subseteq 1 .. MaxNodes /\ started \in 0 .. MaxNodes
      BY HeldConstants DEF HeldInv, HeldShape
    <2>2. /\ cached \subseteq Blobs /\ on \subseteq Blobs /\ gatedOn \in BOOLEAN
          /\ lock \in Procs \cup {Studio!None} /\ seeded \subseteq Blobs /\ late \subseteq Blobs
          /\ \A p \in Procs : procs[p].bs \subseteq Blobs
      BY DEF HeldInv, HeldShape
    <2> QED
      BY <2>1, <2>2 DEF Studio!ShareTypeOK
  <1>2. Studio!OneSeeder
    <2>1. PICK n \in 0 .. MaxNodes : nodes \subseteq {n}
      BY DEF HeldInv, HeldLock
    <2>2. nodes = {} \/ nodes = {n}
      BY <2>1
    <2>3. Cardinality(nodes) = 0 \/ Cardinality(nodes) = 1
      BY <2>2, FS_EmptySet, FS_Singleton
    <2>4. Cardinality(nodes) <= 1
      BY <2>3
    <2>5. lock = Studio!None => nodes = {held} \ {0}
      BY Unlocked
    <2>6. Studio!Cardinality(nodes) = Cardinality(nodes)
      BY DEF Studio!Cardinality, Cardinality, Studio!IsFiniteSet, IsFiniteSet
    <2> QED
      BY <2>4, <2>5, <2>6 DEF Studio!OneSeeder
  <1>3. Studio!ServedIsShared
    <2> SUFFICES ASSUME \A p \in Procs : procs[p] = Studio!Free PROVE seeded \subseteq Studio!Shareable \cup late
      BY DEF Studio!ServedIsShared
    <2>1. Pending = {}
      BY DEF Pending, Studio!Free, Studio!None
    <2> HIDE DEF Pending
    <2> QED
      BY <2>1 DEF HeldInv, HeldServes, Excused
  <1> QED
    BY <1>1, <1>2, <1>3

-----------------------------------------------------------------------------
(* The transfer cards of Studio (StudioCards) *)

BundleCards == INSTANCE StudioProofs WITH Ids <- {id1, id2}, Refs <- {r1}, Links <- Bundles, Hub <- {id1},
    MaxOps <- 2, ops <- acts
TwiceCards == INSTANCE StudioProofs WITH Ids <- {id1}, Refs <- {r1, r2}, Links <- {}, Hub <- {id1},
    MaxOps <- 1, cards <- cards2, stale <- stale2, cbs <- cbs2, used <- used2, cmds <- cmds2,
    reg <- reg2, events <- events2, mount <- mount2, ops <- acts2

(* The lemmas of StudioProofs speak of a bundle and of a model started twice. *)
LEMMA BundleLinks == BundleCards!CardsAssumption
  <1>1. <<id1>> \in Seq({id1, id2}) /\ <<id1, id2>> \in Seq({id1, id2})
    OBVIOUS
  <1>2. <<id1>> # <<>> /\ <<id1, id2>> # <<>>
    OBVIOUS
  <1> QED
    BY <1>1, <1>2 DEF BundleCards!CardsAssumption, Bundles

LEMMA TwiceLinks == TwiceCards!CardsAssumption
  BY DEF TwiceCards!CardsAssumption

LEMMA BundleInit == Bundle!Init <=> BundleCards!Init
  BY DEF Bundle!Init, BundleCards!Init, Bundle!None, BundleCards!None, Bundle!Keys, BundleCards!Keys,
       Bundle!NoCtl, BundleCards!NoCtl, Bundle!NoMount, BundleCards!NoMount

LEMMA TwiceInit == Twice!Init <=> TwiceCards!Init
  BY DEF Twice!Init, TwiceCards!Init, Twice!None, TwiceCards!None, Twice!Keys, TwiceCards!Keys,
       Twice!NoCtl, TwiceCards!NoCtl, Twice!NoMount, TwiceCards!NoMount

LEMMA BundleNext == Bundle!Next <=> BundleCards!Next
  BY ZenonT(60) DEF Bundle!Next, BundleCards!Next, Bundle!Start, BundleCards!Start, Bundle!Command,
       BundleCards!Command, Bundle!Progress, BundleCards!Progress, Bundle!Handle, BundleCards!Handle,
       Bundle!User, BundleCards!User, Bundle!Mount, BundleCards!Mount, Bundle!Reload,
       BundleCards!Reload, Bundle!Expire, BundleCards!Expire, Bundle!Resolve, BundleCards!Resolve,
       Bundle!ResolveFails, BundleCards!ResolveFails, Bundle!Register, BundleCards!Register,
       Bundle!RegisterNext, BundleCards!RegisterNext, Bundle!Begin, BundleCards!Begin, Bundle!Refused,
       BundleCards!Refused, Bundle!RunEnds, BundleCards!RunEnds, Bundle!EmitDone,
       BundleCards!EmitDone, Bundle!OnRegistered, BundleCards!OnRegistered, Bundle!OnProgress,
       BundleCards!OnProgress, Bundle!OnDone, BundleCards!OnDone, Bundle!Pause, BundleCards!Pause,
       Bundle!Stop, BundleCards!Stop, Bundle!Resume, BundleCards!Resume, Bundle!Remove,
       BundleCards!Remove, Bundle!ListTransfers, BundleCards!ListTransfers, Bundle!Reconcile,
       BundleCards!Reconcile, Bundle!Requested, BundleCards!Requested, Bundle!Listed,
       BundleCards!Listed, Bundle!Op, BundleCards!Op, Bundle!Emit, BundleCards!Emit, Bundle!Becomes,
       BundleCards!Becomes, Bundle!Waiting, BundleCards!Waiting, Bundle!Next1, BundleCards!Next1,
       Bundle!None, BundleCards!None, Bundle!Keys, BundleCards!Keys, Bundle!Settled,
       BundleCards!Settled, Bundle!Active, BundleCards!Active, Bundle!Ends, BundleCards!Ends,
       Bundle!NoCtl, BundleCards!NoCtl, Bundle!Idle, BundleCards!Idle, Bundle!NoMount,
       BundleCards!NoMount

LEMMA TwiceNext == Twice!Next <=> TwiceCards!Next
  BY ZenonT(60) DEF Twice!Next, TwiceCards!Next, Twice!Start, TwiceCards!Start, Twice!Command, TwiceCards!Command,
       Twice!Progress, TwiceCards!Progress, Twice!Handle, TwiceCards!Handle, Twice!User,
       TwiceCards!User, Twice!Mount, TwiceCards!Mount, Twice!Reload, TwiceCards!Reload, Twice!Expire,
       TwiceCards!Expire, Twice!Resolve, TwiceCards!Resolve, Twice!ResolveFails,
       TwiceCards!ResolveFails, Twice!Register, TwiceCards!Register, Twice!RegisterNext,
       TwiceCards!RegisterNext, Twice!Begin, TwiceCards!Begin, Twice!Refused, TwiceCards!Refused,
       Twice!RunEnds, TwiceCards!RunEnds, Twice!EmitDone, TwiceCards!EmitDone, Twice!OnRegistered,
       TwiceCards!OnRegistered, Twice!OnProgress, TwiceCards!OnProgress, Twice!OnDone,
       TwiceCards!OnDone, Twice!Pause, TwiceCards!Pause, Twice!Stop, TwiceCards!Stop, Twice!Resume,
       TwiceCards!Resume, Twice!Remove, TwiceCards!Remove, Twice!ListTransfers,
       TwiceCards!ListTransfers, Twice!Reconcile, TwiceCards!Reconcile, Twice!Requested,
       TwiceCards!Requested, Twice!Listed, TwiceCards!Listed, Twice!Op, TwiceCards!Op, Twice!Emit,
       TwiceCards!Emit, Twice!Becomes, TwiceCards!Becomes, Twice!Waiting, TwiceCards!Waiting,
       Twice!Next1, TwiceCards!Next1, Twice!None, TwiceCards!None, Twice!Keys, TwiceCards!Keys,
       Twice!Settled, TwiceCards!Settled, Twice!Active, TwiceCards!Active, Twice!Ends,
       TwiceCards!Ends, Twice!NoCtl, TwiceCards!NoCtl, Twice!Idle, TwiceCards!Idle, Twice!NoMount,
       TwiceCards!NoMount

LEMMA BundleMeans == BundleCards!CardsInv => Bundle!CardsTypeOK /\ Bundle!MovingIsMoving
  <1>1. BundleCards!CardsInv => BundleCards!CardsTypeOK /\ BundleCards!MovingIsMoving
    BY BundleCards!CardsMean
  <1>2. Bundle!CardsTypeOK <=> BundleCards!CardsTypeOK
    BY DEF Bundle!CardsTypeOK, BundleCards!CardsTypeOK, Bundle!Phases, BundleCards!Phases, Bundle!Settled,
       BundleCards!Settled, Bundle!Active, BundleCards!Active, Bundle!Keys, BundleCards!Keys,
       Bundle!None, BundleCards!None
  <1>3. Bundle!MovingIsMoving <=> BundleCards!MovingIsMoving
    BY DEF Bundle!MovingIsMoving, BundleCards!MovingIsMoving, Bundle!Active, BundleCards!Active,
       Bundle!Ends, BundleCards!Ends, Bundle!Keys, BundleCards!Keys
  <1> QED
    BY <1>1, <1>2, <1>3

LEMMA TwiceMeans == TwiceCards!CardsInv => Twice!CardsTypeOK /\ Twice!MovingIsMoving
  <1>1. TwiceCards!CardsInv => TwiceCards!CardsTypeOK /\ TwiceCards!MovingIsMoving
    BY TwiceCards!CardsMean
  <1>2. Twice!CardsTypeOK <=> TwiceCards!CardsTypeOK
    BY DEF Twice!CardsTypeOK, TwiceCards!CardsTypeOK, Twice!Phases, TwiceCards!Phases, Twice!Settled,
       TwiceCards!Settled, Twice!Active, TwiceCards!Active, Twice!Keys, TwiceCards!Keys, Twice!None,
       TwiceCards!None
  <1>3. Twice!MovingIsMoving <=> TwiceCards!MovingIsMoving
    BY DEF Twice!MovingIsMoving, TwiceCards!MovingIsMoving, Twice!Active, TwiceCards!Active, Twice!Ends,
       TwiceCards!Ends, Twice!Keys, TwiceCards!Keys
  <1> QED
    BY <1>1, <1>2, <1>3

(* Over bundles, models started twice, pauses, stops, removals and reloads, and
   for any number of events under way: every card of Studio shown as moving,
   but for those made from the engine's list, has a command that works on its
   transfer or an event that settles it; there is never more than one seeder,
   and what it serves is shared. *)
THEOREM StudioCorrect == Spec => []StudioInv
  <1> DEFINE Inv == BundleCards!CardsInv /\ TwiceCards!CardsInv /\ HeldInv
  <1>1. Init => Inv
    BY BundleInit, TwiceInit, BundleCards!CardsInit, TwiceCards!CardsInit, HeldInit DEF Init
  <1>2. Inv /\ [Next]_vars => Inv'
    <2> SUFFICES ASSUME Inv, [Next]_vars PROVE Inv'
      OBVIOUS
    <2>1. BundleCards!CardsInv'
      <3>1. Bundle!Next \/ UNCHANGED bundleVars
        BY DEF Next, vars, InBrowse, InSettings, InLibrary, InFold, InComposer, InBundle, InTwice, InShare
      <3>2. UNCHANGED bundleVars => UNCHANGED BundleCards!cardVars
        BY DEF bundleVars, BundleCards!cardVars
      <3> QED
        BY <3>1, <3>2, BundleNext, BundleLinks, BundleCards!CardsStep, BundleCards!CardsFrame
    <2>2. TwiceCards!CardsInv'
      <3>1. Twice!Next \/ UNCHANGED twiceVars
        BY DEF Next, vars, InBrowse, InSettings, InLibrary, InFold, InComposer, InBundle, InTwice, InShare
      <3>2. UNCHANGED twiceVars => UNCHANGED TwiceCards!cardVars
        BY DEF twiceVars, TwiceCards!cardVars
      <3> QED
        BY <3>1, <3>2, TwiceNext, TwiceLinks, TwiceCards!CardsStep, TwiceCards!CardsFrame
    <2>3. HeldInv'
      <3>1. Studio!Next \/ UNCHANGED shareVars
        BY DEF Next, vars, InBrowse, InSettings, InLibrary, InFold, InComposer, InBundle, InTwice, InShare
      <3> QED
        BY <3>1, HeldStep, HeldFrame
    <2> QED
      BY <2>1, <2>2, <2>3
  <1>3. Inv => StudioInv
    BY BundleMeans, TwiceMeans, HeldMeans DEF StudioInv
  <1> QED
    BY <1>1, <1>2, <1>3, PTL DEF Spec

=============================================================================
