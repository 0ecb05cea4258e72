------------------------------ MODULE Settings ------------------------------
(***************************************************************************)
(* What the loader and the game keep on the card from one start to the     *)
(* next: the language, the fan translation, the texture quality and the    *)
(* engine's own settings in swkotor.ini (loader/main.c, ini.c,             *)
(* ini_write.c), the mod set and the request for its menu                  *)
(* (loader/modset.c).  The player moves folders about and cuts the power.  *)
(*                                                                         *)
(* One action per function of the start-up, in its order, and per write of *)
(* the card where the power can go.  An ini is a function of its keys; of  *)
(* its text only two lengths matter: the 4 KB that resolve_language reads  *)
(* and the 256 KB from which it is no longer rewritten.                    *)
(***************************************************************************)
EXTENDS Naturals, FiniteSets, Functions

CONSTANTS
  Langs, English,   \* the game's languages
  Translations,     \* folders of fan translations
  Sets,             \* folders of mods
  EngineKeys,       \* the engine's settings, the sound bias among them
  Bias,
  Floor, Other,     \* their values: what the strtod bug left, and another
  MemoN,            \* MEMO_N
  MaxStarts         \* bound on the starts

Absent == "absent"
Empty == "empty"    \* Translation= with nothing after it
NoFile == [k \in {} |-> Absent]   \* different from an ini with no keys in it
Keys == {"Language", "Translation", "TextureBits"} \cup EngineKeys

VARIABLES
  ini, new,              \* swkotor.ini and swkotor.ini.new
  far,                   \* its [Game Options] lie beyond the first 4 KB
  big,                   \* it has INI_MAX_BYTES or more
  active, menuFlag,      \* mods/active.txt and mods/menu.flag
  folders,               \* the translations and mod sets on the card
  phase,                 \* how far this start has come
  job,                   \* ini_replace_file: what it writes, and what comes next
  g_lang_id, g_lang_have_key, translation, \* what the game is told
  g_gl_tex16,
  s_active, s_menu,      \* the mod set, and whether its menu was asked for
  latched,               \* L was held while it started
  unsaved,               \* something chosen could not be saved, or went with a file too long to read
  memo, card_ini,        \* the engine's writes, remembered; the file before them
  starts,
  spoiled                \* history: settings a write of which failed or found no slot

card == <<ini, new, far, big, active, menuFlag, folders>>
language == <<g_lang_id, g_lang_have_key, translation>>
mods == <<s_active, s_menu>>
filter == <<memo, card_ini, spoiled>>
vars == <<card, phase, job, language, g_gl_tex16, mods, latched, unsaved, filter, starts>>

NoJob == [out |-> NoFile, far |-> FALSE, lost |-> FALSE, had |-> FALSE, then |-> "off"]
NoKeys == [k \in {} |-> Absent]
Blank == [k \in Keys |-> Absent]

Init ==
  /\ \/ ini = NoFile /\ far = FALSE /\ big = FALSE
     \/ /\ \E l \in Langs \cup {Absent}, b \in {Floor, Other} :
             ini = [Blank EXCEPT !["Language"] = l, ![Bias] = b]
        /\ far \in BOOLEAN /\ big \in BOOLEAN
  /\ new = NoFile /\ active = Empty /\ menuFlag = FALSE
  /\ folders \in SUBSET (Translations \cup Sets)
  /\ phase = "off" /\ job = NoJob
  /\ g_lang_id = English /\ g_lang_have_key = FALSE /\ translation = Absent
  /\ g_gl_tex16 = TRUE /\ s_active = Empty /\ s_menu = FALSE
  /\ latched = FALSE /\ unsaved = FALSE
  /\ memo = NoKeys /\ card_ini = NoFile /\ spoiled = {} /\ starts = 0

-----------------------------------------------------------------------------
(* The ini.                                                                *)

ini_get(f, k) == IF f = NoFile THEN Absent ELSE f[k]
ini_set(f, k, v) == [(IF f = NoFile THEN Blank ELSE f) EXCEPT ![k] = v]

\* A missing file and one that is too long both read as nothing to build on.
read_whole_ini == IF big THEN NoFile ELSE ini

Goes(p) == phase' = p
\* What is built on nothing is short, and what else the file said is lost.  had: there
\* was a file when it began.
Replaces(out, p) ==
  /\ job' = [out |-> out, far |-> far /\ ~big, lost |-> big, had |-> ini # NoFile, then |-> p]
  /\ Goes("write")

\* ini_replace_file, from the write of swkotor.ini.new to the rename.
WriteNew ==
  /\ phase = "write"
  /\ \/ new' = job.out /\ Goes("remove") /\ UNCHANGED <<job, unsaved>>
     \/ new' = NoFile /\ Goes(job.then) /\ job' = NoJob /\ unsaved' = TRUE
  /\ UNCHANGED <<ini, far, big, active, menuFlag, folders, language, g_gl_tex16, mods, latched, filter, starts>>

RemoveOld ==
  /\ phase = "remove" /\ Goes("rename")
  /\ ini' = NoFile /\ far' = FALSE /\ big' = FALSE
  /\ UNCHANGED <<new, active, menuFlag, folders, job, language, g_gl_tex16, mods, latched, unsaved, filter, starts>>

Rename ==
  /\ phase = "rename" /\ Goes(job.then) /\ job' = NoJob
  /\ \/ ini' = new /\ new' = NoFile /\ far' = job.far /\ unsaved' = (unsaved \/ job.lost)
     \/ unsaved' = TRUE /\ UNCHANGED <<ini, new, far>>
  /\ UNCHANGED <<big, active, menuFlag, folders, language, g_gl_tex16, mods, latched, filter, starts>>

-----------------------------------------------------------------------------
(* main, before the game.                                                  *)

Has(f) == f \in folders

\* What resolve_language and resolve_translation make of the file: it is cut at 4 KB.
Head(k) == IF far THEN Absent ELSE ini_get(ini, k)
TranslationChosen == Head("Translation") \in Translations /\ Has(Head("Translation"))
ResolvedTranslation == IF TranslationChosen THEN Head("Translation") ELSE Absent
ResolvedId ==
  IF TranslationChosen \/ Head("Language") = Absent THEN English ELSE Head("Language")

resolve_language ==
  /\ phase = "off" /\ starts < MaxStarts /\ starts' = starts + 1
  /\ g_lang_id' = ResolvedId /\ translation' = ResolvedTranslation
  /\ g_lang_have_key' = (TranslationChosen \/ Head("Language") # Absent)
  /\ Goes("options")
  /\ UNCHANGED <<card, job, g_gl_tex16, mods, latched, unsaved, filter>>

TexOf(f) == ini_get(f, "TextureBits") # "32"

read_vita_options ==
  /\ phase = "options"
  /\ g_gl_tex16' = TexOf(read_whole_ini)
  /\ Goes("bias")
  /\ UNCHANGED <<card, job, language, mods, latched, unsaved, filter, starts>>

repair_sound_bias ==
  /\ phase = "bias"
  /\ IF ini_get(read_whole_ini, Bias) = Floor
     THEN Replaces(ini_set(ini, Bias, Other), "mods")
     ELSE Goes("mods") /\ UNCHANGED job
  /\ UNCHANGED <<card, language, g_gl_tex16, mods, latched, unsaved, filter, starts>>

ActiveSet == IF active \in Sets /\ Has(active) THEN active ELSE Empty

modset_scan ==
  /\ phase = "mods"
  /\ s_menu' = menuFlag /\ menuFlag' = FALSE
  /\ s_active' = ActiveSet
  /\ Goes("menu")
  /\ UNCHANGED <<ini, new, far, big, active, folders, job, language, g_gl_tex16, latched, unsaved, filter, starts>>

\* langsel's watcher sees L on the way.
watch_thread ==
  /\ phase \in {"options", "bias", "mods", "menu", "picker"} /\ ~latched
  /\ latched' = TRUE
  /\ UNCHANGED <<card, phase, job, language, g_gl_tex16, mods, unsaved, filter, starts>>

-----------------------------------------------------------------------------
(* The game's thread, before the game: menus that are left, time out, or   *)
(* have no font, and choices that are saved.                               *)

offer_mod_menu ==
  /\ phase = "menu"
  /\ s_menu' = FALSE
  /\ \/ Goes("picker") /\ UNCHANGED <<active, s_active, unsaved>>
     \/ /\ s_menu
        /\ s_active' \in {s \in Sets : Has(s)} \cup {Empty}
        /\ \/ active' = Empty /\ Goes("choose") /\ UNCHANGED unsaved    \* opened, and so truncated
           \/ unsaved' = TRUE /\ Goes("texture") /\ UNCHANGED active
  /\ UNCHANGED <<ini, new, far, big, menuFlag, folders, job, language, g_gl_tex16, latched, filter, starts>>

modset_choose ==
  /\ phase = "choose" /\ Goes("texture")
  /\ \/ active' = s_active /\ UNCHANGED unsaved
     \/ unsaved' = TRUE /\ UNCHANGED active
  /\ UNCHANGED <<ini, new, far, big, menuFlag, folders, job, language, g_gl_tex16, mods, latched, filter, starts>>

offer_texture_menu ==
  /\ phase = "texture"
  /\ \/ Goes("picker") /\ UNCHANGED <<job, g_gl_tex16>>
     \/ /\ g_gl_tex16' \in BOOLEAN
        /\ Replaces(ini_set(read_whole_ini, "TextureBits", IF g_gl_tex16' THEN "16" ELSE "32"), "picker")
  /\ UNCHANGED <<card, language, mods, latched, unsaved, filter, starts>>

\* write_language: an ini without a Translation key does not gain an empty one.
Written_stale(id, tr) ==
  LET f == ini_set(read_whole_ini, "Language", id)
  IN  IF tr # Absent THEN ini_set(f, "Translation", tr) ELSE f
Written(id, tr) ==
  LET f == ini_set(read_whole_ini, "Language", id)
  IN  IF tr # Absent THEN ini_set(f, "Translation", tr)
      ELSE IF ini_get(f, "Translation") # Absent THEN ini_set(f, "Translation", Empty) ELSE f

offer_language_picker ==
  /\ phase = "picker"
  /\ \/ Goes("mount") /\ UNCHANGED <<job, language>>
     \/ /\ latched \/ ~g_lang_have_key               \* langsel_run
        /\ \/ g_lang_id' \in Langs /\ translation' = Absent
           \/ translation' \in {t \in Translations : Has(t)} /\ g_lang_id' = English
        /\ g_lang_have_key' = TRUE
        /\ Replaces(Written(g_lang_id', translation'), "mount")
  /\ UNCHANGED <<card, g_gl_tex16, mods, latched, unsaved, filter, starts>>

\* Without the archives it ends there, in fatal_error.
mount_obbs ==
  /\ phase = "mount" /\ \/ Goes("game") \/ Goes("fatal")
  /\ UNCHANGED <<card, job, language, g_gl_tex16, mods, latched, unsaved, filter, starts>>

-----------------------------------------------------------------------------
(* The game.                                                               *)

\* WriteIniEntry_hook answers a write of k = v itself.  f is the file as it was at the
\* first write.
Hits(f, k, v) == IF k \in DOMAIN memo THEN memo[k] = v ELSE ini_get(f, k) = v
FirstCard == IF card_ini # NoFile THEN card_ini ELSE IF read_whole_ini = NoFile THEN Blank ELSE read_whole_ini

\* An older value of k goes; a write that failed is not remembered, nor one for which
\* there is no slot.
Remembered(k, v, ok) ==
  LET old == DOMAIN memo \ {k}
  IN  IF ok /\ Cardinality(old) < MemoN
      THEN [x \in old \cup {k} |-> IF x = k THEN v ELSE memo[x]]
      ELSE [x \in old |-> memo[x]]

WriteIniEntry(k, v) ==
  /\ phase = "game"
  /\ card_ini' = (IF k \in DOMAIN memo THEN card_ini ELSE FirstCard)
  /\ IF Hits(card_ini', k, v) THEN UNCHANGED <<ini, memo, spoiled>>
     ELSE \E ok \in BOOLEAN :
            /\ ini' = (IF ok THEN ini_set(ini, k, v) ELSE ini)
            /\ memo' = Remembered(k, v, ok)
            /\ spoiled' = (IF k \in DOMAIN memo' THEN spoiled ELSE spoiled \cup {k})
  /\ UNCHANGED <<new, far, big, active, menuFlag, folders, phase, job, language, g_gl_tex16, mods, latched, unsaved, starts>>

\* The Google Play button: the flag, then a restart.
OnGooglePlayButton ==
  /\ phase = "game" /\ menuFlag' = TRUE
  /\ UNCHANGED <<ini, new, far, big, active, folders, phase, job, language, g_gl_tex16, mods, latched, unsaved, filter, starts>>

-----------------------------------------------------------------------------

\* The power goes, or the game is left, at any point.
PowerOff ==
  /\ phase # "off" /\ Goes("off")
  /\ job' = NoJob
  /\ g_lang_id' = English /\ g_lang_have_key' = FALSE /\ translation' = Absent
  /\ g_gl_tex16' = TRUE /\ s_active' = Empty /\ s_menu' = FALSE
  /\ latched' = FALSE /\ unsaved' = FALSE
  /\ memo' = NoKeys /\ card_ini' = NoFile /\ spoiled' = {}
  /\ UNCHANGED <<card, starts>>

\* Folders come and go between two starts.
Rearrange ==
  /\ phase = "off" /\ folders' \in SUBSET (Translations \cup Sets)
  /\ UNCHANGED <<ini, new, far, big, active, menuFlag, phase, job, language, g_gl_tex16, mods, latched, unsaved, filter, starts>>

Starts ==
  \/ WriteNew \/ RemoveOld \/ Rename
  \/ resolve_language \/ read_vita_options \/ repair_sound_bias \/ modset_scan \/ watch_thread
  \/ offer_mod_menu \/ modset_choose \/ offer_texture_menu \/ offer_language_picker \/ mount_obbs
  \/ OnGooglePlayButton \/ PowerOff \/ Rearrange

Sets_ini(k) == \E v \in {Floor, Other} : WriteIniEntry(k, v)

Next == Starts \/ \E k \in EngineKeys : Sets_ini(k)

Spec == Init /\ [][Next]_vars

-----------------------------------------------------------------------------

\* The game starts with what the next start would find: every choice of the menus, in
\* any order and over what was there before, is read back as it was made, unless saving
\* it failed or the file is so long that its head does not hold it (main.c:1176-1184,
\* 1394-1439, modset.c:147-161).
NextStartAgrees ==
  phase \in {"mount", "game"} /\ ~unsaved =>
    /\ ~far => ResolvedId = g_lang_id /\ ResolvedTranslation = translation
    /\ ActiveSet = s_active
    /\ TexOf(read_whole_ini) = g_gl_tex16

\* What the filter would answer without a write is what the file holds, as long as the
\* setting's writes succeeded and found a slot (ini_write.c:12-24).
SkippedIsStored ==
  phase = "game" =>
    \A k \in EngineKeys \ spoiled, v \in {Floor, Other} :
      Hits(FirstCard, k, v) => ini_get(ini, k) = v

\* "An interrupted write then costs the new setting and never the file that was already
\* there" (main.c:1336): the power goes in the middle of one, and there is a file.
InterruptedWriteKeepsFile ==
  [][job.had /\ phase' = "off" => ini' # NoFile]_vars
=============================================================================
