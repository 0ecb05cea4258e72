------------------------------ MODULE Storage -------------------------------
(***************************************************************************)
(* What the loader believes of the card and what is on it: the archives it *)
(* reads through shared handles, a recorded index and a ring in memory     *)
(* (ObbFiles), the files it remembers not to be there (AssetOpen), and the *)
(* settings it keeps from one start to the next (Settings: in one part     *)
(* what the menus choose, in another what the engine writes).              *)
(*                                                                         *)
(* Archives are read-only and never remembered as missing, nor are         *)
(* swkotor.ini, mods/active.txt and mods/menu.flag (miss_cacheable), so    *)
(* that the three share no state: `part' picks whose behaviours these are. *)
(***************************************************************************)
EXTENDS ObbFiles

CONSTANTS
  Langs, English, Translations, Sets, Bias, Volume, Floor, Other, MemoN, MaxStarts,  \* Settings
  Threads, Paths, Cacheable, Translated, Bundled, Archived, InSet, MissSlots, Home,  \* AssetOpen
  MaxOpens, MaxFailures

VARIABLES
  part,
  \* Settings
  ini, new, far, big, active, menuFlag, folders, phase, job, g_lang_id, g_lang_have_key,
  translation, g_gl_tex16, s_active, s_menu, latched, unsaved, memo, card_ini, starts, spoiled,
  \* AssetOpen
  present, g_card_miss, g_all_miss, pc, op, opens, failures, seen, tainted

Kept == INSTANCE Settings WITH EngineKeys <- {Bias, Volume}
Assets == INSTANCE AssetOpen WITH Slots <- MissSlots, card <- present

\* The tables have a slot for every hash; a setting that is there is not absent, and no
\* folder's name is the empty one.
ASSUME StorageAssumption ==
  /\ MissSlots \in Nat \ {0} /\ Home \in [Assets!OnCard -> 0 .. MissSlots - 1]
  /\ {Bias, Volume} \cap {"Language", "Translation", "TextureBits"} = {}
  /\ "absent" \notin {Floor, Other} \cup Langs \cup Translations
  /\ "empty" \notin Translations \cup Sets /\ English \in Langs

kept ==
  <<ini, new, far, big, active, menuFlag, folders, phase, job, g_lang_id, g_lang_have_key,
    translation, g_gl_tex16, s_active, s_menu, latched, unsaved, memo, card_ini, starts, spoiled>>
assets == <<present, g_card_miss, g_all_miss, pc, op, opens, failures, seen, tainted>>
all == <<part, vars, kept, assets>>

StorageInit ==
  /\ part \in {"archives", "menus", "writes", "assets"}
  /\ Init
  /\ Kept!Init /\ (part # "menus" => folders = {})
  /\ part \notin {"menus", "writes"} => ini = Kept!NoFile
  /\ Assets!Init /\ (part # "assets" => present = {})

Reads == part = "archives" /\ Next /\ UNCHANGED <<part, kept, assets>>
\* The menus, while the engine writes one of its keys; and the engine's writes of two, on a
\* card without translations or mods.
Chooses ==
  part = "menus" /\ (Kept!Starts \/ Kept!Sets_ini(Bias)) /\ UNCHANGED <<part, vars, assets>>
Keeps == part = "writes" /\ Kept!Next /\ folders' = {} /\ UNCHANGED <<part, vars, assets>>
Opens == part = "assets" /\ Assets!Next /\ UNCHANGED <<part, vars, kept>>

StorageNext == Reads \/ Chooses \/ Keeps \/ Opens

StorageSpec == StorageInit /\ [][StorageNext]_all

-----------------------------------------------------------------------------
(* What the parts promise; each is stated, and its code named, in its module. *)

\* An archive is open once, for as many readers as it counts (dynlib.c:391-504), and what the
\* RAM ring hands over for an entry is what the entry names (obb_cache.c:73-120).
ArchivesKept == RingIntact /\ SharedExact

\* What the menus chose is what the next start reads (main.c:1394-1439), and a write the
\* filter leaves out would have changed nothing (ini_write.c:12-24).
SettingsStand == Kept!NextStartAgrees /\ Kept!SkippedIsStored

\* The tables of what is not there never hide a file (sdl_patch.c:629-637).
TablesTellTrue == Assets!TablesTellTrue
=============================================================================
