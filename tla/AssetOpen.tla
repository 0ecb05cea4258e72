------------------------------ MODULE AssetOpen ------------------------------
(***************************************************************************)
(* Opening a file by name (loader/sdl_patch.c, SDL_RWFromFile_hook, with   *)
(* fs_patch.c, modset.c and translation.c): a fan translation, what the    *)
(* package bundles, the card - the active mod set before its root - and    *)
(* the archives are asked in turn, and two tables remember, by hash, what  *)
(* is not on the card and what is nowhere, to answer without asking.       *)
(*                                                                         *)
(* One action per region under the tables' lock and per call of the card.  *)
(* A file is its path; of a file's content nothing matters, but where it   *)
(* came from does.  The archives, the bundle and the translation do not    *)
(* change while the game runs.                                             *)
(***************************************************************************)
EXTENDS Integers, FiniteSets, FiniteSetsExt

CONSTANTS
  Threads,
  Paths,        \* the names the game uses
  Cacheable,    \* those miss_cacheable lets be remembered
  Translated, Bundled,            \* those the translation, the package's shaders and fonts have
  Archived,                       \* those the archives, or the package behind the card, have
  InSet,        \* those the active mod set may have
  Slots,        \* MISS_SLOTS
  Home,         \* the slot of each file's hash
  MaxOpens, MaxFailures  \* bounds on the opens and on failures of the card

\* A path on the card: in the mod set or under the card's root.
OnCard == (InSet \X {"set"}) \cup (Paths \X {"root"})

Empty == <<"empty", "">>          \* a slot that was never used, 0
Forgotten == <<"forgotten", "">>  \* one whose entry went, 1

VARIABLES
  card,                   \* the files on it
  g_card_miss, g_all_miss,
  pc, op,                 \* each thread: where it is, and in what call
  opens, failures,
  seen,                   \* history: what a full search would have found during the call
  tainted                 \* history: a call of the card failed, or files were changed during a read

tables == <<g_card_miss, g_all_miss>>
bounds == <<opens, failures>>
vars == <<card, tables, pc, op, bounds, seen, tainted>>

NoOp == [kind |-> "none", path |-> CHOOSE p \in Paths : TRUE, at |-> "root", missed |-> FALSE, found |-> "none"]

Init ==
  /\ card \in SUBSET OnCard
  /\ g_card_miss = [i \in 0 .. Slots - 1 |-> Empty]
  /\ g_all_miss = [i \in 0 .. Slots - 1 |-> Empty]
  /\ pc = [t \in Threads |-> "idle"] /\ op = [t \in Threads |-> NoOp]
  /\ opens = 0 /\ failures = 0
  /\ seen = [t \in Threads |-> {}] /\ tainted = FALSE

-----------------------------------------------------------------------------
(* The tables: open addressing; what is forgotten leaves its slot marked.  *)

At(f, n) == (Home[f] + n) % Slots
Stops(set, f) == {n \in 0 .. Slots - 1 : set[At(f, n)] \in {f, Empty}}

miss_has(set, f) == Stops(set, f) # {} /\ set[At(f, Min(Stops(set, f)))] = f

\* It gives up after half the table.
miss_add(set, f) ==
  LET takes == {n \in 0 .. (Slots \div 2) - 1 : set[At(f, n)] \in {f, Empty, Forgotten}}
  IN  IF takes = {} THEN set ELSE [set EXCEPT ![At(f, Min(takes))] = f]

miss_forget(set, f) ==
  IF miss_has(set, f) THEN [set EXCEPT ![At(f, Min(Stops(set, f)))] = Forgotten] ELSE set

-----------------------------------------------------------------------------
(* Names.                                                                  *)

\* fs_translate: the mod set stands in for the root's files it has.
modset_redirect(p) == <<p, "set">> \in card
fs_translate(p) == IF modset_redirect(p) THEN <<p, "set">> ELSE <<p, "root">>

\* Where a search without tables would find p.
Search(p, c) ==
  IF p \in Translated THEN "translation"
  ELSE IF p \in Bundled THEN "bundle"
  ELSE IF <<p, "set">> \in c THEN "set"
  ELSE IF <<p, "root">> \in c THEN "root"
  ELSE IF p \in Archived THEN "archive"
  ELSE "none"

\* A change of the card: reads under way may find it before or after.
Reading(t) == op[t].kind = "read"
Changes(c) ==
  /\ card' = c
  /\ seen' = [t \in Threads |-> IF Reading(t) THEN seen[t] \cup {Search(op[t].path, c)} ELSE seen[t]]

\* Another thread is in the middle of an open.
Overlaps(t) == \E u \in Threads \ {t} : pc[u] # "idle"
Writing(t) == op[t].kind = "write"

Goes(t, l) == pc' = [pc EXCEPT ![t] = l]
Does(t, o) == op' = [op EXCEPT ![t] = o]
Returns(t, where) == Goes(t, "done") /\ Does(t, [op[t] EXCEPT !.found = where])

-----------------------------------------------------------------------------
(* Reading.                                                                *)

\* The hook: the path is translated and hashed.
OpenRead(t, p) ==
  /\ pc[t] = "idle" /\ opens < MaxOpens /\ opens' = opens + 1
  /\ Does(t, [NoOp EXCEPT !.kind = "read", !.path = p, !.at = fs_translate(p)[2]])
  /\ seen' = [seen EXCEPT ![t] = {Search(p, card)}]
  /\ Goes(t, IF p \in Cacheable THEN "nowhere" ELSE "bundle")
  /\ tainted' = (tainted \/ \E u \in Threads : Writing(u))
  /\ UNCHANGED <<card, tables, failures>>

Fails == failures < MaxFailures /\ failures' = failures + 1 /\ tainted' = TRUE

Hashed(t) == <<op[t].path, op[t].at>>

Nowhere(t) ==
  /\ pc[t] = "nowhere"
  /\ Goes(t, IF miss_has(g_all_miss, Hashed(t)) THEN "known" ELSE "bundle")
  /\ UNCHANGED <<card, tables, op, bounds, seen, tainted>>

\* The translation's files and the bundle's come first; then the path is translated again.
OpenBundled(t) ==
  /\ pc[t] = "bundle"
  /\ \/ op[t].path \in Translated /\ Returns(t, "translation") /\ UNCHANGED <<failures, tainted>>
     \/ op[t].path \in Translated /\ Fails /\ Returns(t, "none")   \* no memory for a talk table
     \/ op[t].path \in Bundled \ Translated /\ Returns(t, "bundle") /\ UNCHANGED <<failures, tainted>>
     \/ /\ op[t].path \notin Translated \cup Bundled
        /\ LET f == fs_translate(op[t].path)
           IN  Goes(t, IF op[t].path \in Cacheable /\ miss_has(g_card_miss, f) THEN "archive"
                       ELSE IF f[2] = "set" THEN "set" ELSE "root")
        /\ UNCHANGED <<op, failures, tainted>>
  /\ UNCHANGED <<card, tables, opens, seen>>

\* The card may refuse what it has, or there is no memory for a talk table on it.
OpenCard(t) ==
  /\ pc[t] \in {"set", "root"}
  /\ \/ /\ <<op[t].path, pc[t]>> \in card /\ Returns(t, pc[t])
        /\ UNCHANGED <<failures, tainted>>
     \/ /\ <<op[t].path, pc[t]>> \notin card
        /\ Goes(t, "archive") /\ Does(t, [op[t] EXCEPT !.missed = TRUE])
        /\ UNCHANGED <<failures, tainted>>
     \/ /\ Fails
        /\ Goes(t, "archive") /\ \E m \in BOOLEAN : Does(t, [op[t] EXCEPT !.missed = m])
  /\ UNCHANGED <<card, tables, opens, seen>>

obb_try_open(t) ==
  /\ pc[t] = "archive"
  /\ Returns(t, IF op[t].path \in Archived THEN "archive" ELSE "none")
  /\ UNCHANGED <<card, tables, bounds, seen, tainted>>

\* What was learnt is remembered under the path as it was translated first; who was told
\* that the file is nowhere has learnt nothing.
Remember(t) ==
  /\ pc[t] \in {"done", "known"}
  /\ LET learns == pc[t] = "done" /\ op[t].path \in Cacheable
     IN  /\ g_card_miss' = (IF learns /\ op[t].missed THEN miss_add(g_card_miss, Hashed(t)) ELSE g_card_miss)
         /\ g_all_miss' = (IF learns /\ op[t].found = "none" THEN miss_add(g_all_miss, Hashed(t)) ELSE g_all_miss)
  /\ Goes(t, "idle") /\ Does(t, NoOp) /\ seen' = [seen EXCEPT ![t] = {}]
  /\ UNCHANGED <<card, bounds, tainted>>

-----------------------------------------------------------------------------
(* Writing, and what else changes the card.                                *)

\* The hook forgets the path, under its translation, before it opens it.
OpenWrite(t, p) ==
  /\ pc[t] = "idle" /\ opens < MaxOpens /\ opens' = opens + 1
  /\ Does(t, [NoOp EXCEPT !.kind = "write", !.path = p, !.at = fs_translate(p)[2]])
  /\ Goes(t, "forget")
  /\ UNCHANGED <<card, tables, failures, seen, tainted>>

Forgets_allOnly(t) ==
  /\ pc[t] = "forget"
  /\ g_all_miss' = miss_forget(g_all_miss, Hashed(t))
  /\ Goes(t, "create")
  /\ tainted' = (tainted \/ Overlaps(t))
  /\ UNCHANGED <<card, g_card_miss, op, bounds, seen>>
Forgets(t) ==
  /\ pc[t] = "forget"
  /\ g_card_miss' = miss_forget(g_card_miss, Hashed(t))
  /\ g_all_miss' = miss_forget(g_all_miss, Hashed(t))
  /\ Goes(t, "create")
  /\ tainted' = (tainted \/ Overlaps(t))
  /\ UNCHANGED <<card, op, bounds, seen>>

Create(t) ==
  /\ pc[t] = "create"
  /\ Changes(card \cup {fs_translate(op[t].path)}) \/ UNCHANGED <<card, seen>>
  /\ Goes(t, "idle") /\ Does(t, NoOp)
  /\ tainted' = (tainted \/ Overlaps(t))
  /\ UNCHANGED <<tables, bounds>>

fs_unlink(t, p) ==
  /\ pc[t] = "idle" /\ fs_translate(p) \in card
  /\ Changes(card \ {fs_translate(p)})
  /\ tainted' = (tainted \/ Overlaps(t))
  /\ UNCHANGED <<tables, pc, op, bounds>>

\* The game renames only what is never remembered: saves.
fs_rename(t, p, q) ==
  /\ pc[t] = "idle" /\ fs_translate(p) \in card /\ q \notin Cacheable
  /\ Changes((card \ {fs_translate(p)}) \cup {fs_translate(q)})
  /\ tainted' = (tainted \/ Overlaps(t))
  /\ UNCHANGED <<tables, pc, op, bounds>>

-----------------------------------------------------------------------------

Next ==
  \E t \in Threads :
    \/ \E p \in Paths : OpenRead(t, p) \/ OpenWrite(t, p) \/ fs_unlink(t, p)
    \/ \E p, q \in Paths : fs_rename(t, p, q)
    \/ Nowhere(t) \/ OpenBundled(t) \/ OpenCard(t) \/ obb_try_open(t) \/ Remember(t)
    \/ Forgets(t) \/ Create(t)

Spec == Init /\ [][Next]_vars

-----------------------------------------------------------------------------

\* As long as no file was changed while another thread was opening one, and the card
\* never failed, an open finds what a full search would have found at some moment of the
\* call, tables or no tables (sdl_patch.c:629-637).
TablesTellTrue ==
  ~tainted => \A t \in Threads : pc[t] \in {"done", "known"} => op[t].found \in seen[t]
=============================================================================
