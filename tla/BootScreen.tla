----------------------------- MODULE BootScreen -----------------------------
(***************************************************************************)
(* The screen while the game starts (loadscreen.c, langsel.c): a menu or   *)
(* two, then a bar over a picture out of the game's archive, with its logo,*)
(* its font (font.c, tga.c, obbzip.c) and its hints (hints.c), until the   *)
(* game draws. Any of them may be missing. The thread that began it is the *)
(* only one to draw, but hooks on any thread may ask it to, tell it that   *)
(* the game has begun with GL, or end it; on its own thread they may ask   *)
(* in the middle of everything. How long it took is kept on the card, for  *)
(* a start with the archives indexed and for one without.                  *)
(*                                                                         *)
(* What an archive holds is unknown, so that reading and decoding may fail *)
(* anywhere; of an image that is decoded, what is read and written counts. *)
(* The game draws on a thread only after other GL calls of that thread.    *)
(***************************************************************************)
EXTENDS Integers, Sequences

CONSTANTS
  Owner, Others,        \* threads: the game's first, and those it starts
  Rows, Visible,        \* rows of the menus, and of them on the screen
  Pixels, FileMax,      \* pixels of a picture; bound: what its file holds
  MaxHints,             \* MAX_HINTS
  MinTime, MaxTime,     \* a start took longer than the one and less than the other, or is not believed
  Times, Default,       \* bound: what a file may say; what a start takes if nothing is known of it
  Redraw,               \* LOADSCREEN_REDRAW_MS
  HintTime,             \* LOADSCREEN_HINT_SECONDS
  Late,                 \* bound: how long a start may take
  MaxMenus              \* bound: menus

Threads == Others \cup {Owner}
Kinds == {"warm", "cold"}

BootConstants ==
  /\ Owner \notin Others
  /\ Rows \in Nat \ {0} /\ Visible \in Nat \ {0}
  /\ Pixels \in Nat \ {0} /\ FileMax \in Nat /\ MaxHints \in Nat
  /\ MinTime \in Nat /\ MaxTime \in Nat /\ Late \in Nat /\ Redraw \in Nat /\ HintTime \in Nat \ {0}
  /\ Default \in [Kinds -> MinTime + 1 .. MaxTime - 1]
  /\ Times \subseteq Nat /\ MaxMenus \in Nat

Pictures == {"art", "logo", "font"}
\* What hints_load has while it works, in the order it gets it.
Needs == <<"main", "key", "bzf", "2da", "refs", "table", "arena">>
Resources == {"patch", "raw", "rgba"} \cup {Needs[i] : i \in DOMAIN Needs}

VARIABLES
  pc,                   \* where the owner is
  held,                 \* files and memory that somebody has to give back
  \* langsel_list
  sel, top, buttons, menus,
  \* the picture that is read, the pixels put and the bytes left of its file
  pic, px, unread,
  texture,              \* a picture's texture: "none", "empty", "filled" or "deleted"
  shown,                \* pictures whose texture is noted: g_tex, g_logo, and g_ready of the font
  need, g_n, g_nhint,   \* how many of Needs there are; the hints found, and counted
  g_active, g_busy, g_game_gl, g_art, g_warm,
  since, g_last, g_expect,
  tim, file, kept,      \* what is written to startup.tim, what is in it, what ought to be read
  frame, bar,           \* what this step drew, and the bar as it was last drawn
  noted, foreign        \* threads that have called GL; another one than the owner was the first

menu == <<sel, top, buttons, menus>>
image == <<pic, px, unread>>
textures == <<texture, shown>>
hints == <<need, g_n, g_nhint>>
screen == <<g_active, g_busy, g_game_gl, g_art, g_warm, g_expect>>
clock == <<since, g_last>>
card == <<tim, file, kept>>
game == <<noted, foreign>>
seen == <<frame, bar>>
vars == <<pc, held, menu, image, textures, hints, screen, clock, card, game, seen>>

NoFrame == [pics |-> {}, line |-> -1, frac |-> -1]
NoTimes == [warm |-> 0, cold |-> 0]

\* Which of the two this start is.
Kind == IF g_warm THEN "warm" ELSE "cold"

\* tim_read: a file that cannot be read or believed says nothing.
Sane(us) == us > MinTime /\ us < MaxTime
Reads(f) == [k \in Kinds |-> IF Sane(f[k]) THEN f[k] ELSE Default[k]]

Init ==
  /\ pc = "off" /\ held = {}
  /\ sel = 0 /\ top = 0 /\ buttons = {} /\ menus = 0
  /\ pic = "art" /\ px = 0 /\ unread = 0
  /\ texture = [p \in Pictures |-> "none"] /\ shown = {}
  /\ need = 0 /\ g_n = 0 /\ g_nhint = 0
  /\ g_active = FALSE /\ g_busy = FALSE /\ g_game_gl = FALSE /\ g_art = FALSE
  /\ g_warm = FALSE /\ g_expect = 0
  /\ since = 0 /\ g_last = 0
  /\ file \in [Kinds -> Times \cup {0}] /\ kept = Reads(file) /\ tim = NoTimes
  /\ frame = NoFrame /\ bar = -1 /\ noted = {} /\ foreign = FALSE

Quiet == frame' = NoFrame /\ bar' = bar
\* obbzip_open: there is patch.obb, and it is a zip; or not.
Opened(zip) == IF zip THEN held \cup {"patch"} ELSE held
\* What loading leaves alone.
Elsewhere == Quiet /\ UNCHANGED <<menu, clock, card, game>>

-----------------------------------------------------------------------------
(* Pictures out of patch.obb: obbzip_read, tga_decode, and their texture.   *)

\* Where the owner goes without the picture; without the first, art_load gives up.
After(p) == IF p = "logo" THEN "txi" ELSE "close"

Absent(p) == pc' = After(p) /\ UNCHANGED <<held, image>>
Found(p) ==
  /\ pic' = p /\ px' = 0 /\ unread' \in 0 .. FileMax
  /\ held' = held \cup {"raw"} /\ pc' = "decode"
Reading(p) == (Absent(p) \/ Found(p)) /\ Elsewhere /\ UNCHANGED <<textures, hints, screen>>

Match == pc = "match" /\ Reading("art")
Logo == pc = "logo" /\ Reading("logo")
\* font_load: once; its metrics, a file of their own, come first.
FontLoad ==
  /\ pc = "txi"
  /\ IF "font" \in shown
     THEN Absent("font") /\ Elsewhere /\ UNCHANGED <<textures, hints, screen>>
     ELSE Reading("font")

\* The header is one that can be decoded, and there is memory; or not.
Decode ==
  /\ pc = "decode"
  /\ \/ held' = held \cup {"rgba"} /\ pc' = "pixels" /\ unread' = unread
     \/ held' = held \ {"raw"} /\ pc' = After(pic) /\ unread' = 0
  /\ Elsewhere /\ UNCHANGED <<pic, px, textures, hints, screen>>

\* A run of n pixels, of which the image takes what it still needs; a literal one has them
\* all in the file. A plain image is one literal run.
Count(n) == IF n > Pixels - px THEN Pixels - px ELSE n
Cost(n, literal) == IF literal THEN Count(n) ELSE 1
Run(n, literal) ==
  /\ pc = "pixels" /\ px < Pixels
  /\ IF unread < Cost(n, literal)
     THEN held' = held \ {"raw", "rgba"} /\ pc' = After(pic) /\ px' = 0 /\ unread' = 0
     ELSE px' = px + Count(n) /\ unread' = unread - Cost(n, literal) /\ UNCHANGED <<held, pc>>
  /\ Elsewhere /\ UNCHANGED <<pic, textures, hints, screen>>

\* upload: a name, then what it names, and then it is noted.
GenTexture ==
  /\ pc = "pixels" /\ px = Pixels
  /\ held' = held \ {"raw"} /\ texture' = [texture EXCEPT ![pic] = "empty"] /\ pc' = "upload"
  /\ px' = 0 /\ unread' = 0
  /\ Elsewhere /\ UNCHANGED <<pic, shown, hints, screen>>

TexImage ==
  /\ pc = "upload"
  /\ held' = held \ {"rgba"} /\ texture' = [texture EXCEPT ![pic] = "filled"]
  /\ shown' = shown \cup {pic} /\ g_art' = (g_art \/ pic = "art")
  /\ pc' = IF pic = "art" THEN "logo" ELSE After(pic)
  /\ Elsewhere /\ UNCHANGED <<image, hints, g_active, g_busy, g_game_gl, g_warm, g_expect>>

\* obbzip_close, and what waits for it: the menu, or the hints if there is a font to show them.
CloseZip ==
  /\ pc = "close"
  /\ held' = held \ {"patch"} /\ pic' = "art"
  /\ pc' = CASE ~g_active -> IF "font" \in shown THEN "open" ELSE "off"
             [] g_active /\ g_art /\ "font" \in shown -> "hints"
             [] OTHER -> "first"
  /\ Elsewhere /\ UNCHANGED <<px, unread, textures, hints, screen>>

\* One thing more for the hints, if there is memory: the archive, its key, the table of hints out
\* of it (key_find, bzf_extract, twoda_strrefs), and the table of strings, which is a file of its
\* own where a translation has one, and otherwise in the archive.
Gets ==
  /\ need' = need + 1
  /\ \/ held' = held \cup {Needs[need']}
     \/ Needs[need'] = "table" /\ held' = held

\* hints_load: one thing after the other, or what there is is given back.
HintsNeed ==
  /\ pc = "hints" /\ need < Len(Needs)
  /\ \/ Gets /\ pc' = pc
     \/ pc' = "done" /\ UNCHANGED <<held, need>>
  /\ Elsewhere /\ UNCHANGED <<image, textures, g_n, g_nhint, screen>>

\* One string: it is there and fits, or is left out.
Hint ==
  /\ pc = "hints" /\ need = Len(Needs) /\ g_n < MaxHints
  /\ g_n' = g_n + 1
  /\ Elsewhere /\ UNCHANGED <<pc, held, image, textures, need, g_nhint, screen>>

HintsDone_tableStays ==
  /\ pc = "done" \/ (pc = "hints" /\ need = Len(Needs))
  /\ held' = held \cap {"arena", "table"} /\ g_nhint' = g_n /\ need' = 0 /\ pc' = "first"
  /\ Elsewhere /\ UNCHANGED <<image, textures, g_n, screen>>
HintsDone ==
  /\ pc = "done" \/ (pc = "hints" /\ need = Len(Needs))
  /\ held' = held \cap {"arena"} /\ g_nhint' = g_n /\ need' = 0 /\ pc' = "first"
  /\ Elsewhere /\ UNCHANGED <<image, textures, g_n, screen>>

-----------------------------------------------------------------------------
(* Menus: langsel_run, langsel_list.                                        *)

\* The first row on the screen, for the row that is chosen.
Follow(t, s) ==
  CASE s < t -> s
    [] s >= t + Visible -> s - Visible + 1
    [] OTHER -> t

\* Without its zip it has no font, unless a menu before left one.
OpenZip(zip) ==
  /\ pc = "off" /\ ~g_active /\ menus < MaxMenus /\ menus' = menus + 1
  /\ held' = Opened(zip)
  /\ pc' = IF zip THEN "txi" ELSE "close"
  /\ Quiet /\ UNCHANGED <<sel, top, buttons, image, textures, hints, screen, clock, card, game>>

OpenList(current, pressed) ==
  /\ pc = "open" /\ pc' = "list"
  /\ sel' = IF current < Rows THEN current ELSE 0
  /\ top' = Follow(0, sel')
  /\ buttons' = pressed
  /\ Quiet /\ UNCHANGED <<held, menus, image, textures, hints, screen, clock, card, game>>

\* A menu on the screen: text, and a bar behind its row.
Menu == [NoFrame EXCEPT !.pics = {"font"}]

\* One round: a button counts when it was up before, and the menu is drawn unless it ends,
\* by a button ("ok" stands for cancel as well) or when none was touched for too long.
Up(s, edge) == IF "up" \in edge THEN (s + (Rows - 1)) % Rows ELSE s
Down(s, edge) == IF "down" \in edge THEN (s + 1) % Rows ELSE s
Ends(edge, timeout) == "ok" \in edge \/ timeout
Poll(pressed, timeout) ==
  /\ pc = "list" /\ (timeout => pressed = buttons)
  /\ LET edge == pressed \ buttons IN
     IF Ends(edge, timeout)
     THEN sel' = 0 /\ top' = 0 /\ buttons' = {} /\ pc' = "off" /\ Quiet
     ELSE /\ sel' = Down(Up(sel, edge), edge) /\ top' = Follow(top, sel')
          /\ buttons' = pressed /\ pc' = pc
          /\ frame' = Menu /\ bar' = bar
  /\ UNCHANGED <<held, menus, image, textures, hints, screen, clock, card, game>>

-----------------------------------------------------------------------------
(* loadscreen.c.                                                            *)

\* current_line: 0 is the port's own sentence, i the i-th hint, -1 none.
Line(seed) ==
  LET own == IF g_warm THEN 0 ELSE 1
      slot == since \div HintTime
  IN IF slot < own THEN 0
     ELSE IF g_nhint <= 0 THEN -1
     ELSE 1 + ((seed + slot - own) % g_nhint)

\* Text needs the font.
Text(pictures, line) == IF "font" \in pictures THEN line ELSE -1

\* draw: the art with what goes with it, or the bar alone.
Draw(pictures, frac, seed) ==
  LET art == "art" \in pictures IN
  /\ frame' = [pics |-> IF art THEN pictures ELSE {},
               line |-> IF art THEN Text(pictures, Line(seed)) ELSE -1,
               frac |-> frac]
  /\ bar' = frac

\* The clock is the program's, which began before the screen: no frame is too recent.
loadscreen_begin(warm, zip) ==
  /\ pc = "off" /\ ~g_active
  /\ g_warm' = warm /\ g_expect' = Reads(file)[IF warm THEN "warm" ELSE "cold"]
  /\ since' = 0 /\ g_last' = -Redraw /\ g_active' = TRUE /\ g_busy' = TRUE
  /\ held' = Opened(zip)
  /\ pc' = IF zip THEN "match" ELSE "first"
  /\ Quiet /\ UNCHANGED <<menu, image, textures, hints, g_game_gl, g_art, card, game>>

\* The end of loadscreen_begin.
First(seed) ==
  /\ pc = "first"
  /\ Draw(shown, 0, seed) /\ g_busy' = FALSE /\ pc' = "shown"
  /\ UNCHANGED <<held, menu, image, textures, hints, g_active, g_game_gl, g_art, g_warm, g_expect,
                 clock, card, game>>

Pass ==
  /\ g_active /\ since < Late /\ since' = since + 1
  /\ Quiet /\ UNCHANGED <<pc, held, menu, image, textures, hints, screen, g_last, card, game>>

\* Elapsed of expected in percent, below a hundred.
Frac(elapsed) == IF 100 * elapsed > 99 * g_expect THEN 99 ELSE (100 * elapsed) \div g_expect

Frozen_never(gl) == FALSE
Frozen(gl) == g_art /\ gl
Draws(t, gl) == ~g_busy /\ ~Frozen(gl) /\ t = Owner /\ since - g_last >= Redraw
\* The body of loadscreen_tick, once the game has called GL or not, as far as the drawing.
Ticked(t, gl) ==
  IF Draws(t, gl)
  THEN g_last' = since /\ g_busy' = TRUE /\ pc' = "drawing"
  ELSE UNCHANGED <<g_last, g_busy, pc>>

loadscreen_tick(t) ==
  /\ g_active
  /\ Ticked(t, g_game_gl)
  /\ Quiet /\ UNCHANGED <<held, menu, image, textures, hints, g_active, g_game_gl, g_art, g_warm,
                          g_expect, since, card, game>>

\* The rest of it, for which another thread may not wait.
TickDraws(seed) ==
  /\ pc = "drawing"
  /\ Draw(shown, Frac(g_last), seed) /\ g_busy' = FALSE /\ pc' = "shown"
  /\ UNCHANGED <<held, menu, image, textures, hints, g_active, g_game_gl, g_art, g_warm, g_expect,
                 clock, card, game>>

\* The owner is with the game, or draws and another thread is.
Playing(t) == pc = "shown" \/ (pc = "drawing" /\ t # Owner)

\* The first call on the owner's thread, if no other thread was first, gives all back.
Releases(t) == t = Owner /\ ~g_game_gl
loadscreen_note_gl(t) ==
  /\ Playing(t) /\ noted' = noted \cup {t}
  /\ foreign' = (foreign \/ (noted = {} /\ t # Owner))
  /\ IF ~g_active
     THEN UNCHANGED <<held, textures, hints, g_game_gl, g_last, g_busy, pc>>
     ELSE /\ g_game_gl' = TRUE
          /\ IF Releases(t)
             THEN /\ texture' = [p \in Pictures |-> IF p \in shown THEN "deleted" ELSE texture[p]]
                  /\ shown' = {} /\ held' = held \ {"arena"} /\ g_n' = 0 /\ g_nhint' = 0
             ELSE UNCHANGED <<textures, held, g_n, g_nhint>>
          /\ Ticked(t, TRUE)
          /\ UNCHANGED need
  /\ Quiet /\ UNCHANGED <<menu, image, g_active, g_art, g_warm, g_expect, since, card>>

\* In the game's first draw on any thread. The art has nothing left to draw; the bar is full.
loadscreen_end(t, seed) ==
  /\ Playing(t) /\ g_active /\ t \in noted
  /\ g_active' = FALSE
  /\ IF t = Owner
     THEN /\ IF Frozen(g_game_gl) THEN Quiet ELSE Draw(shown, 100, seed)
          /\ tim' = [Reads(file) EXCEPT ![Kind] = since]
          /\ pc' = "time"
     ELSE Quiet /\ UNCHANGED <<tim, pc>>
  /\ UNCHANGED <<held, menu, image, textures, hints, g_busy, g_game_gl, g_art, g_warm, g_expect,
                 clock, file, kept, game>>

\* tim_write: the file is emptied when it is opened; what was known is known again, with the
\* time this start took, once it is written.
Truncate ==
  /\ pc = "time"
  /\ \/ pc' = "write" /\ file' = NoTimes
     \/ pc' = "over" /\ file' = file
  /\ Quiet /\ UNCHANGED <<held, menu, image, textures, hints, screen, clock, tim, kept, game>>

Write ==
  /\ pc = "write" /\ pc' = "over"
  /\ \/ /\ file' = tim
        /\ kept' = [kept EXCEPT ![Kind] = IF Sane(tim[Kind]) THEN tim[Kind] ELSE Default[Kind]]
     \/ file' = file /\ kept' = Default
  /\ Quiet /\ UNCHANGED <<held, menu, image, textures, hints, screen, clock, tim, game>>

-----------------------------------------------------------------------------
Buttons == {"up", "down", "ok"}

Loads ==
  \/ Match \/ Logo \/ FontLoad \/ Decode \/ GenTexture \/ TexImage \/ CloseZip
  \/ \E n \in 1 .. Pixels + 1, literal \in BOOLEAN : Run(n, literal)
  \/ HintsNeed \/ Hint \/ HintsDone

Menus ==
  \/ \E zip \in BOOLEAN : OpenZip(zip)
  \/ \E current \in 0 .. Rows, pressed \in SUBSET Buttons : OpenList(current, pressed)
  \/ \E pressed \in SUBSET Buttons, timeout \in BOOLEAN : Poll(pressed, timeout)

Shows ==
  \/ \E warm, zip \in BOOLEAN : loadscreen_begin(warm, zip)
  \/ \E seed \in 0 .. MaxHints : First(seed)
  \/ Pass
  \/ \E t \in Threads : loadscreen_tick(t) \/ loadscreen_note_gl(t)
  \/ \E seed \in 0 .. MaxHints : TickDraws(seed)
  \/ \E t \in Threads, seed \in 0 .. MaxHints :
       loadscreen_end(t, seed)
  \/ Truncate \/ Write

Next == Loads \/ Menus \/ Shows
Spec == Init /\ [][Next]_vars

-----------------------------------------------------------------------------
(* Properties.                                                              *)

\* What a frame shows is there to be shown: textures with content, not yet deleted, and a
\* hint that is in memory (loadscreen.c:215-221, 385-391).
FrameWhole ==
  /\ \A p \in frame.pics : texture[p] = "filled"
  /\ frame.line > 0 => frame.line <= g_n /\ "arena" \in held

\* The row that is chosen is one of the menu's and on the screen (langsel.c:286-290).
RowVisible == sel \in 0 .. Rows - 1 /\ top \in Nat /\ sel \in top .. top + Visible - 1

\* However far loading got, it gives everything back; only the hints stay (hints.c:327-334,
\* loadscreen.c:149-205). Once the game has begun with GL they and the textures go as well,
\* unless another thread than the screen's was the first (loadscreen.c:416-430).
AllGivenBack ==
  /\ pc \in {"off", "open", "list", "first", "shown", "drawing", "time", "write", "over"} => held \subseteq {"arena"}
  /\ noted # {} /\ ~foreign =>
       held = {} /\ \A p \in Pictures : texture[p] \in {"none", "deleted"}

\* What is known of how long a start takes is kept, of either kind; only while it is being
\* written may it be lost, to the default (loadscreen.c:341-364).
EstimatesKept ==
  /\ pc # "write" => Reads(file) = kept
  /\ g_active => Sane(g_expect)

ScreenSound == FrameWhole /\ RowVisible /\ AllGivenBack /\ EstimatesKept

\* The art is drawn only while the game has not begun with GL (loadscreen.h:29-45), and the end
\* of the screen, in the game's first draw, draws nothing over it; but another thread than the
\* screen's may begin, and even draw, while a last picture is put up. The bar never goes back,
\* and it is full only when the screen ends (loadscreen.c:449-451, 466-471).
HandsOver ==
  [][/\ frame'.pics # {} => ~g_game_gl' \/ foreign
     /\ g_art /\ ~g_active' => frame' = NoFrame \/ foreign
     /\ bar' >= bar /\ (bar' = 100 => ~g_active')]_vars
=============================================================================
