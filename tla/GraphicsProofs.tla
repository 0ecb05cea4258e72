---------------------------- MODULE GraphicsProofs ---------------------------
(***************************************************************************)
(* For any programs, values, textures, arrays and buffers, and any sizes   *)
(* of the queue and the tables: the shadow is transparent and a viewport   *)
(* that is closed gives back the scissor its opener had; a bind that is    *)
(* skipped was redundant, and part of a texture is uploaded in the format  *)
(* of the whole; a queued draw reads what the game's arrays held; the memo *)
(* answers with the program the patcher would, and none in use is released;*)
(* what the boot screen shows is there, it gives back what it took and     *)
(* stops where the game begins.                                            *)
(*                                                                         *)
(* While calls are queued what the game side knows says nothing of vitaGL, *)
(* but of what vitaGL will be: each invariant ties it to an end the queued *)
(* calls lead vitaGL to, through the states they will pass.                *)
(***************************************************************************)
EXTENDS Graphics, Numbers, SequenceTheorems, FiniteSetTheorems, TLAPS

-----------------------------------------------------------------------------
(* The shadow of the state. *)

Settings == {x \in UNION {[D -> BOOLEAN \cup Vals] : D \in SUBSET Cells} :
               \A c \in DOMAIN x : x[c] \in Values(c)}
CellValues == {x \in [Cells -> BOOLEAN \cup Vals] : \A c \in Cells : x[c] \in Values(c)}
Names == Progs \cup {None}
GL == [cell : CellValues, prog : Names, drawn : Nat, exec : [Progs -> Nat]]
Call == [f : {"set"}, cells : Settings] \cup [f : {"use"}, p : Names]
Scissors == BOOLEAN \X Vals

TypeOK ==
  /\ mix \in Mixes /\ g_glq_on \in BOOLEAN
  /\ vitaGL \in GL /\ plain \in GL /\ pending \in Seq(Call)
  /\ s \in CellValues /\ s_prog \in Names /\ g_cur_prog \in Names
  /\ g_gui_scissor_stack \in Seq(Scissors) /\ g_gui_scissor_bypass_depth \in Nat
  /\ before \in Seq(Scissors)

\* The calls cs take gl to end.
Leads(gl, cs, end) ==
  \E st : /\ st[0] = gl /\ st[Len(cs)] = end
          /\ \A i \in 1 .. Len(cs) : st[i] = Apply(st[i - 1], cs[i])

\* Before the first draw there is no queue; from then on the shadow is what
\* the calls made so far come to.
ShadowAhead ==
  /\ ~g_glq_on => pending = <<>>
  /\ g_glq_on => s = plain.cell /\ s_prog = plain.prog
  /\ Leads(vitaGL, pending, plain)

\* The program the filter remembers is current, and draws what it was linked to.
FilterKnows ==
  g_cur_prog # None => plain.prog = g_cur_prog /\ plain.drawn = plain.exec[g_cur_prog]

Answered ==
  answer # None => answer[2] = IF answer[1] = "prog" THEN plain.prog ELSE plain.cell[answer[1]]

\* The stack is what the first open viewports found; the others are counted.
ScopesKept ==
  /\ Len(g_gui_scissor_stack) =< StackMax
  /\ Len(before) = Len(g_gui_scissor_stack) + g_gui_scissor_bypass_depth
  /\ g_gui_scissor_bypass_depth > 0 => Len(g_gui_scissor_stack) = StackMax
  /\ \A k \in 1 .. Len(g_gui_scissor_stack) : g_gui_scissor_stack[k] = before[k]

GLInv == TypeOK /\ ShadowAhead /\ FilterKnows /\ Answered /\ ScopesKept

-----------------------------------------------------------------------------
(* What a call does.                                                       *)

LEMMA OverTyped ==
  ASSUME NEW x \in CellValues, NEW y \in Settings
  PROVE  Over(x, y) \in CellValues
BY DEF Over, CellValues, Settings

\* Setting cells sets those, and leaves the programs alone.
LEMMA SetCells ==
  ASSUME NEW gl \in GL, NEW x \in Settings
  PROVE  /\ Apply(gl, Set(x)) \in GL
         /\ Apply(gl, Set(x)).cell = Over(gl.cell, x)
         /\ Apply(gl, Set(x)).prog = gl.prog
         /\ Apply(gl, Set(x)).drawn = gl.drawn
         /\ Apply(gl, Set(x)).exec = gl.exec
         /\ Set(x) \in Call
<1>1. Over(gl.cell, x) \in CellValues
  BY OverTyped DEF GL
<1>2. Apply(gl, Set(x)) = [gl EXCEPT !.cell = Over(gl.cell, x)]
  BY DEF Apply, Set
<1> QED BY <1>1, <1>2 DEF GL, Set, Call

\* Making a program current.
LEMMA UseProgram ==
  ASSUME NEW gl \in GL, NEW p \in Names, ConstantsSane
  PROVE  /\ Apply(gl, Use(p)) \in GL
         /\ Apply(gl, Use(p)).cell = gl.cell
         /\ Apply(gl, Use(p)).prog = p
         /\ p # None => Apply(gl, Use(p)).drawn = gl.exec[p]
         /\ Apply(gl, Use(p)).exec = gl.exec
         /\ Use(p) \in Call
<1>1. Apply(gl, Use(p)) = [gl EXCEPT !.prog = p, !.drawn = IF p = None THEN 0 ELSE gl.exec[p]]
  BY DEF Apply, Use
<1>2. (IF p = None THEN 0 ELSE gl.exec[p]) \in Nat
  BY DEF Names, GL
<1> QED BY <1>1, <1>2 DEF GL, Use, Call

\* Linking and deleting leave the cells alone.
LEMMA LinkDelete ==
  ASSUME NEW gl \in GL, NEW p \in Progs, NEW now \in BOOLEAN
  PROVE  /\ Apply(gl, [f |-> "link", p |-> p, now |-> now]) \in GL
         /\ Apply(gl, [f |-> "delete", p |-> p, now |-> now]) \in GL
<1>1. Apply(gl, [f |-> "link", p |-> p, now |-> now]) \in GL
  <2> DEFINE e == [gl.exec EXCEPT ![p] = @ + 1]
           d == IF now /\ gl.prog = p THEN gl.exec[p] + 1 ELSE gl.drawn
  <2>1. e \in [Progs -> Nat] /\ d \in Nat
    BY DEF GL
  <2>2. Apply(gl, [f |-> "link", p |-> p, now |-> now]) = [gl EXCEPT !.exec = e, !.drawn = d]
    BY DEF Apply, GL
  <2> HIDE DEF e, d
  <2> QED BY <2>1, <2>2 DEF GL
<1>2. Apply(gl, [f |-> "delete", p |-> p, now |-> now]) \in GL
  BY DEF Apply, GL, Names
<1> QED BY <1>1, <1>2

-----------------------------------------------------------------------------
(* The queue of calls.                                                     *)

LEMMA LeadsEmpty == \A gl, end : Leads(gl, <<>>, end) <=> gl = end
<1>1. ASSUME NEW gl, NEW end, Leads(gl, <<>>, end) PROVE gl = end
  BY <1>1 DEF Leads
<1>2. ASSUME NEW gl PROVE Leads(gl, <<>>, gl)
  <2> DEFINE st == [i \in {0} |-> gl]
  <2>1. st[0] = gl /\ st[Len(<<>>)] = gl /\ \A i \in 1 .. Len(<<>>) : st[i] = Apply(st[i - 1], <<>>[i])
    OBVIOUS
  <2> QED BY <2>1 DEF Leads
<1> QED BY <1>1, <1>2

LEMMA LeadsAppend ==
  ASSUME NEW gl, NEW end, NEW cs \in Seq(Call), NEW c \in Call, Leads(gl, cs, end)
  PROVE  Leads(gl, Append(cs, c), Apply(end, c))
<1>1. PICK st : /\ st[0] = gl /\ st[Len(cs)] = end
                /\ \A i \in 1 .. Len(cs) : st[i] = Apply(st[i - 1], cs[i])
  BY DEF Leads
<1> DEFINE n == Len(cs)
           up == [i \in 0 .. n + 1 |-> IF i = n + 1 THEN Apply(end, c) ELSE st[i]]
<1>2. n \in Nat /\ Len(Append(cs, c)) = n + 1
  OBVIOUS
<1>3. up[0] = gl /\ up[n + 1] = Apply(end, c) /\ up[n] = end
  BY <1>1, <1>2
<1>4. ASSUME NEW i \in 1 .. n + 1 PROVE up[i] = Apply(up[i - 1], Append(cs, c)[i])
  <2>1. CASE i = n + 1
    BY <1>2, <1>3, <2>1
  <2>2. CASE i # n + 1
    <3>1. i \in 1 .. n /\ i - 1 \in 0 .. n + 1 /\ i - 1 # n + 1
      BY <1>2, <2>2
    <3>2. Append(cs, c)[i] = cs[i]
      BY <3>1
    <3>3. up[i] = st[i] /\ up[i - 1] = st[i - 1]
      BY <3>1, <1>2, <2>2
    <3> QED BY <3>1, <3>2, <3>3, <1>1
  <2> QED BY <2>1, <2>2
<1> HIDE DEF up
<1> QED BY <1>2, <1>3, <1>4 DEF Leads

LEMMA LeadsTail ==
  ASSUME NEW gl, NEW end, NEW cs \in Seq(Call), cs # <<>>, Leads(gl, cs, end)
  PROVE  Leads(Apply(gl, Head(cs)), Tail(cs), end)
<1>1. PICK st : /\ st[0] = gl /\ st[Len(cs)] = end
                /\ \A i \in 1 .. Len(cs) : st[i] = Apply(st[i - 1], cs[i])
  BY DEF Leads
<1> DEFINE n == Len(cs)
           up == [i \in 0 .. n - 1 |-> st[i + 1]]
<1>2. n \in Nat \ {0} /\ Len(Tail(cs)) = n - 1 /\ Head(cs) = cs[1]
  OBVIOUS
<1>3. up[0] = Apply(gl, Head(cs)) /\ up[n - 1] = end
  BY <1>1, <1>2
<1>4. ASSUME NEW i \in 1 .. n - 1 PROVE up[i] = Apply(up[i - 1], Tail(cs)[i])
  <2>1. Tail(cs)[i] = cs[i + 1] /\ i + 1 \in 1 .. n /\ i - 1 \in 0 .. n - 1
    BY <1>2
  <2>2. up[i] = st[i + 1] /\ up[i - 1] = st[i]
    BY <1>2, <2>1
  <2> QED BY <2>1, <2>2, <1>1
<1> HIDE DEF up
<1> QED BY <1>2, <1>3, <1>4 DEF Leads

-----------------------------------------------------------------------------
(* The steps.                                                              *)

LEMMA StartTyped ==
  ASSUME ConstantsSane
  PROVE  Start \in GL
<1>1. (CHOOSE v \in Vals : TRUE) \in Vals
  BY DEF ConstantsSane
<1>2. Start.cell \in CellValues
  BY <1>1 DEF Start, CellValues, Values
<1> QED BY <1>2 DEF Start, GL, Names

LEMMA InitInv ==
  ASSUME ConstantsSane, Init
  PROVE  GLInv
<1> USE DEF Init
<1>1. TypeOK
  <2>1. Start \in GL /\ Start.cell \in CellValues
    BY StartTyped DEF GL
  <2>2. vitaGL \in GL /\ plain \in GL /\ s \in CellValues
    BY <2>1
  <2>3. pending \in Seq(Call) /\ g_gui_scissor_stack \in Seq(Scissors) /\ before \in Seq(Scissors)
    OBVIOUS
  <2>4. s_prog \in Names /\ g_cur_prog \in Names /\ g_gui_scissor_bypass_depth \in Nat
    BY DEF Names
  <2> QED BY <2>2, <2>3, <2>4 DEF TypeOK
<1>2. ShadowAhead
  BY LeadsEmpty DEF ShadowAhead
<1>3. FilterKnows /\ Answered
  BY DEF FilterKnows, Answered
<1>4. ScopesKept
  BY DEF ScopesKept, ConstantsSane
<1> QED BY <1>1, <1>2, <1>3, <1>4 DEF GLInv

\* With no call queued, or no queue at all, vitaGL is what the game made of it.
LEMMA NothingQueued ==
  ASSUME GLInv, pending = <<>> \/ ~g_glq_on
  PROVE  pending = <<>> /\ vitaGL = plain
BY LeadsEmpty DEF GLInv, ShadowAhead

\* What a getter answers from is what the calls made so far come to.
LEMMA ShadowedIsPlain ==
  ASSUME GLInv, NEW c \in Cells
  PROVE  Shadowed(c) = plain.cell[c]
<1>1. CASE g_glq_on
  BY <1>1 DEF GLInv, ShadowAhead, Shadowed
<1>2. CASE ~g_glq_on
  BY <1>2, NothingQueued DEF Shadowed
<1> QED BY <1>1, <1>2

\* A call that is queued, or runs at once without a queue, keeps vitaGL leading to `plain'.
LEMMA QueueLeads ==
  ASSUME GLInv, NEW c \in Call, Q(c), Asked(c), Apply(plain, c) \in GL
  PROVE  /\ pending' \in Seq(Call) /\ vitaGL' \in GL /\ plain' \in GL
         /\ ~g_glq_on => pending' = <<>>
         /\ Leads(vitaGL', pending', plain')
<1>0. plain' = Apply(plain, c) /\ vitaGL \in GL /\ pending \in Seq(Call)
  BY DEF Asked, GLInv, TypeOK
<1>1. CASE g_glq_on
  <2>1. pending' = Append(pending, c) /\ vitaGL' = vitaGL
    BY <1>1 DEF Q
  <2>2. Leads(vitaGL, pending, plain)
    BY DEF GLInv, ShadowAhead
  <2>3. Leads(vitaGL, Append(pending, c), Apply(plain, c))
    BY <1>0, <2>2, LeadsAppend
  <2> QED BY <1>0, <1>1, <2>1, <2>3
<1>2. CASE ~g_glq_on
  <2>1. pending = <<>> /\ vitaGL = plain
    BY <1>2, NothingQueued
  <2>2. vitaGL' = Apply(plain, c) /\ pending' = <<>>
    BY <1>2, <2>1 DEF Q
  <2> QED BY <1>0, <2>2, LeadsEmpty
<1> QED BY <1>1, <1>2

\* The part of the invariant that is about the GUI viewports.
LEMMA ScopesStand ==
  ASSUME GLInv, UNCHANGED scopes
  PROVE  /\ ScopesKept'
         /\ g_gui_scissor_stack' \in Seq(Scissors) /\ g_gui_scissor_bypass_depth' \in Nat
         /\ before' \in Seq(Scissors)
BY DEF GLInv, ScopesKept, TypeOK, scopes

\* Cells set by a wrapper that notes them.
LEMMA SetsStep ==
  ASSUME GLInv, NEW x \in Settings, Sets(x), UNCHANGED <<mix, g_glq_on, programs>>, answer' = None
  PROVE  /\ ShadowAhead' /\ FilterKnows' /\ Answered'
         /\ mix' \in Mixes /\ g_glq_on' \in BOOLEAN
         /\ vitaGL' \in GL /\ plain' \in GL /\ pending' \in Seq(Call)
         /\ s' \in CellValues /\ s_prog' \in Names /\ g_cur_prog' \in Names
<1>1. s' = Over(s, x) /\ Q(Set(x)) /\ Asked(Set(x)) /\ plain' = Apply(plain, Set(x))
  BY DEF Sets, Asked
<1>2. plain \in GL /\ s \in CellValues
  BY DEF GLInv, TypeOK
<1>3. /\ plain' \in GL /\ plain'.cell = Over(plain.cell, x) /\ plain'.prog = plain.prog
      /\ plain'.drawn = plain.drawn /\ plain'.exec = plain.exec /\ Set(x) \in Call
  BY <1>1, <1>2, SetCells
<1>4. /\ pending' \in Seq(Call) /\ vitaGL' \in GL
      /\ ~g_glq_on => pending' = <<>>
      /\ Leads(vitaGL', pending', plain')
  <2>1. Apply(plain, Set(x)) \in GL /\ Set(x) \in Call
    BY <1>2, SetCells
  <2> QED BY <1>1, <2>1, QueueLeads
<1>5. s' \in CellValues
  BY <1>1, <1>2, OverTyped
<1>6. ShadowAhead'
  BY <1>1, <1>3, <1>4 DEF ShadowAhead, GLInv, programs
<1>7. FilterKnows' /\ Answered'
  BY <1>3 DEF FilterKnows, GLInv, programs, Answered
<1> QED BY <1>3, <1>4, <1>5, <1>6, <1>7 DEF GLInv, TypeOK, programs

LEMMA CallTyped ==
  ASSUME NEW gl \in GL, NEW c \in Call, ConstantsSane
  PROVE  Apply(gl, c) \in GL
<1>1. CASE c \in [f : {"set"}, cells : Settings]
  <2>1. c = Set(c.cells) /\ c.cells \in Settings
    BY <1>1 DEF Set
  <2> QED BY <2>1, SetCells
<1>2. CASE c \in [f : {"use"}, p : Names]
  <2>1. c = Use(c.p) /\ c.p \in Names
    BY <1>2 DEF Use
  <2> QED BY <2>1, UseProgram
<1> QED BY <1>1, <1>2 DEF Call

\* What the wrappers set.
LEMMA OneCell ==
  ASSUME NEW cell \in Cells, NEW v \in Values(cell)
  PROVE  [c \in {cell} |-> v] \in Settings
<1>1. v \in BOOLEAN \cup Vals
  BY DEF Values
<1>2. [c \in {cell} |-> v] \in [{cell} -> BOOLEAN \cup Vals] /\ {cell} \in SUBSET Cells
  BY <1>1
<1> QED BY <1>2 DEF Settings

LEMMA BoxSettings ==
  ASSUME NEW v \in Vals
  PROVE  /\ Gui(v) \in Settings /\ [viewport |-> v] \in Settings
         /\ \A st \in Scissors : Restored(v, st) \in Settings
<1> DEFINE Three == {"viewport", "scissor_box", "scissor"}
<1>1. Three \in SUBSET Cells /\ {"viewport"} \in SUBSET Cells
  BY DEF Cells, Boxes, Caps
<1>2. Values("viewport") = Vals /\ Values("scissor_box") = Vals /\ Values("scissor") = BOOLEAN
  BY DEF Values, Caps
<1>3. Gui(v) = Restored(v, <<TRUE, v>>) /\ <<TRUE, v>> \in Scissors
  BY DEF Gui, Restored, Scissors
<1>4. [viewport |-> v] \in [{"viewport"} -> BOOLEAN \cup Vals]
  OBVIOUS
<1>5. ASSUME NEW st \in Scissors PROVE Restored(v, st) \in [Three -> BOOLEAN \cup Vals]
  BY DEF Restored, Scissors
<1>7. [viewport |-> v] \in Settings
  BY <1>1, <1>2, <1>4 DEF Settings
<1>8. ASSUME NEW st \in Scissors PROVE Restored(v, st) \in Settings
  <2>1. st[1] \in BOOLEAN /\ st[2] \in Vals
    BY DEF Scissors
  <2> QED BY <1>1, <1>2, <1>5, <2>1 DEF Settings, Restored
<1> QED BY <1>3, <1>7, <1>8

\* What a GUI viewport saves is what its opener found.
LEMMA SavedIsFound ==
  ASSUME GLInv
  PROVE  Save = Found(plain) /\ Save \in Scissors
<1>1. {"scissor", "scissor_box"} \subseteq Cells
  BY DEF Cells, Boxes, Caps
<1>2. Save = Found(plain)
  BY <1>1, ShadowedIsPlain DEF Save, Found
<1>3. plain.cell \in CellValues
  BY DEF GLInv, TypeOK, GL
<1>4. plain.cell["scissor"] \in BOOLEAN /\ plain.cell["scissor_box"] \in Vals
  BY <1>1, <1>3 DEF CellValues, Values, Caps
<1> QED BY <1>2, <1>4 DEF Found, Scissors

\* An RPC runs on what the game made of vitaGL, and the shadow is read again.
LEMMA RpcStep ==
  ASSUME GLInv, ConstantsSane, NEW c, Apply(vitaGL, c) \in GL, Rpc(c), Asked(c),
         g_cur_prog' = None, answer' = None, UNCHANGED <<mix, g_glq_on, scopes>>
  PROVE  GLInv'
<1>1. pending = <<>> /\ vitaGL = plain
  BY NothingQueued DEF Rpc
<1>2. vitaGL' = Apply(vitaGL, c) /\ plain' = vitaGL' /\ pending' = <<>>
  BY <1>1 DEF Rpc, Asked
<1>3. g_glq_on => s' = vitaGL'.cell /\ s_prog' = vitaGL'.prog
  BY <1>2 DEF Rpc, glq_reseed
<1>4. ~g_glq_on => UNCHANGED <<s, s_prog>>
  BY DEF Rpc
<1>5. vitaGL' \in GL /\ vitaGL'.cell \in CellValues /\ vitaGL'.prog \in Names
  BY <1>2 DEF GL
<1>6. s' \in CellValues /\ s_prog' \in Names
  BY <1>3, <1>4, <1>5 DEF GLInv, TypeOK
<1>7. TypeOK'
  BY <1>2, <1>5, <1>6, ScopesStand DEF GLInv, TypeOK, Names
<1>8. ShadowAhead'
  BY <1>2, <1>3, LeadsEmpty DEF ShadowAhead
<1> QED BY <1>7, <1>8, ScopesStand DEF GLInv, FilterKnows, Answered

\* A viewport that is opened is noted, on the stack or as one past its end.
LEMMA SetupScopes ==
  ASSUME GLInv, ConstantsSane, AurGUISetupViewport_scissor
  PROVE  /\ ScopesKept'
         /\ g_gui_scissor_stack' \in Seq(Scissors) /\ g_gui_scissor_bypass_depth' \in Nat
         /\ before' \in Seq(Scissors)
<1> DEFINE bypassed == Len(g_gui_scissor_stack) >= StackMax
<1>1. PICK rc \in BOOLEAN :
        /\ g_gui_scissor_bypass_depth' = g_gui_scissor_bypass_depth + (IF bypassed /\ rc THEN 1 ELSE 0)
        /\ g_gui_scissor_stack' = IF rc /\ ~bypassed THEN Append(g_gui_scissor_stack, Save)
                                  ELSE g_gui_scissor_stack
        /\ before' = IF rc THEN Append(before, Found(plain)) ELSE before
  BY DEF AurGUISetupViewport_scissor
<1>2. /\ g_gui_scissor_stack \in Seq(Scissors) /\ g_gui_scissor_bypass_depth \in Nat
      /\ before \in Seq(Scissors) /\ StackMax \in Nat
  BY DEF GLInv, TypeOK, ConstantsSane
<1>3. Save = Found(plain) /\ Save \in Scissors
  BY SavedIsFound
<1>4. ScopesKept
  BY DEF GLInv
<1>5. CASE ~rc
  BY <1>1, <1>2, <1>4, <1>5 DEF ScopesKept
<1>6. CASE rc /\ bypassed
  <2>1. /\ g_gui_scissor_bypass_depth' = g_gui_scissor_bypass_depth + 1
        /\ g_gui_scissor_stack' = g_gui_scissor_stack /\ before' = Append(before, Found(plain))
    BY <1>1, <1>6
  <2>2. Len(before') = Len(before) + 1 /\ \A k \in 1 .. Len(before) : before'[k] = before[k]
    BY <1>2, <2>1
  <2> QED BY <1>2, <1>3, <1>4, <1>6, <2>1, <2>2 DEF ScopesKept
<1>7. CASE rc /\ ~bypassed
  <2>1. /\ g_gui_scissor_bypass_depth' = g_gui_scissor_bypass_depth
        /\ g_gui_scissor_stack' = Append(g_gui_scissor_stack, Save) /\ before' = Append(before, Save)
    BY <1>1, <1>2, <1>3, <1>7
  <2>2. g_gui_scissor_bypass_depth = 0 /\ Len(before) = Len(g_gui_scissor_stack)
    BY <1>2, <1>4, <1>7 DEF ScopesKept
  <2>3. /\ Len(g_gui_scissor_stack') = Len(g_gui_scissor_stack) + 1
        /\ Len(before') = Len(before) + 1
        /\ \A k \in 1 .. Len(before) + 1 : g_gui_scissor_stack'[k] = before'[k]
    BY <1>2, <1>4, <2>1, <2>2 DEF ScopesKept
  <2> QED BY <1>2, <1>3, <1>7, <2>1, <2>2, <2>3 DEF ScopesKept
<1> QED BY <1>5, <1>6, <1>7

LEMMA FrontFacts ==
  ASSUME NEW q \in Seq(Scissors), q # <<>>
  PROVE  /\ SubSeq(q, 1, Len(q) - 1) \in Seq(Scissors) /\ Len(SubSeq(q, 1, Len(q) - 1)) = Len(q) - 1
         /\ \A k \in 1 .. Len(q) - 1 : SubSeq(q, 1, Len(q) - 1)[k] = q[k]
<1>1. Len(q) \in Nat \ {0}
  OBVIOUS
<1> DEFINE n == Len(q) - 1
<1>2. /\ SubSeq(q, 1, n) \in Seq(Scissors)
      /\ Len(SubSeq(q, 1, n)) = IF 1 =< n THEN n - 1 + 1 ELSE 0
      /\ \A k \in 1 .. n - 1 + 1 : SubSeq(q, 1, n)[k] = q[1 + k - 1]
  BY <1>1, SubSeqProperties
<1>3. n \in Nat /\ n - 1 + 1 = n /\ \A k \in 1 .. n : 1 + k - 1 = k
  BY <1>1
<1>4. Len(SubSeq(q, 1, n)) = n
  BY <1>2, <1>3
<1>5. \A k \in 1 .. n : SubSeq(q, 1, n)[k] = q[k]
  BY <1>2, <1>3
<1> QED BY <1>2, <1>4, <1>5

\* A viewport that is closed was the last one opened.
LEMMA CloseScopes ==
  ASSUME GLInv, ConstantsSane, AurGUICloseViewport_scissor
  PROVE  /\ ScopesKept'
         /\ g_gui_scissor_stack' \in Seq(Scissors) /\ g_gui_scissor_bypass_depth' \in Nat
         /\ before' \in Seq(Scissors)
         /\ g_gui_scissor_bypass_depth = 0 =>
              /\ g_gui_scissor_stack # <<>>
              /\ Last(g_gui_scissor_stack) = Last(before) /\ Last(g_gui_scissor_stack) \in Scissors
<1> DEFINE n == Len(g_gui_scissor_stack)
           m == Len(before)
<1>1. /\ before # <<>> /\ before' = SubSeq(before, 1, m - 1)
      /\ g_gui_scissor_stack' = IF g_gui_scissor_bypass_depth > 0 THEN g_gui_scissor_stack
                                ELSE SubSeq(g_gui_scissor_stack, 1, n - 1)
      /\ g_gui_scissor_bypass_depth' =
           g_gui_scissor_bypass_depth - (IF g_gui_scissor_bypass_depth > 0 THEN 1 ELSE 0)
  BY DEF AurGUICloseViewport_scissor, Front
<1>2. /\ g_gui_scissor_stack \in Seq(Scissors) /\ g_gui_scissor_bypass_depth \in Nat
      /\ before \in Seq(Scissors) /\ StackMax \in Nat
  BY DEF GLInv, TypeOK, ConstantsSane
<1>3. ScopesKept
  BY DEF GLInv
<1>4. m \in Nat \ {0} /\ n \in Nat
  BY <1>1, <1>2
<1>5. /\ before' \in Seq(Scissors) /\ Len(before') = m - 1
      /\ \A k \in 1 .. m - 1 : before'[k] = before[k]
  BY <1>1, <1>2, FrontFacts
<1>6. CASE g_gui_scissor_bypass_depth > 0
  <2>1. g_gui_scissor_stack' = g_gui_scissor_stack
        /\ g_gui_scissor_bypass_depth' = g_gui_scissor_bypass_depth - 1
    BY <1>1, <1>6
  <2> QED BY <1>2, <1>3, <1>4, <1>5, <1>6, <2>1 DEF ScopesKept
<1>7. CASE g_gui_scissor_bypass_depth = 0
  <2>1. g_gui_scissor_stack' = SubSeq(g_gui_scissor_stack, 1, n - 1) /\ g_gui_scissor_bypass_depth' = 0
    BY <1>1, <1>2, <1>7
  <2>2. n = m /\ n \in 1 .. n
    BY <1>2, <1>3, <1>4, <1>7 DEF ScopesKept
  <2>3. /\ g_gui_scissor_stack' \in Seq(Scissors) /\ Len(g_gui_scissor_stack') = n - 1
        /\ \A k \in 1 .. n - 1 : g_gui_scissor_stack'[k] = g_gui_scissor_stack[k]
    BY <1>2, <1>4, <2>1, <2>2, FrontFacts
  <2>4. g_gui_scissor_stack[n] = before[m] /\ g_gui_scissor_stack[n] \in Scissors
    BY <1>2, <1>3, <2>2 DEF ScopesKept
  <2>5. ScopesKept'
    BY <1>2, <1>3, <1>4, <1>5, <2>1, <2>2, <2>3 DEF ScopesKept
  <2>6. g_gui_scissor_stack # <<>>
    BY <2>2, <1>4
  <2> QED BY <1>5, <2>1, <2>3, <2>4, <2>5, <2>6 DEF Last
<1> QED BY <1>2, <1>6, <1>7

LEMMA ViewportStep ==
  ASSUME GLInv, ConstantsSane, AurGUISetupViewport_scissor \/ AurGUICloseViewport_scissor
  PROVE  GLInv'
<1>1. /\ UNCHANGED <<mix, g_glq_on, programs>> /\ answer' = None
      /\ \E x \in Settings : Sets(x)
  <2>1. CASE AurGUISetupViewport_scissor
    <3>1. PICK v \in Vals, rc \in BOOLEAN :
            Sets(IF Len(g_gui_scissor_stack) >= StackMax \/ rc THEN Gui(v) ELSE Restored(v, Save))
      BY <2>1 DEF AurGUISetupViewport_scissor
    <3> QED BY <2>1, <3>1, BoxSettings, SavedIsFound DEF AurGUISetupViewport_scissor
  <2>2. CASE AurGUICloseViewport_scissor
    <3>1. PICK v \in Vals :
            Sets(IF g_gui_scissor_bypass_depth > 0 THEN Gui(v) ELSE Restored(v, Last(g_gui_scissor_stack)))
      BY <2>2 DEF AurGUICloseViewport_scissor
    <3>2. CASE g_gui_scissor_bypass_depth > 0
      BY <2>2, <3>1, <3>2, BoxSettings DEF AurGUICloseViewport_scissor
    <3>3. CASE ~(g_gui_scissor_bypass_depth > 0)
      <4>1. g_gui_scissor_bypass_depth = 0
        BY <3>3 DEF GLInv, TypeOK
      <4>2. Restored(v, Last(g_gui_scissor_stack)) \in Settings
        BY <2>2, <4>1, CloseScopes, BoxSettings
      <4> QED BY <2>2, <3>1, <3>3, <4>2 DEF AurGUICloseViewport_scissor
    <3> QED BY <3>2, <3>3
  <2> QED BY <2>1, <2>2
<1>2. /\ ScopesKept'
      /\ g_gui_scissor_stack' \in Seq(Scissors) /\ g_gui_scissor_bypass_depth' \in Nat
      /\ before' \in Seq(Scissors)
  BY SetupScopes, CloseScopes
<1> QED BY <1>1, <1>2, SetsStep DEF GLInv, TypeOK

LEMMA ProgramStep ==
  ASSUME GLInv, ConstantsSane, glUseProgram_e
  PROVE  GLInv'
<1>1. PICK p \in Names :
        /\ s_prog' = p /\ g_cur_prog' = p
        /\ IF p # None /\ p = g_cur_prog THEN UNCHANGED <<vitaGL, pending>> ELSE Q(Use(p))
        /\ Asked(Use(p)) /\ answer' = None
        /\ UNCHANGED <<mix, g_glq_on, s, scopes>>
  BY DEF glUseProgram_e, Names
<1>2. plain \in GL /\ plain' = Apply(plain, Use(p))
  BY <1>1 DEF GLInv, TypeOK, Asked
<1>3. /\ plain' \in GL /\ plain'.cell = plain.cell /\ plain'.prog = p
      /\ p # None => plain'.drawn = plain.exec[p]
      /\ plain'.exec = plain.exec /\ Use(p) \in Call
  BY <1>2, UseProgram
<1>4. /\ pending' \in Seq(Call) /\ vitaGL' \in GL
      /\ ~g_glq_on => pending' = <<>>
      /\ Leads(vitaGL', pending', plain')
  <2>1. CASE p # None /\ p = g_cur_prog
    <3>1. plain.prog = p /\ plain.drawn = plain.exec[p]
      BY <2>1 DEF GLInv, FilterKnows
    <3>2. plain' = [plain EXCEPT !.prog = p, !.drawn = plain.exec[p]]
      BY <1>2, <2>1 DEF Apply, Use
    <3>3. plain' = plain
      BY <1>2, <3>1, <3>2 DEF GL
    <3>4. UNCHANGED <<vitaGL, pending>>
      BY <1>1, <2>1
    <3> QED BY <3>3, <3>4 DEF GLInv, TypeOK, ShadowAhead
  <2>2. CASE ~(p # None /\ p = g_cur_prog)
    <3>1. Q(Use(p))
      BY <1>1, <2>2
    <3> QED BY <1>1, <1>2, <1>3, <3>1, QueueLeads
  <2> QED BY <2>1, <2>2
<1>5. TypeOK'
  BY <1>1, <1>3, <1>4, ScopesStand DEF GLInv, TypeOK
<1>6. ShadowAhead'
  BY <1>1, <1>3, <1>4 DEF GLInv, ShadowAhead
<1>7. FilterKnows'
  BY <1>1, <1>3 DEF FilterKnows
<1> QED BY <1>1, <1>5, <1>6, <1>7, ScopesStand DEF GLInv, Answered

LEMMA RenderStep ==
  ASSUME GLInv, ConstantsSane, Render
  PROVE  GLInv'
<1>1. /\ pending # <<>> /\ vitaGL' = Apply(vitaGL, Head(pending)) /\ pending' = Tail(pending)
      /\ answer' = None /\ UNCHANGED <<mix, g_glq_on, s, programs, plain, scopes>>
  BY DEF Render
<1>2. pending \in Seq(Call) /\ Head(pending) \in Call /\ Tail(pending) \in Seq(Call) /\ vitaGL \in GL
  BY <1>1 DEF GLInv, TypeOK
<1>3. vitaGL' \in GL
  BY <1>1, <1>2, CallTyped
<1>4. Leads(vitaGL', pending', plain')
  BY <1>1, <1>2, LeadsTail DEF GLInv, ShadowAhead
<1>5. TypeOK'
  BY <1>1, <1>2, <1>3, ScopesStand DEF GLInv, TypeOK, programs
<1>6. ShadowAhead'
  BY <1>1, <1>4 DEF GLInv, ShadowAhead, programs
<1>7. FilterKnows' /\ Answered'
  BY <1>1 DEF GLInv, FilterKnows, Answered, programs
<1> QED BY <1>1, <1>5, <1>6, <1>7, ScopesStand DEF GLInv

\* The shadow read again with nothing queued.
LEMMA ReseedStep ==
  ASSUME GLInv, glq_begin \/ glq_miss
  PROVE  GLInv'
<1>1. pending = <<>> /\ vitaGL = plain
  BY NothingQueued DEF glq_begin, glq_miss
<1>2. /\ s' = vitaGL.cell /\ s_prog' = vitaGL.prog /\ answer' = None
      /\ UNCHANGED <<mix, vitaGL, pending, g_cur_prog, plain, scopes>> /\ g_glq_on' \in BOOLEAN
  BY DEF glq_begin, glq_miss, glq_reseed, GLInv, TypeOK
<1>3. s' \in CellValues /\ s_prog' \in Names
  BY <1>2 DEF GLInv, TypeOK, GL
<1>4. TypeOK'
  BY <1>2, <1>3, ScopesStand DEF GLInv, TypeOK
<1>5. ShadowAhead'
  BY <1>1, <1>2, LeadsEmpty DEF ShadowAhead
<1> QED BY <1>2, <1>4, <1>5, ScopesStand DEF GLInv, FilterKnows, Answered

LEMMA GetterStep ==
  ASSUME GLInv, glGetIntegerv_t
  PROVE  GLInv'
<1>1. UNCHANGED <<mix, g_glq_on, vitaGL, pending, s, programs, plain, scopes>>
  BY DEF glGetIntegerv_t
<1>2. Answered'
  <2>1. CASE answer' = <<"prog", IF g_glq_on THEN s_prog ELSE vitaGL.prog>>
    BY <1>1, <2>1, NothingQueued DEF Answered, GLInv, ShadowAhead
  <2>2. CASE \E cell \in Cells : answer' = <<cell, Shadowed(cell)>>
    <3>1. "prog" \notin Cells
      BY DEF Cells, Boxes, Caps, Words
    <3> QED BY <1>1, <2>2, <3>1, ShadowedIsPlain DEF Answered
  <2> QED BY <2>1, <2>2 DEF glGetIntegerv_t
<1>3. TypeOK'
  BY <1>1, ScopesStand DEF GLInv, TypeOK, programs
<1>4. ShadowAhead' /\ FilterKnows'
  BY <1>1 DEF GLInv, ShadowAhead, FilterKnows, programs
<1> QED BY <1>1, <1>2, <1>3, <1>4, ScopesStand DEF GLInv

\* A wrapper that sets cells and opens or closes no viewport.
LEMMA CellStep ==
  ASSUME GLInv, NEW x \in Settings, Sets(x), UNCHANGED <<mix, g_glq_on, programs, scopes>>,
         answer' = None
  PROVE  GLInv'
BY SetsStep, ScopesStand DEF GLInv, TypeOK

LEMMA NextStep ==
  ASSUME GLInv, ConstantsSane, Next
  PROVE  GLInv'
<1>1. CASE glq_begin \/ glq_miss
  BY <1>1, ReseedStep
<1>2. CASE Render
  BY <1>2, RenderStep
<1>3. ASSUME NEW cells \in SUBSET Cells, Set_q(cells) PROVE GLInv'
  <2>0. PICK cell \in cells : \E v \in Values(cell) :
          /\ Sets([c \in {cell} |-> v]) /\ answer' = None
          /\ UNCHANGED <<mix, g_glq_on, programs, scopes>>
    BY <1>3 DEF Set_q
  <2>1. PICK v \in Values(cell) :
          /\ Sets([c \in {cell} |-> v]) /\ answer' = None
          /\ UNCHANGED <<mix, g_glq_on, programs, scopes>>
    BY <2>0
  <2>2. [c \in {cell} |-> v] \in Settings
    BY OneCell
  <2> QED BY <2>1, <2>2, CellStep
<1>4. CASE \/ glClearColor_q \/ glBlendFunc_e \/ glEnable_e
           \/ glBindFramebuffer_e \/ glBindBuffer_e \/ glScissor_e
  <2>1. \A cells \in {{"clear"}, {"blend_func"}, Caps, {"fb"}, {"arraybuf", "elembuf"}, {"scissor_box"}} :
          cells \in SUBSET Cells
    BY DEF Cells, Boxes, Caps, Words
  <2> QED BY <1>3, <1>4, <2>1
         DEF glClearColor_q, glBlendFunc_e, glEnable_e, glBindFramebuffer_e, glBindBuffer_e, glScissor_e
<1>5. CASE glViewport_t
  <2>1. PICK v \in Vals :
          /\ Sets(IF Clipping THEN Gui(v) ELSE [viewport |-> v]) /\ answer' = None
          /\ UNCHANGED <<mix, g_glq_on, programs, scopes>>
    BY <1>5 DEF glViewport_t
  <2>2. (IF Clipping THEN Gui(v) ELSE [viewport |-> v]) \in Settings
    BY BoxSettings
  <2> QED BY <2>1, <2>2, CellStep
<1>6. CASE glUseProgram_e
  BY <1>6, ProgramStep
<1>7. CASE glLinkProgram_t \/ glDeleteProgram_e
  <2>1. PICK p \in Progs, now \in BOOLEAN, f \in {"link", "delete"} :
          /\ Rpc([f |-> f, p |-> p, now |-> now]) /\ Asked([f |-> f, p |-> p, now |-> now])
          /\ g_cur_prog' = None /\ answer' = None /\ UNCHANGED <<mix, g_glq_on, scopes>>
    BY <1>7 DEF glLinkProgram_t, glDeleteProgram_e, LinkedOrDeleted
  <2>2. Apply(vitaGL, [f |-> f, p |-> p, now |-> now]) \in GL
    BY LinkDelete DEF GLInv, TypeOK
  <2> QED BY <2>1, <2>2, RpcStep
<1>8. CASE glGetIntegerv_t
  BY <1>8, GetterStep
<1>9. CASE AurGUISetupViewport_scissor \/ AurGUICloseViewport_scissor
  BY <1>9, ViewportStep
<1> QED BY <1>1, <1>2, <1>4, <1>5, <1>6, <1>7, <1>8, <1>9 DEF Next

LEMMA StutterStep ==
  ASSUME GLInv, UNCHANGED vars
  PROVE  GLInv'
BY DEF GLInv, TypeOK, ShadowAhead, FilterKnows, Answered, ScopesKept, vars

-----------------------------------------------------------------------------
(* The theorems. *)

\* The inductive invariant holds in every reachable state.
THEOREM GLStateInvariant ==
  ASSUME ConstantsSane
  PROVE  Spec => []GLInv
<1>1. Init => GLInv
  BY InitInv
<1>2. GLInv /\ [Next]_vars => GLInv'
  BY NextStep, StutterStep
<1> QED BY <1>1, <1>2, PTL DEF Spec

\* Once what is queued has run, vitaGL holds what every call made at once and unfiltered
\* would have left, and no getter answers anything else (gl_patch.c:113-118, 1535-1536).
THEOREM ShadowIsTransparent ==
  ASSUME ConstantsSane
  PROVE  Spec => []ShadowTransparent
<1>1. GLInv => ShadowTransparent
  BY LeadsEmpty DEF GLInv, ShadowAhead, Answered, ShadowTransparent
<1> QED BY <1>1, GLStateInvariant, PTL

\* Closing a GUI viewport, or failing to open one, leaves the scissor its opener had, for a
\* stack of any size and viewports nested to any depth (main.c:675-746).
THEOREM ViewportsRestore ==
  ASSUME ConstantsSane
  PROVE  Spec => ScopesRestore
<1> DEFINE A == /\ Len(g_gui_scissor_stack') < Len(g_gui_scissor_stack) => Found(plain') = Last(before)
                /\ Found(plain') # Found(plain) /\ scopes' = scopes /\ Len(before) < StackMax
                     => ~AurGUISetupViewport_scissor
<1>1. ASSUME GLInv, [Next]_vars PROVE A
  <2>1. ASSUME NEW v \in Vals, NEW st \in Scissors, Sets(Restored(v, st)) PROVE Found(plain') = st
    <3>1. plain'.cell = Over(plain.cell, Restored(v, st))
      BY <1>1, <2>1, BoxSettings, SetCells DEF Sets, Asked, GLInv, TypeOK
    <3>2. plain'.cell["scissor"] = st[1] /\ plain'.cell["scissor_box"] = st[2]
      BY <3>1 DEF Over, Restored, Cells, Boxes, Caps
    <3> QED BY <3>2 DEF Found, Scissors
  <2>2. ASSUME AurGUICloseViewport_scissor, Len(g_gui_scissor_stack') < Len(g_gui_scissor_stack)
        PROVE  Found(plain') = Last(before)
    <3>1. PICK v \in Vals :
            /\ Sets(IF g_gui_scissor_bypass_depth > 0 THEN Gui(v) ELSE Restored(v, Last(g_gui_scissor_stack)))
            /\ g_gui_scissor_stack' = IF g_gui_scissor_bypass_depth > 0 THEN g_gui_scissor_stack
                                      ELSE Front(g_gui_scissor_stack)
      BY <2>2 DEF AurGUICloseViewport_scissor
    <3>2. g_gui_scissor_bypass_depth = 0 /\ ~(g_gui_scissor_bypass_depth > 0)
      BY <1>1, <2>2, <3>1 DEF GLInv, TypeOK
    <3>3. Last(g_gui_scissor_stack) = Last(before) /\ Last(g_gui_scissor_stack) \in Scissors
      BY <1>1, <2>2, <3>2, CloseScopes
    <3> QED BY <2>1, <3>1, <3>2, <3>3
  <2>3. ASSUME AurGUISetupViewport_scissor
        PROVE  Len(g_gui_scissor_stack') >= Len(g_gui_scissor_stack)
    BY <1>1, <2>3 DEF AurGUISetupViewport_scissor, GLInv, TypeOK
  <2>4. ASSUME AurGUISetupViewport_scissor, scopes' = scopes, Len(before) < StackMax
        PROVE  Found(plain') = Found(plain)
    <3>1. PICK v \in Vals, rc \in BOOLEAN :
            /\ Sets(IF Len(g_gui_scissor_stack) >= StackMax \/ rc THEN Gui(v) ELSE Restored(v, Save))
            /\ before' = IF rc THEN Append(before, Found(plain)) ELSE before
      BY <2>4 DEF AurGUISetupViewport_scissor
    <3>2. ~rc
      <4>1. before' = before /\ Len(Append(before, Found(plain))) # Len(before)
        BY <1>1, <2>4 DEF scopes, GLInv, TypeOK
      <4> QED BY <3>1, <4>1
    <3>3. ~(Len(g_gui_scissor_stack) >= StackMax)
      BY <1>1, <2>4 DEF GLInv, TypeOK, ScopesKept, ConstantsSane
    <3> QED BY <1>1, <2>1, <3>1, <3>2, <3>3, SavedIsFound
  <2>5. \/ UNCHANGED scopes \/ AurGUISetupViewport_scissor \/ AurGUICloseViewport_scissor
    BY <1>1 DEF Next, vars, scopes, glq_begin, Render, glClearColor_q, glBlendFunc_e, glEnable_e,
         glBindFramebuffer_e, glBindBuffer_e, glScissor_e, Set_q, glViewport_t, glUseProgram_e,
         glLinkProgram_t, glDeleteProgram_e, glGetIntegerv_t, glq_miss
  <2>6. UNCHANGED scopes => g_gui_scissor_stack' = g_gui_scissor_stack
    BY DEF scopes
  <2>7. Len(g_gui_scissor_stack) \in Nat
    BY <1>1 DEF GLInv, TypeOK
  <2>8. Len(g_gui_scissor_stack') < Len(g_gui_scissor_stack) => AurGUICloseViewport_scissor
    <3>1. CASE UNCHANGED scopes
      BY <3>1, <2>6, <2>7
    <3>2. CASE AurGUISetupViewport_scissor
      <4>1. Len(g_gui_scissor_stack') \in Nat
        BY <1>1, <3>2, SetupScopes
      <4> QED BY <2>3, <2>7, <3>2, <4>1
    <3> QED BY <2>5, <3>1, <3>2
  <2> QED BY <2>2, <2>4, <2>8
<1>2. GLInv /\ [Next]_vars => [A]_vars
  BY <1>1
<1> QED BY <1>2, GLStateInvariant, PTL DEF Spec, ScopesRestore

\* The shadow's part of the composition behaves as GLState does alone.
LEMMA ShadowAlone == GraphicsSpec => Spec
<1>1. GraphicsInit => Init
  BY DEF GraphicsInit
<1>2. [GraphicsNext]_all => [Next]_vars
  BY DEF GraphicsNext, States, Texes, Draws, Programs, Boots, all
<1> QED BY <1>1, <1>2, PTL DEF GraphicsSpec, Spec

\* So both hold of the composition too: what the game reads back and what vitaGL ends up as
\* are true, and closed viewports restore (gl_patch.c:113-118, 1535-1536, main.c:675-746).
THEOREM ShadowInGraphics == GraphicsSpec => []ShadowTransparent /\ ScopesRestore
<1>1. Spec => []ShadowTransparent
  BY GraphicsAssumption, ShadowIsTransparent
<1>2. Spec => ScopesRestore
  BY GraphicsAssumption, ViewportsRestore
<1> QED BY <1>1, <1>2, ShadowAlone, PTL

-----------------------------------------------------------------------------
(* A queue of commands. <<x, c, y>> is in F when command c takes x to y.   *)

\* The commands cs take x to `end'.
Run(F, st, cs) == \A i \in 1 .. Len(cs) : <<st[i - 1], cs[i], st[i]>> \in F
Takes(F, x, cs, end) == \E st : st[0] = x /\ st[Len(cs)] = end /\ Run(F, st, cs)

LEMMA TakesNone == \A F, x, end : Takes(F, x, <<>>, end) <=> x = end
<1>1. ASSUME NEW F, NEW x, NEW end, Takes(F, x, <<>>, end) PROVE x = end
  BY <1>1 DEF Takes
<1>2. ASSUME NEW F, NEW x PROVE Takes(F, x, <<>>, x)
  <2> DEFINE st == [i \in {0} |-> x]
  <2>1. st[0] = x /\ st[Len(<<>>)] = x /\ Run(F, st, <<>>)
    BY DEF Run
  <2> QED BY <2>1 DEF Takes
<1> QED BY <1>1, <1>2

\* Commands after commands.
LEMMA TakesMore ==
  ASSUME NEW F, NEW x, NEW y, NEW z, NEW C, NEW cs \in Seq(C), NEW ds \in Seq(C),
         Takes(F, x, cs, y), Takes(F, y, ds, z)
  PROVE  Takes(F, x, cs \o ds, z)
<1>1. PICK st : st[0] = x /\ st[Len(cs)] = y /\ Run(F, st, cs)
  BY DEF Takes
<1>2. PICK su : su[0] = y /\ su[Len(ds)] = z /\ Run(F, su, ds)
  BY DEF Takes
<1> DEFINE n == Len(cs)
           m == Len(ds)
           up == [i \in 0 .. n + m |-> IF i > n THEN su[i - n] ELSE st[i]]
<1>3. n \in Nat /\ m \in Nat /\ Len(cs \o ds) = n + m
  OBVIOUS
<1>4. up[0] = x /\ up[n + m] = z
  BY <1>1, <1>2, <1>3
<1>5. ASSUME NEW i \in 1 .. n + m PROVE <<up[i - 1], (cs \o ds)[i], up[i]>> \in F
  <2>1. CASE i =< n
    <3>1. i \in 1 .. n /\ (cs \o ds)[i] = cs[i]
      BY <1>3, <2>1
    <3>2. up[i] = st[i] /\ up[i - 1] = st[i - 1]
      BY <1>3, <3>1
    <3>3. <<st[i - 1], cs[i], st[i]>> \in F
      BY <1>1, <3>1 DEF Run
    <3> HIDE DEF up
    <3> QED BY <3>1, <3>2, <3>3
  <2>2. CASE i > n
    <3>1. PICK j \in 1 .. m : i = n + j
      <4>1. i - n \in 1 .. m /\ i = n + (i - n)
        BY <1>3, <2>2
      <4> QED BY <4>1
    <3>2. (cs \o ds)[i] = ds[j] /\ i - n = j /\ (i - 1) - n = j - 1
      BY <1>3, <2>2, <3>1
    <3>3. up[i] = su[j]
      BY <1>3, <2>2, <3>2
    <3>4. up[i - 1] = su[j - 1]
      <4>1. CASE j = 1
        BY <1>1, <1>2, <1>3, <3>1, <4>1
      <4>2. CASE j # 1
        BY <1>3, <3>1, <3>2, <4>2
      <4> QED BY <4>1, <4>2
    <3>5. <<su[j - 1], ds[j], su[j]>> \in F
      BY <1>2, <3>1 DEF Run
    <3> HIDE DEF up
    <3> QED BY <3>2, <3>3, <3>4, <3>5
  <2>3. i =< n \/ i > n
    BY <1>3
  <2> HIDE DEF up
  <2> QED BY <2>1, <2>2, <2>3
<1> HIDE DEF up
<1> QED BY <1>3, <1>4, <1>5 DEF Takes, Run

LEMMA TakesOne ==
  ASSUME NEW F, NEW x, NEW c, NEW y, <<x, c, y>> \in F
  PROVE  Takes(F, x, <<c>>, y)
<1> DEFINE st == [i \in 0 .. 1 |-> IF i = 0 THEN x ELSE y]
<1>1. st[0] = x /\ st[Len(<<c>>)] = y
  OBVIOUS
<1>2. Run(F, st, <<c>>)
  BY DEF Run
<1> QED BY <1>1, <1>2 DEF Takes

LEMMA TakesAppend ==
  ASSUME NEW F, NEW x, NEW y, NEW z, NEW C, NEW cs \in Seq(C), NEW c \in C,
         Takes(F, x, cs, y), <<y, c, z>> \in F
  PROVE  Takes(F, x, Append(cs, c), z)
<1>1. Append(cs, c) = cs \o <<c>> /\ <<c>> \in Seq(C)
  OBVIOUS
<1>2. Takes(F, y, <<c>>, z)
  BY TakesOne
<1> QED BY <1>1, <1>2, TakesMore

LEMMA TakesRest ==
  ASSUME NEW F, NEW x, NEW end, NEW C, NEW cs \in Seq(C), cs # <<>>, Takes(F, x, cs, end)
  PROVE  \E y : <<x, Head(cs), y>> \in F /\ Takes(F, y, Tail(cs), end)
<1>1. PICK st : st[0] = x /\ st[Len(cs)] = end /\ Run(F, st, cs)
  BY DEF Takes
<1> DEFINE n == Len(cs)
           up == [i \in 0 .. n - 1 |-> st[i + 1]]
<1>2. n \in Nat \ {0} /\ Len(Tail(cs)) = n - 1 /\ Head(cs) = cs[1]
  OBVIOUS
<1>3. <<x, Head(cs), up[0]>> \in F /\ up[n - 1] = end
  <2>1. <<st[1 - 1], cs[1], st[1]>> \in F
    BY <1>1, <1>2 DEF Run
  <2>2. up[0] = st[1] /\ st[1 - 1] = x
    BY <1>1, <1>2
  <2> QED BY <1>1, <1>2, <2>1, <2>2
<1>4. ASSUME NEW i \in 1 .. n - 1 PROVE <<up[i - 1], Tail(cs)[i], up[i]>> \in F
  <2>1. Tail(cs)[i] = cs[i + 1] /\ i + 1 \in 1 .. n /\ i - 1 \in 0 .. n - 1 /\ (i + 1) - 1 = i
    BY <1>2
  <2>2. up[i] = st[i + 1] /\ up[i - 1] = st[i]
    BY <1>2, <2>1
  <2>3. <<st[i], cs[i + 1], st[i + 1]>> \in F
    BY <1>1, <2>1 DEF Run
  <2> HIDE DEF up
  <2> QED BY <2>1, <2>2, <2>3
<1> HIDE DEF up
<1>5. Takes(F, up[0], Tail(cs), end)
  BY <1>2, <1>3, <1>4 DEF Takes, Run
<1> QED BY <1>3, <1>5

-----------------------------------------------------------------------------
(* Textures. What is queued takes the units to `end', where every texture  *)
(* the game has bound is, every entry of the filter is what its unit       *)
(* holds, and the active unit is the one noted. What uploads go by does    *)
(* not wait for the queue.                                                 *)

UnitCall ==
  [f : {"active"}, u : Tex!AllUnits] \cup [f : {"bind2d"}, t : Tex!Names] \cup {Tex!BindCube}
UnitState ==
  [active : Tex!AllUnits, d2 : [Tex!AllUnits -> Tex!Names],
   slot : [Tex!AllUnits -> Tex!Names \cup {"cube"}]]
UnitsStep == {t \in UnitState \X UnitCall \X UnitState : t[3] = Tex!Apply(t[1], t[2])}
Packed == {"4444", "565"}

TexType ==
  /\ queueing \in BOOLEAN /\ units \in UnitState /\ unfiltered \in UnitState
  /\ binds \in Seq(UnitCall)
  /\ image \in [Textures -> {"none", "full"} \cup Packed]
  /\ g_active_unit \in Tex!AllUnits /\ g_cur_tex \in Tex!Names
  /\ g_bound2d \in [Units -> Tex!Names] /\ g_unit2d \in [Units -> Tex!Names]
  /\ g_tex16 \in [Textures -> {"none"} \cup Packed]

Bound(end) ==
  /\ end.active = unfiltered.active /\ g_active_unit = end.active
  /\ \A u \in Tex!AllUnits :
       /\ unfiltered.slot[u] # NoTexture => end.slot[u] = unfiltered.slot[u]
       /\ unfiltered.d2[u] # NoTexture => end.d2[u] = unfiltered.d2[u]
  /\ \A u \in Units : g_bound2d[u] # NoTexture =>
       end.d2[u] = g_bound2d[u] /\ end.slot[u] = g_bound2d[u]

UnitsAhead ==
  /\ ~queueing => binds = <<>>
  /\ \E end \in UnitState : Takes(UnitsStep, units, binds, end) /\ Bound(end)

UploadsKnow ==
  /\ \A u \in Units : unfiltered.d2[u] # NoTexture => g_unit2d[u] = unfiltered.d2[u]
  /\ unfiltered.active \in Units /\ unfiltered.d2[unfiltered.active] # NoTexture
       => g_cur_tex = unfiltered.d2[unfiltered.active]

KindsNoted == \A t \in Textures : g_tex16[t] = IF image[t] \in Packed THEN image[t] ELSE "none"

TexInv == TexType /\ UnitsAhead /\ UploadsKnow /\ KindsNoted /\ Tex!SubUploadFits

-----------------------------------------------------------------------------
(* What a call does to the units.                                          *)

LEMMA ActivateUnit ==
  ASSUME NEW x \in UnitState, NEW u \in Tex!AllUnits
  PROVE  /\ Tex!Activate(u) \in UnitCall /\ Tex!Apply(x, Tex!Activate(u)) \in UnitState
         /\ Tex!Apply(x, Tex!Activate(u)).active = u
         /\ Tex!Apply(x, Tex!Activate(u)).d2 = x.d2
         /\ Tex!Apply(x, Tex!Activate(u)).slot = x.slot
<1>1. Tex!Apply(x, Tex!Activate(u)) = [x EXCEPT !.active = u]
  BY DEF Tex!Apply, Tex!Activate
<1>2. Tex!Activate(u) \in UnitCall
  BY DEF Tex!Activate, UnitCall
<1> QED BY <1>1, <1>2 DEF UnitState

LEMMA Bind2DUnit ==
  ASSUME NEW x \in UnitState, NEW t \in Tex!Names
  PROVE  /\ Tex!Bind2D(t) \in UnitCall /\ Tex!Apply(x, Tex!Bind2D(t)) \in UnitState
         /\ Tex!Apply(x, Tex!Bind2D(t)).active = x.active
         /\ Tex!Apply(x, Tex!Bind2D(t)).d2 = [x.d2 EXCEPT ![x.active] = t]
         /\ Tex!Apply(x, Tex!Bind2D(t)).slot = [x.slot EXCEPT ![x.active] = t]
<1>1. Tex!Apply(x, Tex!Bind2D(t)) = [x EXCEPT !.d2[x.active] = t, !.slot[x.active] = t]
  BY DEF Tex!Apply, Tex!Bind2D
<1>2. Tex!Bind2D(t) \in UnitCall
  BY DEF Tex!Bind2D, UnitCall
<1>3. /\ [x.d2 EXCEPT ![x.active] = t] \in [Tex!AllUnits -> Tex!Names]
      /\ [x.slot EXCEPT ![x.active] = t] \in [Tex!AllUnits -> Tex!Names \cup {"cube"}]
  BY DEF UnitState
<1>4. Tex!Apply(x, Tex!Bind2D(t)) = [active |-> x.active, d2 |-> [x.d2 EXCEPT ![x.active] = t],
                                     slot |-> [x.slot EXCEPT ![x.active] = t]]
  BY <1>1 DEF UnitState
<1> QED BY <1>2, <1>3, <1>4 DEF UnitState

LEMMA BindCubeUnit ==
  ASSUME NEW x \in UnitState
  PROVE  /\ Tex!BindCube \in UnitCall /\ Tex!Apply(x, Tex!BindCube) \in UnitState
         /\ Tex!Apply(x, Tex!BindCube).active = x.active
         /\ Tex!Apply(x, Tex!BindCube).d2 = x.d2
         /\ Tex!Apply(x, Tex!BindCube).slot = [x.slot EXCEPT ![x.active] = "cube"]
<1>1. Tex!Apply(x, Tex!BindCube) = [x EXCEPT !.slot[x.active] = "cube"]
  BY DEF Tex!Apply, Tex!BindCube
<1>2. Tex!BindCube \in UnitCall
  BY DEF UnitCall
<1> QED BY <1>1, <1>2 DEF UnitState

LEMMA DeleteUnits ==
  ASSUME NEW x \in UnitState, NEW t \in Textures
  PROVE  /\ Tex!Apply(x, [f |-> "delete", t |-> t]) \in UnitState
         /\ Tex!Apply(x, [f |-> "delete", t |-> t]).active = x.active
         /\ \A u \in Tex!AllUnits :
              /\ Tex!Apply(x, [f |-> "delete", t |-> t]).d2[u] = IF x.d2[u] = t THEN NoTexture ELSE x.d2[u]
              /\ Tex!Apply(x, [f |-> "delete", t |-> t]).slot[u] = IF x.slot[u] = t THEN NoTexture ELSE x.slot[u]
<1> DEFINE d == [u \in Tex!AllUnits |-> IF x.d2[u] = t THEN NoTexture ELSE x.d2[u]]
           l == [u \in Tex!AllUnits |-> IF x.slot[u] = t THEN NoTexture ELSE x.slot[u]]
<1>1. Tex!Apply(x, [f |-> "delete", t |-> t]) = [x EXCEPT !.d2 = d, !.slot = l]
  BY DEF Tex!Apply
<1>2. d \in [Tex!AllUnits -> Tex!Names] /\ l \in [Tex!AllUnits -> Tex!Names \cup {"cube"}]
  BY DEF UnitState, Tex!Names
<1>3. \A u \in Tex!AllUnits : d[u] = (IF x.d2[u] = t THEN NoTexture ELSE x.d2[u])
                              /\ l[u] = (IF x.slot[u] = t THEN NoTexture ELSE x.slot[u])
  OBVIOUS
<1> HIDE DEF d, l
<1> QED BY <1>1, <1>2, <1>3 DEF UnitState

LEMMA UnitCallTyped ==
  ASSUME NEW x \in UnitState, NEW c \in UnitCall
  PROVE  Tex!Apply(x, c) \in UnitState /\ <<x, c, Tex!Apply(x, c)>> \in UnitsStep
<1>1. CASE c \in [f : {"active"}, u : Tex!AllUnits]
  <2>1. c = Tex!Activate(c.u) /\ c.u \in Tex!AllUnits
    BY <1>1 DEF Tex!Activate
  <2> QED BY <2>1, ActivateUnit DEF UnitsStep
<1>2. CASE c \in [f : {"bind2d"}, t : Tex!Names]
  <2>1. c = Tex!Bind2D(c.t) /\ c.t \in Tex!Names
    BY <1>2 DEF Tex!Bind2D
  <2> QED BY <2>1, Bind2DUnit DEF UnitsStep
<1>3. CASE c = Tex!BindCube
  BY <1>3, BindCubeUnit DEF UnitsStep
<1> QED BY <1>1, <1>2, <1>3 DEF UnitCall

-----------------------------------------------------------------------------
(* The steps.                                                              *)

LEMMA TexInitInv ==
  ASSUME Tex!ConstantsSane, Tex!Init
  PROVE  TexInv
<1> USE DEF Tex!Init
<1>1. Tex!Start \in UnitState /\ Tex!Start.active \in Units
  <2>1. (CHOOSE u \in Units : TRUE) \in Units
    BY DEF Tex!ConstantsSane
  <2> QED BY <2>1 DEF Tex!Start, UnitState, Tex!AllUnits, Tex!Names
<1>2. TexType
  <2>1. units \in UnitState /\ unfiltered \in UnitState /\ g_active_unit \in Tex!AllUnits
    BY <1>1 DEF Tex!AllUnits
  <2>2. g_cur_tex \in Tex!Names /\ binds \in Seq(UnitCall)
    BY DEF Tex!Names
  <2>3. g_bound2d \in [Units -> Tex!Names] /\ g_unit2d \in [Units -> Tex!Names]
    BY DEF Tex!Names
  <2>4. /\ image \in [Textures -> {"none", "full"} \cup Packed]
        /\ g_tex16 \in [Textures -> {"none"} \cup Packed]
    OBVIOUS
  <2> QED BY <2>1, <2>2, <2>3, <2>4 DEF TexType
<1>3. UnitsAhead
  <2>1. Takes(UnitsStep, units, binds, units)
    BY TakesNone
  <2>2. Bound(units)
    BY DEF Bound
  <2> QED BY <1>1, <2>1, <2>2 DEF UnitsAhead
<1>4. UploadsKnow
  BY <1>1 DEF UploadsKnow, Tex!Start, Tex!AllUnits
<1>5. KindsNoted
  BY DEF KindsNoted, Packed
<1>6. Tex!SubUploadFits
  BY DEF Tex!SubUploadFits, Tex!NoSub
<1> QED BY <1>2, <1>3, <1>4, <1>5, <1>6 DEF TexInv

\* With nothing queued the units are what the binds made so far come to.
LEMMA UnitsNow ==
  ASSUME TexInv, binds = <<>> \/ ~queueing
  PROVE  binds = <<>> /\ Bound(units)
BY TakesNone DEF TexInv, UnitsAhead

\* The filter and the uploads' note hold of what the queue shows once it has run.
LEMMA TexExact ==
  ASSUME TexInv
  PROVE  TexturesExact
<1>1. ASSUME binds = <<>> PROVE Bound(units)
  BY <1>1, UnitsNow
<1> QED BY <1>1 DEF TexInv, Bound, UploadsKnow, TexturesExact, Tex!FilterExact

\* A call that is queued, or runs at once without a queue, has its effect at the end of what is queued.
LEMMA QueueUnits ==
  ASSUME TexInv, NEW end \in UnitState, Takes(UnitsStep, units, binds, end),
         NEW c \in UnitCall, Tex!Q(c)
  PROVE  /\ binds' \in Seq(UnitCall) /\ units' \in UnitState
         /\ ~queueing => binds' = <<>>
         /\ Takes(UnitsStep, units', binds', Tex!Apply(end, c))
<1>0. units \in UnitState /\ binds \in Seq(UnitCall)
  BY DEF TexInv, TexType
<1>1. CASE queueing
  <2>1. binds' = Append(binds, c) /\ units' = units
    BY <1>1 DEF Tex!Q
  <2>2. <<end, c, Tex!Apply(end, c)>> \in UnitsStep
    BY UnitCallTyped
  <2>3. Takes(UnitsStep, units, Append(binds, c), Tex!Apply(end, c))
    BY <1>0, <2>2, TakesAppend
  <2>4. Append(binds, c) \in Seq(UnitCall)
    BY <1>0
  <2> QED BY <1>0, <1>1, <2>1, <2>2, <2>3, <2>4
<1>2. CASE ~queueing
  <2>1. binds = <<>> /\ units = end
    BY <1>2, UnitsNow, TakesNone
  <2>2. units' = Tex!Apply(end, c) /\ binds' = <<>>
    BY <1>2, <2>1 DEF Tex!Q
  <2>3. Takes(UnitsStep, Tex!Apply(end, c), <<>>, Tex!Apply(end, c))
    BY TakesNone
  <2>4. Tex!Apply(end, c) \in UnitState
    BY UnitCallTyped
  <2> QED BY <1>2, <2>2, <2>3, <2>4
<1> QED BY <1>1, <1>2

LEMMA TexBegin ==
  ASSUME TexInv, Tex!glq_begin
  PROVE  TexInv'
<1> USE DEF Tex!glq_begin, Tex!contents
<1>1. Bound(units) /\ binds = <<>>
  BY UnitsNow
<1>2. units \in UnitState /\ unfiltered \in UnitState
  BY DEF TexInv, TexType
<1>3. TexType'
  BY <1>2 DEF TexInv, TexType, Tex!Reseeded, UnitState
<1>4. UnitsAhead'
  <2>1. Takes(UnitsStep, units', binds', units)
    BY <1>1, TakesNone
  <2>2. Bound(units)'
    BY <1>1 DEF Bound, Tex!Reseeded
  <2> QED BY <1>2, <2>1, <2>2 DEF UnitsAhead
<1>5. UploadsKnow'
  BY <1>1, <1>2 DEF TexInv, UploadsKnow, Bound, Tex!Reseeded, TexType, Tex!AllUnits
<1> QED BY <1>3, <1>4, <1>5 DEF TexInv, KindsNoted, Tex!SubUploadFits

LEMMA TexRender ==
  ASSUME TexInv, Tex!Render
  PROVE  TexInv'
<1> USE DEF Tex!Render, Tex!bindings, Tex!contents
<1>0. units \in UnitState /\ unfiltered \in UnitState /\ binds \in Seq(UnitCall) /\ binds # <<>>
  BY DEF TexInv, TexType
<1>1. PICK end \in UnitState : Takes(UnitsStep, units, binds, end) /\ Bound(end)
  BY DEF TexInv, UnitsAhead
<1>2. Head(binds) \in UnitCall /\ Tail(binds) \in Seq(UnitCall)
  BY <1>0
<1>3. PICK y : <<units, Head(binds), y>> \in UnitsStep /\ Takes(UnitsStep, y, Tail(binds), end)
  BY <1>0, <1>1, TakesRest
<1>4. units' \in UnitState /\ Takes(UnitsStep, units', binds', end)
  BY <1>3 DEF UnitsStep
<1>5. Bound(end)'
  BY <1>1 DEF Bound
<1>6. TexType'
  BY <1>2, <1>4 DEF TexInv, TexType
<1>7. UnitsAhead'
  BY <1>0, <1>1, <1>4, <1>5 DEF UnitsAhead, TexInv
<1> QED BY <1>6, <1>7 DEF TexInv, UploadsKnow, KindsNoted, Tex!SubUploadFits

LEMMA TexActivate ==
  ASSUME TexInv, Tex!glActiveTexture_e
  PROVE  TexInv'
<1>1. PICK u \in Tex!AllUnits :
        /\ g_active_unit' = u /\ g_cur_tex' = Tex!Follows(u)
        /\ Tex!Q(Tex!Activate(u)) /\ Tex!Asked(Tex!Activate(u))
  BY DEF Tex!glActiveTexture_e
<1>2. /\ UNCHANGED <<queueing, g_bound2d, g_unit2d, image, g_tex16, g_gl_tex16, starved>>
      /\ sub' = Tex!NoSub
  BY DEF Tex!glActiveTexture_e, Tex!contents
<1>3. PICK end \in UnitState : Takes(UnitsStep, units, binds, end) /\ Bound(end)
  BY DEF TexInv, UnitsAhead
<1>4. unfiltered \in UnitState
  BY DEF TexInv, TexType
<1>5. PICK e \in UnitState : /\ e = Tex!Apply(end, Tex!Activate(u))
                             /\ e.active = u /\ e.d2 = end.d2 /\ e.slot = end.slot
  BY ActivateUnit
<1>6. /\ unfiltered' \in UnitState /\ unfiltered'.active = u
      /\ unfiltered'.d2 = unfiltered.d2 /\ unfiltered'.slot = unfiltered.slot
  BY <1>1, <1>4, ActivateUnit DEF Tex!Asked
<1>7. /\ binds' \in Seq(UnitCall) /\ units' \in UnitState
      /\ ~queueing => binds' = <<>>
      /\ Takes(UnitsStep, units', binds', e)
  BY <1>1, <1>3, <1>5, ActivateUnit, QueueUnits
<1>8. TexType'
  BY <1>1, <1>2, <1>6, <1>7 DEF TexInv, TexType, Tex!Follows, Tex!Names
<1>9. UnitsAhead'
  <2>1. Bound(e)'
    BY <1>1, <1>2, <1>3, <1>5, <1>6 DEF Bound
  <2> QED BY <1>2, <1>5, <1>7, <2>1 DEF UnitsAhead
<1>10. UploadsKnow'
  BY <1>1, <1>2, <1>6 DEF UploadsKnow, TexInv, Tex!Follows
<1> QED BY <1>2, <1>8, <1>9, <1>10 DEF TexInv, KindsNoted, Tex!SubUploadFits, Tex!NoSub

LEMMA TexBind2D ==
  ASSUME TexInv, Tex!Bind2D_e
  PROVE  TexInv'
<1>1. PICK t \in Tex!Names :
        /\ g_cur_tex' = t
        /\ g_unit2d' = Tex!NoteUnit(g_unit2d, t) /\ g_bound2d' = Tex!NoteUnit(g_bound2d, t)
        /\ IF Tex!Redundant(t) THEN UNCHANGED <<units, binds>> ELSE Tex!Q(Tex!Bind2D(t))
        /\ Tex!Asked(Tex!Bind2D(t))
  BY DEF Tex!Bind2D_e
<1>2. /\ UNCHANGED <<queueing, g_active_unit, image, g_tex16, g_gl_tex16, starved>>
      /\ sub' = Tex!NoSub
  BY DEF Tex!Bind2D_e, Tex!contents
<1>3. PICK end \in UnitState : Takes(UnitsStep, units, binds, end) /\ Bound(end)
  BY DEF TexInv, UnitsAhead
<1>4. /\ unfiltered \in UnitState /\ g_active_unit \in Tex!AllUnits
      /\ g_bound2d \in [Units -> Tex!Names] /\ g_unit2d \in [Units -> Tex!Names]
      /\ units \in UnitState /\ binds \in Seq(UnitCall)
  BY DEF TexInv, TexType
<1>5. PICK p \in UnitState :
        /\ p = unfiltered' /\ p.active = unfiltered.active
        /\ p.d2 = [unfiltered.d2 EXCEPT ![unfiltered.active] = t]
        /\ p.slot = [unfiltered.slot EXCEPT ![unfiltered.active] = t]
  BY <1>1, <1>4, Bind2DUnit DEF Tex!Asked
<1>6. PICK e \in UnitState :
        /\ e.active = end.active
        /\ \A u \in Tex!AllUnits \ {end.active} : e.d2[u] = end.d2[u] /\ e.slot[u] = end.slot[u]
        /\ t # NoTexture => e.d2[e.active] = t /\ e.slot[e.active] = t
        /\ binds' \in Seq(UnitCall) /\ units' \in UnitState
        /\ ~queueing => binds' = <<>>
        /\ Takes(UnitsStep, units', binds', e)
  <2>1. CASE Tex!Redundant(t)
    <3>1. end.active \in Units /\ g_bound2d[end.active] = t
      BY <1>3, <2>1 DEF Tex!Redundant, Bound
    <3>2. t # NoTexture => end.d2[end.active] = t /\ end.slot[end.active] = t
      BY <1>3, <3>1 DEF Bound
    <3>3. units' = units /\ binds' = binds /\ (~queueing => binds = <<>>)
      BY <1>1, <2>1 DEF TexInv, UnitsAhead
    <3> QED BY <1>3, <1>4, <3>2, <3>3
  <2>2. CASE ~Tex!Redundant(t)
    <3>1. PICK e \in UnitState :
            /\ e = Tex!Apply(end, Tex!Bind2D(t)) /\ e.active = end.active
            /\ e.d2 = [end.d2 EXCEPT ![end.active] = t]
            /\ e.slot = [end.slot EXCEPT ![end.active] = t]
      BY Bind2DUnit
    <3>2. /\ binds' \in Seq(UnitCall) /\ units' \in UnitState
          /\ ~queueing => binds' = <<>>
          /\ Takes(UnitsStep, units', binds', e)
      BY <1>1, <1>3, <2>2, <3>1, Bind2DUnit, QueueUnits
    <3> QED BY <3>1, <3>2 DEF UnitState
  <2> QED BY <2>1, <2>2
<1>7. PICK a \in Tex!AllUnits : a = end.active /\ a = unfiltered.active /\ a = g_active_unit
  BY <1>3, <1>4 DEF Bound
<1>8. TexType'
  BY <1>1, <1>2, <1>4, <1>5, <1>6 DEF TexInv, TexType, Tex!NoteUnit
<1>9. UnitsAhead'
  <2>1. ASSUME NEW u \in Tex!AllUnits
        PROVE  /\ p.slot[u] # NoTexture => e.slot[u] = p.slot[u]
               /\ p.d2[u] # NoTexture => e.d2[u] = p.d2[u]
    BY <1>3, <1>4, <1>5, <1>6, <1>7 DEF Bound, UnitState
  <2>2. ASSUME NEW u \in Units, g_bound2d'[u] # NoTexture
        PROVE  e.d2[u] = g_bound2d'[u] /\ e.slot[u] = g_bound2d'[u]
    <3>1. u \in Tex!AllUnits
      BY DEF Tex!AllUnits
    <3>2. CASE u = a
      BY <1>1, <1>4, <1>6, <1>7, <2>2, <3>2 DEF Tex!NoteUnit
    <3>3. CASE u # a
      BY <1>1, <1>3, <1>4, <1>6, <1>7, <2>2, <3>1, <3>3 DEF Tex!NoteUnit, Bound
    <3> QED BY <3>2, <3>3
  <2>3. Bound(e)'
    BY <1>2, <1>5, <1>6, <1>7, <2>1, <2>2 DEF Bound
  <2> QED BY <1>2, <1>6, <2>3 DEF UnitsAhead
<1>10. UploadsKnow'
  <2>1. \A u \in Units : u \in Tex!AllUnits
    BY DEF Tex!AllUnits
  <2> QED BY <1>1, <1>4, <1>5, <1>7, <2>1 DEF UploadsKnow, TexInv, Tex!NoteUnit, UnitState
<1> QED BY <1>2, <1>8, <1>9, <1>10 DEF TexInv, KindsNoted, Tex!SubUploadFits, Tex!NoSub

LEMMA TexBindCube ==
  ASSUME TexInv, Tex!BindCube_e
  PROVE  TexInv'
<1>1. /\ g_bound2d' = Tex!ForgetUnit
      /\ Tex!Q(Tex!BindCube) /\ Tex!Asked(Tex!BindCube)
      /\ UNCHANGED <<queueing, g_active_unit, g_cur_tex, g_unit2d, image, g_tex16, g_gl_tex16, starved>>
      /\ sub' = Tex!NoSub
  BY DEF Tex!BindCube_e, Tex!contents
<1>3. PICK end \in UnitState : Takes(UnitsStep, units, binds, end) /\ Bound(end)
  BY DEF TexInv, UnitsAhead
<1>4. unfiltered \in UnitState /\ g_bound2d \in [Units -> Tex!Names] /\ g_active_unit \in Tex!AllUnits
  BY DEF TexInv, TexType
<1>5. PICK p \in UnitState :
        /\ p = unfiltered' /\ p.active = unfiltered.active /\ p.d2 = unfiltered.d2
        /\ p.slot = [unfiltered.slot EXCEPT ![unfiltered.active] = "cube"]
  BY <1>1, <1>4, BindCubeUnit DEF Tex!Asked
<1>6. PICK e \in UnitState :
        /\ e = Tex!Apply(end, Tex!BindCube) /\ e.active = end.active /\ e.d2 = end.d2
        /\ e.slot = [end.slot EXCEPT ![end.active] = "cube"]
  BY BindCubeUnit
<1>7. /\ binds' \in Seq(UnitCall) /\ units' \in UnitState
      /\ ~queueing => binds' = <<>>
      /\ Takes(UnitsStep, units', binds', e)
  BY <1>1, <1>3, <1>6, BindCubeUnit, QueueUnits
<1>8. TexType'
  BY <1>1, <1>4, <1>5, <1>7 DEF TexInv, TexType, Tex!ForgetUnit, Tex!NoteUnit, Tex!Names
<1>9. PICK a \in Tex!AllUnits : a = end.active /\ a = unfiltered.active /\ a = g_active_unit
  BY <1>3, <1>4 DEF Bound
<1>10. UnitsAhead'
  <2>1. ASSUME NEW u \in Tex!AllUnits
        PROVE  /\ p.slot[u] # NoTexture => e.slot[u] = p.slot[u]
               /\ p.d2[u] # NoTexture => e.d2[u] = p.d2[u]
    BY <1>3, <1>4, <1>5, <1>6, <1>9 DEF Bound, UnitState
  <2>2. ASSUME NEW u \in Units, g_bound2d'[u] # NoTexture
        PROVE  e.d2[u] = g_bound2d'[u] /\ e.slot[u] = g_bound2d'[u]
    <3>1. u \in Tex!AllUnits
      BY DEF Tex!AllUnits
    <3>2. u # a /\ g_bound2d'[u] = g_bound2d[u]
      BY <1>1, <1>4, <1>9, <2>2 DEF Tex!ForgetUnit, Tex!NoteUnit
    <3>3. end.d2[u] = g_bound2d[u] /\ end.slot[u] = g_bound2d[u]
      BY <1>3, <2>2, <3>2 DEF Bound
    <3> QED BY <1>6, <1>9, <3>1, <3>2, <3>3 DEF UnitState
  <2>3. Bound(e)'
    BY <1>1, <1>5, <1>6, <1>9, <2>1, <2>2 DEF Bound
  <2> QED BY <1>1, <1>6, <1>7, <2>3 DEF UnitsAhead
<1>11. UploadsKnow'
  BY <1>1, <1>5 DEF UploadsKnow, TexInv
<1> QED BY <1>1, <1>8, <1>10, <1>11 DEF TexInv, KindsNoted, Tex!SubUploadFits, Tex!NoSub

LEMMA TexDelete ==
  ASSUME TexInv, Tex!glDeleteTextures_e, Tex!ConstantsSane
  PROVE  TexInv'
<1>1. PICK t \in Textures :
        LET delete == [f |-> "delete", t |-> t]
            gone == [u \in Units |-> IF g_unit2d[u] = t THEN NoTexture ELSE g_unit2d[u]]
            gl == Tex!Apply(units, delete) IN
        /\ binds = <<>> /\ UNCHANGED binds
        /\ units' = gl /\ Tex!Asked(delete)
        /\ image' = [image EXCEPT ![t] = "none"]
        /\ g_tex16' = [g_tex16 EXCEPT ![t] = "none"]
        /\ g_bound2d' = Tex!ForgetAll
        /\ IF queueing
           THEN /\ g_active_unit' = Tex!Reseeded(gl).unit
                /\ g_unit2d' = IF gl.active \in Units
                               THEN [gone EXCEPT ![gl.active] = gl.d2[gl.active]] ELSE gone
                /\ g_cur_tex' = IF gl.active \in Units THEN gl.d2[gl.active]
                                ELSE IF g_cur_tex = t THEN NoTexture ELSE g_cur_tex
           ELSE /\ g_unit2d' = gone
                /\ g_cur_tex' = IF g_cur_tex = t THEN NoTexture ELSE g_cur_tex
                /\ UNCHANGED g_active_unit
        /\ sub' = Tex!NoSub
        /\ UNCHANGED <<queueing, g_gl_tex16, starved>>
  BY DEF Tex!glDeleteTextures_e
<1>2. /\ units \in UnitState /\ unfiltered \in UnitState /\ g_unit2d \in [Units -> Tex!Names]
      /\ g_cur_tex \in Tex!Names /\ g_active_unit \in Tex!AllUnits
  BY DEF TexInv, TexType
<1>3. Bound(units) /\ binds = <<>> /\ binds' = <<>>
  BY <1>1, UnitsNow
<1>4. PICK x \in UnitState :
        /\ x = units' /\ x = Tex!Apply(units, [f |-> "delete", t |-> t]) /\ x.active = units.active
        /\ \A u \in Tex!AllUnits :
              /\ x.d2[u] = IF units.d2[u] = t THEN NoTexture ELSE units.d2[u]
              /\ x.slot[u] = IF units.slot[u] = t THEN NoTexture ELSE units.slot[u]
  BY <1>1, <1>2, DeleteUnits
<1>5. PICK p \in UnitState :
        /\ p = unfiltered' /\ p.active = unfiltered.active
        /\ \A u \in Tex!AllUnits :
              /\ p.d2[u] = IF unfiltered.d2[u] = t THEN NoTexture ELSE unfiltered.d2[u]
              /\ p.slot[u] = IF unfiltered.slot[u] = t THEN NoTexture ELSE unfiltered.slot[u]
  BY <1>1, <1>2, DeleteUnits DEF Tex!Asked
<1>6. PICK gone \in [Units -> Tex!Names] :
        /\ gone = [u \in Units |-> IF g_unit2d[u] = t THEN NoTexture ELSE g_unit2d[u]]
        /\ \A u \in Units : gone[u] = IF g_unit2d[u] = t THEN NoTexture ELSE g_unit2d[u]
  <2> DEFINE gn == [u \in Units |-> IF g_unit2d[u] = t THEN NoTexture ELSE g_unit2d[u]]
  <2>1. gn \in [Units -> Tex!Names]
    BY <1>2 DEF Tex!Names
  <2>2. \A u \in Units : gn[u] = IF g_unit2d[u] = t THEN NoTexture ELSE g_unit2d[u]
    OBVIOUS
  <2> HIDE DEF gn
  <2> QED BY <2>1, <2>2 DEF gn
<1>7. /\ g_active_unit' = x.active
      /\ g_unit2d' = IF queueing /\ x.active \in Units
                     THEN [gone EXCEPT ![x.active] = x.d2[x.active]] ELSE gone
      /\ g_cur_tex' = IF queueing /\ x.active \in Units THEN x.d2[x.active]
                      ELSE IF g_cur_tex = t THEN NoTexture ELSE g_cur_tex
  BY <1>1, <1>3, <1>4, <1>6 DEF Tex!Reseeded, Bound
<1>8. \A u \in Units : u \in Tex!AllUnits
  BY DEF Tex!AllUnits
<1>9. TexType'
  <2>1. x.d2 \in [Tex!AllUnits -> Tex!Names] /\ x.active \in Tex!AllUnits
    BY DEF UnitState
  <2>2. g_unit2d' \in [Units -> Tex!Names]
    BY <1>6, <1>7, <1>8, <2>1
  <2>3. g_cur_tex' \in Tex!Names
    BY <1>2, <1>7, <2>1 DEF Tex!Names
  <2>4. g_bound2d' \in [Units -> Tex!Names]
    BY <1>1 DEF Tex!ForgetAll, Tex!Names
  <2>5. /\ queueing' \in BOOLEAN /\ binds' \in Seq(UnitCall)
        /\ image' \in [Textures -> {"none", "full"} \cup Packed]
        /\ g_tex16' \in [Textures -> {"none"} \cup Packed]
    BY <1>1 DEF TexInv, TexType
  <2> QED BY <1>4, <1>5, <1>7, <2>1, <2>2, <2>3, <2>4, <2>5 DEF TexType
<1>10. UnitsAhead'
  <2>1. ASSUME NEW u \in Tex!AllUnits
        PROVE  /\ p.slot[u] # NoTexture => x.slot[u] = p.slot[u]
               /\ p.d2[u] # NoTexture => x.d2[u] = p.d2[u]
    BY <1>3, <1>4, <1>5 DEF Bound
  <2>2. \A u \in Units : g_bound2d'[u] = NoTexture
    BY <1>1 DEF Tex!ForgetAll
  <2>3. Bound(x)'
    BY <1>3, <1>4, <1>5, <1>7, <2>1, <2>2 DEF Bound
  <2>4. Takes(UnitsStep, units', binds', x)
    BY <1>3, <1>4, TakesNone
  <2> QED BY <1>3, <2>3, <2>4 DEF UnitsAhead
<1>11. UploadsKnow'
  <2>1. \A u \in Units : p.d2[u] # NoTexture => p.d2[u] = unfiltered.d2[u] /\ p.d2[u] # t
    BY <1>5, <1>8 DEF Tex!ConstantsSane
  <2>2. \A u \in Units : p.d2[u] # NoTexture => gone[u] = p.d2[u] /\ x.d2[u] = p.d2[u]
    <3>1. ASSUME NEW u \in Units, p.d2[u] # NoTexture PROVE gone[u] = p.d2[u]
      <4>1. g_unit2d[u] = unfiltered.d2[u]
        BY <2>1, <3>1 DEF TexInv, UploadsKnow
      <4> QED BY <1>6, <2>1, <3>1, <4>1
    <3>2. ASSUME NEW u \in Units, p.d2[u] # NoTexture PROVE x.d2[u] = p.d2[u]
      BY <1>3, <1>4, <1>5, <1>8, <3>2 DEF Bound
    <3> QED BY <3>1, <3>2
  <2>3. ASSUME NEW u \in Units, p.d2[u] # NoTexture PROVE g_unit2d'[u] = p.d2[u]
    BY <1>6, <1>7, <2>2, <2>3
  <2>4. ASSUME p.active \in Units, p.d2[p.active] # NoTexture PROVE g_cur_tex' = p.d2[p.active]
    <3>1. x.active = p.active
      BY <1>3, <1>4, <1>5 DEF Bound
    <3>2. CASE queueing
      BY <1>7, <2>2, <2>4, <3>1, <3>2
    <3>3. CASE ~queueing
      <4>1. g_cur_tex = unfiltered.d2[p.active]
        BY <1>5, <2>1, <2>4 DEF TexInv, UploadsKnow
      <4> QED BY <1>7, <2>1, <2>4, <3>3, <4>1
    <3> QED BY <3>2, <3>3
  <2> QED BY <1>5, <2>3, <2>4 DEF UploadsKnow
<1>12. KindsNoted'
  <2>1. /\ image \in [Textures -> {"none", "full"} \cup Packed]
        /\ g_tex16 \in [Textures -> {"none"} \cup Packed] /\ KindsNoted
    BY DEF TexInv, TexType
  <2>2. image' = [image EXCEPT ![t] = "none"] /\ g_tex16' = [g_tex16 EXCEPT ![t] = "none"]
    BY <1>1
  <2> QED BY <2>1, <2>2 DEF KindsNoted, Packed
<1>13. Tex!SubUploadFits'
  BY <1>1 DEF Tex!SubUploadFits, Tex!NoSub
<1> QED BY <1>9, <1>10, <1>11, <1>12, <1>13 DEF TexInv
\* The upload's RPC: with the queue empty the noted texture is the one the upload lands in.
LEMMA TexDrained ==
  ASSUME TexInv, Tex!Uploading, Tex!Drained, Tex!ConstantsSane
  PROVE  /\ Tex!Target \in Textures /\ g_cur_tex = Tex!Target
         /\ UnitsAhead' /\ UploadsKnow'
         /\ queueing' \in BOOLEAN /\ units' \in UnitState /\ unfiltered' \in UnitState
         /\ binds' \in Seq(UnitCall)
         /\ g_active_unit' \in Tex!AllUnits /\ g_cur_tex' \in Tex!Names
         /\ g_bound2d' \in [Units -> Tex!Names] /\ g_unit2d' \in [Units -> Tex!Names]
<1> USE DEF Tex!Drained
<1>1. Bound(units) /\ binds = <<>> /\ binds' = <<>>
  BY UnitsNow
<1>2. /\ units \in UnitState /\ unfiltered \in UnitState /\ g_active_unit \in Tex!AllUnits
      /\ g_cur_tex \in Tex!Names /\ g_bound2d \in [Units -> Tex!Names]
      /\ g_unit2d \in [Units -> Tex!Names] /\ queueing \in BOOLEAN
  BY DEF TexInv, TexType
<1>3. /\ units' = units /\ unfiltered' = unfiltered /\ g_bound2d' = g_bound2d
      /\ queueing' = queueing
  OBVIOUS
<1>4. PICK a \in Units : /\ a = unfiltered.active /\ a = units.active /\ a = g_active_unit
                         /\ unfiltered.d2[a] # NoTexture /\ units.d2[a] = unfiltered.d2[a]
  BY <1>1, <1>2 DEF Tex!Uploading, Bound, Tex!AllUnits
<1>5. Tex!Target = units.d2[a] /\ units.d2[a] \in Textures /\ g_cur_tex = units.d2[a]
  <2>1. units.d2[a] \in Tex!Names
    BY <1>2 DEF UnitState, Tex!AllUnits
  <2> QED BY <1>4, <2>1 DEF Tex!Target, Tex!Names, TexInv, UploadsKnow
<1>6. /\ g_active_unit' = a /\ g_cur_tex' = units.d2[a]
      /\ g_unit2d' = IF queueing THEN [g_unit2d EXCEPT ![a] = units.d2[a]] ELSE g_unit2d
  BY <1>4, <1>5 DEF Tex!Reseeded
<1>7. UnitsAhead'
  <2>1. Takes(UnitsStep, units', binds', units)
    BY <1>1, <1>3, TakesNone
  <2>2. Bound(units)'
    BY <1>1, <1>3, <1>4, <1>6 DEF Bound
  <2> QED BY <1>1, <1>2, <2>1, <2>2 DEF UnitsAhead
<1>8. UploadsKnow'
  BY <1>2, <1>3, <1>4, <1>6 DEF UploadsKnow, TexInv
<1>9. /\ g_active_unit' \in Tex!AllUnits /\ g_cur_tex' \in Tex!Names
      /\ g_unit2d' \in [Units -> Tex!Names]
  BY <1>2, <1>4, <1>5, <1>6 DEF Tex!AllUnits, Tex!Names
<1> QED BY <1>1, <1>2, <1>3, <1>5, <1>7, <1>8, <1>9

\* What a base image is stored as is what the table notes.
LEMMA TexStored ==
  ASSUME TexInv, Tex!Uploading, Tex!Drained, Tex!ConstantsSane,
         NEW kind \in {"none"} \cup Packed, Tex!Store(kind), g_tex16' = Tex!tex16_mark(kind),
         sub' = Tex!NoSub
  PROVE  TexInv'
<1>1. PICK t \in Textures : t = Tex!Target /\ t = g_cur_tex /\ t # NoTexture
  BY TexDrained DEF Tex!ConstantsSane
<1>2. /\ image' = [image EXCEPT ![t] = IF kind = "none" THEN "full" ELSE kind]
      /\ g_tex16' = [g_tex16 EXCEPT ![t] = kind]
  BY <1>1 DEF Tex!Store, Tex!tex16_mark
<1>3. /\ image \in [Textures -> {"none", "full"} \cup Packed]
      /\ g_tex16 \in [Textures -> {"none"} \cup Packed] /\ KindsNoted
  BY DEF TexInv, TexType
<1>4. /\ image' \in [Textures -> {"none", "full"} \cup Packed]
      /\ g_tex16' \in [Textures -> {"none"} \cup Packed]
  BY <1>2, <1>3
<1>5. KindsNoted'
  BY <1>2, <1>3 DEF KindsNoted, Packed
<1>6. Tex!SubUploadFits'
  BY DEF Tex!SubUploadFits, Tex!NoSub
<1>7. TexType'
  BY <1>4, TexDrained DEF TexType
<1> QED BY <1>5, <1>6, <1>7, TexDrained DEF TexInv

LEMMA TexSub ==
  ASSUME TexInv, Tex!glTexSubImage2D_body, Tex!ConstantsSane
  PROVE  TexInv'
<1>1. PICK format \in Formats, room \in BOOLEAN :
        LET kind == IF g_cur_tex = NoTexture THEN "none" ELSE g_tex16[g_cur_tex]
            wanted == IF kind # "none" /\ kind = Tex!Sixteen(format) THEN kind ELSE "none" IN
        /\ ~room => wanted # "none" /\ starved < MaxStarved
        /\ Tex!Uploading /\ Tex!Drained /\ image[Tex!Target] # "none"
        /\ image[Tex!Target] = "full" \/ Tex!Sixteen(format) = image[Tex!Target]
        /\ sub' = [given |-> IF room /\ wanted # "none" THEN wanted ELSE "full",
                   held |-> image[Tex!Target], short |-> ~room]
        /\ UNCHANGED <<image, g_tex16>>
  BY DEF Tex!glTexSubImage2D_body
<1>2. PICK t \in Textures : t = Tex!Target /\ t = g_cur_tex /\ t # NoTexture
  BY <1>1, TexDrained DEF Tex!ConstantsSane
<1>3. image[t] \in {"none", "full"} \cup Packed /\ g_tex16[t] = IF image[t] \in Packed THEN image[t] ELSE "none"
  BY DEF TexInv, TexType, KindsNoted
<1>4. Tex!SubUploadFits'
  BY <1>1, <1>2, <1>3 DEF Tex!SubUploadFits, Packed
<1>5. TexType'
  BY <1>1, TexDrained DEF TexType, TexInv
<1> QED BY <1>1, <1>4, <1>5, TexDrained DEF TexInv, KindsNoted

LEMMA TexStep ==
  ASSUME TexInv, Tex!Next, Tex!ConstantsSane
  PROVE  TexInv'
<1>1. CASE Tex!glq_begin
  BY <1>1, TexBegin
<1>2. CASE Tex!Render
  BY <1>2, TexRender
<1>3. CASE Tex!glActiveTexture_e
  BY <1>3, TexActivate
<1>4. CASE Tex!glBindTexture_e
  BY <1>4, TexBind2D, TexBindCube DEF Tex!glBindTexture_e
<1>5. CASE Tex!glDeleteTextures_e
  BY <1>5, TexDelete
<1>6. CASE Tex!tex_upload2d
  <2>1. PICK format \in Formats, bytes \in BOOLEAN, room \in BOOLEAN :
          LET wanted == IF g_gl_tex16 /\ bytes THEN Tex!Sixteen(format) ELSE "none"
              kind == IF room THEN wanted ELSE "none" IN
          /\ Tex!Uploading /\ Tex!Drained
          /\ Tex!Store(kind) /\ g_tex16' = Tex!tex16_mark(kind)
          /\ sub' = Tex!NoSub
    BY <1>6 DEF Tex!tex_upload2d
  <2>2. Tex!Sixteen(format) \in {"none"} \cup Packed
    BY DEF Tex!Sixteen, Packed
  <2>3. PICK kind \in {"none"} \cup Packed : Tex!Store(kind) /\ g_tex16' = Tex!tex16_mark(kind)
    BY <2>1, <2>2
  <2> QED BY <2>1, <2>3, TexStored
<1>7. CASE Tex!UploadAsGiven
  BY <1>7, TexStored DEF Tex!UploadAsGiven
<1>8. CASE Tex!glTexSubImage2D_body
  BY <1>8, TexSub
<1> QED BY <1>1, <1>2, <1>3, <1>4, <1>5, <1>6, <1>7, <1>8 DEF Tex!Next

LEMMA TexStutter ==
  ASSUME TexInv, UNCHANGED textures
  PROVE  TexInv'
BY DEF TexInv, TexType, UnitsAhead, Bound, UploadsKnow, KindsNoted, Tex!SubUploadFits, textures

\* What is known of the textures, the units and the queued binds holds in every reachable
\* state, for any textures, units and table sizes (gl_patch.c:949-1162, 1204-1434).
THEOREM TexturesInvariant == GraphicsSpec => []TexInv
<1>1. GraphicsInit => TexInv
  BY GraphicsAssumption, TexInitInv DEF GraphicsInit
<1>2. TexInv /\ [GraphicsNext]_all => TexInv'
  BY GraphicsAssumption, TexStep, TexStutter DEF GraphicsNext, States, Texes, Draws, Programs, Boots, all
<1> QED BY <1>1, <1>2, PTL DEF GraphicsSpec

\* Once the queued binds have run, each unit holds what every bind made at once and unfiltered
\* would have left (gl_patch.c:949-967); and part of a texture is uploaded in the format its
\* image has, whatever names were recycled in between (gl_patch.c:1204-1206, 1411-1434).
THEOREM BindsAndUploadsAreExact == GraphicsSpec => []TexturesExact
<1>1. TexInv => TexturesExact
  BY TexExact
<1> QED BY <1>1, TexturesInvariant, PTL

-----------------------------------------------------------------------------
(* Draws. What is queued takes the attributes to `end', where those the    *)
(* game pointed into buffers are as it left them; and on the way every     *)
(* draw that is queued finds a long enough copy of each of the game's      *)
(* arrays, of the time it was made: what the game writes later does not    *)
(* matter. Where an array was copied the attribute stays at the copy.      *)

GameArray == [at : {"game"}, array : Arrays]
CopyOf == [at : {"copy"}, array : Arrays, version : Nat, verts : Nat]
Place == {Draw!Nowhere, Draw!InBuffer} \cup GameArray \cup CopyOf
AttribState == [bound : BOOLEAN, attrib : [Draw!Attrs -> Place]]
PointerCall == [f : {"pointer"}, i : Draw!Attrs, p : Place]
BindCall == [f : {"bind"}, on : BOOLEAN]
DrawCall ==
  [f : {"draw"}, want : UNION {[E -> Place] : E \in SUBSET Draw!Attrs},
   version : [Arrays -> Nat], verts : Nat]
VertexCall == PointerCall \cup BindCall \cup DrawCall

\* The draw reads what it should, whatever has been written since.
Reads(x, d) ==
  \A i \in DOMAIN d.want :
    LET p == x.attrib[i]
        w == d.want[i] IN
    IF w.at # "game" THEN p = w
    ELSE p.at = "copy" /\ p.array = w.array /\ p.version = d.version[w.array] /\ p.verts >= d.verts

VertexStep ==
  {t \in AttribState \X VertexCall \X AttribState :
     t[3] = Draw!Apply(t[1], t[2]) /\ (t[2].f = "draw" => Reads(t[1], t[2]))}

DrawType ==
  /\ reading \in AttribState /\ draws \in Seq(VertexCall)
  /\ s_attr_en \in SUBSET Draw!Attrs /\ s_attr_client \in SUBSET Draw!Attrs
  /\ s_attr \in [Near -> Arrays \cup {None}] /\ g_cur_arraybuf \in BOOLEAN
  /\ s_elembuf \in Buffers \cup {None}
  /\ memory \in [Arrays -> Nat] /\ highest \in [Buffers -> -1 .. Top]
  /\ pointed \in [Draw!Attrs -> Place]
  /\ DOMAIN g_idxmax \subseteq Buffers /\ \A b \in DOMAIN g_idxmax : g_idxmax[b] \in Nat

Pointing(end) ==
  /\ end.bound = g_cur_arraybuf
  /\ \A i \in Draw!Attrs :
       IF i \in s_attr_client THEN pointed[i].at = "game"
       ELSE pointed[i].at # "game" /\ end.attrib[i] = pointed[i]
  /\ \A i \in Near \cap s_attr_client : pointed[i] = Draw!AtGame(s_attr[i])

DrawsAhead ==
  \E end \in AttribState : Takes(VertexStep, reading, draws, end) /\ Pointing(end)

\* The figure noted for a buffer bounds its indices; one that never got a slot never will.
IndicesNoted ==
  \A b \in Buffers : highest[b] >= 0 =>
    IF b \in DOMAIN g_idxmax THEN g_idxmax[b] >= highest[b]
    ELSE Draw!Cardinality(DOMAIN g_idxmax) >= IdxSlots

DrawInv == DrawType /\ DrawsAhead /\ IndicesNoted /\ Draw!QueuedDrawsExact

-----------------------------------------------------------------------------
(* What a call does to the attributes.                                     *)

LEMMA PlacesDiffer ==
  /\ Draw!Nowhere.at # "game" /\ Draw!InBuffer.at # "game"
  /\ \A a \in Arrays : Draw!AtGame(a) \in Place /\ Draw!AtGame(a).at = "game" /\ Draw!AtGame(a).array = a
BY DEF Draw!Nowhere, Draw!InBuffer, Draw!AtGame, Place, GameArray

Pointer(i, p) == [f |-> "pointer", i |-> i, p |-> p]

\* Attribute i of x pointed at p makes it y.
Moved(x, i, p, y) ==
  /\ <<x, Pointer(i, p), y>> \in VertexStep /\ Pointer(i, p) \in VertexCall
  /\ y.bound = x.bound
  /\ y.attrib = [x.attrib EXCEPT ![i] = IF x.bound THEN Draw!InBuffer ELSE p]

LEMMA PointAttrib ==
  ASSUME NEW x \in AttribState, NEW i \in Draw!Attrs, NEW p \in Place
  PROVE  \E y \in AttribState : Moved(x, i, p, y)
<1> DEFINE c == Pointer(i, p)
           q == IF x.bound THEN Draw!InBuffer ELSE p
           at == [x.attrib EXCEPT ![i] = q]
           y == [bound |-> x.bound, attrib |-> at]
<1>1. c \in VertexCall /\ c.f = "pointer" /\ c.i = i /\ c.p = p
  BY DEF VertexCall, PointerCall, Pointer
<1>2. q \in Place
  BY DEF Place
<1>3. at \in [Draw!Attrs -> Place]
  BY <1>2 DEF AttribState
<1>4. y \in AttribState
  BY <1>3 DEF AttribState
<1>5. Draw!Apply(x, c) = [x EXCEPT !.attrib[i] = q]
  BY <1>1 DEF Draw!Apply, Draw!Point
<1>6. Draw!Apply(x, c) = y
  BY <1>5 DEF AttribState
<1> HIDE DEF c, y
<1>7. <<x, c, y>> \in VertexStep
  BY <1>1, <1>4, <1>6 DEF VertexStep
<1> QED BY <1>1, <1>4, <1>7 DEF c, y, Moved

LEMMA BindAttrib ==
  ASSUME NEW x \in AttribState, NEW on \in BOOLEAN
  PROVE  \E y \in AttribState :
           /\ <<x, Draw!Bind(on), y>> \in VertexStep /\ Draw!Bind(on) \in VertexCall
           /\ y.bound = on /\ y.attrib = x.attrib
<1> DEFINE c == Draw!Bind(on)
           y == [bound |-> on, attrib |-> x.attrib]
<1>1. c \in VertexCall /\ c.f = "bind" /\ c.on = on
  BY DEF VertexCall, BindCall, Draw!Bind
<1>2. y \in AttribState
  BY DEF AttribState
<1>3. Draw!Apply(x, c) = [x EXCEPT !.bound = on]
  BY <1>1 DEF Draw!Apply
<1>4. Draw!Apply(x, c) = y
  BY <1>3 DEF AttribState
<1>5. y.bound = on /\ y.attrib = x.attrib
  OBVIOUS
<1> HIDE DEF c, y
<1>6. <<x, c, y>> \in VertexStep
  BY <1>1, <1>2, <1>4 DEF VertexStep
<1> QED BY <1>1, <1>2, <1>5, <1>6 DEF c, y

LEMMA ReadsAreTrue ==
  ASSUME NEW x, NEW d, Reads(x, d)
  PROVE  Draw!ReadsTrue(x, d)
BY DEF Reads, Draw!ReadsTrue

\* Calls put on the queue have their effect at its end.
LEMMA QueueVertex ==
  ASSUME DrawInv, NEW end \in AttribState, Takes(VertexStep, reading, draws, end),
         NEW cs \in Seq(VertexCall), NEW y \in AttribState, Takes(VertexStep, end, cs, y),
         Draw!Q(cs), reading' = reading
  PROVE  draws' \in Seq(VertexCall) /\ reading' \in AttribState /\ Takes(VertexStep, reading', draws', y)
<1>1. draws \in Seq(VertexCall) /\ reading \in AttribState /\ draws' = draws \o cs
  BY DEF DrawInv, DrawType, Draw!Q
<1> QED BY <1>1, TakesMore

LEMMA DrawInitInv ==
  ASSUME Draw!ConstantsSane, Draw!Init
  PROVE  DrawInv
<1> USE DEF Draw!Init
<1>1. Draw!Nowhere \in Place
  BY DEF Place
<1>2. reading \in AttribState /\ pointed \in [Draw!Attrs -> Place]
  BY <1>1 DEF AttribState
<1>3. DrawType
  <2>1. highest \in [Buffers -> -1 .. Top]
    BY DEF Draw!ConstantsSane
  <2>2. s_attr \in [Near -> Arrays \cup {None}] /\ memory \in [Arrays -> Nat]
    OBVIOUS
  <2>3. DOMAIN g_idxmax \subseteq Buffers /\ \A b \in DOMAIN g_idxmax : g_idxmax[b] \in Nat
    OBVIOUS
  <2>4. draws \in Seq(VertexCall)
    OBVIOUS
  <2>5. g_cur_arraybuf \in BOOLEAN /\ s_elembuf \in Buffers \cup {None}
    OBVIOUS
  <2> QED BY <1>2, <2>1, <2>2, <2>3, <2>4, <2>5 DEF DrawType
<1>4. DrawsAhead
  <2>1. Pointing(reading)
    BY PlacesDiffer DEF Pointing
  <2> QED BY <1>2, <2>1, TakesNone DEF DrawsAhead
<1>5. IndicesNoted
  BY DEF IndicesNoted
<1>6. Draw!QueuedDrawsExact
  BY DEF Draw!QueuedDrawsExact
<1> QED BY <1>3, <1>4, <1>5, <1>6 DEF DrawInv

LEMMA DrawRender ==
  ASSUME DrawInv, Draw!Render
  PROVE  DrawInv'
<1> USE DEF Draw!Render, Draw!attributes, Draw!buffers
<1>1. draws \in Seq(VertexCall) /\ draws # <<>>
  BY DEF DrawInv, DrawType
<1>2. PICK end \in AttribState : Takes(VertexStep, reading, draws, end) /\ Pointing(end)
  BY DEF DrawInv, DrawsAhead
<1>3. PICK y : <<reading, Head(draws), y>> \in VertexStep /\ Takes(VertexStep, y, Tail(draws), end)
  BY <1>1, <1>2, TakesRest
<1>4. /\ y = Draw!Apply(reading, Head(draws)) /\ y \in AttribState
      /\ Head(draws).f = "draw" => Reads(reading, Head(draws))
  BY <1>3 DEF VertexStep
<1>5. reading' \in AttribState /\ Takes(VertexStep, reading', draws', end)
  BY <1>3, <1>4
<1>6. wrong' = wrong
  BY <1>4, ReadsAreTrue
<1>7. draws' \in Seq(VertexCall)
  BY <1>1
<1>8. DrawType'
  BY <1>5, <1>7 DEF DrawInv, DrawType
<1>9. DrawsAhead'
  BY <1>2, <1>5 DEF DrawsAhead, Pointing
<1> QED BY <1>6, <1>8, <1>9 DEF DrawInv, IndicesNoted, Draw!QueuedDrawsExact

LEMMA DrawWrite ==
  ASSUME DrawInv, Draw!Write
  PROVE  DrawInv'
<1> USE DEF Draw!Write, Draw!attributes, Draw!buffers
<1>1. memory' \in [Arrays -> Nat]
  BY DEF DrawInv, DrawType
<1>2. DrawType'
  BY <1>1 DEF DrawInv, DrawType
<1>3. DrawsAhead'
  BY DEF DrawInv, DrawsAhead, Pointing
<1> QED BY <1>2, <1>3 DEF DrawInv, IndicesNoted, Draw!QueuedDrawsExact

LEMMA DrawPointer ==
  ASSUME DrawInv, Draw!glVertexAttribPointer_e, Draw!ConstantsSane
  PROVE  DrawInv'
<1>1. PICK i \in Draw!Attrs, a \in Arrays :
        /\ s_attr_client' = IF g_cur_arraybuf THEN s_attr_client \ {i} ELSE s_attr_client \cup {i}
        /\ s_attr' = IF i \in Near THEN [s_attr EXCEPT ![i] = a] ELSE s_attr
        /\ pointed' = [pointed EXCEPT ![i] = IF g_cur_arraybuf THEN Draw!InBuffer ELSE Draw!AtGame(a)]
        /\ Draw!Q(<<[f |-> "pointer", i |-> i, p |-> Draw!AtGame(a)]>>)
        /\ UNCHANGED <<reading, s_attr_en, g_cur_arraybuf, s_elembuf, g_idxmax, highest, memory, wrong>>
  BY DEF Draw!glVertexAttribPointer_e, Draw!buffers
<1>2. PICK end \in AttribState : Takes(VertexStep, reading, draws, end) /\ Pointing(end)
  BY DEF DrawInv, DrawsAhead
<1>3. /\ s_attr_client \in SUBSET Draw!Attrs /\ s_attr \in [Near -> Arrays \cup {None}]
      /\ pointed \in [Draw!Attrs -> Place] /\ g_cur_arraybuf \in BOOLEAN
  BY DEF DrawInv, DrawType
<1>4. Draw!AtGame(a) \in Place /\ Draw!InBuffer \in Place
  BY PlacesDiffer DEF Place
<1>0. PICK c : c = Pointer(i, Draw!AtGame(a))
  OBVIOUS
<1>5. PICK y \in AttribState :
        /\ <<end, c, y>> \in VertexStep /\ c \in VertexCall
        /\ y.bound = end.bound
        /\ y.attrib = [end.attrib EXCEPT ![i] = IF end.bound THEN Draw!InBuffer ELSE Draw!AtGame(a)]
  <2>1. PICK y \in AttribState : Moved(end, i, Draw!AtGame(a), y)
    BY <1>4, PointAttrib
  <2> QED BY <1>0, <2>1 DEF Moved
<1>6. draws' \in Seq(VertexCall) /\ reading' \in AttribState /\ Takes(VertexStep, reading', draws', y)
  <2>1. <<c>> \in Seq(VertexCall) /\ Takes(VertexStep, end, <<c>>, y)
    BY <1>5, TakesOne
  <2> QED BY <1>0, <1>1, <1>2, <1>5, <2>1, QueueVertex DEF Pointer
<1>7. DrawType'
  <2>1. s_attr_client' \in SUBSET Draw!Attrs /\ s_attr' \in [Near -> Arrays \cup {None}]
    BY <1>1, <1>3
  <2>2. pointed' \in [Draw!Attrs -> Place]
    BY <1>1, <1>3, <1>4
  <2> QED BY <1>1, <1>6, <2>1, <2>2 DEF DrawInv, DrawType
<1>8. Pointing(y)'
  <2>1. y.bound = g_cur_arraybuf'
    BY <1>1, <1>2, <1>5 DEF Pointing
  <2>2. ASSUME NEW j \in Draw!Attrs
        PROVE  IF j \in s_attr_client' THEN pointed'[j].at = "game"
               ELSE pointed'[j].at # "game" /\ y.attrib[j] = pointed'[j]
    <3>1. CASE j = i
      BY <1>1, <1>2, <1>3, <1>5, <3>1, PlacesDiffer DEF Pointing, AttribState
    <3>2. CASE j # i
      <4>1. pointed'[j] = pointed[j] /\ y.attrib[j] = end.attrib[j]
            /\ (j \in s_attr_client' <=> j \in s_attr_client)
        BY <1>1, <1>3, <1>5, <3>2 DEF AttribState
      <4> QED BY <1>2, <4>1 DEF Pointing
    <3> QED BY <3>1, <3>2
  <2>3. ASSUME NEW j \in Near \cap s_attr_client' PROVE pointed'[j] = Draw!AtGame(s_attr'[j])
    <3>0. j \in Draw!Attrs
      BY DEF Draw!Attrs
    <3>1. CASE j = i
      BY <1>1, <1>3, <2>3, <3>0, <3>1
    <3>2. CASE j # i
      <4>1. pointed'[j] = pointed[j] /\ s_attr'[j] = s_attr[j] /\ j \in s_attr_client
        BY <1>1, <1>3, <2>3, <3>0, <3>2
      <4> QED BY <1>2, <2>3, <4>1 DEF Pointing
    <3> QED BY <3>1, <3>2
  <2> QED BY <2>1, <2>2, <2>3 DEF Pointing, Draw!AtGame
<1>9. DrawsAhead'
  BY <1>5, <1>6, <1>8 DEF DrawsAhead
<1> QED BY <1>1, <1>7, <1>9 DEF DrawInv, IndicesNoted, Draw!QueuedDrawsExact

LEMMA DrawBind ==
  ASSUME DrawInv, Draw!glBindBuffer_e
  PROVE  DrawInv'
<1>1. ASSUME NEW on \in BOOLEAN, g_cur_arraybuf' = on, Draw!Q(<<Draw!Bind(on)>>),
             UNCHANGED <<reading, Draw!attributes, s_elembuf, g_idxmax, memory, highest, wrong>>
      PROVE  DrawInv'
  <2>1. PICK end \in AttribState : Takes(VertexStep, reading, draws, end) /\ Pointing(end)
    BY DEF DrawInv, DrawsAhead
  <2>0. PICK c : c = Draw!Bind(on)
    OBVIOUS
  <2>2. PICK y \in AttribState : /\ <<end, c, y>> \in VertexStep
                                 /\ c \in VertexCall /\ y.bound = on /\ y.attrib = end.attrib
    BY <2>0, BindAttrib
  <2>3. draws' \in Seq(VertexCall) /\ reading' \in AttribState /\ Takes(VertexStep, reading', draws', y)
    <3>1. <<c>> \in Seq(VertexCall) /\ Takes(VertexStep, end, <<c>>, y)
      BY <2>2, TakesOne
    <3> QED BY <1>1, <2>0, <2>1, <2>2, <3>1, QueueVertex
  <2>4. DrawType'
    BY <1>1, <2>3 DEF DrawInv, DrawType, Draw!attributes
  <2>5. DrawsAhead'
    BY <1>1, <2>1, <2>2, <2>3 DEF DrawsAhead, Pointing, Draw!attributes
  <2> QED BY <1>1, <2>4, <2>5 DEF DrawInv, IndicesNoted, Draw!QueuedDrawsExact
<1>2. ASSUME NEW b \in Buffers \cup {None}, s_elembuf' = b,
             UNCHANGED <<reading, draws, Draw!attributes, g_cur_arraybuf, g_idxmax, memory, highest, wrong>>
      PROVE  DrawInv'
  BY <1>2 DEF DrawInv, DrawType, DrawsAhead, Pointing, IndicesNoted, Draw!QueuedDrawsExact, Draw!attributes
<1> QED BY <1>1, <1>2 DEF Draw!glBindBuffer_e

LEMMA DrawEnable ==
  ASSUME DrawInv, Draw!EnableArray_q
  PROVE  DrawInv'
BY DEF DrawInv, DrawType, DrawsAhead, Pointing, IndicesNoted, Draw!QueuedDrawsExact, Draw!EnableArray_q,
       Draw!buffers

\* The game fills a buffer, or part of it: the figure stays a bound.
LEMMA IndicesStep ==
  ASSUME DrawInv, Draw!ConstantsSane, s_elembuf # None, NEW m \in 0 .. Top, NEW h \in 0 .. Top,
         NEW replace \in BOOLEAN,
         h = m \/ (~replace /\ h >= m /\ h =< highest[s_elembuf]),
         g_idxmax' = Draw!idxmax_note(s_elembuf, m, replace),
         highest' = [highest EXCEPT ![s_elembuf] = h]
  PROVE  /\ IndicesNoted' /\ highest' \in [Buffers -> -1 .. Top]
         /\ DOMAIN g_idxmax' \subseteq Buffers /\ \A b \in DOMAIN g_idxmax' : g_idxmax'[b] \in Nat
<1>1. /\ s_elembuf \in Buffers /\ highest \in [Buffers -> -1 .. Top] /\ DOMAIN g_idxmax \subseteq Buffers
      /\ \A b \in DOMAIN g_idxmax : g_idxmax[b] \in Nat
      /\ m \in Nat /\ h \in Nat
  BY DEF DrawInv, DrawType, Draw!ConstantsSane
<1>2. highest' \in [Buffers -> -1 .. Top] /\ \A b \in Buffers : highest'[b] = IF b = s_elembuf THEN h ELSE highest[b]
  BY <1>1 DEF Draw!ConstantsSane
<1>3. CASE s_elembuf \notin DOMAIN g_idxmax /\ Draw!Cardinality(DOMAIN g_idxmax) >= IdxSlots
  <2>1. g_idxmax' = g_idxmax
    BY <1>3 DEF Draw!idxmax_note, Draw!Slotted
  <2> QED BY <1>1, <1>2, <1>3, <2>1 DEF IndicesNoted, DrawInv
<1>4. CASE ~(s_elembuf \notin DOMAIN g_idxmax /\ Draw!Cardinality(DOMAIN g_idxmax) >= IdxSlots)
  <2>1. g_idxmax' = [x \in DOMAIN g_idxmax \cup {s_elembuf} |->
                      IF x # s_elembuf THEN g_idxmax[x]
                      ELSE IF replace \/ s_elembuf \notin DOMAIN g_idxmax THEN m
                      ELSE Draw!Larger(g_idxmax[s_elembuf], m)]
    BY <1>4 DEF Draw!idxmax_note, Draw!Slotted
  <2>2. /\ DOMAIN g_idxmax' = DOMAIN g_idxmax \cup {s_elembuf}
        /\ \A x \in DOMAIN g_idxmax : x # s_elembuf => g_idxmax'[x] = g_idxmax[x]
        /\ g_idxmax'[s_elembuf] = IF replace \/ s_elembuf \notin DOMAIN g_idxmax THEN m
                                  ELSE Draw!Larger(g_idxmax[s_elembuf], m)
    BY <2>1
  <2>3. g_idxmax'[s_elembuf] \in Nat /\ g_idxmax'[s_elembuf] >= h
    <3>1. CASE replace
      BY <1>1, <2>2, <3>1
    <3>2. CASE ~replace /\ s_elembuf \notin DOMAIN g_idxmax
      <4>1. ~(highest[s_elembuf] >= 0)
        BY <1>1, <1>4, <3>2 DEF DrawInv, IndicesNoted
      <4>2. h = m
        BY <1>1, <4>1
      <4> QED BY <1>1, <2>2, <3>2, <4>2
    <3>3. CASE ~replace /\ s_elembuf \in DOMAIN g_idxmax
      <4>1. PICK old \in Nat : old = g_idxmax[s_elembuf]
        BY <1>1, <3>3
      <4>2. highest[s_elembuf] >= 0 => old >= highest[s_elembuf]
        BY <1>1, <3>3, <4>1 DEF DrawInv, IndicesNoted
      <4>3. Draw!Larger(old, m) \in Nat /\ Draw!Larger(old, m) >= old /\ Draw!Larger(old, m) >= m
        BY <1>1 DEF Draw!Larger
      <4> QED BY <1>1, <2>2, <3>3, <4>1, <4>2, <4>3
    <3> QED BY <3>1, <3>2, <3>3
  <2>4. \A b \in DOMAIN g_idxmax' : g_idxmax'[b] \in Nat
    BY <1>1, <2>2, <2>3
  <2>5. ASSUME NEW b \in Buffers, highest'[b] >= 0
        PROVE  IF b \in DOMAIN g_idxmax' THEN g_idxmax'[b] >= highest'[b]
               ELSE Draw!Cardinality(DOMAIN g_idxmax') >= IdxSlots
    <3>1. CASE b = s_elembuf
      BY <1>2, <2>2, <2>3, <3>1
    <3>2. CASE b # s_elembuf
      <4>1. highest'[b] = highest[b]
        BY <1>2, <3>2
      <4>2. CASE b \in DOMAIN g_idxmax
        BY <2>2, <2>5, <3>2, <4>1, <4>2 DEF DrawInv, IndicesNoted
      <4>3. CASE b \notin DOMAIN g_idxmax
        <5>1. Draw!Cardinality(DOMAIN g_idxmax) >= IdxSlots
          BY <2>5, <4>1, <4>3 DEF DrawInv, IndicesNoted
        <5>2. s_elembuf \in DOMAIN g_idxmax
          BY <1>4, <5>1
        <5>3. DOMAIN g_idxmax' = DOMAIN g_idxmax
          BY <2>2, <5>2
        <5> QED BY <4>3, <5>1, <5>3
      <4> QED BY <4>2, <4>3
    <3> QED BY <3>1, <3>2
  <2> QED BY <1>1, <1>2, <2>2, <2>4, <2>5 DEF IndicesNoted
<1> QED BY <1>3, <1>4

LEMMA DrawFill ==
  ASSUME DrawInv, Draw!glBufferData_e \/ Draw!glBufferSubData_q, Draw!ConstantsSane
  PROVE  DrawInv'
<1>1. /\ UNCHANGED <<reading, draws, Draw!attributes, g_cur_arraybuf, s_elembuf, memory, wrong>>
      /\ s_elembuf # None
  BY DEF Draw!glBufferData_e, Draw!glBufferSubData_q
<1>2. /\ IndicesNoted' /\ highest' \in [Buffers -> -1 .. Top]
      /\ DOMAIN g_idxmax' \subseteq Buffers /\ \A b \in DOMAIN g_idxmax' : g_idxmax'[b] \in Nat
  <2>1. CASE Draw!glBufferData_e
    <3>1. PICK m \in 0 .. Top : /\ g_idxmax' = Draw!idxmax_note(s_elembuf, m, TRUE)
                                /\ highest' = [highest EXCEPT ![s_elembuf] = m]
      BY <2>1 DEF Draw!glBufferData_e
    <3> QED BY <1>1, <3>1, IndicesStep
  <2>2. CASE Draw!glBufferSubData_q
    <3>1. PICK m \in 0 .. Top, left \in 0 .. Top :
            /\ left =< highest[s_elembuf]
            /\ g_idxmax' = Draw!idxmax_note(s_elembuf, m, FALSE)
            /\ highest' = [highest EXCEPT ![s_elembuf] = Draw!Larger(m, left)]
      BY <2>2 DEF Draw!glBufferSubData_q
    <3>2. PICK h \in 0 .. Top : /\ h = Draw!Larger(m, left)
                                /\ h = m \/ (h = left /\ h >= m)
      BY DEF Draw!Larger, Draw!ConstantsSane
    <3> QED BY <1>1, <3>1, <3>2, IndicesStep
  <2> QED BY <2>1, <2>2
<1>3. DrawType'
  BY <1>1, <1>2 DEF DrawInv, DrawType, Draw!attributes
<1>4. DrawsAhead'
  BY <1>1 DEF DrawInv, DrawsAhead, Pointing, Draw!attributes
<1> QED BY <1>1, <1>2, <1>3, <1>4 DEF DrawInv, Draw!QueuedDrawsExact

-----------------------------------------------------------------------------
(* A draw.                                                                 *)

\* A finite set laid out as a sequence: each element once, so all of them.
LEMMA LaidOut ==
  ASSUME NEW S, IsFiniteSet(S)
  PROVE  /\ Draw!SetToSeq(S) \in Seq(S)
         /\ \A x \in S : \E k \in 1 .. Len(Draw!SetToSeq(S)) : Draw!SetToSeq(S)[k] = x
<1> DEFINE n == Cardinality(S)
           f == Draw!SetToSeq(S)
<1>1. n \in Nat
  BY FS_CardinalityType
<1>2. \E g0 \in [1 .. n -> S] : Draw!IsInjective(g0)
  <2>1. PICK b \in Bijection(1 .. n, S) : TRUE
    BY FS_CardinalityType DEF ExistsBijection
  <2> QED BY <2>1 DEF Bijection, Injection, IsInjective, Draw!IsInjective
<1>3. f \in [1 .. n -> S] /\ Draw!IsInjective(f)
  <2>1. f = CHOOSE g0 \in [1 .. n -> S] : Draw!IsInjective(g0)
    BY DEF Draw!SetToSeq, Draw!Cardinality, Cardinality
  <2> HIDE DEF f, n
  <2> QED BY <1>2, <2>1
<1> HIDE DEF f, n
<1>4. f \in Seq(S) /\ Len(f) = n
  BY <1>1, <1>3
<1>5. ASSUME NEW x \in S, \A k \in 1 .. n : f[k] # x PROVE FALSE
  <2>1. f \in Injection(1 .. n, S \ {x})
    BY <1>1, <1>3, <1>5 DEF Injection, IsInjective, Draw!IsInjective
  <2>2. IsFiniteSet(S \ {x}) /\ Cardinality(S \ {x}) = n - 1
    BY <1>5, FS_RemoveElement DEF n
  <2>3. IsFiniteSet(1 .. n) /\ Cardinality(1 .. n) = n
    BY <1>1, FS_Interval
  <2>4. Cardinality(1 .. n) =< Cardinality(S \ {x})
    BY <2>1, <2>2, FS_Injection DEF ExistsInjection
  <2> QED BY <1>1, <2>2, <2>3, <2>4
<1>6. \A x \in S : \E k \in 1 .. Len(f) : f[k] = x
  BY <1>4, <1>5
<1> QED BY <1>4, <1>6 DEF f

\* Pointers set one after the other, at most one of them for an attribute: the order does not matter.
Pointers(C, to) == {Pointer(i, to[i]) : i \in C}

\* The attributes in C of x pointed where `to' says makes it y.
AllMoved(x, C, to, cs, y) ==
  /\ Takes(VertexStep, x, cs, y) /\ ~y.bound
  /\ \A i \in Draw!Attrs : y.attrib[i] = IF i \in C THEN to[i] ELSE x.attrib[i]

LEMMA PointersTake ==
  ASSUME NEW x \in AttribState, ~x.bound, NEW C, C \subseteq Draw!Attrs, NEW to, to \in [C -> Place],
         NEW cs, cs \in Seq(Pointers(C, to)), \A c \in Pointers(C, to) : \E k \in 1 .. Len(cs) : cs[k] = c
  PROVE  cs \in Seq(VertexCall) /\ \E y \in AttribState : AllMoved(x, C, to, cs, y)
<1> DEFINE n == Len(cs)
           Given(i, k) == \E m \in 1 .. k : cs[m].i = i
           at(k) == [i \in Draw!Attrs |-> IF Given(i, k) THEN to[i] ELSE x.attrib[i]]
           st == [k \in 0 .. n |-> [bound |-> FALSE, attrib |-> at(k)]]
<1>1. n \in Nat
  OBVIOUS
<1>2. ASSUME NEW k \in 1 .. n
      PROVE  \E i \in C : cs[k] = Pointer(i, to[i]) /\ cs[k].i = i
  BY DEF Pointers, Pointer
<1>3. \A k \in 1 .. n : cs[k].i \in C /\ cs[k].f = "pointer" /\ cs[k].p = to[cs[k].i] /\ cs[k] \in VertexCall
  <2> SUFFICES ASSUME NEW k \in 1 .. n
               PROVE  cs[k].i \in C /\ cs[k].f = "pointer" /\ cs[k].p = to[cs[k].i] /\ cs[k] \in VertexCall
    OBVIOUS
  <2>1. PICK i \in C : cs[k] = Pointer(i, to[i])
    BY <1>2
  <2>2. cs[k] \in PointerCall
    BY <2>1 DEF PointerCall, Pointer
  <2> QED BY <2>1, <2>2 DEF VertexCall, Pointer
<1>4. cs \in Seq(VertexCall)
  <2>1. cs \in [1 .. n -> VertexCall]
    BY <1>3
  <2> QED BY <1>1, <2>1
<1>5. \A k \in 0 .. n : \A i \in Draw!Attrs : Given(i, k) => i \in C
  BY <1>1, <1>3
<1>6. \A k \in 0 .. n : st[k] \in AttribState /\ st[k].bound = FALSE /\ st[k].attrib = at(k)
  <2> SUFFICES ASSUME NEW k \in 0 .. n
               PROVE  st[k] \in AttribState /\ st[k].bound = FALSE /\ st[k].attrib = at(k)
    OBVIOUS
  <2>1. \A i \in Draw!Attrs : (IF Given(i, k) THEN to[i] ELSE x.attrib[i]) \in Place
    <3> HIDE DEF Given
    <3> QED BY <1>5 DEF AttribState
  <2>2. at(k) \in [Draw!Attrs -> Place]
    BY <2>1
  <2> HIDE DEF at
  <2> QED BY <2>2 DEF AttribState
<1>7. st[0] = x
  <2>1. \A i \in Draw!Attrs : ~Given(i, 0)
    OBVIOUS
  <2> HIDE DEF Given
  <2>2. at(0) = x.attrib
    BY <2>1 DEF AttribState
  <2>3. st[0] = [bound |-> FALSE, attrib |-> at(0)]
    BY <1>1
  <2>4. x = [bound |-> FALSE, attrib |-> x.attrib]
    BY DEF AttribState
  <2> QED BY <2>2, <2>3, <2>4
<1>8. ASSUME NEW k \in 1 .. n PROVE <<st[k - 1], cs[k], st[k]>> \in VertexStep
  <2>1. k - 1 \in 0 .. n /\ k \in 0 .. n
    BY <1>1
  <2>2. PICK j \in C : j = cs[k].i /\ cs[k].f = "pointer" /\ cs[k].p = to[j] /\ cs[k] \in VertexCall
    BY <1>3
  <2>3. \A i \in Draw!Attrs : Given(i, k) <=> (Given(i, k - 1) \/ i = j)
    <3>1. \A m \in 1 .. k : m = k \/ m \in 1 .. k - 1
      BY <1>1
    <3>2. \A m \in 1 .. k - 1 : m \in 1 .. k
      BY <1>1
    <3>3. k \in 1 .. k
      BY <1>1
    <3> QED BY <2>2, <3>1, <3>2, <3>3
  <2>4. at(k) = [at(k - 1) EXCEPT ![j] = to[j]]
    <3> HIDE DEF Given
    <3>1. \A i \in Draw!Attrs : at(k)[i] = IF i = j THEN to[j] ELSE at(k - 1)[i]
      BY <2>3
    <3> QED BY <2>3, <3>1
  <2> HIDE DEF at
  <2>5. st[k - 1] \in AttribState /\ ~st[k - 1].bound /\ st[k - 1].attrib = at(k - 1)
        /\ st[k] \in AttribState /\ ~st[k].bound /\ st[k].attrib = at(k)
    BY <1>6, <2>1
  <2> HIDE DEF st
  <2>6. to[j] \in Place /\ j \in Draw!Attrs /\ cs[k] = Pointer(j, to[j])
    <3>1. PICK i \in C : cs[k] = Pointer(i, to[i]) /\ cs[k].i = i
      BY <1>2
    <3> QED BY <2>2, <3>1
  <2>7. PICK v \in AttribState : v = st[k - 1] /\ ~v.bound /\ v.attrib = at(k - 1)
    BY <2>5
  <2>8. PICK w \in AttribState : w = st[k] /\ ~w.bound /\ w.attrib = at(k)
    BY <2>5
  <2>9. PICK y \in AttribState :
          /\ <<v, cs[k], y>> \in VertexStep /\ y.bound = v.bound
          /\ y.attrib = [v.attrib EXCEPT ![j] = IF v.bound THEN Draw!InBuffer ELSE to[j]]
    <3>1. PICK y \in AttribState : Moved(v, j, to[j], y)
      BY <2>6, PointAttrib
    <3> QED BY <2>6, <3>1 DEF Moved
  <2>10. y.bound = w.bound /\ y.attrib = w.attrib
    <3>1. y.bound = w.bound
      BY <2>7, <2>8, <2>9 DEF AttribState
    <3> QED BY <2>4, <2>7, <2>8, <2>9, <3>1
  <2>11. y = w
    BY <2>10 DEF AttribState
  <2> QED BY ONLY <2>7, <2>8, <2>9, <2>11
<1>9. \A i \in Draw!Attrs : st[n].attrib[i] = IF i \in C THEN to[i] ELSE x.attrib[i]
  <2>1. ASSUME NEW i \in C PROVE Given(i, n)
    <3>1. PICK k \in 1 .. n : cs[k] = Pointer(i, to[i])
      BY DEF Pointers
    <3>2. cs[k].i = i
      BY <3>1 DEF Pointer
    <3> QED BY <3>2
  <2>0. n \in 0 .. n
    BY <1>1
  <2>2. st[n].attrib = at(n)
    <3> HIDE DEF st, at, n
    <3> QED BY <1>6, <2>0
  <2>3. \A i \in Draw!Attrs : Given(i, n) <=> i \in C
    <3> HIDE DEF Given, n
    <3> QED BY <1>5, <2>0, <2>1
  <2> HIDE DEF Given, st
  <2> QED BY <2>2, <2>3
<1>10. n \in 0 .. n
  BY <1>1
<1> HIDE DEF st
<1> QED BY <1>4, <1>6, <1>7, <1>8, <1>9, <1>10 DEF Takes, Run, AllMoved

\* The copies are set and whatever buffer was bound is bound again: the client attributes are
\* at copies of n vertices of the present, the others as they were.
LEMMA CopiesTake ==
  ASSUME DrawInv, Draw!ConstantsSane, NEW n \in Nat, Draw!Copyable(n),
         NEW end \in AttribState, Pointing(end)
  PROVE  /\ Draw!Copies(n) \in Seq(VertexCall)
         /\ \E y \in AttribState :
              /\ Takes(VertexStep, end, Draw!Copies(n), y) /\ y.bound = end.bound
              /\ \A i \in Draw!Attrs :
                   y.attrib[i] = IF i \in Draw!Client THEN Draw!AtCopy(s_attr[i], n) ELSE end.attrib[i]
<1>1. /\ Draw!Client \in SUBSET Draw!Attrs /\ Draw!Client \subseteq Near
      /\ \A i \in Draw!Client : s_attr[i] \in Arrays
      /\ memory \in [Arrays -> Nat] /\ g_cur_arraybuf \in BOOLEAN
  BY DEF DrawInv, DrawType, Draw!Copyable, Draw!Client
<1> DEFINE C == Draw!Client
           to == [i \in C |-> Draw!AtCopy(s_attr[i], n)]
           S == Pointers(C, to)
           S0 == {[f |-> "pointer", i |-> i, p |-> Draw!AtCopy(s_attr[i], n)] : i \in C}
           cs == Draw!SetToSeq(S)
<1>2. to \in [C -> Place]
  BY <1>1 DEF Place, CopyOf, Draw!AtCopy
<1>3. S = S0
  BY DEF Pointers, Pointer
<1>4. IsFiniteSet(S)
  <2>1. IsFiniteSet(Near)
    BY DEF Draw!ConstantsSane, Draw!IsFiniteSet, IsFiniteSet
  <2>2. IsFiniteSet(C)
    BY <1>1, <2>1, FS_Subset
  <2> DEFINE f == [i \in C |-> Pointer(i, to[i])]
  <2>3. f \in Surjection(C, S)
    BY DEF Surjection, Pointers
  <2> HIDE DEF f, S, C
  <2> QED BY <2>2, <2>3, FS_Surjection
<1>5. cs \in Seq(S) /\ \A x \in S : \E k \in 1 .. Len(cs) : cs[k] = x
  <2> HIDE DEF S
  <2> QED BY <1>4, LaidOut
<1>7. Draw!Copies(n) = Draw!Unbound(cs)
  BY <1>3 DEF Draw!Copies
<1>8. ASSUME NEW x \in AttribState, ~x.bound
      PROVE  cs \in Seq(VertexCall) /\ \E y \in AttribState : AllMoved(x, C, to, cs, y)
  <2>1. C \subseteq Draw!Attrs
    BY <1>1
  <2>2. cs \in Seq(Pointers(C, to)) /\ \A c \in Pointers(C, to) : \E k \in 1 .. Len(cs) : cs[k] = c
    BY <1>5
  <2> HIDE DEF cs, to, C, S
  <2> QED BY <1>2, <1>8, <2>1, <2>2, PointersTake
<1>9. \A i \in C : to[i] = Draw!AtCopy(s_attr[i], n)
  OBVIOUS
<1>10. end.bound = g_cur_arraybuf
  BY DEF Pointing
<1> HIDE DEF cs, to, S, C
<1>11. CASE ~g_cur_arraybuf
  <2>1. Draw!Copies(n) = cs
    BY <1>7, <1>11 DEF Draw!Unbound
  <2>2. PICK y \in AttribState :
          /\ cs \in Seq(VertexCall) /\ Takes(VertexStep, end, cs, y) /\ ~y.bound
          /\ \A i \in Draw!Attrs : y.attrib[i] = IF i \in C THEN to[i] ELSE end.attrib[i]
    BY <1>8, <1>10, <1>11 DEF AllMoved
  <2>3. y.bound = end.bound
    BY <1>10, <1>11, <2>2 DEF AttribState
  <2> QED BY <1>9, <2>1, <2>2, <2>3 DEF C
<1>12. CASE g_cur_arraybuf
  <2>1. Draw!Copies(n) = <<Draw!Bind(FALSE)>> \o cs \o <<Draw!Bind(TRUE)>>
    BY <1>7, <1>12 DEF Draw!Unbound
  <2>2. PICK x \in AttribState :
          /\ <<end, Draw!Bind(FALSE), x>> \in VertexStep /\ Draw!Bind(FALSE) \in VertexCall
          /\ x.bound = FALSE /\ x.attrib = end.attrib
    BY BindAttrib
  <2>3. PICK z \in AttribState :
          /\ cs \in Seq(VertexCall) /\ Takes(VertexStep, x, cs, z) /\ ~z.bound
          /\ \A i \in Draw!Attrs : z.attrib[i] = IF i \in C THEN to[i] ELSE x.attrib[i]
    BY <1>8, <2>2 DEF AllMoved
  <2>4. PICK y \in AttribState :
          /\ <<z, Draw!Bind(TRUE), y>> \in VertexStep /\ Draw!Bind(TRUE) \in VertexCall
          /\ y.bound = TRUE /\ y.attrib = z.attrib
    BY BindAttrib
  <2>5. PICK c : c = Draw!Bind(FALSE)
    OBVIOUS
  <2>6. PICK d : d = Draw!Bind(TRUE)
    OBVIOUS
  <2>7. c \in VertexCall /\ d \in VertexCall
    BY <2>2, <2>4, <2>5, <2>6, Zenon
  <2>8. <<c>> \in Seq(VertexCall) /\ <<d>> \in Seq(VertexCall)
    BY <2>7
  <2>9. Takes(VertexStep, end, <<c>>, x) /\ Takes(VertexStep, z, <<d>>, y)
    BY <2>2, <2>4, <2>5, <2>6, TakesOne
  <2>10. PICK e \in Seq(VertexCall) : e = <<c>> \o cs /\ Takes(VertexStep, end, e, z)
    <3>1. <<c>> \o cs \in Seq(VertexCall)
      BY <2>3, <2>8
    <3>2. Takes(VertexStep, end, <<c>> \o cs, z)
      BY <2>3, <2>8, <2>9, TakesMore
    <3> QED BY <3>1, <3>2
  <2>14. Takes(VertexStep, end, e \o <<d>>, y) /\ e \o <<d>> \in Seq(VertexCall)
    <3>1. e \o <<d>> \in Seq(VertexCall)
      BY <2>8
    <3>2. Takes(VertexStep, end, e \o <<d>>, y)
      BY <2>8, <2>9, <2>10, TakesMore
    <3> QED BY <3>1, <3>2
  <2>11. Draw!Copies(n) = e \o <<d>>
    BY <2>1, <2>5, <2>6, <2>10
  <2>12. y.bound = end.bound
    BY <1>10, <1>12, <2>4
  <2>13. \A i \in Draw!Attrs :
           y.attrib[i] = IF i \in Draw!Client THEN Draw!AtCopy(s_attr[i], n) ELSE end.attrib[i]
    BY <1>9, <2>2, <2>3, <2>4 DEF C
  <2> QED BY <2>11, <2>12, <2>13, <2>14
<1> QED BY <1>1, <1>11, <1>12

\* A draw at the end of the queue, where it reads what it should.
LEMMA DrawTakes ==
  ASSUME DrawInv, NEW x \in AttribState, NEW n \in Nat, Reads(x, Draw!Draw(n))
  PROVE  Draw!Draw(n) \in VertexCall /\ <<x, Draw!Draw(n), x>> \in VertexStep
<1> DEFINE d == Draw!Draw(n)
           w == [i \in s_attr_en |-> pointed[i]]
<1>1. w \in UNION {[E -> Place] : E \in SUBSET Draw!Attrs} /\ memory \in [Arrays -> Nat]
  <2>1. s_attr_en \in SUBSET Draw!Attrs /\ pointed \in [Draw!Attrs -> Place] /\ memory \in [Arrays -> Nat]
    BY DEF DrawInv, DrawType
  <2>2. w \in [s_attr_en -> Place]
    BY <2>1
  <2> QED BY <2>1, <2>2
<1>2. d = [f |-> "draw", want |-> w, version |-> memory, verts |-> n]
  BY DEF Draw!Draw
<1> HIDE DEF w
<1>3. d \in VertexCall /\ d.f = "draw"
  BY <1>1, <1>2 DEF VertexCall, DrawCall
<1> HIDE DEF d
<1>4. Draw!Apply(x, d) = x
  BY <1>3 DEF Draw!Apply
<1>5. Reads(x, d)
  BY DEF d
<1>6. <<x, d, x>> \in VertexStep
  BY <1>3, <1>4, <1>5 DEF VertexStep
<1> QED BY <1>3, <1>6 DEF d

\* Without client arrays enabled a draw reads nothing of the game's.
LEMMA ReadsBuffers ==
  ASSUME DrawInv, NEW end \in AttribState, Pointing(end), Draw!Client = {}, NEW n \in Nat
  PROVE  Reads(end, Draw!Draw(n))
<1>1. ASSUME NEW i \in s_attr_en PROVE pointed[i].at # "game" /\ end.attrib[i] = pointed[i]
  BY <1>1 DEF DrawInv, DrawType, Pointing, Draw!Client
<1>2. PICK w : w = [i \in s_attr_en |-> pointed[i]]
  OBVIOUS
<1>3. Draw!Draw(n).want = w /\ DOMAIN w = s_attr_en /\ \A i \in s_attr_en : w[i] = pointed[i]
  BY <1>2 DEF Draw!Draw
<1> QED BY <1>1, <1>3 DEF Reads

\* With the client arrays copied a draw of no more vertices reads the copies.
LEMMA ReadsCopies ==
  ASSUME DrawInv, NEW end \in AttribState, Pointing(end), NEW n \in Nat, NEW m \in Nat, n =< m,
         Draw!Copyable(m), NEW y \in AttribState,
         \A i \in Draw!Attrs :
           y.attrib[i] = IF i \in Draw!Client THEN Draw!AtCopy(s_attr[i], m) ELSE end.attrib[i]
  PROVE  Reads(y, Draw!Draw(n))
<1>1. s_attr_en \in SUBSET Draw!Attrs
  BY DEF DrawInv, DrawType
<1>2. PICK w : w = [i \in s_attr_en |-> pointed[i]]
  OBVIOUS
<1>3. PICK d : d = [f |-> "draw", want |-> w, version |-> memory, verts |-> n]
  OBVIOUS
<1>3a. d = Draw!Draw(n)
  BY <1>2, <1>3 DEF Draw!Draw
<1>3b. d.want = w /\ d.version = memory /\ d.verts = n
  BY <1>3
<1>4. DOMAIN w = s_attr_en /\ \A i \in s_attr_en : w[i] = pointed[i]
  BY <1>2
<1>5. ASSUME NEW i \in s_attr_en
      PROVE  IF w[i].at # "game" THEN y.attrib[i] = w[i]
             ELSE /\ y.attrib[i].at = "copy" /\ y.attrib[i].array = w[i].array
                  /\ y.attrib[i].version = memory[w[i].array] /\ y.attrib[i].verts >= n
  <2>1. CASE i \in s_attr_client
    <3>1. i \in Draw!Client /\ i \in Near \cap s_attr_client
      BY <2>1 DEF Draw!Client, Draw!Copyable
    <3>2a. pointed[i] = Draw!AtGame(s_attr[i])
      BY <3>1 DEF Pointing, DrawInv
    <3>2b. w[i] = Draw!AtGame(s_attr[i])
      BY <1>4, <3>2a
    <3>2. w[i].at = "game" /\ w[i].array = s_attr[i]
      BY <3>2b DEF Draw!AtGame
    <3>3. y.attrib[i] = Draw!AtCopy(s_attr[i], m)
      BY <1>1, <3>1
    <3>4. /\ y.attrib[i].at = "copy" /\ y.attrib[i].array = s_attr[i]
          /\ y.attrib[i].version = memory[s_attr[i]] /\ y.attrib[i].verts = m
      BY <3>3 DEF Draw!AtCopy
    <3> QED BY <3>2, <3>4
  <2>2. CASE i \notin s_attr_client
    <3>1. y.attrib[i] = end.attrib[i] /\ pointed[i].at # "game" /\ end.attrib[i] = pointed[i]
      BY <1>1, <2>2 DEF Pointing, Draw!Client
    <3> QED BY <1>4, <3>1
  <2> QED BY <2>1, <2>2
<1>6. Reads(y, d)
  BY <1>3b, <1>4, <1>5 DEF Reads
<1> QED BY <1>3a, <1>6

\* The game waits for the queue: what it finds there ran as it should.
LEMMA DrawWaits ==
  ASSUME DrawInv, NEW d, Draw!Waited(d), UNCHANGED Draw!drawing
  PROVE  DrawInv'
<1>1. PICK end \in AttribState : Takes(VertexStep, reading, draws, end) /\ Pointing(end)
  BY DEF DrawInv, DrawsAhead
<1>2. PICK st : st[0] = reading /\ st[Len(draws)] = end /\ Run(VertexStep, st, draws)
  BY <1>1 DEF Takes
<1>3. PICK n \in Nat : n = Len(draws) /\ DOMAIN draws = 1 .. n
  BY DEF DrawInv, DrawType
<1>4. ASSUME NEW i \in 1 .. n
      PROVE  st[i] = Draw!Apply(st[i - 1], draws[i]) /\ (draws[i].f = "draw" => Reads(st[i - 1], draws[i]))
  BY <1>2, <1>3 DEF Run, VertexStep
<1> DEFINE IsRun(r) == r = [i \in 0 .. n |-> IF i = 0 THEN reading ELSE Draw!Apply(r[i - 1], draws[i])]
<1>5. \E r : IsRun(r)
  <2> DEFINE r == [i \in 0 .. n |-> st[i]]
  <2>1. ASSUME NEW i \in 0 .. n PROVE r[i] = IF i = 0 THEN reading ELSE Draw!Apply(r[i - 1], draws[i])
    <3>1. CASE i = 0
      BY <1>2, <3>1
    <3>2. CASE i # 0
      <4>1. i \in 1 .. n /\ i - 1 \in 0 .. n
        BY <3>2
      <4> QED BY <1>4, <3>2, <4>1
    <3> QED BY <3>1, <3>2
  <2>2. r = [i \in 0 .. n |-> r[i]]
    OBVIOUS
  <2> HIDE DEF r
  <2>3. IsRun(r)
    BY <2>1, <2>2
  <2> QED BY <2>3
<1>6. IsRun(Draw!After)
  <2>1. Draw!After = CHOOSE r : IsRun(r)
    BY <1>3 DEF Draw!After
  <2> HIDE DEF IsRun
  <2> QED BY <1>5, <2>1
<1>7. \A i \in 0 .. n : Draw!After[i] = st[i]
  <2> PICK a : a = Draw!After /\ IsRun(a)
    BY <1>6
  <2> DEFINE S == {i \in 0 .. n : a[i] = st[i]}
  <2>1. 0 \in S
    BY <1>2
  <2>2. ASSUME NEW i \in 0 .. n, i \in S, i < n PROVE i + 1 \in S
    <3>1. i + 1 \in 1 .. n /\ i + 1 \in 0 .. n /\ (i + 1) - 1 = i
      BY <2>2
    <3>2. a[i + 1] = Draw!Apply(a[i], draws[i + 1])
      BY <3>1
    <3>3. st[i + 1] = Draw!Apply(st[i], draws[i + 1])
      BY <1>4, <3>1
    <3> QED BY <2>2, <3>1, <3>2, <3>3
  <2>3. \A i \in 0 .. n : i \in S
    <3> HIDE DEF S
    <3> QED BY <2>1, <2>2, CountsUp
  <2> QED BY <2>3
<1> HIDE DEF IsRun
<1>8. ASSUME NEW i \in 1 .. n, draws[i].f = "draw" PROVE Draw!ReadsTrue(Draw!After[i - 1], draws[i])
  <2>1. i - 1 \in 0 .. n
    OBVIOUS
  <2> QED BY <1>4, <1>7, <1>8, <2>1, ReadsAreTrue
<1>9. reading' = end /\ draws' = <<>> /\ "queued" \notin wrong'
  <2>1. n \in 0 .. n
    OBVIOUS
  <2>2. Draw!After[Len(draws)] = end
    BY <1>2, <1>3, <1>7, <2>1
  <2>3. {i \in DOMAIN draws : draws[i].f = "draw" /\ ~Draw!ReadsTrue(Draw!After[i - 1], draws[i])} = {}
    BY <1>3, <1>8
  <2>4. "queued" \notin wrong
    BY DEF DrawInv, Draw!QueuedDrawsExact
  <2> QED BY <2>2, <2>3, <2>4 DEF Draw!Waited
<1>10. DrawType'
  BY <1>9 DEF DrawInv, DrawType, Draw!drawing, Draw!attributes, Draw!buffers
<1>11. DrawsAhead'
  <2>1. Takes(VertexStep, reading', draws', end)
    BY <1>9, TakesNone
  <2> QED BY <1>1, <2>1 DEF DrawsAhead, Pointing, Draw!drawing, Draw!attributes, Draw!buffers
<1> QED BY <1>9, <1>10, <1>11
        DEF DrawInv, IndicesNoted, Draw!QueuedDrawsExact, Draw!drawing, Draw!attributes, Draw!buffers

\* Calls on the queue, the last of them a draw, after which the attributes are as they should.
LEMMA DrawQueued ==
  ASSUME DrawInv, NEW end \in AttribState, Takes(VertexStep, reading, draws, end),
         NEW cs \in Seq(VertexCall), NEW y \in AttribState, Takes(VertexStep, end, cs, y), Pointing(y),
         Draw!Queued(cs), UNCHANGED Draw!drawing
  PROVE  DrawInv'
<1>1. draws' \in Seq(VertexCall) /\ reading' \in AttribState /\ Takes(VertexStep, reading', draws', y)
  BY QueueVertex DEF Draw!Queued
<1>2. DrawType'
  BY <1>1 DEF DrawInv, DrawType, Draw!drawing, Draw!attributes, Draw!buffers
<1>3. DrawsAhead'
  BY <1>1 DEF DrawsAhead, Pointing, Draw!drawing, Draw!attributes, Draw!buffers
<1> QED BY <1>2, <1>3
        DEF DrawInv, IndicesNoted, Draw!QueuedDrawsExact, Draw!drawing, Draw!attributes, Draw!buffers, Draw!Queued

LEMMA DrawsBuffers ==
  ASSUME DrawInv, Draw!Client = {}, NEW n \in Nat, Draw!Queued(<<Draw!Draw(n)>>), UNCHANGED Draw!drawing
  PROVE  DrawInv'
<1>1. PICK end \in AttribState : Takes(VertexStep, reading, draws, end) /\ Pointing(end)
  BY DEF DrawInv, DrawsAhead
<1>2. Draw!Draw(n) \in VertexCall /\ <<end, Draw!Draw(n), end>> \in VertexStep
  BY <1>1, ReadsBuffers, DrawTakes
<1>3. PICK d : d = Draw!Draw(n)
  OBVIOUS
<1>4. <<d>> \in Seq(VertexCall) /\ Takes(VertexStep, end, <<d>>, end)
  BY <1>2, <1>3, TakesOne
<1> QED BY <1>1, <1>3, <1>4, DrawQueued

LEMMA DrawsClient ==
  ASSUME DrawInv, Draw!ConstantsSane, NEW n \in Nat, NEW m \in Nat, n =< m, Draw!DrawClient(n, m),
         UNCHANGED Draw!drawing
  PROVE  DrawInv'
<1>1. CASE ~Draw!Copyable(m)
  BY <1>1, DrawWaits DEF Draw!DrawClient
<1>2. CASE Draw!Copyable(m)
  <2>1. PICK end \in AttribState : Takes(VertexStep, reading, draws, end) /\ Pointing(end)
    BY DEF DrawInv, DrawsAhead
  <2>2. PICK y \in AttribState :
          /\ Draw!Copies(m) \in Seq(VertexCall)
          /\ Takes(VertexStep, end, Draw!Copies(m), y) /\ y.bound = end.bound
          /\ \A i \in Draw!Attrs :
               y.attrib[i] = IF i \in Draw!Client THEN Draw!AtCopy(s_attr[i], m) ELSE end.attrib[i]
    BY <1>2, <2>1, CopiesTake
  <2>3. PICK cs, d : cs = Draw!Copies(m) /\ d = Draw!Draw(n)
    OBVIOUS
  <2>4. d \in VertexCall /\ <<y, d, y>> \in VertexStep
    BY <1>2, <2>1, <2>2, <2>3, ReadsCopies, DrawTakes
  <2>5. Takes(VertexStep, end, Append(cs, d), y) /\ Append(cs, d) \in Seq(VertexCall)
    BY <2>2, <2>3, <2>4, TakesAppend
  <2>6. Pointing(y)
    <3>1. ASSUME NEW i \in Draw!Attrs, i \notin s_attr_client PROVE y.attrib[i] = end.attrib[i]
      BY <2>2, <3>1 DEF Draw!Client
    <3> QED BY <2>1, <2>2, <3>1 DEF Pointing
  <2>7. Draw!Queued(Append(cs, d))
    BY <1>2, <2>3 DEF Draw!DrawClient
  <2> QED BY <2>1, <2>5, <2>6, <2>7, DrawQueued
<1> QED BY <1>1, <1>2

LEMMA DrawDraw ==
  ASSUME DrawInv, Draw!ConstantsSane, Draw!glDrawArrays_t \/ Draw!glDrawElements_t
  PROVE  DrawInv'
<1>0. \A n \in 1 .. Top + 1 : n \in Nat /\ n =< n
  BY DEF Draw!ConstantsSane
<1>1. ASSUME NEW n \in 1 .. Top + 1, UNCHANGED Draw!drawing,
             IF Draw!Client # {} THEN Draw!DrawClient(n, n) ELSE Draw!Queued(<<Draw!Draw(n)>>)
      PROVE  DrawInv'
  BY <1>0, <1>1, DrawsClient, DrawsBuffers
<1>2. CASE Draw!glDrawArrays_t
  BY <1>1, <1>2 DEF Draw!glDrawArrays_t
<1>3. CASE Draw!glDrawElements_t
  <2>0. UNCHANGED Draw!drawing
    BY <1>3 DEF Draw!glDrawElements_t
  <2>1. CASE \E n \in 1 .. Top + 1 :
               IF Draw!Client # {} THEN Draw!DrawClient(n, n) ELSE Draw!Queued(<<Draw!Draw(n)>>)
    BY <1>1, <2>0, <2>1
  <2>2. ASSUME NEW short \in BOOLEAN, s_elembuf # None, highest[s_elembuf] >= 0,
               IF Draw!Client = {} THEN Draw!Queued(<<Draw!Draw(highest[s_elembuf] + 1)>>)
               ELSE IF short /\ Draw!Slotted(s_elembuf)
                    THEN Draw!DrawClient(highest[s_elembuf] + 1, g_idxmax[s_elembuf] + 1)
                    ELSE Draw!Waited(Draw!Draw(highest[s_elembuf] + 1))
        PROVE  DrawInv'
    <3>1. s_elembuf \in Buffers /\ highest[s_elembuf] \in -1 .. Top
      BY <2>2 DEF DrawInv, DrawType
    <3>2. PICK n \in Nat : n = highest[s_elembuf] + 1
      BY <2>2, <3>1 DEF Draw!ConstantsSane
    <3>3. CASE Draw!Client = {}
      BY <2>0, <2>2, <3>2, <3>3, DrawsBuffers
    <3>4. CASE Draw!Client # {} /\ short /\ Draw!Slotted(s_elembuf)
      <4>1. g_idxmax[s_elembuf] \in Nat /\ g_idxmax[s_elembuf] >= highest[s_elembuf]
        BY <2>2, <3>1, <3>4 DEF DrawInv, DrawType, IndicesNoted, Draw!Slotted
      <4>2. PICK m \in Nat : m = g_idxmax[s_elembuf] + 1 /\ n =< m
        BY <3>1, <3>2, <4>1 DEF Draw!ConstantsSane
      <4>3. Draw!DrawClient(n, m)
        BY <2>2, <3>2, <3>4, <4>2
      <4> QED BY <2>0, <4>2, <4>3, DrawsClient
    <3>5. CASE Draw!Client # {} /\ ~(short /\ Draw!Slotted(s_elembuf))
      BY <2>0, <2>2, <3>5, DrawWaits
    <3> QED BY <3>3, <3>4, <3>5
  <2> QED BY <1>3, <2>1, <2>2 DEF Draw!glDrawElements_t
<1> QED BY <1>2, <1>3

LEMMA DrawStep ==
  ASSUME DrawInv, Draw!Next, Draw!ConstantsSane
  PROVE  DrawInv'
BY DrawRender, DrawWrite, DrawEnable, DrawPointer, DrawBind, DrawFill, DrawDraw DEF Draw!Next

LEMMA DrawStutter ==
  ASSUME DrawInv, UNCHANGED vertices
  PROVE  DrawInv'
BY DEF DrawInv, DrawType, DrawsAhead, Pointing, IndicesNoted, Draw!QueuedDrawsExact, vertices

\* What is known of the attributes, the figures of the element buffers and the queued copies
\* holds in every reachable state, for any attributes, arrays, buffers and table sizes
\* (gl_patch.c:161-203, 506-624).
THEOREM DrawsInvariant == GraphicsSpec => []DrawInv
<1>1. GraphicsInit => DrawInv
  BY GraphicsAssumption, DrawInitInv DEF GraphicsInit
<1>2. DrawInv /\ [GraphicsNext]_all => DrawInv'
  BY GraphicsAssumption, DrawStep, DrawStutter DEF GraphicsNext, States, Texes, Draws, Programs, Boots, all
<1> QED BY <1>1, <1>2, PTL DEF GraphicsSpec

\* Whatever the game writes to its arrays after a draw, the queued draw reads what they held
\* when it was made, and never past the copies (gl_patch.c:506-512, 161-165).
THEOREM QueuedDrawsReadTheirOwn == GraphicsSpec => []QueuedDrawsExact
<1>1. DrawInv => QueuedDrawsExact
  BY DEF DrawInv, QueuedDrawsExact
<1> QED BY <1>1, DrawsInvariant, PTL

-----------------------------------------------------------------------------
(* Vertex programs. A program that is tracked is found: no slot its walk   *)
(* passes is empty, for as long as slots only turn into tombstones.        *)

Index == 0 .. Slots - 1
VpWords == {Gxm!NULL, Gxm!TOMB} \cup Gxm!Addrs
Slot == [vp : VpWords, id : Ids \cup {FixedId}, last : Nat, creates : Nat]

\* The n-th slot of the walk for vp is the first that holds one of `ends'.
Ends(slots, vp, ends, n) ==
  /\ n \in Index /\ slots[Gxm!At(vp, n)].vp \in ends
  /\ \A m \in 0 .. n - 1 : slots[Gxm!At(vp, m)].vp \notin ends

FoundAt(slots, vp, i) ==
  slots[i].vp = vp /\ \E n : Ends(slots, vp, {vp, Gxm!NULL}, n) /\ Gxm!At(vp, n) = i

Table(slots) ==
  slots \in [Index -> Slot] /\ \A i \in Gxm!Used(slots) : FoundAt(slots, slots[i].vp, i)

LEMMA WordFacts ==
  ASSUME Gxm!ConstantsSane
  PROVE  /\ VpWords \subseteq Nat /\ Gxm!NULL # Gxm!TOMB
         /\ Gxm!NULL \notin Gxm!Addrs /\ Gxm!TOMB \notin Gxm!Addrs
BY DEF Gxm!ConstantsSane, VpWords, Gxm!NULL, Gxm!TOMB, Gxm!Addrs

LEMMA AtIndex ==
  ASSUME Gxm!ConstantsSane, NEW vp \in VpWords, NEW n \in Nat
  PROVE  Gxm!At(vp, n) \in Index
<1>1. vp \in Nat /\ vp \div 2 \in Nat
  BY WordFacts
<1>2. PICK k \in Nat : k = vp \div 2 + n
  BY <1>1
<1>3. k % Slots \in 0 .. Slots - 1
  BY DivMod DEF Gxm!ConstantsSane
<1> QED BY <1>2, <1>3 DEF Gxm!At, Index

\* A walk comes to every slot.
LEMMA WalkCovers ==
  ASSUME Gxm!ConstantsSane, NEW vp \in VpWords, NEW i \in Index
  PROVE  \E n \in Index : Gxm!At(vp, n) = i
<1>0. Slots \in Nat \ {0} /\ i \in 0 .. Slots - 1
  BY DEF Gxm!ConstantsSane, Index
<1>1. PICK c \in Nat : c = vp \div 2
  BY WordFacts
<1>2. PICK q \in Nat, r \in 0 .. Slots - 1 : q = c \div Slots /\ r = c % Slots /\ c = Slots * q + r
  BY <1>0, DivMod
<1>3. CASE i >= r
  <2>0. i - r \in Nat
    BY <1>0, <1>3
  <2>1. PICK n \in Nat : n = i - r
    BY <2>0
  <2>2. n \in Index /\ r + n = i
    BY <1>0, <1>2, <1>3, <2>1 DEF Index
  <2>2a. (c % Slots) + n < Slots
    BY <1>0, <1>2, <2>2
  <2>2b. (c + n) % Slots = (c % Slots) + n
    BY <1>0, <2>2a, ModAdd
  <2>3. (c + n) % Slots = i
    BY <1>2, <2>2, <2>2b
  <2> QED BY <1>1, <2>2, <2>3 DEF Gxm!At
<1>4. CASE i < r
  <2>0. Slots + i - r \in Nat
    BY <1>0, <1>4
  <2>1. PICK n \in Nat : n = Slots + i - r
    BY <2>0
  <2>2. n \in Index
    BY <1>0, <1>2, <1>4, <2>1 DEF Index
  <2>3. c + n = Slots * (q + 1) + i
    BY <1>0, <1>2, <2>1
  <2>4. (Slots * (q + 1) + i) % Slots = i
    BY <1>0, ModUnique
  <2> QED BY <1>1, <2>2, <2>3, <2>4 DEF Gxm!At
<1> QED BY <1>0, <1>2, <1>3, <1>4

\* Where a walk ends.
LEMMA WalkEnds ==
  ASSUME NEW slots, NEW vp, NEW ends, NEW n, Ends(slots, vp, ends, n), Gxm!ConstantsSane
  PROVE  Gxm!Walk(slots, vp, ends) = n
<1> DEFINE P(k) == /\ slots[Gxm!At(vp, k)].vp \in ends
                   /\ \A m \in 0 .. k - 1 : slots[Gxm!At(vp, m)].vp \notin ends
<1>1. n \in 0 .. Slots - 1 /\ P(n)
  BY DEF Ends, Index
<1>2. Gxm!Walk(slots, vp, ends) = CHOOSE k \in 0 .. Slots - 1 : P(k)
  BY <1>1 DEF Gxm!Walk
<1>3. ASSUME NEW k \in 0 .. Slots - 1, P(k) PROVE k = n
  <2>1. CASE k < n
    <3>1. k \in 0 .. n - 1
      BY <1>1, <2>1 DEF Gxm!ConstantsSane
    <3> QED BY <1>1, <1>3, <3>1
  <2>2. CASE n < k
    <3>1. n \in 0 .. k - 1
      BY <1>1, <2>2 DEF Gxm!ConstantsSane
    <3> QED BY <1>1, <1>3, <3>1
  <2> QED BY <1>1, <2>1, <2>2 DEF Gxm!ConstantsSane
<1> HIDE DEF P
<1> QED BY <1>1, <1>2, <1>3

LEMMA EndsSomewhere ==
  ASSUME Gxm!ConstantsSane, NEW slots, NEW vp, NEW ends, NEW n \in Index, slots[Gxm!At(vp, n)].vp \in ends
  PROVE  \E k : Ends(slots, vp, ends, k)
<1> DEFINE S == {k \in Index : slots[Gxm!At(vp, k)].vp \in ends}
<1>1. S \in SUBSET Nat /\ S # {}
  BY DEF Index
<1>2. PICK k \in S : \A y \in S : k <= y
  <2> HIDE DEF S
  <2> QED BY <1>1, LeastExists
<1>3. ASSUME NEW m \in 0 .. k - 1 PROVE m \notin S /\ m \in Index
  BY <1>2 DEF Index, Gxm!ConstantsSane
<1> QED BY <1>2, <1>3 DEF Ends

\* slot_find finds a slot that is where its walk leads, and nothing else.
LEMMA FindFinds ==
  ASSUME Gxm!ConstantsSane, NEW slots, NEW vp, NEW i, FoundAt(slots, vp, i)
  PROVE  Gxm!slot_find(slots, vp) = i
<1>1. PICK n : Ends(slots, vp, {vp, Gxm!NULL}, n) /\ Gxm!At(vp, n) = i /\ slots[i].vp = vp
  BY DEF FoundAt
<1>2. Gxm!Walk(slots, vp, {vp, Gxm!NULL}) = n
  BY <1>1, WalkEnds
<1>3. n < Slots
  BY <1>1 DEF Ends, Index, Gxm!ConstantsSane
<1> QED BY <1>1, <1>2, <1>3 DEF Gxm!slot_find

LEMMA FindReturns ==
  ASSUME Gxm!ConstantsSane, NEW slots \in [Index -> Slot], NEW vp \in Gxm!Addrs,
         NEW at, at = Gxm!slot_find(slots, vp), at # -1
  PROVE  at \in Gxm!Used(slots) /\ slots[at].vp = vp
<1>1. PICK n : n = Gxm!Walk(slots, vp, {vp, Gxm!NULL})
  OBVIOUS
<1>2. n < Slots /\ slots[Gxm!At(vp, n)].vp = vp /\ at = Gxm!At(vp, n)
  BY <1>1 DEF Gxm!slot_find
<1>3. n \in Index
  <2>1. CASE \E m \in Index : slots[Gxm!At(vp, m)].vp \in {vp, Gxm!NULL}
    <3>1. PICK k : Ends(slots, vp, {vp, Gxm!NULL}, k)
      BY <2>1, EndsSomewhere
    <3> QED BY <1>1, <3>1, WalkEnds DEF Ends
  <2>2. CASE ~\E m \in Index : slots[Gxm!At(vp, m)].vp \in {vp, Gxm!NULL}
    <3>1. n = Slots
      BY <1>1, <2>2 DEF Gxm!Walk, Index
    <3> QED BY <1>2, <3>1 DEF Gxm!ConstantsSane
  <2> QED BY <2>1, <2>2
<1>4. at \in Index
  BY <1>2, <1>3, AtIndex DEF VpWords, Index
<1> QED BY <1>2, <1>4, WordFacts DEF Gxm!Used

LEMMA FindTracked ==
  ASSUME Gxm!ConstantsSane, NEW slots, Table(slots), NEW i \in Gxm!Used(slots)
  PROVE  Gxm!slot_find(slots, slots[i].vp) = i
BY FindFinds DEF Table

LEMMA TrackedOnce ==
  ASSUME Gxm!ConstantsSane, NEW slots, Table(slots), NEW i \in Gxm!Used(slots), NEW j \in Gxm!Used(slots),
         slots[i].vp = slots[j].vp
  PROVE  i = j
BY FindTracked

-----------------------------------------------------------------------------
(* Changes of the table.                                                   *)

\* A walk goes on past a slot that holds none of its ends, now as before.
LEMMA StillFound ==
  ASSUME Gxm!ConstantsSane, NEW slots \in [Index -> Slot], NEW t \in [Index -> Slot],
         NEW i \in Index, NEW vp \in Gxm!Addrs, FoundAt(slots, vp, i), t[i].vp = vp,
         \A j \in Index : slots[j].vp \notin {vp, Gxm!NULL} => t[j].vp \notin {vp, Gxm!NULL}
  PROVE  FoundAt(t, vp, i)
<1>1. PICK n : Ends(slots, vp, {vp, Gxm!NULL}, n) /\ Gxm!At(vp, n) = i
  BY DEF FoundAt
<1>2. ASSUME NEW m \in 0 .. n - 1 PROVE t[Gxm!At(vp, m)].vp \notin {vp, Gxm!NULL}
  <2>1. m \in Nat
    OBVIOUS
  <2>2. Gxm!At(vp, m) \in Index
    BY <2>1, AtIndex DEF VpWords
  <2> QED BY <1>1, <2>2 DEF Ends
<1>3. Ends(t, vp, {vp, Gxm!NULL}, n)
  BY <1>1, <1>2 DEF Ends
<1> QED BY <1>1, <1>3 DEF FoundAt

\* Slots become tombstones.
LEMMA KillKeeps ==
  ASSUME Gxm!ConstantsSane, NEW slots, Table(slots), NEW t \in [Index -> Slot], NEW dead \in SUBSET Index,
         \A i \in Index : IF i \in dead THEN t[i].vp = Gxm!TOMB ELSE t[i] = slots[i]
  PROVE  Table(t) /\ Gxm!Used(t) = Gxm!Used(slots) \ dead
<1>1. slots \in [Index -> Slot]
  BY DEF Table
<1>2. Gxm!Used(t) = Gxm!Used(slots) \ dead
  BY <1>1 DEF Gxm!Used
<1>3. ASSUME NEW i \in Gxm!Used(t) PROVE FoundAt(t, t[i].vp, i)
  <2>1. i \in Index /\ i \in Gxm!Used(slots) /\ t[i] = slots[i] /\ i \notin dead
    BY <1>1, <1>2 DEF Gxm!Used
  <2>2. PICK vp \in Gxm!Addrs : vp = slots[i].vp
    BY <1>1, <2>1 DEF Gxm!Used, Slot, VpWords
  <2>3. FoundAt(slots, vp, i)
    BY <2>1, <2>2 DEF Table
  <2>4. ASSUME NEW j \in Index, slots[j].vp \notin {vp, Gxm!NULL} PROVE t[j].vp \notin {vp, Gxm!NULL}
    BY <2>4, WordFacts
  <2>5. FoundAt(t, vp, i)
    BY <1>1, <2>1, <2>2, <2>3, <2>4, StillFound
  <2> QED BY <2>1, <2>2, <2>5
<1> QED BY <1>2, <1>3 DEF Table

\* A slot is noted again, for the same program.
LEMMA NoteKeepsTable ==
  ASSUME Gxm!ConstantsSane, NEW slots, Table(slots), NEW at \in Gxm!Used(slots),
         NEW x \in Slot, x.vp = slots[at].vp, NEW t, t = [slots EXCEPT ![at] = x]
  PROVE  /\ Table(t) /\ Gxm!Used(t) = Gxm!Used(slots)
         /\ t[at] = x /\ \A i \in Index : i # at => t[i] = slots[i]
<1>1. slots \in [Index -> Slot] /\ at \in Index
  BY DEF Table, Gxm!Used
<1>2. t \in [Index -> Slot] /\ t[at] = x /\ \A i \in Index : i # at => t[i] = slots[i]
  BY <1>1
<1>3. \A i \in Index : t[i].vp = slots[i].vp
  BY <1>2
<1>4. Gxm!Used(t) = Gxm!Used(slots)
  BY <1>1, <1>2, <1>3 DEF Gxm!Used
<1>5. ASSUME NEW i \in Gxm!Used(t) PROVE FoundAt(t, t[i].vp, i)
  <2>1. i \in Index /\ i \in Gxm!Used(slots)
    BY <1>1, <1>4 DEF Gxm!Used
  <2>2. PICK vp \in Gxm!Addrs : vp = slots[i].vp
    BY <1>1, <2>1 DEF Gxm!Used, Slot, VpWords
  <2>3. FoundAt(slots, vp, i)
    BY <2>1, <2>2 DEF Table
  <2>4. FoundAt(t, vp, i)
    BY <1>1, <1>2, <1>3, <2>1, <2>2, <2>3, StillFound
  <2> QED BY <1>3, <2>1, <2>2, <2>4
<1> QED BY <1>2, <1>4, <1>5 DEF Table

\* Where the next program goes: not over another, and where a walk for it finds it.
LEMMA FreeFound ==
  ASSUME Gxm!ConstantsSane, NEW slots \in [Index -> Slot], NEW vp \in Gxm!Addrs,
         NEW i \in Index, i \notin Gxm!Used(slots), NEW to, to = Gxm!FreeSlot(slots, vp)
  PROVE  /\ to \in Index /\ to \notin Gxm!Used(slots)
         /\ \E n \in Index : Gxm!At(vp, n) = to /\ \A m \in 0 .. n - 1 : Gxm!At(vp, m) \in Gxm!Used(slots)
<1> DEFINE ends == {Gxm!NULL, Gxm!TOMB}
<1>1. slots[i].vp \in ends
  BY DEF Gxm!Used
<1>2. vp \in VpWords
  BY DEF VpWords
<1>3. PICK m \in Index : Gxm!At(vp, m) = i
  BY <1>2, WalkCovers
<1>4. PICK n : Ends(slots, vp, ends, n)
  BY <1>1, <1>3, EndsSomewhere
<1>5. Gxm!Walk(slots, vp, ends) = n /\ n \in Index
  BY <1>4, WalkEnds DEF Ends
<1>6. to = Gxm!At(vp, n)
  BY <1>5 DEF Gxm!FreeSlot
<1>7. to \in Index /\ slots[to].vp \in ends
  BY <1>2, <1>4, <1>5, <1>6, AtIndex DEF Ends, Index
<1>8. ASSUME NEW k \in 0 .. n - 1 PROVE Gxm!At(vp, k) \in Gxm!Used(slots)
  <2>1. k \in Nat
    OBVIOUS
  <2>2. Gxm!At(vp, k) \in Index
    BY <1>2, <2>1, AtIndex
  <2> QED BY <1>4, <2>2 DEF Ends, Gxm!Used
<1> QED BY <1>5, <1>6, <1>7, <1>8 DEF Gxm!Used

Untracked(slots, vp) == \A j \in Gxm!Used(slots) : slots[j].vp # vp

\* x was put in slot `to', which was free.
Inserted(slots, t, to, x) ==
  /\ Gxm!Used(t) = Gxm!Used(slots) \cup {to} /\ to \in Index /\ to \notin Gxm!Used(slots)
  /\ t[to] = x /\ \A j \in Index : j # to => t[j] = slots[j]

LEMMA InsertKeeps ==
  ASSUME Gxm!ConstantsSane, NEW slots, Table(slots), NEW x \in Slot, x.vp \in Gxm!Addrs,
         Untracked(slots, x.vp), NEW i \in Index, i \notin Gxm!Used(slots)
  PROVE  LET to == Gxm!FreeSlot(slots, x.vp)
             t == [slots EXCEPT ![to] = x] IN
         Table(t) /\ Inserted(slots, t, to, x)
<1> PICK to : to = Gxm!FreeSlot(slots, x.vp)
  OBVIOUS
<1> PICK t : t = [slots EXCEPT ![to] = x]
  OBVIOUS
<1> DEFINE vp == x.vp
<1>1. slots \in [Index -> Slot]
  BY DEF Table
<1>2. /\ to \in Index /\ to \notin Gxm!Used(slots)
      /\ \E n \in Index : Gxm!At(vp, n) = to /\ \A m \in 0 .. n - 1 : Gxm!At(vp, m) \in Gxm!Used(slots)
  BY <1>1, FreeFound
<1>3. t \in [Index -> Slot] /\ t[to] = x /\ \A j \in Index : j # to => t[j] = slots[j]
  BY <1>1, <1>2
<1>4. Gxm!Used(t) = Gxm!Used(slots) \cup {to}
  BY <1>1, <1>2, <1>3, WordFacts DEF Gxm!Used
<1>5. FoundAt(t, vp, to)
  <2>1. PICK n \in Index : Gxm!At(vp, n) = to /\ \A m \in 0 .. n - 1 : Gxm!At(vp, m) \in Gxm!Used(slots)
    BY <1>2
  <2>2. ASSUME NEW m \in 0 .. n - 1 PROVE t[Gxm!At(vp, m)].vp \notin {vp, Gxm!NULL}
    <3>1. PICK j : j = Gxm!At(vp, m) /\ j \in Gxm!Used(slots)
      BY <2>1
    <3>2. j \in Index /\ j # to /\ slots[j].vp # Gxm!NULL
      BY <1>1, <1>2, <3>1 DEF Gxm!Used
    <3>3. t[j] = slots[j] /\ slots[j].vp # vp
      BY <1>3, <3>1, <3>2 DEF Untracked
    <3> QED BY <3>1, <3>2, <3>3
  <2>3. Ends(t, vp, {vp, Gxm!NULL}, n)
    BY <1>3, <2>1, <2>2 DEF Ends
  <2> QED BY <1>3, <2>1, <2>3 DEF FoundAt
<1>6. ASSUME NEW j \in Gxm!Used(slots) PROVE FoundAt(t, t[j].vp, j)
  <2>1. j \in Index /\ j # to /\ t[j] = slots[j]
    BY <1>1, <1>2, <1>3 DEF Gxm!Used
  <2>2. PICK wp \in Gxm!Addrs : wp = slots[j].vp
    BY <1>1, <2>1 DEF Gxm!Used, Slot, VpWords
  <2>3. FoundAt(slots, wp, j) /\ wp # vp
    BY <2>2 DEF Table, Untracked
  <2>4. ASSUME NEW k \in Index, slots[k].vp \notin {wp, Gxm!NULL} PROVE t[k].vp \notin {wp, Gxm!NULL}
    BY <1>3, <2>3, <2>4, WordFacts
  <2>5. FoundAt(t, wp, j)
    BY <1>1, <1>3, <2>1, <2>2, <2>3, <2>4, StillFound
  <2> QED BY <2>1, <2>2, <2>5
<1>7. Table(t) /\ Inserted(slots, t, to, x)
  BY <1>2, <1>3, <1>4, <1>5, <1>6 DEF Table, Inserted
<1> QED BY <1>7

LEMMA SlotsCounted ==
  ASSUME Gxm!ConstantsSane
  PROVE  /\ IsFiniteSet(Index) /\ Cardinality(Index) = Slots
         /\ \A S \in SUBSET Index : IsFiniteSet(S) /\ Cardinality(S) \in Nat /\ Gxm!Cardinality(S) = Cardinality(S)
<1>1. IsFiniteSet(Index) /\ Cardinality(Index) = Slots
  BY FS_Interval DEF Index, Gxm!ConstantsSane
<1>2. ASSUME NEW S \in SUBSET Index PROVE IsFiniteSet(S) /\ Cardinality(S) \in Nat
  BY <1>1, FS_Subset, FS_CardinalityType
<1>3. ASSUME NEW S PROVE Gxm!Cardinality(S) = Cardinality(S)
  BY DEF Gxm!Cardinality, Cardinality
<1> QED BY <1>1, <1>2, <1>3

LEMMA RoomLeft ==
  ASSUME Gxm!ConstantsSane, NEW slots \in [Index -> Slot], Cardinality(Gxm!Used(slots)) < Slots
  PROVE  \E i \in Index : i \notin Gxm!Used(slots)
<1>1. Gxm!Used(slots) \subseteq Index
  BY DEF Gxm!Used
<1> QED BY <1>1, SlotsCounted DEF Gxm!ConstantsSane

\* The table put in again slot by slot: it holds what it held, and its walks lead to it.
Insertion(slots, t, k) ==
  IF slots[k - 1].vp \in {Gxm!NULL, Gxm!TOMB} THEN t
  ELSE [t EXCEPT ![Gxm!FreeSlot(t, slots[k - 1].vp)] = slots[k - 1]]
IsRebuilding(r, slots) ==
  r = [k \in 0 .. Slots |-> IF k = 0 THEN [j \in DOMAIN slots |-> Gxm!Empty] ELSE Insertion(slots, r[k - 1], k)]

LEMMA RebuildingExists ==
  ASSUME Gxm!ConstantsSane, NEW slots
  PROVE  \E r : IsRebuilding(r, slots)
<1> DEFINE Step(t, k) == Insertion(slots, t, k)
           start == [j \in DOMAIN slots |-> Gxm!Empty]
           IsUpTo(r, n) == r = [k \in 0 .. n |-> IF k = 0 THEN start ELSE Step(r[k - 1], k)]
           S == {n \in 0 .. Slots : \E r : IsUpTo(r, n)}
<1> HIDE DEF Step, start
<1>1. 0 \in S
  <2> DEFINE z == [k \in 0 .. 0 |-> start]
  <2>1. z = [k \in 0 .. 0 |-> IF k = 0 THEN start ELSE Step(z[k - 1], k)]
    OBVIOUS
  <2>2. 0 \in 0 .. Slots
    BY DEF Gxm!ConstantsSane
  <2> QED BY <2>1, <2>2
<1>2. ASSUME NEW n \in 0 .. Slots, n \in S, n < Slots PROVE n + 1 \in S
  <2>0. n \in Nat /\ n + 1 \in 0 .. Slots
    BY <1>2 DEF Gxm!ConstantsSane
  <2>1. PICK r : r = [k \in 0 .. n |-> IF k = 0 THEN start ELSE Step(r[k - 1], k)]
    BY <1>2
  <2> DEFINE z == [k \in 0 .. n + 1 |-> IF k = n + 1 THEN Step(r[n], n + 1) ELSE r[k]]
  <2>2. ASSUME NEW k \in 0 .. n + 1
        PROVE  z[k] = IF k = 0 THEN start ELSE Step(z[k - 1], k)
    <3>1. CASE k = n + 1
      <4>1. z[k] = Step(r[n], n + 1) /\ z[k - 1] = r[n]
        BY <2>0, <3>1
      <4> QED BY <2>0, <3>1, <4>1
    <3>2. CASE k \in 1 .. n
      <4>1. z[k] = r[k] /\ z[k - 1] = r[k - 1]
        BY <2>0, <3>2
      <4>2. r[k] = Step(r[k - 1], k)
        BY <2>0, <2>1, <3>2
      <4> QED BY <3>2, <4>1, <4>2
    <3>3. CASE k = 0
      BY <2>0, <2>1, <3>3
    <3> QED BY <2>0, <3>1, <3>2, <3>3
  <2>3. z = [k \in 0 .. n + 1 |-> z[k]]
    OBVIOUS
  <2> HIDE DEF z
  <2>4. IsUpTo(z, n + 1)
    BY <2>2, <2>3
  <2> QED BY <2>0, <2>4
<1>3. \A n \in 0 .. Slots : n \in S
  <2> HIDE DEF S
  <2> QED BY <1>1, <1>2, CountsUp DEF Gxm!ConstantsSane
<1>4. Slots \in 0 .. Slots
  BY DEF Gxm!ConstantsSane
<1>5. PICK r : IsUpTo(r, Slots)
  BY <1>3, <1>4
<1> QED BY <1>5 DEF IsRebuilding, Step, start

LEMMA RebuiltIs ==
  ASSUME Gxm!ConstantsSane, NEW slots
  PROVE  IsRebuilding(Gxm!Rebuilt(slots), slots)
<1>1. Gxm!Rebuilt(slots) = CHOOSE r : IsRebuilding(r, slots)
  BY DEF Gxm!Rebuilt, IsRebuilding, Insertion
<1> QED BY <1>1, RebuildingExists

LEMMA RebuildKeeps ==
  ASSUME Gxm!ConstantsSane, NEW slots, Table(slots), NEW t, t = Gxm!Rebuilt(slots)[Slots]
  PROVE  /\ Table(t)
         /\ \A i \in Gxm!Used(t) : \E j \in Gxm!Used(slots) : t[i] = slots[j]
<1>0. slots \in [Index -> Slot] /\ Slots \in Nat \ {0}
  BY DEF Table, Gxm!ConstantsSane
<1>1. PICK r : r = Gxm!Rebuilt(slots) /\ IsRebuilding(r, slots)
  BY RebuiltIs
<1> DEFINE Comes(i, n) == \E j \in Gxm!Used(slots) : j < n /\ r[n][i] = slots[j]
           Upto(n) == /\ Table(r[n]) /\ Cardinality(Gxm!Used(r[n])) =< n
                      /\ \A i \in Gxm!Used(r[n]) : Comes(i, n)
           S == {n \in 0 .. Slots : Upto(n)}
<1>2. 0 \in S
  <2>1. 0 \in 0 .. Slots
    BY <1>0
  <2>2. r[0] = [j \in Index |-> Gxm!Empty]
    BY <1>0, <1>1, <2>1 DEF IsRebuilding
  <2>3. Gxm!Empty \in Slot /\ Gxm!Empty.vp = Gxm!NULL
    BY DEF Gxm!Empty, Slot, VpWords
  <2>4. Gxm!Used(r[0]) = {}
    BY <2>2, <2>3 DEF Gxm!Used
  <2>5. r[0] \in [Index -> Slot]
    BY <2>2, <2>3
  <2>6. Cardinality(Gxm!Used(r[0])) =< 0
    BY <2>4, FS_EmptySet
  <2> QED BY <2>1, <2>4, <2>5, <2>6 DEF Table
<1>3. ASSUME NEW n \in 0 .. Slots, n \in S, n < Slots PROVE n + 1 \in S
  <2>0. n \in Index /\ n + 1 \in 0 .. Slots /\ (n + 1) - 1 = n
    BY <1>0, <1>3 DEF Index
  <2>1. Table(r[n]) /\ Cardinality(Gxm!Used(r[n])) =< n /\ \A i \in Gxm!Used(r[n]) : Comes(i, n)
    BY <1>3
  <2>2. r[n + 1] = Insertion(slots, r[n], n + 1)
    <3>1. n + 1 # 0
      BY <1>3
    <3> QED BY <1>1, <2>0, <3>1 DEF IsRebuilding
  <2>3. slots[n] \in Slot
    BY <1>0, <2>0
  <2>4. CASE slots[n].vp \in {Gxm!NULL, Gxm!TOMB}
    <3>1. r[n + 1] = r[n]
      BY <2>0, <2>2, <2>4 DEF Insertion
    <3>2. Cardinality(Gxm!Used(r[n])) \in Nat
      <4>1. Gxm!Used(r[n]) \subseteq Index
        BY <2>1 DEF Table, Gxm!Used
      <4> QED BY <4>1, SlotsCounted
    <3>3. Cardinality(Gxm!Used(r[n + 1])) =< n + 1
      BY <2>1, <3>1, <3>2
    <3>4. ASSUME NEW i \in Gxm!Used(r[n + 1]) PROVE Comes(i, n + 1)
      <4>1. PICK j \in Gxm!Used(slots) : j < n /\ r[n][i] = slots[j]
        BY <2>1, <3>1
      <4>2. j < n + 1
        BY <1>0, <4>1 DEF Gxm!Used, Index
      <4> QED BY <3>1, <4>1, <4>2
    <3> QED BY <2>0, <2>1, <3>1, <3>3, <3>4
  <2>5. CASE slots[n].vp \notin {Gxm!NULL, Gxm!TOMB}
    <3>1. n \in Gxm!Used(slots)
      BY <1>0, <2>0, <2>5 DEF Gxm!Used
    <3>2. slots[n].vp \in Gxm!Addrs
      BY <2>3, <2>5 DEF Slot, VpWords
    <3>3. PICK u : u = r[n]
      OBVIOUS
    <3>4. u \in [Index -> Slot] /\ Gxm!Used(u) \subseteq Index
      BY <2>1, <3>3 DEF Table, Gxm!Used
    <3>5. Cardinality(Gxm!Used(u)) \in Nat /\ IsFiniteSet(Gxm!Used(u))
      BY <3>4, SlotsCounted
    <3>6. PICK i \in Index : i \notin Gxm!Used(u)
      <4>1. Cardinality(Gxm!Used(u)) < Slots
        BY <1>0, <1>3, <2>1, <3>3, <3>5
      <4> QED BY <3>4, <4>1, RoomLeft
    <3>7. ASSUME NEW j \in Gxm!Used(u) PROVE u[j].vp # slots[n].vp
      <4>1. PICK k \in Gxm!Used(slots) : k < n /\ u[j] = slots[k]
        BY <2>1, <3>3
      <4>2. k # n
        BY <1>0, <4>1 DEF Gxm!Used, Index
      <4> QED BY <3>1, <4>1, <4>2, TrackedOnce
    <3>8a. PICK x \in Slot : x = slots[n]
      BY <2>3
    <3>8b. x.vp \in Gxm!Addrs /\ Untracked(u, x.vp)
      BY <3>2, <3>7, <3>8a DEF Untracked
    <3>8. PICK to : to = Gxm!FreeSlot(u, x.vp)
      OBVIOUS
    <3>9. PICK v : v = [u EXCEPT ![to] = x]
      OBVIOUS
    <3>10. r[n + 1] = v
      BY <2>0, <2>2, <2>5, <3>3, <3>8a, <3>8, <3>9 DEF Insertion
    <3>11. /\ Table(v) /\ Gxm!Used(v) = Gxm!Used(u) \cup {to} /\ to \in Index
           /\ to \notin Gxm!Used(u) /\ v[to] = slots[n] /\ \A j \in Index : j # to => v[j] = u[j]
      <4>1. Table(u)
        BY <2>1, <3>3
      <4>2. Table(v) /\ Inserted(u, v, to, x)
        BY <3>6, <3>8b, <3>8, <3>9, <4>1, InsertKeeps
      <4> QED BY <3>8a, <4>2 DEF Inserted
    <3>12. Cardinality(Gxm!Used(v)) = Cardinality(Gxm!Used(u)) + 1
      BY <3>5, <3>11, FS_AddElement
    <3>13. Cardinality(Gxm!Used(r[n + 1])) =< n + 1
      BY <2>1, <3>3, <3>5, <3>10, <3>12
    <3>14. ASSUME NEW j \in Gxm!Used(v) PROVE Comes(j, n + 1)
      <4>1. CASE j = to
        <5>1. n < n + 1
          BY <1>0
        <5> QED BY <3>1, <3>10, <3>11, <4>1, <5>1
      <4>2. CASE j # to
        <5>1. j \in Gxm!Used(u) /\ v[j] = u[j]
          BY <3>4, <3>11, <4>2
        <5>2. PICK k \in Gxm!Used(slots) : k < n /\ u[j] = slots[k]
          BY <2>1, <3>3, <5>1
        <5>3. k < n + 1
          BY <1>0, <5>2 DEF Gxm!Used, Index
        <5> QED BY <3>10, <5>1, <5>2, <5>3
      <4> QED BY <4>1, <4>2
    <3> QED BY <2>0, <3>10, <3>11, <3>13, <3>14
  <2> QED BY <2>4, <2>5
<1>4. \A n \in 0 .. Slots : n \in S
  <2> HIDE DEF S
  <2> QED BY <1>0, <1>2, <1>3, CountsUp
<1>5. Upto(Slots)
  <2>1. Slots \in 0 .. Slots
    BY <1>0
  <2> QED BY <1>4, <2>1
<1> QED BY <1>1, <1>5

-----------------------------------------------------------------------------
(* What is noted and what the patcher keeps.                               *)

Program == [req : Gxm!Requests, refs : Nat \ {0}]
Patcher(p) == p \in [Gxm!Addrs -> {Gxm!Gone} \cup Program]
Held(p, a) == a \in Gxm!Addrs /\ p[a] # Gxm!Gone

Books ==
  [slots : [Index -> Slot], memo : UNION {[D -> Index] : D \in SUBSET Gxm!Requests}, stale : BOOLEAN,
   last_set : VpWords, last_set_slot : Index \cup {-1}]

\* A slot's program is alive, and of the shader noted for it.
Linked(slots, p) ==
  \A i \in Gxm!Used(slots) : Held(p, slots[i].vp) /\ p[slots[i].vp].req[1] = slots[i].id

\* The memo answers a request with a program made for it.
Remembered(h, p) ==
  ~h.stale => \A r \in DOMAIN h.memo : h.memo[r] \in Gxm!Used(h.slots) /\ p[h.slots[h.memo[r]].vp].req = r

\* The slot of the last bind is still that program's.
LastKnown(h) ==
  h.last_set_slot # -1 =>
    h.last_set_slot \in Gxm!Used(h.slots) /\ h.slots[h.last_set_slot].vp = h.last_set

Sound(h, p) ==
  h \in Books /\ Table(h.slots) /\ Linked(h.slots, p) /\ Remembered(h, p) /\ LastKnown(h)

LEMMA ProgramsAreThere ==
  ASSUME NEW p, Patcher(p), NEW a, Held(p, a)
  PROVE  p[a] \in Program
BY DEF Patcher, Held

LEMMA ProgramIsSomething ==
  ASSUME NEW x \in Program
  PROVE  x # Gxm!Gone
<1>1. x.refs \in Nat /\ DOMAIN x = {"req", "refs"}
  BY DEF Program
<1>2. DOMAIN Gxm!Gone = {}
  BY DEF Gxm!Gone
<1> QED BY <1>1, <1>2

LEMMA UsedSlots ==
  ASSUME NEW slots \in [Index -> Slot], NEW i \in Gxm!Used(slots)
  PROVE  i \in Index /\ slots[i] \in Slot /\ slots[i].vp \in Gxm!Addrs
<1>1. i \in Index /\ slots[i].vp \notin {Gxm!NULL, Gxm!TOMB} /\ slots[i] \in Slot
  BY DEF Gxm!Used
<1> QED BY <1>1 DEF Slot, VpWords

\* The tracked programs stay, each made for what it was.
StillHeld(slots, p, q) ==
  \A i \in Gxm!Used(slots) : Held(q, slots[i].vp) /\ q[slots[i].vp].req = p[slots[i].vp].req

LEMMA PatcherMoves ==
  ASSUME NEW h, NEW p, NEW q, Sound(h, p), StillHeld(h.slots, p, q)
  PROVE  Sound(h, q)
<1>1. Linked(h.slots, q)
  BY DEF Sound, Linked, StillHeld
<1>2. Remembered(h, q)
  BY DEF Sound, Remembered, StillHeld
<1> QED BY <1>1, <1>2 DEF Sound

\* A slot is noted again.
Noted(h, k, at, x) == \E t : t = [h.slots EXCEPT ![at] = x] /\ k = [h EXCEPT !.slots = t]

LEMMA NoteIsSound ==
  ASSUME Gxm!ConstantsSane, NEW h, NEW p, Sound(h, p), NEW at \in Gxm!Used(h.slots),
         NEW x \in Slot, x.vp = h.slots[at].vp, x.id = h.slots[at].id,
         NEW k, Noted(h, k, at, x)
  PROVE  /\ Sound(k, p) /\ Gxm!Used(k.slots) = Gxm!Used(h.slots)
         /\ k.slots[at] = x /\ \A i \in Index : i # at => k.slots[i] = h.slots[i]
<1>1. h \in Books /\ Table(h.slots) /\ h.slots \in [Index -> Slot] /\ at \in Index
  BY UsedSlots DEF Sound, Table
<1>2. PICK t : t = [h.slots EXCEPT ![at] = x] /\ k = [h EXCEPT !.slots = t]
  BY DEF Noted
<1>3. /\ Table(t) /\ Gxm!Used(t) = Gxm!Used(h.slots)
      /\ t[at] = x /\ \A i \in Index : i # at => t[i] = h.slots[i]
  BY <1>1, <1>2, NoteKeepsTable
<1>4. /\ k.slots = t /\ k.memo = h.memo /\ k.stale = h.stale /\ k.last_set = h.last_set
      /\ k.last_set_slot = h.last_set_slot /\ k \in Books
  <2>1. t \in [Index -> Slot]
    BY <1>3 DEF Table
  <2> QED BY <1>1, <1>2, <2>1 DEF Books
<1>5. \A i \in Index : t[i].vp = h.slots[i].vp /\ t[i].id = h.slots[i].id
  BY <1>3
<1>6. Gxm!Used(h.slots) \subseteq Index
  BY <1>1 DEF Gxm!Used
<1>7. Linked(k.slots, p)
  BY <1>3, <1>4, <1>5, <1>6 DEF Sound, Linked
<1>8. Remembered(k, p)
  BY <1>3, <1>4, <1>5, <1>6 DEF Sound, Remembered
<1>9. LastKnown(k)
  BY <1>3, <1>4, <1>5, <1>6 DEF Sound, LastKnown
<1> QED BY <1>3, <1>4, <1>7, <1>8, <1>9 DEF Sound

\* Slots become tombstones, and only their programs may go.
LEMMA KillIsSound ==
  ASSUME Gxm!ConstantsSane, NEW h, NEW p, Sound(h, p), NEW dead \in SUBSET Gxm!Used(h.slots),
         NEW k, k = Gxm!slot_kill(h, dead), NEW q,
         \A i \in Gxm!Used(h.slots) \ dead :
            Held(q, h.slots[i].vp) /\ q[h.slots[i].vp].req = p[h.slots[i].vp].req
  PROVE  /\ Sound(k, q) /\ Gxm!Used(k.slots) = Gxm!Used(h.slots) \ dead
         /\ \A i \in Gxm!Used(k.slots) : k.slots[i] = h.slots[i]
<1>1. h \in Books /\ Table(h.slots) /\ h.slots \in [Index -> Slot] /\ Gxm!Used(h.slots) \subseteq Index
  BY DEF Sound, Table, Gxm!Used
<1>2. PICK t : t = [i \in DOMAIN h.slots |-> IF i \in dead THEN [h.slots[i] EXCEPT !.vp = Gxm!TOMB] ELSE h.slots[i]]
  OBVIOUS
<1>3. t \in [Index -> Slot] /\ \A i \in Index : IF i \in dead THEN t[i].vp = Gxm!TOMB ELSE t[i] = h.slots[i]
  <2>1. ASSUME NEW i \in Index
        PROVE  /\ t[i] \in Slot
               /\ IF i \in dead THEN t[i].vp = Gxm!TOMB ELSE t[i] = h.slots[i]
    <3>1. h.slots[i] \in Slot /\ t[i] = IF i \in dead THEN [h.slots[i] EXCEPT !.vp = Gxm!TOMB] ELSE h.slots[i]
      BY <1>1, <1>2
    <3> QED BY <3>1 DEF Slot, VpWords
  <2> QED BY <1>1, <1>2, <2>1
<1>4. Table(t) /\ Gxm!Used(t) = Gxm!Used(h.slots) \ dead
  BY <1>1, <1>3, KillKeeps
<1>5. /\ k \in Books /\ k.slots = t /\ k.memo = h.memo /\ (~k.stale => ~h.stale /\ dead = {})
      /\ k.last_set_slot # -1 => /\ k.last_set_slot = h.last_set_slot /\ k.last_set = h.last_set
                                 /\ h.last_set_slot \notin dead
  <2>1. PICK st \in BOOLEAN : st = (h.stale \/ dead # {})
    <3>1. h.stale \in BOOLEAN
      BY <1>1 DEF Books
    <3> QED BY <3>1, Zenon
  <2>2. PICK ls : ls = IF h.last_set_slot \in dead THEN Gxm!NULL ELSE h.last_set
    OBVIOUS
  <2>3. PICK lss : lss = IF h.last_set_slot \in dead THEN -1 ELSE h.last_set_slot
    OBVIOUS
  <2>4. k = [h EXCEPT !.slots = t, !.stale = st, !.last_set = ls, !.last_set_slot = lss]
    BY <1>2, <2>1, <2>2, <2>3, Zenon DEF Gxm!slot_kill
  <2>5. ls \in VpWords /\ lss \in Index \cup {-1}
    BY <1>1, <2>2, <2>3 DEF Books, VpWords
  <2>6. /\ k \in Books /\ k.slots = t /\ k.memo = h.memo /\ k.stale = st /\ k.last_set = ls
        /\ k.last_set_slot = lss
    BY <1>1, <1>3, <2>4, <2>5 DEF Books
  <2>7. ~st => ~h.stale /\ dead = {}
    BY <2>1, Zenon
  <2> QED BY <2>2, <2>3, <2>6, <2>7
<1>6. \A i \in Gxm!Used(k.slots) : i \in Gxm!Used(h.slots) /\ i \notin dead /\ k.slots[i] = h.slots[i]
  BY <1>1, <1>3, <1>4, <1>5
<1>7. Linked(k.slots, q)
  BY <1>6 DEF Sound, Linked
<1>8. Remembered(k, q)
  BY <1>1, <1>3, <1>4, <1>5 DEF Sound, Remembered
<1>9. LastKnown(k)
  BY <1>3, <1>4, <1>5, <1>1 DEF Sound, LastKnown
<1> QED BY <1>4, <1>5, <1>6, <1>7, <1>8, <1>9 DEF Sound

\* Every slot in use is one of another table's.
From(slots, old) == \A i \in Gxm!Used(slots) : \E j \in Gxm!Used(old) : slots[i] = old[j]

\* The table is rebuilt: nothing is looked up by a slot noted before.
LEMMA CompactIsSound ==
  ASSUME Gxm!ConstantsSane, NEW h, NEW p, Sound(h, p), NEW k, k = Gxm!slot_compact(h)
  PROVE  Sound(k, p) /\ From(k.slots, h.slots)
<1>1. h \in Books /\ Table(h.slots)
  BY DEF Sound
<1>2. PICK t : t = Gxm!Rebuilt(h.slots)[Slots]
  OBVIOUS
<1>3. Table(t) /\ From(t, h.slots)
  BY <1>1, <1>2, RebuildKeeps DEF From
<1>4. /\ k \in Books /\ k.slots = t /\ k.stale = TRUE /\ k.last_set_slot = -1
  <2>1. t \in [Index -> Slot] /\ Gxm!NULL \in VpWords
    BY <1>3 DEF Table, VpWords
  <2> QED BY <1>1, <1>2, <2>1 DEF Books, Gxm!slot_compact
<1>5. Linked(t, p)
  BY <1>3 DEF Sound, Linked, From
<1> QED BY <1>3, <1>4, <1>5 DEF Sound, Remembered, LastKnown

\* A program gets a slot of its own.
LEMMA InsertIsSound ==
  ASSUME Gxm!ConstantsSane, NEW h, NEW p, Sound(h, p), NEW x \in Slot, x.vp \in Gxm!Addrs,
         Untracked(h.slots, x.vp), Held(p, x.vp), p[x.vp].req[1] = x.id,
         NEW i \in Index, i \notin Gxm!Used(h.slots),
         NEW to, to = Gxm!FreeSlot(h.slots, x.vp), NEW k, k = [h EXCEPT !.slots[to] = x]
  PROVE  Sound(k, p) /\ Inserted(h.slots, k.slots, to, x)
<1>1. h \in Books /\ Table(h.slots) /\ h.slots \in [Index -> Slot]
  BY DEF Sound, Table
<1>2. PICK t : t = [h.slots EXCEPT ![to] = x]
  OBVIOUS
<1>3. Table(t) /\ Inserted(h.slots, t, to, x)
  BY <1>1, <1>2, InsertKeeps
<1>4. /\ k \in Books /\ k.slots = t /\ k.memo = h.memo /\ k.stale = h.stale
      /\ k.last_set_slot = h.last_set_slot /\ k.last_set = h.last_set
  <2>1. t \in [Index -> Slot]
    BY <1>3 DEF Table
  <2> QED BY <1>1, <1>2, <2>1 DEF Books
<1>5. \A j \in Gxm!Used(h.slots) : j \in Gxm!Used(t) /\ j # to /\ t[j] = h.slots[j]
  BY <1>1, <1>3, UsedSlots DEF Inserted
<1>6. Linked(t, p)
  BY <1>3, <1>5 DEF Sound, Linked, Inserted
<1>7. Remembered(k, p)
  BY <1>4, <1>5 DEF Sound, Remembered
<1>8. LastKnown(k)
  BY <1>4, <1>5 DEF Sound, LastKnown
<1> QED BY <1>3, <1>4, <1>6, <1>7, <1>8 DEF Sound

\* The memo is emptied before it is asked.
Forgotten(h, k) == k = [h EXCEPT !.memo = <<>>, !.stale = FALSE]

LEMMA ForgetIsSound ==
  ASSUME NEW h, NEW p, Sound(h, p), NEW k, Forgotten(h, k)
  PROVE  Sound(k, p) /\ k.slots = h.slots /\ ~k.stale
<1>1. <<>> \in UNION {[D -> Index] : D \in SUBSET Gxm!Requests} /\ DOMAIN <<>> = {}
  <2>1. DOMAIN <<>> = {} /\ <<>> = [i \in {} |-> 0]
    OBVIOUS
  <2>2. <<>> \in [{} -> Index]
    BY <2>1
  <2> QED BY <2>1, <2>2
<1>2. /\ k \in Books /\ k.slots = h.slots /\ k.memo = <<>> /\ k.last_set_slot = h.last_set_slot
      /\ k.last_set = h.last_set /\ k.stale = FALSE
  BY <1>1 DEF Sound, Books, Forgotten
<1> QED BY <1>1, <1>2 DEF Sound, Remembered, LastKnown

\* A create is remembered with the slot that holds its program.
LEMMA RememberIsSound ==
  ASSUME NEW h, NEW p, Sound(h, p), NEW req \in Gxm!Requests, NEW at \in Index \cup {-1},
         at # -1 => at \in Gxm!Used(h.slots) /\ p[h.slots[at].vp].req = req,
         NEW k, k = Gxm!Remember(h, req, at)
  PROVE  Sound(k, p) /\ k.slots = h.slots
<1>1. h \in Books /\ h.memo \in UNION {[D -> Index] : D \in SUBSET Gxm!Requests}
  BY DEF Sound, Books
<1>2. CASE k = h
  BY <1>2
<1>3. CASE k = [h EXCEPT !.stale = TRUE]
  <2>1. /\ k \in Books /\ k.slots = h.slots /\ k.stale = TRUE /\ k.last_set_slot = h.last_set_slot
        /\ k.last_set = h.last_set
    BY <1>1, <1>3 DEF Books
  <2> QED BY <2>1 DEF Sound, Remembered, LastKnown
<1>4. CASE /\ ~h.stale /\ ~(at < 0)
           /\ k = [h EXCEPT !.memo = [r \in DOMAIN h.memo \cup {req} |-> IF r = req THEN at ELSE h.memo[r]]]
  <2>1. PICK m : m = [r \in DOMAIN h.memo \cup {req} |-> IF r = req THEN at ELSE h.memo[r]]
    OBVIOUS
  <2>2. at \in Index /\ at # -1
    BY <1>4 DEF Index
  <2>3. m \in [DOMAIN h.memo \cup {req} -> Index] /\ DOMAIN h.memo \cup {req} \in SUBSET Gxm!Requests
    BY <1>1, <2>1, <2>2
  <2>4. /\ k \in Books /\ k.slots = h.slots /\ k.memo = m /\ k.last_set_slot = h.last_set_slot
        /\ k.last_set = h.last_set
    BY <1>1, <1>4, <2>1, <2>3 DEF Books
  <2>5. ASSUME NEW r \in DOMAIN m
        PROVE  m[r] \in Gxm!Used(h.slots) /\ p[h.slots[m[r]].vp].req = r
    BY <1>4, <2>1, <2>2 DEF Sound, Remembered
  <2> QED BY <2>4, <2>5 DEF Sound, Remembered, LastKnown
<1>5. at < 0 \/ ~(at < 0)
  BY DEF Index
<1> QED BY <1>2, <1>3, <1>4, <1>5 DEF Gxm!Remember

-----------------------------------------------------------------------------
(* The patcher's answers.                                                  *)

Nobody(p, req) == \A a \in Gxm!Addrs : Held(p, a) => p[a].req # req

\* The patcher made a program for the request, or gave the one it has.
Given(p, q, a, req) ==
  /\ Patcher(q) /\ Held(q, a) /\ q[a].req = req
  /\ \A b \in Gxm!Addrs \ {a} : q[b] = p[b]
  /\ Held(p, a) => p[a].req = req /\ q[a].refs >= 2
  /\ Held(p, a) \/ (Nobody(p, req) /\ q[a].refs = 1)

LEMMA RealGives ==
  ASSUME Gxm!ConstantsSane, NEW p, Patcher(p), NEW req \in Gxm!Requests, NEW r \in Gxm!Real(p, req)
  PROVE  /\ r.vp = Gxm!NULL => r.pat = p /\ Nobody(p, req)
         /\ r.vp # Gxm!NULL => Given(p, r.pat, r.vp, req)
<1>0. p \in [Gxm!Addrs -> {Gxm!Gone} \cup Program] /\ Gxm!NULL \notin Gxm!Addrs
  BY WordFacts DEF Patcher
<1>1. CASE Gxm!Holding(p, req) # {}
  <2>1. PICK a \in Gxm!Holding(p, req) : r = [pat |-> [p EXCEPT ![a].refs = @ + 1], vp |-> a]
    BY <1>1 DEF Gxm!Real
  <2>2. a \in Gxm!Addrs /\ Held(p, a) /\ p[a].req = req /\ p[a] \in Program
    BY <2>1, ProgramsAreThere DEF Gxm!Holding, Held
  <2>3. PICK n \in Nat \ {0} : n = p[a].refs
    BY <2>2 DEF Program
  <2>4. PICK x : x = [p[a] EXCEPT !.refs = n + 1]
    OBVIOUS
  <2>5. x \in Program /\ x.req = req /\ x.refs = n + 1
    BY <2>2, <2>3, <2>4 DEF Program
  <2>6. PICK q : q = [p EXCEPT ![a] = x]
    OBVIOUS
  <2>7. r.pat = q /\ r.vp = a
    BY <2>1, <2>3, <2>4, <2>6
  <2>8. Patcher(q) /\ q[a] = x /\ \A b \in Gxm!Addrs \ {a} : q[b] = p[b]
    BY <1>0, <2>2, <2>5, <2>6 DEF Patcher
  <2>9. Held(q, a)
    BY <2>2, <2>5, <2>8, ProgramIsSomething DEF Held
  <2> QED BY <1>0, <2>2, <2>3, <2>5, <2>7, <2>8, <2>9 DEF Given
<1>2. CASE Gxm!Holding(p, req) = {}
  <2>1. Nobody(p, req)
    BY <1>2 DEF Gxm!Holding, Nobody, Held
  <2>2. CASE r = [pat |-> p, vp |-> Gxm!NULL]
    BY <2>1, <2>2
  <2>3. ASSUME NEW a \in Gxm!Addrs, p[a] = Gxm!Gone, r = [pat |-> [p EXCEPT ![a] = [req |-> req, refs |-> 1]], vp |-> a]
        PROVE  Given(p, r.pat, r.vp, req) /\ r.vp # Gxm!NULL
    <3>1. PICK x : x = [req |-> req, refs |-> 1]
      OBVIOUS
    <3>2. x \in Program /\ x.req = req /\ x.refs = 1
      BY <3>1 DEF Program
    <3>3. PICK q : q = [p EXCEPT ![a] = x]
      OBVIOUS
    <3>4. r.pat = q /\ r.vp = a
      BY <2>3, <3>1, <3>3
    <3>5. Patcher(q) /\ q[a] = x /\ \A b \in Gxm!Addrs \ {a} : q[b] = p[b]
      BY <1>0, <3>2, <3>3 DEF Patcher
    <3>6. Held(q, a) /\ ~Held(p, a)
      BY <2>3, <3>2, <3>5, ProgramIsSomething DEF Held
    <3> QED BY <1>0, <2>1, <3>2, <3>4, <3>5, <3>6 DEF Given
  <2> QED BY <1>2, <2>2, <2>3 DEF Gxm!Real
<1> QED BY <1>1, <1>2

\* An extra reference is dropped: nothing goes.
LEMMA ReleaseDrops ==
  ASSUME NEW p, Patcher(p), NEW a \in Gxm!Addrs, Held(p, a), p[a].refs >= 2,
         NEW q, q = Gxm!Release(p, {a})
  PROVE  /\ Patcher(q)
         /\ \A b \in Gxm!Addrs : (Held(q, b) <=> Held(p, b)) /\ (Held(p, b) => q[b].req = p[b].req)
<1>1. p[a] \in Program
  BY ProgramsAreThere
<1>2. PICK n \in Nat \ {0} : n = p[a].refs
  BY <1>1 DEF Program
<1>3. PICK x : x = [p[a] EXCEPT !.refs = n - 1]
  OBVIOUS
<1>4. x \in Program /\ x.req = p[a].req
  <2>1. n - 1 \in Nat \ {0}
    BY <1>2
  <2> QED BY <1>1, <1>2, <1>3, <2>1 DEF Program
<1>5. q = [b \in Gxm!Addrs |-> IF b # a THEN p[b] ELSE x]
  BY <1>2, <1>3 DEF Gxm!Release
<1>6. Patcher(q)
  BY <1>4, <1>5 DEF Patcher
<1>7. q[a] # Gxm!Gone
  BY <1>4, <1>5, ProgramIsSomething
<1> QED BY <1>4, <1>5, <1>6, <1>7 DEF Held

\* What is given back may go, and nothing else.
LEMMA ReleaseReleases ==
  ASSUME NEW p, Patcher(p), NEW dead, \A a \in dead : Held(p, a), NEW q, q = Gxm!Release(p, dead)
  PROVE  /\ Patcher(q)
         /\ \A b \in Gxm!Addrs : /\ Held(q, b) => Held(p, b) /\ q[b].req = p[b].req
                                 /\ b \notin dead => q[b] = p[b]
<1>1. ASSUME NEW b \in Gxm!Addrs
      PROVE  /\ q[b] \in {Gxm!Gone} \cup Program
             /\ Held(q, b) => Held(p, b) /\ q[b].req = p[b].req
             /\ b \notin dead => q[b] = p[b]
  <2>1. q[b] = IF b \notin dead THEN p[b]
               ELSE IF p[b].refs = 1 THEN Gxm!Gone ELSE [p[b] EXCEPT !.refs = @ - 1]
    BY DEF Gxm!Release
  <2>2. CASE b \notin dead
    BY <2>1, <2>2 DEF Patcher, Held
  <2>3. CASE b \in dead /\ p[b].refs = 1
    BY <2>1, <2>3 DEF Held
  <2>4. CASE b \in dead /\ p[b].refs # 1
    <3>1. p[b] \in Program /\ Held(p, b)
      BY <2>4, ProgramsAreThere
    <3>2. PICK n \in Nat \ {0} : n = p[b].refs
      BY <3>1 DEF Program
    <3>3. n - 1 \in Nat \ {0}
      BY <2>4, <3>2
    <3>4. q[b] = [p[b] EXCEPT !.refs = n - 1]
      BY <2>1, <2>4, <3>2
    <3>5. q[b] \in Program /\ q[b].req = p[b].req
      BY <3>1, <3>3, <3>4 DEF Program
    <3> QED BY <2>4, <3>1, <3>5
  <2> QED BY <2>2, <2>3, <2>4
<1>2. q = [b \in Gxm!Addrs |-> q[b]]
  BY DEF Gxm!Release
<1> QED BY <1>1, <1>2 DEF Patcher

-----------------------------------------------------------------------------
(* What a create comes to.                                                 *)

\* A program both keep, made for the same request.
Same(p, q, a) == Held(p, a) /\ Held(q, a) /\ q[a].req = p[a].req

Idler(a) == \E i \in Gxm!Used(g.slots) : g.slots[i].vp = a /\ Gxm!Idle(g.slots[i])

\* Only an idle program goes, only the one asked for comes.
Kept(p) == \A a \in Gxm!Addrs : Held(pat, a) => Same(pat, p, a) \/ Idler(a)
Only(p) == \A a \in Gxm!Addrs : Held(p, a) => Same(pat, p, a)
New(p, req) == \A a \in Gxm!Addrs : Held(p, a) => Same(pat, p, a) \/ p[a].req = req

\* A slot is what it was, or noted now for the request.
Traced(slots, p, req) ==
  \A i \in Gxm!Used(slots) :
    \/ Same(pat, p, slots[i].vp) /\ \E j \in Gxm!Used(g.slots) : slots[i] = g.slots[j]
    \/ /\ p[slots[i].vp].req = req /\ slots[i].last = g_frame
       /\ slots[i].creates >= 2 => ~Nobody(pat, req)

Replied(o, req) ==
  IF o.vp = Gxm!NULL THEN Only(o.pat) ELSE Held(o.pat, o.vp) /\ o.pat[o.vp].req = req

Before(h, p) == Sound(h, p) /\ Patcher(p) /\ Kept(p) /\ Only(p) /\ From(h.slots, g.slots)

Outcome(o, req) ==
  /\ Sound(o.g, o.pat) /\ Patcher(o.pat) /\ Kept(o.pat) /\ New(o.pat, req)
  /\ Traced(o.g.slots, o.pat, req) /\ Replied(o, req) /\ (~g_armed => o.g = g)

LEMMA GivenIsSound ==
  ASSUME NEW h, NEW p, Sound(h, p), NEW q, NEW a, NEW req, Given(p, q, a, req)
  PROVE  Sound(h, q)
<1>1. StillHeld(h.slots, p, q)
  <2>1. ASSUME NEW i \in Gxm!Used(h.slots), NEW b, b = h.slots[i].vp
        PROVE  Held(q, b) /\ q[b].req = p[b].req
    <3>1. Held(p, b)
      BY <2>1 DEF Sound, Linked
    <3> QED BY <3>1 DEF Given, Held
  <2> QED BY <2>1 DEF StillHeld
<1> QED BY <1>1, PatcherMoves

LEMMA GivenKeeps ==
  ASSUME NEW p, Kept(p), Only(p), NEW q, NEW a, NEW req, Given(p, q, a, req)
  PROVE  Kept(q) /\ New(q, req)
<1>1. ASSUME NEW b \in Gxm!Addrs, Same(pat, p, b) PROVE Same(pat, q, b)
  BY <1>1 DEF Same, Given, Held
<1>2. ASSUME NEW b \in Gxm!Addrs, Held(q, b), b # a PROVE Held(p, b)
  BY <1>2 DEF Given, Held
<1>3. ASSUME NEW b \in Gxm!Addrs, Held(q, b) PROVE Same(pat, q, b) \/ q[b].req = req
  BY <1>1, <1>2, <1>3 DEF Only, Given
<1> QED BY <1>1, <1>3 DEF Kept, New

LEMMA BeforeIsTraced ==
  ASSUME NEW h, NEW p, Before(h, p)
  PROVE  (\A req : Traced(h.slots, p, req)) /\ \A i \in Gxm!Used(h.slots) : Same(pat, p, h.slots[i].vp)
<1>1. ASSUME NEW i \in Gxm!Used(h.slots) PROVE Same(pat, p, h.slots[i].vp)
  <2>1. Held(p, h.slots[i].vp)
    BY DEF Before, Sound, Linked
  <2> QED BY <2>1 DEF Before, Only, Held
<1> QED BY <1>1 DEF Before, Traced, From

LEMMA SameGiven ==
  ASSUME NEW p, NEW q, NEW a, NEW req, Given(p, q, a, req), NEW b, Same(pat, p, b)
  PROVE  Same(pat, q, b)
BY DEF Same, Given, Held

\* Of two patchers that keep the same programs.
Alike(p, q) == \A b \in Gxm!Addrs : (Held(q, b) <=> Held(p, b)) /\ (Held(p, b) => q[b].req = p[b].req)

LEMMA AlikeKeeps ==
  ASSUME NEW p, NEW req, Kept(p), New(p, req), NEW q, Alike(p, q)
  PROVE  Kept(q) /\ New(q, req)
BY DEF Kept, New, Same, Alike, Held

\* slot_find: no slot, so none in use is the program's.
LEMMA NotFound ==
  ASSUME Gxm!ConstantsSane, NEW slots, Table(slots), NEW vp, Gxm!slot_find(slots, vp) = -1
  PROVE  Untracked(slots, vp)
<1>1. ASSUME NEW j \in Gxm!Used(slots), slots[j].vp = vp PROVE FALSE
  <2>1. Gxm!slot_find(slots, vp) = j
    BY <1>1, FindTracked
  <2>2. j \in Index
    BY DEF Table, Gxm!Used
  <2> QED BY <2>1, <2>2 DEF Index
<1> QED BY <1>1 DEF Untracked

LEMMA AgainNotes ==
  ASSUME NEW slot \in Slot, g_frame \in Nat, NEW x, x = Gxm!Again(slot)
  PROVE  x \in Slot /\ x.vp = slot.vp /\ x.id = slot.id /\ x.last = g_frame
<1>1. PICK c \in Nat : c = IF slot.creates < 2 THEN slot.creates + 1 ELSE slot.creates
  BY DEF Slot
<1>2. x = [slot EXCEPT !.creates = c, !.last = g_frame]
  BY <1>1 DEF Gxm!Again
<1> QED BY <1>1, <1>2 DEF Slot

\* Each slot in use is an old one, or noted now for the program.
Tracked(slots, old, p, vp) ==
  \A i \in Gxm!Used(slots) :
    \/ \E j \in Gxm!Used(old) : slots[i] = old[j]
    \/ slots[i].vp = vp /\ slots[i].last = g_frame /\ (slots[i].creates >= 2 => Held(p, vp))

LEMMA TrackIsSound ==
  ASSUME Gxm!ConstantsSane, g_frame \in Nat, NEW h, NEW p, Sound(h, p), Patcher(p),
         NEW q, NEW vp, NEW req \in Gxm!Requests, Given(p, q, vp, req),
         NEW t, t = Gxm!track(h, q, req, vp)
  PROVE  /\ Sound(t.g, t.pat) /\ Patcher(t.pat) /\ Alike(q, t.pat)
         /\ t.at \in Index \cup {-1} /\ (t.at # -1 => t.at \in Gxm!Used(t.g.slots) /\ t.g.slots[t.at].vp = vp)
         /\ Tracked(t.g.slots, h.slots, p, vp)
<1>1. Sound(h, q) /\ Patcher(q) /\ vp \in Gxm!Addrs /\ Held(q, vp) /\ q[vp].req = req
  BY GivenIsSound DEF Given, Held
<1>2. Table(h.slots) /\ h.slots \in [Index -> Slot]
  BY <1>1 DEF Sound, Table
<1>3. PICK at : at = Gxm!slot_find(h.slots, vp)
  OBVIOUS
<1>4. CASE at # -1
  <2>1. at \in Gxm!Used(h.slots) /\ h.slots[at].vp = vp /\ at \in Index /\ at >= 0
    BY <1>1, <1>2, <1>3, <1>4, FindReturns, UsedSlots DEF Index
  <2>2. Held(p, vp) /\ q[vp].refs >= 2
    BY <2>1 DEF Sound, Linked, Given
  <2>3. PICK q2 : q2 = Gxm!Release(q, {vp})
    OBVIOUS
  <2>4. Patcher(q2) /\ Alike(q, q2)
    BY <1>1, <2>2, <2>3, ReleaseDrops DEF Alike
  <2>5. PICK x : x = Gxm!Again(h.slots[at])
    OBVIOUS
  <2>6. x \in Slot /\ x.vp = vp /\ x.id = h.slots[at].id /\ x.last = g_frame
    BY <1>2, <2>1, <2>5, AgainNotes
  <2>7a. PICK u : u = [h.slots EXCEPT ![at] = x]
    OBVIOUS
  <2>7. PICK k : k = [h EXCEPT !.slots = u]
    OBVIOUS
  <2>8. /\ Sound(k, q) /\ Gxm!Used(k.slots) = Gxm!Used(h.slots)
        /\ k.slots[at] = x /\ \A i \in Index : i # at => k.slots[i] = h.slots[i]
    <3>1. x.vp = h.slots[at].vp
      BY <2>1, <2>6
    <3>2. Noted(h, k, at, x)
      BY <2>7a, <2>7 DEF Noted
    <3> QED BY <1>1, <2>1, <2>6, <3>1, <3>2, NoteIsSound
  <2>9. t = [g |-> k, pat |-> q2, at |-> at]
    BY <1>3, <2>1, <2>3, <2>5, <2>7a, <2>7 DEF Gxm!track
  <2>10. Sound(k, q2)
    <3>1. \A i \in Gxm!Used(k.slots) : Held(q, k.slots[i].vp)
      BY <2>8 DEF Sound, Linked
    <3>2. StillHeld(k.slots, q, q2)
      BY <2>4, <3>1 DEF StillHeld, Alike, Held
    <3> QED BY <2>8, <3>2, PatcherMoves
  <2>11. Tracked(k.slots, h.slots, p, vp)
    <3>1. ASSUME NEW i \in Gxm!Used(k.slots)
          PROVE  \/ \E j \in Gxm!Used(h.slots) : k.slots[i] = h.slots[j]
                 \/ k.slots[i].vp = vp /\ k.slots[i].last = g_frame
      BY <1>2, <2>6, <2>8, UsedSlots
    <3> QED BY <2>2, <3>1 DEF Tracked
  <2> QED BY <2>1, <2>4, <2>6, <2>8, <2>9, <2>10, <2>11
<1>5. CASE at = -1
  <2>1. Untracked(h.slots, vp)
    BY <1>2, <1>3, <1>5, NotFound
  <2>2. PICK room : room = IF Gxm!Cardinality(Gxm!Used(h.slots) \cup Gxm!Tombs(h.slots)) >= (Slots * 3) \div 4
                           THEN Gxm!slot_compact(h) ELSE h
    OBVIOUS
  <2>3. Sound(room, q) /\ From(room.slots, h.slots)
    <3>1. CASE room = h
      BY <1>1, <3>1 DEF From
    <3>2. CASE room = Gxm!slot_compact(h)
      BY <1>1, <3>2, CompactIsSound
    <3> QED BY <2>2, <3>1, <3>2
  <2>4. Untracked(room.slots, vp) /\ Table(room.slots) /\ room.slots \in [Index -> Slot]
    BY <2>1, <2>3 DEF From, Untracked, Sound, Table
  <2>5. PICK to : to = Gxm!FreeSlot(room.slots, vp)
    OBVIOUS
  <2>6. PICK x : x = [vp |-> vp, id |-> req[1], last |-> g_frame, creates |-> 1]
    OBVIOUS
  <2>7. x \in Slot /\ x.vp = vp /\ x.id = req[1] /\ x.last = g_frame /\ x.creates = 1
    BY <1>1, <2>6 DEF Slot, VpWords, Gxm!Requests
  <2>8. PICK k : k = [room EXCEPT !.slots[to] = x]
    OBVIOUS
  <2>9. ~(at >= 0)
    BY <1>5
  <2>10. t = IF Gxm!Full(room) THEN [g |-> room, pat |-> q, at |-> -1]
             ELSE [g |-> k, pat |-> q, at |-> to]
    BY <1>3, <2>2, <2>5, <2>6, <2>8, <2>9 DEF Gxm!track
  <2>11. CASE Gxm!Full(room)
    <3>1. t.g = room /\ t.pat = q /\ t.at = -1
      BY <2>10, <2>11
    <3> QED BY <1>1, <2>3, <3>1 DEF Alike, Tracked, From
  <2>12. CASE ~Gxm!Full(room)
    <3>0. t.g = k /\ t.pat = q /\ t.at = to
      BY <2>10, <2>12
    <3>1. PICK i \in Index : i \notin Gxm!Used(room.slots)
      <4>1. PICK c \in Nat : c = Cardinality(Gxm!Used(room.slots)) /\ Gxm!Cardinality(Gxm!Used(room.slots)) = c
        BY <2>4, SlotsCounted DEF Gxm!Used
      <4>2. PICK m \in Nat : m = Slots * 3
        BY DEF Gxm!ConstantsSane
      <4>3. (m \div 4) \in Nat /\ m \div 4 =< Slots /\ Slots \in Nat
        BY <4>2 DEF Gxm!ConstantsSane
      <4>4. ~(c >= m \div 4)
        BY <2>12, <4>1, <4>2 DEF Gxm!Full
      <4>5. c < Slots
        BY <4>3, <4>4
      <4> QED BY <2>4, <4>1, <4>5, RoomLeft
    <3>2. Sound(k, q) /\ Inserted(room.slots, k.slots, to, x)
      BY <1>1, <2>3, <2>4, <2>5, <2>7, <2>8, <3>1, InsertIsSound
    <3>3. ASSUME NEW j \in Gxm!Used(k.slots)
          PROVE  \/ \E n \in Gxm!Used(h.slots) : k.slots[j] = h.slots[n]
                 \/ k.slots[j] = x
      <4>1. CASE j = to
        BY <3>2, <4>1 DEF Inserted
      <4>2. CASE j # to
        <5>1. j \in Gxm!Used(room.slots) /\ j \in Index
          BY <2>4, <3>2, <4>2, UsedSlots DEF Inserted
        <5> QED BY <2>3, <3>2, <4>2, <5>1 DEF Inserted, From
      <4> QED BY <4>1, <4>2
    <3>4. Tracked(k.slots, h.slots, p, vp)
      BY <2>7, <3>3 DEF Tracked
    <3> QED BY <1>1, <2>7, <3>0, <3>2, <3>4 DEF Alike, Inserted
  <2> QED BY <2>11, <2>12
<1> QED BY <1>4, <1>5

LEMMA FinishComesTo ==
  ASSUME Gxm!ConstantsSane, g_frame \in Nat, NEW h, NEW p, Before(h, p), ~g_armed => h = g,
         NEW req \in Gxm!Requests, NEW r \in Gxm!Real(p, req), NEW gc,
         NEW o, o = Gxm!Finish(h, gc, r, req)
  PROVE  Outcome(o, req)
<1>1. Sound(h, p) /\ Patcher(p) /\ Kept(p) /\ Only(p) /\ From(h.slots, g.slots)
  BY DEF Before
<1>2. CASE r.vp = Gxm!NULL
  <2>1. o.g = h /\ o.pat = p /\ o.vp = Gxm!NULL
    BY <1>1, <1>2, RealGives DEF Gxm!Finish
  <2>2. Traced(h.slots, p, req)
    BY BeforeIsTraced
  <2> QED BY <1>1, <2>1, <2>2 DEF Outcome, Replied, New, Only
<1>3. CASE r.vp # Gxm!NULL
  <2>1. PICK q, vp : q = r.pat /\ vp = r.vp
    OBVIOUS
  <2>2. Given(p, q, vp, req) /\ vp # Gxm!NULL
    BY <1>1, <1>3, <2>1, RealGives
  <2>3. Sound(h, q) /\ Kept(q) /\ New(q, req) /\ Patcher(q) /\ Held(q, vp) /\ q[vp].req = req
    BY <1>1, <2>2, GivenIsSound, GivenKeeps DEF Given
  <2>4. CASE ~g_armed
    <3>1. o.g = h /\ o.pat = q /\ o.vp = vp
      BY <2>1, <2>4 DEF Gxm!Finish
    <3>2. Traced(h.slots, q, req)
      BY <1>1, <2>2, BeforeIsTraced, SameGiven DEF Traced, From
    <3> QED BY <1>1, <2>2, <2>3, <2>4, <3>1, <3>2 DEF Outcome, Replied
  <2>5. CASE g_armed
    <3>1. PICK t : t = Gxm!track(h, q, req, vp)
      OBVIOUS
    <3>2. /\ Sound(t.g, t.pat) /\ Patcher(t.pat) /\ Alike(q, t.pat)
          /\ t.at \in Index \cup {-1} /\ (t.at # -1 => t.at \in Gxm!Used(t.g.slots) /\ t.g.slots[t.at].vp = vp)
          /\ Tracked(t.g.slots, h.slots, p, vp)
      BY <1>1, <2>2, <3>1, TrackIsSound
    <3>3. PICK k : k = Gxm!Remember(t.g, req, t.at)
      OBVIOUS
    <3>4. o.g = k /\ o.pat = t.pat /\ o.vp = vp
      BY <1>3, <2>1, <2>5, <3>1, <3>3 DEF Gxm!Finish
    <3>5. Held(t.pat, vp) /\ t.pat[vp].req = req
      BY <2>3, <3>2 DEF Alike, Held
    <3>6. Sound(k, t.pat) /\ k.slots = t.g.slots
      BY <3>2, <3>3, <3>5, RememberIsSound
    <3>7. Kept(t.pat) /\ New(t.pat, req)
      BY <2>3, <3>2, AlikeKeeps
    <3>8. Held(p, vp) => ~Nobody(pat, req)
      <4>1. SUFFICES ASSUME Held(p, vp) PROVE ~Nobody(pat, req)
        OBVIOUS
      <4>2. vp \in Gxm!Addrs /\ Same(pat, p, vp) /\ p[vp].req = req
        BY <1>1, <2>2, <4>1 DEF Only, Given, Held
      <4> QED BY <4>2 DEF Same, Nobody
    <3>9. Traced(t.g.slots, t.pat, req)
      <4>1. ASSUME NEW i \in Gxm!Used(t.g.slots), NEW j \in Gxm!Used(h.slots), t.g.slots[i] = h.slots[j]
            PROVE  /\ \E n \in Gxm!Used(g.slots) : t.g.slots[i] = g.slots[n]
                   /\ Same(pat, t.pat, t.g.slots[i].vp)
        <5>1. \E n \in Gxm!Used(g.slots) : t.g.slots[i] = g.slots[n]
          BY <1>1, <4>1 DEF From
        <5>2. Same(pat, q, h.slots[j].vp)
          BY <2>2, BeforeIsTraced, SameGiven
        <5> QED BY <3>2, <4>1, <5>1, <5>2 DEF Same, Alike, Held
      <4> QED BY <3>2, <3>5, <3>8, <4>1 DEF Traced, Tracked
    <3> QED BY <2>2, <2>5, <3>2, <3>4, <3>5, <3>6, <3>7, <3>9 DEF Outcome, Replied
  <2> QED BY <2>4, <2>5
<1> QED BY <1>2, <1>3

\* Idle programs are given back with their slots.
LEMMA SweepIsSound ==
  ASSUME Gxm!ConstantsSane, Patcher(pat), NEW h, Before(h, pat), NEW swept, swept = Gxm!evict_idle(h)
  PROVE  Before(swept.g, swept.pat)
<1>1. Sound(h, pat) /\ From(h.slots, g.slots) /\ Table(h.slots) /\ h.slots \in [Index -> Slot]
  BY DEF Before, Sound, Table
<1>2. PICK dead : dead = {i \in Gxm!Used(h.slots) : Gxm!Idle(h.slots[i])}
  OBVIOUS
<1>3. PICK D : D = {h.slots[i].vp : i \in dead}
  OBVIOUS
<1>4. PICK k : k = Gxm!slot_kill(h, dead)
  OBVIOUS
<1>5. PICK q : q = Gxm!Release(pat, D)
  OBVIOUS
<1>6. \A a \in D : Held(pat, a) /\ Idler(a)
  <2>1. ASSUME NEW i \in dead PROVE Held(pat, h.slots[i].vp) /\ Idler(h.slots[i].vp)
    <3>1. i \in Gxm!Used(h.slots) /\ Gxm!Idle(h.slots[i])
      BY <1>2
    <3>2. PICK j \in Gxm!Used(g.slots) : h.slots[i] = g.slots[j]
      BY <1>1, <3>1 DEF From
    <3> QED BY <1>1, <3>1, <3>2 DEF Sound, Linked, Idler
  <2> QED BY <1>3, <2>1
<1>7. /\ Patcher(q)
      /\ \A b \in Gxm!Addrs : /\ Held(q, b) => Held(pat, b) /\ q[b].req = pat[b].req
                              /\ b \notin D => q[b] = pat[b]
  BY <1>5, <1>6, ReleaseReleases
<1>8. \A i \in Gxm!Used(h.slots) \ dead :
        Held(q, h.slots[i].vp) /\ q[h.slots[i].vp].req = pat[h.slots[i].vp].req
  <2>1. ASSUME NEW i \in Gxm!Used(h.slots) \ dead, NEW a, a = h.slots[i].vp
        PROVE  Held(q, a) /\ q[a].req = pat[a].req
    <3>1. Held(pat, a) /\ a \in Gxm!Addrs
      BY <1>1, <2>1 DEF Sound, Linked, Held
    <3>2. a \notin D
      <4>1. ASSUME NEW j \in dead, a = h.slots[j].vp PROVE FALSE
        <5>1. j \in Gxm!Used(h.slots) /\ i # j
          BY <1>2
        <5> QED BY <1>1, <2>1, <4>1, <5>1, TrackedOnce
      <4> QED BY <1>3, <4>1
    <3> QED BY <1>7, <3>1, <3>2 DEF Held
  <2> QED BY <2>1
<1>9. /\ Sound(k, q) /\ Gxm!Used(k.slots) = Gxm!Used(h.slots) \ dead
      /\ \A i \in Gxm!Used(k.slots) : k.slots[i] = h.slots[i]
  <2>1. dead \in SUBSET Gxm!Used(h.slots)
    BY <1>2
  <2> QED BY <1>1, <1>4, <1>8, <2>1, KillIsSound
<1>10. From(k.slots, g.slots)
  BY <1>1, <1>9 DEF From
<1>11. Kept(q) /\ Only(q)
  BY <1>6, <1>7 DEF Kept, Only, Same, Held
<1>12. swept.g \in {k, Gxm!slot_compact(k)} /\ swept.pat = q
  BY <1>2, <1>3, <1>4, <1>5 DEF Gxm!evict_idle
<1>13. CASE swept.g = k
  BY <1>7, <1>9, <1>10, <1>11, <1>12, <1>13 DEF Before
<1>14. CASE swept.g = Gxm!slot_compact(k)
  <2>1. Sound(swept.g, q) /\ From(swept.g.slots, k.slots)
    BY <1>9, <1>14, CompactIsSound
  <2>2. From(swept.g.slots, g.slots)
    BY <1>10, <2>1 DEF From
  <2> QED BY <1>7, <1>11, <1>12, <2>1, <2>2 DEF Before
<1> QED BY <1>12, <1>13, <1>14

LEMMA CreateComesTo ==
  ASSUME Gxm!ConstantsSane, g_frame \in Nat, Sound(g, pat), Patcher(pat), NEW req \in Gxm!Requests,
         NEW o \in Gxm!Create(req)
  PROVE  Outcome(o, req)
<1>1. PICK h : h = IF g_armed /\ g.stale THEN [g EXCEPT !.memo = <<>>, !.stale = FALSE] ELSE g
  OBVIOUS
<1>2. Sound(h, pat) /\ h.slots = g.slots /\ (~g_armed => h = g) /\ (g_armed => ~h.stale)
  <2>1. CASE g_armed /\ g.stale
    <3>1. Forgotten(g, h)
      BY <1>1, <2>1 DEF Forgotten
    <3> QED BY <2>1, <3>1, ForgetIsSound
  <2>2. CASE ~(g_armed /\ g.stale)
    BY <1>1, <2>2
  <2> QED BY <2>1, <2>2
<1>3. Before(h, pat)
  BY <1>2 DEF Before, Kept, Only, Same, From
<1>4. CASE g_armed /\ req \in DOMAIN h.memo
  <2>1. PICK at : at = h.memo[req]
    OBVIOUS
  <2>2. at \in Gxm!Used(h.slots) /\ pat[h.slots[at].vp].req = req
    BY <1>2, <1>4, <2>1 DEF Sound, Remembered
  <2>3. h.slots \in [Index -> Slot] /\ Held(pat, h.slots[at].vp) /\ h.slots[at].vp \in Gxm!Addrs
    BY <1>2, <2>2 DEF Sound, Table, Linked, Held
  <2>4. PICK x : x = Gxm!Again(h.slots[at])
    OBVIOUS
  <2>5. x \in Slot /\ x.vp = h.slots[at].vp /\ x.id = h.slots[at].id /\ x.last = g_frame /\ at \in Index
    BY <2>2, <2>3, <2>4, UsedSlots, AgainNotes
  <2>6. PICK u : u = [h.slots EXCEPT ![at] = x]
    OBVIOUS
  <2>7. PICK k : k = [h EXCEPT !.slots = u]
    OBVIOUS
  <2>8. Noted(h, k, at, x)
    BY <2>6, <2>7 DEF Noted
  <2>9. /\ Sound(k, pat) /\ Gxm!Used(k.slots) = Gxm!Used(h.slots)
        /\ k.slots[at] = x /\ \A i \in Index : i # at => k.slots[i] = h.slots[i]
    BY <1>2, <2>2, <2>5, <2>8, NoteIsSound
  <2>10. o = [g |-> k, gc |-> g_last_gc_frame, pat |-> pat, vp |-> h.slots[at].vp]
    BY <1>1, <1>4, <2>1, <2>4, <2>6, <2>7 DEF Gxm!Create
  <2>11. o.g = k /\ o.pat = pat /\ o.vp = h.slots[at].vp
    BY <2>10
  <2>12. ~Nobody(pat, req)
    BY <2>2, <2>3 DEF Nobody
  <2>13. Traced(k.slots, pat, req)
    <3>1. ASSUME NEW i \in Gxm!Used(k.slots)
          PROVE  \/ \E j \in Gxm!Used(g.slots) : k.slots[i] = g.slots[j]
                 \/ pat[k.slots[i].vp].req = req /\ k.slots[i].last = g_frame
      BY <1>2, <2>2, <2>3, <2>5, <2>9, UsedSlots
    <3>2. \A i \in Gxm!Used(k.slots) : Held(pat, k.slots[i].vp)
      BY <2>9 DEF Sound, Linked
    <3> QED BY <2>12, <3>1, <3>2 DEF Traced, Same
  <2>14. Kept(pat) /\ New(pat, req)
    BY DEF Kept, New, Same
  <2>15. Replied(o, req)
    BY <2>2, <2>3, <2>11, WordFacts DEF Replied
  <2> QED BY <1>4, <2>9, <2>11, <2>13, <2>14, <2>15 DEF Outcome
<1>5. CASE ~(g_armed /\ req \in DOMAIN h.memo)
  <2>1. PICK sweep : sweep = Gxm!evict_idle(h)
    OBVIOUS
  <2>2. PICK r \in Gxm!Real(pat, req) :
          \/ o = Gxm!Finish(h, g_last_gc_frame, r, req)
          \/ o = Gxm!Finish(h, g_frame, r, req)
          \/ g_armed /\ \E again \in Gxm!Real(sweep.pat, req) : o = Gxm!Finish(sweep.g, g_frame, again, req)
    BY <1>1, <1>5, <2>1 DEF Gxm!Create
  <2>3. CASE \E gc : o = Gxm!Finish(h, gc, r, req)
    BY <1>2, <1>3, <2>3, FinishComesTo
  <2>4. CASE g_armed /\ \E again \in Gxm!Real(sweep.pat, req) : o = Gxm!Finish(sweep.g, g_frame, again, req)
    <3>1. Before(sweep.g, sweep.pat)
      BY <1>3, <2>1, SweepIsSound
    <3> QED BY <2>4, <3>1, FinishComesTo
  <2> QED BY <2>2, <2>3, <2>4
<1> QED BY <1>4, <1>5

-----------------------------------------------------------------------------
(* The programs' invariant.                                                *)

\* A program was bound no later than its slot says.
Timed(slots, b, f) ==
  \A i \in Gxm!Used(slots) : b[slots[i].vp] =< slots[i].last /\ slots[i].last =< f

Bindings(b, f) == b \in [Gxm!Addrs -> Nat \cup {-1}] /\ \A a \in Gxm!Addrs : b[a] =< f

\* The fixed function has its program for a shape, which was asked for once, or there is none.
FixedFine(slots, p, sh, a) ==
  IF a = Gxm!NULL THEN Nobody(p, <<FixedId, sh>>)
  ELSE /\ Held(p, a) /\ p[a].req = <<FixedId, sh>>
       /\ \A i \in Gxm!Used(slots) : slots[i].vp = a => slots[i].creates < 2

ProgInv ==
  /\ g_frame \in Nat /\ Bindings(bound, g_frame)
  /\ vprog \in [Ids -> {Gxm!NULL} \cup Gxm!Addrs] /\ stored \in [Shapes -> {Gxm!NULL} \cup Gxm!Addrs]
  /\ Sound(g, pat) /\ Patcher(pat) /\ Timed(g.slots, bound, g_frame)
  /\ ~g_armed => Gxm!Used(g.slots) = {}
  /\ \A sh \in Shapes : FixedFine(g.slots, pat, sh, stored[sh])

LEMMA OutcomeIsTimed ==
  ASSUME Gxm!ConstantsSane, ProgInv, NEW o, NEW req, Outcome(o, req)
  PROVE  Timed(o.g.slots, bound, g_frame)
<1>1. ASSUME NEW i \in Gxm!Used(o.g.slots), NEW x, x = o.g.slots[i]
      PROVE  bound[x.vp] =< x.last /\ x.last =< g_frame
  <2>1. CASE \E j \in Gxm!Used(g.slots) : x = g.slots[j]
    BY <2>1 DEF ProgInv, Timed
  <2>2. CASE x.last = g_frame
    <3>1. x.vp \in Gxm!Addrs
      BY <1>1, UsedSlots DEF Outcome, Sound, Table
    <3> QED BY <2>2, <3>1 DEF ProgInv, Bindings
  <2> QED BY <1>1, <2>1, <2>2 DEF Outcome, Traced
<1> QED BY <1>1 DEF Timed

\* The slots in use are those that were, for the same programs and as often asked for.
Renewed(t, slots) ==
  /\ Gxm!Used(t) = Gxm!Used(slots)
  /\ \A i \in Gxm!Used(t) : t[i].vp = slots[i].vp /\ t[i].creates = slots[i].creates

LEMMA BindIsSound ==
  ASSUME Gxm!ConstantsSane, g_frame \in Nat, Bindings(bound, g_frame), NEW h, NEW p, Sound(h, p),
         Timed(h.slots, bound, g_frame), ~g_armed => Gxm!Used(h.slots) = {},
         NEW vp \in Gxm!Addrs, NEW k, k = Gxm!Bind(h, vp), NEW b, b = [bound EXCEPT ![vp] = g_frame]
  PROVE  /\ Sound(k, p) /\ Timed(k.slots, b, g_frame) /\ Bindings(b, g_frame)
         /\ Renewed(k.slots, h.slots)
<1>1. h \in Books /\ Table(h.slots) /\ h.slots \in [Index -> Slot]
  BY DEF Sound, Table
<1>2. b \in [Gxm!Addrs -> Nat \cup {-1}] /\ b[vp] = g_frame /\ \A a \in Gxm!Addrs \ {vp} : b[a] = bound[a]
  BY DEF Bindings
<1>3. Bindings(b, g_frame)
  BY <1>2 DEF Bindings
<1>4. CASE ~g_armed
  <2>1. k = h
    BY <1>4 DEF Gxm!Bind
  <2> QED BY <1>3, <1>4, <2>1 DEF Timed, Renewed
<1>5. CASE g_armed
  <2>1. PICK at : at = IF vp = h.last_set /\ h.last_set_slot >= 0 THEN h.last_set_slot
                       ELSE Gxm!slot_find(h.slots, vp)
    OBVIOUS
  <2>2. /\ at # -1 => at \in Gxm!Used(h.slots) /\ h.slots[at].vp = vp /\ at \in Index
        /\ at = -1 => Untracked(h.slots, vp)
    <3>1. CASE vp = h.last_set /\ h.last_set_slot >= 0
      BY <1>1, <2>1, <3>1, UsedSlots DEF Sound, LastKnown
    <3>2. CASE at = Gxm!slot_find(h.slots, vp)
      BY <1>1, <3>2, FindReturns, NotFound, UsedSlots
    <3> QED BY <2>1, <3>1, <3>2
  <2>3. PICK seen : seen = IF at >= 0 THEN [h EXCEPT !.slots[at] = [@ EXCEPT !.last = g_frame]] ELSE h
    OBVIOUS
  <2>4. k = [seen EXCEPT !.last_set = vp, !.last_set_slot = at]
    BY <1>5, <2>1, <2>3 DEF Gxm!Bind
  <2>5. /\ Sound(seen, p) /\ Renewed(seen.slots, h.slots) /\ Timed(seen.slots, b, g_frame)
        /\ at # -1 => seen.slots[at].vp = vp
    <3>1. CASE at # -1
      <4>1. at \in Gxm!Used(h.slots) /\ h.slots[at].vp = vp /\ at \in Index /\ at >= 0 /\ h.slots[at] \in Slot
        <5>1. at \in Gxm!Used(h.slots) /\ h.slots[at].vp = vp /\ at \in Index
          BY <2>2, <3>1
        <5>2. at >= 0
          BY <5>1 DEF Index, Gxm!ConstantsSane
        <5> QED BY <1>1, <5>1, <5>2
      <4>2. PICK x : x = [h.slots[at] EXCEPT !.last = g_frame]
        OBVIOUS
      <4>3. /\ x \in Slot /\ x.vp = h.slots[at].vp /\ x.id = h.slots[at].id /\ x.last = g_frame
            /\ x.creates = h.slots[at].creates
        BY <4>1, <4>2 DEF Slot
      <4>4. PICK u : u = [h.slots EXCEPT ![at] = x]
        OBVIOUS
      <4>5. seen = [h EXCEPT !.slots = u]
        <5>1. seen = [h EXCEPT !.slots[at] = [@ EXCEPT !.last = g_frame]]
          <6>1. at >= 0
            BY <4>1
          <6> QED BY ONLY <2>3, <6>1, Zenon
        <5> QED BY ONLY <4>2, <4>4, <5>1
      <4>6. Noted(h, seen, at, x)
        BY <4>4, <4>5 DEF Noted
      <4>7. /\ Sound(seen, p) /\ Gxm!Used(seen.slots) = Gxm!Used(h.slots)
            /\ seen.slots[at] = x /\ \A i \in Index : i # at => seen.slots[i] = h.slots[i]
        BY <4>1, <4>3, <4>6, NoteIsSound
      <4>8. \A i \in Gxm!Used(h.slots) : i \in Index /\ h.slots[i].vp \in Gxm!Addrs
        BY <1>1, UsedSlots
      <4>9. ASSUME NEW i \in Gxm!Used(h.slots), i # at PROVE h.slots[i].vp # vp
        BY <1>1, <4>1, <4>9, TrackedOnce
      <4>10. Timed(seen.slots, b, g_frame)
        BY <1>2, <4>1, <4>3, <4>7, <4>8, <4>9 DEF Timed
      <4>11. Renewed(seen.slots, h.slots)
        BY <4>3, <4>7, <4>8 DEF Renewed
      <4> QED BY <4>1, <4>3, <4>7, <4>10, <4>11
    <3>2. CASE at = -1
      <4>1. seen = h
        BY <2>3, <3>2
      <4>2. \A i \in Gxm!Used(h.slots) : h.slots[i].vp \in Gxm!Addrs /\ h.slots[i].vp # vp
        BY <1>1, <2>2, <3>2, UsedSlots DEF Untracked
      <4> QED BY <1>2, <3>2, <4>1, <4>2 DEF Renewed, Timed
    <3> QED BY <3>1, <3>2
  <2>6. /\ k \in Books /\ k.slots = seen.slots /\ k.memo = seen.memo /\ k.stale = seen.stale
        /\ k.last_set = vp /\ k.last_set_slot = at
    <3>1. seen \in Books /\ vp \in VpWords /\ at \in Index \cup {-1}
      BY <2>2, <2>5 DEF Sound, VpWords
    <3> QED BY <2>4, <3>1 DEF Books
  <2>7. LastKnown(k)
    BY <2>2, <2>5, <2>6 DEF LastKnown, Renewed
  <2>8. Sound(k, p)
    BY <2>5, <2>6, <2>7 DEF Sound, Remembered
  <2> QED BY <1>3, <2>5, <2>6, <2>8
<1> QED BY <1>4, <1>5

\* What a create comes to, and then a bind of its answer or of what there was.
LEMMA BindsAreSound ==
  ASSUME Gxm!ConstantsSane, ProgInv, NEW o, NEW req, Outcome(o, req),
         NEW vp \in {Gxm!NULL} \cup Gxm!Addrs, Gxm!Binds(o, vp)
  PROVE  /\ Sound(g', o.pat) /\ Timed(g'.slots, bound', g_frame) /\ Bindings(bound', g_frame)
         /\ Renewed(g'.slots, o.g.slots) /\ (~g_armed => Gxm!Used(g'.slots) = {})
<1>1. Sound(o.g, o.pat) /\ Timed(o.g.slots, bound, g_frame) /\ (~g_armed => Gxm!Used(o.g.slots) = {})
  BY OutcomeIsTimed DEF Outcome, ProgInv
<1>2. CASE vp = Gxm!NULL
  BY <1>1, <1>2 DEF Gxm!Binds, Renewed, ProgInv
<1>3. CASE vp # Gxm!NULL
  <2>1. vp \in Gxm!Addrs
    BY <1>3
  <2>2. g' = Gxm!Bind(o.g, vp) /\ bound' = [bound EXCEPT ![vp] = g_frame]
    BY <1>3 DEF Gxm!Binds
  <2>3. g_frame \in Nat /\ Bindings(bound, g_frame)
    BY DEF ProgInv
  <2>4. PICK k, b : k = Gxm!Bind(o.g, vp) /\ b = [bound EXCEPT ![vp] = g_frame]
    OBVIOUS
  <2>5. /\ Sound(k, o.pat) /\ Timed(k.slots, b, g_frame) /\ Bindings(b, g_frame)
        /\ Renewed(k.slots, o.g.slots)
    BY <1>1, <2>1, <2>3, <2>4, BindIsSound
  <2>6. g' = k /\ bound' = b
    BY <2>2, <2>4
  <2> QED BY <1>1, <2>5, <2>6 DEF Renewed
<1> QED BY <1>2, <1>3

\* Another request leaves the fixed function's program alone.
LEMMA FixedStays ==
  ASSUME Gxm!ConstantsSane, ProgInv, NEW o, NEW req, Outcome(o, req), NEW sh \in Shapes,
         req # <<FixedId, sh>>, NEW slots, Renewed(slots, o.g.slots)
  PROVE  FixedFine(slots, o.pat, sh, stored[sh])
<1>1. PICK a, fix : a = stored[sh] /\ fix = <<FixedId, sh>>
  OBVIOUS
<1>2. FixedFine(g.slots, pat, sh, a) /\ a \in {Gxm!NULL} \cup Gxm!Addrs
  BY <1>1 DEF ProgInv
<1>3. CASE a = Gxm!NULL
  BY <1>1, <1>2, <1>3 DEF FixedFine, Nobody, Outcome, New, Same
<1>4. CASE a # Gxm!NULL
  <2>1. Held(pat, a) /\ pat[a].req = fix /\ a \in Gxm!Addrs
    BY <1>1, <1>2, <1>4 DEF FixedFine
  <2>2. \A j \in Gxm!Used(g.slots) : g.slots[j].vp = a => g.slots[j].creates < 2 /\ g.slots[j].creates \in Nat
    <3>1. \A j \in Gxm!Used(g.slots) : g.slots[j] \in Slot
      BY UsedSlots DEF ProgInv, Sound, Table
    <3> QED BY <1>2, <1>4, <3>1 DEF FixedFine, Slot
  <2>3. ~Idler(a)
    BY <2>2 DEF Idler, Gxm!Idle
  <2>4. Same(pat, o.pat, a)
    BY <2>1, <2>3 DEF Outcome, Kept
  <2>5. Held(o.pat, a) /\ o.pat[a].req = fix
    BY <2>1, <2>4 DEF Same
  <2>6. ASSUME NEW i \in Gxm!Used(slots), slots[i].vp = a PROVE slots[i].creates < 2
    <3>1. i \in Gxm!Used(o.g.slots) /\ o.g.slots[i].vp = a /\ slots[i].creates = o.g.slots[i].creates
      BY <2>6 DEF Renewed
    <3>2. PICK j \in Gxm!Used(g.slots) : o.g.slots[i] = g.slots[j]
      BY <1>1, <2>5, <3>1 DEF Outcome, Traced
    <3> QED BY <2>2, <3>1, <3>2
  <2> QED BY <1>1, <1>4, <2>5, <2>6 DEF FixedFine
<1> QED BY <1>3, <1>4

\* The fixed function's own request, made when it has no program.
LEMMA FixedComes ==
  ASSUME Gxm!ConstantsSane, ProgInv, NEW sh \in Shapes, stored[sh] = Gxm!NULL, NEW o, NEW req,
         req = <<FixedId, sh>>, Outcome(o, req), NEW slots, Renewed(slots, o.g.slots)
  PROVE  FixedFine(slots, o.pat, sh, o.vp)
<1>1. Nobody(pat, req)
  BY DEF ProgInv, FixedFine
<1>2. CASE o.vp = Gxm!NULL
  <2>1. Only(o.pat)
    BY <1>2 DEF Outcome, Replied
  <2> QED BY <1>1, <1>2, <2>1 DEF FixedFine, Nobody, Only, Same
<1>3. CASE o.vp # Gxm!NULL
  <2>1. PICK a : a = o.vp
    OBVIOUS
  <2>2. Held(o.pat, a) /\ o.pat[a].req = req
    BY <1>3, <2>1 DEF Outcome, Replied
  <2>3. ~Same(pat, o.pat, a)
    BY <1>1, <2>2 DEF Same, Nobody, Held
  <2>4. ASSUME NEW i \in Gxm!Used(slots), slots[i].vp = a PROVE slots[i].creates < 2
    <3>1. i \in Gxm!Used(o.g.slots) /\ o.g.slots[i].vp = a /\ slots[i].creates = o.g.slots[i].creates
      BY <2>4 DEF Renewed
    <3>2. ~(o.g.slots[i].creates >= 2)
      BY <1>1, <2>3, <3>1 DEF Outcome, Traced
    <3>3. o.g.slots[i].creates \in Nat
      BY <3>1, UsedSlots DEF Outcome, Sound, Table, Slot
    <3> QED BY <3>1, <3>2, <3>3
  <2> QED BY <1>3, <2>1, <2>2, <2>4 DEF FixedFine
<1> QED BY <1>2, <1>3

LEMMA ProgDraw ==
  ASSUME Gxm!ConstantsSane, ProgInv, NEW id \in Ids, NEW shape \in Shapes, Gxm!Draw(id, shape)
  PROVE  ProgInv'
<1>1. PICK req : req = <<id, shape>>
  OBVIOUS
<1>2. PICK o, vp :
        /\ o \in Gxm!Create(req)
        /\ vp = IF o.vp = Gxm!NULL THEN vprog[id] ELSE o.vp
        /\ pat' = o.pat /\ vprog' = [vprog EXCEPT ![id] = vp] /\ Gxm!Binds(o, vp)
        /\ g_armed' = g_armed /\ g_frame' = g_frame /\ stored' = stored
  BY <1>1 DEF Gxm!Draw
<1>3. req \in Gxm!Requests /\ g_frame \in Nat /\ Sound(g, pat) /\ Patcher(pat)
  BY <1>1 DEF Gxm!Requests, ProgInv
<1>4. Outcome(o, req)
  BY <1>2, <1>3, CreateComesTo
<1>5. vp \in {Gxm!NULL} \cup Gxm!Addrs
  BY <1>2, <1>4 DEF Outcome, Replied, Held, ProgInv
<1>6. /\ Sound(g', o.pat) /\ Timed(g'.slots, bound', g_frame) /\ Bindings(bound', g_frame)
      /\ Renewed(g'.slots, o.g.slots) /\ (~g_armed => Gxm!Used(g'.slots) = {})
  BY <1>2, <1>4, <1>5, BindsAreSound
<1>7. ASSUME NEW sh \in Shapes PROVE FixedFine(g'.slots, o.pat, sh, stored[sh])
  <2>1. req # <<FixedId, sh>>
    BY <1>1 DEF Gxm!ConstantsSane
  <2> QED BY <1>4, <1>6, <2>1, FixedStays
<1>8. vprog' \in [Ids -> {Gxm!NULL} \cup Gxm!Addrs]
  BY <1>2, <1>5 DEF ProgInv
<1>9. Patcher(pat')
  BY <1>2, <1>4 DEF Outcome
<1> QED BY <1>2, <1>3, <1>6, <1>7, <1>8, <1>9 DEF ProgInv

LEMMA ProgFixedDraw ==
  ASSUME Gxm!ConstantsSane, ProgInv, NEW shape \in Shapes, Gxm!FixedDraw(shape)
  PROVE  ProgInv'
<1>1. PICK req : req = <<FixedId, shape>>
  OBVIOUS
<1>2. PICK o \in IF stored[shape] = Gxm!NULL THEN Gxm!Create(req)
                 ELSE {[g |-> g, gc |-> g_last_gc_frame, pat |-> pat, vp |-> stored[shape]]} :
        /\ pat' = o.pat /\ stored' = [stored EXCEPT ![shape] = o.vp] /\ Gxm!Binds(o, o.vp)
        /\ g_armed' = g_armed /\ g_frame' = g_frame /\ vprog' = vprog
  BY <1>1 DEF Gxm!FixedDraw
<1>3. req \in Gxm!Requests /\ g_frame \in Nat /\ Sound(g, pat) /\ Patcher(pat)
  BY <1>1 DEF Gxm!Requests, ProgInv
<1>4. Outcome(o, req)
  <2>1. CASE stored[shape] = Gxm!NULL
    BY <1>2, <1>3, <2>1, CreateComesTo
  <2>2. CASE stored[shape] # Gxm!NULL
    <3>1. o.g = g /\ o.pat = pat /\ o.vp = stored[shape]
      BY <1>2, <2>2
    <3>2. Held(pat, stored[shape]) /\ pat[stored[shape]].req = req
      BY <1>1, <2>2 DEF ProgInv, FixedFine
    <3>3. Before(g, pat)
      BY <1>3 DEF Before, Kept, Only, Same, From
    <3>4. Traced(g.slots, pat, req)
      BY <3>3, BeforeIsTraced
    <3> QED BY <1>3, <2>2, <3>1, <3>2, <3>4 DEF Outcome, Replied, Kept, New, Same
  <2> QED BY <2>1, <2>2
<1>5. o.vp \in {Gxm!NULL} \cup Gxm!Addrs
  BY <1>4 DEF Outcome, Replied, Held
<1>6. /\ Sound(g', o.pat) /\ Timed(g'.slots, bound', g_frame) /\ Bindings(bound', g_frame)
      /\ Renewed(g'.slots, o.g.slots) /\ (~g_armed => Gxm!Used(g'.slots) = {})
  BY <1>2, <1>4, <1>5, BindsAreSound
<1>7. stored' \in [Shapes -> {Gxm!NULL} \cup Gxm!Addrs]
  BY <1>2, <1>5 DEF ProgInv
<1>8. stored \in [Shapes -> {Gxm!NULL} \cup Gxm!Addrs]
  BY DEF ProgInv
<1>9. ASSUME NEW sh \in Shapes PROVE FixedFine(g'.slots, o.pat, sh, stored'[sh])
  <2>1. CASE sh # shape
    <3>1. req # <<FixedId, sh>> /\ stored'[sh] = stored[sh]
      BY <1>1, <1>2, <1>8, <2>1
    <3> QED BY <1>4, <1>6, <3>1, FixedStays
  <2>2. CASE sh = shape /\ stored[shape] = Gxm!NULL
    <3>1. stored'[sh] = o.vp
      BY <1>2, <1>8, <2>2
    <3> QED BY <1>1, <1>4, <1>6, <2>2, <3>1, FixedComes
  <2>3. CASE sh = shape /\ stored[shape] # Gxm!NULL
    <3>1. o.g = g /\ o.pat = pat /\ o.vp = stored[shape] /\ stored'[sh] = stored[shape]
      BY <1>2, <1>8, <2>3
    <3>2. FixedFine(g.slots, pat, shape, stored[shape])
      BY DEF ProgInv
    <3> QED BY <1>6, <2>3, <3>1, <3>2 DEF FixedFine, Renewed
  <2> QED BY <2>1, <2>2, <2>3
<1>10. Patcher(pat')
  BY <1>2, <1>4 DEF Outcome
<1>11. vprog' \in [Ids -> {Gxm!NULL} \cup Gxm!Addrs]
  BY <1>2 DEF ProgInv
<1> QED BY <1>2, <1>3, <1>6, <1>7, <1>9, <1>10, <1>11 DEF ProgInv

LEMMA ProgUnregister ==
  ASSUME Gxm!ConstantsSane, ProgInv, NEW id \in Ids, Gxm!Unregister(id)
  PROVE  ProgInv'
<1>1. /\ pat' = [a \in Gxm!Addrs |-> IF pat[a] # Gxm!Gone /\ pat[a].req[1] = id THEN Gxm!Gone ELSE pat[a]]
      /\ vprog' = [vprog EXCEPT ![id] = Gxm!NULL] /\ g_armed' = g_armed /\ g_frame' = g_frame
      /\ stored' = stored /\ bound' = bound
  BY DEF Gxm!Unregister
<1>2. Sound(g, pat) /\ Patcher(pat) /\ Timed(g.slots, bound, g_frame)
  BY DEF ProgInv
<1>3. Patcher(pat')
  BY <1>1, <1>2 DEF Patcher
<1>4. \A a \in Gxm!Addrs : /\ Held(pat', a) => Held(pat, a) /\ pat'[a] = pat[a]
                           /\ Held(pat, a) /\ pat[a].req[1] # id => Held(pat', a)
  BY <1>1 DEF Held
<1>5. PICK dead : dead = {i \in Gxm!Used(g.slots) : g.slots[i].id = id}
  OBVIOUS
<1>6. /\ Sound(g', pat') /\ Gxm!Used(g'.slots) \subseteq Gxm!Used(g.slots)
      /\ \A i \in Gxm!Used(g'.slots) : g'.slots[i] = g.slots[i]
  <2>1. CASE g_armed
    <3>1. g' = Gxm!slot_kill(g, dead) /\ dead \in SUBSET Gxm!Used(g.slots)
      BY <1>5, <2>1 DEF Gxm!Unregister
    <3>2. ASSUME NEW i \in Gxm!Used(g.slots) \ dead
          PROVE  Held(pat', g.slots[i].vp) /\ pat'[g.slots[i].vp].req = pat[g.slots[i].vp].req
      <4>1. g.slots[i].id # id /\ Held(pat, g.slots[i].vp) /\ pat[g.slots[i].vp].req[1] # id
        BY <1>2, <1>5 DEF Sound, Linked
      <4> QED BY <1>4, <4>1 DEF Held
    <3>3. PICK k, q : k = Gxm!slot_kill(g, dead) /\ q = pat'
      OBVIOUS
    <3>4. /\ Sound(k, q) /\ Gxm!Used(k.slots) = Gxm!Used(g.slots) \ dead
          /\ \A i \in Gxm!Used(k.slots) : k.slots[i] = g.slots[i]
      BY <1>2, <3>1, <3>2, <3>3, KillIsSound
    <3> QED BY <3>1, <3>3, <3>4
  <2>2. CASE ~g_armed
    <3>1. g' = g /\ Gxm!Used(g.slots) = {}
      BY <2>2 DEF Gxm!Unregister, ProgInv
    <3>2. StillHeld(g.slots, pat, pat')
      BY <3>1 DEF StillHeld
    <3> QED BY <1>2, <3>1, <3>2, PatcherMoves
  <2> QED BY <2>1, <2>2
<1>7. Timed(g'.slots, bound', g_frame')
  BY <1>1, <1>2, <1>6 DEF Timed
<1>8. ASSUME NEW sh \in Shapes PROVE FixedFine(g'.slots, pat', sh, stored'[sh])
  <2>1. PICK a, fix : a = stored[sh] /\ fix = <<FixedId, sh>>
    OBVIOUS
  <2>2. fix[1] # id /\ FixedFine(g.slots, pat, sh, a)
    BY <2>1 DEF Gxm!ConstantsSane, ProgInv
  <2>3. CASE a = Gxm!NULL
    BY <1>1, <1>4, <2>1, <2>2, <2>3 DEF FixedFine, Nobody
  <2>4. CASE a # Gxm!NULL
    <3>1. Held(pat, a) /\ pat[a].req = fix /\ a \in Gxm!Addrs
      BY <2>1, <2>2, <2>4 DEF FixedFine, Held
    <3>2. Held(pat', a) /\ pat'[a].req = fix
      BY <1>4, <2>2, <3>1
    <3> QED BY <1>1, <1>6, <2>1, <2>2, <2>4, <3>2 DEF FixedFine
  <2> QED BY <2>3, <2>4
<1>9. vprog' \in [Ids -> {Gxm!NULL} \cup Gxm!Addrs]
  BY <1>1 DEF ProgInv
<1>10. ~g_armed' => Gxm!Used(g'.slots) = {}
  BY <1>1, <1>6 DEF ProgInv
<1> QED BY <1>1, <1>3, <1>6, <1>7, <1>8, <1>9, <1>10 DEF ProgInv

LEMMA ProgArm ==
  ASSUME ProgInv, Gxm!gxmp_arm
  PROVE  ProgInv'
BY DEF ProgInv, Gxm!gxmp_arm

LEMMA ProgSwap ==
  ASSUME Gxm!ConstantsSane, ProgInv, Gxm!gxmp_on_swap
  PROVE  ProgInv'
<1>1. PICK f \in Nat : f = g_frame
  BY DEF ProgInv
<1>2. /\ g_frame' = f + 1 /\ pat' = pat /\ g' = g /\ g_armed' = g_armed /\ vprog' = vprog
      /\ stored' = stored /\ bound' = bound
  BY <1>1 DEF Gxm!gxmp_on_swap
<1>3. Bindings(bound, f + 1)
  <2>1. ASSUME NEW a \in Gxm!Addrs PROVE bound[a] =< f + 1
    <3>1. PICK n \in Int : n = bound[a] /\ n =< f
      BY <1>1 DEF ProgInv, Bindings
    <3> QED BY <3>1
  <2> QED BY <2>1 DEF ProgInv, Bindings
<1>4. Timed(g.slots, bound, f + 1)
  <2>1. ASSUME NEW i \in Gxm!Used(g.slots), NEW x, x = g.slots[i] PROVE bound[x.vp] =< x.last /\ x.last =< f + 1
    <3>1. bound[x.vp] =< x.last /\ x.last =< f
      BY <1>1, <2>1 DEF ProgInv, Timed
    <3>2. PICK n \in Nat : n = x.last
      BY <2>1, UsedSlots DEF ProgInv, Sound, Table, Slot
    <3> QED BY <3>1, <3>2
  <2> QED BY <2>1 DEF Timed
<1>5. f + 1 \in Nat
  OBVIOUS
<1> QED BY <1>2, <1>3, <1>4, <1>5 DEF ProgInv

LEMMA ProgStutter ==
  ASSUME ProgInv, UNCHANGED patcher
  PROVE  ProgInv'
BY DEF ProgInv, patcher

LEMMA ProgStep ==
  ASSUME Gxm!ConstantsSane, ProgInv, Gxm!Next
  PROVE  ProgInv'
BY ProgDraw, ProgFixedDraw, ProgUnregister, ProgArm, ProgSwap DEF Gxm!Next

LEMMA ProgInitInv ==
  ASSUME Gxm!ConstantsSane, Gxm!Init
  PROVE  ProgInv
<1>1. /\ pat = [a \in Gxm!Addrs |-> Gxm!Gone] /\ g_armed = FALSE /\ g_frame = 0
      /\ vprog = [id \in Ids |-> Gxm!NULL] /\ stored = [sh \in Shapes |-> Gxm!NULL]
      /\ bound = [a \in Gxm!Addrs |-> -1]
  BY DEF Gxm!Init
<1>2. PICK t : t = [i \in 0 .. Slots - 1 |-> Gxm!Empty]
  OBVIOUS
<1>3. Gxm!Empty \in Slot /\ Gxm!Empty.vp = Gxm!NULL
  BY DEF Gxm!Empty, Slot, VpWords
<1>4. t \in [Index -> Slot] /\ Gxm!Used(t) = {}
  BY <1>2, <1>3 DEF Index, Gxm!Used
<1>5. g = [slots |-> t, memo |-> <<>>, stale |-> FALSE, last_set |-> Gxm!NULL, last_set_slot |-> -1]
  BY <1>2 DEF Gxm!Init
<1>6. g \in Books /\ g.slots = t /\ g.last_set_slot = -1 /\ DOMAIN g.memo = {}
  <2>1. <<>> \in [{} -> Index] /\ DOMAIN <<>> = {}
    <3>1. DOMAIN <<>> = {} /\ <<>> = [i \in {} |-> 0]
      OBVIOUS
    <3> QED BY <3>1
  <2>2. <<>> \in UNION {[D -> Index] : D \in SUBSET Gxm!Requests}
    BY <2>1
  <2> QED BY <1>4, <1>5, <2>1, <2>2 DEF Books, VpWords
<1>7. Sound(g, pat)
  BY <1>4, <1>6 DEF Sound, Table, Linked, Remembered, LastKnown
<1>8. \A sh \in Shapes : FixedFine(g.slots, pat, sh, stored[sh])
  BY <1>1 DEF FixedFine, Nobody, Held
<1> QED BY <1>1, <1>4, <1>6, <1>7, <1>8 DEF ProgInv, Bindings, Timed, Patcher

\* What the table, the memo and the slot of the last bind say of the patcher's programs, and what
\* the fixed function keeps, holds in every reachable state, for any programs, table, memo and
\* limits (gxm_patcher.c:78-167, 188-277).
THEOREM ProgramsInvariant == GraphicsSpec => []ProgInv
<1>1. GraphicsInit => ProgInv
  BY GraphicsAssumption, ProgInitInv DEF GraphicsInit
<1>2. ProgInv /\ [GraphicsNext]_all => ProgInv'
  BY GraphicsAssumption, ProgStep, ProgStutter DEF GraphicsNext, States, Texes, Draws, Programs, Boots, all
<1> QED BY <1>1, <1>2, PTL DEF GraphicsSpec

\* A repeated request is answered with the program the patcher would give for it, and a program
\* that is tracked is found in its one slot, whatever was released, deleted, compacted and made at
\* the same address in between (gxm_patcher.c:78-82, 142-167).
THEOREM TheMemoIsRight == GraphicsSpec => []AnswersExact
<1>1. ProgInv => AnswersExact
  <2>1. SUFFICES ASSUME ProgInv PROVE AnswersExact
    OBVIOUS
  <2>2. Sound(g, pat)
    BY <2>1 DEF ProgInv
  <2>3. ASSUME NEW i \in Gxm!Used(g.slots)
        PROVE  /\ g.slots[i].vp \in Gxm!Addrs /\ Gxm!Live(pat, g.slots[i].vp)
               /\ pat[g.slots[i].vp].req[1] = g.slots[i].id /\ Gxm!slot_find(g.slots, g.slots[i].vp) = i
    <3>1. Gxm!slot_find(g.slots, g.slots[i].vp) = i
      BY <2>2, GraphicsAssumption, FindTracked DEF Sound
    <3> QED BY <2>2, <3>1, GraphicsAssumption, WordFacts DEF Sound, Linked, Held, Gxm!Live
  <2>4. ~g.stale => \A req \in DOMAIN g.memo :
          g.memo[req] \in Gxm!Used(g.slots) /\ pat[g.slots[g.memo[req]].vp].req = req
    BY <2>2 DEF Sound, Remembered
  <2> QED BY <2>3, <2>4 DEF AnswersExact, Gxm!AnswersExact
<1> QED BY <1>1, ProgramsInvariant, PTL

\* Only what no draw bound for IdleFrames frames is released, unless its shader is deleted, and
\* never a program the fixed function keeps a pointer to: it is asked for once, so it is never
\* counted idle (gxm_patcher.c:21-22, 169-185).
THEOREM OnlyTheIdleIsReleased == GraphicsSpec => ReleasedIdle
<1> DEFINE Fine(a) == /\ bound[a] < 0 \/ g_frame - bound[a] >= IdleFrames
                      /\ \A shape \in Shapes : stored[shape] # a
           Spared == \A a \in Gxm!Addrs : Gxm!Live(pat, a) /\ ~Gxm!Live(pat', a) => Fine(a)
<1>1. ASSUME ProgInv, NEW a \in Gxm!Addrs, Idler(a) PROVE Fine(a)
  <2>1. PICK i \in Gxm!Used(g.slots) : g.slots[i].vp = a /\ Gxm!Idle(g.slots[i])
    BY <1>1 DEF Idler
  <2>2. PICK x : x = g.slots[i] /\ x \in Slot
    BY <1>1, <2>1, UsedSlots DEF ProgInv, Sound, Table
  <2>3. PICK last, creates \in Nat : last = x.last /\ creates = x.creates
    BY <2>2 DEF Slot
  <2>4. creates >= 2 /\ g_frame - last >= IdleFrames
    BY <2>1, <2>2, <2>3 DEF Gxm!Idle
  <2>5. PICK n \in Int : n = bound[a] /\ n =< last
    <3>1. bound[a] \in Int /\ bound[a] =< last
      BY <1>1, <2>1, <2>2, <2>3 DEF ProgInv, Timed, Bindings
    <3> QED BY <3>1
  <2>6. g_frame - bound[a] >= IdleFrames
    BY <1>1, <2>4, <2>5, GraphicsAssumption DEF ProgInv, Gxm!ConstantsSane
  <2>7. ASSUME NEW shape \in Shapes, stored[shape] = a PROVE FALSE
    <3>1. a # Gxm!NULL
      BY <1>1, GraphicsAssumption, WordFacts
    <3>2. x.creates < 2
      BY <1>1, <2>1, <2>2, <2>7, <3>1 DEF ProgInv, FixedFine
    <3> QED BY <2>3, <2>4, <3>2
  <2> QED BY <2>6, <2>7
<1>2. ASSUME Kept(pat'), ProgInv PROVE Spared
  <2>1. SUFFICES ASSUME NEW a \in Gxm!Addrs, Gxm!Live(pat, a), ~Gxm!Live(pat', a) PROVE Fine(a)
    OBVIOUS
  <2>2. Held(pat, a) /\ ~Held(pat', a)
    BY <2>1 DEF Gxm!Live, Held
  <2>3. Idler(a)
    BY <1>2, <2>2 DEF Kept, Same
  <2> QED BY <1>1, <1>2, <2>3
<1>3. ASSUME ProgInv, NEW req \in Gxm!Requests, NEW o \in Gxm!Create(req), pat' = o.pat PROVE Spared
  <2>1. Outcome(o, req)
    BY <1>3, GraphicsAssumption, CreateComesTo DEF ProgInv
  <2> QED BY <1>2, <1>3, <2>1 DEF Outcome
<1>4. pat' = pat => Spared
  OBVIOUS
<1> HIDE DEF Fine, Spared
<1>5. ProgInv /\ Gxm!Next => (\E id \in Ids : Gxm!Unregister(id)) \/ Spared
  <2>1. ASSUME ProgInv, NEW id \in Ids, NEW shape \in Shapes, Gxm!Draw(id, shape) PROVE Spared
    <3>1. <<id, shape>> \in Gxm!Requests
      BY DEF Gxm!Requests
    <3> QED BY <1>3, <2>1, <3>1 DEF Gxm!Draw
  <2>2. ASSUME ProgInv, NEW shape \in Shapes, Gxm!FixedDraw(shape) PROVE Spared
    <3>1. <<FixedId, shape>> \in Gxm!Requests
      BY DEF Gxm!Requests
    <3>2. CASE stored[shape] = Gxm!NULL
      BY <1>3, <2>2, <3>1, <3>2 DEF Gxm!FixedDraw
    <3>3. CASE stored[shape] # Gxm!NULL
      BY <1>4, <2>2, <3>3 DEF Gxm!FixedDraw
    <3> QED BY <3>2, <3>3
  <2>3. Gxm!gxmp_arm \/ Gxm!gxmp_on_swap => Spared
    BY <1>4 DEF Gxm!gxmp_arm, Gxm!gxmp_on_swap
  <2> QED BY <2>1, <2>2, <2>3 DEF Gxm!Next
<1>6. ProgInv /\ [GraphicsNext]_all =>
        [(\E id \in Ids : Gxm!Unregister(id)) \/ Spared]_(Gxm!vars)
  BY <1>4, <1>5 DEF GraphicsNext, States, Texes, Draws, Programs, Boots, all, patcher, Gxm!vars
<1>7. ProgInv /\ [GraphicsNext]_all =>
        [ \/ \A a \in Gxm!Addrs : Gxm!Live(pat, a) /\ ~Gxm!Live(pat', a) =>
               /\ bound[a] < 0 \/ g_frame - bound[a] >= IdleFrames
               /\ \A shape \in Shapes : stored[shape] # a
          \/ \E id \in Ids : Gxm!Unregister(id) ]_(Gxm!vars)
  BY <1>6 DEF Fine, Spared
<1> QED BY <1>7, ProgramsInvariant, PTL DEF GraphicsSpec, ReleasedIdle, Gxm!ReleasedIdle

-----------------------------------------------------------------------------
(* The screen before the game's. Where the owner is says what it has to    *)
(* give back; a texture is noted exactly while it has content; the bar is  *)
(* behind the clock, and what is known of starts is what the card says.    *)

\* Where the owner may be, and whether the screen is over for the game's part.
Places ==
  {"off", "open", "list", "match", "logo", "txi", "decode", "pixels", "upload", "close", "hints", "done",
   "first", "shown", "drawing", "time", "write", "over"}
After_first == {"shown", "drawing", "time", "write", "over"}
Loading == {"decode", "pixels", "upload"}

ScreenType ==
  /\ pc \in Places /\ pic \in Screen!Pictures /\ px \in 0 .. Pixels /\ unread \in Nat
  /\ texture \in [Screen!Pictures -> {"none", "empty", "filled", "deleted"}] /\ shown \subseteq Screen!Pictures
  /\ need \in 0 .. Len(Screen!Needs) /\ g_n \in Nat /\ g_nhint \in Nat
  /\ g_active \in BOOLEAN /\ g_busy \in BOOLEAN /\ g_game_gl \in BOOLEAN /\ g_art \in BOOLEAN
  /\ g_warm \in BOOLEAN /\ foreign \in BOOLEAN
  /\ since \in Nat /\ g_last \in Int /\ noted \subseteq Screen!Threads

\* What may be held at a place.
Room(p) ==
  CASE p \in {"off", "open", "list"} -> {}
    [] p \in {"match", "logo", "txi", "close"} -> {"patch"}
    [] p = "decode" -> {"patch", "raw"}
    [] p = "pixels" -> {"patch", "raw", "rgba"}
    [] p = "upload" -> {"patch", "rgba"}
    [] p \in {"hints", "done"} -> {Screen!Needs[i] : i \in 1 .. 7}
    [] OTHER -> {"arena"}

\* How far the screen is, by the place and by who has called GL.
Staged ==
  /\ pc \in {"match", "logo", "hints", "done", "first"} => g_active
  /\ pc \in Loading /\ pic # "font" => g_active
  /\ pc \in {"off", "open", "list", "time", "write", "over"} => ~g_active
  /\ g_busy <=> (g_active /\ pc \notin After_first) \/ pc = "drawing"
  /\ pc = "drawing" /\ g_art /\ g_game_gl => foreign
  /\ g_game_gl <=> noted # {}
  /\ noted # {} => pc \in After_first
  /\ pc \in After_first /\ noted = {} => g_active
  /\ noted # {} /\ ~foreign => held = {} /\ shown = {}

\* A texture is noted while it has content, and the art with all its own only while there is art.
Pictured ==
  /\ \A p \in Screen!Pictures : (texture[p] = "filled" <=> p \in shown)
                         /\ (texture[p] = "empty" => pc = "upload" /\ pic = p)
  /\ pc \in Loading => pic \notin shown
  /\ ("art" \in shown \/ "logo" \in shown => g_art) /\ (g_art => g_active \/ pc \in After_first)
  /\ pc = "match" \/ (pc \in Loading /\ pic = "art") => ~g_art
  /\ pc = "logo" \/ (pc \in Loading /\ pic = "logo") => g_art
  /\ pc = "logo" => "logo" \notin shown
  /\ pc \in {"open", "list"} => "font" \in shown

Hinted ==
  /\ g_nhint <= g_n /\ (g_n > 0 => "arena" \in held)
  /\ pc = "hints" /\ need = Len(Screen!Needs) => "arena" \in held
  /\ pc \notin {"hints", "done", "first"} \cup After_first => need = 0

\* The bar is behind the clock.
Bars ==
  /\ pc \notin After_first => bar = -1
  /\ g_active /\ pc \in After_first => bar \in 0 .. 99 /\ bar <= Screen!Frac(since)
  /\ pc = "drawing" => bar \in 0 .. 99 /\ g_last \in 0 .. since /\ bar <= Screen!Frac(g_last)
  /\ bar \in -1 .. 100

Known ==
  /\ kept \in [Screen!Kinds -> Nat] /\ file \in [Screen!Kinds -> Nat] /\ tim \in [Screen!Kinds -> Nat]
  /\ \A k \in Screen!Kinds : Screen!Sane(kept[k])
  /\ pc # "write" => Screen!Reads(file) = kept
  /\ pc = "write" => file = Screen!NoTimes
  /\ pc \in {"time", "write"} => \A k \in Screen!Kinds : k # Screen!Kind => tim[k] = kept[k]
  /\ g_active \/ pc = "drawing" => g_expect \in Nat /\ Screen!Sane(g_expect)

ScreenInv ==
  /\ ScreenType /\ held \subseteq Room(pc) /\ Staged /\ Pictured /\ Hinted /\ Screen!FrameWhole
  /\ Bars /\ Known /\ Screen!RowVisible


\* What a tick makes of the clock and of who draws.
LEMMA TickedTypes ==
  ASSUME ScreenInv, NEW t, NEW gl, Screen!Ticked(t, gl)
  PROVE  g_busy' \in BOOLEAN /\ g_last' \in Int /\ pc' \in Places
<1>1. CASE Screen!Draws(t, gl)
  <2>1. g_last' = since /\ g_busy' = TRUE /\ pc' = "drawing"
    BY <1>1 DEF Screen!Ticked
  <2>2. since \in Nat
    BY DEF ScreenInv, ScreenType
  <2> QED BY <2>1, <2>2 DEF Places
<1>2. CASE ~Screen!Draws(t, gl)
  <2>1. g_last' = g_last /\ g_busy' = g_busy /\ pc' = pc
    BY <1>2 DEF Screen!Ticked
  <2> QED BY <2>1 DEF ScreenInv, ScreenType
<1> QED BY <1>1, <1>2

\* Types.
LEMMA BootTypeKept ==
  ASSUME Screen!BootConstants, ScreenInv, Screen!Next
  PROVE  ScreenType'
<1>1. CASE Screen!Match
  BY <1>1 DEF ScreenInv, ScreenType, Places, Screen!Pictures, Screen!Match, Screen!Reading, Screen!Absent, Screen!Found, Screen!After, Screen!Elsewhere, Screen!Quiet, Screen!menu, Screen!image, Screen!textures, Screen!hints, Screen!screen, Screen!clock, Screen!card, Screen!game, Screen!seen, Screen!BootConstants
<1>2. CASE Screen!Logo
  BY <1>2 DEF ScreenInv, ScreenType, Places, Screen!Pictures, Screen!Logo, Screen!Reading, Screen!Absent, Screen!Found, Screen!After, Screen!Elsewhere, Screen!Quiet, Screen!menu, Screen!image, Screen!textures, Screen!hints, Screen!screen, Screen!clock, Screen!card, Screen!game, Screen!seen, Screen!BootConstants
<1>3. CASE Screen!FontLoad
  <2>1. CASE Screen!Absent("font") /\ Screen!Elsewhere /\ UNCHANGED <<Screen!textures, Screen!hints, Screen!screen>>
    BY <1>3, <2>1 DEF ScreenInv, ScreenType, Places, Screen!Absent, Screen!After, Screen!Elsewhere, Screen!Quiet, Screen!menu, Screen!image, Screen!textures, Screen!hints, Screen!screen, Screen!clock, Screen!card, Screen!game
  <2>2. CASE Screen!Found("font") /\ Screen!Elsewhere /\ UNCHANGED <<Screen!textures, Screen!hints, Screen!screen>>
    BY <1>3, <2>2, Screen!BootConstants DEF Screen!BootConstants, ScreenInv, ScreenType, Places, Screen!Pictures, Screen!Found, Screen!Elsewhere, Screen!Quiet, Screen!menu, Screen!textures, Screen!hints, Screen!screen, Screen!clock, Screen!card, Screen!game
  <2> QED BY <1>3, <2>1, <2>2 DEF Screen!FontLoad, Screen!Reading
<1>4. CASE Screen!Decode
  BY <1>4 DEF ScreenInv, ScreenType, Places, Screen!Pictures, Screen!Decode, Screen!After, Screen!Elsewhere, Screen!Quiet, Screen!menu, Screen!image, Screen!textures, Screen!hints, Screen!screen, Screen!clock, Screen!card, Screen!game, Screen!seen
<1>5. CASE Screen!GenTexture
  BY <1>5 DEF ScreenInv, ScreenType, Places, Screen!Pictures, Screen!GenTexture, Screen!Elsewhere, Screen!Quiet, Screen!menu, Screen!image, Screen!textures, Screen!hints, Screen!screen, Screen!clock, Screen!card, Screen!game, Screen!seen
<1>6. CASE Screen!TexImage
  BY <1>6 DEF ScreenInv, ScreenType, Places, Screen!Pictures, Screen!TexImage, Screen!After, Screen!Elsewhere, Screen!Quiet, Screen!menu, Screen!image, Screen!textures, Screen!hints, Screen!screen, Screen!clock, Screen!card, Screen!game, Screen!seen
<1>7. CASE Screen!CloseZip
  BY <1>7 DEF ScreenInv, ScreenType, Places, Screen!Pictures, Screen!CloseZip, Screen!Elsewhere, Screen!Quiet, Screen!menu, Screen!image, Screen!textures, Screen!hints, Screen!screen, Screen!clock, Screen!card, Screen!game, Screen!seen
<1>8. ASSUME NEW n \in 1 .. Pixels + 1, NEW literal \in BOOLEAN, Screen!Run(n, literal) PROVE ScreenType'
  BY <1>8 DEF ScreenInv, ScreenType, Places, Screen!Pictures, Screen!Run, Screen!Count, Screen!Cost, Screen!After, Screen!Elsewhere, Screen!Quiet, Screen!menu, Screen!image, Screen!textures, Screen!hints, Screen!screen, Screen!clock, Screen!card, Screen!game, Screen!seen, Screen!BootConstants
<1>9. CASE Screen!HintsNeed
  BY <1>9 DEF ScreenInv, ScreenType, Places, Screen!Pictures, Screen!HintsNeed, Screen!Gets, Screen!Elsewhere, Screen!Quiet, Screen!menu, Screen!image, Screen!textures, Screen!hints, Screen!screen, Screen!clock, Screen!card, Screen!game, Screen!seen, Screen!Needs
<1>10. CASE Screen!Hint
  BY <1>10 DEF ScreenInv, ScreenType, Places, Screen!Pictures, Screen!Hint, Screen!Elsewhere, Screen!Quiet, Screen!menu, Screen!image, Screen!textures, Screen!hints, Screen!screen, Screen!clock, Screen!card, Screen!game, Screen!seen
<1>11. CASE Screen!HintsDone
  BY <1>11 DEF ScreenInv, ScreenType, Places, Screen!Pictures, Screen!HintsDone, Screen!Elsewhere, Screen!Quiet, Screen!menu, Screen!image, Screen!textures, Screen!hints, Screen!screen, Screen!clock, Screen!card, Screen!game, Screen!seen
<1>12. ASSUME NEW zip \in BOOLEAN, Screen!OpenZip(zip) PROVE ScreenType'
  BY <1>12 DEF ScreenInv, ScreenType, Places, Screen!Pictures, Screen!OpenZip, Screen!Opened, Screen!Elsewhere, Screen!Quiet, Screen!menu, Screen!image, Screen!textures, Screen!hints, Screen!screen, Screen!clock, Screen!card, Screen!game, Screen!seen
<1>13. ASSUME NEW current \in 0 .. Rows, NEW pressed \in SUBSET Screen!Buttons, Screen!OpenList(current, pressed) PROVE ScreenType'
  BY <1>13 DEF ScreenInv, ScreenType, Places, Screen!Pictures, Screen!OpenList, Screen!Elsewhere, Screen!Quiet, Screen!menu, Screen!image, Screen!textures, Screen!hints, Screen!screen, Screen!clock, Screen!card, Screen!game, Screen!seen
<1>14. ASSUME NEW pressed \in SUBSET Screen!Buttons, NEW timeout \in BOOLEAN, Screen!Poll(pressed, timeout) PROVE ScreenType'
  BY <1>14 DEF ScreenInv, ScreenType, Places, Screen!Pictures, Screen!Poll, Screen!Elsewhere, Screen!Quiet, Screen!menu, Screen!image, Screen!textures, Screen!hints, Screen!screen, Screen!clock, Screen!card, Screen!game, Screen!seen
<1>15. ASSUME NEW warm \in BOOLEAN, NEW zip \in BOOLEAN, Screen!loadscreen_begin(warm, zip) PROVE ScreenType'
  BY <1>15, Screen!BootConstants DEF ScreenInv, ScreenType, Places, Screen!Pictures, Screen!loadscreen_begin, Screen!Opened, Screen!Elsewhere, Screen!Quiet, Screen!menu, Screen!image, Screen!textures, Screen!hints, Screen!screen, Screen!clock, Screen!card, Screen!game, Screen!seen, Screen!BootConstants
<1>16. ASSUME NEW seed \in 0 .. MaxHints, Screen!First(seed) PROVE ScreenType'
  BY <1>16 DEF ScreenInv, ScreenType, Places, Screen!Pictures, Screen!First, Screen!Draw, Screen!Elsewhere, Screen!Quiet, Screen!menu, Screen!image, Screen!textures, Screen!hints, Screen!screen, Screen!clock, Screen!card, Screen!game, Screen!seen
<1>17. CASE Screen!Pass
  BY <1>17 DEF ScreenInv, ScreenType, Places, Screen!Pictures, Screen!Pass, Screen!Elsewhere, Screen!Quiet, Screen!menu, Screen!image, Screen!textures, Screen!hints, Screen!screen, Screen!clock, Screen!card, Screen!game, Screen!seen
<1>18. ASSUME NEW t \in Screen!Threads, Screen!loadscreen_tick(t) PROVE ScreenType'
  <2>1. g_busy' \in BOOLEAN /\ g_last' \in Int /\ pc' \in Places
    BY <1>18, TickedTypes DEF Screen!loadscreen_tick
  <2> QED BY <1>18, <2>1 DEF ScreenInv, ScreenType, Screen!loadscreen_tick, Screen!image, Screen!textures, Screen!hints, Screen!game
<1>19. ASSUME NEW t \in Screen!Threads, Screen!loadscreen_note_gl(t) PROVE ScreenType'
  <2>1. texture' \in [Screen!Pictures -> {"none", "empty", "filled", "deleted"}] /\ shown' \subseteq Screen!Pictures
    BY <1>19 DEF ScreenInv, ScreenType, Screen!loadscreen_note_gl, Screen!textures, Screen!Ticked, Screen!Quiet
  <2>2. foreign' \in BOOLEAN /\ noted' \subseteq Screen!Threads
    BY <1>19 DEF ScreenInv, ScreenType, Screen!loadscreen_note_gl
  <2>3. /\ g_active' \in BOOLEAN /\ g_busy' \in BOOLEAN /\ g_game_gl' \in BOOLEAN /\ g_art' \in BOOLEAN
        /\ g_warm' \in BOOLEAN /\ since' \in Nat /\ g_last' \in Int
    <3>1. g_busy' \in BOOLEAN /\ g_last' \in Int
      <4>1. CASE g_active
        BY <1>19, <4>1, TickedTypes DEF Screen!loadscreen_note_gl
      <4>2. CASE ~g_active
        BY <1>19, <4>2 DEF Screen!loadscreen_note_gl, ScreenInv, ScreenType
      <4> QED BY <4>1, <4>2
    <3>2. g_game_gl' \in BOOLEAN
      BY <1>19 DEF ScreenInv, ScreenType, Screen!loadscreen_note_gl
    <3> QED BY <1>19, <3>1, <3>2 DEF ScreenInv, ScreenType, Screen!loadscreen_note_gl
  <2>4. /\ pc' \in Places /\ pic' \in Screen!Pictures /\ px' \in 0 .. Pixels /\ unread' \in Nat
        /\ need' \in 0 .. Len(Screen!Needs) /\ g_n' \in Nat /\ g_nhint' \in Nat
    <3>1. need' = need /\ (g_n' = g_n \/ g_n' = 0) /\ (g_nhint' = g_nhint \/ g_nhint' = 0)
      BY <1>19 DEF Screen!loadscreen_note_gl, Screen!hints
    <3>2. pc' \in Places /\ pic' = pic /\ px' = px /\ unread' = unread
      BY <1>19 DEF Screen!loadscreen_note_gl, Screen!image, Screen!Ticked, ScreenInv, ScreenType, Places
    <3> QED BY <3>1, <3>2 DEF ScreenInv, ScreenType
  <2> QED BY <2>1, <2>2, <2>3, <2>4 DEF ScreenType
<1>20. ASSUME NEW seed \in 0 .. MaxHints, Screen!TickDraws(seed) PROVE ScreenType'
  BY <1>20 DEF ScreenInv, ScreenType, Places, Screen!Pictures, Screen!TickDraws, Screen!Draw, Screen!Elsewhere, Screen!Quiet, Screen!menu, Screen!image, Screen!textures, Screen!hints, Screen!screen, Screen!clock, Screen!card, Screen!game, Screen!seen
<1>21. ASSUME NEW t \in Screen!Threads, NEW seed \in 0 .. MaxHints, Screen!loadscreen_end(t, seed) PROVE ScreenType'
  BY <1>21 DEF ScreenInv, ScreenType, Places, Screen!Pictures, Screen!loadscreen_end, Screen!Draw, Screen!Frozen, Screen!Playing, Screen!Elsewhere, Screen!Quiet, Screen!menu, Screen!image, Screen!textures, Screen!hints, Screen!screen, Screen!clock, Screen!card, Screen!game, Screen!seen
<1>22. CASE Screen!Truncate
  BY <1>22 DEF ScreenInv, ScreenType, Places, Screen!Pictures, Screen!Truncate, Screen!Elsewhere, Screen!Quiet, Screen!menu, Screen!image, Screen!textures, Screen!hints, Screen!screen, Screen!clock, Screen!card, Screen!game, Screen!seen
<1>23. CASE Screen!Write
  BY <1>23 DEF ScreenInv, ScreenType, Places, Screen!Pictures, Screen!Write, Screen!Elsewhere, Screen!Quiet, Screen!menu, Screen!image, Screen!textures, Screen!hints, Screen!screen, Screen!clock, Screen!card, Screen!game, Screen!seen
<1> QED BY <1>1, <1>2, <1>3, <1>4, <1>5, <1>6, <1>7, <1>8, <1>9, <1>10, <1>11, <1>12, <1>13, <1>14, <1>15, <1>16, <1>17, <1>18, <1>19, <1>20, <1>21, <1>22, <1>23 DEF Screen!Next, Screen!Loads, Screen!Menus, Screen!Shows

\* What is held has its room.
LEMMA RoomKept ==
  ASSUME Screen!BootConstants, ScreenInv, Screen!Next
  PROVE  (held \subseteq Room(pc))'
<1>1. CASE Screen!Match
  BY <1>1 DEF ScreenInv, ScreenType, Places, Room, Screen!Pictures, Screen!Match, Screen!Reading, Screen!Absent, Screen!Found, Screen!After, Screen!Elsewhere, Screen!Quiet, Screen!menu, Screen!image, Screen!textures, Screen!hints, Screen!screen, Screen!clock, Screen!card, Screen!game, Screen!seen
<1>2. CASE Screen!Logo
  BY <1>2 DEF ScreenInv, ScreenType, Places, Room, Screen!Pictures, Screen!Logo, Screen!Reading, Screen!Absent, Screen!Found, Screen!After, Screen!Elsewhere, Screen!Quiet, Screen!menu, Screen!image, Screen!textures, Screen!hints, Screen!screen, Screen!clock, Screen!card, Screen!game, Screen!seen
<1>3. CASE Screen!FontLoad
  BY <1>3 DEF ScreenInv, ScreenType, Places, Room, Screen!Pictures, Screen!FontLoad, Screen!Reading, Screen!Absent, Screen!Found, Screen!After, Screen!Elsewhere, Screen!Quiet, Screen!menu, Screen!image, Screen!textures, Screen!hints, Screen!screen, Screen!clock, Screen!card, Screen!game, Screen!seen
<1>4. CASE Screen!Decode
  BY <1>4 DEF ScreenInv, ScreenType, Places, Room, Screen!Pictures, Screen!Decode, Screen!After, Screen!Elsewhere, Screen!Quiet, Screen!menu, Screen!image, Screen!textures, Screen!hints, Screen!screen, Screen!clock, Screen!card, Screen!game, Screen!seen
<1>5. CASE Screen!GenTexture
  BY <1>5 DEF ScreenInv, ScreenType, Places, Room, Screen!Pictures, Screen!GenTexture, Screen!Elsewhere, Screen!Quiet, Screen!menu, Screen!image, Screen!textures, Screen!hints, Screen!screen, Screen!clock, Screen!card, Screen!game, Screen!seen
<1>6. CASE Screen!TexImage
  BY <1>6 DEF ScreenInv, ScreenType, Places, Room, Screen!Pictures, Screen!TexImage, Screen!After, Screen!Elsewhere, Screen!Quiet, Screen!menu, Screen!image, Screen!textures, Screen!hints, Screen!screen, Screen!clock, Screen!card, Screen!game, Screen!seen
<1>7. CASE Screen!CloseZip
  BY <1>7 DEF ScreenInv, ScreenType, Places, Room, Screen!Pictures, Screen!CloseZip, Screen!Elsewhere, Screen!Quiet, Screen!menu, Screen!image, Screen!textures, Screen!hints, Screen!screen, Screen!clock, Screen!card, Screen!game, Screen!seen
<1>8. ASSUME NEW n \in 1 .. Pixels + 1, NEW literal \in BOOLEAN, Screen!Run(n, literal) PROVE (held \subseteq Room(pc))'
  BY <1>8 DEF ScreenInv, ScreenType, Places, Room, Screen!Pictures, Screen!Run, Screen!Count, Screen!Cost, Screen!After, Screen!Elsewhere, Screen!Quiet, Screen!menu, Screen!image, Screen!textures, Screen!hints, Screen!screen, Screen!clock, Screen!card, Screen!game, Screen!seen
<1>9. CASE Screen!HintsNeed
  BY <1>9 DEF ScreenInv, ScreenType, Places, Room, Screen!Pictures, Screen!HintsNeed, Screen!Gets, Screen!Elsewhere, Screen!Quiet, Screen!menu, Screen!image, Screen!textures, Screen!hints, Screen!screen, Screen!clock, Screen!card, Screen!game, Screen!seen, Screen!Needs
<1>10. CASE Screen!Hint
  BY <1>10 DEF ScreenInv, ScreenType, Places, Room, Screen!Pictures, Screen!Hint, Screen!Elsewhere, Screen!Quiet, Screen!menu, Screen!image, Screen!textures, Screen!hints, Screen!screen, Screen!clock, Screen!card, Screen!game, Screen!seen
<1>11. CASE Screen!HintsDone
  BY <1>11 DEF ScreenInv, ScreenType, Places, Room, Screen!Pictures, Screen!HintsDone, Screen!Elsewhere, Screen!Quiet, Screen!menu, Screen!image, Screen!textures, Screen!hints, Screen!screen, Screen!clock, Screen!card, Screen!game, Screen!seen, Screen!Needs
<1>12. ASSUME NEW zip \in BOOLEAN, Screen!OpenZip(zip) PROVE (held \subseteq Room(pc))'
  BY <1>12 DEF ScreenInv, ScreenType, Places, Room, Screen!Pictures, Screen!OpenZip, Screen!Opened, Screen!Elsewhere, Screen!Quiet, Screen!menu, Screen!image, Screen!textures, Screen!hints, Screen!screen, Screen!clock, Screen!card, Screen!game, Screen!seen
<1>13. ASSUME NEW current \in 0 .. Rows, NEW pressed \in SUBSET Screen!Buttons, Screen!OpenList(current, pressed) PROVE (held \subseteq Room(pc))'
  BY <1>13 DEF ScreenInv, ScreenType, Places, Room, Screen!Pictures, Screen!OpenList, Screen!Elsewhere, Screen!Quiet, Screen!menu, Screen!image, Screen!textures, Screen!hints, Screen!screen, Screen!clock, Screen!card, Screen!game, Screen!seen
<1>14. ASSUME NEW pressed \in SUBSET Screen!Buttons, NEW timeout \in BOOLEAN, Screen!Poll(pressed, timeout) PROVE (held \subseteq Room(pc))'
  BY <1>14 DEF ScreenInv, ScreenType, Places, Room, Screen!Pictures, Screen!Poll, Screen!Elsewhere, Screen!Quiet, Screen!menu, Screen!image, Screen!textures, Screen!hints, Screen!screen, Screen!clock, Screen!card, Screen!game, Screen!seen
<1>15. ASSUME NEW warm \in BOOLEAN, NEW zip \in BOOLEAN, Screen!loadscreen_begin(warm, zip) PROVE (held \subseteq Room(pc))'
  BY <1>15 DEF ScreenInv, ScreenType, Places, Room, Screen!Pictures, Screen!loadscreen_begin, Screen!Opened, Screen!Elsewhere, Screen!Quiet, Screen!menu, Screen!image, Screen!textures, Screen!hints, Screen!screen, Screen!clock, Screen!card, Screen!game, Screen!seen
<1>16. ASSUME NEW seed \in 0 .. MaxHints, Screen!First(seed) PROVE (held \subseteq Room(pc))'
  BY <1>16 DEF ScreenInv, ScreenType, Places, Room, Screen!Pictures, Screen!First, Screen!Draw, Screen!Elsewhere, Screen!Quiet, Screen!menu, Screen!image, Screen!textures, Screen!hints, Screen!screen, Screen!clock, Screen!card, Screen!game, Screen!seen
<1>17. CASE Screen!Pass
  BY <1>17 DEF ScreenInv, ScreenType, Places, Room, Screen!Pictures, Screen!Pass, Screen!Elsewhere, Screen!Quiet, Screen!menu, Screen!image, Screen!textures, Screen!hints, Screen!screen, Screen!clock, Screen!card, Screen!game, Screen!seen
<1>18. ASSUME NEW t \in Screen!Threads, Screen!loadscreen_tick(t) PROVE (held \subseteq Room(pc))'
  BY <1>18 DEF ScreenInv, ScreenType, Places, Room, Screen!Pictures, Screen!loadscreen_tick, Screen!Ticked, Screen!Draws, Screen!Frozen, Screen!Elsewhere, Screen!Quiet, Screen!menu, Screen!image, Screen!textures, Screen!hints, Screen!screen, Screen!clock, Screen!card, Screen!game, Screen!seen, Staged, After_first
<1>19. ASSUME NEW t \in Screen!Threads, Screen!loadscreen_note_gl(t) PROVE (held \subseteq Room(pc))'
  BY <1>19 DEF ScreenInv, ScreenType, Places, Room, Screen!Pictures, Screen!loadscreen_note_gl, Screen!Ticked, Screen!Draws, Screen!Frozen, Screen!Releases, Screen!Playing, Screen!Elsewhere, Screen!Quiet, Screen!menu, Screen!image, Screen!textures, Screen!hints, Screen!screen, Screen!clock, Screen!card, Screen!game, Screen!seen, Staged, After_first
<1>20. ASSUME NEW seed \in 0 .. MaxHints, Screen!TickDraws(seed) PROVE (held \subseteq Room(pc))'
  BY <1>20 DEF ScreenInv, ScreenType, Places, Room, Screen!Pictures, Screen!TickDraws, Screen!Draw, Screen!Elsewhere, Screen!Quiet, Screen!menu, Screen!image, Screen!textures, Screen!hints, Screen!screen, Screen!clock, Screen!card, Screen!game, Screen!seen
<1>21. ASSUME NEW t \in Screen!Threads, NEW seed \in 0 .. MaxHints, Screen!loadscreen_end(t, seed) PROVE (held \subseteq Room(pc))'
  BY <1>21 DEF ScreenInv, ScreenType, Places, Room, Screen!Pictures, Screen!loadscreen_end, Screen!Draw, Screen!Frozen, Screen!Playing, Screen!Elsewhere, Screen!Quiet, Screen!menu, Screen!image, Screen!textures, Screen!hints, Screen!screen, Screen!clock, Screen!card, Screen!game, Screen!seen, Staged, After_first
<1>22. CASE Screen!Truncate
  BY <1>22 DEF ScreenInv, ScreenType, Places, Room, Screen!Pictures, Screen!Truncate, Screen!Elsewhere, Screen!Quiet, Screen!menu, Screen!image, Screen!textures, Screen!hints, Screen!screen, Screen!clock, Screen!card, Screen!game, Screen!seen
<1>23. CASE Screen!Write
  BY <1>23 DEF ScreenInv, ScreenType, Places, Room, Screen!Pictures, Screen!Write, Screen!Elsewhere, Screen!Quiet, Screen!menu, Screen!image, Screen!textures, Screen!hints, Screen!screen, Screen!clock, Screen!card, Screen!game, Screen!seen
<1> QED BY <1>1, <1>2, <1>3, <1>4, <1>5, <1>6, <1>7, <1>8, <1>9, <1>10, <1>11, <1>12, <1>13, <1>14, <1>15, <1>16, <1>17, <1>18, <1>19, <1>20, <1>21, <1>22, <1>23 DEF Screen!Next, Screen!Loads, Screen!Menus, Screen!Shows

\* The stages.
LEMMA StagedKept ==
  ASSUME Screen!BootConstants, ScreenInv, Screen!Next
  PROVE  Staged'
<1>1. CASE Screen!Match
  BY <1>1 DEF ScreenInv, ScreenType, Places, Room, Screen!Pictures, Staged, Pictured, After_first, Loading, Screen!Match, Screen!Reading, Screen!Absent, Screen!Found, Screen!After, Screen!Elsewhere, Screen!Quiet, Screen!menu, Screen!image, Screen!textures, Screen!hints, Screen!screen, Screen!clock, Screen!card, Screen!game, Screen!seen
<1>2. CASE Screen!Logo
  BY <1>2 DEF ScreenInv, ScreenType, Places, Room, Screen!Pictures, Staged, Pictured, After_first, Loading, Screen!Logo, Screen!Reading, Screen!Absent, Screen!Found, Screen!After, Screen!Elsewhere, Screen!Quiet, Screen!menu, Screen!image, Screen!textures, Screen!hints, Screen!screen, Screen!clock, Screen!card, Screen!game, Screen!seen
<1>3. CASE Screen!FontLoad
  BY <1>3 DEF ScreenInv, ScreenType, Places, Room, Screen!Pictures, Staged, Pictured, After_first, Loading, Screen!FontLoad, Screen!Reading, Screen!Absent, Screen!Found, Screen!After, Screen!Elsewhere, Screen!Quiet, Screen!menu, Screen!image, Screen!textures, Screen!hints, Screen!screen, Screen!clock, Screen!card, Screen!game, Screen!seen
<1>4. CASE Screen!Decode
  BY <1>4 DEF ScreenInv, ScreenType, Places, Room, Screen!Pictures, Staged, Pictured, After_first, Loading, Screen!Decode, Screen!After, Screen!Elsewhere, Screen!Quiet, Screen!menu, Screen!image, Screen!textures, Screen!hints, Screen!screen, Screen!clock, Screen!card, Screen!game, Screen!seen
<1>5. CASE Screen!GenTexture
  BY <1>5 DEF ScreenInv, ScreenType, Places, Room, Screen!Pictures, Staged, Pictured, After_first, Loading, Screen!GenTexture, Screen!Elsewhere, Screen!Quiet, Screen!menu, Screen!image, Screen!textures, Screen!hints, Screen!screen, Screen!clock, Screen!card, Screen!game, Screen!seen
<1>6. CASE Screen!TexImage
  BY <1>6 DEF ScreenInv, ScreenType, Places, Room, Screen!Pictures, Staged, Pictured, After_first, Loading, Screen!TexImage, Screen!After, Screen!Elsewhere, Screen!Quiet, Screen!menu, Screen!image, Screen!textures, Screen!hints, Screen!screen, Screen!clock, Screen!card, Screen!game, Screen!seen
<1>7. CASE Screen!CloseZip
  BY <1>7 DEF ScreenInv, ScreenType, Places, Room, Screen!Pictures, Staged, Pictured, After_first, Loading, Screen!CloseZip, Screen!Elsewhere, Screen!Quiet, Screen!menu, Screen!image, Screen!textures, Screen!hints, Screen!screen, Screen!clock, Screen!card, Screen!game, Screen!seen
<1>8. ASSUME NEW n \in 1 .. Pixels + 1, NEW literal \in BOOLEAN, Screen!Run(n, literal) PROVE Staged'
  BY <1>8 DEF ScreenInv, ScreenType, Places, Room, Screen!Pictures, Staged, Pictured, After_first, Loading, Screen!Run, Screen!Count, Screen!Cost, Screen!After, Screen!Elsewhere, Screen!Quiet, Screen!menu, Screen!image, Screen!textures, Screen!hints, Screen!screen, Screen!clock, Screen!card, Screen!game, Screen!seen
<1>9. CASE Screen!HintsNeed
  BY <1>9 DEF ScreenInv, ScreenType, Places, Room, Screen!Pictures, Staged, Pictured, After_first, Loading, Screen!HintsNeed, Screen!Gets, Screen!Elsewhere, Screen!Quiet, Screen!menu, Screen!image, Screen!textures, Screen!hints, Screen!screen, Screen!clock, Screen!card, Screen!game, Screen!seen
<1>10. CASE Screen!Hint
  BY <1>10 DEF ScreenInv, ScreenType, Places, Room, Screen!Pictures, Staged, Pictured, After_first, Loading, Screen!Hint, Screen!Elsewhere, Screen!Quiet, Screen!menu, Screen!image, Screen!textures, Screen!hints, Screen!screen, Screen!clock, Screen!card, Screen!game, Screen!seen
<1>11. CASE Screen!HintsDone
  BY <1>11 DEF ScreenInv, ScreenType, Places, Room, Screen!Pictures, Staged, Pictured, After_first, Loading, Screen!HintsDone, Screen!Elsewhere, Screen!Quiet, Screen!menu, Screen!image, Screen!textures, Screen!hints, Screen!screen, Screen!clock, Screen!card, Screen!game, Screen!seen
<1>12. ASSUME NEW zip \in BOOLEAN, Screen!OpenZip(zip) PROVE Staged'
  BY <1>12 DEF ScreenInv, ScreenType, Places, Room, Screen!Pictures, Staged, Pictured, After_first, Loading, Screen!OpenZip, Screen!Opened, Screen!Elsewhere, Screen!Quiet, Screen!menu, Screen!image, Screen!textures, Screen!hints, Screen!screen, Screen!clock, Screen!card, Screen!game, Screen!seen
<1>13. ASSUME NEW current \in 0 .. Rows, NEW pressed \in SUBSET Screen!Buttons, Screen!OpenList(current, pressed) PROVE Staged'
  BY <1>13 DEF ScreenInv, ScreenType, Places, Room, Screen!Pictures, Staged, Pictured, After_first, Loading, Screen!OpenList, Screen!Elsewhere, Screen!Quiet, Screen!menu, Screen!image, Screen!textures, Screen!hints, Screen!screen, Screen!clock, Screen!card, Screen!game, Screen!seen
<1>14. ASSUME NEW pressed \in SUBSET Screen!Buttons, NEW timeout \in BOOLEAN, Screen!Poll(pressed, timeout) PROVE Staged'
  BY <1>14 DEF ScreenInv, ScreenType, Places, Room, Screen!Pictures, Staged, Pictured, After_first, Loading, Screen!Poll, Screen!Elsewhere, Screen!Quiet, Screen!menu, Screen!image, Screen!textures, Screen!hints, Screen!screen, Screen!clock, Screen!card, Screen!game, Screen!seen
<1>15. ASSUME NEW warm \in BOOLEAN, NEW zip \in BOOLEAN, Screen!loadscreen_begin(warm, zip) PROVE Staged'
  BY <1>15 DEF ScreenInv, ScreenType, Places, Room, Screen!Pictures, Staged, Pictured, After_first, Loading, Screen!loadscreen_begin, Screen!Opened, Screen!Elsewhere, Screen!Quiet, Screen!menu, Screen!image, Screen!textures, Screen!hints, Screen!screen, Screen!clock, Screen!card, Screen!game, Screen!seen
<1>16. ASSUME NEW seed \in 0 .. MaxHints, Screen!First(seed) PROVE Staged'
  BY <1>16 DEF ScreenInv, ScreenType, Places, Room, Screen!Pictures, Staged, Pictured, After_first, Loading, Screen!First, Screen!Draw, Screen!Elsewhere, Screen!Quiet, Screen!menu, Screen!image, Screen!textures, Screen!hints, Screen!screen, Screen!clock, Screen!card, Screen!game, Screen!seen
<1>17. CASE Screen!Pass
  BY <1>17 DEF ScreenInv, ScreenType, Places, Room, Screen!Pictures, Staged, Pictured, After_first, Loading, Screen!Pass, Screen!Elsewhere, Screen!Quiet, Screen!menu, Screen!image, Screen!textures, Screen!hints, Screen!screen, Screen!clock, Screen!card, Screen!game, Screen!seen
<1>18. ASSUME NEW t \in Screen!Threads, Screen!loadscreen_tick(t) PROVE Staged'
  BY <1>18 DEF ScreenInv, ScreenType, Places, Room, Screen!Pictures, Staged, Pictured, After_first, Loading, Screen!loadscreen_tick, Screen!Ticked, Screen!Draws, Screen!Frozen, Screen!Elsewhere, Screen!Quiet, Screen!menu, Screen!image, Screen!textures, Screen!hints, Screen!screen, Screen!clock, Screen!card, Screen!game, Screen!seen
<1>19. ASSUME NEW t \in Screen!Threads, Screen!loadscreen_note_gl(t) PROVE Staged'
  BY <1>19 DEF ScreenInv, ScreenType, Places, Room, Screen!Pictures, Staged, Pictured, After_first, Loading, Screen!loadscreen_note_gl, Screen!Ticked, Screen!Draws, Screen!Frozen, Screen!Releases, Screen!Playing, Screen!Elsewhere, Screen!Quiet, Screen!menu, Screen!image, Screen!textures, Screen!hints, Screen!screen, Screen!clock, Screen!card, Screen!game, Screen!seen
<1>20. ASSUME NEW seed \in 0 .. MaxHints, Screen!TickDraws(seed) PROVE Staged'
  BY <1>20 DEF ScreenInv, ScreenType, Places, Room, Screen!Pictures, Staged, Pictured, After_first, Loading, Screen!TickDraws, Screen!Draw, Screen!Elsewhere, Screen!Quiet, Screen!menu, Screen!image, Screen!textures, Screen!hints, Screen!screen, Screen!clock, Screen!card, Screen!game, Screen!seen
<1>21. ASSUME NEW t \in Screen!Threads, NEW seed \in 0 .. MaxHints, Screen!loadscreen_end(t, seed) PROVE Staged'
  BY <1>21 DEF ScreenInv, ScreenType, Places, Room, Screen!Pictures, Staged, Pictured, After_first, Loading, Screen!loadscreen_end, Screen!Draw, Screen!Frozen, Screen!Playing, Screen!Elsewhere, Screen!Quiet, Screen!menu, Screen!image, Screen!textures, Screen!hints, Screen!screen, Screen!clock, Screen!card, Screen!game, Screen!seen
<1>22. CASE Screen!Truncate
  BY <1>22 DEF ScreenInv, ScreenType, Places, Room, Screen!Pictures, Staged, Pictured, After_first, Loading, Screen!Truncate, Screen!Elsewhere, Screen!Quiet, Screen!menu, Screen!image, Screen!textures, Screen!hints, Screen!screen, Screen!clock, Screen!card, Screen!game, Screen!seen
<1>23. CASE Screen!Write
  BY <1>23 DEF ScreenInv, ScreenType, Places, Room, Screen!Pictures, Staged, Pictured, After_first, Loading, Screen!Write, Screen!Elsewhere, Screen!Quiet, Screen!menu, Screen!image, Screen!textures, Screen!hints, Screen!screen, Screen!clock, Screen!card, Screen!game, Screen!seen
<1> QED BY <1>1, <1>2, <1>3, <1>4, <1>5, <1>6, <1>7, <1>8, <1>9, <1>10, <1>11, <1>12, <1>13, <1>14, <1>15, <1>16, <1>17, <1>18, <1>19, <1>20, <1>21, <1>22, <1>23 DEF Screen!Next, Screen!Loads, Screen!Menus, Screen!Shows

\* The textures.
LEMMA PicturedKept ==
  ASSUME Screen!BootConstants, ScreenInv, Screen!Next
  PROVE  Pictured'
<1>1. CASE Screen!Match
  BY <1>1 DEF ScreenInv, ScreenType, Places, Screen!Pictures, Staged, Pictured, After_first, Loading, Screen!Match, Screen!Reading, Screen!Absent, Screen!Found, Screen!After, Screen!Elsewhere, Screen!Quiet, Screen!menu, Screen!image, Screen!textures, Screen!hints, Screen!screen, Screen!clock, Screen!card, Screen!game, Screen!seen
<1>2. CASE Screen!Logo
  BY <1>2 DEF ScreenInv, ScreenType, Places, Screen!Pictures, Staged, Pictured, After_first, Loading, Screen!Logo, Screen!Reading, Screen!Absent, Screen!Found, Screen!After, Screen!Elsewhere, Screen!Quiet, Screen!menu, Screen!image, Screen!textures, Screen!hints, Screen!screen, Screen!clock, Screen!card, Screen!game, Screen!seen
<1>3. CASE Screen!FontLoad
  BY <1>3 DEF ScreenInv, ScreenType, Places, Screen!Pictures, Staged, Pictured, After_first, Loading, Screen!FontLoad, Screen!Reading, Screen!Absent, Screen!Found, Screen!After, Screen!Elsewhere, Screen!Quiet, Screen!menu, Screen!image, Screen!textures, Screen!hints, Screen!screen, Screen!clock, Screen!card, Screen!game, Screen!seen
<1>4. CASE Screen!Decode
  BY <1>4 DEF ScreenInv, ScreenType, Places, Screen!Pictures, Staged, Pictured, After_first, Loading, Screen!Decode, Screen!After, Screen!Elsewhere, Screen!Quiet, Screen!menu, Screen!image, Screen!textures, Screen!hints, Screen!screen, Screen!clock, Screen!card, Screen!game, Screen!seen
<1>5. CASE Screen!GenTexture
  BY <1>5 DEF ScreenInv, ScreenType, Places, Screen!Pictures, Staged, Pictured, After_first, Loading, Screen!GenTexture, Screen!Elsewhere, Screen!Quiet, Screen!menu, Screen!image, Screen!textures, Screen!hints, Screen!screen, Screen!clock, Screen!card, Screen!game, Screen!seen
<1>6. CASE Screen!TexImage
  <2>1. /\ pc = "upload" /\ texture' = [texture EXCEPT ![pic] = "filled"] /\ shown' = shown \cup {pic}
        /\ pc' \in {"logo", "txi", "close"} /\ (pc' = "logo" <=> pic = "art") /\ pic' = pic /\ g_active' = g_active
        /\ pic \in Screen!Pictures /\ texture \in [Screen!Pictures -> {"none", "empty", "filled", "deleted"}]
    BY <1>6 DEF ScreenInv, ScreenType, Screen!TexImage, Screen!After, Screen!image, Screen!Pictures
  <2>2. g_art' <=> g_art \/ pic = "art"
    BY <1>6 DEF Screen!TexImage
  <2>3. Pictured /\ Staged
    BY DEF ScreenInv
  <2>4. \A p \in Screen!Pictures : (texture'[p] = "filled" <=> p \in shown') /\ texture'[p] # "empty"
    BY <2>1, <2>3 DEF Pictured
  <2>5. "art" \in shown' \/ "logo" \in shown' => g_art'
    <3>1. pic = "logo" => g_art
      BY <2>1, <2>3 DEF Pictured, Loading
    <3> QED BY <2>1, <2>2, <2>3, <3>1 DEF Pictured
  <2>6. g_art' => g_active'
    BY <2>1, <2>2, <2>3 DEF Pictured, Staged, Loading, After_first
  <2>7. pic = "art" => "logo" \notin shown'
    BY <2>1, <2>3 DEF Pictured, Loading
  <2> QED BY <2>1, <2>4, <2>5, <2>6, <2>7 DEF Pictured, Loading
<1>7. CASE Screen!CloseZip
  BY <1>7 DEF ScreenInv, ScreenType, Places, Screen!Pictures, Staged, Pictured, After_first, Loading, Screen!CloseZip, Screen!Elsewhere, Screen!Quiet, Screen!menu, Screen!image, Screen!textures, Screen!hints, Screen!screen, Screen!clock, Screen!card, Screen!game, Screen!seen
<1>8. ASSUME NEW n \in 1 .. Pixels + 1, NEW literal \in BOOLEAN, Screen!Run(n, literal) PROVE Pictured'
  BY <1>8 DEF ScreenInv, ScreenType, Places, Screen!Pictures, Staged, Pictured, After_first, Loading, Screen!Run, Screen!Count, Screen!Cost, Screen!After, Screen!Elsewhere, Screen!Quiet, Screen!menu, Screen!image, Screen!textures, Screen!hints, Screen!screen, Screen!clock, Screen!card, Screen!game, Screen!seen
<1>9. CASE Screen!HintsNeed
  BY <1>9 DEF ScreenInv, ScreenType, Places, Screen!Pictures, Staged, Pictured, After_first, Loading, Screen!HintsNeed, Screen!Gets, Screen!Elsewhere, Screen!Quiet, Screen!menu, Screen!image, Screen!textures, Screen!hints, Screen!screen, Screen!clock, Screen!card, Screen!game, Screen!seen
<1>10. CASE Screen!Hint
  BY <1>10 DEF ScreenInv, ScreenType, Places, Screen!Pictures, Staged, Pictured, After_first, Loading, Screen!Hint, Screen!Elsewhere, Screen!Quiet, Screen!menu, Screen!image, Screen!textures, Screen!hints, Screen!screen, Screen!clock, Screen!card, Screen!game, Screen!seen
<1>11. CASE Screen!HintsDone
  BY <1>11 DEF ScreenInv, ScreenType, Places, Screen!Pictures, Staged, Pictured, After_first, Loading, Screen!HintsDone, Screen!Elsewhere, Screen!Quiet, Screen!menu, Screen!image, Screen!textures, Screen!hints, Screen!screen, Screen!clock, Screen!card, Screen!game, Screen!seen
<1>12. ASSUME NEW zip \in BOOLEAN, Screen!OpenZip(zip) PROVE Pictured'
  BY <1>12 DEF ScreenInv, ScreenType, Places, Screen!Pictures, Staged, Pictured, After_first, Loading, Screen!OpenZip, Screen!Opened, Screen!Elsewhere, Screen!Quiet, Screen!menu, Screen!image, Screen!textures, Screen!hints, Screen!screen, Screen!clock, Screen!card, Screen!game, Screen!seen
<1>13. ASSUME NEW current \in 0 .. Rows, NEW pressed \in SUBSET Screen!Buttons, Screen!OpenList(current, pressed) PROVE Pictured'
  BY <1>13 DEF ScreenInv, ScreenType, Places, Screen!Pictures, Staged, Pictured, After_first, Loading, Screen!OpenList, Screen!Elsewhere, Screen!Quiet, Screen!menu, Screen!image, Screen!textures, Screen!hints, Screen!screen, Screen!clock, Screen!card, Screen!game, Screen!seen
<1>14. ASSUME NEW pressed \in SUBSET Screen!Buttons, NEW timeout \in BOOLEAN, Screen!Poll(pressed, timeout) PROVE Pictured'
  BY <1>14 DEF ScreenInv, ScreenType, Places, Screen!Pictures, Staged, Pictured, After_first, Loading, Screen!Poll, Screen!Elsewhere, Screen!Quiet, Screen!menu, Screen!image, Screen!textures, Screen!hints, Screen!screen, Screen!clock, Screen!card, Screen!game, Screen!seen
<1>15. ASSUME NEW warm \in BOOLEAN, NEW zip \in BOOLEAN, Screen!loadscreen_begin(warm, zip) PROVE Pictured'
  BY <1>15 DEF ScreenInv, ScreenType, Places, Screen!Pictures, Staged, Pictured, After_first, Loading, Screen!loadscreen_begin, Screen!Opened, Screen!Elsewhere, Screen!Quiet, Screen!menu, Screen!image, Screen!textures, Screen!hints, Screen!screen, Screen!clock, Screen!card, Screen!game, Screen!seen
<1>16. ASSUME NEW seed \in 0 .. MaxHints, Screen!First(seed) PROVE Pictured'
  BY <1>16 DEF ScreenInv, ScreenType, Places, Screen!Pictures, Staged, Pictured, After_first, Loading, Screen!First, Screen!Draw, Screen!Elsewhere, Screen!Quiet, Screen!menu, Screen!image, Screen!textures, Screen!hints, Screen!screen, Screen!clock, Screen!card, Screen!game, Screen!seen
<1>17. CASE Screen!Pass
  BY <1>17 DEF ScreenInv, ScreenType, Places, Screen!Pictures, Staged, Pictured, After_first, Loading, Screen!Pass, Screen!Elsewhere, Screen!Quiet, Screen!menu, Screen!image, Screen!textures, Screen!hints, Screen!screen, Screen!clock, Screen!card, Screen!game, Screen!seen
<1>18. ASSUME NEW t \in Screen!Threads, Screen!loadscreen_tick(t) PROVE Pictured'
  BY <1>18 DEF ScreenInv, ScreenType, Places, Screen!Pictures, Staged, Pictured, After_first, Loading, Screen!loadscreen_tick, Screen!Ticked, Screen!Draws, Screen!Frozen, Screen!Elsewhere, Screen!Quiet, Screen!menu, Screen!image, Screen!textures, Screen!hints, Screen!screen, Screen!clock, Screen!card, Screen!game, Screen!seen
<1>19. ASSUME NEW t \in Screen!Threads, Screen!loadscreen_note_gl(t) PROVE Pictured'
  BY <1>19 DEF ScreenInv, ScreenType, Places, Screen!Pictures, Staged, Pictured, After_first, Loading, Screen!loadscreen_note_gl, Screen!Ticked, Screen!Draws, Screen!Frozen, Screen!Releases, Screen!Playing, Screen!Elsewhere, Screen!Quiet, Screen!menu, Screen!image, Screen!textures, Screen!hints, Screen!screen, Screen!clock, Screen!card, Screen!game, Screen!seen
<1>20. ASSUME NEW seed \in 0 .. MaxHints, Screen!TickDraws(seed) PROVE Pictured'
  BY <1>20 DEF ScreenInv, ScreenType, Places, Screen!Pictures, Staged, Pictured, After_first, Loading, Screen!TickDraws, Screen!Draw, Screen!Elsewhere, Screen!Quiet, Screen!menu, Screen!image, Screen!textures, Screen!hints, Screen!screen, Screen!clock, Screen!card, Screen!game, Screen!seen
<1>21. ASSUME NEW t \in Screen!Threads, NEW seed \in 0 .. MaxHints, Screen!loadscreen_end(t, seed) PROVE Pictured'
  BY <1>21 DEF ScreenInv, ScreenType, Places, Screen!Pictures, Staged, Pictured, After_first, Loading, Screen!loadscreen_end, Screen!Draw, Screen!Frozen, Screen!Playing, Screen!Elsewhere, Screen!Quiet, Screen!menu, Screen!image, Screen!textures, Screen!hints, Screen!screen, Screen!clock, Screen!card, Screen!game, Screen!seen
<1>22. CASE Screen!Truncate
  BY <1>22 DEF ScreenInv, ScreenType, Places, Screen!Pictures, Staged, Pictured, After_first, Loading, Screen!Truncate, Screen!Elsewhere, Screen!Quiet, Screen!menu, Screen!image, Screen!textures, Screen!hints, Screen!screen, Screen!clock, Screen!card, Screen!game, Screen!seen
<1>23. CASE Screen!Write
  BY <1>23 DEF ScreenInv, ScreenType, Places, Screen!Pictures, Staged, Pictured, After_first, Loading, Screen!Write, Screen!Elsewhere, Screen!Quiet, Screen!menu, Screen!image, Screen!textures, Screen!hints, Screen!screen, Screen!clock, Screen!card, Screen!game, Screen!seen
<1> QED BY <1>1, <1>2, <1>3, <1>4, <1>5, <1>6, <1>7, <1>8, <1>9, <1>10, <1>11, <1>12, <1>13, <1>14, <1>15, <1>16, <1>17, <1>18, <1>19, <1>20, <1>21, <1>22, <1>23 DEF Screen!Next, Screen!Loads, Screen!Menus, Screen!Shows

\* The hints.
LEMMA HintedKept ==
  ASSUME Screen!BootConstants, ScreenInv, Screen!Next
  PROVE  Hinted'
<1>1. CASE Screen!Match
  BY <1>1 DEF ScreenInv, ScreenType, Places, Hinted, After_first, Screen!Pictures, Screen!Match, Screen!Reading, Screen!Absent, Screen!Found, Screen!After, Screen!Elsewhere, Screen!Quiet, Screen!menu, Screen!image, Screen!textures, Screen!hints, Screen!screen, Screen!clock, Screen!card, Screen!game, Screen!seen
<1>2. CASE Screen!Logo
  BY <1>2 DEF ScreenInv, ScreenType, Places, Hinted, After_first, Screen!Pictures, Screen!Logo, Screen!Reading, Screen!Absent, Screen!Found, Screen!After, Screen!Elsewhere, Screen!Quiet, Screen!menu, Screen!image, Screen!textures, Screen!hints, Screen!screen, Screen!clock, Screen!card, Screen!game, Screen!seen
<1>3. CASE Screen!FontLoad
  BY <1>3 DEF ScreenInv, ScreenType, Places, Hinted, After_first, Screen!Pictures, Screen!FontLoad, Screen!Reading, Screen!Absent, Screen!Found, Screen!After, Screen!Elsewhere, Screen!Quiet, Screen!menu, Screen!image, Screen!textures, Screen!hints, Screen!screen, Screen!clock, Screen!card, Screen!game, Screen!seen
<1>4. CASE Screen!Decode
  BY <1>4 DEF ScreenInv, ScreenType, Places, Hinted, After_first, Screen!Pictures, Screen!Decode, Screen!After, Screen!Elsewhere, Screen!Quiet, Screen!menu, Screen!image, Screen!textures, Screen!hints, Screen!screen, Screen!clock, Screen!card, Screen!game, Screen!seen
<1>5. CASE Screen!GenTexture
  BY <1>5 DEF ScreenInv, ScreenType, Places, Hinted, After_first, Screen!Pictures, Screen!GenTexture, Screen!Elsewhere, Screen!Quiet, Screen!menu, Screen!image, Screen!textures, Screen!hints, Screen!screen, Screen!clock, Screen!card, Screen!game, Screen!seen
<1>6. CASE Screen!TexImage
  BY <1>6 DEF ScreenInv, ScreenType, Places, Hinted, After_first, Screen!Pictures, Screen!TexImage, Screen!After, Screen!Elsewhere, Screen!Quiet, Screen!menu, Screen!image, Screen!textures, Screen!hints, Screen!screen, Screen!clock, Screen!card, Screen!game, Screen!seen
<1>7. CASE Screen!CloseZip
  BY <1>7 DEF ScreenInv, ScreenType, Places, Hinted, After_first, Screen!Pictures, Screen!CloseZip, Screen!Elsewhere, Screen!Quiet, Screen!menu, Screen!image, Screen!textures, Screen!hints, Screen!screen, Screen!clock, Screen!card, Screen!game, Screen!seen, Screen!Needs
<1>8. ASSUME NEW n \in 1 .. Pixels + 1, NEW literal \in BOOLEAN, Screen!Run(n, literal) PROVE Hinted'
  BY <1>8 DEF ScreenInv, ScreenType, Places, Hinted, After_first, Screen!Pictures, Screen!Run, Screen!Count, Screen!Cost, Screen!After, Screen!Elsewhere, Screen!Quiet, Screen!menu, Screen!image, Screen!textures, Screen!hints, Screen!screen, Screen!clock, Screen!card, Screen!game, Screen!seen
<1>9. CASE Screen!HintsNeed
  BY <1>9 DEF ScreenInv, ScreenType, Places, Hinted, After_first, Screen!Pictures, Screen!HintsNeed, Screen!Gets, Screen!Elsewhere, Screen!Quiet, Screen!menu, Screen!image, Screen!textures, Screen!hints, Screen!screen, Screen!clock, Screen!card, Screen!game, Screen!seen, Screen!Needs
<1>10. CASE Screen!Hint
  BY <1>10 DEF ScreenInv, ScreenType, Places, Hinted, After_first, Screen!Pictures, Screen!Hint, Screen!Elsewhere, Screen!Quiet, Screen!menu, Screen!image, Screen!textures, Screen!hints, Screen!screen, Screen!clock, Screen!card, Screen!game, Screen!seen, Screen!Needs
<1>11. CASE Screen!HintsDone
  BY <1>11 DEF ScreenInv, ScreenType, Places, Hinted, After_first, Screen!Pictures, Screen!HintsDone, Screen!Elsewhere, Screen!Quiet, Screen!menu, Screen!image, Screen!textures, Screen!hints, Screen!screen, Screen!clock, Screen!card, Screen!game, Screen!seen, Screen!Needs
<1>12. ASSUME NEW zip \in BOOLEAN, Screen!OpenZip(zip) PROVE Hinted'
  BY <1>12 DEF ScreenInv, ScreenType, Places, Hinted, After_first, Screen!Pictures, Screen!OpenZip, Screen!Opened, Screen!Elsewhere, Screen!Quiet, Screen!menu, Screen!image, Screen!textures, Screen!hints, Screen!screen, Screen!clock, Screen!card, Screen!game, Screen!seen
<1>13. ASSUME NEW current \in 0 .. Rows, NEW pressed \in SUBSET Screen!Buttons, Screen!OpenList(current, pressed) PROVE Hinted'
  BY <1>13 DEF ScreenInv, ScreenType, Places, Hinted, After_first, Screen!Pictures, Screen!OpenList, Screen!Elsewhere, Screen!Quiet, Screen!menu, Screen!image, Screen!textures, Screen!hints, Screen!screen, Screen!clock, Screen!card, Screen!game, Screen!seen
<1>14. ASSUME NEW pressed \in SUBSET Screen!Buttons, NEW timeout \in BOOLEAN, Screen!Poll(pressed, timeout) PROVE Hinted'
  BY <1>14 DEF ScreenInv, ScreenType, Places, Hinted, After_first, Screen!Pictures, Screen!Poll, Screen!Elsewhere, Screen!Quiet, Screen!menu, Screen!image, Screen!textures, Screen!hints, Screen!screen, Screen!clock, Screen!card, Screen!game, Screen!seen
<1>15. ASSUME NEW warm \in BOOLEAN, NEW zip \in BOOLEAN, Screen!loadscreen_begin(warm, zip) PROVE Hinted'
  BY <1>15 DEF ScreenInv, ScreenType, Places, Hinted, After_first, Screen!Pictures, Screen!loadscreen_begin, Screen!Opened, Screen!Elsewhere, Screen!Quiet, Screen!menu, Screen!image, Screen!textures, Screen!hints, Screen!screen, Screen!clock, Screen!card, Screen!game, Screen!seen
<1>16. ASSUME NEW seed \in 0 .. MaxHints, Screen!First(seed) PROVE Hinted'
  BY <1>16 DEF ScreenInv, ScreenType, Places, Hinted, After_first, Screen!Pictures, Screen!First, Screen!Draw, Screen!Elsewhere, Screen!Quiet, Screen!menu, Screen!image, Screen!textures, Screen!hints, Screen!screen, Screen!clock, Screen!card, Screen!game, Screen!seen
<1>17. CASE Screen!Pass
  BY <1>17 DEF ScreenInv, ScreenType, Places, Hinted, After_first, Screen!Pictures, Screen!Pass, Screen!Elsewhere, Screen!Quiet, Screen!menu, Screen!image, Screen!textures, Screen!hints, Screen!screen, Screen!clock, Screen!card, Screen!game, Screen!seen
<1>18. ASSUME NEW t \in Screen!Threads, Screen!loadscreen_tick(t) PROVE Hinted'
  BY <1>18 DEF ScreenInv, ScreenType, Places, Hinted, After_first, Screen!Pictures, Screen!loadscreen_tick, Screen!Ticked, Screen!Draws, Screen!Frozen, Screen!Elsewhere, Screen!Quiet, Screen!menu, Screen!image, Screen!textures, Screen!hints, Screen!screen, Screen!clock, Screen!card, Screen!game, Screen!seen
<1>19. ASSUME NEW t \in Screen!Threads, Screen!loadscreen_note_gl(t) PROVE Hinted'
  BY <1>19 DEF ScreenInv, ScreenType, Places, Hinted, After_first, Screen!Pictures, Screen!loadscreen_note_gl, Screen!Ticked, Screen!Draws, Screen!Frozen, Screen!Releases, Screen!Playing, Screen!Elsewhere, Screen!Quiet, Screen!menu, Screen!image, Screen!textures, Screen!hints, Screen!screen, Screen!clock, Screen!card, Screen!game, Screen!seen
<1>20. ASSUME NEW seed \in 0 .. MaxHints, Screen!TickDraws(seed) PROVE Hinted'
  BY <1>20 DEF ScreenInv, ScreenType, Places, Hinted, After_first, Screen!Pictures, Screen!TickDraws, Screen!Draw, Screen!Elsewhere, Screen!Quiet, Screen!menu, Screen!image, Screen!textures, Screen!hints, Screen!screen, Screen!clock, Screen!card, Screen!game, Screen!seen
<1>21. ASSUME NEW t \in Screen!Threads, NEW seed \in 0 .. MaxHints, Screen!loadscreen_end(t, seed) PROVE Hinted'
  BY <1>21 DEF ScreenInv, ScreenType, Places, Hinted, After_first, Screen!Pictures, Screen!loadscreen_end, Screen!Draw, Screen!Frozen, Screen!Playing, Screen!Elsewhere, Screen!Quiet, Screen!menu, Screen!image, Screen!textures, Screen!hints, Screen!screen, Screen!clock, Screen!card, Screen!game, Screen!seen
<1>22. CASE Screen!Truncate
  BY <1>22 DEF ScreenInv, ScreenType, Places, Hinted, After_first, Screen!Pictures, Screen!Truncate, Screen!Elsewhere, Screen!Quiet, Screen!menu, Screen!image, Screen!textures, Screen!hints, Screen!screen, Screen!clock, Screen!card, Screen!game, Screen!seen
<1>23. CASE Screen!Write
  BY <1>23 DEF ScreenInv, ScreenType, Places, Hinted, After_first, Screen!Pictures, Screen!Write, Screen!Elsewhere, Screen!Quiet, Screen!menu, Screen!image, Screen!textures, Screen!hints, Screen!screen, Screen!clock, Screen!card, Screen!game, Screen!seen
<1> QED BY <1>1, <1>2, <1>3, <1>4, <1>5, <1>6, <1>7, <1>8, <1>9, <1>10, <1>11, <1>12, <1>13, <1>14, <1>15, <1>16, <1>17, <1>18, <1>19, <1>20, <1>21, <1>22, <1>23 DEF Screen!Next, Screen!Loads, Screen!Menus, Screen!Shows

\* The estimates.
LEMMA KnownKept ==
  ASSUME Screen!BootConstants, ScreenInv, Screen!Next
  PROVE  Known'
<1>1. CASE Screen!Match
  BY <1>1 DEF ScreenInv, ScreenType, Places, Staged, Known, Screen!Match, Screen!Reading, Screen!Absent, Screen!Found, Screen!After, Screen!Elsewhere, Screen!Quiet, Screen!menu, Screen!image, Screen!textures, Screen!hints, Screen!screen, Screen!clock, Screen!card, Screen!game, Screen!seen
<1>2. CASE Screen!Logo
  BY <1>2 DEF ScreenInv, ScreenType, Places, Staged, Known, Screen!Logo, Screen!Reading, Screen!Absent, Screen!Found, Screen!After, Screen!Elsewhere, Screen!Quiet, Screen!menu, Screen!image, Screen!textures, Screen!hints, Screen!screen, Screen!clock, Screen!card, Screen!game, Screen!seen
<1>3. CASE Screen!FontLoad
  BY <1>3 DEF ScreenInv, ScreenType, Places, Staged, Known, Screen!FontLoad, Screen!Reading, Screen!Absent, Screen!Found, Screen!After, Screen!Elsewhere, Screen!Quiet, Screen!menu, Screen!image, Screen!textures, Screen!hints, Screen!screen, Screen!clock, Screen!card, Screen!game, Screen!seen
<1>4. CASE Screen!Decode
  BY <1>4 DEF ScreenInv, ScreenType, Places, Staged, Known, Screen!Decode, Screen!After, Screen!Elsewhere, Screen!Quiet, Screen!menu, Screen!image, Screen!textures, Screen!hints, Screen!screen, Screen!clock, Screen!card, Screen!game, Screen!seen
<1>5. CASE Screen!GenTexture
  BY <1>5 DEF ScreenInv, ScreenType, Places, Staged, Known, Screen!GenTexture, Screen!Elsewhere, Screen!Quiet, Screen!menu, Screen!image, Screen!textures, Screen!hints, Screen!screen, Screen!clock, Screen!card, Screen!game, Screen!seen
<1>6. CASE Screen!TexImage
  BY <1>6 DEF ScreenInv, ScreenType, Places, Staged, Known, Screen!TexImage, Screen!After, Screen!Elsewhere, Screen!Quiet, Screen!menu, Screen!image, Screen!textures, Screen!hints, Screen!screen, Screen!clock, Screen!card, Screen!game, Screen!seen
<1>7. CASE Screen!CloseZip
  BY <1>7 DEF ScreenInv, ScreenType, Places, Staged, Known, Screen!CloseZip, Screen!Elsewhere, Screen!Quiet, Screen!menu, Screen!image, Screen!textures, Screen!hints, Screen!screen, Screen!clock, Screen!card, Screen!game, Screen!seen
<1>8. ASSUME NEW n \in 1 .. Pixels + 1, NEW literal \in BOOLEAN, Screen!Run(n, literal) PROVE Known'
  BY <1>8 DEF ScreenInv, ScreenType, Places, Staged, Known, Screen!Run, Screen!Count, Screen!Cost, Screen!After, Screen!Elsewhere, Screen!Quiet, Screen!menu, Screen!image, Screen!textures, Screen!hints, Screen!screen, Screen!clock, Screen!card, Screen!game, Screen!seen
<1>9. CASE Screen!HintsNeed
  BY <1>9 DEF ScreenInv, ScreenType, Places, Staged, Known, Screen!HintsNeed, Screen!Gets, Screen!Elsewhere, Screen!Quiet, Screen!menu, Screen!image, Screen!textures, Screen!hints, Screen!screen, Screen!clock, Screen!card, Screen!game, Screen!seen
<1>10. CASE Screen!Hint
  BY <1>10 DEF ScreenInv, ScreenType, Places, Staged, Known, Screen!Hint, Screen!Elsewhere, Screen!Quiet, Screen!menu, Screen!image, Screen!textures, Screen!hints, Screen!screen, Screen!clock, Screen!card, Screen!game, Screen!seen
<1>11. CASE Screen!HintsDone
  BY <1>11 DEF ScreenInv, ScreenType, Places, Staged, Known, Screen!HintsDone, Screen!Elsewhere, Screen!Quiet, Screen!menu, Screen!image, Screen!textures, Screen!hints, Screen!screen, Screen!clock, Screen!card, Screen!game, Screen!seen
<1>12. ASSUME NEW zip \in BOOLEAN, Screen!OpenZip(zip) PROVE Known'
  BY <1>12 DEF ScreenInv, ScreenType, Places, Staged, Known, Screen!OpenZip, Screen!Opened, Screen!Elsewhere, Screen!Quiet, Screen!menu, Screen!image, Screen!textures, Screen!hints, Screen!screen, Screen!clock, Screen!card, Screen!game, Screen!seen
<1>13. ASSUME NEW current \in 0 .. Rows, NEW pressed \in SUBSET Screen!Buttons, Screen!OpenList(current, pressed) PROVE Known'
  BY <1>13 DEF ScreenInv, ScreenType, Places, Staged, Known, Screen!OpenList, Screen!Elsewhere, Screen!Quiet, Screen!menu, Screen!image, Screen!textures, Screen!hints, Screen!screen, Screen!clock, Screen!card, Screen!game, Screen!seen
<1>14. ASSUME NEW pressed \in SUBSET Screen!Buttons, NEW timeout \in BOOLEAN, Screen!Poll(pressed, timeout) PROVE Known'
  BY <1>14 DEF ScreenInv, ScreenType, Places, Staged, Known, Screen!Poll, Screen!Elsewhere, Screen!Quiet, Screen!menu, Screen!image, Screen!textures, Screen!hints, Screen!screen, Screen!clock, Screen!card, Screen!game, Screen!seen
<1>15. ASSUME NEW warm \in BOOLEAN, NEW zip \in BOOLEAN, Screen!loadscreen_begin(warm, zip) PROVE Known'
  <2>1. Known /\ pc # "write"
    BY <1>15 DEF ScreenInv, Screen!loadscreen_begin
  <2>2. g_expect' = kept[IF warm THEN "warm" ELSE "cold"]
    BY <1>15, <2>1 DEF Screen!loadscreen_begin, Known
  <2>3. g_expect' \in Nat /\ Screen!Sane(g_expect')
    BY <2>1, <2>2 DEF Known, Screen!Kinds
  <2> QED BY <1>15, <2>1, <2>3 DEF Known, Screen!loadscreen_begin, Screen!card, Screen!Sane, Screen!Reads, Screen!Kind, Screen!Kinds
<1>16. ASSUME NEW seed \in 0 .. MaxHints, Screen!First(seed) PROVE Known'
  BY <1>16 DEF ScreenInv, ScreenType, Places, Staged, Known, Screen!First, Screen!Draw, Screen!Elsewhere, Screen!Quiet, Screen!menu, Screen!image, Screen!textures, Screen!hints, Screen!screen, Screen!clock, Screen!card, Screen!game, Screen!seen
<1>17. CASE Screen!Pass
  BY <1>17 DEF ScreenInv, ScreenType, Places, Staged, Known, Screen!Pass, Screen!Elsewhere, Screen!Quiet, Screen!menu, Screen!image, Screen!textures, Screen!hints, Screen!screen, Screen!clock, Screen!card, Screen!game, Screen!seen
<1>18. ASSUME NEW t \in Screen!Threads, Screen!loadscreen_tick(t) PROVE Known'
  BY <1>18 DEF ScreenInv, ScreenType, Places, Staged, Known, Screen!loadscreen_tick, Screen!Ticked, Screen!Draws, Screen!Frozen, Screen!Elsewhere, Screen!Quiet, Screen!menu, Screen!image, Screen!textures, Screen!hints, Screen!screen, Screen!clock, Screen!card, Screen!game, Screen!seen
<1>19. ASSUME NEW t \in Screen!Threads, Screen!loadscreen_note_gl(t) PROVE Known'
  BY <1>19 DEF ScreenInv, ScreenType, Places, Staged, Known, Screen!loadscreen_note_gl, Screen!Ticked, Screen!Draws, Screen!Frozen, Screen!Releases, Screen!Playing, Screen!Elsewhere, Screen!Quiet, Screen!menu, Screen!image, Screen!textures, Screen!hints, Screen!screen, Screen!clock, Screen!card, Screen!game, Screen!seen
<1>20. ASSUME NEW seed \in 0 .. MaxHints, Screen!TickDraws(seed) PROVE Known'
  BY <1>20 DEF ScreenInv, ScreenType, Places, Staged, Known, Screen!TickDraws, Screen!Draw, Screen!Elsewhere, Screen!Quiet, Screen!menu, Screen!image, Screen!textures, Screen!hints, Screen!screen, Screen!clock, Screen!card, Screen!game, Screen!seen
<1>21. ASSUME NEW t \in Screen!Threads, NEW seed \in 0 .. MaxHints, Screen!loadscreen_end(t, seed) PROVE Known'
  <2>1. Known /\ pc \in {"shown", "drawing"}
    BY <1>21 DEF ScreenInv, Screen!loadscreen_end, Screen!Playing
  <2>2. /\ file' = file /\ kept' = kept /\ g_warm' = g_warm /\ pc' # "write" /\ g_active' = FALSE
        /\ pc' = "time" => tim' = [kept EXCEPT ![Screen!Kind] = since]
        /\ pc' # "time" => tim' = tim /\ pc' = pc
        /\ g_active /\ g_expect' = g_expect
    BY <1>21, <2>1 DEF Screen!loadscreen_end, Known
  <2>3. since \in Nat
    BY DEF ScreenInv, ScreenType
  <2>4. tim' \in [Screen!Kinds -> Nat]
    BY <2>1, <2>2, <2>3 DEF Known
  <2>5. pc' = "time" => \A k \in Screen!Kinds : k # Screen!Kind => tim'[k] = kept[k]
    BY <2>1, <2>2 DEF Known
  <2> QED BY <2>1, <2>2, <2>4, <2>5 DEF Known, Screen!Reads, Screen!Sane, Screen!Kind
<1>22. CASE Screen!Truncate
  <2>1. Known /\ Staged /\ pc = "time" /\ MinTime \in Nat
    BY <1>22 DEF ScreenInv, Screen!Truncate, Screen!BootConstants
  <2>2. /\ kept' = kept /\ tim' = tim /\ g_warm' = g_warm /\ g_active' = g_active /\ ~g_active
        /\ \/ pc' = "write" /\ file' = Screen!NoTimes
           \/ pc' = "over" /\ file' = file
    BY <1>22, <2>1 DEF Screen!Truncate, Screen!card, Screen!screen, Staged
  <2>3. Screen!NoTimes \in [Screen!Kinds -> Nat]
    BY DEF Screen!NoTimes, Screen!Kinds
  <2> QED BY <2>1, <2>2, <2>3 DEF Known, Screen!Reads, Screen!Sane, Screen!Kind
<1>23. CASE Screen!Write
  <2>1. Known /\ Staged /\ pc = "write" /\ Screen!Kind \in Screen!Kinds
    BY <1>23 DEF ScreenInv, Screen!Write, Screen!Kind, Screen!Kinds
  <2>2. /\ Default \in [Screen!Kinds -> Nat] /\ \A k \in Screen!Kinds : Screen!Sane(Default[k])
        /\ MinTime \in Nat /\ MaxTime \in Nat
    BY DEF Screen!BootConstants, Screen!Sane
  <2>3. /\ tim' = tim /\ g_active' = g_active /\ ~g_active /\ pc' = "over"
    BY <1>23, <2>1 DEF Screen!Write, Screen!screen, Staged
  <2>4. CASE file' = tim /\ kept' = [kept EXCEPT ![Screen!Kind] = IF Screen!Sane(tim[Screen!Kind]) THEN tim[Screen!Kind] ELSE Default[Screen!Kind]]
    <3>1. kept' \in [Screen!Kinds -> Nat] /\ \A k \in Screen!Kinds : Screen!Sane(kept'[k])
      BY <2>1, <2>2, <2>4 DEF Known
    <3>2. \A k \in Screen!Kinds : Screen!Reads(tim)[k] = kept'[k]
      BY <2>1, <2>2, <2>4 DEF Known, Screen!Reads
    <3>3. Screen!Reads(tim) = kept'
      BY <3>1, <3>2 DEF Screen!Reads
    <3> QED BY <2>1, <2>3, <2>4, <3>1, <3>3 DEF Known, Screen!Reads, Screen!Sane
  <2>5. CASE file' = file /\ kept' = Default
    <3>1. \A k \in Screen!Kinds : Screen!NoTimes[k] = 0
      BY DEF Screen!NoTimes, Screen!Kinds
    <3>2. \A k \in Screen!Kinds : Screen!Reads(Screen!NoTimes)[k] = Default[k]
      BY <2>2, <3>1 DEF Screen!Reads, Screen!Sane
    <3>3. Screen!Reads(Screen!NoTimes) = Default
      BY <2>2, <3>2 DEF Screen!Reads
    <3> QED BY <2>1, <2>2, <2>3, <2>5, <3>3 DEF Known, Screen!Reads, Screen!Sane
  <2> QED BY <1>23, <2>4, <2>5 DEF Screen!Write
<1> QED BY <1>1, <1>2, <1>3, <1>4, <1>5, <1>6, <1>7, <1>8, <1>9, <1>10, <1>11, <1>12, <1>13, <1>14, <1>15, <1>16, <1>17, <1>18, <1>19, <1>20, <1>21, <1>22, <1>23 DEF Screen!Next, Screen!Loads, Screen!Menus, Screen!Shows

\* Moving stays in the menu.
LEMMA Steps ==
  ASSUME Rows \in Nat \ {0}, NEW row \in 0 .. Rows - 1
  PROVE  (row + (Rows - 1)) % Rows \in 0 .. Rows - 1 /\ (row + 1) % Rows \in 0 .. Rows - 1
OBVIOUS

\* The window goes along.
LEMMA Window ==
  ASSUME Visible \in Nat \ {0}, NEW t \in Nat, NEW row \in Nat
  PROVE  Screen!Follow(t, row) \in Nat /\ row \in Screen!Follow(t, row) .. Screen!Follow(t, row) + Visible - 1
BY DEF Screen!Follow

\* The rows.
LEMMA RowsKept ==
  ASSUME Screen!BootConstants, ScreenInv, Screen!Next
  PROVE  Screen!RowVisible'
<1>1. CASE Screen!Match
  BY <1>1 DEF ScreenInv, Screen!RowVisible, Screen!Match, Screen!Reading, Screen!Absent, Screen!Found, Screen!After, Screen!Elsewhere, Screen!Quiet, Screen!menu, Screen!image, Screen!textures, Screen!hints, Screen!screen, Screen!clock, Screen!card, Screen!game, Screen!seen
<1>2. CASE Screen!Logo
  BY <1>2 DEF ScreenInv, Screen!RowVisible, Screen!Logo, Screen!Reading, Screen!Absent, Screen!Found, Screen!After, Screen!Elsewhere, Screen!Quiet, Screen!menu, Screen!image, Screen!textures, Screen!hints, Screen!screen, Screen!clock, Screen!card, Screen!game, Screen!seen
<1>3. CASE Screen!FontLoad
  BY <1>3 DEF ScreenInv, Screen!RowVisible, Screen!FontLoad, Screen!Reading, Screen!Absent, Screen!Found, Screen!After, Screen!Elsewhere, Screen!Quiet, Screen!menu, Screen!image, Screen!textures, Screen!hints, Screen!screen, Screen!clock, Screen!card, Screen!game, Screen!seen
<1>4. CASE Screen!Decode
  BY <1>4 DEF ScreenInv, Screen!RowVisible, Screen!Decode, Screen!After, Screen!Elsewhere, Screen!Quiet, Screen!menu, Screen!image, Screen!textures, Screen!hints, Screen!screen, Screen!clock, Screen!card, Screen!game, Screen!seen
<1>5. CASE Screen!GenTexture
  BY <1>5 DEF ScreenInv, Screen!RowVisible, Screen!GenTexture, Screen!Elsewhere, Screen!Quiet, Screen!menu, Screen!image, Screen!textures, Screen!hints, Screen!screen, Screen!clock, Screen!card, Screen!game, Screen!seen
<1>6. CASE Screen!TexImage
  BY <1>6 DEF ScreenInv, Screen!RowVisible, Screen!TexImage, Screen!After, Screen!Elsewhere, Screen!Quiet, Screen!menu, Screen!image, Screen!textures, Screen!hints, Screen!screen, Screen!clock, Screen!card, Screen!game, Screen!seen
<1>7. CASE Screen!CloseZip
  BY <1>7 DEF ScreenInv, Screen!RowVisible, Screen!CloseZip, Screen!Elsewhere, Screen!Quiet, Screen!menu, Screen!image, Screen!textures, Screen!hints, Screen!screen, Screen!clock, Screen!card, Screen!game, Screen!seen
<1>8. ASSUME NEW n \in 1 .. Pixels + 1, NEW literal \in BOOLEAN, Screen!Run(n, literal) PROVE Screen!RowVisible'
  BY <1>8 DEF ScreenInv, Screen!RowVisible, Screen!Run, Screen!Count, Screen!Cost, Screen!After, Screen!Elsewhere, Screen!Quiet, Screen!menu, Screen!image, Screen!textures, Screen!hints, Screen!screen, Screen!clock, Screen!card, Screen!game, Screen!seen
<1>9. CASE Screen!HintsNeed
  BY <1>9 DEF ScreenInv, Screen!RowVisible, Screen!HintsNeed, Screen!Gets, Screen!Elsewhere, Screen!Quiet, Screen!menu, Screen!image, Screen!textures, Screen!hints, Screen!screen, Screen!clock, Screen!card, Screen!game, Screen!seen
<1>10. CASE Screen!Hint
  BY <1>10 DEF ScreenInv, Screen!RowVisible, Screen!Hint, Screen!Elsewhere, Screen!Quiet, Screen!menu, Screen!image, Screen!textures, Screen!hints, Screen!screen, Screen!clock, Screen!card, Screen!game, Screen!seen
<1>11. CASE Screen!HintsDone
  BY <1>11 DEF ScreenInv, Screen!RowVisible, Screen!HintsDone, Screen!Elsewhere, Screen!Quiet, Screen!menu, Screen!image, Screen!textures, Screen!hints, Screen!screen, Screen!clock, Screen!card, Screen!game, Screen!seen
<1>12. ASSUME NEW zip \in BOOLEAN, Screen!OpenZip(zip) PROVE Screen!RowVisible'
  BY <1>12 DEF ScreenInv, Screen!RowVisible, Screen!OpenZip, Screen!Opened, Screen!Elsewhere, Screen!Quiet, Screen!menu, Screen!image, Screen!textures, Screen!hints, Screen!screen, Screen!clock, Screen!card, Screen!game, Screen!seen
<1>13. ASSUME NEW current \in 0 .. Rows, NEW pressed \in SUBSET Screen!Buttons, Screen!OpenList(current, pressed) PROVE Screen!RowVisible'
  <2>1. Rows \in Nat \ {0} /\ Visible \in Nat \ {0} /\ Screen!RowVisible
    BY DEF ScreenInv, Screen!BootConstants
  <2>2. sel' \in 0 .. Rows - 1 /\ top' = Screen!Follow(0, sel')
    BY <1>13, <2>1 DEF Screen!OpenList
  <2> QED BY <2>1, <2>2, Window DEF Screen!RowVisible
<1>14. ASSUME NEW pressed \in SUBSET Screen!Buttons, NEW timeout \in BOOLEAN, Screen!Poll(pressed, timeout) PROVE Screen!RowVisible'
  <2>1. Rows \in Nat \ {0} /\ Visible \in Nat \ {0} /\ Screen!RowVisible
    BY DEF ScreenInv, Screen!BootConstants
  <2>2. CASE Screen!Ends(pressed \ buttons, timeout)
    BY <1>14, <2>1, <2>2 DEF Screen!Poll, Screen!RowVisible
  <2>3. CASE ~Screen!Ends(pressed \ buttons, timeout)
    <3>1. PICK row : row = Screen!Up(sel, pressed \ buttons)
      OBVIOUS
    <3>2. row \in 0 .. Rows - 1
      BY <2>1, <3>1, Steps DEF Screen!Up, Screen!RowVisible
    <3>3. sel' = Screen!Down(row, pressed \ buttons) /\ top' = Screen!Follow(top, sel')
      BY <1>14, <2>3, <3>1 DEF Screen!Poll
    <3>4. sel' \in 0 .. Rows - 1 /\ top \in Nat
      BY <2>1, <3>2, <3>3, Steps DEF Screen!Down, Screen!RowVisible
    <3> QED BY <2>1, <3>3, <3>4, Window DEF Screen!RowVisible
  <2> QED BY <2>2, <2>3
<1>15. ASSUME NEW warm \in BOOLEAN, NEW zip \in BOOLEAN, Screen!loadscreen_begin(warm, zip) PROVE Screen!RowVisible'
  BY <1>15 DEF ScreenInv, Screen!RowVisible, Screen!loadscreen_begin, Screen!Opened, Screen!Elsewhere, Screen!Quiet, Screen!menu, Screen!image, Screen!textures, Screen!hints, Screen!screen, Screen!clock, Screen!card, Screen!game, Screen!seen
<1>16. ASSUME NEW seed \in 0 .. MaxHints, Screen!First(seed) PROVE Screen!RowVisible'
  BY <1>16 DEF ScreenInv, Screen!RowVisible, Screen!First, Screen!Draw, Screen!Elsewhere, Screen!Quiet, Screen!menu, Screen!image, Screen!textures, Screen!hints, Screen!screen, Screen!clock, Screen!card, Screen!game, Screen!seen
<1>17. CASE Screen!Pass
  BY <1>17 DEF ScreenInv, Screen!RowVisible, Screen!Pass, Screen!Elsewhere, Screen!Quiet, Screen!menu, Screen!image, Screen!textures, Screen!hints, Screen!screen, Screen!clock, Screen!card, Screen!game, Screen!seen
<1>18. ASSUME NEW t \in Screen!Threads, Screen!loadscreen_tick(t) PROVE Screen!RowVisible'
  BY <1>18 DEF ScreenInv, Screen!RowVisible, Screen!loadscreen_tick, Screen!Ticked, Screen!Draws, Screen!Frozen, Screen!Elsewhere, Screen!Quiet, Screen!menu, Screen!image, Screen!textures, Screen!hints, Screen!screen, Screen!clock, Screen!card, Screen!game, Screen!seen
<1>19. ASSUME NEW t \in Screen!Threads, Screen!loadscreen_note_gl(t) PROVE Screen!RowVisible'
  BY <1>19 DEF ScreenInv, Screen!RowVisible, Screen!loadscreen_note_gl, Screen!Ticked, Screen!Draws, Screen!Frozen, Screen!Releases, Screen!Playing, Screen!Elsewhere, Screen!Quiet, Screen!menu, Screen!image, Screen!textures, Screen!hints, Screen!screen, Screen!clock, Screen!card, Screen!game, Screen!seen
<1>20. ASSUME NEW seed \in 0 .. MaxHints, Screen!TickDraws(seed) PROVE Screen!RowVisible'
  BY <1>20 DEF ScreenInv, Screen!RowVisible, Screen!TickDraws, Screen!Draw, Screen!Elsewhere, Screen!Quiet, Screen!menu, Screen!image, Screen!textures, Screen!hints, Screen!screen, Screen!clock, Screen!card, Screen!game, Screen!seen
<1>21. ASSUME NEW t \in Screen!Threads, NEW seed \in 0 .. MaxHints, Screen!loadscreen_end(t, seed) PROVE Screen!RowVisible'
  BY <1>21 DEF ScreenInv, Screen!RowVisible, Screen!loadscreen_end, Screen!Draw, Screen!Frozen, Screen!Playing, Screen!Elsewhere, Screen!Quiet, Screen!menu, Screen!image, Screen!textures, Screen!hints, Screen!screen, Screen!clock, Screen!card, Screen!game, Screen!seen
<1>22. CASE Screen!Truncate
  BY <1>22 DEF ScreenInv, Screen!RowVisible, Screen!Truncate, Screen!Elsewhere, Screen!Quiet, Screen!menu, Screen!image, Screen!textures, Screen!hints, Screen!screen, Screen!clock, Screen!card, Screen!game, Screen!seen
<1>23. CASE Screen!Write
  BY <1>23 DEF ScreenInv, Screen!RowVisible, Screen!Write, Screen!Elsewhere, Screen!Quiet, Screen!menu, Screen!image, Screen!textures, Screen!hints, Screen!screen, Screen!clock, Screen!card, Screen!game, Screen!seen
<1> QED BY <1>1, <1>2, <1>3, <1>4, <1>5, <1>6, <1>7, <1>8, <1>9, <1>10, <1>11, <1>12, <1>13, <1>14, <1>15, <1>16, <1>17, <1>18, <1>19, <1>20, <1>21, <1>22, <1>23 DEF Screen!Next, Screen!Loads, Screen!Menus, Screen!Shows

\* The hint that is shown is one of those that were found.
LEMMA LineBound ==
  ASSUME Screen!BootConstants, ScreenType, NEW seed \in 0 .. MaxHints
  PROVE  Screen!Line(seed) \in Int /\ (Screen!Line(seed) > 0 => Screen!Line(seed) <= g_nhint)
<1>1. HintTime \in Nat \ {0} /\ seed \in Nat /\ since \in Nat /\ g_nhint \in Nat
  BY DEF Screen!BootConstants, ScreenType
<1> DEFINE own == IF g_warm THEN 0 ELSE 1
           slot == since \div HintTime
<1>2. own \in 0 .. 1
  OBVIOUS
<1>3. slot \in Nat
  BY <1>1, DivMod
<1>4. CASE slot < own \/ g_nhint <= 0
  BY <1>4 DEF Screen!Line
<1>5. CASE ~(slot < own) /\ g_nhint > 0
  <2>1. seed + slot - own \in Nat /\ g_nhint \in Nat \ {0}
    BY <1>1, <1>2, <1>3, <1>5
  <2>2. (seed + slot - own) % g_nhint \in 0 .. g_nhint - 1
    BY <2>1, DivMod
  <2>3. Screen!Line(seed) = 1 + ((seed + slot - own) % g_nhint)
    BY <1>1, <1>5 DEF Screen!Line
  <2> QED BY <2>2, <2>3, <1>1
<1> QED BY <1>4, <1>5, <1>1, <1>3

\* Quotients grow with what they are of.
LEMMA QuotientsGrow ==
  ASSUME NEW e \in Nat \ {0}, NEW a \in Nat, NEW b \in Nat, a <= b
  PROVE  a \div e \in Nat /\ b \div e \in Nat /\ a \div e <= b \div e
<1> DEFINE f == a \div e
           h == b \div e
           r == a % e
           mod == b % e
<1>1. f \in Nat /\ r \in 0 .. e - 1 /\ a = e * f + r
  BY DivMod
<1>2. h \in Nat /\ mod \in 0 .. e - 1 /\ b = e * h + mod
  BY DivMod
<1> HIDE DEF f, h, r, mod
<1>3. CASE f > h
  <2>1. PICK d \in Nat : f = h + 1 + d
    <3>1. f - h - 1 \in Nat /\ f = h + 1 + (f - h - 1)
      BY <1>1, <1>2, <1>3
    <3> QED BY <3>1
  <2>2. e * f = e * h + e + e * d /\ e * d >= 0 /\ e * h \in Int
    BY <2>1, <1>2
  <2> QED BY <1>1, <1>2, <2>2
<1>4. f <= h
  BY <1>1, <1>2, <1>3
<1> QED BY <1>1, <1>2, <1>4 DEF f, h

LEMMA QuotientBound ==
  ASSUME NEW e \in Nat \ {0}, NEW a \in Nat, NEW q \in Nat, a <= e * q
  PROVE  a \div e \in Nat /\ a \div e <= q
<1> DEFINE f == a \div e
           r == a % e
<1>1. f \in Nat /\ r \in 0 .. e - 1 /\ a = e * f + r
  BY DivMod
<1> HIDE DEF f, r
<1>2. CASE f > q
  <2>1. PICK d \in Nat : f = q + 1 + d
    <3>1. f - q - 1 \in Nat /\ f = q + 1 + (f - q - 1)
      BY <1>1, <1>2
    <3> QED BY <3>1
  <2>2. e * f = e * q + e + e * d /\ e * d >= 0 /\ e * q \in Int
    BY <2>1
  <2> QED BY <1>1, <2>2
<1>3. f <= q
  BY <1>1, <1>2
<1> QED BY <1>1, <1>3 DEF f

\* The bar shows less than a hundred, and no less later.
LEMMA FracBound ==
  ASSUME NEW e \in Nat \ {0}, NEW n \in Nat, NEW f,
         f = IF 100 * n > 99 * e THEN 99 ELSE (100 * n) \div e
  PROVE  f \in 0 .. 99
<1>1. CASE 100 * n > 99 * e
  BY <1>1
<1>2. CASE ~(100 * n > 99 * e)
  <2> DEFINE a == 100 * n
  <2>1. a \in Nat /\ a <= e * 99 /\ f = a \div e /\ 99 \in Nat
    BY <1>2
  <2> HIDE DEF a
  <2> QED BY <2>1, QuotientBound
<1> QED BY <1>1, <1>2

LEMMA FracGrows ==
  ASSUME NEW e \in Nat \ {0}, NEW n \in Nat, NEW m \in Nat, n <= m, NEW f, NEW h,
         f = (IF 100 * n > 99 * e THEN 99 ELSE (100 * n) \div e),
         h = (IF 100 * m > 99 * e THEN 99 ELSE (100 * m) \div e)
  PROVE  f <= h
<1>1. f \in 0 .. 99 /\ h \in 0 .. 99
  BY FracBound
<1>2. CASE 100 * m > 99 * e
  BY <1>1, <1>2
<1>3. CASE ~(100 * m > 99 * e)
  <2> DEFINE a == 100 * n
             b == 100 * m
  <2>1. a \in Nat /\ b \in Nat /\ a <= b /\ f = a \div e /\ h = b \div e
    BY <1>3
  <2> HIDE DEF a, b
  <2> QED BY <2>1, QuotientsGrow
<1> QED BY <1>2, <1>3

\* The same of Frac.
LEMMA FracOf ==
  ASSUME g_expect \in Nat \ {0}, NEW n \in Nat, NEW m \in Nat, n <= m
  PROVE  Screen!Frac(n) \in 0 .. 99 /\ Screen!Frac(m) \in 0 .. 99 /\ Screen!Frac(n) <= Screen!Frac(m)
<1>1. Screen!Frac(n) = IF 100 * n > 99 * g_expect THEN 99 ELSE (100 * n) \div g_expect
  BY DEF Screen!Frac
<1>2. Screen!Frac(m) = IF 100 * m > 99 * g_expect THEN 99 ELSE (100 * m) \div g_expect
  BY DEF Screen!Frac
<1>3. Screen!Frac(n) \in 0 .. 99
  BY <1>1, FracBound
<1>4. Screen!Frac(m) \in 0 .. 99
  BY <1>2, FracBound
<1>5. Screen!Frac(n) <= Screen!Frac(m)
  BY <1>1, <1>2, FracGrows
<1> QED BY <1>3, <1>4, <1>5

\* While a start goes on, what it is expected to take is known.
LEMMA Expected ==
  ASSUME Screen!BootConstants, ScreenInv, g_active \/ pc = "drawing"
  PROVE  g_expect \in Nat \ {0} /\ since \in Nat
BY DEF ScreenInv, ScreenType, Known, Screen!Sane, Screen!BootConstants

\* A frame of what is noted is whole.
LEMMA DrawnWhole ==
  ASSUME Screen!BootConstants, ScreenType, Pictured, Hinted, NEW seed \in 0 .. MaxHints, NEW f,
         Screen!Draw(shown, f, seed), texture' = texture, g_n' = g_n, held' = held
  PROVE  Screen!FrameWhole'
<1>1. frame'.pics \subseteq shown
  BY DEF Screen!Draw
<1>2. \A p \in shown : texture'[p] = "filled"
  BY DEF Pictured, ScreenType
<1>3. frame'.line = -1 \/ frame'.line = Screen!Line(seed)
  BY DEF Screen!Draw, Screen!Text
<1>4. frame'.line > 0 => frame'.line <= g_n /\ g_n > 0
  BY <1>3, LineBound DEF Hinted, ScreenType
<1> QED BY <1>1, <1>2, <1>4 DEF Screen!FrameWhole, Hinted

\* Without the art no picture is drawn.
LEMMA BarAlone ==
  ASSUME NEW pictures, "art" \notin pictures, NEW f, NEW seed, Screen!Draw(pictures, f, seed)
  PROVE  Screen!FrameWhole' /\ frame'.pics = {} /\ bar' = f
BY DEF Screen!Draw, Screen!FrameWhole

LEMMA QuietWhole ==
  ASSUME Screen!Quiet
  PROVE  Screen!FrameWhole' /\ frame' = Screen!NoFrame /\ frame'.pics = {} /\ bar' = bar
BY DEF Screen!Quiet, Screen!FrameWhole, Screen!NoFrame

\* A frame is whole.
LEMMA FrameKept ==
  ASSUME Screen!BootConstants, ScreenInv, Screen!Next
  PROVE  Screen!FrameWhole'
<1>1. CASE Screen!Match
  <2>1. Screen!Quiet
    BY <1>1 DEF Screen!Match, Screen!Reading, Screen!Absent, Screen!Found, Screen!After, Screen!Elsewhere
  <2> QED BY <2>1, QuietWhole
<1>2. CASE Screen!Logo
  <2>1. Screen!Quiet
    BY <1>2 DEF Screen!Logo, Screen!Reading, Screen!Absent, Screen!Found, Screen!After, Screen!Elsewhere
  <2> QED BY <2>1, QuietWhole
<1>3. CASE Screen!FontLoad
  <2>1. Screen!Quiet
    BY <1>3 DEF Screen!FontLoad, Screen!Reading, Screen!Absent, Screen!Found, Screen!After, Screen!Elsewhere
  <2> QED BY <2>1, QuietWhole
<1>4. CASE Screen!Decode
  <2>1. Screen!Quiet
    BY <1>4 DEF Screen!Decode, Screen!After, Screen!Elsewhere
  <2> QED BY <2>1, QuietWhole
<1>5. CASE Screen!GenTexture
  <2>1. Screen!Quiet
    BY <1>5 DEF Screen!GenTexture, Screen!Elsewhere
  <2> QED BY <2>1, QuietWhole
<1>6. CASE Screen!TexImage
  <2>1. Screen!Quiet
    BY <1>6 DEF Screen!TexImage, Screen!After, Screen!Elsewhere
  <2> QED BY <2>1, QuietWhole
<1>7. CASE Screen!CloseZip
  <2>1. Screen!Quiet
    BY <1>7 DEF Screen!CloseZip, Screen!Elsewhere
  <2> QED BY <2>1, QuietWhole
<1>8. ASSUME NEW n \in 1 .. Pixels + 1, NEW literal \in BOOLEAN, Screen!Run(n, literal) PROVE Screen!FrameWhole'
  <2>1. Screen!Quiet
    BY <1>8 DEF Screen!Run, Screen!Count, Screen!Cost, Screen!After, Screen!Elsewhere
  <2> QED BY <2>1, QuietWhole
<1>9. CASE Screen!HintsNeed
  <2>1. Screen!Quiet
    BY <1>9 DEF Screen!HintsNeed, Screen!Gets, Screen!Elsewhere
  <2> QED BY <2>1, QuietWhole
<1>10. CASE Screen!Hint
  <2>1. Screen!Quiet
    BY <1>10 DEF Screen!Hint, Screen!Elsewhere
  <2> QED BY <2>1, QuietWhole
<1>11. CASE Screen!HintsDone
  <2>1. Screen!Quiet
    BY <1>11 DEF Screen!HintsDone, Screen!Elsewhere
  <2> QED BY <2>1, QuietWhole
<1>12. ASSUME NEW zip \in BOOLEAN, Screen!OpenZip(zip) PROVE Screen!FrameWhole'
  <2>1. Screen!Quiet
    BY <1>12 DEF Screen!OpenZip, Screen!Opened, Screen!Elsewhere
  <2> QED BY <2>1, QuietWhole
<1>13. ASSUME NEW current \in 0 .. Rows, NEW pressed \in SUBSET Screen!Buttons, Screen!OpenList(current, pressed) PROVE Screen!FrameWhole'
  <2>1. Screen!Quiet
    BY <1>13 DEF Screen!OpenList, Screen!Elsewhere
  <2> QED BY <2>1, QuietWhole
<1>14. ASSUME NEW pressed \in SUBSET Screen!Buttons, NEW timeout \in BOOLEAN, Screen!Poll(pressed, timeout) PROVE Screen!FrameWhole'
  <2>1. CASE frame' = Screen!Menu
    BY <1>14, <2>1 DEF ScreenInv, ScreenType, Pictured, Screen!Pictures, Screen!Poll, Screen!FrameWhole, Screen!NoFrame, Screen!textures, Screen!Menu
  <2>2. CASE Screen!Quiet
    BY <2>2, QuietWhole
  <2> QED BY <1>14, <2>1, <2>2 DEF Screen!Poll
<1>15. ASSUME NEW warm \in BOOLEAN, NEW zip \in BOOLEAN, Screen!loadscreen_begin(warm, zip) PROVE Screen!FrameWhole'
  <2>1. Screen!Quiet
    BY <1>15 DEF Screen!loadscreen_begin, Screen!Opened, Screen!Elsewhere
  <2> QED BY <2>1, QuietWhole
<1>16. ASSUME NEW seed \in 0 .. MaxHints, Screen!First(seed) PROVE Screen!FrameWhole'
  <2>1. Screen!Draw(shown, 0, seed) /\ texture' = texture /\ g_n' = g_n /\ held' = held
    BY <1>16 DEF Screen!First, Screen!textures, Screen!hints
  <2> QED BY <2>1, DrawnWhole DEF ScreenInv
<1>17. CASE Screen!Pass
  <2>1. Screen!Quiet
    BY <1>17 DEF Screen!Pass, Screen!Elsewhere
  <2> QED BY <2>1, QuietWhole
<1>18. ASSUME NEW t \in Screen!Threads, Screen!loadscreen_tick(t) PROVE Screen!FrameWhole'
  <2>1. Screen!Quiet
    BY <1>18 DEF Screen!loadscreen_tick, Screen!Ticked, Screen!Draws, Screen!Frozen, Screen!Elsewhere
  <2> QED BY <2>1, QuietWhole
<1>19. ASSUME NEW t \in Screen!Threads, Screen!loadscreen_note_gl(t) PROVE Screen!FrameWhole'
  <2>1. Screen!Quiet
    BY <1>19 DEF Screen!loadscreen_note_gl, Screen!Ticked, Screen!Draws, Screen!Frozen, Screen!Releases, Screen!Playing, Screen!Elsewhere
  <2> QED BY <2>1, QuietWhole
<1>20. ASSUME NEW seed \in 0 .. MaxHints, Screen!TickDraws(seed) PROVE Screen!FrameWhole'
  <2>1. Screen!Draw(shown, Screen!Frac(g_last), seed) /\ texture' = texture /\ g_n' = g_n /\ held' = held
    BY <1>20 DEF Screen!TickDraws, Screen!textures, Screen!hints
  <2> QED BY <2>1, DrawnWhole DEF ScreenInv
<1>21. ASSUME NEW t \in Screen!Threads, NEW seed \in 0 .. MaxHints, Screen!loadscreen_end(t, seed) PROVE Screen!FrameWhole'
  <2>1. CASE Screen!Quiet
    BY <2>1, QuietWhole
  <2>2. CASE ~Screen!Frozen(g_game_gl) /\ Screen!Draw(shown, 100, seed)
    <3>1. "art" \notin shown
      BY <1>21, <2>2 DEF Screen!loadscreen_end, Screen!Frozen, ScreenInv, Staged, Pictured
    <3> QED BY <2>2, <3>1, BarAlone
  <2> QED BY <1>21, <2>1, <2>2 DEF Screen!loadscreen_end
<1>22. CASE Screen!Truncate
  <2>1. Screen!Quiet
    BY <1>22 DEF Screen!Truncate, Screen!Elsewhere
  <2> QED BY <2>1, QuietWhole
<1>23. CASE Screen!Write
  <2>1. Screen!Quiet
    BY <1>23 DEF Screen!Write, Screen!Elsewhere
  <2> QED BY <2>1, QuietWhole
<1> QED BY <1>1, <1>2, <1>3, <1>4, <1>5, <1>6, <1>7, <1>8, <1>9, <1>10, <1>11, <1>12, <1>13, <1>14, <1>15, <1>16, <1>17, <1>18, <1>19, <1>20, <1>21, <1>22, <1>23 DEF Screen!Next, Screen!Loads, Screen!Menus, Screen!Shows

\* The bar.
LEMMA BarsKept ==
  ASSUME Screen!BootConstants, ScreenInv, Screen!Next
  PROVE  Bars'
<1>1. CASE Screen!Match
  <2>1. bar' = bar /\ since' = since /\ g_expect' = g_expect /\ g_active' = g_active /\ g_last' = g_last
    BY <1>1 DEF Screen!Match, Screen!Reading, Screen!Absent, Screen!Found, Screen!After, Screen!Elsewhere, Screen!Quiet, Screen!screen, Screen!clock
  <2>2. (pc' \in After_first <=> pc \in After_first) /\ (pc' = "drawing" <=> pc = "drawing")
    BY <1>1 DEF ScreenInv, ScreenType, Screen!Match, Screen!Reading, Screen!Absent, Screen!Found, Screen!After, After_first, Screen!Pictures
  <2> QED BY <2>1, <2>2 DEF ScreenInv, Bars, Screen!Frac, After_first
<1>2. CASE Screen!Logo
  <2>1. bar' = bar /\ since' = since /\ g_expect' = g_expect /\ g_active' = g_active /\ g_last' = g_last
    BY <1>2 DEF Screen!Logo, Screen!Reading, Screen!Absent, Screen!Found, Screen!After, Screen!Elsewhere, Screen!Quiet, Screen!screen, Screen!clock
  <2>2. (pc' \in After_first <=> pc \in After_first) /\ (pc' = "drawing" <=> pc = "drawing")
    BY <1>2 DEF ScreenInv, ScreenType, Screen!Logo, Screen!Reading, Screen!Absent, Screen!Found, Screen!After, After_first, Screen!Pictures
  <2> QED BY <2>1, <2>2 DEF ScreenInv, Bars, Screen!Frac, After_first
<1>3. CASE Screen!FontLoad
  <2>1. bar' = bar /\ since' = since /\ g_expect' = g_expect /\ g_active' = g_active /\ g_last' = g_last
    BY <1>3 DEF Screen!FontLoad, Screen!Reading, Screen!Absent, Screen!Found, Screen!After, Screen!Elsewhere, Screen!Quiet, Screen!screen, Screen!clock
  <2>2. (pc' \in After_first <=> pc \in After_first) /\ (pc' = "drawing" <=> pc = "drawing")
    BY <1>3 DEF ScreenInv, ScreenType, Screen!FontLoad, Screen!Reading, Screen!Absent, Screen!Found, Screen!After, After_first, Screen!Pictures
  <2> QED BY <2>1, <2>2 DEF ScreenInv, Bars, Screen!Frac, After_first
<1>4. CASE Screen!Decode
  <2>1. bar' = bar /\ since' = since /\ g_expect' = g_expect /\ g_active' = g_active /\ g_last' = g_last
    BY <1>4 DEF Screen!Decode, Screen!After, Screen!Elsewhere, Screen!Quiet, Screen!screen, Screen!clock
  <2>2. (pc' \in After_first <=> pc \in After_first) /\ (pc' = "drawing" <=> pc = "drawing")
    BY <1>4 DEF ScreenInv, ScreenType, Screen!Decode, Screen!After, After_first, Screen!Pictures
  <2> QED BY <2>1, <2>2 DEF ScreenInv, Bars, Screen!Frac, After_first
<1>5. CASE Screen!GenTexture
  <2>1. bar' = bar /\ since' = since /\ g_expect' = g_expect /\ g_active' = g_active /\ g_last' = g_last
    BY <1>5 DEF Screen!GenTexture, Screen!Elsewhere, Screen!Quiet, Screen!screen, Screen!clock
  <2>2. (pc' \in After_first <=> pc \in After_first) /\ (pc' = "drawing" <=> pc = "drawing")
    BY <1>5 DEF ScreenInv, ScreenType, Screen!GenTexture, After_first, Screen!Pictures
  <2> QED BY <2>1, <2>2 DEF ScreenInv, Bars, Screen!Frac, After_first
<1>6. CASE Screen!TexImage
  <2>1. bar' = bar /\ since' = since /\ g_expect' = g_expect /\ g_active' = g_active /\ g_last' = g_last
    BY <1>6 DEF Screen!TexImage, Screen!Elsewhere, Screen!Quiet, Screen!screen, Screen!clock
  <2>2. (pc' \in After_first <=> pc \in After_first) /\ (pc' = "drawing" <=> pc = "drawing")
    BY <1>6 DEF ScreenInv, ScreenType, Screen!TexImage, Screen!After, After_first, Screen!Pictures
  <2> QED BY <2>1, <2>2 DEF ScreenInv, Bars, Screen!Frac, After_first
<1>7. CASE Screen!CloseZip
  <2>1. bar' = bar /\ since' = since /\ g_expect' = g_expect /\ g_active' = g_active /\ g_last' = g_last
    BY <1>7 DEF Screen!CloseZip, Screen!Elsewhere, Screen!Quiet, Screen!screen, Screen!clock
  <2>2. (pc' \in After_first <=> pc \in After_first) /\ (pc' = "drawing" <=> pc = "drawing")
    BY <1>7 DEF ScreenInv, ScreenType, Screen!CloseZip, After_first, Screen!Pictures
  <2> QED BY <2>1, <2>2 DEF ScreenInv, Bars, Screen!Frac, After_first
<1>8. ASSUME NEW n \in 1 .. Pixels + 1, NEW literal \in BOOLEAN, Screen!Run(n, literal) PROVE Bars'
  <2>1. bar' = bar /\ since' = since /\ g_expect' = g_expect /\ g_active' = g_active /\ g_last' = g_last
    BY <1>8 DEF Screen!Run, Screen!Count, Screen!Cost, Screen!After, Screen!Elsewhere, Screen!Quiet, Screen!screen, Screen!clock
  <2>2. (pc' \in After_first <=> pc \in After_first) /\ (pc' = "drawing" <=> pc = "drawing")
    BY <1>8 DEF ScreenInv, ScreenType, Screen!Run, Screen!Count, Screen!Cost, Screen!After, After_first, Screen!Pictures
  <2> QED BY <2>1, <2>2 DEF ScreenInv, Bars, Screen!Frac, After_first
<1>9. CASE Screen!HintsNeed
  <2>1. bar' = bar /\ since' = since /\ g_expect' = g_expect /\ g_active' = g_active /\ g_last' = g_last
    BY <1>9 DEF Screen!HintsNeed, Screen!Gets, Screen!Elsewhere, Screen!Quiet, Screen!screen, Screen!clock
  <2>2. (pc' \in After_first <=> pc \in After_first) /\ (pc' = "drawing" <=> pc = "drawing")
    BY <1>9 DEF ScreenInv, ScreenType, Screen!HintsNeed, Screen!Gets, After_first, Screen!Pictures
  <2> QED BY <2>1, <2>2 DEF ScreenInv, Bars, Screen!Frac, After_first
<1>10. CASE Screen!Hint
  <2>1. bar' = bar /\ since' = since /\ g_expect' = g_expect /\ g_active' = g_active /\ g_last' = g_last
    BY <1>10 DEF Screen!Hint, Screen!Elsewhere, Screen!Quiet, Screen!screen, Screen!clock
  <2>2. (pc' \in After_first <=> pc \in After_first) /\ (pc' = "drawing" <=> pc = "drawing")
    BY <1>10 DEF ScreenInv, ScreenType, Screen!Hint, After_first, Screen!Pictures
  <2> QED BY <2>1, <2>2 DEF ScreenInv, Bars, Screen!Frac, After_first
<1>11. CASE Screen!HintsDone
  <2>1. bar' = bar /\ since' = since /\ g_expect' = g_expect /\ g_active' = g_active /\ g_last' = g_last
    BY <1>11 DEF Screen!HintsDone, Screen!Elsewhere, Screen!Quiet, Screen!screen, Screen!clock
  <2>2. (pc' \in After_first <=> pc \in After_first) /\ (pc' = "drawing" <=> pc = "drawing")
    BY <1>11 DEF ScreenInv, ScreenType, Screen!HintsDone, After_first, Screen!Pictures
  <2> QED BY <2>1, <2>2 DEF ScreenInv, Bars, Screen!Frac, After_first
<1>12. ASSUME NEW zip \in BOOLEAN, Screen!OpenZip(zip) PROVE Bars'
  <2>1. bar' = bar /\ since' = since /\ g_expect' = g_expect /\ g_active' = g_active /\ g_last' = g_last
    BY <1>12 DEF Screen!OpenZip, Screen!Opened, Screen!Elsewhere, Screen!Quiet, Screen!screen, Screen!clock
  <2>2. (pc' \in After_first <=> pc \in After_first) /\ (pc' = "drawing" <=> pc = "drawing")
    BY <1>12 DEF ScreenInv, ScreenType, Screen!OpenZip, Screen!Opened, After_first, Screen!Pictures
  <2> QED BY <2>1, <2>2 DEF ScreenInv, Bars, Screen!Frac, After_first
<1>13. ASSUME NEW current \in 0 .. Rows, NEW pressed \in SUBSET Screen!Buttons, Screen!OpenList(current, pressed) PROVE Bars'
  <2>1. bar' = bar /\ since' = since /\ g_expect' = g_expect /\ g_active' = g_active /\ g_last' = g_last
    BY <1>13 DEF Screen!OpenList, Screen!Elsewhere, Screen!Quiet, Screen!screen, Screen!clock
  <2>2. (pc' \in After_first <=> pc \in After_first) /\ (pc' = "drawing" <=> pc = "drawing")
    BY <1>13 DEF ScreenInv, ScreenType, Screen!OpenList, After_first, Screen!Pictures
  <2> QED BY <2>1, <2>2 DEF ScreenInv, Bars, Screen!Frac, After_first
<1>14. ASSUME NEW pressed \in SUBSET Screen!Buttons, NEW timeout \in BOOLEAN, Screen!Poll(pressed, timeout) PROVE Bars'
  <2>1. bar' = bar /\ pc \notin After_first /\ pc' \notin After_first
    BY <1>14 DEF Screen!Poll, Screen!Quiet, After_first
  <2> QED BY <2>1 DEF ScreenInv, Bars, After_first
<1>15. ASSUME NEW warm \in BOOLEAN, NEW zip \in BOOLEAN, Screen!loadscreen_begin(warm, zip) PROVE Bars'
  <2>1. bar' = bar /\ pc \notin After_first /\ pc' \notin After_first
    BY <1>15 DEF Screen!loadscreen_begin, Screen!Quiet, After_first
  <2> QED BY <2>1 DEF ScreenInv, Bars, After_first
<1>16. ASSUME NEW seed \in 0 .. MaxHints, Screen!First(seed) PROVE Bars'
  <2>1. g_expect \in Nat \ {0} /\ since \in Nat
    BY <1>16, Expected DEF Screen!First, ScreenInv, Staged
  <2>2. bar' = 0 /\ pc' = "shown" /\ Screen!Frac(since)' = Screen!Frac(since)
    BY <1>16 DEF Screen!First, Screen!Draw, Screen!Frac, Screen!clock
  <2>3. Screen!Frac(since) \in 0 .. 99
    BY <2>1, FracOf
  <2> QED BY <2>2, <2>3 DEF Bars, After_first
<1>17. CASE Screen!Pass
  <2>1. g_expect \in Nat \ {0} /\ since \in Nat
    BY <1>17, Expected DEF Screen!Pass
  <2>2. since' = since + 1 /\ g_expect' = g_expect /\ bar' = bar /\ pc' = pc /\ g_active' = g_active /\ g_last' = g_last
    BY <1>17 DEF Screen!Pass, Screen!Quiet, Screen!screen
  <2>3. Screen!Frac(since) <= Screen!Frac(since + 1) /\ Screen!Frac(since) \in 0 .. 99 /\ Screen!Frac(since + 1) \in 0 .. 99
    <3>1. since + 1 \in Nat /\ since <= since + 1
      BY <2>1
    <3> QED BY <2>1, <3>1, FracOf
  <2>4. Screen!Frac(since)' = Screen!Frac(since + 1) /\ Screen!Frac(g_last)' = Screen!Frac(g_last)
    BY <2>2 DEF Screen!Frac
  <2> QED BY <2>1, <2>2, <2>3, <2>4 DEF ScreenInv, Bars, After_first
<1>18. ASSUME NEW t \in Screen!Threads, Screen!loadscreen_tick(t) PROVE Bars'
  <2>1. Bars /\ Staged /\ bar' = bar /\ since' = since /\ g_expect' = g_expect /\ g_active' = g_active /\ since \in Nat
    BY <1>18 DEF ScreenInv, ScreenType, Screen!loadscreen_tick, Screen!Quiet, Screen!screen
  <2>2. CASE pc' = pc /\ g_last' = g_last
    BY <2>1, <2>2 DEF Bars, Screen!Frac, After_first
  <2>3. CASE g_active /\ pc' = "drawing" /\ g_last' = since /\ pc \in After_first
    <3>1. Screen!Frac(g_last)' = Screen!Frac(since) /\ Screen!Frac(since)' = Screen!Frac(since)
      BY <2>1, <2>3 DEF Screen!Frac
    <3> QED BY <2>1, <2>3, <3>1 DEF Bars, After_first
  <2> QED BY <1>18, <2>1, <2>2, <2>3 DEF Screen!loadscreen_tick, Screen!Ticked, Screen!Draws, Staged, After_first
<1>19. ASSUME NEW t \in Screen!Threads, Screen!loadscreen_note_gl(t) PROVE Bars'
  <2>1. Bars /\ Staged /\ bar' = bar /\ since' = since /\ g_expect' = g_expect /\ g_active' = g_active /\ since \in Nat
    BY <1>19 DEF ScreenInv, ScreenType, Screen!loadscreen_note_gl, Screen!Quiet, Screen!screen
  <2>2. CASE pc' = pc /\ g_last' = g_last
    BY <2>1, <2>2 DEF Bars, Screen!Frac, After_first
  <2>3. CASE g_active /\ pc' = "drawing" /\ g_last' = since /\ pc \in After_first
    <3>1. Screen!Frac(g_last)' = Screen!Frac(since) /\ Screen!Frac(since)' = Screen!Frac(since)
      BY <2>1, <2>3 DEF Screen!Frac
    <3> QED BY <2>1, <2>3, <3>1 DEF Bars, After_first
  <2> QED BY <1>19, <2>1, <2>2, <2>3 DEF Screen!loadscreen_note_gl, Screen!Ticked, Screen!Draws, Staged, After_first, Screen!Playing
<1>20. ASSUME NEW seed \in 0 .. MaxHints, Screen!TickDraws(seed) PROVE Bars'
  <2>1. g_expect \in Nat \ {0} /\ since \in Nat /\ g_last \in 0 .. since
    BY <1>20, Expected DEF Screen!TickDraws, ScreenInv, Bars
  <2>2. bar' = Screen!Frac(g_last) /\ pc' = "shown" /\ Screen!Frac(since)' = Screen!Frac(since)
    BY <1>20 DEF Screen!TickDraws, Screen!Draw, Screen!Frac, Screen!clock
  <2>3. Screen!Frac(g_last) \in 0 .. 99 /\ Screen!Frac(g_last) <= Screen!Frac(since)
    BY <2>1, FracOf
  <2> QED BY <2>2, <2>3 DEF Bars, After_first
<1>21. ASSUME NEW t \in Screen!Threads, NEW seed \in 0 .. MaxHints, Screen!loadscreen_end(t, seed) PROVE Bars'
  <2>1. Bars /\ pc' \in After_first /\ ~g_active' /\ since' = since /\ g_last' = g_last /\ g_expect' = g_expect
    BY <1>21 DEF Screen!loadscreen_end, ScreenInv, After_first, Screen!Playing, Screen!clock
  <2>2. (bar' = bar \/ bar' = 100) /\ (pc' = "drawing" => pc = "drawing" /\ bar' = bar)
    BY <1>21 DEF Screen!loadscreen_end, Screen!Draw, Screen!Quiet, Screen!Playing
  <2> QED BY <2>1, <2>2 DEF Bars, Screen!Frac
<1>22. CASE Screen!Truncate
  <2>1. bar' = bar /\ since' = since /\ g_expect' = g_expect /\ g_active' = g_active /\ g_last' = g_last
    BY <1>22 DEF Screen!Truncate, Screen!Elsewhere, Screen!Quiet, Screen!screen, Screen!clock
  <2>2. (pc' \in After_first <=> pc \in After_first) /\ (pc' = "drawing" <=> pc = "drawing")
    BY <1>22 DEF ScreenInv, ScreenType, Screen!Truncate, After_first, Screen!Pictures
  <2> QED BY <2>1, <2>2 DEF ScreenInv, Bars, Screen!Frac, After_first
<1>23. CASE Screen!Write
  <2>1. bar' = bar /\ since' = since /\ g_expect' = g_expect /\ g_active' = g_active /\ g_last' = g_last
    BY <1>23 DEF Screen!Write, Screen!Elsewhere, Screen!Quiet, Screen!screen, Screen!clock
  <2>2. (pc' \in After_first <=> pc \in After_first) /\ (pc' = "drawing" <=> pc = "drawing")
    BY <1>23 DEF ScreenInv, ScreenType, Screen!Write, After_first, Screen!Pictures
  <2> QED BY <2>1, <2>2 DEF ScreenInv, Bars, Screen!Frac, After_first
<1> QED BY <1>1, <1>2, <1>3, <1>4, <1>5, <1>6, <1>7, <1>8, <1>9, <1>10, <1>11, <1>12, <1>13, <1>14, <1>15, <1>16, <1>17, <1>18, <1>19, <1>20, <1>21, <1>22, <1>23 DEF Screen!Next, Screen!Loads, Screen!Menus, Screen!Shows

Handed ==
  /\ frame'.pics # {} => ~g_game_gl' \/ foreign
  /\ g_art /\ ~g_active' => frame' = Screen!NoFrame \/ foreign
  /\ bar' >= bar /\ (bar' = 100 => ~g_active')

\* A step that draws nothing.
LEMMA QuietHands ==
  ASSUME ScreenInv, Screen!Quiet, bar = 100 => ~g_active'
  PROVE  Handed
<1>1. bar \in Int
  BY DEF ScreenInv, Bars
<1> QED BY <1>1, QuietWhole DEF Handed

\* While the screen is there the bar is not full.
LEMMA NotFull ==
  ASSUME ScreenInv
  PROVE  bar = 100 => ~g_active /\ pc \in After_first
BY DEF ScreenInv, Bars

\* Handing over.
LEMMA HandsKept ==
  ASSUME Screen!BootConstants, ScreenInv, Screen!Next
  PROVE  Handed
<1>1. CASE Screen!Match
  <2>1. Screen!Quiet /\ g_active' = g_active
    BY <1>1 DEF Screen!Match, Screen!Reading, Screen!Absent, Screen!Found, Screen!After, Screen!Elsewhere, Screen!screen
  <2> QED BY <2>1, QuietHands, NotFull
<1>2. CASE Screen!Logo
  <2>1. Screen!Quiet /\ g_active' = g_active
    BY <1>2 DEF Screen!Logo, Screen!Reading, Screen!Absent, Screen!Found, Screen!After, Screen!Elsewhere, Screen!screen
  <2> QED BY <2>1, QuietHands, NotFull
<1>3. CASE Screen!FontLoad
  <2>1. Screen!Quiet /\ g_active' = g_active
    BY <1>3 DEF Screen!FontLoad, Screen!Reading, Screen!Absent, Screen!Found, Screen!After, Screen!Elsewhere, Screen!screen
  <2> QED BY <2>1, QuietHands, NotFull
<1>4. CASE Screen!Decode
  <2>1. Screen!Quiet /\ g_active' = g_active
    BY <1>4 DEF Screen!Decode, Screen!After, Screen!Elsewhere, Screen!screen
  <2> QED BY <2>1, QuietHands, NotFull
<1>5. CASE Screen!GenTexture
  <2>1. Screen!Quiet /\ g_active' = g_active
    BY <1>5 DEF Screen!GenTexture, Screen!Elsewhere, Screen!screen
  <2> QED BY <2>1, QuietHands, NotFull
<1>6. CASE Screen!TexImage
  <2>1. Screen!Quiet /\ g_active' = g_active
    BY <1>6 DEF Screen!TexImage, Screen!After, Screen!Elsewhere, Screen!screen
  <2> QED BY <2>1, QuietHands, NotFull
<1>7. CASE Screen!CloseZip
  <2>1. Screen!Quiet /\ g_active' = g_active
    BY <1>7 DEF Screen!CloseZip, Screen!Elsewhere, Screen!screen
  <2> QED BY <2>1, QuietHands, NotFull
<1>8. ASSUME NEW n \in 1 .. Pixels + 1, NEW literal \in BOOLEAN, Screen!Run(n, literal) PROVE Handed
  <2>1. Screen!Quiet /\ g_active' = g_active
    BY <1>8 DEF Screen!Run, Screen!Count, Screen!Cost, Screen!After, Screen!Elsewhere, Screen!screen
  <2> QED BY <2>1, QuietHands, NotFull
<1>9. CASE Screen!HintsNeed
  <2>1. Screen!Quiet /\ g_active' = g_active
    BY <1>9 DEF Screen!HintsNeed, Screen!Gets, Screen!Elsewhere, Screen!screen
  <2> QED BY <2>1, QuietHands, NotFull
<1>10. CASE Screen!Hint
  <2>1. Screen!Quiet /\ g_active' = g_active
    BY <1>10 DEF Screen!Hint, Screen!Elsewhere, Screen!screen
  <2> QED BY <2>1, QuietHands, NotFull
<1>11. CASE Screen!HintsDone
  <2>1. Screen!Quiet /\ g_active' = g_active
    BY <1>11 DEF Screen!HintsDone, Screen!Elsewhere, Screen!screen
  <2> QED BY <2>1, QuietHands, NotFull
<1>12. ASSUME NEW zip \in BOOLEAN, Screen!OpenZip(zip) PROVE Handed
  <2>1. Screen!Quiet /\ g_active' = g_active
    BY <1>12 DEF Screen!OpenZip, Screen!Opened, Screen!Elsewhere, Screen!screen
  <2> QED BY <2>1, QuietHands, NotFull
<1>13. ASSUME NEW current \in 0 .. Rows, NEW pressed \in SUBSET Screen!Buttons, Screen!OpenList(current, pressed) PROVE Handed
  <2>1. Screen!Quiet /\ g_active' = g_active
    BY <1>13 DEF Screen!OpenList, Screen!Elsewhere, Screen!screen
  <2> QED BY <2>1, QuietHands, NotFull
<1>14. ASSUME NEW pressed \in SUBSET Screen!Buttons, NEW timeout \in BOOLEAN, Screen!Poll(pressed, timeout) PROVE Handed
  <2>1. Staged /\ Pictured /\ Bars /\ bar' = bar
    BY <1>14 DEF ScreenInv, Screen!Poll, Screen!Quiet
  <2>2. pc = "list" /\ ~g_active /\ ~g_game_gl /\ ~g_art /\ g_game_gl' = g_game_gl /\ g_active' = g_active
    BY <1>14, <2>1 DEF Screen!Poll, Staged, Pictured, After_first, Screen!screen
  <2> QED BY <2>1, <2>2 DEF Handed, Bars
<1>15. ASSUME NEW warm \in BOOLEAN, NEW zip \in BOOLEAN, Screen!loadscreen_begin(warm, zip) PROVE Handed
  <2>1. Screen!Quiet /\ pc \notin After_first
    BY <1>15 DEF Screen!loadscreen_begin, After_first
  <2> QED BY <2>1, QuietHands, NotFull
<1>16. ASSUME NEW seed \in 0 .. MaxHints, Screen!First(seed) PROVE Handed
  <2>1. Staged /\ Bars
    BY DEF ScreenInv
  <2>2. bar = -1 /\ bar' = 0 /\ g_active' /\ ~g_game_gl'
    BY <1>16, <2>1 DEF Screen!First, Screen!Draw, Staged, Bars, After_first
  <2> QED BY <2>2 DEF Handed
<1>17. CASE Screen!Pass
  <2>1. Screen!Quiet /\ g_active' = g_active
    BY <1>17 DEF Screen!Pass, Screen!Elsewhere, Screen!screen
  <2> QED BY <2>1, QuietHands, NotFull
<1>18. ASSUME NEW t \in Screen!Threads, Screen!loadscreen_tick(t) PROVE Handed
  <2>1. Screen!Quiet /\ g_active' = g_active
    BY <1>18 DEF Screen!loadscreen_tick, Screen!Elsewhere, Screen!screen
  <2> QED BY <2>1, QuietHands, NotFull
<1>19. ASSUME NEW t \in Screen!Threads, Screen!loadscreen_note_gl(t) PROVE Handed
  <2>1. Screen!Quiet /\ g_active' = g_active
    BY <1>19 DEF Screen!loadscreen_note_gl, Screen!Elsewhere, Screen!screen
  <2> QED BY <2>1, QuietHands, NotFull
<1>20. ASSUME NEW seed \in 0 .. MaxHints, Screen!TickDraws(seed) PROVE Handed
  <2>1. /\ Staged /\ Pictured /\ Bars /\ pc = "drawing"
        /\ g_active' = g_active /\ g_game_gl' = g_game_gl
    BY <1>20 DEF ScreenInv, Screen!TickDraws
  <2>2. g_expect \in Nat \ {0} /\ since \in Nat /\ g_last \in 0 .. since
    BY <2>1, Expected DEF Bars
  <2>3. Screen!Frac(g_last) \in 0 .. 99 /\ bar <= Screen!Frac(g_last) /\ bar' = Screen!Frac(g_last)
    BY <1>20, <2>1, <2>2, FracOf DEF Bars, Screen!TickDraws, Screen!Draw
  <2>4. g_game_gl /\ ~foreign => frame'.pics = {}
    <3>1. ASSUME g_game_gl, ~foreign PROVE "art" \notin shown
      BY <2>1, <3>1 DEF Staged, Pictured
    <3> QED BY <1>20, <3>1, BarAlone DEF Screen!TickDraws
  <2>5. g_art /\ ~g_active => foreign
    BY <2>1 DEF Staged, After_first
  <2> QED BY <2>1, <2>2, <2>3, <2>4, <2>5 DEF Handed, Bars
<1>21. ASSUME NEW t \in Screen!Threads, NEW seed \in 0 .. MaxHints, Screen!loadscreen_end(t, seed) PROVE Handed
  <2>1. Staged /\ Pictured /\ Bars /\ g_active /\ ~g_active' /\ g_game_gl
    BY <1>21 DEF ScreenInv, Screen!loadscreen_end, Staged
  <2>2. CASE Screen!Quiet
    BY <2>1, <2>2, QuietHands
  <2>3. CASE ~Screen!Frozen(g_game_gl) /\ Screen!Draw(shown, 100, seed)
    <3>1. ~g_art /\ "art" \notin shown
      BY <2>1, <2>3 DEF Screen!Frozen, Pictured
    <3>2. frame'.pics = {} /\ bar' = 100
      BY <2>3, <3>1, BarAlone
    <3> QED BY <2>1, <3>1, <3>2 DEF Handed, Bars
  <2> QED BY <1>21, <2>2, <2>3 DEF Screen!loadscreen_end
<1>22. CASE Screen!Truncate
  <2>1. Screen!Quiet /\ g_active' = g_active
    BY <1>22 DEF Screen!Truncate, Screen!Elsewhere, Screen!screen
  <2> QED BY <2>1, QuietHands, NotFull
<1>23. CASE Screen!Write
  <2>1. Screen!Quiet /\ g_active' = g_active
    BY <1>23 DEF Screen!Write, Screen!Elsewhere, Screen!screen
  <2> QED BY <2>1, QuietHands, NotFull
<1> QED BY <1>1, <1>2, <1>3, <1>4, <1>5, <1>6, <1>7, <1>8, <1>9, <1>10, <1>11, <1>12, <1>13, <1>14, <1>15, <1>16, <1>17, <1>18, <1>19, <1>20, <1>21, <1>22, <1>23 DEF Screen!Next, Screen!Loads, Screen!Menus, Screen!Shows

LEMMA ScreenStarts ==
  ASSUME Screen!BootConstants, Screen!Init, \A k \in Screen!Kinds : file[k] \in Nat
  PROVE  ScreenInv
<1>1. ScreenType
  <2>1. Len(Screen!Needs) = 7 /\ Pixels \in Nat \ {0}
    BY DEF Screen!Needs, Screen!BootConstants
  <2>2. pic \in Screen!Pictures /\ px \in 0 .. Pixels /\ need \in 0 .. Len(Screen!Needs)
    BY <2>1 DEF Screen!Init, Screen!Pictures
  <2>3. pc \in Places /\ texture \in [Screen!Pictures -> {"none", "empty", "filled", "deleted"}]
    BY DEF Screen!Init, Places
  <2>4. unread \in Nat /\ shown \subseteq Screen!Pictures /\ g_n \in Nat /\ g_nhint \in Nat
    BY DEF Screen!Init
  <2>5. g_active \in BOOLEAN /\ g_busy \in BOOLEAN /\ g_game_gl \in BOOLEAN /\ g_art \in BOOLEAN
    BY DEF Screen!Init
  <2>6. g_warm \in BOOLEAN /\ foreign \in BOOLEAN /\ since \in Nat /\ g_last \in Int /\ noted \subseteq Screen!Threads
    <3>1. g_warm \in BOOLEAN /\ foreign \in BOOLEAN
      BY DEF Screen!Init
    <3>2. since \in Nat /\ g_last \in Int
      BY DEF Screen!Init
    <3>3. noted = {}
      BY DEF Screen!Init
    <3> QED BY <3>1, <3>2, <3>3
  <2> QED BY <2>2, <2>3, <2>4, <2>5, <2>6 DEF ScreenType
<1>2. held \subseteq Room(pc) /\ Staged /\ Pictured /\ Hinted /\ Screen!FrameWhole /\ Bars
  BY DEF Screen!Init, Room, Staged, Pictured, Screen!Pictures, Hinted, Screen!FrameWhole, Bars, After_first, Loading, Screen!NoFrame, Screen!Needs
<1>3. Screen!RowVisible
  BY DEF Screen!Init, Screen!RowVisible, Screen!BootConstants
<1>4. Known
  <2>1. file \in [Screen!Kinds -> Nat] /\ kept = Screen!Reads(file) /\ tim = Screen!NoTimes /\ pc = "off" /\ ~g_active
    BY DEF Screen!Init, Screen!BootConstants
  <2>2. Screen!NoTimes \in [Screen!Kinds -> Nat]
    BY DEF Screen!NoTimes, Screen!Kinds
  <2>3. \A k \in Screen!Kinds : Screen!Reads(file)[k] \in Nat /\ Screen!Sane(Screen!Reads(file)[k])
    BY <2>1 DEF Screen!Reads, Screen!Sane, Screen!BootConstants
  <2>4. Screen!Reads(file) \in [Screen!Kinds -> Nat]
    BY <2>3 DEF Screen!Reads
  <2> QED BY <2>1, <2>2, <2>3, <2>4 DEF Known
<1> QED BY <1>1, <1>2, <1>3, <1>4 DEF ScreenInv

\* What holds while the screen is there is what is asked of it.
LEMMA ScreenHolds ==
  ASSUME Screen!BootConstants, ScreenInv
  PROVE  Screen!ScreenSound
<1>1. Screen!FrameWhole /\ Screen!RowVisible
  BY DEF ScreenInv
<1>2. Screen!AllGivenBack
  <2>1. pc \in {"off", "open", "list", "first", "shown", "drawing", "time", "write", "over"} => held \subseteq {"arena"}
    BY DEF ScreenInv, Room
  <2>2. ASSUME noted # {}, ~foreign PROVE held = {} /\ \A p \in Screen!Pictures : texture[p] \in {"none", "deleted"}
    <3>1. held = {} /\ shown = {} /\ pc \in After_first
      BY <2>2 DEF ScreenInv, Staged
    <3>2. \A p \in Screen!Pictures : texture[p] # "filled" /\ texture[p] # "empty"
      BY <3>1 DEF ScreenInv, Pictured, After_first
    <3>3. ASSUME NEW p \in Screen!Pictures PROVE texture[p] \in {"none", "deleted"}
      <4>1. texture[p] \in {"none", "empty", "filled", "deleted"}
        BY DEF ScreenInv, ScreenType
      <4> QED BY <3>2, <4>1
    <3> QED BY <3>1, <3>3
  <2> QED BY <2>1, <2>2 DEF Screen!AllGivenBack
<1>3. Screen!EstimatesKept
  BY DEF ScreenInv, Known, Screen!EstimatesKept
<1> QED BY <1>1, <1>2, <1>3 DEF Screen!ScreenSound

LEMMA ScreenKept ==
  ASSUME Screen!BootConstants, ScreenInv, Screen!Next
  PROVE  ScreenInv'
BY BootTypeKept, RoomKept, StagedKept, PicturedKept, HintedKept, FrameKept, BarsKept, KnownKept, RowsKept DEF ScreenInv

\* A step of another part.
LEMMA ScreenStutter ==
  ASSUME ScreenInv, UNCHANGED boot
  PROVE  ScreenInv'
<1>1. ScreenType' /\ (held \subseteq Room(pc))'
  BY DEF ScreenInv, ScreenType, boot
<1>2. Staged' /\ Pictured' /\ Hinted'
  BY DEF ScreenInv, Staged, Pictured, Hinted, boot
<1>3. Screen!FrameWhole' /\ Bars'
  BY DEF ScreenInv, Screen!FrameWhole, Bars, Screen!Frac, boot
<1>4. Known' /\ Screen!RowVisible'
  BY DEF ScreenInv, Known, Screen!RowVisible, Screen!Kind, boot
<1> QED BY <1>1, <1>2, <1>3, <1>4 DEF ScreenInv

LEMMA ScreenStep ==
  ASSUME Screen!BootConstants, ScreenInv, UNCHANGED boot \/ Screen!Next
  PROVE  ScreenInv'
BY ScreenStutter, ScreenKept

\* The boot screen's inductive invariant, for any rows, pictures, hints, threads and times
\* (loadscreen.c, langsel.c, hints.c, font.c, tga.c, obbzip.c).
THEOREM ScreenInvariant == GraphicsSpec => []ScreenInv
<1>1. GraphicsInit => ScreenInv
  <2>1. SUFFICES ASSUME GraphicsInit PROVE ScreenInv
    OBVIOUS
  <2>2. Screen!Init
    BY <2>1 DEF GraphicsInit
  <2>3. file \in [Screen!Kinds -> Times \cup {0}]
    BY <2>2 DEF Screen!Init
  <2>4. \A k \in Screen!Kinds : file[k] \in Nat
    <3>1. Times \subseteq Nat
      BY GraphicsAssumption DEF Screen!BootConstants
    <3>2. Times \cup {0} \subseteq Nat
      BY <3>1
    <3> QED BY <2>3, <3>2
  <2> QED BY <2>2, <2>4, GraphicsAssumption, ScreenStarts
<1>2. ScreenInv /\ [GraphicsNext]_all => ScreenInv'
  BY GraphicsAssumption, ScreenStep DEF GraphicsNext, States, Texes, Draws, Programs, Boots, all
<1> QED BY <1>1, <1>2, PTL DEF GraphicsSpec

\* Every frame shows textures with content and hints in memory; the row that is chosen is on the
\* screen; wherever loading stops it gives everything back, and so does the owner's first GL
\* call; what is known of how long a start takes stays known (loadscreen.c:149-205, 341-364,
\* 379-391, 416-430, langsel.c:286-290, hints.c:327-334).
THEOREM TheScreenIsSound == GraphicsSpec => []ScreenSound
<1>1. ScreenInv => ScreenSound
  BY GraphicsAssumption, ScreenHolds DEF ScreenSound
<1> QED BY <1>1, ScreenInvariant, PTL

\* The screen stops where the game begins, unless another thread than its own began; the bar
\* never goes back, and is full only at the end (loadscreen.h:29-45, loadscreen.c:449-451).
THEOREM TheScreenHandsOver == GraphicsSpec => HandsOver
<1> DEFINE A == /\ frame'.pics # {} => ~g_game_gl' \/ foreign
                /\ g_art /\ ~g_active' => frame' = Screen!NoFrame \/ foreign
                /\ bar' >= bar /\ (bar' = 100 => ~g_active')
<1>1. ScreenInv /\ Screen!Next => A
  BY GraphicsAssumption, HandsKept DEF Handed
<1>2. ScreenInv /\ [GraphicsNext]_all => [A]_(Screen!vars)
  <2>1. UNCHANGED boot => UNCHANGED Screen!vars
    BY DEF boot, Screen!vars, Screen!menu, Screen!image, Screen!textures, Screen!hints, Screen!screen,
           Screen!clock, Screen!card, Screen!game, Screen!seen
  <2> QED BY <1>1, <2>1 DEF GraphicsNext, States, Texes, Draws, Programs, Boots, all
<1> QED BY <1>2, ScreenInvariant, PTL DEF GraphicsSpec, HandsOver, Screen!HandsOver
=============================================================================
