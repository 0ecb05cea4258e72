------------------------------ MODULE GLState ------------------------------
(***************************************************************************)
(* The shadow of vitaGL's state that lets the game thread run ahead of the *)
(* render thread (gl_patch.c:113-131): the wrappers that keep it and queue *)
(* their call, the getters that answer from it, the filter of redundant    *)
(* program switches, the re-read after every RPC, and the GUI viewports    *)
(* that clip by scissor (main.c:675-746).                                  *)
(*                                                                         *)
(* GLQueue shows that what is queued runs in order and that an RPC runs    *)
(* with nothing pending and the game thread waiting; here the queue is the *)
(* sequence of calls not run yet, and an RPC is a step once it is empty.   *)
(* What one wrapper queues, of several commands, is one call.              *)
(*                                                                         *)
(* The wrappers of one kind share a family. Calls of two families keep     *)
(* different parts of the shadow and meet only in the re-read, so that one *)
(* behaviour mixes the families of one member of Mixes.                    *)
(***************************************************************************)
EXTENDS Naturals, SequencesExt

CONSTANTS
  Vals,        \* what a box, a colour, a blend function or a name can be
  Progs,       \* program names
  None,        \* not in Vals or Progs: no program, no answer
  Mixes,       \* families of calls one behaviour mixes
  StackMax,    \* GUI_VIEWPORT_STACK_MAX (main.c:679)
  MaxPending,  \* bound: calls queued and not run
  MaxLinks,    \* bound: links of one program
  MaxScopes    \* bound: GUI viewports open at once

ConstantsSane ==
  /\ None \notin Vals \cup Progs /\ Vals # {}
  /\ StackMax \in Nat /\ MaxScopes \in Nat

Boxes == {"viewport", "scissor_box"}
Caps == {"blend", "scissor"}
Words == {"clear", "blend_func", "fb", "arraybuf", "elembuf"}
Cells == Boxes \cup Caps \cup Words

Values(cell) == IF cell \in Caps THEN BOOLEAN ELSE Vals
Family(cell) == CASE cell \in Boxes \cup {"scissor"} -> "box"
                  [] cell \in {"blend", "blend_func", "clear"} -> "blend"
                  [] OTHER -> "bind"

VARIABLES
  mix,         \* the families this behaviour calls
  g_glq_on,    \* calls are queued
  vitaGL,      \* what vitaGL holds
  pending,     \* calls queued and not run
  s,           \* the shadow: s_viewport .. s_elembuf, g_cur_arraybuf
  s_prog, g_cur_prog,
  g_gui_scissor_stack, g_gui_scissor_bypass_depth,
  plain,       \* what vitaGL would hold had every call run at once, unfiltered
  before,      \* the scissor state each open GUI viewport found
  answer       \* the last getter's cell and answer, or None

vars == <<mix, g_glq_on, vitaGL, pending, s, s_prog, g_cur_prog, g_gui_scissor_stack,
          g_gui_scissor_bypass_depth, plain, before, answer>>

-----------------------------------------------------------------------------
(* vitaGL. A program draws with the executable it had when it was made     *)
(* current; whether linking the current program replaces it at once, and   *)
(* whether deleting it unbinds it, is vitaGL's affair.                     *)

Set(cells) == [f |-> "set", cells |-> cells]
Over(all, cells) == [c \in Cells |-> IF c \in DOMAIN cells THEN cells[c] ELSE all[c]]

Apply(gl, c) ==
  CASE c.f = "set" -> [gl EXCEPT !.cell = Over(@, c.cells)]
    [] c.f = "use" ->
         [gl EXCEPT !.prog = c.p,
                    !.drawn = IF c.p = None THEN 0 ELSE gl.exec[c.p]]
    [] c.f = "link" ->
         [gl EXCEPT !.exec[c.p] = @ + 1,
                    !.drawn = IF c.now /\ gl.prog = c.p THEN gl.exec[c.p] + 1 ELSE @]
    [] c.f = "delete" ->
         IF c.now /\ gl.prog = c.p THEN [gl EXCEPT !.prog = None, !.drawn = 0] ELSE gl

Start == [cell |-> [cell \in Cells |-> IF cell \in Caps THEN FALSE ELSE CHOOSE v \in Vals : TRUE],
          prog |-> None, drawn |-> 0, exec |-> [p \in Progs |-> 1]]

-----------------------------------------------------------------------------
Init ==
  /\ mix \in Mixes
  /\ g_glq_on = FALSE
  /\ vitaGL = Start /\ plain = Start /\ pending = <<>>
  /\ s = Start.cell /\ s_prog = None /\ g_cur_prog = None
  /\ g_gui_scissor_stack = <<>> /\ g_gui_scissor_bypass_depth = 0
  /\ before = <<>>
  /\ answer = None

scopes == <<g_gui_scissor_stack, g_gui_scissor_bypass_depth, before>>
programs == <<s_prog, g_cur_prog>>

(* Q: onto the queue, or straight to vitaGL while there is none. *)
Q(c) ==
  IF g_glq_on
  THEN /\ Len(pending) < MaxPending
       /\ pending' = Append(pending, c) /\ UNCHANGED vitaGL
  ELSE vitaGL' = Apply(vitaGL, c) /\ UNCHANGED pending

(* What the game asked for, as it would act on a GL without a queue. *)
Asked(c) == plain' = Apply(plain, c)

(* glq_rpc: the queue has drained, the call runs, and if there is a queue  *)
(* the shadow is read again.                                               *)
glq_reseed(gl) == s' = gl.cell /\ s_prog' = gl.prog

Rpc(c) ==
  /\ pending = <<>>
  /\ vitaGL' = Apply(vitaGL, c)
  /\ IF g_glq_on THEN glq_reseed(Apply(vitaGL, c)) ELSE UNCHANGED <<s, s_prog>>
  /\ UNCHANGED pending

(* The first draw: the shadow is read, and calls queue from here on. *)
glq_begin ==
  /\ ~g_glq_on /\ g_glq_on' = TRUE
  /\ glq_reseed(vitaGL)
  /\ answer' = None
  /\ UNCHANGED <<mix, vitaGL, pending, g_cur_prog, plain, scopes>>

(* The render thread runs the oldest call. *)
Render ==
  /\ pending # <<>>
  /\ vitaGL' = Apply(vitaGL, Head(pending)) /\ pending' = Tail(pending)
  /\ answer' = None
  /\ UNCHANGED <<mix, g_glq_on, s, programs, plain, scopes>>

-----------------------------------------------------------------------------
(* The wrappers that set a cell, note it and queue the call. *)

(* Sets the cells, notes them and queues the call. *)
Sets(cells) == s' = Over(s, cells) /\ Q(Set(cells)) /\ Asked(Set(cells))

Set_q(cells) ==
  \E cell \in cells : \E v \in Values(cell) :
    /\ Family(cell) \in mix
    /\ Sets([c \in {cell} |-> v])
    /\ answer' = None
    /\ UNCHANGED <<mix, g_glq_on, programs, scopes>>

glClearColor_q == Set_q({"clear"})
glBlendFunc_e == Set_q({"blend_func"})
glEnable_e == Set_q(Caps)
glBindFramebuffer_e == Set_q({"fb"})
glBindBuffer_e == Set_q({"arraybuf", "elembuf"})
glScissor_e == Set_q({"scissor_box"})

(* In a GUI viewport's scope the viewport clips as well. *)
Clipping == g_gui_scissor_stack # <<>>

Gui(v) == [viewport |-> v, scissor_box |-> v, scissor |-> TRUE]

glViewport_t ==
  \E v \in Vals :
    /\ "box" \in mix
    /\ Sets(IF Clipping THEN Gui(v) ELSE [viewport |-> v])
    /\ answer' = None
    /\ UNCHANGED <<mix, g_glq_on, programs, scopes>>

-----------------------------------------------------------------------------
(* Programs. *)

Use(p) == [f |-> "use", p |-> p]

glUseProgram_e ==
  \E p \in Progs \cup {None} :
    /\ "prog" \in mix
    /\ s_prog' = p /\ g_cur_prog' = p
    /\ IF p # None /\ p = g_cur_prog THEN UNCHANGED <<vitaGL, pending>> ELSE Q(Use(p))
    /\ Asked(Use(p))
    /\ answer' = None
    /\ UNCHANGED <<mix, g_glq_on, s, scopes>>

(* Either can change what a name draws with: the filter forgets. *)
LinkedOrDeleted_kept == g_cur_prog
LinkedOrDeleted == None

glLinkProgram_t ==
  \E p \in Progs, now \in BOOLEAN :
    LET link == [f |-> "link", p |-> p, now |-> now] IN
    /\ "prog" \in mix /\ plain.exec[p] < MaxLinks
    /\ Rpc(link) /\ Asked(link)
    /\ g_cur_prog' = LinkedOrDeleted
    /\ answer' = None
    /\ UNCHANGED <<mix, g_glq_on, scopes>>

glDeleteProgram_e ==
  \E p \in Progs, now \in BOOLEAN :
    LET delete == [f |-> "delete", p |-> p, now |-> now] IN
    /\ "prog" \in mix
    /\ Rpc(delete) /\ Asked(delete)
    /\ g_cur_prog' = LinkedOrDeleted
    /\ answer' = None
    /\ UNCHANGED <<mix, g_glq_on, scopes>>

-----------------------------------------------------------------------------
(* The getters: from the shadow while calls queue, from vitaGL before. *)

Shadowed(cell) == IF g_glq_on THEN s[cell] ELSE vitaGL.cell[cell]

glGetIntegerv_t ==
  /\ answer' \in {<<cell, Shadowed(cell)>> : cell \in {c \in Cells : Family(c) \in mix}}
                 \cup {<<"prog", IF g_glq_on THEN s_prog ELSE vitaGL.prog>>}
  /\ UNCHANGED <<mix, g_glq_on, vitaGL, pending, s, programs, plain, scopes>>

(* A name the shadow does not keep, and every call that answers or reads   *)
(* memory: the game waits for vitaGL.                                      *)
glq_miss ==
  /\ g_glq_on /\ pending = <<>> /\ glq_reseed(vitaGL)
  /\ answer' = None
  /\ UNCHANGED <<mix, g_glq_on, vitaGL, pending, g_cur_prog, plain, scopes>>

-----------------------------------------------------------------------------
(* GUI viewports (main.c:708-746). What the engine's own Setup and Close   *)
(* do to GL is a glViewport each, made while the scope is open.            *)

Found(gl) == <<gl.cell["scissor"], gl.cell["scissor_box"]>>
Save_straight == <<vitaGL.cell["scissor"], vitaGL.cell["scissor_box"]>>
Save == <<Shadowed("scissor"), Shadowed("scissor_box")>>

Restored(v, st) == [viewport |-> v, scissor_box |-> st[2], scissor |-> st[1]]

AurGUISetupViewport_scissor ==
  \E v \in Vals, rc \in BOOLEAN :
    LET bypassed == Len(g_gui_scissor_stack) >= StackMax IN
    /\ "box" \in mix /\ Len(before) < MaxScopes
    /\ Sets(IF bypassed \/ rc THEN Gui(v) ELSE Restored(v, Save))
    /\ g_gui_scissor_bypass_depth' = g_gui_scissor_bypass_depth + (IF bypassed /\ rc THEN 1 ELSE 0)
    /\ g_gui_scissor_stack' = IF rc /\ ~bypassed THEN Append(g_gui_scissor_stack, Save)
                              ELSE g_gui_scissor_stack
    /\ before' = IF rc THEN Append(before, Found(plain)) ELSE before
    /\ answer' = None
    /\ UNCHANGED <<mix, g_glq_on, programs>>

(* (A Close with nothing open only does what its glViewport does.) *)
AurGUICloseViewport_scissor ==
  \E v \in Vals :
    LET bypassed == g_gui_scissor_bypass_depth > 0 IN
    /\ "box" \in mix /\ before # <<>>
    /\ Sets(IF bypassed THEN Gui(v) ELSE Restored(v, Last(g_gui_scissor_stack)))
    /\ g_gui_scissor_stack' = IF bypassed THEN g_gui_scissor_stack ELSE Front(g_gui_scissor_stack)
    /\ g_gui_scissor_bypass_depth' = g_gui_scissor_bypass_depth - (IF bypassed THEN 1 ELSE 0)
    /\ before' = Front(before)
    /\ answer' = None
    /\ UNCHANGED <<mix, g_glq_on, programs>>

-----------------------------------------------------------------------------
Next ==
  \/ glq_begin \/ Render
  \/ glClearColor_q \/ glBlendFunc_e \/ glEnable_e
  \/ glBindFramebuffer_e \/ glBindBuffer_e \/ glScissor_e \/ glViewport_t
  \/ glUseProgram_e \/ glLinkProgram_t \/ glDeleteProgram_e
  \/ glGetIntegerv_t \/ glq_miss
  \/ AurGUISetupViewport_scissor \/ AurGUICloseViewport_scissor

Spec == Init /\ [][Next]_vars

-----------------------------------------------------------------------------
(* Once what is queued has run, vitaGL holds what every call made at once  *)
(* and unfiltered would have left, the executable the next draw uses       *)
(* included, and a getter answers what that GL would have answered         *)
(* (gl_patch.c:113-118, 1535-1536).                                        *)
ShadowTransparent ==
  /\ pending = <<>> => vitaGL = plain
  /\ answer # None =>
       answer[2] = IF answer[1] = "prog" THEN plain.prog ELSE plain.cell[answer[1]]

(* Closing a GUI viewport, or failing to open one, leaves the scissor as   *)
(* it was when the viewport was opened, however many are nested in it      *)
(* (main.c:675-678); past the sixteenth they are not tracked.              *)
ScopesRestore ==
  [][/\ Len(g_gui_scissor_stack') < Len(g_gui_scissor_stack) => Found(plain') = Last(before)
     /\ Found(plain') # Found(plain) /\ scopes' = scopes /\ Len(before) < StackMax
          => ~AurGUISetupViewport_scissor]_vars
=============================================================================
