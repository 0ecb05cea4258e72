------------------------------ MODULE Graphics ------------------------------
(***************************************************************************)
(* What the loader keeps beside vitaGL and the shader patcher: the shadow  *)
(* of vitaGL's state (GLState), what it knows of textures (GLTextures),    *)
(* the vertices of queued draws (GLDraws), the vertex programs             *)
(* (GxmPatcher); and what it draws itself before the game does (BootScreen)*)
(*                                                                         *)
(* They share the queue, which GLQueue is about, and whether there is one, *)
(* which none of them changes: each has its own calls in it, whose order   *)
(* is all that matters to it; the screen is over before there is a queue.  *)
(* So one after the other is as good as all at once: `part' picks whose    *)
(* behaviours these are.                                                   *)
(***************************************************************************)
EXTENDS GLState

CONSTANTS
  Textures, NoTexture, Units, Beyond, Formats, MaxBinds, MaxStarved,          \* GLTextures
  Near, Far, Arrays, Buffers, IdxSlots, Top, CopyMax, MaxDraws, MaxWrites,    \* GLDraws
  Ids, FixedId, Shapes, NAddrs, Slots, MemoMax, IdleFrames, MaxRefs, MaxFrames, \* GxmPatcher
  Owner, Others, Rows, Visible, Pixels, FileMax, MaxHints, MinTime, MaxTime,  \* BootScreen
  Times, Default, Redraw, HintTime, Late, MaxMenus

VARIABLES
  part,
  \* GLTextures
  queueing, units, binds, image, g_active_unit, g_cur_tex, g_bound2d, g_unit2d, g_tex16,
  g_gl_tex16, unfiltered, sub, starved,
  \* GLDraws
  reading, draws, s_attr_en, s_attr_client, s_attr, g_cur_arraybuf, s_elembuf, g_idxmax,
  memory, highest, pointed, wrong,
  \* GxmPatcher
  pat, g, g_armed, g_frame, g_last_gc_frame, vprog, stored, bound,
  \* BootScreen
  pc, held, sel, top, buttons, menus, pic, px, unread, texture, shown, need, g_n, g_nhint,
  g_active, g_busy, g_game_gl, g_art, g_warm, since, g_last, g_expect, tim, file, kept,
  frame, bar, noted, foreign

Tex == INSTANCE GLTextures WITH
  g_glq_on <- queueing, pending <- binds, plain <- unfiltered, MaxPending <- MaxBinds
Draw == INSTANCE GLDraws WITH
  vitaGL <- reading, pending <- draws, plain <- pointed, MaxPending <- MaxDraws
Gxm == INSTANCE GxmPatcher
Screen == INSTANCE BootScreen

textures ==
  <<queueing, units, binds, image, g_active_unit, g_cur_tex, g_bound2d, g_unit2d, g_tex16,
    g_gl_tex16, unfiltered, sub, starved>>
vertices ==
  <<reading, draws, s_attr_en, s_attr_client, s_attr, g_cur_arraybuf, s_elembuf, g_idxmax,
    memory, highest, pointed, wrong>>
patcher == <<pat, g, g_armed, g_frame, g_last_gc_frame, vprog, stored, bound>>
boot ==
  <<pc, held, sel, top, buttons, menus, pic, px, unread, texture, shown, need, g_n, g_nhint,
    g_active, g_busy, g_game_gl, g_art, g_warm, since, g_last, g_expect, tim, file, kept,
    frame, bar, noted, foreign>>
all == <<part, vars, textures, vertices, patcher, boot>>

ASSUME GraphicsAssumption ==
  ConstantsSane /\ Tex!ConstantsSane /\ Draw!ConstantsSane /\ Gxm!ConstantsSane /\ Screen!BootConstants

GraphicsInit ==
  /\ part \in {"state", "textures", "draws", "programs", "screen"}
  /\ Init /\ (part # "state" => mix = CHOOSE m \in Mixes : TRUE)
  /\ Tex!Init /\ (part # "textures" => g_gl_tex16)
  /\ Draw!Init /\ Gxm!Init
  /\ Screen!Init /\ (part # "screen" => file = Screen!NoTimes)

States == part = "state" /\ Next /\ UNCHANGED <<part, textures, vertices, patcher, boot>>
Texes == part = "textures" /\ Tex!Next /\ UNCHANGED <<part, vars, vertices, patcher, boot>>
Draws == part = "draws" /\ Draw!Next /\ UNCHANGED <<part, vars, textures, patcher, boot>>
Programs == part = "programs" /\ Gxm!Next /\ UNCHANGED <<part, vars, textures, vertices, boot>>
Boots == part = "screen" /\ Screen!Next /\ UNCHANGED <<part, vars, textures, vertices, patcher>>

GraphicsNext == States \/ Texes \/ Draws \/ Programs \/ Boots

GraphicsSpec == GraphicsInit /\ [][GraphicsNext]_all

-----------------------------------------------------------------------------
(* What the parts promise; each is stated, and its code named, in its module. *)

\* A redundant bind is skipped without a texture drawn for another (gl_patch.c:949-967), and
\* part of a texture is uploaded in the texture's own format (gl_patch.c:1204-1206).
TexturesExact == Tex!FilterExact /\ Tex!SubUploadFits

\* A queued draw reads what the game's arrays held (gl_patch.c:506-512).
QueuedDrawsExact == Draw!QueuedDrawsExact

\* A repeated request is answered with the program it would get (gxm_patcher.c:78-82).
AnswersExact == Gxm!AnswersExact

\* A program in use is not released (gxm_patcher.c:21-22, 169-173).
ReleasedIdle == Gxm!ReleasedIdle

\* Every frame of the boot screen is whole, and all that loading took is given back
\* (loadscreen.c:149-205, 379-391).
ScreenSound == Screen!ScreenSound

\* The screen stops where the game begins, and its bar never goes back (loadscreen.h:29-45).
HandsOver == Screen!HandsOver
=============================================================================
