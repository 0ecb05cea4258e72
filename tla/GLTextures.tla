----------------------------- MODULE GLTextures -----------------------------
(***************************************************************************)
(* Textures on their way to vitaGL (gl_patch.c): the filter of redundant   *)
(* binds, the texture an upload lands in, and the conversion of uploads to *)
(* 16 bits, which every later sub-upload of that texture has to repeat.    *)
(*                                                                         *)
(* Binds queue; an upload and a delete read the caller's memory, so they   *)
(* are RPCs and run with nothing pending (GLQueue). The game uploads       *)
(* through a unit below GL_MAX_TEXUNITS, to a texture it generated. What   *)
(* only feeds a line of the log (kinds, live bytes, counts) is left out.   *)
(***************************************************************************)
EXTENDS Naturals, SequencesExt

CONSTANTS
  Textures,     \* texture names
  NoTexture,    \* 0
  Units,        \* the units below GL_MAX_TEXUNITS (gl_patch.c:465)
  Beyond,       \* a unit past them
  Formats,      \* of the game's uploads: "rgba", "rgb", or any other
  MaxPending,   \* bound: binds queued and not run
  MaxStarved    \* bound: conversions that find no memory

ConstantsSane == NoTexture \notin Textures /\ Beyond \notin Units /\ Units # {}

AllUnits == Units \cup {Beyond}
Names == Textures \cup {NoTexture}

VARIABLES
  g_glq_on,
  units,         \* vitaGL's: the active unit, and per unit the 2D texture and the last bound
  pending,       \* calls queued and not run
  image,         \* vitaGL's: what each texture's base image holds, or "none"
  g_active_unit, g_cur_tex, g_bound2d, g_unit2d, g_tex16,
  g_gl_tex16,    \* TextureBits is not 32 (main.c)
  plain,         \* what units would be had every call run at once, unfiltered
  sub,           \* the last sub-upload
  starved        \* conversions that found no memory

vars == <<g_glq_on, units, pending, image, g_active_unit, g_cur_tex, g_bound2d, g_unit2d,
          g_tex16, g_gl_tex16, plain, sub, starved>>

-----------------------------------------------------------------------------
(* vitaGL. GXM has one texture per sampler: a unit is what its last bind   *)
(* of any target left, as well as what its last 2D bind left.              *)

Bind2D(t) == [f |-> "bind2d", t |-> t]
BindCube == [f |-> "bindcube"]
Activate(u) == [f |-> "active", u |-> u]

Apply(g, c) ==
  CASE c.f = "active" -> [g EXCEPT !.active = c.u]
    [] c.f = "bind2d" -> [g EXCEPT !.d2[g.active] = c.t, !.slot[g.active] = c.t]
    [] c.f = "bindcube" -> [g EXCEPT !.slot[g.active] = "cube"]
    [] c.f = "delete" -> [g EXCEPT !.d2 = [u \in AllUnits |-> IF g.d2[u] = c.t THEN NoTexture ELSE g.d2[u]],
                                   !.slot = [u \in AllUnits |-> IF g.slot[u] = c.t THEN NoTexture ELSE g.slot[u]]]

Start == [active |-> CHOOSE u \in Units : TRUE,
          d2 |-> [u \in AllUnits |-> NoTexture], slot |-> [u \in AllUnits |-> NoTexture]]

-----------------------------------------------------------------------------
NoSub == [given |-> "none", held |-> "none", short |-> FALSE]

Init ==
  /\ g_glq_on = FALSE
  /\ units = Start /\ plain = Start /\ pending = <<>>
  /\ image = [t \in Textures |-> "none"]
  /\ g_active_unit = Start.active /\ g_cur_tex = NoTexture
  /\ g_bound2d = [u \in Units |-> NoTexture] /\ g_unit2d = [u \in Units |-> NoTexture]
  /\ g_tex16 = [t \in Textures |-> "none"]
  /\ g_gl_tex16 \in BOOLEAN
  /\ sub = NoSub
  /\ starved = 0

bindings == <<g_active_unit, g_cur_tex, g_bound2d, g_unit2d>>
contents == <<image, g_tex16, g_gl_tex16, starved>>

Q(c) ==
  IF g_glq_on
  THEN /\ Len(pending) < MaxPending
       /\ pending' = Append(pending, c) /\ UNCHANGED units
  ELSE units' = Apply(units, c) /\ UNCHANGED pending

Asked(c) == plain' = Apply(plain, c)

(* glq_reseed, of what is here: the active unit and its 2D texture. *)
Reseeded(gl) ==
  [unit |-> gl.active,
   cur |-> IF gl.active \in Units THEN gl.d2[gl.active] ELSE g_cur_tex,
   unit2d |-> IF gl.active \in Units THEN [g_unit2d EXCEPT ![gl.active] = gl.d2[gl.active]]
              ELSE g_unit2d]

glq_begin ==
  /\ ~g_glq_on /\ g_glq_on' = TRUE
  /\ g_active_unit' = Reseeded(units).unit
  /\ g_cur_tex' = Reseeded(units).cur
  /\ g_unit2d' = Reseeded(units).unit2d
  /\ UNCHANGED <<units, pending, g_bound2d, contents, plain, sub>>

Render ==
  /\ pending # <<>>
  /\ units' = Apply(units, Head(pending)) /\ pending' = Tail(pending)
  /\ UNCHANGED <<g_glq_on, bindings, contents, plain, sub>>

-----------------------------------------------------------------------------
(* Uploads go to the active unit's binding, not to the last one bound. *)
Follows(u) == IF u \in Units THEN g_unit2d[u] ELSE NoTexture

glActiveTexture_e ==
  \E u \in AllUnits :
    /\ g_active_unit' = u /\ g_cur_tex' = Follows(u)
    /\ Q(Activate(u)) /\ Asked(Activate(u))
    /\ sub' = NoSub
    /\ UNCHANGED <<g_glq_on, g_bound2d, g_unit2d, contents>>

(* The filter: a unit past the table is never filtered, and a bind of      *)
(* another target makes it forget what the unit holds.                     *)
Redundant(t) == g_active_unit \in Units /\ g_bound2d[g_active_unit] = t

NoteUnit(table, t) == IF g_active_unit \in Units THEN [table EXCEPT ![g_active_unit] = t] ELSE table

Bind2D_e ==
  \E t \in Names :
    /\ g_cur_tex' = t
    /\ g_unit2d' = NoteUnit(g_unit2d, t) /\ g_bound2d' = NoteUnit(g_bound2d, t)
    /\ IF Redundant(t) THEN UNCHANGED <<units, pending>> ELSE Q(Bind2D(t))
    /\ Asked(Bind2D(t))
    /\ sub' = NoSub
    /\ UNCHANGED <<g_glq_on, g_active_unit, contents>>

ForgetUnit == NoteUnit(g_bound2d, NoTexture)

BindCube_e ==
  /\ g_bound2d' = ForgetUnit
  /\ Q(BindCube) /\ Asked(BindCube)
  /\ sub' = NoSub
  /\ UNCHANGED <<g_glq_on, g_active_unit, g_cur_tex, g_unit2d, contents>>

glBindTexture_e == Bind2D_e \/ BindCube_e

(* Names are recycled: whatever may remember one forgets it. *)
ForgetAll == [u \in Units |-> NoTexture]

glDeleteTextures_e ==
  \E t \in Textures :
    LET delete == [f |-> "delete", t |-> t]
        gone == [u \in Units |-> IF g_unit2d[u] = t THEN NoTexture ELSE g_unit2d[u]]
        gl == Apply(units, delete) IN
    /\ pending = <<>> /\ UNCHANGED pending
    /\ units' = gl /\ Asked(delete)
    /\ image' = [image EXCEPT ![t] = "none"]
    /\ g_tex16' = [g_tex16 EXCEPT ![t] = "none"]
    /\ g_bound2d' = ForgetAll
    /\ IF g_glq_on
       THEN /\ g_active_unit' = Reseeded(gl).unit
            /\ g_unit2d' = IF gl.active \in Units
                           THEN [gone EXCEPT ![gl.active] = gl.d2[gl.active]] ELSE gone
            /\ g_cur_tex' = IF gl.active \in Units THEN gl.d2[gl.active]
                            ELSE IF g_cur_tex = t THEN NoTexture ELSE g_cur_tex
       ELSE /\ g_unit2d' = gone
            /\ g_cur_tex' = IF g_cur_tex = t THEN NoTexture ELSE g_cur_tex
            /\ UNCHANGED g_active_unit
    /\ sub' = NoSub
    /\ UNCHANGED <<g_glq_on, g_gl_tex16, starved>>

-----------------------------------------------------------------------------
(* Uploads. `bytes' of RGBA or RGB can be packed to 4444 or 565; anything  *)
(* else, and storage without data, is handed on as it is.                  *)

Sixteen(format) == CASE format = "rgba" -> "4444" [] format = "rgb" -> "565" [] OTHER -> "none"

(* The upload's RPC: it runs on the texture vitaGL has bound once the      *)
(* queue is empty, and reads the loader's own note of which one that is.   *)
Target == units.d2[units.active]

(* The unit is one the loader tracks, and the game bound a texture to it. *)
Uploading == plain.active \in Units /\ plain.d2[plain.active] # NoTexture

Drained ==
  /\ pending = <<>> /\ UNCHANGED <<units, pending>>
  /\ IF g_glq_on
     THEN /\ g_active_unit' = Reseeded(units).unit
          /\ g_cur_tex' = Reseeded(units).cur /\ g_unit2d' = Reseeded(units).unit2d
     ELSE UNCHANGED <<g_active_unit, g_cur_tex, g_unit2d>>
  /\ UNCHANGED <<g_glq_on, g_bound2d, g_gl_tex16, plain>>

(* The base image's format, for the sub-uploads to come. *)
tex16_mark_onlyPacked(kind) ==
  IF g_cur_tex = NoTexture \/ kind = "none" THEN g_tex16 ELSE [g_tex16 EXCEPT ![g_cur_tex] = kind]
tex16_mark(kind) ==
  IF g_cur_tex = NoTexture THEN g_tex16 ELSE [g_tex16 EXCEPT ![g_cur_tex] = kind]

Store(kind) == image' = [image EXCEPT ![Target] = IF kind = "none" THEN "full" ELSE kind]

(* tex_upload2d, of a base image: without memory for the copy it goes as   *)
(* it came.                                                                *)
tex_upload2d ==
  \E format \in Formats, bytes \in BOOLEAN, memory \in BOOLEAN :
    LET wanted == IF g_gl_tex16 /\ bytes THEN Sixteen(format) ELSE "none"
        kind == IF memory THEN wanted ELSE "none" IN
    /\ ~memory => wanted # "none" /\ starved < MaxStarved
    /\ Uploading /\ Drained
    /\ Store(kind) /\ g_tex16' = tex16_mark(kind)
    /\ starved' = starved + (IF memory THEN 0 ELSE 1)
    /\ sub' = NoSub

(* Storage for a render target, and a compressed image: full precision. *)
UploadAsGiven ==
  /\ Uploading /\ Drained
  /\ Store("none") /\ g_tex16' = tex16_mark("none")
  /\ sub' = NoSub
  /\ UNCHANGED starved

(* Part of an image: packed exactly when the base was. *)
glTexSubImage2D_body ==
  \E format \in Formats, memory \in BOOLEAN :
    LET kind == IF g_cur_tex = NoTexture THEN "none" ELSE g_tex16[g_cur_tex]
        wanted == IF kind # "none" /\ kind = Sixteen(format) THEN kind ELSE "none" IN
    /\ ~memory => wanted # "none" /\ starved < MaxStarved
    /\ Uploading /\ Drained /\ image[Target] # "none"
    /\ image[Target] = "full" \/ Sixteen(format) = image[Target]
    /\ sub' = [given |-> IF memory /\ wanted # "none" THEN wanted ELSE "full",
               held |-> image[Target], short |-> ~memory]
    /\ starved' = starved + (IF memory THEN 0 ELSE 1)
    /\ UNCHANGED <<image, g_tex16>>

-----------------------------------------------------------------------------
Next ==
  \/ glq_begin \/ Render
  \/ glActiveTexture_e \/ glBindTexture_e \/ glDeleteTextures_e
  \/ tex_upload2d \/ UploadAsGiven \/ glTexSubImage2D_body

Spec == Init /\ [][Next]_vars

-----------------------------------------------------------------------------
(* The texture the game bound last to a unit is the one that unit holds    *)
(* once what is queued has run, whatever binds were skipped, and uploads   *)
(* know which it is (gl_patch.c:949-967, 468-470). Where it unbound one,   *)
(* the unit may go on holding it: an entry the filter forgot reads as if   *)
(* texture 0 were bound, and binding that is skipped.                      *)
FilterExact ==
  /\ pending = <<>> =>
       /\ units.active = plain.active
       /\ \A u \in AllUnits :
            /\ plain.slot[u] # NoTexture => units.slot[u] = plain.slot[u]
            /\ plain.d2[u] # NoTexture => units.d2[u] = plain.d2[u]
  /\ plain.active \in Units /\ plain.d2[plain.active] # NoTexture
       => g_cur_tex = plain.d2[plain.active]

(* A sub-upload has the format of the texture it lands in, unless there    *)
(* was no memory to pack it in (gl_patch.c:1204-1206, 1409-1410).          *)
SubUploadFits == sub.given = sub.held \/ sub.short
=============================================================================
