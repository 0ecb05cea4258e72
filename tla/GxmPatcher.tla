----------------------------- MODULE GxmPatcher -----------------------------
(***************************************************************************)
(* The vertex programs vitaGL asks the shader patcher for                  *)
(* (gxm_patcher.c): repeats answered from a memo, every program tracked in *)
(* an open-addressed table with the frame that last used it, and idle ones *)
(* given back when the patcher's pool is full.                             *)
(*                                                                         *)
(* External: the patcher, which answers the same request with the same     *)
(* program and one more reference, and gives a released program's address  *)
(* to another; and vitaGL, which asks on every draw of a shader program    *)
(* and, where the create fails, binds what it had for it (257-259), but   *)
(* asks once for a fixed-function program and keeps the pointer (169-173). *)
(***************************************************************************)
EXTENDS Integers, FiniteSets

CONSTANTS
  Ids,         \* shader ids; a deleted shader's id may be given again
  FixedId,     \* the shader of the fixed function, never deleted
  Shapes,      \* what else a request is made of: attributes and streams
  NAddrs,      \* addresses a program can be at
  Slots,       \* GXMP_SLOTS
  MemoMax,     \* 3/4 of MEMO_SLOTS
  IdleFrames,  \* GXMP_IDLE_FRAMES
  MaxRefs,     \* bound: references on a program nobody tracks
  MaxFrames    \* bound: frames

ConstantsSane ==
  /\ FixedId \notin Ids
  /\ Slots \in Nat \ {0} /\ NAddrs \in Nat /\ IdleFrames \in Nat

\* A program's address is none of the two words that mark a slot.
NULL == 0
TOMB == 1
Addrs == 2 .. NAddrs + 1

Requests == (Ids \cup {FixedId}) \X Shapes
\* Nothing at an address.
Gone == <<>>
Empty == [vp |-> NULL, id |-> FixedId, last |-> 0, creates |-> 0]

VARIABLES
  pat,      \* the patcher: what it keeps at an address, [req, refs] or Gone
  g,        \* slots, memo, stale, last_set and last_set_slot
  g_armed, g_frame, g_last_gc_frame,
  vprog,    \* the program vitaGL has for a shader, or NULL
  stored,   \* the program the fixed function keeps for a shape, or NULL
  bound     \* the frame a program was last bound in, or -1

vars == <<pat, g, g_armed, g_frame, g_last_gc_frame, vprog, stored, bound>>

Init ==
  /\ pat = [a \in Addrs |-> Gone]
  /\ g = [slots |-> [i \in 0 .. Slots - 1 |-> Empty], memo |-> <<>>, stale |-> FALSE,
          last_set |-> NULL, last_set_slot |-> -1]
  /\ g_armed = FALSE /\ g_frame = 0 /\ g_last_gc_frame = -1
  /\ vprog = [id \in Ids |-> NULL] /\ stored = [sh \in Shapes |-> NULL]
  /\ bound = [a \in Addrs |-> -1]

-----------------------------------------------------------------------------
(* The table. *)

Used(slots) == {i \in DOMAIN slots : slots[i].vp \notin {NULL, TOMB}}
Tombs(slots) == {i \in DOMAIN slots : slots[i].vp = TOMB}

\* The n-th slot looked at for a program; slot_hash leaves out the low bits.
At(vp, n) == (vp \div 2 + n) % Slots

\* How many slots are walked before one that holds one of `ends'; Slots when none does.
Walk(slots, vp, ends) ==
  IF \E n \in 0 .. Slots - 1 : slots[At(vp, n)].vp \in ends
  THEN CHOOSE n \in 0 .. Slots - 1 :
         /\ slots[At(vp, n)].vp \in ends
         /\ \A m \in 0 .. n - 1 : slots[At(vp, m)].vp \notin ends
  ELSE Slots

\* slot_find: its slot, or -1; an empty slot ends the walk.
slot_find(slots, vp) ==
  LET n == Walk(slots, vp, {vp, NULL}) IN
  IF n < Slots /\ slots[At(vp, n)].vp = vp THEN At(vp, n) ELSE -1

FreeSlot(slots, vp) == At(vp, Walk(slots, vp, {NULL, TOMB}))

slot_kill_memoKept(h, dead) ==
  [h EXCEPT !.slots = [i \in DOMAIN h.slots |->
                         IF i \in dead THEN [h.slots[i] EXCEPT !.vp = TOMB] ELSE h.slots[i]],
            !.last_set = IF h.last_set_slot \in dead THEN NULL ELSE @,
            !.last_set_slot = IF @ \in dead THEN -1 ELSE @]
slot_kill(h, dead) ==
  [h EXCEPT !.slots = [i \in DOMAIN h.slots |->
                         IF i \in dead THEN [h.slots[i] EXCEPT !.vp = TOMB] ELSE h.slots[i]],
            !.stale = @ \/ dead # {},
            !.last_set = IF h.last_set_slot \in dead THEN NULL ELSE @,
            !.last_set_slot = IF @ \in dead THEN -1 ELSE @]

\* The table after its first i slots were put in again, and nothing else.
Rebuilt(slots) ==
  LET table[i \in 0 .. Slots] ==
        IF i = 0 THEN [j \in DOMAIN slots |-> Empty]
        ELSE LET before == table[i - 1]
                 s == slots[i - 1] IN
             IF s.vp \in {NULL, TOMB} THEN before
             ELSE [before EXCEPT ![FreeSlot(before, s.vp)] = s] IN
  table

\* slot_compact: the table rebuilt without its tombstones.
slot_compact(h) ==
  [h EXCEPT !.slots = Rebuilt(h.slots)[Slots],
            !.stale = TRUE, !.last_set = NULL, !.last_set_slot = -1]

-----------------------------------------------------------------------------
(* The patcher. *)

Live(p, a) == a # NULL /\ p[a] # Gone
Holding(p, req) == {a \in Addrs : p[a] # Gone /\ p[a].req = req}

\* What a create can come to: the program it is asked for again, a new one, or none.
Real(p, req) ==
  IF Holding(p, req) # {}
  THEN {[pat |-> [p EXCEPT ![a].refs = @ + 1], vp |-> a] : a \in Holding(p, req)}
  ELSE {[pat |-> [p EXCEPT ![a] = [req |-> req, refs |-> 1]], vp |-> a]
          : a \in {b \in Addrs : p[b] = Gone}}
       \cup {[pat |-> p, vp |-> NULL]}

Release(p, dead) ==
  [a \in Addrs |-> IF a \notin dead THEN p[a]
                   ELSE IF p[a].refs = 1 THEN Gone ELSE [p[a] EXCEPT !.refs = @ - 1]]

-----------------------------------------------------------------------------
(* The wrappers. *)

\* evict_idle: asked for more than once, and not bound lately.
Idle_once(s) == g_frame - s.last >= IdleFrames
Idle(s) == s.creates >= 2 /\ g_frame - s.last >= IdleFrames

evict_idle(h) ==
  LET dead == {i \in Used(h.slots) : Idle(h.slots[i])}
      killed == slot_kill(h, dead) IN
  [g |-> IF Cardinality(Tombs(killed.slots)) > Slots \div 4 THEN slot_compact(killed) ELSE killed,
   pat |-> Release(pat, {h.slots[i].vp : i \in dead}),
   freed |-> dead # {}]

Full(h) == Cardinality(Used(h.slots)) >= (Slots * 3) \div 4

Again(s) == [s EXCEPT !.creates = IF @ < 2 THEN @ + 1 ELSE @, !.last = g_frame]

\* track: the extra reference dropped, or a slot taken; a full table leaves it alone.
track(h, p, req, vp) ==
  LET at == slot_find(h.slots, vp)
      crowded == Cardinality(Used(h.slots) \cup Tombs(h.slots)) >= (Slots * 3) \div 4
      room == IF crowded THEN slot_compact(h) ELSE h
      to == FreeSlot(room.slots, vp)
      seen == [vp |-> vp, id |-> req[1], last |-> g_frame, creates |-> 1] IN
  IF at >= 0
  THEN [g |-> [h EXCEPT !.slots[at] = Again(@)], pat |-> Release(p, {vp}), at |-> at]
  ELSE IF Full(room) THEN [g |-> room, pat |-> p, at |-> -1]
  ELSE [g |-> [room EXCEPT !.slots[to] = seen], pat |-> p, at |-> to]

\* The create is remembered unless a slot moved meanwhile; a full memo starts over.
Remember(h, req, at) ==
  IF at < 0 THEN h
  ELSE IF Cardinality(DOMAIN h.memo) >= MemoMax THEN [h EXCEPT !.stale = TRUE]
  ELSE IF h.stale THEN h
  ELSE [h EXCEPT !.memo = [r \in DOMAIN @ \cup {req} |-> IF r = req THEN at ELSE @[r]]]

\* What the wrapper leaves for the last answer of the patcher.
Finish(h, gc, r, req) ==
  LET t == track(h, r.pat, req, r.vp) IN
  IF r.vp = NULL \/ ~g_armed
  THEN [g |-> h, gc |-> gc, pat |-> r.pat, vp |-> r.vp]
  ELSE [g |-> Remember(t.g, req, t.at), gc |-> gc, pat |-> t.pat, vp |-> r.vp]

\* sceGxmShaderPatcherCreateVertexProgram: every outcome it can have.
Create(req) ==
  LET h == IF g_armed /\ g.stale THEN [g EXCEPT !.memo = <<>>, !.stale = FALSE] ELSE g
      at == h.memo[req]
      Sweep == evict_idle(h)
      Answer(r) ==
        IF r.vp # NULL \/ ~g_armed \/ g_last_gc_frame = g_frame
        THEN {Finish(h, g_last_gc_frame, r, req)}
        ELSE IF ~Sweep.freed THEN {Finish(h, g_frame, r, req)}
        ELSE {Finish(Sweep.g, g_frame, again, req) : again \in Real(Sweep.pat, req)} IN
  IF g_armed /\ req \in DOMAIN h.memo
  THEN {[g |-> [h EXCEPT !.slots[at] = Again(@)], gc |-> g_last_gc_frame, pat |-> pat, vp |-> h.slots[at].vp]}
  ELSE UNION {Answer(r) : r \in Real(pat, req)}

\* sceGxmSetVertexProgram.
Bind(h, vp) ==
  LET at == IF vp = h.last_set /\ h.last_set_slot >= 0 THEN h.last_set_slot
            ELSE slot_find(h.slots, vp)
      seen == IF at >= 0 THEN [h EXCEPT !.slots[at] = [@ EXCEPT !.last = g_frame]] ELSE h IN
  IF g_armed THEN [seen EXCEPT !.last_set = vp, !.last_set_slot = at] ELSE h

Binds(o, vp) ==
  IF vp = NULL THEN g' = o.g /\ UNCHANGED bound
  ELSE g' = Bind(o.g, vp) /\ bound' = [bound EXCEPT ![vp] = g_frame]

BoundedRefs == \A a \in Addrs : pat'[a] # Gone => pat'[a].refs =< MaxRefs

\* A draw with a shader program: a create, then a bind of what there is.
Draw(id, shape) ==
  \E o \in Create(<<id, shape>>) :
    LET vp == IF o.vp = NULL THEN vprog[id] ELSE o.vp IN
    /\ pat' = o.pat /\ g_last_gc_frame' = o.gc
    /\ vprog' = [vprog EXCEPT ![id] = vp]
    /\ Binds(o, vp)
    /\ BoundedRefs
    /\ UNCHANGED <<g_armed, g_frame, stored>>

\* A draw of the fixed function.
FixedDraw(shape) ==
  \E o \in IF stored[shape] = NULL THEN Create(<<FixedId, shape>>)
           ELSE {[g |-> g, gc |-> g_last_gc_frame, pat |-> pat, vp |-> stored[shape]]} :
    /\ pat' = o.pat /\ g_last_gc_frame' = o.gc
    /\ stored' = [stored EXCEPT ![shape] = o.vp]
    /\ Binds(o, o.vp)
    /\ BoundedRefs
    /\ UNCHANGED <<g_armed, g_frame, vprog>>

\* sceGxmShaderPatcherForceUnregisterProgram: a shader is deleted, and the program with it.
Unregister(id) ==
  /\ g' = IF g_armed THEN slot_kill(g, {i \in Used(g.slots) : g.slots[i].id = id}) ELSE g
  /\ pat' = [a \in Addrs |-> IF pat[a] # Gone /\ pat[a].req[1] = id THEN Gone ELSE pat[a]]
  /\ vprog' = [vprog EXCEPT ![id] = NULL]
  /\ UNCHANGED <<g_armed, g_frame, g_last_gc_frame, stored, bound>>

gxmp_arm ==
  /\ ~g_armed /\ g_armed' = TRUE
  /\ UNCHANGED <<pat, g, g_frame, g_last_gc_frame, vprog, stored, bound>>

gxmp_on_swap ==
  /\ g_frame < MaxFrames /\ g_frame' = g_frame + 1
  /\ UNCHANGED <<pat, g, g_armed, g_last_gc_frame, vprog, stored, bound>>

Next ==
  \/ \E id \in Ids, shape \in Shapes : Draw(id, shape)
  \/ \E shape \in Shapes : FixedDraw(shape)
  \/ \E id \in Ids : Unregister(id)
  \/ gxmp_arm \/ gxmp_on_swap

Spec == Init /\ [][Next]_vars

-----------------------------------------------------------------------------
(* The memo answers a request with the program the patcher would: an entry *)
(* that is not stale leads to a slot whose program is alive and was made   *)
(* for that very request; and a tracked program is alive, of the shader    *)
(* noted for it, and found in its one slot (gxm_patcher.c:78-82, 142-167). *)
AnswersExact ==
  /\ ~g.stale => \A req \in DOMAIN g.memo :
       LET vp == g.slots[g.memo[req]].vp IN
       vp \in Addrs /\ Live(pat, vp) /\ pat[vp].req = req
  /\ \A i \in Used(g.slots) :
       LET s == g.slots[i] IN
       Live(pat, s.vp) /\ pat[s.vp].req[1] = s.id /\ slot_find(g.slots, s.vp) = i

(* A program is only released when no draw bound it for IdleFrames frames, *)
(* and never while the fixed function keeps a pointer to it                *)
(* (gxm_patcher.c:21-22, 169-173).                                         *)
ReleasedIdle ==
  [][ \/ \A a \in Addrs : Live(pat, a) /\ ~Live(pat', a) =>
           /\ bound[a] < 0 \/ g_frame - bound[a] >= IdleFrames
           /\ \A shape \in Shapes : stored[shape] # a
      \/ \E id \in Ids : Unregister(id) ]_vars
=============================================================================
