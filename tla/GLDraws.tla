------------------------------ MODULE GLDraws ------------------------------
(***************************************************************************)
(* Draws that read the game's memory (gl_patch.c). A draw from             *)
(* client-memory vertices is queued with copies of them, sized by the      *)
(* highest index the draw can use; when they cannot be sized or are too    *)
(* many, the game waits for the draw instead. The highest index of a       *)
(* buffer's contents is noted as the game uploads it.                      *)
(*                                                                         *)
(* The queue is the sequence of calls not run yet (GLQueue), from the      *)
(* first draw on. An array of the game's has a version, which changes when *)
(* the game writes to it; a vertex is a unit of the size of a copy.        *)
(***************************************************************************)
EXTENDS Integers, FiniteSets, SequencesExt

CONSTANTS
  Near,        \* vertex attributes below GLQ_ATTRS
  Far,         \* vertex attributes from it on: not shadowed
  Arrays,      \* the game's client arrays
  Buffers,     \* element buffers
  None,        \* no array, no buffer
  IdxSlots,    \* IDXMAX_SLOTS
  Top,         \* the highest index there is (0xFFFF)
  CopyMax,     \* GL_THREAD_CLIENT_COPY_MAX, in vertices
  MaxPending,  \* bound: calls still queued when another is made
  MaxWrites    \* bound: versions of an array

ConstantsSane ==
  /\ None \notin Arrays \cup Buffers
  /\ Near \cap Far = {} /\ IsFiniteSet(Near)
  /\ Top \in Nat

Attrs == Near \cup Far

VARIABLES
  vitaGL,         \* is an array buffer bound, and where each attribute points
  pending,        \* calls queued and not run
  s_attr_en, s_attr_client, s_attr, g_cur_arraybuf, s_elembuf, g_idxmax,
  memory,         \* the version of each array of the game's
  highest,        \* the highest index in each element buffer, or -1
  plain,          \* where the game pointed each attribute
  wrong           \* how draws were made that read other vertices than the game's

vars == <<vitaGL, pending, s_attr_en, s_attr_client, s_attr, g_cur_arraybuf, s_elembuf,
          g_idxmax, memory, highest, plain, wrong>>

-----------------------------------------------------------------------------
(* Where an attribute points: nowhere, into a buffer, at an array of the   *)
(* game's, or at a copy of its first n vertices in the ring.               *)

Nowhere == [at |-> "nowhere"]
InBuffer == [at |-> "buffer"]
AtGame(a) == [at |-> "game", array |-> a]
AtCopy(a, n) == [at |-> "copy", array |-> a, version |-> memory[a], verts |-> n]

(* vitaGL takes a pointer as an offset if a buffer is bound when it is set. *)
Point(gl, i, p) == [gl EXCEPT !.attrib[i] = IF gl.bound THEN InBuffer ELSE p]

Apply(gl, c) ==
  CASE c.f = "pointer" -> Point(gl, c.i, c.p)
    [] c.f = "bind" -> [gl EXCEPT !.bound = c.on]
    [] OTHER -> gl

(* What vitaGL is after each of the calls queued. *)
After ==
  LET gl[i \in 0 .. Len(pending)] == IF i = 0 THEN vitaGL ELSE Apply(gl[i - 1], pending[i]) IN gl

(* What the draw reads where the game pointed at array `a': the version it *)
(* had when the game drew, and as many vertices as the draw uses.          *)
ReadsTrue(gl, d) ==
  \A i \in DOMAIN d.want :
    LET p == gl.attrib[i]
        w == d.want[i] IN
    IF w.at # "game" THEN p = w
    ELSE \/ p = AtGame(w.array) /\ memory[w.array] = d.version[w.array]
         \/ /\ p.at = "copy" /\ p.array = w.array
            /\ p.version = d.version[w.array] /\ p.verts >= d.verts

-----------------------------------------------------------------------------
Init ==
  /\ vitaGL = [bound |-> FALSE, attrib |-> [i \in Attrs |-> Nowhere]] /\ pending = <<>>
  /\ s_attr_en = {} /\ s_attr_client = {} /\ s_attr = [i \in Near |-> None]
  /\ g_cur_arraybuf = FALSE /\ s_elembuf = None
  /\ g_idxmax = [b \in {} |-> 0]
  /\ memory = [a \in Arrays |-> 0]
  /\ highest = [b \in Buffers |-> -1]
  /\ plain = [i \in Attrs |-> Nowhere]
  /\ wrong = {}

attributes == <<s_attr_en, s_attr_client, s_attr, plain>>
buffers == <<g_cur_arraybuf, s_elembuf, g_idxmax, highest>>

Q(cs) == Len(pending) =< MaxPending /\ pending' = pending \o cs

(* The render thread runs the oldest call. *)
Render ==
  /\ pending # <<>>
  /\ LET c == Head(pending) IN
     /\ vitaGL' = Apply(vitaGL, c)
     /\ wrong' = IF c.f = "draw" /\ ~ReadsTrue(vitaGL, c) THEN wrong \cup {"queued"} ELSE wrong
  /\ pending' = Tail(pending)
  /\ UNCHANGED <<attributes, buffers, memory>>

(* The game writes to its own memory, which it may once a call returned. *)
Write ==
  \E a \in Arrays :
    /\ memory[a] < MaxWrites
    /\ memory' = [memory EXCEPT ![a] = @ + 1]
    /\ UNCHANGED <<vitaGL, pending, attributes, buffers, wrong>>

-----------------------------------------------------------------------------
EnableArray_q ==
  \E i \in Attrs :
    /\ s_attr_en' \in {s_attr_en \cup {i}, s_attr_en \ {i}} \ {s_attr_en}
    /\ UNCHANGED <<vitaGL, pending, s_attr_client, s_attr, plain, buffers, memory, wrong>>

glVertexAttribPointer_e ==
  \E i \in Attrs, a \in Arrays :
    /\ s_attr_client' = IF g_cur_arraybuf THEN s_attr_client \ {i} ELSE s_attr_client \cup {i}
    /\ s_attr' = IF i \in Near THEN [s_attr EXCEPT ![i] = a] ELSE s_attr
    /\ plain' = [plain EXCEPT ![i] = IF g_cur_arraybuf THEN InBuffer ELSE AtGame(a)]
    /\ Q(<<[f |-> "pointer", i |-> i, p |-> AtGame(a)]>>)
    /\ UNCHANGED <<vitaGL, s_attr_en, buffers, memory, wrong>>

Bind(on) == [f |-> "bind", on |-> on]

glBindBuffer_e ==
  \/ \E on \in BOOLEAN :
       /\ g_cur_arraybuf' = on /\ Q(<<Bind(on)>>)
       /\ UNCHANGED <<vitaGL, attributes, s_elembuf, g_idxmax, memory, highest, wrong>>
  \/ \E b \in Buffers \cup {None} :
       /\ s_elembuf' = b
       /\ UNCHANGED <<vitaGL, pending, attributes, g_cur_arraybuf, g_idxmax, memory, highest, wrong>>

(* A slot is never given back, so that a full table only stops adding.     *)
Slotted(b) == b \in DOMAIN g_idxmax

Larger(x, y) == IF x > y THEN x ELSE y

(* A sub-upload only raises the figure: an upper bound is all it takes. *)
idxmax_note_replaced(b, m, replace) ==
  IF ~Slotted(b) /\ Cardinality(DOMAIN g_idxmax) >= IdxSlots THEN g_idxmax
  ELSE [x \in DOMAIN g_idxmax \cup {b} |-> IF x = b THEN m ELSE g_idxmax[x]]
idxmax_note(b, m, replace) ==
  IF ~Slotted(b) /\ Cardinality(DOMAIN g_idxmax) >= IdxSlots THEN g_idxmax
  ELSE [x \in DOMAIN g_idxmax \cup {b} |->
          IF x # b THEN g_idxmax[x]
          ELSE IF replace \/ ~Slotted(b) THEN m ELSE Larger(g_idxmax[b], m)]

(* New contents whose highest index is m; storage the game has still to    *)
(* fill counts as the worst, Top.                                          *)
glBufferData_e ==
  \E m \in 0 .. Top :
    /\ s_elembuf # None
    /\ g_idxmax' = idxmax_note(s_elembuf, m, TRUE)
    /\ highest' = [highest EXCEPT ![s_elembuf] = m]
    /\ UNCHANGED <<vitaGL, pending, attributes, g_cur_arraybuf, s_elembuf, memory, wrong>>

(* Part of the contents: what is left of the rest is any of what was. *)
glBufferSubData_q ==
  \E m \in 0 .. Top, left \in 0 .. Top :
    /\ s_elembuf # None /\ left =< highest[s_elembuf]
    /\ g_idxmax' = idxmax_note(s_elembuf, m, FALSE)
    /\ highest' = [highest EXCEPT ![s_elembuf] = Larger(m, left)]
    /\ UNCHANGED <<vitaGL, pending, attributes, g_cur_arraybuf, s_elembuf, memory, wrong>>

-----------------------------------------------------------------------------
(* Draws. *)

Draw(n) ==
  [f |-> "draw", want |-> [i \in s_attr_en |-> plain[i]], version |-> memory, verts |-> n]

Client == s_attr_en \cap s_attr_client

(* glq_copy_client_attribs succeeds: every client array can be sized. *)
Copyable(n) ==
  /\ Client \subseteq Near /\ \A i \in Client : s_attr[i] # None
  /\ n * Cardinality(Client) =< CopyMax

(* The copies are set with no buffer bound, which is then bound again. *)
Unbound(cs) == IF g_cur_arraybuf THEN <<Bind(FALSE)>> \o cs \o <<Bind(TRUE)>> ELSE cs

Copies(n) ==
  Unbound(SetToSeq({[f |-> "pointer", i |-> i, p |-> AtCopy(s_attr[i], n)] : i \in Client}))

Queued(cs) ==
  /\ Q(cs)
  /\ UNCHANGED <<vitaGL, wrong>>

(* The game waits: the queue empties and the draw runs. *)
Waited(d) ==
  LET gl == After[Len(pending)]
      late == {i \in DOMAIN pending : /\ pending[i].f = "draw"
                                      /\ ~ReadsTrue(After[i - 1], pending[i])} IN
  /\ vitaGL' = gl /\ pending' = <<>>
  /\ wrong' = wrong \cup (IF late # {} THEN {"queued"} ELSE {})
                    \cup (IF ReadsTrue(gl, d) THEN {} ELSE {"waited"})

(* The copies are sized by a bound on what the draw uses, n vertices. *)
DrawClient(n, bound) ==
  IF Copyable(bound) THEN Queued(Append(Copies(bound), Draw(n))) ELSE Waited(Draw(n))

drawing == <<attributes, buffers, memory>>

glDrawArrays_t ==
  \E n \in 1 .. Top + 1 :
    /\ s_attr_en # {}
    /\ IF Client # {} THEN DrawClient(n, n) ELSE Queued(<<Draw(n)>>)
    /\ UNCHANGED drawing

(* Indices in the game's memory are looked through and copied; those in a  *)
(* buffer are bounded by its figure, if they are 16-bit ones.              *)
glDrawElements_t ==
  /\ s_attr_en # {}
  /\ \/ \E n \in 1 .. Top + 1 :
          /\ s_elembuf = None
          /\ IF Client # {} THEN DrawClient(n, n) ELSE Queued(<<Draw(n)>>)
     \/ \E short \in BOOLEAN :
          /\ s_elembuf # None /\ highest[s_elembuf] >= 0
          /\ LET n == highest[s_elembuf] + 1 IN
             IF Client = {} THEN Queued(<<Draw(n)>>)
             ELSE IF short /\ Slotted(s_elembuf) THEN DrawClient(n, g_idxmax[s_elembuf] + 1)
             ELSE Waited(Draw(n))
  /\ UNCHANGED drawing

-----------------------------------------------------------------------------
Next ==
  \/ Render \/ Write
  \/ EnableArray_q \/ glVertexAttribPointer_e \/ glBindBuffer_e
  \/ glBufferData_e \/ glBufferSubData_q
  \/ glDrawArrays_t \/ glDrawElements_t

Spec == Init /\ [][Next]_vars

-----------------------------------------------------------------------------
(* A draw that is queued reads the vertices the game's arrays held when it *)
(* was made, as many as its indices reach, whatever the game writes to     *)
(* them before it runs (gl_patch.c:506-512, 161-165).                      *)
QueuedDrawsExact == "queued" \notin wrong

(* A draw the game waits for reads them too: the shadow keeps the game's   *)
(* own pointer, so that a later client draw re-points (gl_patch.c:511-512).*)
(* The code breaks it: only a draw that copies re-points.                  *)
WaitedDrawsExact == "waited" \notin wrong
=============================================================================
