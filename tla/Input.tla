-------------------------------- MODULE Input --------------------------------
(***************************************************************************)
(* What the player does, as the game gets to know it: the front panel,     *)
(* read once a frame and turned into finger events                         *)
(* (loader/input_patch.c), and the sticks, whose events pass a filter for  *)
(* pads that flicker and are sent again after a menu has closed            *)
(* (loader/sdl_patch.c).                                                   *)
(*                                                                         *)
(* All of it runs on the game's thread, between whose calls the pad and    *)
(* the panel change and time passes.  An axis is at rest or pushed to one  *)
(* side.  Times are kept as to which of them have come: a stick event was  *)
(* held back long enough, a re-sync is due.  A finger event also says      *)
(* which finger it came from, which the game cannot see.                   *)
(***************************************************************************)
EXTENDS Integers, Sequences, SequencesExt, FiniteSetsExt

CONSTANTS
  Axes,      \* the sticks' axes
  Fingers,
  QMax,      \* bound on SDL's queue: it is never full (its own limit is 65535)
  MaxPad, MaxFrames  \* bounds on what the pad does and on the frames

Nobody == "nobody"
Rest == 0
Pushes == {-1, 1}
Times == {1, 2}    \* RESYNC_FIRST_MS and RESYNC_SECOND_MS

VARIABLES
  axis,              \* each axis as SDL knows it
  queue,             \* SDL's events
  s_finger_down, s_finger_id, s_wait_clear,
  last, pending,     \* g_stick: the last value that passed, and a centre held back
  g_resync_at,       \* each of the two: off, set or due
  g_resync_axis,     \* the axes still to be sent again, or none when idle
  g_axis_joy,        \* the pad is known, from a first event of an axis
  pc,                \* the game is in SDL_PollEvent_hook's loop
  menu, toggling,    \* the game has a menu up; it is about to open or close it
  move, held,        \* where it believes the sticks are, and which finger is down
  torn,              \* history: a finger event that does not fit the ones before
  done, frames       \* what the pad did, and the frames

finger == <<s_finger_down, s_finger_id, s_wait_clear>>
stick == <<last, pending>>
resync == <<g_resync_at, g_resync_axis, g_axis_joy>>
game == <<menu, toggling, move, held, torn>>
bounds == <<done, frames>>
vars == <<axis, queue, finger, stick, resync, pc, game, bounds>>

NoCentre == "none"     \* pending: none, held back, or held back long enough

Init ==
  /\ axis = [a \in Axes |-> Rest]
  /\ queue = <<>>
  /\ s_finger_down = FALSE /\ s_finger_id = Nobody /\ s_wait_clear = FALSE
  /\ last = [a \in Axes |-> Rest] /\ pending = [a \in Axes |-> NoCentre]
  /\ g_resync_at = [i \in Times |-> "off"] /\ g_resync_axis = {} /\ g_axis_joy = FALSE
  /\ pc = "idle"
  /\ menu = FALSE /\ toggling = FALSE /\ move = [a \in Axes |-> Rest] /\ held = Nobody /\ torn = FALSE
  /\ done = 0 /\ frames = 0

-----------------------------------------------------------------------------
(* The player, and SDL, which makes events of what the pad does.           *)

Axis(a, v) == [type |-> "axis", of |-> a, value |-> v]
Finger(type, f) == [type |-> type, of |-> f, value |-> Rest]
Button == [type |-> "button", of |-> Nobody, value |-> Rest]

Push(e) == Len(queue) < QMax /\ queue' = Append(queue, e)

StickMoves(a, v) ==
  /\ done < MaxPad /\ done' = done + 1
  /\ axis[a] # v /\ axis' = [axis EXCEPT ![a] = v]
  /\ Push(Axis(a, v))
  /\ UNCHANGED <<finger, stick, resync, pc, game, frames>>

ButtonUp ==
  /\ done < MaxPad /\ done' = done + 1
  /\ Push(Button)
  /\ UNCHANGED <<axis, finger, stick, resync, pc, game, frames>>

-----------------------------------------------------------------------------
(* input_touch_pump, once a frame.                                         *)

Lifts ==
  IF s_finger_down
  THEN Push(Finger("up", s_finger_id)) /\ s_finger_down' = FALSE
  ELSE UNCHANGED <<queue, s_finger_down>>

\* The reports of the front panel, in its order.
Panels == {p \in SeqOf(Fingers, Cardinality(Fingers)) : IsInjective(p)}

\* The report that counts: the followed finger's, or with none followed the first.
Followed_first(p) == {p[i] : i \in DOMAIN p \cap {1}}
Followed(p) ==
  IF s_finger_down THEN {s_finger_id} \cap ToSet(p)
  ELSE IF s_wait_clear THEN {} ELSE {p[i] : i \in DOMAIN p \cap {1}}

\* While the keyboard is up the panel is its own.
input_touch_pump ==
  /\ pc = "idle" /\ frames < MaxFrames /\ frames' = frames + 1
  /\ \/ Lifts /\ UNCHANGED <<s_finger_id, s_wait_clear>>    \* ime_dialog_active
     \/ \E p \in Panels :
          /\ s_wait_clear' = (p # <<>> /\ (s_wait_clear \/ (s_finger_down /\ Followed(p) = {})))
          /\ \/ \E f \in Followed(p) :
                  /\ Push(Finger(IF s_finger_down THEN "motion" ELSE "down", f))
                  /\ s_finger_id' = f /\ s_finger_down' = TRUE
             \/ Followed(p) = {} /\ Lifts /\ UNCHANGED s_finger_id
  /\ UNCHANGED <<axis, stick, resync, pc, game, done>>

-----------------------------------------------------------------------------
(* SDL_PollEvent_hook.                                                     *)

\* The game gets e.  While a menu is up it is the menu that gets the sticks.
Delivers(e) ==
  /\ move' = (IF e.type = "axis" /\ ~menu THEN [move EXCEPT ![e.of] = e.value] ELSE move)
  /\ toggling' = (toggling \/ e.type \in {"button", "up"})
  /\ held' = (CASE e.type \in {"down", "motion"} -> e.of [] e.type = "up" -> Nobody [] OTHER -> held)
  /\ torn' = (torn \/ (e.type = "down" /\ held # Nobody) \/ (e.type \in {"motion", "up"} /\ held # e.of))
  /\ UNCHANGED menu

\* The first event of an axis names the pad; a button's or a finger's release schedules.
resync_note(e) ==
  /\ g_axis_joy' = (g_axis_joy \/ e.type = "axis")
  /\ g_resync_at' = (IF e.type \in {"button", "up"} THEN [i \in Times |-> "set"] ELSE g_resync_at)

Due == \E i \in Times : g_resync_at[i] = "due"
NotDue == [i \in Times |-> IF g_resync_at[i] = "due" THEN "off" ELSE g_resync_at[i]]

\* The axes a re-sync has still to send: those the filter holds are left to it.
Turn == IF g_resync_axis # {} THEN g_resync_axis ELSE IF Due THEN Axes ELSE {}
Sendable == {a \in Turn : g_axis_joy /\ pending[a] = NoCentre}

resync_next ==
  /\ pc = "idle" /\ Sendable # {}
  /\ LET a == Min(Sendable)
     IN  /\ g_resync_axis' = {b \in Turn : b > a}
         /\ Delivers(Axis(a, axis[a]))
         /\ last' = [last EXCEPT ![a] = axis[a]]
  /\ g_resync_at' = (IF g_resync_axis = {} THEN NotDue ELSE g_resync_at)
  /\ UNCHANGED <<axis, queue, finger, pending, g_axis_joy, pc, bounds>>

Expired == {a \in Axes : pending[a] = "expired"}

\* No re-sync, or the end of one: a held-back centre goes through, or the queue is read.
Polls ==
  /\ pc = "idle" /\ Sendable = {}
  /\ g_resync_axis' = {}
  /\ g_resync_at' = (IF g_resync_axis = {} THEN NotDue ELSE g_resync_at)
  /\ \/ \E a \in Expired :
          /\ Delivers(Axis(a, Rest))
          /\ pending' = [pending EXCEPT ![a] = NoCentre] /\ last' = [last EXCEPT ![a] = Rest]
          /\ UNCHANGED pc
     \/ Expired = {} /\ queue # <<>> /\ pc' = "loop" /\ UNCHANGED <<stick, game>>
  /\ UNCHANGED <<axis, queue, finger, g_axis_joy, bounds>>

Swallows(e) ==
  e.type = "axis" /\ e.value = Rest /\ (pending[e.of] # NoCentre \/ last[e.of] # Rest)

stick_filter_keepsCentre(e) ==
  /\ pending' = pending
  /\ last' = (IF e.type = "axis" THEN [last EXCEPT ![e.of] = e.value] ELSE last)
\* An event that passes: had a centre been held back, it was a flicker.
stick_filter(e) ==
  /\ pending' = (IF e.type = "axis" THEN [pending EXCEPT ![e.of] = NoCentre] ELSE pending)
  /\ last' = (IF e.type = "axis" THEN [last EXCEPT ![e.of] = e.value] ELSE last)

SDL_PollEvent ==
  /\ pc = "loop"
  /\ IF queue = <<>> THEN pc' = "idle" /\ UNCHANGED <<queue, stick, g_resync_at, g_axis_joy, game>>
     ELSE LET e == Head(queue)
          IN  /\ queue' = Tail(queue)
              /\ \/ /\ Swallows(e)
                    /\ pending' = [pending EXCEPT ![e.of] = IF @ = NoCentre THEN "held" ELSE @]
                    /\ UNCHANGED <<last, pc, g_resync_at, g_axis_joy, game>>
                 \/ /\ ~Swallows(e)
                    /\ stick_filter(e) /\ resync_note(e) /\ Delivers(e) /\ pc' = "idle"
  /\ UNCHANGED <<axis, finger, g_resync_axis, bounds>>

\* SDL_PeepEvents_hook, as the game takes what is not a stick's event with it.
SDL_PeepEvents ==
  /\ pc = "idle" /\ queue # <<>> /\ Head(queue).type # "axis"
  /\ queue' = Tail(queue)
  /\ resync_note(Head(queue)) /\ Delivers(Head(queue))
  /\ UNCHANGED <<axis, finger, stick, g_resync_axis, pc, bounds>>

-----------------------------------------------------------------------------
(* The game, and time.                                                     *)

\* A release opened or closed a menu, or did something else.
MenuToggles ==
  /\ pc = "idle" /\ toggling /\ toggling' = FALSE
  /\ menu' \in BOOLEAN
  /\ UNCHANGED <<axis, queue, finger, stick, resync, pc, move, held, torn, bounds>>

\* STICK_HOLD_MS have passed.
HoldPasses(a) ==
  /\ pending[a] = "held" /\ pending' = [pending EXCEPT ![a] = "expired"]
  /\ UNCHANGED <<axis, queue, finger, last, resync, pc, game, bounds>>

\* The second re-sync is late enough for the menu to have closed.
ResyncComes(i) ==
  /\ g_resync_at[i] = "set" /\ (i = 2 => g_resync_at[1] # "set" /\ ~toggling)
  /\ g_resync_at' = [g_resync_at EXCEPT ![i] = "due"]
  /\ UNCHANGED <<axis, queue, finger, stick, g_resync_axis, g_axis_joy, pc, game, bounds>>

-----------------------------------------------------------------------------

Plays == (\E a \in Axes, v \in Pushes \cup {Rest} : StickMoves(a, v)) \/ ButtonUp
Reads == resync_next \/ Polls \/ SDL_PollEvent
Passes == (\E a \in Axes : HoldPasses(a)) \/ \E i \in Times : ResyncComes(i)

Next == Plays \/ input_touch_pump \/ Reads \/ SDL_PeepEvents \/ MenuToggles \/ Passes

Spec == Init /\ [][Next]_vars

-----------------------------------------------------------------------------

\* The game sees one finger at a time, from its landing to its release, whichever
\* fingers land and leave and whenever the keyboard comes up (input_patch.c:213-220).
OneFingerAtATime == ~torn

\* Once no menu is up any more, the game ends up with the sticks where they are: whatever
\* the menu kept from it, the filter held back or flickered (sdl_patch.c:386-399).
SticksCatchUp ==
  <>[]~menu => <>[](move = axis)
=============================================================================
