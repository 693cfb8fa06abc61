----------------------------- MODULE UndoStack ------------------------------
(***************************************************************************)
(* The undo stack of the editor (src/editor/edit.c): a ring of integers in *)
(* which equal pushes are one entry and a negative count, a move to the    *)
(* left and one to the right cancel each other, and the oldest key presses *)
(* give way when the ring is full.                                         *)
(***************************************************************************)
EXTENDS Integers, FiniteSets

CONSTANTS START_STACK_SIZE,   \* a power of two; 32 in the code
          MaxUndo,            \* option_max_undo; at least 256 in the code
          Slack               \* free entries that are too few; 10 in the code

ASSUME UndoStackAssumption ==
  /\ Slack \in Nat /\ Slack > 4     \* a ring that may grow is never crowded
  /\ START_STACK_SIZE \in Nat /\ START_STACK_SIZE > Slack /\ MaxUndo \in Nat

CURS_LEFT == 601
CURS_RIGHT == 602
DELCHAR == 603
BACKSPACE == 604
STACK_BOTTOM == 605
MARK_1 == 1000
MARK_2 == 700000000
KEY_PRESS == 1400000000

Opposite(c, d) == {c, d} = {CURS_LEFT, CURS_RIGHT}

(* Entries that are not on the stack are never read: the model keeps them  *)
(* at 0.                                                                   *)
EmptyStack(size) ==
  [undo_stack |-> [i \in 0 .. size - 1 |-> 0], stack_pointer |-> 0,
   stack_bottom |-> 0, stack_size |-> size]

Entry(u, i) == u.undo_stack[i % u.stack_size]
Depth(u) == (u.stack_pointer - u.stack_bottom) % u.stack_size
OnStack(u) == {(u.stack_bottom + k) % u.stack_size : k \in 0 .. Depth(u) - 1}
KeyPresses(u) == Cardinality({i \in OnStack(u) : u.undo_stack[i] >= KEY_PRESS})

Cleared(u) ==
  [u EXCEPT !.undo_stack = [i \in DOMAIN @ |-> IF i \in OnStack(u) THEN @[i] ELSE 0]]

(* The ring doubles while that is allowed; it has not wrapped by then.     *)
Grown(u) ==
  IF u.stack_pointer > u.stack_size - Slack /\ u.stack_size < MaxUndo
  THEN [u EXCEPT !.stack_size = 2 * @,
                 !.undo_stack = [i \in 0 .. 2 * u.stack_size - 1 |->
                                   IF i \in DOMAIN @ THEN @[i] ELSE 0]]
  ELSE u

(* A full ring loses its oldest key presses; one key press that fills the  *)
(* ring by itself empties it.                                              *)
Crowded(u) ==
  \E k \in {2, 3} : (u.stack_pointer + k) % u.stack_size = u.stack_bottom

NextKeyPress(u) ==
  LET Stops(k) == \/ Entry(u, u.stack_bottom + k) >= KEY_PRESS
                  \/ (u.stack_bottom + k) % u.stack_size = u.stack_pointer
      steps == CHOOSE k \in 1 .. u.stack_size :
                 Stops(k) /\ \A l \in 1 .. k - 1 : ~Stops(l)
  IN (u.stack_bottom + steps) % u.stack_size

BottomRaised(u) ==
  IF Crowded(u) THEN [u EXCEPT !.stack_bottom = NextKeyPress(u)] ELSE u
BottomIsKeyPress(u) ==
  Cleared(IF u.stack_pointer # u.stack_bottom /\ Entry(u, u.stack_bottom) < KEY_PRESS
          THEN [u EXCEPT !.stack_pointer = 0, !.stack_bottom = 0]
          ELSE u)

PushEntry(u, c) ==
  BottomIsKeyPress(BottomRaised([u EXCEPT !.undo_stack[u.stack_pointer] = c,
                        !.stack_pointer = (@ + 1) % u.stack_size]))

SetCount(u, n) ==
  [u EXCEPT !.undo_stack[(u.stack_pointer - 1) % u.stack_size] = n]
DropEntry(u) ==
  Cleared([u EXCEPT !.stack_pointer = (@ - 1) % u.stack_size])

(* edit_push_action, of a stack that has grown.  Entries next to the bottom are left alone.           *)
Deep(u) == \A k \in 0 .. 2 : (u.stack_pointer - k) % u.stack_size # u.stack_bottom
Counts(u) == Deep(u) /\ Entry(u, u.stack_pointer - 1) < 0
LastPush(u) ==    \* what the topmost entries stand for
  IF Counts(u) THEN Entry(u, u.stack_pointer - 2) ELSE Entry(u, u.stack_pointer - 1)
Again(u, c) == Deep(u) /\ LastPush(u) = c
Cancels(u, c) == Deep(u) /\ Opposite(c, LastPush(u))

(* Mistake: an opposite move takes a counted entry off as a whole.         *)
PushActionCancelsAll(u, c) ==
  LET n == Entry(u, u.stack_pointer - 1)
  IN CASE Again(u, c) /\ c >= KEY_PRESS     -> u
       [] Again(u, c) /\ c < KEY_PRESS      -> IF Counts(u) THEN SetCount(u, n - 1)
                                                           ELSE PushEntry(u, -2)
       [] Cancels(u, c)                     -> DropEntry(u)
       [] ~Again(u, c) /\ ~Cancels(u, c)    -> PushEntry(u, c)

PushAction(u, c) ==
  LET n == Entry(u, u.stack_pointer - 1)
  IN CASE Again(u, c) /\ c >= KEY_PRESS     -> u
       [] Again(u, c) /\ c < KEY_PRESS      -> IF Counts(u) THEN SetCount(u, n - 1)
                                                           ELSE PushEntry(u, -2)
       [] Cancels(u, c)                     -> IF Counts(u) /\ n # -2
                                               THEN SetCount(u, n + 1) ELSE DropEntry(u)
       [] ~Again(u, c) /\ ~Cancels(u, c)    -> PushEntry(u, c)

(* pop_action: the action, and the stack without it.                       *)
PopAction(u) ==
  LET n == Entry(u, u.stack_pointer - 1)
      Nothing == [action |-> STACK_BOTTOM, stack |-> u]
  IN IF Depth(u) = 0 \/ (n < 0 /\ Depth(u) = 1) THEN Nothing
     ELSE IF n >= 0 THEN [action |-> n, stack |-> DropEntry(u)]
     ELSE [action |-> Entry(u, u.stack_pointer - 2),
           stack |-> IF n = -2 THEN DropEntry(u) ELSE SetCount(u, n + 1)]

=============================================================================
