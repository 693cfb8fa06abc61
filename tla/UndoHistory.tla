---------------------------- MODULE UndoHistory -----------------------------
(***************************************************************************)
(* What the editor promises of undo: each undo leads back to the text and  *)
(* the cursor there were before the last key that changed one of them and  *)
(* has not been undone, and the oldest keys may be forgotten.  The promise *)
(* ends when a block copy stops at the limit, which leaves the marks       *)
(* behind the end of the text.                                             *)
(***************************************************************************)
EXTENDS Integers, Sequences, SequencesExt

VARIABLES text, pos,  \* the text, and the cursor in it
          past,       \* what undo can lead back to, the latest last
          last,       \* what the user did last: "key" or "undo"
          cut         \* a block copy stopped at the limit

vars == <<text, pos, past, last, cut>>

Init == pos = 0 /\ past = <<>> /\ last = "key" /\ cut = FALSE

Edit ==
  /\ last' = "key"
  /\ <<text', pos'>> # <<text, pos>>
  /\ IsSuffix(past', Append(past, <<text, pos>>))

Undo ==
  /\ past # <<>>
  /\ last' = "undo"
  /\ <<text', pos'>> = past[Len(past)] /\ past' = Front(past)

(* A key or an undo without effect on text and cursor.                     *)
Nothing == UNCHANGED <<text, pos>> /\ last' \in {"key", "undo"} /\ IsSuffix(past', past)

Next == (cut => cut') /\ (cut' \/ Edit \/ Undo \/ Nothing)

Spec == Init /\ [][Next]_vars
=============================================================================
