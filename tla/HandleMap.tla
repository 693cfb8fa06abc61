----------------------------- MODULE HandleMap -----------------------------
(***************************************************************************)
(* What the table of open files of lib/vfs/mc-vfs/vfs.c promises to the    *)
(* rest of mc: a handle names the file it was returned for, from the open  *)
(* that returned it to the close that takes it back, whatever else is      *)
(* opened and closed in between.  No slot, link or free list appears here. *)
(***************************************************************************)
CONSTANTS File,      \* what a handle can stand for: a class and its data
          Handles    \* the numbers handles are taken from

VARIABLE files       \* the open handles, and the file of each

Init == files = [h \in {} |-> 0]

(* A handle that nobody holds is given to the new file.                    *)
Open(h, f) ==
  /\ h \notin DOMAIN files
  /\ files' = [k \in DOMAIN files \cup {h} |-> IF k = h THEN f ELSE files[k]]

Close(h) ==
  /\ h \in DOMAIN files
  /\ files' = [k \in DOMAIN files \ {h} |-> files[k]]

Next == \/ \E h \in Handles, f \in File : Open(h, f)
        \/ \E h \in DOMAIN files : Close(h)

Spec == Init /\ [][Next]_files
=============================================================================
