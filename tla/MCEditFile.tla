----------------------------- MODULE MCEditFile -----------------------------
(* Two editors of one file, or one editor of two.                          *)
EXTENDS EditFile, TLC

CONSTANTS ann, bob, fa, fb

(* The editors are alike, as long as all of them or none may be killed.    *)
Alike == Permutations(Editors)
=============================================================================
