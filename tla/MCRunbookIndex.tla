---------------------------- MODULE MCRunbookIndex ----------------------------
(* Two runbooks of two or three chunks; the proportions of chunk, overlap  *)
(* and ids are small, and there are two ids for a file.                    *)
EXTENDS RunbookIndex

MCFiles == <<"pod-crashloop.md", "high-cpu-scaling.md">>

(* A text of three chunks, more than there are ids for; one with a blank   *)
(* window; and one that is all in two chunks.                              *)
MCTexts == {[length |-> 6, ink |-> 0..5], [length |-> 6, ink |-> {0, 5}],
            [length |-> 4, ink |-> 0..3]}
=============================================================================
