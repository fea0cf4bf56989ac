--------------------------- MODULE MCImagePublish ---------------------------
(* Small instances of ImagePublish for TLC. *)
EXTENDS ImagePublish, TLC

CONSTANTS t1, t2

OneTool == {t1}
TwoTools == {t1, t2}
ToolSymmetry == Permutations(TwoTools)
Undated == {FALSE}
MaybeDated == BOOLEAN
=============================================================================
