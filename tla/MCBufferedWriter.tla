-------------------------- MODULE MCBufferedWriter --------------------------
(* Small instances of BufferedWriter for TLC. *)
EXTENDS BufferedWriter, TLC

CONSTANTS w1, w2

AllFaults == FaultKinds
NoFaults == {}

\* No upload registers its object twice and no file is left.
FinalFaults == FaultKinds \ {"upload", "remove"}

Workers1 == {w1}
Workers2 == {w1, w2}
WorkerSymmetry == Permutations(Workers2)
=============================================================================
