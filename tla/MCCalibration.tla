--------------------------- MODULE MCCalibration ---------------------------
(* One bug and one case without, two commands that may overlap. *)
EXTENDS Calibration, TLC

Interchangeable == Permutations(Processes)
=============================================================================
