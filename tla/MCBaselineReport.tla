-------------------------- MODULE MCBaselineReport --------------------------
(* BaselineReport on two cases of one cohort, with paths of different length. *)
EXTENDS BaselineReport

MCJudgedAs == [c \in Cases |-> "success"]
MCGroup == [c \in Cases |-> "group"]
MCPathLength == [c \in Cases |-> 5 - c]
=============================================================================
