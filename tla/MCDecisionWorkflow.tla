------------------------- MODULE MCDecisionWorkflow -------------------------
(* Instances of DecisionWorkflow for TLC: a bounded set of clicks, each    *)
(* made once, on the interviews of one candidate.                          *)
EXTENDS DecisionWorkflow, TLC

CONSTANT Anna  \* the candidate

OneCandidate == [i \in Interview |-> Anna]
AllAdmins == [c \in Client |-> "Admin"]
AllHR == [c \in Client |-> "HR"]
AllDecisionMakers == [c \in Client |-> "DecisionMaker"]

Interchangeable == Permutations(Interview) \cup Permutations(Click)

=============================================================================
