---------------------------- MODULE MCInterviews ----------------------------
(* Instances of Interviews for TLC: a bounded set of requests, each served *)
(* once.  The scores submitted lie below, on and above every scale.        *)
EXTENDS Interviews, TLC

Marks == {-1, 0, 4, 6}

Interchangeable == Permutations(InterviewRequest) \cup Permutations(CatalogRequest)

=============================================================================
