--------------------------- MODULE MCAuthService ----------------------------
(* Instances of AuthService for TLC: a bounded set of requests, each       *)
(* served once, and a clock of a few ticks.                                *)
EXTENDS AuthService, TLC

RequestSymmetry == Permutations(AuthRequest)

=============================================================================
