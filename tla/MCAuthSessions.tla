--------------------------- MODULE MCAuthSessions --------------------------
(* The sessions of the auth service on a small instance.                   *)
EXTENDS AuthSessions, TLC

CONSTANTS A, B, e1, q1, q2

Symmetry == Permutations(Replicas) \cup Permutations(Requests)

=============================================================================
