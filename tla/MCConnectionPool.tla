-------------------------- MODULE MCConnectionPool --------------------------
(* Small instances of ConnectionPool. *)
EXTENDS ConnectionPool, TLC

CONSTANTS u1, u2, c1, c2, c3

TwoUsers == {u1, u2}
ThreeConns == {c1, c2, c3}
Symmetric == Permutations(TwoUsers) \cup Permutations(ThreeConns)

Everything == AllCalls
=============================================================================
