-------------------------- MODULE MCConnectionPool --------------------------
(* Instances of ConnectionPool for TLC. *)
EXTENDS ConnectionPool, TLC

\* Calls are interchangeable; so are connections of one protocol.
CallSymmetry == Permutations(Call)
Symmetry == Permutations(Call) \cup Permutations(Conn)
=============================================================================
