------------------------------ MODULE MCSessions ------------------------------
\* Connections and commands are interchangeable.
EXTENDS Sessions, TLC

Symmetry == Permutations(Conn) \cup Permutations(Command)
=============================================================================
