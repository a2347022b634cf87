------------------------ MODULE MCFileSystemProvider ------------------------
(* Instances of FileSystemProvider for TLC. *)
EXTENDS FileSystemProvider, TLC

Symmetry == Permutations(Call) \cup Permutations(Mutation)
            \cup Permutations(Tick)
=============================================================================
