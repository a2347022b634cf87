------------------------------ MODULE MCServices ------------------------------
(***************************************************************************)
(* What the parts of Services work on, for TLC.                            *)
(***************************************************************************)
EXTENDS Services, TLC

CONSTANTS root, doc, c1, f1, f2

MCParentOf == [p \in {root, doc} |-> root]

\* Two daily backups are kept.
MCKeep == [daily |-> 2, weekly |-> 1, manual |-> 1]

\* Stores of a connection and two folders that may be one another's parent.
Stores(data) ==
    {[conn   |-> (c1 :> c),
      folder |-> (f1 :> f @@ f2 :> g),
      dead   |-> (c1 :> x[1] @@ f1 :> x[2] @@ f2 :> 0),
      secret |-> (c1 :> IF c = None THEN None ELSE data)] :
        c \in {None} \cup [at : 1 .. 2, in : {f1}, data : {data}],
        f \in {None} \cup [at : 1 .. 2, in : {None, f2}],
        g \in {None} \cup [at : {1}, in : {None, f1}],
        x \in {<<0, 0>>, <<2, 0>>, <<0, 2>>}}

\* Places and callers of RemoteFiles are interchangeable, and the windows of
\* BackupService.
Symmetry == Permutations(Place) \cup Permutations(Caller) \cup Permutations(Window)

MCMine == Stores("l")
MCTheirs == Stores("r")
===============================================================================
