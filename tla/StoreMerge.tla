----------------------------- MODULE StoreMerge -----------------------------
(***************************************************************************)
(* _mergeStores of src/services/connectionManager.ts: two stores of        *)
(* connections and folders become one.  The newer record wins, a tombstone *)
(* beats a record that is older than it, what refers to a folder that is   *)
(* gone moves to the root, and a cycle of folders is cut.                  *)
(***************************************************************************)
EXTENDS Naturals, Sequences, FiniteSets, Functions

CONSTANTS
    Conn,     \* ids of connections
    Folder,   \* ids of folders
    None      \* no record, no folder, no secret

Item == Conn \cup Folder

\* A store: the record of each item or None, with the time of its last edit;
\* the newest tombstone of each item, 0 for none; the bundled secrets.
Store(Stamp, Data) ==
    [conn   : [Conn -> [at : Stamp, in : Folder \cup {None}, data : Data]
                       \cup {None}],
     folder : [Folder -> [at : Stamp, in : Folder \cup {None}] \cup {None}],
     dead   : [Item -> Stamp],
     secret : [Conn -> Data \cup {None}]]

-----------------------------------------------------------------------------
\* On a tie the local record wins.
LocalWins(l, r) == l # None /\ (r = None \/ l.at >= r.at)

Newer(l, r) == IF LocalWins(l, r) THEN l ELSE r

\* The union of the tombstones, the latest of each item.
Deaths(l, r) ==
    [i \in Item |-> IF l.dead[i] >= r.dead[i] THEN l.dead[i] ELSE r.dead[i]]

\* Variant for sensitivity: tombstones are not looked at.
SurvivesAlways(record, death) == record # None

\* A deletion counts if it is later than the last edit.
Survives(record, death) == record # None /\ ~(death > record.at)

\* A reference to a folder that did not survive becomes the root.
Reroot(record, folders) ==
    IF record # None /\ record.in \notin folders
    THEN [record EXCEPT !.in = None] ELSE record

\* The walk from f towards the root comes back to a folder it has seen.
Loops(folders, f) ==
    LET n == Cardinality(Folder)
        up[i \in 0 .. n] ==
            IF i = 0 THEN f
            ELSE IF up[i - 1] = None \/ folders[up[i - 1]] = None THEN None
            ELSE folders[up[i - 1]].in
    IN  up[n] # None

\* Variant for sensitivity: only a folder that is its own parent is noticed.
CutSelfLoops(folders, order) ==
    [f \in Folder |-> IF folders[f] # None /\ folders[f].in = f
                      THEN [folders[f] EXCEPT !.in = None] ELSE folders[f]]

\* One folder after the other, in the order of the merged list, is taken out
\* of the cycle its ancestors lead into.
CutCycles(folders, order) ==
    LET cut[n \in 0 .. Len(order)] ==
            IF n = 0 THEN folders
            ELSE [f \in Folder |->
                    IF f = order[n] /\ cut[n - 1][f] # None /\ Loops(cut[n - 1], f)
                    THEN [cut[n - 1][f] EXCEPT !.in = None] ELSE cut[n - 1][f]]
    IN  cut[Len(order)]

\* The merged store; tombstones from before the cutoff are dropped, but still
\* count in this merge.
Merge(l, r, order, cutoff) ==
    LET dead == Deaths(l, r)
        Winner(x, y, i) == LET w == Newer(x, y)
                           IN  IF Survives(w, dead[i]) THEN w ELSE None
        folders == [f \in Folder |-> Winner(l.folder[f], r.folder[f], f)]
        alive == {f \in Folder : folders[f] # None}
        conns == [c \in Conn |-> Winner(l.conn[c], r.conn[c], c)]
        From(c) == IF LocalWins(l.conn[c], r.conn[c]) THEN l ELSE r
    IN  [conn   |-> [c \in Conn |-> Reroot(conns[c], alive)],
         folder |-> CutCycles([f \in Folder |-> Reroot(folders[f], alive)], order),
         dead   |-> [i \in Item |-> IF dead[i] >= cutoff THEN dead[i] ELSE 0],
         secret |-> [c \in Conn |-> IF conns[c] = None THEN None
                                    ELSE From(c).secret[c]]]

-----------------------------------------------------------------------------
(* Two devices exchange what they have, twice.                             *)

CONSTANTS Mine, Theirs    \* stores that may meet

VARIABLES mine, theirs, rounds

Init == mine \in Mine /\ theirs \in Theirs /\ rounds = 0

\* Each lists its own folders first.
Exchange ==
    /\ rounds < 2 /\ rounds' = rounds + 1
    /\ \E p, q \in Bijection(1 .. Cardinality(Folder), Folder) :
          mine' = Merge(mine, theirs, p, 0) /\ theirs' = Merge(theirs, mine, q, 0)

Spec == Init /\ [][Exchange]_<<mine, theirs, rounds>>

-----------------------------------------------------------------------------
(* Properties *)

IsForest(s) ==
    /\ \A c \in Conn : s.conn[c] # None =>
          s.conn[c].in = None \/ s.folder[s.conn[c].in] # None
    /\ \A f \in Folder : s.folder[f] # None =>
          /\ s.folder[f].in = None \/ s.folder[s.folder[f].in] # None
          /\ ~Loops(s.folder, f)

\* After a merge every folder that is referred to exists and no folder is its
\* own ancestor, whatever two devices have done to the tree.
Forest == rounds > 0 => IsForest(mine) /\ IsForest(theirs)

At(x) == IF x = None THEN 0 ELSE x.at

\* After one exchange both devices have the same items as of the same edits,
\* none that was deleted after its last edit, and the passwords that belong to
\* the records they kept.
Agree ==
    rounds > 0 =>
        /\ \A c \in Conn :
              /\ At(mine.conn[c]) = At(theirs.conn[c])
              /\ At(mine.conn[c]) > 0 => mine.dead[c] <= mine.conn[c].at
              /\ At(mine.conn[c]) > 0 => mine.secret[c] = mine.conn[c].data
        /\ \A f \in Folder :
              /\ At(mine.folder[f]) = At(theirs.folder[f])
              /\ At(mine.folder[f]) > 0 => mine.dead[f] <= mine.folder[f].at
        /\ mine.dead = theirs.dead
=============================================================================
