--------------------------- MODULE LastWriterWins ---------------------------
(***************************************************************************)
(* What the synchronisation of connections promises, without devices'      *)
(* files, the cloud or tombstones: of each item a device knows the stamp   *)
(* of some change, edits and deletions alike, and what it knows is only    *)
(* ever replaced by a newer change that somebody made. A torn device,      *)
(* which has misread what it was writing, may go back to an older one.     *)
(***************************************************************************)
EXTENDS Naturals

CONSTANTS
    Device, Item,
    Time     \* of changes

VARIABLES
    known,   \* of each device and item: the stamp of the change it has
    made,    \* of each item: the stamps of the changes made so far
    torn     \* the torn devices

Init ==
    /\ known = [d \in Device |-> [i \in Item |-> 0]]
    /\ made = [i \in Item |-> {0}]
    /\ torn = {}

\* Of item i device d hears of nothing, or of a newer change.
Heard(d, i) ==
    known'[d][i] \in made[i] /\ (d \in torn \/ known'[d][i] >= known[d][i])

OnlyAt(d) ==
    /\ known' \in [Device -> [Item -> Time \cup {0}]]
    /\ \A e \in Device \ {d} : known'[e] = known[e]

\* Device d hears of changes, its own and those of others.
Learn(d) ==
    /\ OnlyAt(d)
    /\ \A i \in Item : Heard(d, i)
    /\ UNCHANGED <<made, torn>>

\* Device d changes items at time t, not before any change it knows of them.
Change(d, items, t) ==
    /\ \A i \in items : d \in torn \/ t >= known[d][i]
    /\ made' = [i \in Item |-> IF i \in items THEN made[i] \cup {t} ELSE made[i]]
    /\ UNCHANGED <<known, torn>>

\* Device d misreads what it is writing, or has read it again.
Tear(d) ==
    /\ \/ torn' = torn \cup {d}
       \/ torn' = torn \ {d}
    /\ UNCHANGED <<known, made>>

Next ==
    \E d \in Device :
        \/ \E items \in SUBSET Item, t \in Time : Change(d, items, t)
        \/ Learn(d)
        \/ Tear(d)

Spec == Init /\ [][Next]_<<known, made, torn>>
=============================================================================
