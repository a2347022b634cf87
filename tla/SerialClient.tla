---------------------------- MODULE SerialClient ----------------------------
(***************************************************************************)
(* What the callers of an FTP adapter may rely on, without queues, a loop, *)
(* priorities, a socket or a keepalive timer: the server does one thing at *)
(* a time, and whatever it does, it does after every change that had been  *)
(* asked for before; nothing that was answered is done once more; and the  *)
(* server does not rest between two operations while another one waits.    *)
(***************************************************************************)
CONSTANT Op     \* operations

VARIABLES
    waiting,    \* operations asked for
    serving,    \* the operation the server is doing, if any
    ended,      \* operations that were answered, or turned away
    changes,    \* the operations that change files
    behind      \* of each operation: the changes it must not overtake

clientVars == <<waiting, serving, ended, changes, behind>>

Init ==
    /\ waiting = {}
    /\ serving = {}
    /\ ended = {}
    /\ changes = {}
    /\ behind = [o \in Op |-> {}]

\* A caller asks for o, which may be a change.
Ask(o, isChange) ==
    /\ o \notin waiting \cup serving \cup ended
    /\ changes' = IF isChange THEN changes \cup {o} ELSE changes
    /\ behind' = [behind EXCEPT ![o] = (waiting \cup serving) \cap changes]
    /\ \/ waiting' = waiting \cup {o} /\ UNCHANGED ended
       \/ ended' = ended \cup {o} /\ UNCHANGED waiting
    /\ UNCHANGED serving

\* Of those that wait, the one that is served next; any that may be.
Follow(done) ==
    \E o \in waiting :
        /\ behind[o] \subseteq done
        /\ serving' = {o}
        /\ waiting' = waiting \ {o}

Start ==
    /\ serving = {}
    /\ Follow(ended)
    /\ UNCHANGED <<ended, changes, behind>>

\* The operation is answered, and the next one follows at once.
Answer(o) ==
    /\ serving = {o}
    /\ ended' = ended \cup {o}
    /\ \/ Follow(ended \cup {o})
       \/ waiting = {} /\ serving' = {} /\ UNCHANGED waiting
    /\ UNCHANGED <<changes, behind>>

\* Whatever waits is turned away.
Close ==
    /\ waiting' = {}
    /\ ended' = ended \cup waiting
    /\ UNCHANGED <<serving, changes, behind>>

Next ==
    \/ \E o \in Op : Answer(o) \/ \E isChange \in BOOLEAN : Ask(o, isChange)
    \/ Start
    \/ Close

Spec == Init /\ [][Next]_clientVars

-----------------------------------------------------------------------------
(* What follows from it *)

\* An operation is in one place at a time, one at most is with the server, and
\* whatever is or was served came after the changes it was asked behind.
Ordered ==
    /\ waiting \cup serving \cup ended \cup changes \subseteq Op
    /\ behind \in [Op -> SUBSET Op]
    /\ waiting \cap serving = {} /\ waiting \cap ended = {} /\ serving \cap ended = {}
    /\ \A a, b \in serving : a = b
    /\ \A o \in serving : behind[o] \subseteq ended

\* What was answered stays answered: no operation is done twice, and no change
\* that was turned away is made later.
Once == [][ended \subseteq ended' /\ serving' \cap ended = {}]_clientVars
=============================================================================
