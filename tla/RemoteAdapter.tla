---------------------------- MODULE RemoteAdapter ----------------------------
(***************************************************************************)
(* The life of an adapter as the connection pool sees it through the       *)
(* interface RemoteAdapter (adapters/adapter.ts): connect(), disconnect(), *)
(* isConnected() and onDidDisconnect.  An adapter is up once in its life,  *)
(* and its end is told at most once, at once or a microtask later, to      *)
(* whoever listens by then.  Both kinds of adapter implement it.           *)
(***************************************************************************)
EXTENDS Naturals

VARIABLES
    line,    \* not connected yet, isConnected(), or over
    owed,    \* an event is on its way
    told     \* events a listener got

adapterVars == <<line, owed, told>>

Init == line = "fresh" /\ owed = FALSE /\ told = 0

\* connect() comes through.
Connect ==
    /\ line = "fresh"
    /\ line' = "up"
    /\ UNCHANGED <<owed, told>>

\* connect() fails, or the adapter is given up before it came through.
Fail ==
    /\ line = "fresh"
    /\ line' = "over"
    /\ UNCHANGED <<owed, told>>

\* The connection is lost or closed; the event is fired, or will be, or
\* nobody is there to hear it.
End ==
    /\ line = "up"
    /\ line' = "over"
    /\ \/ told' = told + 1 /\ UNCHANGED owed
       \/ owed' = TRUE /\ UNCHANGED told
       \/ UNCHANGED <<owed, told>>

\* The event that was on its way reaches a listener, or nobody.
Deliver ==
    /\ owed
    /\ owed' = FALSE
    /\ told' \in {told, told + 1}
    /\ UNCHANGED line

Next == Connect \/ Fail \/ End \/ Deliver

Spec == Init /\ [][Next]_adapterVars

-----------------------------------------------------------------------------
(* What follows from it *)

\* Nothing is told of an adapter that is not over, and never more than once.
ToldOnce ==
    /\ line \in {"fresh", "up", "over"}
    /\ owed \in BOOLEAN
    /\ told \in {0, 1}
    /\ owed => told = 0
    /\ line # "over" => ~owed /\ told = 0

\* An adapter that is over stays over: the pool may throw it away.
StaysOver == [][line = "over" => line' = "over"]_adapterVars
=============================================================================
