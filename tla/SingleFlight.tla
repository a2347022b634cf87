---------------------------- MODULE SingleFlight ----------------------------
(***************************************************************************)
(* What the connection pool promises its callers, without generations,     *)
(* entries, statuses, an order of eviction or a clock: the calls that want *)
(* a connection at one time share one attempt; an attempt that somebody    *)
(* called off is joined by nobody and never becomes the session in use;    *)
(* every call is answered with the outcome of the attempt it made or       *)
(* joined; once the pool is closed nothing is in use any more, and the     *)
(* calls under way are still answered.                                     *)
(***************************************************************************)
CONSTANTS
    Conn,      \* connections
    Call,      \* calls that want one
    None       \* no call

VARIABLES
    promise,   \* of each connection: the call whose attempt newcomers join
    session,   \* of each connection: the call that made the session in use
    barred,    \* the connections nobody may connect
    stage,     \* how far each call is
    joined,    \* of each call: the call whose outcome it waits for
    closed     \* the pool has been given up

flightVars == <<promise, session, barred, stage, joined, closed>>

Stage == {"new", "trying", "landed", "refused", "joining", "adapter", "error"}

\* f without what it has for the connections of S.
Without(f, S) == [c \in Conn |-> IF c \in S THEN None ELSE f[c]]

Advance(k, to) == stage' = [stage EXCEPT ![k] = to]

Init ==
    /\ promise = [c \in Conn |-> None]
    /\ session = [c \in Conn |-> None]
    /\ barred = {}
    /\ stage = [k \in Call |-> "new"]
    /\ joined = [k \in Call |-> None]
    /\ closed = FALSE

\* A call finds c neither barred nor in use.
Wants(k, c) ==
    /\ ~closed
    /\ stage[k] = "new"
    /\ c \notin barred
    /\ session[c] = None
    /\ UNCHANGED <<barred, closed>>

\* It makes an attempt where there is none, which may cost others theirs.
Begin(k, c, evicted) ==
    /\ Wants(k, c)
    /\ promise[c] = None
    /\ promise' = [Without(promise, evicted) EXCEPT ![c] = k]
    /\ session' = Without(session, evicted)
    /\ Advance(k, "trying")
    /\ UNCHANGED joined

\* It joins the one there is.
Join(k, c) ==
    /\ Wants(k, c)
    /\ promise[c] # None
    /\ joined' = [joined EXCEPT ![k] = promise[c]]
    /\ Advance(k, "joining")
    /\ UNCHANGED <<promise, session>>

\* An attempt succeeds: it is the one offered for its connection, and its
\* session is the one in use from now on.
Land(k) ==
    /\ stage[k] = "trying"
    /\ Advance(k, "landed")
    /\ \/ closed /\ UNCHANGED session
       \/ \E c \in Conn \ barred :
            /\ promise[c] = k
            /\ session' = [session EXCEPT ![c] = k]
    /\ UNCHANGED <<promise, barred, joined, closed>>

\* An attempt fails, or is of no use any more.
Refuse(k) ==
    /\ stage[k] = "trying"
    /\ Advance(k, "refused")
    /\ UNCHANGED <<promise, session, barred, joined, closed>>

\* The outcome of an attempt at stage s, as a call gets it.
Outcome(s) == IF s \in {"landed", "adapter"} THEN "adapter" ELSE "error"

\* The call that made the attempt gets its outcome; nobody joins any more.
Answer(k) ==
    /\ stage[k] \in {"landed", "refused"}
    /\ Advance(k, Outcome(stage[k]))
    /\ promise' = Without(promise, {c \in Conn : promise[c] = k})
    /\ UNCHANGED <<session, barred, joined, closed>>

\* So does a call that joined.
AnswerJoined(k) ==
    /\ stage[k] = "joining"
    /\ stage[joined[k]] \in {"landed", "refused", "adapter", "error"}
    /\ Advance(k, Outcome(stage[joined[k]]))
    /\ joined' = [joined EXCEPT ![k] = None]
    /\ UNCHANGED <<promise, session, barred, closed>>

\* Connections are given up, in use or being attempted.
Drop(S) ==
    /\ promise' = Without(promise, S)
    /\ session' = Without(session, S)
    /\ UNCHANGED <<barred, stage, joined, closed>>

\* The session in use breaks.
Break(c) ==
    /\ session' = Without(session, {c})
    /\ UNCHANGED <<promise, barred, stage, joined, closed>>

\* Attempts of c are called off, and there will be no other.
Bar(c) ==
    /\ barred' = barred \cup {c}
    /\ promise' = Without(promise, {c})
    /\ UNCHANGED <<session, stage, joined, closed>>

Unbar(c) ==
    /\ barred' = barred \ {c}
    /\ UNCHANGED <<promise, session, stage, joined, closed>>

Close ==
    /\ closed' = TRUE
    /\ promise' = Without(promise, Conn)
    /\ session' = Without(session, Conn)
    /\ barred' = {}
    /\ UNCHANGED <<stage, joined>>

Next ==
    \/ \E k \in Call :
         \/ \E c \in Conn :
              \/ \E evicted \in {{}} \cup {{d} : d \in Conn \ {c}} :
                   Begin(k, c, evicted)
              \/ Join(k, c)
         \/ Land(k)
         \/ Refuse(k)
         \/ Answer(k)
         \/ AnswerJoined(k)
    \/ \E c \in Conn : Break(c) \/ Bar(c) \/ Unbar(c)
    \/ \E S \in SUBSET Conn : Drop(S)
    \/ Close

Spec == Init /\ [][Next]_flightVars

-----------------------------------------------------------------------------
(* What follows from it *)

\* Every variable has its type.
TypeOK ==
    /\ promise \in [Conn -> Call \cup {None}]
    /\ session \in [Conn -> Call \cup {None}]
    /\ barred \subseteq Conn
    /\ stage \in [Call -> Stage]
    /\ joined \in [Call -> Call \cup {None}]
    /\ closed \in BOOLEAN

\* A promise is of an attempt under way, a session of one that succeeded;
\* no two connections share one; and who waits, waits for an attempt, never
\* for another that waits.
Sound ==
    /\ TypeOK
    /\ \A c \in Conn :
         /\ promise[c] # None => stage[promise[c]] \in {"trying", "landed", "refused"}
         /\ session[c] # None => stage[session[c]] \in {"landed", "adapter"}
    /\ \A c, d \in Conn :
         /\ promise[c] = promise[d] /\ promise[c] # None => c = d
         /\ session[c] = session[d] /\ session[c] # None => c = d
    /\ \A k \in Call : stage[k] = "joining" =>
         /\ joined[k] \in Call
         /\ stage[joined[k]] \notin {"new", "joining"}

\* An attempt that was called off is never offered again and never in use.
CalledOff(k) == stage[k] = "trying" /\ \A c \in Conn : promise[c] # k

StaysCalledOff ==
    [][\A k \in Call : CalledOff(k) =>
         \A c \in Conn : promise'[c] # k /\ session'[c] # k]_flightVars
=============================================================================
