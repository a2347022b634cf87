--------------------------- MODULE ConnectionPool ---------------------------
(***************************************************************************)
(* The pool of remote connections (src/services/connectionPool.ts).        *)
(*                                                                         *)
(* The extension host runs JavaScript to completion, so a step of this     *)
(* module is the code between two awaits.  What an await waits for decides *)
(* what may come in between:                                               *)
(*   - `await adapter.connect()` waits for the network: anything happens;  *)
(*   - `await adapter.disconnect()` tears the socket down at once and only *)
(*     yields to the microtask queue: other callers may run in the gap,    *)
(*     network events, timers and the clock may not (Quiet).               *)
(* Every getAdapter call that has to wait is a process k of Call; the      *)
(* adapter it creates, if it creates one, carries the same identity.       *)
(***************************************************************************)
EXTENDS Naturals, FiniteSets

CONSTANTS
    Conn,         \* connection ids
    FtpConn,      \* those using FTP(S): an adapter may lose its socket silently
    Call,         \* getAdapter calls that do not return at once
    None,         \* no call, no connection, no entry
    MaxConn,      \* remoteBridge.pool.maxConnections
    IdleTimeout,  \* remoteBridge.pool.idleTimeout, in clock units
    MaxGen,       \* bound: invalidations of one connection
    MaxTime       \* bound: ticks of the clock

ASSUME PoolAssumption ==
    /\ FtpConn \subseteq Conn
    /\ None \notin Call \cup Conn \cup Nat
    /\ MaxConn \in Nat \ {0}       \* package.json: minimum 1
    /\ IdleTimeout \in Nat
    /\ MaxGen \in Nat
    /\ MaxTime \in Nat

VARIABLES
    pool,        \* _pool: the adapter of a connection's entry, or None
    status,      \* PoolEntry.status ("disconnected" where there is no entry)
    last,        \* PoolEntry.lastActivity (0 where there is no entry)
    pending,     \* _pending: the call whose promise is registered, or None
    pendingGen,  \* _pendingGenerations
    gen,         \* _connectGenerations
    suspended,   \* _autoConnectSuspended
    disposed,    \* _disposed
    link,        \* the adapter created by a call
    pc,          \* where a call is
    conn,        \* the connection a call asked for
    callGen,     \* the generation the call captured
    target,      \* evicting: the victim; waiting: the call waited for
    closing,     \* disconnect() calls of a connection waiting in their await
    event,       \* the last status fired to the listeners
    now,         \* Date.now()
    cancelled    \* history: attempts that a disconnect or suspend overtook

entryVars   == <<pool, status, last>>
pendingVars == <<pending, pendingGen>>
callVars    == <<pc, conn, callGen, target>>
vars == <<entryVars, pendingVars, gen, suspended, disposed, link, callVars,
          closing, event, now, cancelled>>

Status == {"disconnected", "connecting", "connected", "error"}
Link   == {"none", "opening", "up", "lost", "closed"}
Pc     == {"idle", "evicting", "connecting", "waiting", "ok", "err",
           "returned", "failed"}

-----------------------------------------------------------------------------
(* Operators *)

\* f with the value v at every element of S.
With(f, S, v) == [x \in DOMAIN f |-> IF x \in S THEN v ELSE f[x]]

Open == {c \in Conn : pool[c] # None}

\* isConnected(id): there is an entry and its adapter is up.
Live(c) == pool[c] # None /\ link[pool[c]] = "up"

GetStatus(c) == IF pool[c] = None THEN "disconnected" ELSE status[c]

Attempt(k) == pc[k] \in {"evicting", "connecting"}
Settling(k) == pc[k] \in {"ok", "err"}

\* Variant for sensitivity: nobody looks into _pending.
JoinableNever(c) == FALSE

\* A promise getAdapter joins: registered, and of the current generation.
Joinable(c) == pending[c] # None /\ pendingGen[c] = gen[c]

\* No continuation is queued as a microtask.
Quiet ==
    /\ \A c \in Conn : closing[c] = 0
    /\ \A k \in Call : pc[k] # "evicting" /\ ~Settling(k)

\* The entries _evictOldest may choose among those in S; ties on
\* Date.now() are broken by the map's order, which is not modelled.
Oldest(S) == {v \in S : \A d \in S : last[v] <= last[d]}

\* _invalidatePendingConnect for every connection of S.
Invalidate(S) ==
    /\ gen' = [c \in Conn |-> IF c \in S THEN gen[c] + 1 ELSE gen[c]]
    /\ pending' = With(pending, S, None)
    /\ pendingGen' = With(pendingGen, S, None)
    /\ cancelled' = cancelled \cup {k \in Call : Attempt(k) /\ conn[k] \in S}

\* _setStatus: the entry's status, if there is one, and the event (the
\* emitter of a disposed pool fires no more).
SetStatus(c, s) ==
    /\ status' = IF pool[c] # None THEN [status EXCEPT ![c] = s] ELSE status
    /\ event' = IF disposed THEN event ELSE [event EXCEPT ![c] = s]

\* _pool.delete(id)
DeleteEntry(c) ==
    /\ pool' = [pool EXCEPT ![c] = None]
    /\ status' = [status EXCEPT ![c] = "disconnected"]
    /\ last' = [last EXCEPT ![c] = 0]

\* The adapters of the entries in S.
AdaptersOf(S) == {pool[c] : c \in S} \ {None}

\* getAdapter's tests, up to the pending map.
NeedsConnect(k, c) ==
    /\ pc[k] = "idle"
    /\ ~disposed
    /\ c \notin suspended
    /\ ~Live(c)

\* The limit as _connectAdapter tests it, the stale entry already removed.
HasRoom(c) == Cardinality(Open \ {c}) < MaxConn

\* Variant for sensitivity: the landing test without the generation.
StaleIgnoresGeneration(k) == conn[k] \in suspended

\* The attempt has been overtaken by disconnect, suspend or a newer attempt.
Stale(k) == conn[k] \in suspended \/ gen[conn[k]] # callGen[k]

-----------------------------------------------------------------------------
Init ==
    /\ pool = [c \in Conn |-> None]
    /\ status = [c \in Conn |-> "disconnected"]
    /\ last = [c \in Conn |-> 0]
    /\ pending = [c \in Conn |-> None]
    /\ pendingGen = [c \in Conn |-> None]
    /\ gen = [c \in Conn |-> 0]
    /\ suspended = {}
    /\ disposed = FALSE
    /\ link = [k \in Call |-> "none"]
    /\ pc = [k \in Call |-> "idle"]
    /\ conn = [k \in Call |-> None]
    /\ callGen = [k \in Call |-> 0]
    /\ target = [k \in Call |-> None]
    /\ closing = [c \in Conn |-> 0]
    /\ event = [c \in Conn |-> "disconnected"]
    /\ now = 0
    /\ cancelled = {}

(***************************************************************************)
(* getAdapter and _connectAdapter                                          *)
(***************************************************************************)

\* getAdapter or getConnectedAdapter on a live entry: returns at once.
Touch(c) ==
    /\ Live(c)
    /\ last[c] # now
    /\ last' = [last EXCEPT ![c] = now]
    /\ UNCHANGED <<pool, status, pendingVars, gen, suspended, disposed, link,
                   callVars, closing, event, now, cancelled>>

\* getAdapter finds an attempt in progress and awaits its promise.
Join(k, c) ==
    /\ NeedsConnect(k, c)
    /\ Joinable(c)
    /\ pc' = [pc EXCEPT ![k] = "waiting"]
    /\ conn' = [conn EXCEPT ![k] = c]
    /\ target' = [target EXCEPT ![k] = pending[c]]
    /\ UNCHANGED <<entryVars, pendingVars, gen, suspended, disposed, link,
                   callGen, closing, event, now, cancelled>>

\* What the two ways to start an attempt share: the stale entry is removed
\* and its adapter disposed, the call captures the generation.
StartAttempt(k, c) ==
    /\ NeedsConnect(k, c)
    /\ ~Joinable(c)
    /\ DeleteEntry(c)
    /\ conn' = [conn EXCEPT ![k] = c]
    /\ callGen' = [callGen EXCEPT ![k] = gen[c]]
    /\ UNCHANGED <<suspended, disposed, closing, now>>

\* There is room in the pool: the adapter is created and starts connecting.
StartConnecting(k, c) ==
    /\ StartAttempt(k, c)
    /\ HasRoom(c)
    /\ pending' = [pending EXCEPT ![c] = k]
    /\ pendingGen' = [pendingGen EXCEPT ![c] = gen[c]]
    /\ link' = [With(link, AdaptersOf({c}), "closed") EXCEPT ![k] = "opening"]
    /\ pc' = [pc EXCEPT ![k] = "connecting"]
    /\ event' = [event EXCEPT ![c] = "connecting"]
    /\ UNCHANGED <<gen, target, cancelled>>

\* The pool is full: disconnect() of the least recently used entry runs up
\* to its await, and the attempt with it.
StartEvicting(k, c) ==
    /\ StartAttempt(k, c)
    /\ ~HasRoom(c)
    /\ \E v \in Oldest(Open \ {c}) :
         /\ gen[v] < MaxGen
         /\ gen' = [gen EXCEPT ![v] = @ + 1]
         /\ pending' = [pending EXCEPT ![v] = None, ![c] = k]
         /\ pendingGen' = [pendingGen EXCEPT ![v] = None, ![c] = gen[c]]
         /\ cancelled' = cancelled \cup
                           {j \in Call : Attempt(j) /\ conn[j] = v}
         /\ link' = With(link, AdaptersOf({c, v}), "closed")
         /\ target' = [target EXCEPT ![k] = v]
    /\ pc' = [pc EXCEPT ![k] = "evicting"]
    /\ UNCHANGED event

\* The victim's disconnect() ends; the limit is not tested again.
FinishEvict(k) ==
    LET v == target[k]
        c == conn[k]
    IN  /\ pc[k] = "evicting"
        /\ pool' = [pool EXCEPT ![v] = None]
        /\ last' = [last EXCEPT ![v] = 0]
        /\ status' = [status EXCEPT ![v] = "disconnected",
                        ![c] = IF pool[c] # None THEN "connecting" ELSE @]
        /\ event' = IF disposed THEN event
                    ELSE [event EXCEPT ![v] = "disconnected",
                                       ![c] = "connecting"]
        /\ link' = [link EXCEPT ![k] = "opening"]
        /\ pc' = [pc EXCEPT ![k] = "connecting"]
        /\ target' = [target EXCEPT ![k] = None]
        /\ UNCHANGED <<pendingVars, gen, suspended, disposed, conn, callGen,
                       closing, now, cancelled>>

\* adapter.connect() resolves and the attempt is still wanted.
Land(k) ==
    LET c == conn[k]
    IN  /\ Quiet
        /\ pc[k] = "connecting"
        /\ ~Stale(k)
        /\ pool' = [pool EXCEPT ![c] = k]
        /\ status' = [status EXCEPT ![c] = "connected"]
        /\ last' = [last EXCEPT ![c] = now]
        /\ event' = IF disposed THEN event
                    ELSE [event EXCEPT ![c] = "connected"]
        /\ link' = [link EXCEPT ![k] = "up"]
        /\ pc' = [pc EXCEPT ![k] = "ok"]
        /\ UNCHANGED <<pendingVars, gen, suspended, disposed, conn, callGen,
                       target, closing, now, cancelled>>

\* adapter.connect() rejects or times out, or resolves for nothing: the
\* adapter is disposed and the promise rejects.
GiveUp(k, s) ==
    /\ Quiet
    /\ pc[k] = "connecting"
    /\ SetStatus(conn[k], s)
    /\ link' = [link EXCEPT ![k] = "closed"]
    /\ pc' = [pc EXCEPT ![k] = "err"]
    /\ UNCHANGED <<pool, last, pendingVars, gen, suspended, disposed, conn,
                   callGen, target, closing, now, cancelled>>

Discard(k) == pc[k] = "connecting" /\ Stale(k) /\ GiveUp(k, "disconnected")
ConnectFail(k) == GiveUp(k, "error")

\* The finally block of the getAdapter call that owns the promise; what
\* the ended call remembered is forgotten.
Settle(k) ==
    /\ Settling(k)
    /\ IF pending[conn[k]] = k
       THEN /\ pending' = [pending EXCEPT ![conn[k]] = None]
            /\ pendingGen' = [pendingGen EXCEPT ![conn[k]] = None]
       ELSE UNCHANGED pendingVars
    /\ callGen' = [callGen EXCEPT ![k] = 0]
    /\ \/ /\ pc[k] = "ok"
          /\ pc' = [pc EXCEPT ![k] = "returned"]
          /\ UNCHANGED <<conn, cancelled>>
       \/ /\ pc[k] = "err"
          /\ pc' = [pc EXCEPT ![k] = "failed"]
          /\ conn' = [conn EXCEPT ![k] = None]
          /\ cancelled' = cancelled \ {k}
    /\ UNCHANGED <<entryVars, gen, suspended, disposed, link, target, closing,
                   event, now>>

\* Variant for sensitivity: a rejection does not reach the callers that joined.
WakeOnSuccess(k) ==
    /\ pc[k] = "waiting"
    /\ pc[target[k]] \in {"ok", "returned"}
    /\ pc' = [pc EXCEPT ![k] = "returned"]
    /\ target' = [target EXCEPT ![k] = None]
    /\ conn' = [conn EXCEPT ![k] = None]
    /\ UNCHANGED <<entryVars, pendingVars, gen, suspended, disposed, link,
                   callGen, closing, event, now, cancelled>>

\* A call that joined a promise gets its outcome.
Wake(k) ==
    /\ pc[k] = "waiting"
    /\ \/ /\ pc[target[k]] \in {"ok", "returned"}
          /\ pc' = [pc EXCEPT ![k] = "returned"]
       \/ /\ pc[target[k]] \in {"err", "failed"}
          /\ pc' = [pc EXCEPT ![k] = "failed"]
    /\ target' = [target EXCEPT ![k] = None]
    /\ conn' = [conn EXCEPT ![k] = None]
    /\ UNCHANGED <<entryVars, pendingVars, gen, suspended, disposed, link,
                   callGen, closing, event, now, cancelled>>

(***************************************************************************)
(* disconnect, the idle monitor, suspend, dispose                          *)
(***************************************************************************)

\* disconnect() of every connection in S, all with an entry, up to the await.
BeginDisconnect(S) ==
    /\ link' = With(link, AdaptersOf(S), "closed")
    /\ closing' = [c \in Conn |-> IF c \in S THEN closing[c] + 1
                                             ELSE closing[c]]

Disconnect(c) ==
    /\ gen[c] < MaxGen
    /\ Invalidate({c})
    /\ \/ /\ pool[c] = None
          /\ SetStatus(c, "disconnected")
          /\ UNCHANGED <<link, closing>>
       \/ /\ pool[c] # None
          /\ BeginDisconnect({c})
          /\ UNCHANGED <<status, event>>
    /\ UNCHANGED <<pool, last, suspended, disposed, callVars, now>>

\* After the await: the entry goes, whatever has become of it meanwhile.
FinishDisconnect(c) ==
    /\ closing[c] > 0
    /\ DeleteEntry(c)
    /\ event' = IF disposed THEN event
                ELSE [event EXCEPT ![c] = "disconnected"]
    /\ closing' = [closing EXCEPT ![c] = @ - 1]
    /\ UNCHANGED <<pendingVars, gen, suspended, disposed, link, callVars, now,
                   cancelled>>

DisconnectAll ==
    /\ Open # {}
    /\ \A c \in Open : gen[c] < MaxGen
    /\ Invalidate(Open)
    /\ BeginDisconnect(Open)
    /\ UNCHANGED <<entryVars, suspended, disposed, callVars, event, now>>

\* The 60 s timer; it is cleared by dispose.
IdleMonitor ==
    LET idle == {c \in Open : now - last[c] > IdleTimeout}
    IN  /\ Quiet
        /\ ~disposed
        /\ idle # {}
        /\ \A c \in idle : gen[c] < MaxGen
        /\ Invalidate(idle)
        /\ BeginDisconnect(idle)
        /\ UNCHANGED <<entryVars, suspended, disposed, callVars, event, now>>

SuspendAutoConnect(c) ==
    /\ gen[c] < MaxGen
    /\ suspended' = suspended \cup {c}
    /\ Invalidate({c})
    /\ UNCHANGED <<entryVars, disposed, link, callVars, closing, event, now>>

ResumeAutoConnect(c) ==
    /\ c \in suspended
    /\ suspended' = suspended \ {c}
    /\ UNCHANGED <<entryVars, pendingVars, gen, disposed, link, callVars,
                   closing, event, now, cancelled>>

\* disconnectAll() up to its awaits, then every map but _pool is cleared.
\* Called twice at shutdown, by deactivate() and by the subscriptions; the
\* first conjunct bounds how many calls fall into one gap.
Dispose ==
    /\ \A c \in Open : closing[c] = 0 \/ ~disposed
    /\ disposed' = TRUE
    /\ BeginDisconnect(Open)
    /\ pending' = [c \in Conn |-> None]
    /\ pendingGen' = [c \in Conn |-> None]
    /\ suspended' = {}
    /\ gen' = [c \in Conn |-> 0]
    /\ cancelled' = cancelled \cup
                      {k \in Call : Attempt(k) /\ conn[k] \in Open}
    /\ UNCHANGED <<entryVars, callVars, event, now>>

(***************************************************************************)
(* The network and the clock                                               *)
(***************************************************************************)

\* The server or the network drops a connection in use.  The adapter fires
\* onDidDisconnect, except when an FTP socket reports 'error': that handler
\* clears _connected, so the 'close' handler that follows stays silent.
Lose(k) ==
    /\ Quiet
    /\ link[k] = "up"
    /\ link' = [link EXCEPT ![k] = "lost"]
    /\ \/ /\ pool[conn[k]] = k
          /\ SetStatus(conn[k], "disconnected")
       \/ /\ conn[k] \in FtpConn
          /\ UNCHANGED <<status, event>>
    /\ UNCHANGED <<pool, last, pendingVars, gen, suspended, disposed, callVars,
                   closing, now, cancelled>>

Tick ==
    /\ Quiet
    /\ now < MaxTime
    /\ now' = now + 1
    /\ UNCHANGED <<entryVars, pendingVars, gen, suspended, disposed, link,
                   callVars, closing, event, cancelled>>

-----------------------------------------------------------------------------
CallStep(k) ==
    \/ FinishEvict(k)
    \/ Land(k)
    \/ Discard(k)
    \/ ConnectFail(k)
    \/ Settle(k)
    \/ Wake(k)

Next ==
    \/ \E k \in Call, c \in Conn :
         \/ Join(k, c)
         \/ StartConnecting(k, c)
         \/ StartEvicting(k, c)
    \/ \E k \in Call : CallStep(k) \/ Lose(k)
    \/ \E c \in Conn :
         \/ Touch(c)
         \/ Disconnect(c)
         \/ FinishDisconnect(c)
         \/ SuspendAutoConnect(c)
         \/ ResumeAutoConnect(c)
    \/ DisconnectAll
    \/ IdleMonitor
    \/ Dispose
    \/ Tick

Spec == Init /\ [][Next]_vars

\* The microtask queue drains, and adapter.connect() settles: both adapters
\* put a 30 s timeout on it.  Nobody has to call anything, and no connection
\* has to be lost.
Fairness ==
    /\ \A k \in Call : WF_vars(CallStep(k))
    /\ \A c \in Conn : WF_vars(FinishDisconnect(c))

FairSpec == Spec /\ Fairness

-----------------------------------------------------------------------------
(* Properties *)

\* Every variable has its type, and _pending and _pendingGenerations always
\* have the same keys (lines 87-88, 94-95, 296-297 change them in pairs).
TypeOK ==
    /\ pool \in [Conn -> Call \cup {None}]
    /\ status \in [Conn -> Status]
    /\ last \in [Conn -> 0..MaxTime]
    /\ pending \in [Conn -> Call \cup {None}]
    /\ pendingGen \in [Conn -> Nat \cup {None}]
    /\ \A c \in Conn : pending[c] = None <=> pendingGen[c] = None
    /\ gen \in [Conn -> Nat]
    /\ suspended \subseteq Conn
    /\ disposed \in BOOLEAN
    /\ link \in [Call -> Link]
    /\ pc \in [Call -> Pc]
    /\ conn \in [Call -> Conn \cup {None}]
    /\ callGen \in [Call -> Nat]
    /\ target \in [Call -> Call \cup Conn \cup {None}]
    /\ closing \in [Conn -> Nat]
    /\ event \in [Conn -> Status]
    /\ now \in 0..MaxTime
    /\ cancelled \subseteq Call

\* No connection leaks: until the pool is disposed, an adapter that is
\* connected is the one in its connection's entry, where disconnect, the
\* idle monitor and the eviction find it, whatever attempts, disconnects
\* and evictions overlapped.
NoLeak ==
    ~disposed => \A k \in Call : link[k] = "up" => pool[conn[k]] = k

\* Line 52, "prevent duplicate concurrent connections": of the attempts in
\* flight for one connection all but one have been cancelled.
DuplicateFree ==
    \A j, k \in Call \ cancelled :
        Attempt(j) /\ Attempt(k) /\ conn[j] = conn[k] => j = k

\* An attempt that was in flight when its connection was disconnected or
\* suspended never becomes the connection's entry, even if the connection
\* was resumed and connected anew before it ended.
DisconnectWins ==
    ~disposed => \A c \in Conn : pool[c] \notin cancelled

\* A caller can only join an attempt of its own connection that has neither
\* been cancelled nor forgotten: what _pending offers is current, so the
\* branch for a promise of another generation (lines 73-75) is never taken.
JoinsAreCurrent ==
    \A c \in Conn : pending[c] # None =>
        LET k == pending[c]
        IN  /\ conn[k] = c
            /\ Attempt(k) => k \notin cancelled
            /\ Attempt(k) \/ Settling(k)
            /\ Joinable(c)

\* _setStatus looks the entry up by its id (line 300), so the attempts of one
\* connection share it: as long as a connection stays up, its status and what
\* the views are told of it are written by nobody but an attempt that a
\* disconnect or a suspend has overtaken (which may call it "connecting",
\* "disconnected" or "error").
LiveStatusKept ==
    [][\A c \in Conn : ~disposed /\ Live(c) /\ pool'[c] = pool[c] /\ Live(c)' =>
         \/ status'[c] = status[c] /\ event'[c] = event[c]
         \/ \E k \in cancelled : conn[k] = c /\ Attempt(k) /\ pc'[k] # pc[k]]_vars

(* The inductive invariant behind NoLeak, DuplicateFree and DisconnectWins *)

\* What a call remembers, by where it is.
CallInv ==
    \A k \in Call :
        /\ Attempt(k) \/ Settling(k) => conn[k] \in Conn
        /\ pc[k] = "evicting" => target[k] \in Conn
        /\ pc[k] = "idle" => k \notin cancelled
        /\ link[k] = "up" => pc[k] \in {"ok", "returned"}

\* An entry holds the adapter of an attempt of that connection that landed.
EntryInv ==
    \A c \in Conn : pool[c] # None =>
        /\ conn[pool[c]] = c
        /\ pc[pool[c]] \in {"ok", "returned"}

\* An entry that is being disconnected is down already.
ClosingInv ==
    \A c \in Conn :
        \/ pool[c] = None
        \/ link[pool[c]] # "up"
        \/ /\ closing[c] = 0
           /\ \A k \in Call : pc[k] = "evicting" => target[k] # c

\* The wanted attempt is the registered one, it alone has the current
\* generation, and its connection has no entry.
AttemptInv ==
    ~disposed => \A k \in Call : Attempt(k) =>
        IF k \in cancelled
        THEN callGen[k] < gen[conn[k]]
        ELSE /\ callGen[k] = gen[conn[k]]
             /\ pending[conn[k]] = k
             /\ pool[conn[k]] = None

\* The inductive invariant: what holds at every gap between two continuations.
IInv ==
    /\ TypeOK
    /\ CallInv
    /\ EntryInv
    /\ ClosingInv
    /\ AttemptInv
    /\ JoinsAreCurrent
    /\ DuplicateFree
    /\ NoLeak
    /\ DisconnectWins

(* What callers may rely on (SingleFlight), and how the pool provides it *)

\* How far a call at p is; the eviction before an attempt is part of it.
StageOf(p) ==
    CASE p = "idle"                     -> "new"
      [] p \in {"evicting", "connecting"} -> "trying"
      [] p = "ok"                       -> "landed"
      [] p = "err"                      -> "refused"
      [] p = "waiting"                  -> "joining"
      [] p = "returned"                 -> "adapter"
      [] OTHER                          -> "error"

\* The promise on offer is the registered one, the session in use the adapter
\* isConnected looks at; a disposed pool offers neither.
Promise == [c \in Conn |-> IF disposed THEN None ELSE pending[c]]
Session == [c \in Conn |-> IF ~disposed /\ Live(c) THEN pool[c] ELSE None]
Barred  == IF disposed THEN {} ELSE suspended
Stage   == [k \in Call |-> StageOf(pc[k])]
Joined  == [k \in Call |-> IF pc[k] = "waiting" THEN target[k] ELSE None]

Flight == INSTANCE SingleFlight WITH
    promise <- Promise, session <- Session, barred <- Barred,
    stage <- Stage, joined <- Joined, closed <- disposed

\* The pool implements a single flight per connection: with generations, a
\* pending map, stale entries, evictions and microtask gaps it does nothing
\* that callers who know only SingleFlight could not have seen.
OneFlight == Flight!Spec

\* Every getAdapter call ends: no caller hangs on a promise that was
\* dropped from _pending, or on the outcome of a call it joined.
CallsEnd ==
    \A k \in Call :
        pc[k] # "idle" ~> pc[k] \in {"returned", "failed"}

\* package.nls.json:58, "Maximum number of concurrent connections".  The
\* test-then-connect of lines 125-131 does not keep it when attempts overlap.
WithinLimit == Cardinality(Open) <= MaxConn
=============================================================================
