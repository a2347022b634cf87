------------------------------ MODULE FtpQueue ------------------------------
(***************************************************************************)
(* The command queue of an FTP(S) adapter (src/adapters/ftpAdapter.ts).    *)
(* basic-ftp runs one task at a time on a control connection, so every     *)
(* operation of the adapter goes through three queues, by priority, that a *)
(* single loop drains.  A step is the code between two awaits; the drain   *)
(* starts in a microtask, an operation ends when the server answers, the   *)
(* client times out or the socket dies.                                    *)
(***************************************************************************)
EXTENDS Naturals, Sequences, FiniteSets

CONSTANT
    Op          \* operations the callers and the keepalive timer ask for

VARIABLES
    connected,         \* _connected
    socket,            \* _client and the state of its control socket
    queue,             \* _highPriorityQueue, _normalPriorityQueue, _low...
    queueRunning,      \* _queueRunning
    drainScheduled,    \* _queueDrainScheduled
    executing,         \* operations running on the client
    outcome,           \* where an operation is, or how its promise settled
    kind,              \* what an operation does
    keepalivePending,  \* _keepalivePending
    reports,           \* onDidDisconnect events fired
    before             \* history: the mutations unsettled when it was issued

loopVars == <<queueRunning, drainScheduled, executing>>
opVars == <<outcome, kind, before>>
vars == <<connected, socket, queue, loopVars, opVars, keepalivePending,
          reports>>

Priority == {"high", "normal", "low"}
Source == {"user", "probe", "watch", "keepalive", "unset"}

\* A write, delete, rename, mkdir or chmod; a directory listing; any other
\* read; one whose errors are swallowed (exists, getUnixMode); the NOOP.
Kind == {"mutate", "list", "read", "exists", "noop"}

Settled == {"ok", "error", "lost", "refused", "closed"}
Outcome == {"idle", "queued", "running"} \cup Settled

\* "none": not connected yet; "dead": destroyed, its 'close' handler still to
\* run; "closed": after it; "gone": disconnect() has set _client to null.
Socket == {"none", "open", "dead", "closed", "gone"}

-----------------------------------------------------------------------------
(* Operators *)

\* Variant for sensitivity: the source is looked at before the operation.
SourceFirst(k, s) ==
    IF s \in {"probe", "watch", "keepalive"} THEN "low"
    ELSE IF k = "mutate" \/ s = "user" \/ k = "list" THEN "high" ELSE "normal"

\* _inferQueuePriority; the reads of well-known probe paths, which go to the
\* low queue too, are among those of source "probe".
InferPriority(k, s) ==
    IF k = "mutate" \/ s = "user" THEN "high"
    ELSE IF s \in {"probe", "watch", "keepalive"} THEN "low"
    ELSE IF k = "list" THEN "high" ELSE "normal"

HasQueued == \E p \in Priority : queue[p] # <<>>

\* The queue _shiftQueuedOperation takes from.
Front == IF queue["high"] # <<>> THEN "high"
         ELSE IF queue["normal"] # <<>> THEN "normal" ELSE "low"

\* Variant for sensitivity: wasConnected is not looked at.
LostEveryTime ==
    /\ connected' = FALSE
    /\ keepalivePending' = FALSE
    /\ reports' = reports + 1

\* _handleConnectionLost, and the 'close' handler of the socket.
ConnectionLost ==
    /\ connected' = FALSE
    /\ keepalivePending' = FALSE
    /\ reports' = IF connected THEN reports + 1 ELSE reports

Unsettled == {o \in Op : outcome[o] \in {"queued", "running"}}

-----------------------------------------------------------------------------
Init ==
    /\ connected = FALSE
    /\ socket = "none"
    /\ queue = [p \in Priority |-> <<>>]
    /\ queueRunning = FALSE
    /\ drainScheduled = FALSE
    /\ executing = {}
    /\ outcome = [o \in Op |-> "idle"]
    /\ kind = [o \in Op |-> "read"]
    /\ keepalivePending = FALSE
    /\ reports = 0
    /\ before = [o \in Op |-> {}]

Connect ==
    /\ socket = "none"
    /\ socket' = "open"
    /\ connected' = TRUE
    /\ UNCHANGED <<queue, loopVars, opVars, keepalivePending, reports>>

(***************************************************************************)
(* _enqueue                                                                *)
(***************************************************************************)

\* What the caller asked for; noted however the request fares.
Issue(o, k, result) ==
    /\ outcome[o] = "idle"
    /\ socket # "none"
    /\ outcome' = [outcome EXCEPT ![o] = result]
    /\ kind' = [kind EXCEPT ![o] = k]
    /\ before' = [before EXCEPT ![o] = {w \in Unsettled : kind[w] = "mutate"}]

\* _requireClient throws.
Refuse(o, k) ==
    /\ Issue(o, k, "refused")
    /\ ~connected
    /\ UNCHANGED <<connected, socket, queue, loopVars, keepalivePending,
                   reports>>

\* The preflight finds the socket torn down.
FailFast(o, k) ==
    /\ Issue(o, k, "lost")
    /\ connected
    /\ socket = "dead"
    /\ ConnectionLost
    /\ UNCHANGED <<socket, queue, loopVars>>

\* The operation is queued and a drain scheduled unless one is under way.
Push(o, k, s) ==
    /\ Issue(o, k, "queued")
    /\ connected
    /\ socket = "open"
    /\ queue' = [queue EXCEPT ![InferPriority(k, s)] = Append(@, o)]
    /\ drainScheduled' = (drainScheduled \/ ~queueRunning)
    /\ UNCHANGED <<connected, socket, queueRunning, executing, reports>>

Enqueue(o) ==
    \E k \in Kind \ {"noop"} :
        \/ Refuse(o, k)
        \/ FailFast(o, k)
        \/ /\ \E s \in Source \ {"keepalive"} : Push(o, k, s)
           /\ UNCHANGED keepalivePending

\* The keepalive timer; whether the connection has been idle for the
\* interval is left open.
Keepalive(o) ==
    /\ connected
    /\ ~keepalivePending
    /\ ~queueRunning
    /\ ~HasQueued
    /\ \/ FailFast(o, "noop")
       \/ /\ Push(o, "noop", "keepalive")
          /\ keepalivePending' = TRUE

(***************************************************************************)
(* _drainQueue                                                             *)
(***************************************************************************)

\* The loop takes the next operation and starts it, or ends.
TakeNext(rest, settled) ==
    IF HasQueued
    THEN LET o == Head(queue[Front])
         IN  /\ queue' = [queue EXCEPT ![Front] = Tail(@)]
             /\ executing' = rest \cup {o}
             /\ outcome' = [settled EXCEPT ![o] = "running"]
             /\ queueRunning' = TRUE
    ELSE /\ executing' = rest
         /\ outcome' = settled
         /\ queueRunning' = FALSE
         /\ UNCHANGED queue

\* Variant for sensitivity: the loop does not claim the client.
DrainWithoutClaim ==
    /\ drainScheduled
    /\ drainScheduled' = FALSE
    /\ HasQueued
    /\ LET o == Head(queue[Front])
       IN  /\ queue' = [queue EXCEPT ![Front] = Tail(@)]
           /\ executing' = executing \cup {o}
           /\ outcome' = [outcome EXCEPT ![o] = "running"]
    /\ UNCHANGED <<connected, socket, queueRunning, kind, before,
                   keepalivePending, reports>>

\* The microtask: a second loop beside a running one ends at once.
Drain ==
    /\ drainScheduled
    /\ drainScheduled' = FALSE
    /\ IF queueRunning
       THEN UNCHANGED <<queue, queueRunning, executing, outcome>>
       ELSE TakeNext(executing, outcome)
    /\ UNCHANGED <<connected, socket, kind, before, keepalivePending, reports>>

\* What an operation may end with where the code swallows the loss of the
\* socket: exists and getUnixMode return, readFileRange has bytes enough;
\* in writeFile the probe of a file that must be there reads as "not found"
\* and the SITE CHMOD of a read-only file throws an error of its own.
Swallowed(k) == IF k \in {"exists", "read"} THEN {"ok"}
                ELSE IF k = "mutate" THEN {"error"} ELSE {}

\* How an operation on the client may end: with the server's answer while
\* the socket is open, with a lost connection at any time (a timeout too), or
\* as if nothing had been lost.
Results(o) == Swallowed(kind[o]) \cup
              (IF socket = "open" THEN {"ok", "error", "lost"} ELSE {"lost"})

\* Variant for sensitivity: an operation that fails ends the loop.
DoneEndsLoop(o, r) ==
    /\ o \in executing
    /\ r \in Results(o)
    /\ IF r = "ok"
       THEN TakeNext(executing \ {o}, [outcome EXCEPT ![o] = r])
       ELSE /\ executing' = executing \ {o}
            /\ outcome' = [outcome EXCEPT ![o] = r]
            /\ queueRunning' = FALSE
            /\ UNCHANGED queue
    /\ IF r = "lost"
       THEN /\ ConnectionLost
            /\ socket' = IF socket = "open" THEN "dead" ELSE socket
       ELSE /\ keepalivePending' = (keepalivePending /\ kind[o] # "noop")
            /\ UNCHANGED <<connected, reports, socket>>
    /\ UNCHANGED <<drainScheduled, kind, before>>

\* An operation ends, its promise settles, the loop goes on; a timeout or a
\* reset leaves the socket destroyed.
Done(o, r) ==
    /\ o \in executing
    /\ r \in Results(o)
    /\ TakeNext(executing \ {o}, [outcome EXCEPT ![o] = r])
    /\ IF r = "lost"
       THEN /\ ConnectionLost
            /\ socket' = IF socket = "open" THEN "dead" ELSE socket
       ELSE /\ keepalivePending' = (keepalivePending /\ kind[o] # "noop")
            /\ UNCHANGED <<connected, reports, socket>>
    /\ UNCHANGED <<drainScheduled, kind, before>>

(***************************************************************************)
(* Loss and disconnect                                                     *)
(***************************************************************************)

\* The server closes the connection, or the network does.
SocketDies ==
    /\ socket = "open"
    /\ socket' = "dead"
    /\ UNCHANGED <<connected, queue, loopVars, opVars, keepalivePending,
                   reports>>

\* socket.on('error'): no event.
SocketError ==
    /\ socket = "dead"
    /\ connected' = FALSE
    /\ keepalivePending' = FALSE
    /\ UNCHANGED <<socket, queue, loopVars, opVars, reports>>

\* socket.on('close')
SocketClose ==
    /\ socket = "dead"
    /\ socket' = "closed"
    /\ ConnectionLost
    /\ UNCHANGED <<queue, loopVars, opVars>>

\* disconnect(): queued operations are rejected, the client is closed (the
\* operation it is running will fail) and forgotten.
Disconnect ==
    /\ socket # "none"
    /\ ConnectionLost
    /\ queue' = [p \in Priority |-> <<>>]
    /\ outcome' = [o \in Op |-> IF outcome[o] = "queued" THEN "closed"
                                                         ELSE outcome[o]]
    /\ socket' = "gone"
    /\ UNCHANGED <<loopVars, kind, before>>

-----------------------------------------------------------------------------
Next ==
    \/ Connect
    \/ \E o \in Op : Enqueue(o) \/ Keepalive(o)
    \/ Drain
    \/ \E o \in Op, r \in Settled : Done(o, r)
    \/ SocketDies
    \/ SocketError
    \/ SocketClose
    \/ Disconnect

Spec == Init /\ [][Next]_vars

\* Microtasks run, and basic-ftp's own timeout ends every task.
Fairness ==
    /\ WF_vars(Drain)
    /\ \A o \in Op : WF_vars(\E r \in Settled : Done(o, r))

FairSpec == Spec /\ Fairness

-----------------------------------------------------------------------------
(* Properties *)

Places(o) == UNION {{p} \X {i \in DOMAIN queue[p] : queue[p][i] = o} :
                      p \in Priority}

\* Every variable has its type, and an operation is queued when it is in one of
\* the three queues, where each operation occurs once.
TypeOK ==
    /\ connected \in BOOLEAN
    /\ socket \in Socket
    /\ queue \in [Priority -> Seq(Op)]
    /\ queueRunning \in BOOLEAN
    /\ drainScheduled \in BOOLEAN
    /\ executing \subseteq Op
    /\ outcome \in [Op -> Outcome]
    /\ kind \in [Op -> Kind]
    /\ keepalivePending \in BOOLEAN
    /\ reports \in Nat
    /\ before \in [Op -> SUBSET Op]
    /\ \A o \in Op : (outcome[o] = "queued") <=> (Places(o) # {})
    /\ \A o \in Op : Cardinality(Places(o)) <= 1

\* Lines 66-67, "basic-ftp does NOT support concurrent operations on a single
\* client. All FTP commands are serialized": one at a time, and only while
\* the loop that owns the client is marked as running.
OneAtATime ==
    /\ \A a, b \in executing : a = b
    /\ executing # {} <=> queueRunning

\* No lost wakeup: operations wait only while a loop runs that will take
\* them or a drain is scheduled.
NoStranded == HasQueued => queueRunning \/ drainScheduled

\* CHANGELOG.md:70, "FTP disconnect drains pending operations": nothing is
\* left in a queue of an adapter without a client, nor can enter it.
DrainedWhenGone == socket = "gone" => ~HasQueued

\* One loss is reported once, whichever of the socket handlers, the preflight,
\* a failing operation and disconnect() notices it first.
ReportedOnce == reports <= 1

\* An operation issued after a mutation runs after it, whatever the source
\* and the priority of either: no read overtakes the write it follows.
AfterMutations ==
    \A o \in executing : \A w \in before[o] : outcome[w] \in Settled

(* What callers may rely on (SerialClient), and how the adapter provides it *)

Waiting == {o \in Op : outcome[o] = "queued"}
Serving == {o \in Op : outcome[o] = "running"}
Ended   == {o \in Op : outcome[o] \in Settled}
Changes == {o \in Op : kind[o] = "mutate"}

Client == INSTANCE SerialClient WITH
    waiting <- Waiting, serving <- Serving, ended <- Ended,
    changes <- Changes, behind <- before

\* Three queues by priority, a drain that is scheduled or running, timeouts
\* and a socket that dies: the callers see one server that does one thing
\* after the other, changes in the order they were asked for, and each once.
Serial == Client!Spec

\* What the pool may rely on (RemoteAdapter): an event is fired where the
\* connection is noticed to be over, or never.
Line == IF connected THEN "up" ELSE IF socket = "none" THEN "fresh" ELSE "over"

Adapter == INSTANCE RemoteAdapter WITH
    line <- Line, owed <- FALSE, told <- reports

\* adapter.ts:38-42, isConnected and onDidDisconnect: the connection comes up
\* once, and its end is told once at most, whichever of the socket handlers,
\* the preflight, a failing operation and disconnect() notices it first.
OneLife == Adapter!Spec

\* Every operation settles: its caller never hangs, not even when the
\* connection is lost or closed while it waits.
AllSettle == \A o \in Op : outcome[o] = "queued" ~> outcome[o] \in Settled

(* What a comment says and the code does not do *)

\* Lines 253-256: an operation that finds the connection lost fails with the
\* typed error the FileSystemProvider retries on.
LossIsTyped ==
    \A o \in Op : outcome[o] = "refused" => socket = "gone"
=============================================================================
