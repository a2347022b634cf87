------------------------------ MODULE SshAdapter ------------------------------
(***************************************************************************)
(* One SshAdapter (adapters/sshAdapter.ts) from connect() to dispose(),    *)
(* with the tunnel it may connect through (utils/proxyTunnel.ts and        *)
(* utils/jumpTunnel.ts), as the connection pool uses it: the pool disposes *)
(* an adapter whose connect() failed, listens to its disconnect event once *)
(* connect() resolved, and releases it at any later moment.                *)
(*                                                                         *)
(* Environment (ssh2 and the server): the link may break at any time.      *)
(* ssh2 then calls back every request it still holds with an error and     *)
(* emits 'error', 'end' and 'close' on the client, in an order this model  *)
(* leaves open; a command's channel closes without an exit status.         *)
(***************************************************************************)
EXTENDS Naturals

CONSTANTS Call,       \* operations asked of the adapter
          MaxEvent    \* bound on the disconnect events counted

ASSUME EventAssumption == MaxEvent \in Nat

VARIABLES
    via,        \* the tunnels configured: config.proxy, config.jumpHost or both
    stage,      \* how far connect() came, then "up", "failed" or "released"
    connected,  \* _connected
    client,     \* the ssh2 client: "idle", "open", "broken", "ended", "closed"
    sock,       \* the proxy socket: "none", "client" (it is the client's
                \* transport and closes with it) or "apart" (open, not the client's)
    jump,       \* the jump host's client: "none", "open" or "ended"
    jumpKept,   \* _jumpClient holds it
    events,     \* times _onDidDisconnect fired while someone could listen
    queued,     \* the microtask that fires the event is queued
    kind,       \* what each call is: "sftp", "exec" or "stream"
    state,      \* of a call: "new", "asked", "running", "closing" or "done"
    result,     \* what a call settled with
    exited,     \* the command ran to its end on the server
    token,      \* the call's cancellation was requested
    timer       \* the call's forced close is scheduled

link == <<via, stage, client, sock, jump, jumpKept>>
calls == <<kind, state, result, exited, token, timer>>
vars == <<link, connected, events, queued, calls>>

Tunnels == {"proxy", "jump"}

Stages == {"new", "auth", "proxy", "jump", "forward", "handshake", "opening",
           "up", "failed", "released"}

\* Every field within its values.
TypeOK ==
    /\ via \in SUBSET Tunnels
    /\ stage \in Stages
    /\ connected \in BOOLEAN
    /\ client \in {"none", "idle", "open", "broken", "ended", "closed"}
    /\ sock \in {"none", "client", "apart"}
    /\ jump \in {"none", "open", "ended"}
    /\ jumpKept \in BOOLEAN
    /\ events \in 0..MaxEvent
    /\ queued \in BOOLEAN
    /\ kind \in [Call -> {"sftp", "exec", "stream"}]
    /\ state \in [Call -> {"new", "asked", "running", "closing", "done"}]
    /\ result \in [Call -> {"none", "ok", "nocode", "cancelled", "failed", "lost"}]
    /\ exited \in [Call -> BOOLEAN]
    /\ token \in [Call -> BOOLEAN]
    /\ timer \in [Call -> BOOLEAN]

Init ==
    /\ via \in SUBSET Tunnels
    /\ stage = "new"
    /\ connected = FALSE
    /\ client = "none"
    /\ sock = "none"
    /\ jump = "none"
    /\ jumpKept = FALSE
    /\ events = 0
    /\ queued = FALSE
    /\ kind \in [Call -> {"sftp", "exec", "stream"}]
    /\ state = [c \in Call |-> "new"]
    /\ result = [c \in Call |-> "none"]
    /\ exited = [c \in Call |-> FALSE]
    /\ token = [c \in Call |-> FALSE]
    /\ timer = [c \in Call |-> FALSE]

(***************************************************************************)
(* Ending: disconnect() and dispose()                                      *)
(***************************************************************************)

Ended(c) == IF c \in {"open", "idle"} THEN "ended" ELSE c

\* disconnect(): clears _connected first, so that the close that follows is
\* not reported, and ends both clients; dispose() drops the listeners too,
\* and an event whose microtask is still queued reaches nobody. Of the proxy
\* socket only the client knows.
Disconnect(last, j) ==
    /\ stage' = last
    /\ connected' = FALSE
    /\ client' = Ended(client)
    /\ jump' = IF jumpKept THEN "ended" ELSE j
    /\ jumpKept' = FALSE
    /\ queued' = FALSE

\* connect() rejected: the pool disposes the adapter in the same turn.
Reject(j) ==
    /\ Disconnect("failed", j)
    /\ UNCHANGED <<via, sock, events, calls>>

\* The pool disconnects the connection, evicts it or replaces a stale entry.
Release ==
    /\ stage = "up"
    /\ Disconnect("released", jump)
    /\ UNCHANGED <<via, sock, events, calls>>

(***************************************************************************)
(* connect()                                                               *)
(***************************************************************************)

Step(to) == stage' = to /\ UNCHANGED <<via, connected, events, queued, calls>>

Connect ==
    /\ stage = "new"
    /\ Step("auth")
    /\ client' = "idle"
    /\ UNCHANGED <<sock, jump, jumpKept>>

\* connect() goes on to open the next tunnel, or hands what it has to the
\* client, which connects.
Onward(to) ==
    /\ Step(to)
    /\ client' = IF to = "handshake" THEN "open" ELSE client
    /\ UNCHANGED <<jump, jumpKept>>

AfterProxy == IF "jump" \in via THEN "jump" ELSE "handshake"

\* The credentials and the algorithms are ready: the proxy socket comes first.
AuthReady ==
    /\ stage = "auth"
    /\ Onward(IF "proxy" \in via THEN "proxy" ELSE AfterProxy)
    /\ UNCHANGED sock

\* An unusable key file, agent or algorithm list.
AuthFails == stage = "auth" /\ Reject(jump)

\* The proxy socket is the client's transport, unless a jump host is
\* configured as well: its stream takes the place in connectConfig.sock.
ProxyOpens ==
    /\ stage = "proxy"
    /\ Onward(AfterProxy)
    /\ sock' = IF "jump" \in via THEN "apart" ELSE "client"

\* The proxy refuses, or does not answer within its 15 seconds.
ProxyFails == stage = "proxy" /\ Reject(jump)

\* Phase 1 of createJumpSocket: the jump host's client is ready.
JumpReady ==
    /\ stage = "jump"
    /\ Step("forward")
    /\ jump' = "open"
    /\ UNCHANGED <<client, sock, jumpKept>>

\* The jump host fails, or its 30 seconds end and the client is destroyed.
JumpFails == stage = "jump" /\ Reject("ended")

\* Variant for sensitivity: connect() does not keep the jump host's client.
ForwardedUnkept ==
    /\ stage = "forward"
    /\ Onward("handshake")
    /\ UNCHANGED sock

\* Phase 2: the channel to the target is open; connect() keeps the client.
Forwarded ==
    /\ stage = "forward"
    /\ Step("handshake")
    /\ jumpKept' = TRUE
    /\ client' = "open"
    /\ UNCHANGED <<sock, jump>>

\* The jump host refuses the channel or is gone: its client is ended.
ForwardFails == stage = "forward" /\ Reject("ended")

Ready ==
    /\ stage = "handshake"
    /\ client = "open"
    /\ stage' = "opening"
    /\ connected' = TRUE
    /\ UNCHANGED <<via, client, sock, jump, jumpKept, events, queued, calls>>

\* The SFTP channel is open: connect() resolves and the pool listens.
SftpOpens ==
    /\ stage = "opening"
    /\ client = "open"
    /\ Step("up")
    /\ UNCHANGED <<client, sock, jump, jumpKept>>

\* client.sftp() calls back with an error.
SftpFails == stage = "opening" /\ Reject(jump)

\* The connect-time 'error' listener: authentication failed, readyTimeout
\* passed, or the link broke.
ConnectError ==
    /\ stage \in {"handshake", "opening"}
    /\ client \in {"open", "broken"}
    /\ Reject(jump)

(***************************************************************************)
(* The loss of the connection                                              *)
(***************************************************************************)

\* The server, the network or a missed keepalive ends the transport, in the
\* handshake already.
LinkBreaks ==
    /\ client = "open"
    /\ client' = "broken"
    /\ UNCHANGED <<via, stage, sock, jump, jumpKept, connected, events, queued, calls>>

Fire == IF stage = "up" /\ events < MaxEvent THEN events + 1 ELSE events

\* markDisconnected: 'error', 'end' and 'close' all come here, and the first
\* of them reports an unexpected disconnect.
MarkDisconnected ==
    /\ connected' = FALSE
    /\ events' = IF connected THEN Fire ELSE events

\* 'error' or 'end' comes before 'close'; until connect() settled, 'error'
\* is ConnectError.
EarlyEvent ==
    /\ client = "broken"
    /\ stage \in {"handshake", "opening", "up"}
    /\ MarkDisconnected
    /\ UNCHANGED <<link, queued, calls>>

\* In the handshake 'close' without 'error' rejects nothing: no step of
\* connect() follows it.
Closed ==
    /\ client \in {"broken", "ended"}
    /\ client' = "closed"
    /\ MarkDisconnected
    /\ UNCHANGED <<via, stage, sock, jump, jumpKept, queued, calls>>

\* Variant for sensitivity: the loss is reported and the flag is kept.
AfterLossConnected ==
    /\ connected' = connected
    /\ queued' = (queued \/ connected)

\* Variant for sensitivity: the flag is cleared and nothing is reported.
AfterLossSilent ==
    /\ connected' = FALSE
    /\ queued' = queued

\* _markDisconnectedAfterTransportLoss: the flag at once, the event in a
\* microtask.
AfterTransportLoss ==
    /\ connected' = FALSE
    /\ queued' = (queued \/ connected)

Microtask ==
    /\ queued
    /\ queued' = FALSE
    /\ events' = Fire
    /\ UNCHANGED <<link, connected, calls>>

(***************************************************************************)
(* Operations: SFTP requests, _execCollect and execStream                  *)
(***************************************************************************)

Settle(c, r) ==
    /\ state' = [state EXCEPT ![c] = "done"]
    /\ result' = [result EXCEPT ![c] = r]
    /\ timer' = [timer EXCEPT ![c] = FALSE]

\* _requireSftp and _requireClient refuse a disconnected adapter; a stream
\* whose token is already cancelled asks the server nothing.
Begin(c) ==
    /\ stage = "up"
    /\ state[c] = "new"
    /\ IF ~connected THEN Settle(c, "lost")
       ELSE IF kind[c] = "stream" /\ token[c] THEN Settle(c, "cancelled")
       ELSE /\ state' = [state EXCEPT ![c] = "asked"]
            /\ UNCHANGED <<result, timer>>
    /\ UNCHANGED <<link, connected, events, queued, kind, exited, token>>

\* client.exec() calls back with a channel. A token cancelled meanwhile ends
\* stdin and schedules the forced close; so does a later cancellation.
ChannelOpens(c) ==
    /\ client = "open"
    /\ state[c] = "asked"
    /\ kind[c] # "sftp"
    /\ state' = [state EXCEPT ![c] = "running"]
    /\ timer' = [timer EXCEPT ![c] = token[c] /\ kind[c] = "stream"]
    /\ UNCHANGED <<link, connected, events, queued, kind, result, exited, token>>

\* The server refuses one more channel: "Channel open failure" reads as a
\* lost connection.
ChannelRefused(c) ==
    /\ client = "open"
    /\ state[c] = "asked"
    /\ kind[c] # "sftp"
    /\ AfterTransportLoss
    /\ Settle(c, "lost")
    /\ UNCHANGED <<link, events, kind, exited, token>>

\* The server answers an SFTP request, or refuses it with a status.
Answered(c) ==
    /\ client = "open"
    /\ state[c] = "asked"
    /\ kind[c] = "sftp"
    /\ \E r \in {"ok", "failed"} : Settle(c, r)
    /\ exited' = [exited EXCEPT ![c] = TRUE]
    /\ UNCHANGED <<link, connected, events, queued, kind, token>>

\* The request dies with the link or with the ended client: its callback
\* gets a transport error.
RequestLost(c) ==
    /\ client \in {"broken", "ended", "closed"}
    /\ state[c] = "asked"
    /\ AfterTransportLoss
    /\ Settle(c, "lost")
    /\ UNCHANGED <<link, events, kind, exited, token>>

\* The channel closes after the command exited: both collect the status.
Exits(c) ==
    /\ client = "open"
    /\ state[c] \in {"running", "closing"}
    /\ exited' = [exited EXCEPT ![c] = TRUE]
    /\ Settle(c, "ok")
    /\ UNCHANGED <<link, connected, events, queued, kind, token>>

\* The channel closes with no exit status: the command was killed, the
\* channel was force-closed or the link broke. _execCollect reads a missing
\* status as 0, execStream as null.
ClosesWithoutStatus(c) ==
    /\ state[c] \in {"running", "closing"}
    /\ Settle(c, IF kind[c] = "exec" THEN "ok" ELSE "nocode")
    /\ UNCHANGED <<link, connected, events, queued, kind, exited, token>>

\* Variant for sensitivity: cancel() only ends stdin.
CancelByEof(c) ==
    /\ kind[c] = "stream"
    /\ ~token[c]
    /\ state[c] # "done"
    /\ token' = [token EXCEPT ![c] = TRUE]
    /\ UNCHANGED <<link, connected, events, queued, kind, state, result, exited, timer>>

\* The token is cancelled; on an open channel, cancel() ends stdin and
\* schedules the forced close.
CancelStream(c) ==
    /\ kind[c] = "stream"
    /\ ~token[c]
    /\ state[c] # "done"
    /\ token' = [token EXCEPT ![c] = TRUE]
    /\ timer' = [timer EXCEPT ![c] = state[c] = "running"]
    /\ UNCHANGED <<link, connected, events, queued, kind, state, result, exited>>

ForceClose(c) ==
    /\ timer[c]
    /\ timer' = [timer EXCEPT ![c] = FALSE]
    /\ state' = [state EXCEPT ![c] = "closing"]
    /\ UNCHANGED <<link, connected, events, queued, kind, result, exited, token>>

Tunnel ==
    \/ AuthReady \/ AuthFails \/ ProxyOpens \/ ProxyFails
    \/ JumpReady \/ JumpFails \/ Forwarded \/ ForwardFails
    \/ Ready \/ SftpOpens \/ SftpFails \/ ConnectError

\* What the closing of a channel is to ssh2: the answer to a forced close,
\* or the end of every channel of a dead client.
ChannelDies(c) == (state[c] = "closing" \/ client # "open") /\ ClosesWithoutStatus(c)

Next ==
    \/ Connect \/ Tunnel \/ Release
    \/ LinkBreaks \/ EarlyEvent \/ Closed \/ Microtask
    \/ \E c \in Call :
          \/ Begin(c) \/ ChannelOpens(c) \/ ChannelRefused(c) \/ Answered(c)
          \/ RequestLost(c) \/ Exits(c) \/ ClosesWithoutStatus(c)
          \/ CancelStream(c) \/ ForceClose(c)

Spec == Init /\ [][Next]_vars

\* Fairness: connect() is under timers (15 s proxy, 30 s jump, 30 s ready)
\* and the server answers a channel request or the keepalive breaks the
\* link; ssh2 closes what broke or ended, a due timer fires, and a channel
\* that was force-closed or lost its client is closed. Nothing says that a
\* command exits.
FairSpec ==
    /\ Spec
    /\ WF_vars(Tunnel)
    /\ WF_vars(Closed)
    /\ WF_vars(Microtask)
    /\ \A c \in Call :
          /\ WF_vars(ChannelOpens(c) \/ ChannelRefused(c) \/ Answered(c) \/ RequestLost(c))
          /\ WF_vars(ForceClose(c))
          /\ WF_vars(ChannelDies(c))

(***************************************************************************)
(* Properties                                                              *)
(***************************************************************************)

\* A failed operation, 'error', 'end' and 'close' may all tell of one loss:
\* the pool hears of it once. (sshAdapter.ts:227-240, 955-976)
ReportedOnce == events <= 1

\* What the pool may rely on (RemoteAdapter): what fails after 'ready' and
\* before the SFTP channel is open ends an adapter nobody listens to yet.
Line ==
    IF connected THEN "up"
    ELSE IF stage \in {"new", "auth", "proxy", "jump", "forward", "handshake"}
         THEN "fresh" ELSE "over"

Adapter == INSTANCE RemoteAdapter WITH
    line <- Line, owed <- queued, told <- events

\* adapter.ts:38-42, isConnected and onDidDisconnect: the connection comes up
\* once, and of a failed operation, 'error', 'end' and 'close' and the queued
\* microtask one at most tells of its end. (sshAdapter.ts:227-240, 955-976)
OneLife == Adapter!Spec

\* Once the adapter failed to connect or was released, no client of it is
\* open, the jump host's included, and its proxy socket is not open either
\* unless a jump host was configured with the proxy: that socket is replaced
\* in connectConfig.sock, or left when the jump host fails, and the code never
\* closes it, see README. (sshAdapter.ts:124-146, 246-257)
NothingLeaks ==
    stage \in {"failed", "released"} =>
        /\ client # "open" /\ client # "idle"
        /\ jump # "open"
        /\ sock = "apart" => via = Tunnels

\* Dropped SSH connections are reported: the pool hears of a loss unless it
\* released the adapter first. (CHANGELOG.md:22)
LossReported ==
    (stage = "up" /\ client = "broken") ~> (events > 0 \/ stage = "released")

\* The client closed in the handshake and connect() still waits.
Unanswered == stage = "handshake" /\ client = "closed"

\* connect() settles unless the link ends in the handshake by 'end' and
\* 'close' alone, which the code does not answer, see README; a cancelled
\* stream settles whatever the command does, and no operation outlives its
\* client. (sshAdapter.ts:148-240, 667-735)
Settles ==
    /\ (stage = "auth") ~>
           (stage \in {"up", "failed", "released"} \/ Unanswered)
    /\ \A c \in Call :
          (state[c] \notin {"new", "done"} /\ (token[c] \/ client # "open")) ~> (state[c] = "done")

\* A call reported as done was done: the command it ran came to its end.
\* The code breaks this, see README. (sshAdapter.ts:634)
OkMeansDone == \A c \in Call : result[c] = "ok" => exited[c]
=============================================================================
