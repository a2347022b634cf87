--------------------------- MODULE SshAdapterProofs ---------------------------
(***************************************************************************)
(* One SSH adapter, for any number of operations: a loss is told once,     *)
(* whoever notices it; whatever way connect() or the connection ends,      *)
(* nothing that was opened stays open; and the adapter has one life, as    *)
(* the interface RemoteAdapter has it.                                     *)
(***************************************************************************)
EXTENDS SshAdapter, TLAPS

\* A loss is told, or on its way, only after _connected was cleared; and
\* _connected is set once, before anybody listens.
TellInv ==
    /\ events \in 0 .. MaxEvent /\ events <= 1
    /\ connected \in BOOLEAN
    /\ queued \in BOOLEAN
    /\ connected \/ queued => events = 0
    /\ ~(connected /\ queued)
    /\ stage \in {"new", "auth", "proxy", "jump", "forward", "handshake"} =>
           ~connected /\ ~queued /\ events = 0

\* The jump host's client is open only where connect() can still end it: in
\* the hands of createJumpSocket, or kept; the proxy socket is apart from the
\* client only where a jump host follows it.
KeepInv ==
    /\ via \in SUBSET Tunnels
    /\ stage = "proxy" => "proxy" \in via
    /\ sock = "apart" => via = Tunnels
    /\ jump = "open" => jumpKept \/ stage = "forward"
    /\ stage = "failed" \/ stage = "released" => ~jumpKept

IInv == TellInv /\ KeepInv /\ NothingLeaks

-----------------------------------------------------------------------------

LEMMA InitHolds == Init => IInv
  <1>. SUFFICES ASSUME Init PROVE IInv
       OBVIOUS
  <1>1. TellInv
    <2>1. events \in 0 .. MaxEvent /\ events <= 1
          BY EventAssumption DEF Init
    <2>2. events = 0 /\ connected = FALSE /\ queued = FALSE
          BY DEF Init
    <2>. QED BY <2>1, <2>2 DEF TellInv
  <1>2. KeepInv /\ NothingLeaks
        BY DEF Init, KeepInv, NothingLeaks
  <1>. QED BY <1>1, <1>2 DEF IInv

\* Ending the adapter, on any path, closes what it holds; j is what has become
\* of a jump host's client that is not kept. (sshAdapter.ts:246-257)
LEMMA EndKeeps ==
    ASSUME IInv, NEW last \in {"failed", "released"}, NEW j,
           j # "open" \/ jumpKept, Disconnect(last, j), UNCHANGED <<via, sock, events>>
    PROVE  IInv'
  <1>1. TellInv'
        BY DEF IInv, TellInv, Disconnect
  <1>2. client' # "open" /\ client' # "idle" /\ jump' # "open" /\ ~jumpKept'
        BY DEF Disconnect, Ended
  <1>3. stage' = last /\ via' = via /\ sock' = sock
        BY DEF Disconnect
  <1>. QED BY <1>1, <1>2, <1>3 DEF IInv, KeepInv, NothingLeaks

LEMMA RejectKeeps ==
    ASSUME IInv, NEW j, Reject(j), j # "open" \/ jumpKept
    PROVE  IInv'
  BY EndKeeps DEF Reject

\* The steps of connect() that do not fail. (sshAdapter.ts:48-218)
LEMMA ConnectKeeps ==
    ASSUME IInv,
           Connect \/ AuthReady \/ ProxyOpens \/ JumpReady \/ Forwarded \/ Ready \/ SftpOpens
    PROVE  IInv'
  <1>1. TellInv'
    <2>1. CASE Connect
          BY <2>1 DEF IInv, TellInv, Connect, Step
    <2>2. CASE AuthReady
          BY <2>2 DEF IInv, TellInv, AuthReady, Onward, Step, AfterProxy
    <2>3. CASE ProxyOpens
          BY <2>3 DEF IInv, TellInv, ProxyOpens, Onward, Step, AfterProxy
    <2>4. CASE JumpReady
          BY <2>4 DEF IInv, TellInv, JumpReady, Step
    <2>5. CASE Forwarded
          BY <2>5 DEF IInv, TellInv, Forwarded, Step
    <2>6. CASE Ready
          BY <2>6 DEF IInv, TellInv, Ready
    <2>7. CASE SftpOpens
          BY <2>7 DEF IInv, TellInv, SftpOpens, Step
    <2>. QED BY <2>1, <2>2, <2>3, <2>4, <2>5, <2>6, <2>7
  <1>2. stage' # "failed" /\ stage' # "released" /\ via' = via
        BY DEF IInv, KeepInv, Connect, AuthReady, ProxyOpens, JumpReady, Forwarded, Ready,
               SftpOpens, Onward, Step, AfterProxy
  <1>3. KeepInv'
    <2>1. CASE Connect \/ Ready \/ SftpOpens
          BY <2>1, <1>2 DEF IInv, KeepInv, Connect, Ready, SftpOpens, Step
    <2>4. CASE AuthReady
      <3>1. /\ sock' = sock /\ jump' = jump /\ jumpKept' = jumpKept
            /\ stage = "auth"
            /\ stage' = (IF "proxy" \in via THEN "proxy" ELSE AfterProxy)
            BY <2>4 DEF AuthReady, Onward, Step
      <3>2. stage' = "proxy" => "proxy" \in via
            BY <3>1 DEF AfterProxy
      <3>. QED BY <3>1, <3>2, <1>2 DEF IInv, KeepInv
    <2>5. CASE ProxyOpens
      <3>1. /\ jump' = jump /\ jumpKept' = jumpKept
            /\ stage = "proxy" /\ stage' \in {"jump", "handshake"}
            /\ sock' = "apart" => "jump" \in via
            BY <2>5 DEF ProxyOpens, Onward, Step, AfterProxy
      <3>2. sock' = "apart" => via = Tunnels
            BY <3>1 DEF IInv, KeepInv, Tunnels
      <3>. QED BY <3>1, <3>2, <1>2 DEF IInv, KeepInv
    <2>2. CASE JumpReady
          BY <2>2, <1>2 DEF IInv, KeepInv, JumpReady, Step
    <2>3. CASE Forwarded
          BY <2>3, <1>2 DEF IInv, KeepInv, Forwarded, Step
    <2>. QED BY <2>1, <2>2, <2>3, <2>4, <2>5
  <1>. QED BY <1>1, <1>2, <1>3 DEF IInv, NothingLeaks

\* The ways in which connect() fails. (sshAdapter.ts:148-225)
LEMMA FailureKeeps ==
    ASSUME IInv,
           AuthFails \/ ProxyFails \/ JumpFails \/ ForwardFails \/ SftpFails \/ ConnectError
    PROVE  IInv'
  <1>1. CASE JumpFails \/ ForwardFails
        BY <1>1, RejectKeeps DEF JumpFails, ForwardFails
  <1>2. CASE AuthFails \/ ProxyFails \/ SftpFails \/ ConnectError
    <2>1. jump # "open" \/ jumpKept
          BY <1>2 DEF IInv, KeepInv, AuthFails, ProxyFails, SftpFails, ConnectError
    <2>2. Reject(jump)
          BY <1>2 DEF AuthFails, ProxyFails, SftpFails, ConnectError
    <2>. QED BY <2>1, <2>2, RejectKeeps
  <1>. QED BY <1>1, <1>2

\* What the transport tells: a flag that was set is told of once.
\* (sshAdapter.ts:227-240)
LEMMA LossKeeps ==
    ASSUME IInv, LinkBreaks \/ EarlyEvent \/ Closed \/ Microtask
    PROVE  IInv'
  <1>1. KeepInv'
        BY DEF IInv, KeepInv, LinkBreaks, EarlyEvent, Closed, Microtask, link
  <1>2. NothingLeaks'
        BY DEF IInv, NothingLeaks, LinkBreaks, EarlyEvent, Closed, Microtask, link
  <1>3. Fire \in 0 .. MaxEvent /\ (events = 0 => Fire <= 1)
        BY EventAssumption DEF Fire, IInv, TellInv
  <1>4. CASE LinkBreaks
        BY <1>4, <1>1, <1>2 DEF IInv, TellInv, LinkBreaks
  <1>5. CASE EarlyEvent \/ Closed
    <2>1. MarkDisconnected /\ queued' = queued /\ stage' = stage
          BY <1>5 DEF EarlyEvent, Closed, link
    <2>2. CASE connected
      <3>1. /\ events = 0 /\ ~queued
            /\ stage \notin {"new", "auth", "proxy", "jump", "forward", "handshake"}
            BY <2>2 DEF IInv, TellInv
      <3>2. events' = Fire /\ connected' = FALSE
            BY <2>1, <2>2 DEF MarkDisconnected
      <3>3. TellInv'
            BY <2>1, <3>1, <3>2, <1>3 DEF IInv, TellInv
      <3>. QED BY <3>3, <1>1, <1>2 DEF IInv
    <2>3. CASE ~connected
      <3>1. events' = events /\ connected' = FALSE
            BY <2>1, <2>3 DEF MarkDisconnected
      <3>2. TellInv'
            BY <2>1, <3>1 DEF IInv, TellInv
      <3>. QED BY <3>2, <1>1, <1>2 DEF IInv
    <2>. QED BY <2>2, <2>3
  <1>6. CASE Microtask
    <2>1. TellInv'
          BY <1>6, <1>3 DEF IInv, TellInv, Microtask, link
    <2>. QED BY <2>1, <1>1, <1>2 DEF IInv
  <1>. QED BY <1>1, <1>2, <1>4, <1>5, <1>6 DEF IInv

\* An operation that fails with the transport clears the flag and leaves the
\* telling to a microtask; no other operation touches either.
\* (sshAdapter.ts:955-976)
LEMMA CallKeeps ==
    ASSUME IInv, NEW c \in Call,
           \/ Begin(c) \/ ChannelOpens(c) \/ ChannelRefused(c) \/ Answered(c)
           \/ RequestLost(c) \/ Exits(c) \/ ClosesWithoutStatus(c)
           \/ CancelStream(c) \/ ForceClose(c)
    PROVE  IInv'
  <1>1. CASE ChannelRefused(c) \/ RequestLost(c)
    <2>1. AfterTransportLoss /\ UNCHANGED <<link, events>>
          BY <1>1 DEF ChannelRefused, RequestLost
    <2>2. TellInv'
          BY <2>1 DEF IInv, TellInv, AfterTransportLoss, link
    <2>. QED BY <2>1, <2>2 DEF IInv, KeepInv, NothingLeaks, link
  <1>2. CASE ~(ChannelRefused(c) \/ RequestLost(c))
    <2>1. UNCHANGED <<link, connected, events, queued>>
          BY <1>2 DEF Begin, ChannelOpens, Answered, Exits, ClosesWithoutStatus,
                      CancelStream, ForceClose
    <2>. QED BY <2>1 DEF IInv, TellInv, KeepInv, NothingLeaks, link
  <1>. QED BY <1>1, <1>2

LEMMA NextKeeps == IInv /\ [Next]_vars => IInv'
  <1>. SUFFICES ASSUME IInv, [Next]_vars PROVE IInv'
       OBVIOUS
  <1>1. CASE Connect \/ Tunnel
        BY <1>1, ConnectKeeps, FailureKeeps DEF Tunnel
  <1>2. CASE Release
    <2>1. jump # "open" \/ jumpKept
          BY <1>2 DEF IInv, KeepInv, Release
    <2>. QED BY <1>2, <2>1, EndKeeps DEF Release
  <1>3. CASE LinkBreaks \/ EarlyEvent \/ Closed \/ Microtask
        BY <1>3, LossKeeps
  <1>4. ASSUME NEW c \in Call,
               \/ Begin(c) \/ ChannelOpens(c) \/ ChannelRefused(c) \/ Answered(c)
               \/ RequestLost(c) \/ Exits(c) \/ ClosesWithoutStatus(c)
               \/ CancelStream(c) \/ ForceClose(c)
        PROVE  IInv'
        BY <1>4, CallKeeps
  <1>5. CASE UNCHANGED vars
        BY <1>5 DEF vars, link, IInv, TellInv, KeepInv, NothingLeaks
  <1>. QED BY <1>1, <1>2, <1>3, <1>4, <1>5 DEF Next

THEOREM Invariance == Spec => []IInv
  BY InitHolds, NextKeeps, PTL DEF Spec

\* Whoever notices a loss first, the pool hears of it once.
\* (sshAdapter.ts:227-240, 955-976)
THEOREM ReportedOnceCorrect == Spec => []ReportedOnce
  <1>1. IInv => ReportedOnce
        BY DEF IInv, TellInv, ReportedOnce
  <1>. QED BY <1>1, Invariance, PTL

\* However connect() fails, and whenever the adapter is released, neither its
\* client nor the jump host's stays open. (sshAdapter.ts:148-168, 246-257)
THEOREM NothingLeaksCorrect == Spec => []NothingLeaks
  <1>1. IInv => NothingLeaks
        BY DEF IInv
  <1>. QED BY <1>1, Invariance, PTL

-----------------------------------------------------------------------------
(* Types                                                                    *)

Kinds == {"sftp", "exec", "stream"}
States == {"new", "asked", "running", "closing", "done"}
Results == {"none", "ok", "nocode", "cancelled", "failed", "lost"}
Marks == [Call -> BOOLEAN]

CallTypes ==
    /\ kind \in [Call -> Kinds] /\ state \in [Call -> States] /\ result \in [Call -> Results]
    /\ exited \in Marks /\ token \in Marks /\ timer \in Marks

LinkTypes ==
    /\ stage \in Stages
    /\ client \in {"none", "idle", "open", "broken", "ended", "closed"}
    /\ sock \in {"none", "client", "apart"}
    /\ jump \in {"none", "open", "ended"}
    /\ jumpKept \in BOOLEAN

\* Ending the adapter, on any path. (sshAdapter.ts:246-257)
LEMMA EndTypes ==
    ASSUME LinkTypes, NEW last \in {"failed", "released"}, NEW j \in {"none", "open", "ended"},
           Disconnect(last, j), sock' = sock
    PROVE  LinkTypes'
  BY DEF LinkTypes, Disconnect, Ended, Stages

LEMMA MarkSet ==
    ASSUME NEW f \in Marks, NEW c \in Call, NEW b \in BOOLEAN
    PROVE  [f EXCEPT ![c] = b] \in Marks
  BY Zenon DEF Marks

\* A call moves on, or settles with any result.
LEMMA StateSet ==
    ASSUME NEW f, NEW S, f \in [Call -> S], NEW c \in Call, NEW v \in S
    PROVE  [f EXCEPT ![c] = v] \in [Call -> S]
  OBVIOUS

LEMMA SettleTypes ==
    ASSUME CallTypes, NEW c \in Call,
           NEW r \in {"ok", "nocode", "cancelled", "failed", "lost"}, Settle(c, r),
           kind' = kind, exited' \in Marks, token' = token
    PROVE  CallTypes'
  <1>1. state' \in [Call -> States] /\ result' \in [Call -> Results]
        BY StateSet DEF CallTypes, Settle, States, Results
  <1>2. timer' \in Marks
        BY MarkSet, Zenon DEF CallTypes, Settle
  <1>3. kind' \in [Call -> Kinds] /\ token' \in Marks
        BY Zenon DEF CallTypes
  <1>. QED BY <1>1, <1>2, <1>3, Zenon DEF CallTypes

\* What a call that does not settle changes.
LEMMA MoveTypes ==
    ASSUME CallTypes, kind' = kind, result' = result, exited' = exited,
           state' \in [Call -> States], token' \in Marks, timer' \in Marks
    PROVE  CallTypes'
  BY Zenon DEF CallTypes

LEMMA CallStepTypes ==
    ASSUME LinkTypes, CallTypes, NEW c \in Call,
           \/ Begin(c) \/ ChannelOpens(c) \/ ChannelRefused(c) \/ Answered(c)
           \/ RequestLost(c) \/ Exits(c) \/ ClosesWithoutStatus(c)
           \/ CancelStream(c) \/ ForceClose(c)
    PROVE  LinkTypes' /\ CallTypes'
  <1>0. exited \in Marks /\ token \in Marks /\ timer \in Marks
        BY DEF CallTypes
  <1>1. LinkTypes'
        BY DEF LinkTypes, Begin, ChannelOpens, ChannelRefused, Answered, RequestLost, Exits,
               ClosesWithoutStatus, CancelStream, ForceClose, link
  <1>2. CASE Begin(c)
    <2>1. kind' = kind /\ exited' = exited /\ token' = token
          BY <1>2 DEF Begin
    <2>2. CASE Settle(c, "lost") \/ Settle(c, "cancelled")
          BY <1>0, <1>1, <2>1, <2>2, SettleTypes
    <2>3. CASE state' = [state EXCEPT ![c] = "asked"] /\ UNCHANGED <<result, timer>>
      <3>1. state' \in [Call -> States]
            BY <2>3, StateSet DEF CallTypes, States
      <3>2. result' = result /\ timer' = timer
            BY <2>3
      <3>. QED BY <1>0, <1>1, <2>1, <3>1, <3>2, MoveTypes
    <2>. QED BY <1>2, <2>2, <2>3 DEF Begin
  <1>3. CASE ChannelOpens(c)
    <2>1. state' \in [Call -> States]
          BY <1>3, StateSet DEF ChannelOpens, CallTypes, States
    <2>2. timer' \in Marks
      <3>. DEFINE b == token[c] /\ kind[c] = "stream"
      <3>1. b \in BOOLEAN /\ timer' = [timer EXCEPT ![c] = b]
            BY <1>3, Zenon DEF ChannelOpens
      <3>. HIDE DEF b
      <3>. QED BY <1>0, <3>1, MarkSet
    <2>3. kind' = kind /\ result' = result /\ exited' = exited /\ token' = token
          BY <1>3 DEF ChannelOpens
    <2>. QED BY <1>0, <1>1, <2>1, <2>2, <2>3, MoveTypes
  <1>4. CASE ChannelRefused(c) \/ RequestLost(c)
    <2>1. Settle(c, "lost") /\ kind' = kind /\ exited' = exited /\ token' = token
          BY <1>4 DEF ChannelRefused, RequestLost
    <2>. QED BY <1>0, <1>1, <2>1, SettleTypes
  <1>5. CASE Answered(c) \/ Exits(c)
    <2>1. exited' = [exited EXCEPT ![c] = TRUE] /\ kind' = kind /\ token' = token
          BY <1>5 DEF Answered, Exits
    <2>2. exited' \in Marks
          BY <1>0, <2>1, MarkSet
    <2>3. Settle(c, "ok") \/ Settle(c, "failed")
          BY <1>5 DEF Answered, Exits
    <2>. QED BY <1>1, <2>1, <2>2, <2>3, SettleTypes
  <1>6. CASE ClosesWithoutStatus(c)
    <2>1. kind' = kind /\ exited' = exited /\ token' = token
          BY <1>6 DEF ClosesWithoutStatus
    <2>2. Settle(c, "ok") \/ Settle(c, "nocode")
          BY <1>6 DEF ClosesWithoutStatus
    <2>. QED BY <1>0, <1>1, <2>1, <2>2, SettleTypes
  <1>7. CASE CancelStream(c)
    <2>1. /\ kind' = kind /\ state' = state /\ result' = result /\ exited' = exited
          /\ token' = [token EXCEPT ![c] = TRUE]
          BY <1>7 DEF CancelStream
    <2>2. timer' \in Marks
      <3>. DEFINE b == state[c] = "running"
      <3>1. b \in BOOLEAN /\ timer' = [timer EXCEPT ![c] = b]
            BY <1>7, Zenon DEF CancelStream
      <3>. HIDE DEF b
      <3>. QED BY <1>0, <3>1, MarkSet
    <2>3. token' \in Marks
          BY <1>0, <2>1, MarkSet
    <2>4. state' \in [Call -> States]
          BY <2>1 DEF CallTypes
    <2>. QED BY <1>1, <2>1, <2>2, <2>3, <2>4, MoveTypes
  <1>8. CASE ForceClose(c)
    <2>1. /\ kind' = kind /\ result' = result /\ exited' = exited /\ token' = token
          /\ timer' = [timer EXCEPT ![c] = FALSE]
          BY <1>8 DEF ForceClose
    <2>2. state' \in [Call -> States]
          BY <1>8, StateSet DEF ForceClose, CallTypes, States
    <2>3. timer' \in Marks
          BY <1>0, <2>1, MarkSet
    <2>. QED BY <1>0, <1>1, <2>1, <2>2, <2>3, MoveTypes
  <1>. QED BY <1>1, <1>2, <1>3, <1>4, <1>5, <1>6, <1>7, <1>8

\* The steps of connect() and of the transport leave the calls alone.
LEMMA LinkStepTypes ==
    ASSUME LinkTypes, CallTypes, IInv,
           Connect \/ Tunnel \/ Release \/ LinkBreaks \/ EarlyEvent \/ Closed \/ Microtask
    PROVE  LinkTypes' /\ CallTypes'
  <1>1. UNCHANGED calls
        BY DEF Connect, Tunnel, AuthReady, AuthFails, ProxyOpens, ProxyFails, JumpReady,
               JumpFails, Forwarded, ForwardFails, Ready, SftpOpens, SftpFails, ConnectError,
               Release, LinkBreaks, EarlyEvent, Closed, Microtask, Onward, Step, Reject
  <1>2. CallTypes'
        BY <1>1 DEF CallTypes, calls
  <1>3. CASE Connect \/ AuthReady \/ ProxyOpens \/ JumpReady \/ Forwarded \/ Ready \/ SftpOpens
    <2>1. CASE Connect
          BY <1>2, <2>1 DEF Connect, Step, LinkTypes, Stages
    <2>2. CASE AuthReady
          BY <1>2, <2>2 DEF AuthReady, Onward, AfterProxy, Step, LinkTypes, Stages
    <2>3. CASE ProxyOpens \/ JumpReady \/ Forwarded
          BY <1>2, <2>3 DEF ProxyOpens, JumpReady, Forwarded, Onward, AfterProxy, Step,
                             LinkTypes, Stages
    <2>4. CASE Ready \/ SftpOpens
          BY <1>2, <2>4 DEF Ready, SftpOpens, Step, LinkTypes, Stages
    <2>. QED BY <1>3, <2>1, <2>2, <2>3, <2>4
  <1>4. CASE \/ AuthFails \/ ProxyFails \/ JumpFails \/ ForwardFails \/ SftpFails
             \/ ConnectError \/ Release
    <2>1. \E last \in {"failed", "released"}, j \in {"none", "open", "ended"} :
              Disconnect(last, j) /\ sock' = sock
          BY <1>4 DEF AuthFails, ProxyFails, JumpFails, ForwardFails, SftpFails, ConnectError,
                      Release, Reject, LinkTypes
    <2>. QED BY <1>2, <2>1, EndTypes
  <1>5. CASE LinkBreaks \/ EarlyEvent \/ Closed \/ Microtask
        BY <1>2, <1>5 DEF LinkBreaks, EarlyEvent, Closed, Microtask, link, LinkTypes
  <1>. QED BY <1>2, <1>3, <1>4, <1>5 DEF Tunnel

\* Whatever interrupts connect() or a call, every field of the adapter has one
\* of its values, the count of the events told among them.
\* (sshAdapter.ts:24-27, 227-257, 606-735)
THEOREM TypeCorrect == Spec => []TypeOK
  <1>. DEFINE Inv == IInv /\ LinkTypes /\ CallTypes
  <1>1. Init => Inv
    <2>. SUFFICES ASSUME Init PROVE Inv
         OBVIOUS
    <2>1. LinkTypes
          BY DEF Init, LinkTypes, Stages
    <2>2. kind \in [Call -> Kinds] /\ state \in [Call -> States] /\ result \in [Call -> Results]
          BY DEF Init, Kinds, States, Results
    <2>3. exited \in Marks /\ token \in Marks /\ timer \in Marks
          BY Zenon DEF Init, Marks
    <2>. QED BY <2>1, <2>2, <2>3, InitHolds DEF CallTypes
  <1>2. Inv /\ [Next]_vars => Inv'
    <2>. SUFFICES ASSUME Inv, [Next]_vars PROVE Inv'
         OBVIOUS
    <2>1. CASE \E c \in Call :
                  \/ Begin(c) \/ ChannelOpens(c) \/ ChannelRefused(c) \/ Answered(c)
                  \/ RequestLost(c) \/ Exits(c) \/ ClosesWithoutStatus(c)
                  \/ CancelStream(c) \/ ForceClose(c)
          BY <2>1, CallStepTypes, NextKeeps
    <2>2. CASE Connect \/ Tunnel \/ Release \/ LinkBreaks \/ EarlyEvent \/ Closed \/ Microtask
          BY <2>2, LinkStepTypes, NextKeeps
    <2>3. CASE UNCHANGED vars
          BY <2>3, NextKeeps DEF vars, link, calls, LinkTypes, CallTypes
    <2>. QED BY <2>1, <2>2, <2>3 DEF Next
  <1>3. Inv => TypeOK
        BY DEF IInv, TellInv, KeepInv, LinkTypes, CallTypes, Kinds, States, Results, Marks, TypeOK
  <1>. HIDE DEF Inv
  <1>. QED BY <1>1, <1>2, <1>3, PTL DEF Spec

-----------------------------------------------------------------------------
(* The adapter implements RemoteAdapter                                     *)

Fresh == stage \in {"new", "auth", "proxy", "jump", "forward", "handshake"}

\* The interface sees an end of connect(), of the connection or of neither.
LEMMA EndImplements ==
    ASSUME IInv, NEW last \in {"failed", "released"}, NEW j,
           Disconnect(last, j), events' = events
    PROVE  Adapter!Next \/ UNCHANGED Adapter!adapterVars
  <1>1. connected' = FALSE /\ queued' = FALSE /\ Line' = "over"
        BY DEF Disconnect, Line
  <1>2. CASE connected
    <2>1. Line = "up" /\ queued = FALSE
          BY <1>2 DEF Line, IInv, TellInv
    <2>. QED BY <1>1, <2>1 DEF Adapter!Next, Adapter!End
  <1>3. CASE ~connected /\ Fresh
    <2>1. Line = "fresh" /\ queued = FALSE
          BY <1>3 DEF Line, Fresh, IInv, TellInv
    <2>. QED BY <1>1, <2>1 DEF Adapter!Next, Adapter!Fail
  <1>4. CASE ~connected /\ ~Fresh
    <2>1. Line = "over"
          BY <1>4 DEF Line, Fresh
    <2>2. CASE queued
          BY <1>1, <2>1, <2>2 DEF Adapter!Next, Adapter!Deliver
    <2>3. CASE ~queued
      <3>1. queued' = queued
            BY <1>1, <2>3 DEF IInv, TellInv
      <3>. QED BY <1>1, <2>1, <3>1 DEF Adapter!adapterVars
    <2>. QED BY <2>2, <2>3
  <1>. QED BY <1>2, <1>3, <1>4

\* connect() as it goes: 'ready' is where the interface says connected.
LEMMA ConnectImplements ==
    ASSUME IInv,
           Connect \/ AuthReady \/ ProxyOpens \/ JumpReady \/ Forwarded \/ Ready \/ SftpOpens
    PROVE  Adapter!Next \/ UNCHANGED Adapter!adapterVars
  <1>1. CASE Connect \/ AuthReady \/ ProxyOpens \/ JumpReady \/ Forwarded
    <2>1. UNCHANGED <<connected, events, queued>>
          BY <1>1 DEF Connect, AuthReady, ProxyOpens, JumpReady, Forwarded, Onward, Step
    <2>2. Fresh
          BY <1>1 DEF Connect, AuthReady, ProxyOpens, JumpReady, Forwarded, Fresh
    <2>3. Fresh'
      <3>1. CASE AuthReady
        <4>1. stage' \in {"handshake", "proxy", "jump"}
              BY <3>1 DEF AuthReady, Onward, AfterProxy, Step
        <4>. QED BY <4>1 DEF Fresh
      <3>2. CASE Connect \/ ProxyOpens \/ JumpReady \/ Forwarded
            BY <3>2 DEF Connect, ProxyOpens, JumpReady, Forwarded, Onward, AfterProxy, Step, Fresh
      <3>. QED BY <1>1, <3>1, <3>2
    <2>4. Line' = Line
          BY <2>1, <2>2, <2>3 DEF Line, Fresh
    <2>. QED BY <2>1, <2>4 DEF Adapter!adapterVars
  <1>2. CASE Ready
    <2>1. Line = "fresh" /\ Line' = "up" /\ UNCHANGED <<events, queued>>
          BY <1>2 DEF Ready, Line, IInv, TellInv
    <2>. QED BY <2>1 DEF Adapter!Next, Adapter!Connect
  <1>3. CASE SftpOpens
    <2>1. Line' = Line /\ UNCHANGED <<events, queued>>
          BY <1>3 DEF SftpOpens, Step, Line
    <2>. QED BY <2>1 DEF Adapter!adapterVars
  <1>. QED BY <1>1, <1>2, <1>3

\* Whoever notices the loss, the interface sees one end.
LEMMA LossImplements ==
    ASSUME IInv, LinkBreaks \/ EarlyEvent \/ Closed \/ Microtask
    PROVE  Adapter!Next \/ UNCHANGED Adapter!adapterVars
  <1>1. stage' = stage
        BY DEF LinkBreaks, EarlyEvent, Closed, Microtask, link
  <1>2. Fire \in {events, events + 1}
        BY DEF Fire
  <1>3. CASE LinkBreaks
    <2>1. UNCHANGED <<connected, events, queued>>
          BY <1>3 DEF LinkBreaks
    <2>. QED BY <1>1, <2>1 DEF Line, Adapter!adapterVars
  <1>4. CASE EarlyEvent \/ Closed
    <2>1. MarkDisconnected /\ queued' = queued
          BY <1>4 DEF EarlyEvent, Closed
    <2>2. CASE connected
      <3>1. Line = "up" /\ Line' = "over"
            BY <1>1, <2>1, <2>2 DEF MarkDisconnected, Line, IInv, TellInv
      <3>2. events' = events \/ events' = events + 1
            BY <1>2, <2>1, <2>2 DEF MarkDisconnected
      <3>. QED BY <2>1, <3>1, <3>2 DEF Adapter!Next, Adapter!End
    <2>3. CASE ~connected
      <3>1. events' = events /\ Line' = Line
            BY <1>1, <2>1, <2>3 DEF MarkDisconnected, Line
      <3>. QED BY <2>1, <3>1 DEF Adapter!adapterVars
    <2>. QED BY <2>2, <2>3
  <1>5. CASE Microtask
    <2>1. queued /\ queued' = FALSE /\ events' \in {events, events + 1} /\ Line' = Line
          BY <1>1, <1>2, <1>5 DEF Microtask, Line
    <2>. QED BY <2>1 DEF Adapter!Next, Adapter!Deliver
  <1>. QED BY <1>3, <1>4, <1>5

\* An operation that dies with the transport owes the event to a microtask.
LEMMA CallImplements ==
    ASSUME IInv, NEW c \in Call,
           \/ Begin(c) \/ ChannelOpens(c) \/ ChannelRefused(c) \/ Answered(c)
           \/ RequestLost(c) \/ Exits(c) \/ ClosesWithoutStatus(c)
           \/ CancelStream(c) \/ ForceClose(c)
    PROVE  Adapter!Next \/ UNCHANGED Adapter!adapterVars
  <1>1. stage' = stage /\ events' = events
        BY DEF Begin, ChannelOpens, ChannelRefused, Answered, RequestLost, Exits,
               ClosesWithoutStatus, CancelStream, ForceClose, link
  <1>2. CASE ChannelRefused(c) \/ RequestLost(c)
    <2>1. connected' = FALSE /\ queued' = (queued \/ connected)
          BY <1>2 DEF ChannelRefused, RequestLost, AfterTransportLoss
    <2>2. CASE connected
      <3>1. Line = "up" /\ Line' = "over" /\ queued' = TRUE
            BY <1>1, <2>1, <2>2 DEF Line, IInv, TellInv
      <3>. QED BY <1>1, <3>1 DEF Adapter!Next, Adapter!End
    <2>3. CASE ~connected
      <3>1. Line' = Line /\ queued' = queued
            BY <1>1, <2>1, <2>3 DEF Line, IInv, TellInv
      <3>. QED BY <1>1, <3>1 DEF Adapter!adapterVars
    <2>. QED BY <2>2, <2>3
  <1>3. CASE ~(ChannelRefused(c) \/ RequestLost(c))
    <2>1. connected' = connected /\ queued' = queued
          BY <1>3 DEF Begin, ChannelOpens, Answered, Exits, ClosesWithoutStatus,
                      CancelStream, ForceClose
    <2>. QED BY <1>1, <2>1 DEF Line, Adapter!adapterVars
  <1>. QED BY <1>2, <1>3

LEMMA AdapterStep == IInv /\ [Next]_vars => [Adapter!Next]_(Adapter!adapterVars)
  <1>. SUFFICES ASSUME IInv, [Next]_vars
                PROVE  Adapter!Next \/ UNCHANGED Adapter!adapterVars
       OBVIOUS
  <1>1. CASE Connect \/ AuthReady \/ ProxyOpens \/ JumpReady \/ Forwarded \/ Ready \/ SftpOpens
        BY <1>1, ConnectImplements
  <1>2. CASE \/ Release
             \/ AuthFails \/ ProxyFails \/ JumpFails \/ ForwardFails \/ SftpFails \/ ConnectError
    <2>1. PICK last \in {"failed", "released"}, j \in {jump, "ended"} :
             Disconnect(last, j) /\ events' = events
          BY <1>2 DEF Release, AuthFails, ProxyFails, JumpFails, ForwardFails, SftpFails,
                      ConnectError, Reject
    <2>. QED BY <2>1, EndImplements
  <1>3. CASE LinkBreaks \/ EarlyEvent \/ Closed \/ Microtask
        BY <1>3, LossImplements
  <1>4. ASSUME NEW c \in Call,
               \/ Begin(c) \/ ChannelOpens(c) \/ ChannelRefused(c) \/ Answered(c)
               \/ RequestLost(c) \/ Exits(c) \/ ClosesWithoutStatus(c)
               \/ CancelStream(c) \/ ForceClose(c)
        PROVE  Adapter!Next \/ UNCHANGED Adapter!adapterVars
        BY <1>4, CallImplements
  <1>5. CASE UNCHANGED vars
        BY <1>5 DEF vars, link, Line, Adapter!adapterVars
  <1>. QED BY <1>1, <1>2, <1>3, <1>4, <1>5 DEF Next, Tunnel

LEMMA AdapterInit == Init => Adapter!Init
  BY DEF Init, Line, Adapter!Init

\* Over SSH, directly and through tunnels, the interface is kept: connected
\* once, and its end told once at most. (sshAdapter.ts:148-261, 955-976)
THEOREM OneLifeCorrect == Spec => OneLife
  BY AdapterInit, AdapterStep, Invariance, PTL DEF Spec, OneLife, Adapter!Spec

\* So an adapter that is over is never connected again, whatever ssh2 still
\* reports: the pool may replace it as stale. (connectionPool.ts:116-122)
THEOREM StaysOverCorrect == Spec => Adapter!StaysOver
  <1>. DEFINE Stays == Line = "over" => Line' = "over"
  <1>1. [Adapter!Next]_(Adapter!adapterVars) => [Stays]_(Adapter!adapterVars)
        BY DEF Adapter!Next, Adapter!Connect, Adapter!Fail, Adapter!End, Adapter!Deliver,
               Adapter!adapterVars
  <1>2. IInv /\ [Next]_vars => [Stays]_(Adapter!adapterVars)
        BY <1>1, AdapterStep
  <1>. HIDE DEF Stays
  <1>3. Spec => [][Stays]_(Adapter!adapterVars)
        BY <1>2, Invariance, PTL DEF Spec
  <1>. QED BY <1>3 DEF Stays, Adapter!StaysOver

\* Nothing is told of an adapter that has not ended, an event that is on its
\* way is the only one, and there is one at most. (sshAdapter.ts:955-976)
THEOREM ToldOnceCorrect == Spec => []Adapter!ToldOnce
  <1>1. Init => Adapter!ToldOnce
        BY AdapterInit DEF Adapter!Init, Adapter!ToldOnce
  <1>2. Adapter!ToldOnce /\ [Adapter!Next]_(Adapter!adapterVars) => Adapter!ToldOnce'
    <2>. SUFFICES ASSUME Adapter!ToldOnce, [Adapter!Next]_(Adapter!adapterVars)
                  PROVE  Adapter!ToldOnce'
         OBVIOUS
    <2>1. CASE Adapter!Connect \/ Adapter!Fail
          BY <2>1 DEF Adapter!Connect, Adapter!Fail, Adapter!ToldOnce
    <2>2. CASE Adapter!End
      <3>1. Line' = "over" /\ events = 0 /\ queued = FALSE
            BY <2>2 DEF Adapter!End, Adapter!ToldOnce
      <3>2. /\ events' = 0 \/ events' = 1
            /\ queued' = FALSE \/ (queued' = TRUE /\ events' = 0)
        <4>1. CASE events' = events + 1 /\ queued' = queued
          <5>1. events' = 1
                BY <3>1, <4>1
          <5>2. queued' = FALSE
                BY <3>1, <4>1, Zenon
          <5>. QED BY <5>1, <5>2
        <4>2. CASE events' = events /\ (queued' = queued \/ queued' = TRUE)
          <5>1. events' = 0
                BY <3>1, <4>2
          <5>2. queued' = FALSE \/ queued' = TRUE
                BY <3>1, <4>2, Zenon
          <5>. QED BY <5>1, <5>2
        <4>3. \/ events' = events + 1 /\ queued' = queued
              \/ events' = events /\ (queued' = queued \/ queued' = TRUE)
              BY <2>2, Zenon DEF Adapter!End
        <4>. QED BY <4>1, <4>2, <4>3
      <3>. QED BY <3>1, <3>2 DEF Adapter!ToldOnce
    <2>3. CASE Adapter!Deliver
      <3>1. /\ queued /\ queued' = FALSE /\ Line' = Line
            /\ events' = events \/ events' = events + 1
            BY <2>3 DEF Adapter!Deliver
      <3>2. Line = "over" /\ events = 0
            BY <3>1 DEF Adapter!ToldOnce
      <3>3. events' = 0 \/ events' = 1
            BY <3>1, <3>2
      <3>. QED BY <3>1, <3>2, <3>3 DEF Adapter!ToldOnce
    <2>4. CASE UNCHANGED Adapter!adapterVars
          BY <2>4 DEF Adapter!adapterVars, Adapter!ToldOnce
    <2>. QED BY <2>1, <2>2, <2>3, <2>4 DEF Adapter!Next
  <1>3. IInv /\ Adapter!ToldOnce /\ [Next]_vars => Adapter!ToldOnce'
        BY <1>2, AdapterStep
  <1>. QED BY <1>1, <1>3, Invariance, PTL DEF Spec
=============================================================================
