--------------------------- MODULE FtpQueueProofs ---------------------------
(* Theorems about FtpQueue, for any number of operations. *)
EXTENDS FtpQueue, FiniteSetTheorems, TLAPS

\* The flags, and the domains of the functions the loop updates.
Flags ==
    /\ connected \in BOOLEAN
    /\ socket \in Socket
    /\ queueRunning \in BOOLEAN
    /\ drainScheduled \in BOOLEAN
    /\ reports \in Nat
    /\ queue \in [Priority -> Seq(Op)]

\* The loss is reported when _connected falls, and it does not rise again.
LossReported ==
    /\ ReportedOnce
    /\ connected => reports = 0
    /\ socket = "none" => ~connected /\ reports = 0

\* What holds between any two continuations of the adapter.
QueueInv ==
    /\ Flags
    /\ OneAtATime
    /\ NoStranded
    /\ DrainedWhenGone
    /\ LossReported

-----------------------------------------------------------------------------
(* The queues *)

\* _shiftQueuedOperation takes from a queue that has something.
LEMMA FrontHasOne ==
    ASSUME queue \in [Priority -> Seq(Op)], HasQueued
    PROVE  /\ Front \in Priority
           /\ Head(queue[Front]) \in Op
           /\ Tail(queue[Front]) \in Seq(Op)
<1>1. Front \in Priority /\ queue[Front] # <<>>
  BY DEF Front, HasQueued, Priority
<1>2. queue[Front] \in Seq(Op)
  BY <1>1
<1>3. QED
  BY <1>1, <1>2

\* The turn of the loop that takes the client from nobody keeps it for one
\* operation, and ends only with nothing left to do.
LEMMA TakeNextKeeps ==
    ASSUME Flags, NEW settled, TakeNext({}, settled)
    PROVE  /\ queue' \in [Priority -> Seq(Op)]
           /\ queueRunning' \in BOOLEAN
           /\ OneAtATime'
           /\ HasQueued' => queueRunning' /\ HasQueued
<1>1. CASE HasQueued
  <2>1. executing' = {Head(queue[Front])} /\ queueRunning' = TRUE
    BY <1>1 DEF TakeNext
  <2>2. queue' = [queue EXCEPT ![Front] = Tail(@)]
    BY <1>1 DEF TakeNext
  <2>3. queue' \in [Priority -> Seq(Op)]
    BY <1>1, <2>2, FrontHasOne DEF Flags
  <2>4. QED
    BY <1>1, <2>1, <2>3 DEF OneAtATime
<1>2. CASE ~HasQueued
  <2>1. executing' = {} /\ queueRunning' = FALSE /\ queue' = queue
    BY <1>2 DEF TakeNext
  <2>2. ~HasQueued'
    BY <1>2, <2>1 DEF HasQueued
  <2>3. QED
    BY <2>1, <2>2 DEF OneAtATime, Flags
<1>3. QED
  BY <1>1, <1>2

\* Whoever notices the loss: it is reported if nobody had noticed it.
LEMMA LossKeeps ==
    ASSUME Flags, LossReported, ConnectionLost,
           socket' = "none" => socket = "none"
    PROVE  connected' \in BOOLEAN /\ reports' \in Nat /\ LossReported'
<1>1. connected' = FALSE
  BY DEF ConnectionLost
<1>2. reports' \in Nat /\ reports' <= 1
  <2>1. CASE connected
    <3>1. reports = 0 /\ reports' = reports + 1
      BY <2>1 DEF ConnectionLost, LossReported
    <3>2. QED
      BY <3>1
  <2>2. CASE ~connected
    <3>1. reports' = reports
      BY <2>2 DEF ConnectionLost
    <3>2. QED
      BY <3>1 DEF Flags, LossReported, ReportedOnce
  <2>3. QED
    BY <2>1, <2>2
<1>3. socket' = "none" => reports' = 0
  BY DEF ConnectionLost, LossReported
<1>4. QED
  BY <1>1, <1>2, <1>3 DEF LossReported, ReportedOnce

-----------------------------------------------------------------------------
(* The inductive invariant *)

\* A new adapter has nothing queued, running or reported.
LEMMA InitInv == Init => QueueInv
<1> SUFFICES ASSUME Init PROVE QueueInv
  OBVIOUS
<1>1. ~HasQueued /\ queue \in [Priority -> Seq(Op)]
  BY DEF Init, HasQueued
<1>2. Flags
  BY <1>1 DEF Init, Flags, Socket
<1>3. OneAtATime /\ NoStranded /\ DrainedWhenGone
  BY <1>1 DEF Init, OneAtATime, NoStranded, DrainedWhenGone
<1>4. LossReported
  BY DEF Init, LossReported, ReportedOnce
<1>5. QED
  BY <1>2, <1>3, <1>4 DEF QueueInv

\* No handler, timer or continuation of the adapter breaks it.
LEMMA NextInv == QueueInv /\ [Next]_vars => QueueInv'
<1> SUFFICES ASSUME QueueInv, [Next]_vars PROVE QueueInv'
  OBVIOUS
<1> USE DEF QueueInv, Flags
<1>1. ASSUME UNCHANGED queue PROVE HasQueued' <=> HasQueued
  BY <1>1 DEF HasQueued
<1>2. CASE Connect
  BY <1>1, <1>2 DEF Connect, loopVars, OneAtATime, NoStranded, DrainedWhenGone,
                    LossReported, ReportedOnce, Socket
<1>3. ASSUME NEW o \in Op, NEW k, Refuse(o, k) PROVE QueueInv'
  BY <1>1, <1>3 DEF Refuse, loopVars, OneAtATime, NoStranded, DrainedWhenGone,
                    LossReported, ReportedOnce
<1>4. ASSUME NEW o \in Op, NEW k, FailFast(o, k) PROVE QueueInv'
  <2>1. /\ ConnectionLost /\ socket' = "dead"
        /\ UNCHANGED <<socket, queue, loopVars>>
    BY <1>4 DEF FailFast
  <2>2. OneAtATime' /\ NoStranded' /\ DrainedWhenGone'
    BY <1>1, <2>1 DEF loopVars, OneAtATime, NoStranded, DrainedWhenGone
  <2>3. QED
    BY <2>1, <2>2, LossKeeps DEF loopVars
<1>5. ASSUME NEW o \in Op, NEW k, NEW s, Push(o, k, s) PROVE QueueInv'
  <2>1. InferPriority(k, s) \in Priority
    BY DEF InferPriority, Priority
  <2>2. queue' \in [Priority -> Seq(Op)]
    BY <1>5, <2>1 DEF Push
  <2>3. drainScheduled' \in BOOLEAN /\ (queueRunning' \/ drainScheduled')
    BY <1>5 DEF Push
  <2>4. socket' = "open"
    BY <1>5 DEF Push
  <2>5. QED
    BY <1>5, <2>2, <2>3, <2>4 DEF Push, OneAtATime, NoStranded, DrainedWhenGone,
                                  LossReported, ReportedOnce
<1>6. CASE Drain
  <2>1. CASE queueRunning
    BY <1>1, <1>6, <2>1 DEF Drain, OneAtATime, NoStranded, DrainedWhenGone,
                            LossReported, ReportedOnce
  <2>2. CASE ~queueRunning
    <3>1. TakeNext({}, outcome)
      BY <1>6, <2>2 DEF Drain, OneAtATime
    <3>2. QED
      BY <1>6, <3>1, TakeNextKeeps DEF Drain, NoStranded, DrainedWhenGone,
                                       LossReported, ReportedOnce
  <2>3. QED
    BY <2>1, <2>2
<1>7. ASSUME NEW o \in Op, NEW r, Done(o, r) PROVE QueueInv'
  <2>1. executing \ {o} = {}
    BY <1>7 DEF Done, OneAtATime
  <2>2. TakeNext({}, [outcome EXCEPT ![o] = r])
    BY <1>7, <2>1 DEF Done
  <2>3. (socket' = socket \/ socket' = "dead") /\ drainScheduled' = drainScheduled
    BY <1>7 DEF Done
  <2>4. connected' \in BOOLEAN /\ reports' \in Nat /\ LossReported'
    <3>1. CASE r = "lost"
      <4>1. ConnectionLost
        BY <1>7, <3>1 DEF Done
      <4>2. QED
        BY <2>3, <4>1, LossKeeps
    <3>2. CASE r # "lost"
      BY <1>7, <3>2 DEF Done, LossReported, ReportedOnce
    <3>3. QED
      BY <3>1, <3>2
  <2>5. QED
    BY <2>2, <2>3, <2>4, TakeNextKeeps DEF NoStranded, DrainedWhenGone, Socket
<1>8. CASE SocketDies \/ SocketError \/ SocketClose
  <2>1. UNCHANGED <<queue, loopVars>> /\ socket' \in {"dead", "closed"}
    BY <1>8 DEF SocketDies, SocketError, SocketClose
  <2>2. OneAtATime' /\ NoStranded' /\ DrainedWhenGone'
    BY <1>1, <2>1 DEF loopVars, OneAtATime, NoStranded, DrainedWhenGone
  <2>3. connected' \in BOOLEAN /\ reports' \in Nat /\ LossReported'
    <3>1. CASE SocketDies
      BY <3>1 DEF SocketDies, LossReported, ReportedOnce
    <3>2. CASE SocketError
      BY <3>2 DEF SocketError, LossReported, ReportedOnce
    <3>3. CASE SocketClose
      BY <3>3, <2>1, LossKeeps DEF SocketClose
    <3>4. QED
      BY <1>8, <3>1, <3>2, <3>3
  <2>4. QED
    BY <2>1, <2>2, <2>3 DEF loopVars, Socket
<1>9. CASE Disconnect
  <2>1. ~HasQueued' /\ queue' \in [Priority -> Seq(Op)]
    BY <1>9 DEF Disconnect, HasQueued
  <2>2. ConnectionLost /\ socket' = "gone" /\ UNCHANGED loopVars
    BY <1>9 DEF Disconnect
  <2>3. OneAtATime' /\ NoStranded' /\ DrainedWhenGone'
    BY <2>1, <2>2 DEF loopVars, OneAtATime, NoStranded, DrainedWhenGone
  <2>4. QED
    BY <2>1, <2>2, <2>3, LossKeeps DEF loopVars, Socket
<1>10. CASE UNCHANGED vars
  BY <1>1, <1>10 DEF vars, loopVars, OneAtATime, NoStranded, DrainedWhenGone,
                     LossReported, ReportedOnce
<1>11. QED
  BY <1>2, <1>3, <1>4, <1>5, <1>6, <1>7, <1>8, <1>9, <1>10
     DEF Next, Enqueue, Keepalive

-----------------------------------------------------------------------------
(* The theorems *)

\* The invariant holds in every state of the adapter.
THEOREM QueueInvariance == Spec => []QueueInv
BY InitInv, NextInv, PTL DEF Spec

\* Operations never overlap on the client, and the loop that runs one holds
\* the flag.
THEOREM OneAtATimeCorrect == Spec => []OneAtATime
<1>1. QueueInv => OneAtATime
  BY DEF QueueInv
<1>2. QED
  BY QueueInvariance, <1>1, PTL

\* Nothing waits in a queue that no loop will look at again.
THEOREM NoStrandedCorrect == Spec => []NoStranded
<1>1. QueueInv => NoStranded
  BY DEF QueueInv
<1>2. QED
  BY QueueInvariance, <1>1, PTL

\* disconnect() leaves nothing in the queues, and nothing enters them after it.
THEOREM DrainedWhenGoneCorrect == Spec => []DrainedWhenGone
<1>1. QueueInv => DrainedWhenGone
  BY DEF QueueInv
<1>2. QED
  BY QueueInvariance, <1>1, PTL

\* One loss is reported once, whoever notices it.
THEOREM ReportedOnceCorrect == Spec => []ReportedOnce
<1>1. QueueInv => ReportedOnce
  BY DEF QueueInv, LossReported
<1>2. QED
  BY QueueInvariance, <1>1, PTL

-----------------------------------------------------------------------------
(* The order of the queue: no operation runs before the mutations it was    *)
(* issued after have settled.  Mutations go to the first of the queues,     *)
(* behind each other, whatever their source, and the loop takes from it     *)
(* while it holds any.                                                      *)

\* Who is where: a queue has its operations once, and nobody else's.
PlaceInv ==
    /\ outcome \in [Op -> Outcome]
    /\ kind \in [Op -> Kind]
    /\ before \in [Op -> SUBSET Op]
    /\ \A o \in Op : outcome[o] = "running" <=> o \in executing
    /\ executing \subseteq Op
    /\ \A p \in Priority : \A i \in DOMAIN queue[p] : outcome[queue[p][i]] = "queued"
    /\ \A p, q \in Priority : \A i \in DOMAIN queue[p], j \in DOMAIN queue[q] :
          queue[p][i] = queue[q][j] => p = q /\ i = j

\* A mutation that waits does so in the first of the queues.
HighInv ==
    \A o \in Op : outcome[o] = "queued" /\ kind[o] = "mutate" =>
        \E i \in DOMAIN queue["high"] : queue["high"][i] = o

\* What an operation was issued after are mutations, issued before it.
BeforeInv ==
    \A o \in Op : \A w \in before[o] : kind[w] = "mutate" /\ outcome[w] # "idle"

\* In the first queue an operation stands behind those it was issued after.
AheadInv ==
    \A i \in DOMAIN queue["high"] : \A w \in before[queue["high"][i]] :
        outcome[w] = "queued" => \E j \in DOMAIN queue["high"] :
                                    j < i /\ queue["high"][j] = w

OrderInv == PlaceInv /\ HighInv /\ BeforeInv /\ AheadInv /\ AfterMutations

-----------------------------------------------------------------------------

LEMMA InitOrder == Init => OrderInv
<1> SUFFICES ASSUME Init PROVE OrderInv
  OBVIOUS
<1>1. PlaceInv
  BY DEF Init, PlaceInv, Outcome, Kind
<1>2. HighInv /\ BeforeInv /\ AheadInv /\ AfterMutations
  BY DEF Init, HighInv, BeforeInv, AheadInv, AfterMutations, Priority
<1>3. QED
  BY <1>1, <1>2 DEF OrderInv

\* A mutation that is asked for waits behind all others.
LEMMA IssueOrder ==
    ASSUME OrderInv, NEW o \in Op, NEW k \in Kind, NEW r \in Outcome \ {"idle", "running"},
           Issue(o, k, r)
    PROVE  /\ outcome' \in [Op -> Outcome] /\ kind' \in [Op -> Kind]
           /\ before' \in [Op -> SUBSET Op]
           /\ BeforeInv'
           /\ outcome[o] = "idle" /\ outcome'[o] = r /\ kind'[o] = k
           /\ before'[o] \subseteq {w \in Op : outcome[w] \in {"queued", "running"} /\ kind[w] = "mutate"}
           /\ \A e \in Op \ {o} : outcome'[e] = outcome[e] /\ kind'[e] = kind[e]
                                  /\ before'[e] = before[e] /\ o \notin before[e]
<1> USE DEF OrderInv, PlaceInv
<1>1. outcome[o] = "idle" /\ outcome' = [outcome EXCEPT ![o] = r]
  BY DEF Issue
<1>2. kind' = [kind EXCEPT ![o] = k]
  BY DEF Issue
<1>3. before' = [before EXCEPT ![o] = {w \in Unsettled : kind[w] = "mutate"}]
  BY DEF Issue
<1>4. outcome' \in [Op -> Outcome] /\ kind' \in [Op -> Kind]
  BY <1>1, <1>2
<1>5. before' \in [Op -> SUBSET Op]
  BY <1>3 DEF Unsettled
<1>6. before'[o] \subseteq {w \in Op : outcome[w] \in {"queued", "running"} /\ kind[w] = "mutate"}
  BY <1>3 DEF Unsettled
<1>7. \A e \in Op \ {o} : /\ outcome'[e] = outcome[e] /\ kind'[e] = kind[e]
                          /\ before'[e] = before[e] /\ o \notin before[e]
  BY <1>1, <1>2, <1>3 DEF BeforeInv
<1>8. o \notin before'[o]
  BY <1>1, <1>6
<1>9. BeforeInv'
  <2> SUFFICES ASSUME NEW e \in Op, NEW w \in before'[e]
               PROVE  kind'[w] = "mutate" /\ outcome'[w] # "idle"
    BY DEF BeforeInv
  <2>1. w \in Op
    BY <1>5
  <2>2. CASE e = o
    BY <1>6, <1>7, <1>8, <2>1, <2>2
  <2>3. CASE e # o
    <3>1. w \in before[e] /\ w # o
      BY <1>7, <2>3
    <3>2. QED
      BY <1>7, <2>1, <3>1 DEF BeforeInv
  <2>4. QED
    BY <2>2, <2>3
<1>10. QED
  BY <1>1, <1>2, <1>4, <1>5, <1>6, <1>7, <1>9

\* A request that is turned down disturbs nobody.
LEMMA TurnedDown ==
    ASSUME Flags, OrderInv, NEW o \in Op, NEW k \in Kind, NEW r \in Settled,
           Issue(o, k, r), UNCHANGED <<queue, executing>>
    PROVE  OrderInv'
<1>1. r \in Outcome \ {"idle", "running", "queued"}
  BY DEF Outcome, Settled
<1> USE DEF OrderInv, PlaceInv
<1>2. /\ outcome' \in [Op -> Outcome] /\ kind' \in [Op -> Kind]
      /\ before' \in [Op -> SUBSET Op] /\ BeforeInv'
      /\ outcome[o] = "idle" /\ outcome'[o] = r
      /\ \A e \in Op \ {o} : /\ outcome'[e] = outcome[e] /\ kind'[e] = kind[e]
                             /\ before'[e] = before[e] /\ o \notin before[e]
  BY <1>1, IssueOrder
<1>3. \A p \in Priority : \A i \in DOMAIN queue[p] : queue[p][i] \in Op \ {o}
  BY <1>2 DEF Flags
<1>4. PlaceInv'
  BY <1>1, <1>2, <1>3
<1>5. HighInv'
  BY <1>1, <1>2 DEF HighInv
<1>6. AheadInv'
  <2>1. "high" \in Priority
    BY DEF Priority
  <2>2. \A i \in DOMAIN queue["high"] : queue["high"][i] \in Op \ {o}
    BY <1>3, <2>1
  <2> SUFFICES ASSUME NEW i \in DOMAIN queue["high"], NEW w \in before'[queue["high"][i]],
                      outcome'[w] = "queued"
               PROVE  \E j \in DOMAIN queue["high"] : j < i /\ queue["high"][j] = w
    BY DEF AheadInv
  <2>3. w \in before[queue["high"][i]] /\ w \in Op /\ w # o
    BY <1>1, <1>2, <2>2
  <2>4. QED
    BY <1>2, <2>3 DEF AheadInv
<1>7. AfterMutations'
  BY <1>1, <1>2 DEF AfterMutations
<1>8. QED
  BY <1>2, <1>4, <1>5, <1>6, <1>7

\* The queue grows at its end.
LEMMA PushOrder ==
    ASSUME Flags, OrderInv, NEW o \in Op, NEW k \in Kind, NEW s, Push(o, k, s)
    PROVE  OrderInv'
<1> DEFINE P == InferPriority(k, s)
<1>1. P \in Priority /\ "high" \in Priority /\ (k = "mutate" => P = "high")
  BY DEF InferPriority, Priority
<1>2. queue' = [queue EXCEPT ![P] = Append(@, o)] /\ executing' = executing
  BY DEF Push
<1> HIDE DEF P
<1>3. "queued" \in Outcome \ {"idle", "running"}
  BY DEF Outcome
<1> USE DEF OrderInv, PlaceInv
<1>4. /\ outcome' \in [Op -> Outcome] /\ kind' \in [Op -> Kind]
      /\ before' \in [Op -> SUBSET Op] /\ BeforeInv'
      /\ outcome[o] = "idle" /\ outcome'[o] = "queued" /\ kind'[o] = k
      /\ before'[o] \subseteq {w \in Op : /\ outcome[w] \in {"queued", "running"}
                                          /\ kind[w] = "mutate"}
      /\ \A e \in Op \ {o} : /\ outcome'[e] = outcome[e] /\ kind'[e] = kind[e]
                             /\ before'[e] = before[e] /\ o \notin before[e]
  BY <1>3, IssueOrder DEF Push
<1>5. \A p \in Priority : \A i \in DOMAIN queue[p] : queue[p][i] \in Op \ {o}
  BY <1>4 DEF Flags
<1>6. /\ \A p \in Priority \ {P} : queue'[p] = queue[p]
      /\ queue'[P] = Append(queue[P], o)
  BY <1>1, <1>2 DEF Flags
<1>7. \A p \in Priority : queue[p] \in Seq(Op)
  BY DEF Flags
<1>8. /\ DOMAIN queue'[P] = DOMAIN queue[P] \cup {Len(queue[P]) + 1}
      /\ queue'[P][Len(queue[P]) + 1] = o
      /\ \A i \in DOMAIN queue[P] : queue'[P][i] = queue[P][i]
      /\ \A i \in DOMAIN queue[P] : i < Len(queue[P]) + 1
  BY <1>1, <1>6, <1>7
<1>9. PlaceInv'
  <2>1. \A e \in Op : outcome'[e] = "running" <=> e \in executing'
    BY <1>2, <1>4
  <2>2. ASSUME NEW p \in Priority, NEW i \in DOMAIN queue'[p]
        PROVE  outcome'[queue'[p][i]] = "queued"
    <3>1. CASE p = P /\ i = Len(queue[P]) + 1
      BY <1>4, <1>8, <3>1
    <3>2. CASE ~(p = P /\ i = Len(queue[P]) + 1)
      <4>1. i \in DOMAIN queue[p] /\ queue'[p][i] = queue[p][i]
        BY <1>6, <1>8, <3>2
      <4>2. queue[p][i] \in Op \ {o} /\ outcome[queue[p][i]] = "queued"
        BY <1>5, <4>1
      <4>3. QED
        BY <1>4, <4>1, <4>2
    <3>3. QED
      BY <3>1, <3>2
  <2>3. ASSUME NEW p \in Priority, NEW q \in Priority, NEW i \in DOMAIN queue'[p],
               NEW j \in DOMAIN queue'[q], queue'[p][i] = queue'[q][j]
        PROVE  p = q /\ i = j
    <3>1. CASE queue'[p][i] = o
      <4>1. p = P /\ i = Len(queue[P]) + 1
        BY <1>5, <1>6, <1>8, <3>1
      <4>2. queue'[q][j] = o
        BY <2>3, <3>1
      <4>3. q = P /\ j = Len(queue[P]) + 1
        BY <1>5, <1>6, <1>8, <4>2
      <4>4. QED
        BY <4>1, <4>3
    <3>2. CASE queue'[p][i] # o
      <4>1. i \in DOMAIN queue[p] /\ queue'[p][i] = queue[p][i]
        BY <1>6, <1>8, <3>2
      <4>2. queue'[q][j] # o
        BY <2>3, <3>2
      <4>3. j \in DOMAIN queue[q] /\ queue'[q][j] = queue[q][j]
        BY <1>6, <1>8, <4>2
      <4>4. queue[p][i] = queue[q][j]
        BY <2>3, <4>1, <4>3
      <4>5. QED
        BY <4>1, <4>3, <4>4
    <3>3. QED
      BY <3>1, <3>2
  <2>4. QED
    BY <1>2, <1>4, <2>1, <2>2, <2>3
<1>10. HighInv'
  <2> SUFFICES ASSUME NEW e \in Op, outcome'[e] = "queued", kind'[e] = "mutate"
               PROVE  \E i \in DOMAIN queue'["high"] : queue'["high"][i] = e
    BY DEF HighInv
  <2>1. CASE e = o
    BY <1>1, <1>4, <1>8, <2>1
  <2>2. CASE e # o
    <3>1. PICK i \in DOMAIN queue["high"] : queue["high"][i] = e
      BY <1>4, <2>2 DEF HighInv
    <3>2. i \in DOMAIN queue'["high"] /\ queue'["high"][i] = e
      BY <1>1, <1>6, <1>8, <3>1
    <3>3. QED
      BY <3>2
  <2>3. QED
    BY <2>1, <2>2
<1>11. AheadInv'
  <2> SUFFICES ASSUME NEW i \in DOMAIN queue'["high"], NEW w \in before'[queue'["high"][i]],
                      outcome'[w] = "queued"
               PROVE  \E j \in DOMAIN queue'["high"] : j < i /\ queue'["high"][j] = w
    BY DEF AheadInv
  <2>1. CASE P = "high" /\ i = Len(queue[P]) + 1
    <3>1. w \in Op /\ outcome[w] = "queued" /\ kind[w] = "mutate" /\ w # o
      BY <1>4, <1>8, <2>1
    <3>2. PICK j \in DOMAIN queue["high"] : queue["high"][j] = w
      BY <3>1 DEF HighInv
    <3>3. j \in DOMAIN queue'["high"] /\ queue'["high"][j] = w /\ j < i
      BY <1>8, <2>1, <3>2
    <3>4. QED
      BY <3>3
  <2>2. CASE ~(P = "high" /\ i = Len(queue[P]) + 1)
    <3>1. i \in DOMAIN queue["high"] /\ queue'["high"][i] = queue["high"][i]
      BY <1>1, <1>6, <1>8, <2>2
    <3>2. queue["high"][i] \in Op \ {o}
      BY <1>1, <1>5, <3>1
    <3>3. w \in before[queue["high"][i]] /\ w \in Op \ {o}
      BY <1>4, <3>1, <3>2
    <3>4. PICK j \in DOMAIN queue["high"] : j < i /\ queue["high"][j] = w
      BY <1>4, <3>1, <3>3 DEF AheadInv
    <3>5. j \in DOMAIN queue'["high"] /\ queue'["high"][j] = w
      BY <1>1, <1>6, <1>8, <3>4
    <3>6. QED
      BY <3>4, <3>5
  <2>3. QED
    BY <2>1, <2>2
<1>12. AfterMutations'
  BY <1>2, <1>4 DEF AfterMutations, Settled
<1>13. QED
  BY <1>4, <1>9, <1>10, <1>11, <1>12

\* Operations that leave the client have settled; nobody else does.
Leaves(settled) ==
    /\ settled \in [Op -> Outcome]
    /\ \A o \in Op : /\ settled[o] # "running"
                     /\ \/ settled[o] = outcome[o]
                        \/ outcome[o] = "running" /\ settled[o] \in Settled

\* The operation the loop takes is the first of the first queue that has one,
\* so whatever it was issued after has left the queues, and the client.
LEMMA TakeOrder ==
    ASSUME Flags, OrderInv, NEW settled, Leaves(settled), TakeNext({}, settled),
           UNCHANGED <<kind, before>>
    PROVE  OrderInv'
<1>1. \A x \in Op :
          /\ settled[x] \in Outcome /\ settled[x] # "running"
          /\ settled[x] \in {"queued", "idle"} => outcome[x] = settled[x]
          /\ outcome[x] \in {"queued", "idle"} => settled[x] = outcome[x]
  BY DEF Leaves, Settled
<1>2. \A p \in Priority : queue[p] \in Seq(Op)
  BY DEF Flags
<1>3. kind' = kind /\ before' = before /\ \A o \in Op : before[o] \subseteq Op
  BY DEF OrderInv, PlaceInv
<1>4. /\ \A p \in Priority : \A i \in DOMAIN queue[p] : outcome[queue[p][i]] = "queued"
      /\ \A p, q \in Priority : \A i \in DOMAIN queue[p], j \in DOMAIN queue[q] :
            queue[p][i] = queue[q][j] => p = q /\ i = j
  BY DEF OrderInv, PlaceInv
<1>5. "high" \in Priority
  BY DEF Priority
<1>6. CASE ~HasQueued
  <2>1. executing' = {} /\ outcome' = settled /\ queue' = queue
    BY <1>6 DEF TakeNext
  <2>2. PlaceInv'
    <3>1. \A p \in Priority : \A i \in DOMAIN queue[p] : queue[p][i] \in Op
      BY <1>2
    <3>2. QED
      BY <1>1, <2>1, <3>1 DEF Leaves, OrderInv, PlaceInv
  <2>3. HighInv' /\ BeforeInv'
    BY <1>3, <1>1, <2>1 DEF OrderInv, HighInv, BeforeInv
  <2>4. AheadInv'
    <3>1. \A i \in DOMAIN queue["high"] : before[queue["high"][i]] \subseteq Op
      BY <1>3, <1>2, <1>5
    <3>2. QED
      BY <1>3, <1>1, <2>1, <3>1 DEF OrderInv, AheadInv
  <2>5. AfterMutations'
    BY <2>1 DEF AfterMutations
  <2>6. QED
    BY <2>2, <2>3, <2>4, <2>5 DEF OrderInv
<1>7. CASE HasQueued
  <2> DEFINE F == Front
             o == Head(queue[F])
  <2>1. F \in Priority /\ queue[F] # <<>> /\ (queue["high"] # <<>> => F = "high")
    BY <1>7 DEF Front, HasQueued, Priority
  <2>2. /\ queue' = [queue EXCEPT ![F] = Tail(@)] /\ executing' = {o}
        /\ outcome' = [settled EXCEPT ![o] = "running"]
    BY <1>7 DEF TakeNext
  <2> HIDE DEF F
  <2>3. o \in Op /\ 1 \in DOMAIN queue[F] /\ queue[F][1] = o
    BY <1>2, <2>1
  <2>4. outcome[o] = "queued"
    BY <1>4, <2>1, <2>3
  <2> HIDE DEF o
  <2>5. /\ outcome' \in [Op -> Outcome] /\ outcome'[o] = "running"
        /\ \A e \in Op \ {o} : outcome'[e] = settled[e]
    BY <2>2, <2>3 DEF Leaves, Outcome
  <2>6. /\ \A p \in Priority \ {F} : queue'[p] = queue[p]
        /\ queue'[F] = Tail(queue[F])
    BY <2>1, <2>2 DEF Flags
  <2>7. /\ \A i \in DOMAIN queue'[F] :
              /\ i + 1 \in DOMAIN queue[F] /\ i + 1 # 1 /\ i \in Nat
              /\ queue'[F][i] = queue[F][i + 1]
        /\ \A i \in DOMAIN queue[F] \ {1} :
              /\ i - 1 \in DOMAIN queue'[F] /\ i \in Nat
              /\ queue'[F][i - 1] = queue[F][i]
    BY <1>2, <2>1, <2>6
  <2>8. \A p \in Priority : \A i \in DOMAIN queue'[p] :
            /\ queue'[p][i] \in Op \ {o}
            /\ outcome[queue'[p][i]] = "queued"
    <3> SUFFICES ASSUME NEW p \in Priority, NEW i \in DOMAIN queue'[p]
                 PROVE  queue'[p][i] \in Op \ {o} /\ outcome[queue'[p][i]] = "queued"
      OBVIOUS
    <3>1. PICK j \in DOMAIN queue[p] : queue'[p][i] = queue[p][j] /\ ~(p = F /\ j = 1)
      <4>1. CASE p = F
        BY <2>7, <4>1
      <4>2. CASE p # F
        BY <2>6, <4>2
      <4>3. QED
        BY <4>1, <4>2
    <3>2. queue[p][j] \in Op /\ outcome[queue[p][j]] = "queued"
      BY <1>2, <1>4
    <3>3. queue[p][j] # queue[F][1]
      BY <1>4, <2>1, <2>3, <3>1
    <3>4. QED
      BY <2>3, <3>1, <3>2, <3>3
  <2>9. PlaceInv'
    <3>1. \A e \in Op : outcome'[e] = "running" <=> e \in executing'
      BY <1>1, <2>2, <2>3, <2>5
    <3>2. \A p \in Priority : \A i \in DOMAIN queue'[p] : outcome'[queue'[p][i]] = "queued"
      <4> SUFFICES ASSUME NEW p \in Priority, NEW i \in DOMAIN queue'[p]
                   PROVE  outcome'[queue'[p][i]] = "queued"
        OBVIOUS
      <4>1. queue'[p][i] \in Op \ {o} /\ outcome[queue'[p][i]] = "queued"
        BY <2>8
      <4>2. QED
        BY <1>1, <2>5, <4>1
    <3>3. ASSUME NEW p \in Priority, NEW q \in Priority, NEW i \in DOMAIN queue'[p],
                 NEW j \in DOMAIN queue'[q], queue'[p][i] = queue'[q][j]
          PROVE  p = q /\ i = j
      <4>1. PICK x \in DOMAIN queue[p] :
                /\ queue'[p][i] = queue[p][x]
                /\ x = IF p = F THEN i + 1 ELSE i
        <5>1. CASE p = F
          BY <2>7, <5>1
        <5>2. CASE p # F
          BY <2>6, <5>2
        <5>3. QED
          BY <5>1, <5>2
      <4>2. PICK y \in DOMAIN queue[q] :
                /\ queue'[q][j] = queue[q][y]
                /\ y = IF q = F THEN j + 1 ELSE j
        <5>1. CASE q = F
          BY <2>7, <5>1
        <5>2. CASE q # F
          BY <2>6, <5>2
        <5>3. QED
          BY <5>1, <5>2
      <4>3. queue[p][x] = queue[q][y]
        BY <3>3, <4>1, <4>2
      <4>4. p = q /\ x = y
        BY <1>4, <4>3
      <4>5. CASE p = F
        BY <2>7, <4>1, <4>2, <4>4, <4>5
      <4>6. CASE p # F
        BY <4>1, <4>2, <4>4, <4>6
      <4>7. QED
        BY <4>4, <4>5, <4>6
    <3>4. executing' \subseteq Op
      BY <2>2, <2>3
    <3>5. kind' \in [Op -> Kind] /\ before' \in [Op -> SUBSET Op]
      BY <1>3 DEF OrderInv, PlaceInv
    <3>6. QED
      BY <2>5, <3>1, <3>2, <3>3, <3>4, <3>5 DEF PlaceInv
  <2>10. HighInv'
    <3> SUFFICES ASSUME NEW e \in Op, outcome'[e] = "queued", kind[e] = "mutate"
                 PROVE  \E i \in DOMAIN queue'["high"] : queue'["high"][i] = e
      BY <1>3 DEF HighInv
    <3>1. e # o /\ outcome[e] = "queued"
      BY <1>1, <2>5
    <3>2. PICK i \in DOMAIN queue["high"] : queue["high"][i] = e
      BY <3>1 DEF OrderInv, HighInv
    <3>3. F = "high"
      BY <1>2, <1>5, <2>1, <3>2
    <3>4. i # 1
      BY <2>3, <3>1, <3>2, <3>3
    <3>5. i - 1 \in DOMAIN queue'["high"] /\ queue'["high"][i - 1] = e
      BY <2>7, <3>2, <3>3, <3>4
    <3>6. QED
      BY <3>5
  <2>11. BeforeInv'
    <3> SUFFICES ASSUME NEW e \in Op, NEW w \in before[e]
                 PROVE  kind[w] = "mutate" /\ outcome'[w] # "idle"
      BY <1>3 DEF BeforeInv
    <3>1. w \in Op /\ kind[w] = "mutate" /\ outcome[w] # "idle"
      BY <1>3 DEF OrderInv, BeforeInv
    <3>2. QED
      BY <1>1, <2>5, <3>1
  <2>12. AheadInv'
    <3> SUFFICES ASSUME NEW i \in DOMAIN queue'["high"], NEW w \in before[queue'["high"][i]],
                        outcome'[w] = "queued"
                 PROVE  \E j \in DOMAIN queue'["high"] : j < i /\ queue'["high"][j] = w
      BY <1>3 DEF AheadInv
    <3>1. queue'["high"][i] \in Op
      BY <1>5, <2>8
    <3>2. w \in Op
      BY <1>3, <3>1
    <3>3. w # o /\ outcome[w] = "queued"
      BY <1>1, <2>5, <3>2
    <3>4. F = "high"
      <4>1. CASE queue["high"] = <<>>
        BY <2>1, <2>6, <1>5, <4>1
      <4>2. QED
        BY <2>1, <4>1
    <3>5. i + 1 \in DOMAIN queue["high"] /\ queue["high"][i + 1] = queue'["high"][i] /\ i \in Nat
      BY <2>7, <3>4
    <3>6. PICK j \in DOMAIN queue["high"] : j < i + 1 /\ queue["high"][j] = w
      BY <3>3, <3>5 DEF OrderInv, AheadInv
    <3>7. j # 1
      BY <2>3, <3>3, <3>4, <3>6
    <3>8. j - 1 \in DOMAIN queue'["high"] /\ queue'["high"][j - 1] = w /\ j \in Nat
      BY <2>7, <3>4, <3>6, <3>7
    <3>9. j - 1 < i
      BY <3>5, <3>6, <3>8
    <3>10. QED
      BY <3>8, <3>9
  <2>13. AfterMutations'
    <3> SUFFICES ASSUME NEW w \in before[o]
                 PROVE  outcome'[w] \in Settled
      BY <1>3, <2>2 DEF AfterMutations
    <3>1. w \in Op /\ kind[w] = "mutate" /\ outcome[w] # "idle"
      BY <1>3, <2>3 DEF OrderInv, BeforeInv
    <3>2. outcome[w] # "queued"
      <4> SUFFICES ASSUME outcome[w] = "queued" PROVE FALSE
        OBVIOUS
      <4>1. PICK i \in DOMAIN queue["high"] : queue["high"][i] = w
        BY <3>1 DEF OrderInv, HighInv
      <4>2. F = "high"
        BY <1>2, <1>5, <2>1, <4>1
      <4>3. PICK j \in DOMAIN queue["high"] : j < 1
        BY <2>3, <4>2 DEF OrderInv, AheadInv
      <4>4. QED
        BY <1>2, <1>5, <4>3
    <3>3. w # o
      BY <2>4, <3>2
    <3>4. QED
      BY <1>1, <2>5, <3>1, <3>2, <3>3 DEF Outcome, Settled
  <2>14. QED
    BY <2>9, <2>10, <2>11, <2>12, <2>13 DEF OrderInv
<1>8. QED
  BY <1>6, <1>7

\* The operation on the client ends; nobody else was there.
LEMMA DoneOrder ==
    ASSUME Flags, OneAtATime, OrderInv, NEW o \in Op, NEW r, Done(o, r)
    PROVE  OrderInv'
<1>1. executing = {o} /\ r \in Settled
  BY DEF Done, OneAtATime, Results, Swallowed, Settled
<1>2. TakeNext({}, [outcome EXCEPT ![o] = r]) /\ UNCHANGED <<kind, before>>
  BY <1>1 DEF Done
<1>3. Leaves([outcome EXCEPT ![o] = r])
  <2>1. outcome \in [Op -> Outcome] /\ \A e \in Op : outcome[e] = "running" <=> e = o
    BY <1>1 DEF OrderInv, PlaceInv
  <2>2. r \in Outcome /\ r # "running"
    BY <1>1 DEF Outcome, Settled
  <2>3. QED
    BY <1>1, <2>1, <2>2 DEF Leaves
<1>4. QED
  BY <1>2, <1>3, TakeOrder

LEMMA DrainOrder ==
    ASSUME Flags, OneAtATime, OrderInv, Drain
    PROVE  OrderInv'
<1>1. UNCHANGED <<kind, before>>
  BY DEF Drain
<1>2. CASE queueRunning
  <2>1. UNCHANGED <<queue, executing, outcome>>
    BY <1>2 DEF Drain
  <2>2. QED
    BY <1>1, <2>1 DEF OrderInv, PlaceInv, HighInv, BeforeInv, AheadInv, AfterMutations
<1>3. CASE ~queueRunning
  <2>1. executing = {} /\ TakeNext({}, outcome)
    BY <1>3 DEF Drain, OneAtATime
  <2>2. Leaves(outcome)
    BY <2>1 DEF Leaves, OrderInv, PlaceInv
  <2>3. QED
    BY <1>1, <2>1, <2>2, TakeOrder
<1>4. QED
  BY <1>2, <1>3 DEF Flags

\* disconnect() turns away all that waits, and leaves what runs.
LEMMA DisconnectOrder ==
    ASSUME OrderInv, Disconnect
    PROVE  OrderInv'
<1>1. /\ queue' = [p \in Priority |-> <<>>]
      /\ outcome' = [o \in Op |-> IF outcome[o] = "queued" THEN "closed" ELSE outcome[o]]
      /\ UNCHANGED <<executing, kind, before>>
  BY DEF Disconnect, loopVars
<1>2. \A o \in Op : outcome'[o] = IF outcome[o] = "queued" THEN "closed" ELSE outcome[o]
  BY <1>1
<1>3. \A p \in Priority : DOMAIN queue'[p] = {}
  BY <1>1
<1>4. "high" \in Priority /\ "closed" \in Settled /\ "closed" \in Outcome
  BY DEF Priority, Settled, Outcome
<1>5. PlaceInv'
  <2>1. outcome' \in [Op -> Outcome]
    BY <1>1, <1>4 DEF OrderInv, PlaceInv
  <2>2. \A o \in Op : outcome'[o] = "running" <=> o \in executing
    BY <1>2 DEF OrderInv, PlaceInv
  <2>3. QED
    BY <1>1, <1>3, <2>1, <2>2 DEF OrderInv, PlaceInv
<1>6. HighInv'
  BY <1>2 DEF HighInv
<1>7. BeforeInv'
  BY <1>1, <1>2 DEF OrderInv, PlaceInv, BeforeInv
<1>8. AheadInv'
  BY <1>3, <1>4 DEF AheadInv
<1>9. AfterMutations'
  BY <1>1, <1>2, <1>4 DEF OrderInv, PlaceInv, AfterMutations
<1>10. QED
  BY <1>5, <1>6, <1>7, <1>8, <1>9 DEF OrderInv

LEMMA NextOrder == QueueInv /\ OrderInv /\ [Next]_vars => OrderInv'
<1> SUFFICES ASSUME QueueInv, OrderInv, [Next]_vars PROVE OrderInv'
  OBVIOUS
<1>1. Flags /\ OneAtATime
  BY DEF QueueInv
<1>2. ASSUME UNCHANGED <<queue, executing, outcome, kind, before>> PROVE OrderInv'
  BY <1>2 DEF OrderInv, PlaceInv, HighInv, BeforeInv, AheadInv, AfterMutations
<1>3. CASE Connect \/ SocketDies \/ SocketError \/ SocketClose \/ UNCHANGED vars
  BY <1>2, <1>3 DEF Connect, SocketDies, SocketError, SocketClose, vars, loopVars, opVars
<1>4. ASSUME NEW o \in Op, NEW k \in Kind, Refuse(o, k) \/ FailFast(o, k) PROVE OrderInv'
  <2>1. PICK r \in Settled : Issue(o, k, r) /\ UNCHANGED <<queue, executing>>
    BY <1>4 DEF Refuse, FailFast, loopVars, Settled
  <2>2. QED
    BY <1>1, <2>1, TurnedDown
<1>5. ASSUME NEW o \in Op, NEW k \in Kind, NEW s, Push(o, k, s) PROVE OrderInv'
  BY <1>1, <1>5, PushOrder
<1>6. ASSUME NEW o \in Op, Enqueue(o) \/ Keepalive(o) PROVE OrderInv'
  <2>1. "noop" \in Kind
    BY DEF Kind
  <2>2. QED
    BY <1>4, <1>5, <1>6, <2>1 DEF Enqueue, Keepalive
<1>7. CASE Drain
  BY <1>1, <1>7, DrainOrder
<1>8. ASSUME NEW o \in Op, NEW r, Done(o, r) PROVE OrderInv'
  BY <1>1, <1>8, DoneOrder
<1>9. CASE Disconnect
  BY <1>9, DisconnectOrder
<1>10. QED
  BY <1>3, <1>6, <1>7, <1>8, <1>9 DEF Next

\* The order of the queue: nothing runs before a mutation it was asked after.
THEOREM AfterMutationsCorrect == Spec => []AfterMutations
<1>1. QueueInv /\ OrderInv /\ [Next]_vars => OrderInv'
  BY NextOrder
<1>2. OrderInv => AfterMutations
  BY DEF OrderInv
<1>3. QED
  BY <1>1, <1>2, InitOrder, QueueInvariance, PTL DEF Spec

-----------------------------------------------------------------------------
(* The adapter implements SerialClient: its queues and its loop are one     *)
(* server that does one thing after the other.                              *)

\* What waits is in one of the queues, where the loop will find it, and an
\* operation that nobody has asked for yet is no mutation.
WaitInv ==
    /\ \A o \in Op : outcome[o] = "queued" =>
          \E p \in Priority : \E i \in DOMAIN queue[p] : queue[p][i] = o
    /\ \A o \in Op : outcome[o] = "idle" => kind[o] # "mutate"

\* What the refinement needs of a state of the adapter.
ServeInv == QueueInv /\ OrderInv /\ WaitInv

\* The loop takes an operation that waits, with every mutation ahead of it
\* settled; it takes none only when nothing waits.
LEMMA TakeServes ==
    ASSUME Flags, OrderInv, WaitInv, NEW settled, Leaves(settled),
           TakeNext({}, settled), UNCHANGED <<kind, before>>
    PROVE  /\ WaitInv'
           /\ \/ /\ Waiting = {} /\ outcome' = settled
              \/ \E o \in Waiting :
                    /\ outcome' = [settled EXCEPT ![o] = "running"]
                    /\ before[o] \subseteq {w \in Op : settled[w] \in Settled}
<1>1. \A x \in Op :
          /\ settled[x] \in Outcome /\ settled[x] # "running"
          /\ settled[x] \in {"queued", "idle"} => outcome[x] = settled[x]
          /\ outcome[x] \in {"queued", "idle"} => settled[x] = outcome[x]
  BY DEF Leaves, Settled
<1>2. \A p \in Priority : queue[p] \in Seq(Op)
  BY DEF Flags
<1>3. \A p \in Priority : \A i \in DOMAIN queue[p] : outcome[queue[p][i]] = "queued"
  BY DEF OrderInv, PlaceInv
<1>4. settled \in [Op -> Outcome] /\ before \in [Op -> SUBSET Op]
  BY DEF Leaves, OrderInv, PlaceInv
<1>5. CASE ~HasQueued
  <2>1. outcome' = settled /\ queue' = queue
    BY <1>5 DEF TakeNext
  <2>2. \A o \in Op : outcome[o] # "queued"
    BY <1>2, <1>5 DEF WaitInv, HasQueued
  <2>3. WaitInv'
    BY <1>1, <2>1, <2>2 DEF WaitInv
  <2>4. QED
    BY <2>1, <2>2, <2>3 DEF Waiting
<1>6. CASE HasQueued
  <2> DEFINE F == Front
             o == Head(queue[F])
  <2>1. F \in Priority /\ queue[F] # <<>>
    BY <1>6 DEF Front, HasQueued, Priority
  <2>2. /\ queue' = [queue EXCEPT ![F] = Tail(@)]
        /\ outcome' = [settled EXCEPT ![o] = "running"]
        /\ executing' = {o}
    BY <1>6 DEF TakeNext
  <2> HIDE DEF F
  <2>3. o \in Op /\ 1 \in DOMAIN queue[F] /\ queue[F][1] = o
    BY <1>2, <2>1
  <2>4. outcome[o] = "queued"
    BY <1>3, <2>1, <2>3
  <2> HIDE DEF o
  <2>5. outcome'[o] = "running" /\ \A e \in Op \ {o} : outcome'[e] = settled[e]
    BY <1>4, <2>2, <2>3
  <2>6. /\ \A p \in Priority \ {F} : queue'[p] = queue[p]
        /\ queue'[F] = Tail(queue[F])
    BY <2>1, <2>2 DEF Flags
  <2>7. \A i \in DOMAIN queue[F] \ {1} :
            i - 1 \in DOMAIN queue'[F] /\ queue'[F][i - 1] = queue[F][i]
    BY <1>2, <2>1, <2>6
  <2>8. WaitInv'
    <3>1. ASSUME NEW e \in Op, outcome'[e] = "queued"
          PROVE  \E p \in Priority : \E i \in DOMAIN queue'[p] : queue'[p][i] = e
      <4>1. e # o /\ outcome[e] = "queued"
        BY <1>1, <2>5, <3>1
      <4>2. PICK p \in Priority : \E i \in DOMAIN queue[p] : queue[p][i] = e
        BY <4>1 DEF WaitInv
      <4>3. PICK i \in DOMAIN queue[p] : queue[p][i] = e
        BY <4>2
      <4>4. CASE p = F
        <5>1. i # 1
          BY <2>3, <4>1, <4>3, <4>4
        <5>2. QED
          BY <2>1, <2>7, <4>3, <4>4, <5>1
      <4>5. CASE p # F
        BY <2>6, <4>3, <4>5
      <4>6. QED
        BY <4>4, <4>5
    <3>2. ASSUME NEW e \in Op, outcome'[e] = "idle" PROVE kind'[e] # "mutate"
      BY <1>1, <2>5, <3>2 DEF WaitInv
    <3>3. QED
      BY <3>1, <3>2 DEF WaitInv
  <2>9. AfterMutations'
    BY TakeOrder DEF OrderInv
  <2>10. ASSUME NEW w \in before[o] PROVE settled[w] \in Settled
    <3>1. outcome'[w] \in Settled
      BY <2>2, <2>9 DEF AfterMutations
    <3>2. w # o /\ w \in Op
      BY <1>4, <2>3, <2>5, <3>1 DEF Settled
    <3>3. QED
      BY <2>5, <3>1, <3>2
  <2>11. o \in Waiting /\ before[o] \subseteq {w \in Op : settled[w] \in Settled}
    BY <1>4, <2>3, <2>4, <2>10 DEF Waiting
  <2>12. QED
    BY <2>2, <2>8, <2>11
<1>7. QED
  BY <1>5, <1>6

\* A request that is turned down is one the server answers without doing it.
LEMMA TurnedDownImplements ==
    ASSUME ServeInv, NEW o \in Op, NEW k \in Kind, NEW r \in Settled,
           Issue(o, k, r), queue' = queue
    PROVE  WaitInv' /\ Client!Ask(o, k = "mutate")
<1> USE DEF ServeInv, OrderInv, PlaceInv
<1>1. /\ outcome[o] = "idle" /\ outcome' = [outcome EXCEPT ![o] = r]
      /\ kind' = [kind EXCEPT ![o] = k]
      /\ before' = [before EXCEPT ![o] = {w \in Unsettled : kind[w] = "mutate"}]
  BY DEF Issue
<1>2. r \notin {"idle", "queued", "running"}
  BY DEF Settled
<1>3. WaitInv'
  BY <1>1, <1>2 DEF WaitInv
<1>4. Waiting' = Waiting /\ Serving' = Serving /\ Ended' = Ended \cup {o}
  BY <1>1, <1>2 DEF Waiting, Serving, Ended
<1>5. Changes' = IF k = "mutate" THEN Changes \cup {o} ELSE Changes
  BY <1>1 DEF Changes, WaitInv
<1>6. {w \in Unsettled : kind[w] = "mutate"} = (Waiting \cup Serving) \cap Changes
  BY DEF Unsettled, Waiting, Serving, Changes
<1>7. o \notin Waiting \cup Serving \cup Ended
  BY <1>1 DEF Waiting, Serving, Ended, Settled
<1>8. QED
  BY <1>1, <1>3, <1>4, <1>5, <1>6, <1>7 DEF Client!Ask

\* One that is queued waits for the server.
LEMMA PushImplements ==
    ASSUME ServeInv, NEW o \in Op, NEW k \in Kind, NEW s, Push(o, k, s)
    PROVE  WaitInv' /\ Client!Ask(o, k = "mutate")
<1> USE DEF ServeInv, OrderInv, PlaceInv
<1>1. /\ outcome[o] = "idle" /\ outcome' = [outcome EXCEPT ![o] = "queued"]
      /\ kind' = [kind EXCEPT ![o] = k]
      /\ before' = [before EXCEPT ![o] = {w \in Unsettled : kind[w] = "mutate"}]
  BY DEF Push, Issue
<1> DEFINE P == InferPriority(k, s)
<1>2. P \in Priority /\ queue' = [queue EXCEPT ![P] = Append(@, o)]
  BY DEF Push, InferPriority, Priority
<1> HIDE DEF P
<1>3. \A p \in Priority : queue[p] \in Seq(Op)
  BY DEF QueueInv, Flags
<1>4. /\ queue'[P] = Append(queue[P], o)
      /\ \A p \in Priority \ {P} : queue'[p] = queue[p]
  BY <1>2 DEF QueueInv, Flags
<1>5. /\ Len(queue[P]) + 1 \in DOMAIN queue'[P] /\ queue'[P][Len(queue[P]) + 1] = o
      /\ \A i \in DOMAIN queue[P] : i \in DOMAIN queue'[P] /\ queue'[P][i] = queue[P][i]
  BY <1>2, <1>3, <1>4
<1>6. ASSUME NEW e \in Op, outcome'[e] = "queued"
      PROVE  \E p \in Priority : \E i \in DOMAIN queue'[p] : queue'[p][i] = e
  <2>1. CASE e = o
    BY <1>2, <1>5, <2>1
  <2>2. CASE e # o
    <3>1. PICK p \in Priority : \E i \in DOMAIN queue[p] : queue[p][i] = e
      BY <1>1, <1>6, <2>2 DEF WaitInv
    <3>2. CASE p = P
      BY <1>5, <3>1, <3>2
    <3>3. CASE p # P
      BY <1>4, <3>1, <3>3
    <3>4. QED
      BY <3>2, <3>3
  <2>3. QED
    BY <2>1, <2>2
<1>7. WaitInv'
  BY <1>1, <1>6 DEF WaitInv
<1>8. Waiting' = Waiting \cup {o} /\ Serving' = Serving /\ Ended' = Ended
  BY <1>1 DEF Waiting, Serving, Ended, Settled
<1>9. Changes' = IF k = "mutate" THEN Changes \cup {o} ELSE Changes
  BY <1>1 DEF Changes, WaitInv
<1>10. {w \in Unsettled : kind[w] = "mutate"} = (Waiting \cup Serving) \cap Changes
  BY DEF Unsettled, Waiting, Serving, Changes
<1>11. o \notin Waiting \cup Serving \cup Ended
  BY <1>1 DEF Waiting, Serving, Ended, Settled
<1>12. QED
  BY <1>1, <1>7, <1>8, <1>9, <1>10, <1>11 DEF Client!Ask

\* The microtask that begins to drain takes the first of what waits.
LEMMA DrainImplements ==
    ASSUME ServeInv, Drain
    PROVE  WaitInv' /\ (Client!Start \/ UNCHANGED Client!clientVars)
<1>1. kind' = kind /\ before' = before /\ Changes' = Changes
  BY DEF Drain, Changes
<1>2. CASE queueRunning
  <2>1. queue' = queue /\ outcome' = outcome
    BY <1>2 DEF Drain
  <2>2. QED
    BY <1>1, <2>1 DEF ServeInv, WaitInv, Waiting, Serving, Ended, Client!clientVars
<1>3. CASE ~queueRunning
  <2>1. executing = {} /\ TakeNext({}, outcome)
    BY <1>3 DEF Drain, ServeInv, QueueInv, OneAtATime
  <2>2. /\ Leaves(outcome) /\ outcome \in [Op -> Outcome]
        /\ \A e \in Op : outcome[e] # "running"
    BY <2>1 DEF Leaves, ServeInv, OrderInv, PlaceInv
  <2>3. /\ WaitInv'
        /\ \/ outcome' = outcome
           \/ \E o \in Waiting :
                 /\ outcome' = [outcome EXCEPT ![o] = "running"]
                 /\ before[o] \subseteq {w \in Op : outcome[w] \in Settled}
    BY <1>1, <2>1, <2>2, TakeServes DEF ServeInv, QueueInv
  <2>4. CASE outcome' = outcome
    BY <1>1, <2>3, <2>4 DEF Waiting, Serving, Ended, Client!clientVars
  <2>5. ASSUME NEW o \in Waiting, outcome' = [outcome EXCEPT ![o] = "running"],
               before[o] \subseteq {w \in Op : outcome[w] \in Settled}
        PROVE  Client!Start
    <3>1. Serving = {} /\ Serving' = {o} /\ Waiting' = Waiting \ {o} /\ Ended' = Ended
      BY <2>2, <2>5 DEF Waiting, Serving, Ended, Settled
    <3>2. before[o] \subseteq Ended
      BY <2>5 DEF Ended
    <3>3. QED
      BY <1>1, <3>1, <3>2 DEF Client!Start, Client!Follow
  <2>6. QED
    BY <2>3, <2>4, <2>5
<1>4. QED
  BY <1>2, <1>3 DEF ServeInv, QueueInv, Flags

\* An operation ends, and the loop goes on to the next in the same turn.
LEMMA DoneImplements ==
    ASSUME ServeInv, NEW o \in Op, NEW r, Done(o, r)
    PROVE  WaitInv' /\ Client!Answer(o)
<1>1. executing = {o} /\ r \in Settled
  BY DEF Done, Results, Swallowed, Settled, ServeInv, QueueInv, OneAtATime
<1> DEFINE after == [outcome EXCEPT ![o] = r]
<1>2. TakeNext({}, after) /\ kind' = kind /\ before' = before /\ Changes' = Changes
  BY <1>1 DEF Done, Changes
<1>3. outcome \in [Op -> Outcome] /\ \A e \in Op : outcome[e] = "running" <=> e = o
  BY <1>1 DEF ServeInv, OrderInv, PlaceInv
<1>4. r \in Outcome /\ r \notin {"running", "queued", "idle"}
  BY <1>1 DEF Outcome, Settled
<1>5. Leaves(after)
  BY <1>1, <1>3, <1>4 DEF Leaves
<1>6. after[o] = r /\ \A e \in Op \ {o} : after[e] = outcome[e]
  BY <1>3
<1> HIDE DEF after
<1>7. /\ WaitInv'
      /\ \/ Waiting = {} /\ outcome' = after
         \/ \E n \in Waiting :
               /\ outcome' = [after EXCEPT ![n] = "running"]
               /\ before[n] \subseteq {w \in Op : after[w] \in Settled}
  BY <1>2, <1>5, TakeServes DEF ServeInv, QueueInv
<1>8. Serving = {o} /\ {w \in Op : after[w] \in Settled} = Ended \cup {o}
  BY <1>1, <1>3, <1>6 DEF Serving, Ended
<1>9. CASE Waiting = {} /\ outcome' = after
  <2>1. Ended' = Ended \cup {o} /\ Serving' = {} /\ Waiting' = Waiting
    BY <1>1, <1>3, <1>4, <1>6, <1>9 DEF Waiting, Serving, Ended
  <2>2. QED
    BY <1>2, <1>7, <1>8, <1>9, <2>1 DEF Client!Answer
<1>10. ASSUME NEW n \in Waiting, outcome' = [after EXCEPT ![n] = "running"],
              before[n] \subseteq {w \in Op : after[w] \in Settled}
       PROVE  Client!Answer(o)
  <2>1. n \in Op /\ n # o /\ outcome[n] = "queued" /\ after \in [Op -> Outcome]
    BY <1>3, <1>5 DEF Waiting, Leaves
  <2>2. outcome'[n] = "running" /\ \A e \in Op \ {n} : outcome'[e] = after[e]
    BY <1>10, <2>1
  <2>3. Ended' = Ended \cup {o}
    BY <1>1, <1>6, <2>1, <2>2 DEF Ended, Settled
  <2>4. Serving' = {n} /\ Waiting' = Waiting \ {n}
    BY <1>3, <1>4, <1>6, <2>1, <2>2 DEF Serving, Waiting
  <2>5. Client!Follow(Ended \cup {o})
    BY <1>8, <1>10, <2>4 DEF Client!Follow
  <2>6. QED
    BY <1>2, <1>8, <2>3, <2>5 DEF Client!Answer
<1>11. QED
  BY <1>7, <1>9, <1>10

\* disconnect() turns away what waits, and leaves what is with the server.
LEMMA DisconnectImplements ==
    ASSUME ServeInv, Disconnect
    PROVE  WaitInv' /\ Client!Close
<1>1. /\ outcome' = [o \in Op |-> IF outcome[o] = "queued" THEN "closed" ELSE outcome[o]]
      /\ kind' = kind /\ before' = before
  BY DEF Disconnect
<1>2. \A o \in Op : outcome'[o] = IF outcome[o] = "queued" THEN "closed" ELSE outcome[o]
  BY <1>1
<1>3. WaitInv'
  BY <1>1, <1>2 DEF ServeInv, WaitInv
<1>4. Waiting' = {} /\ Serving' = Serving /\ Changes' = Changes
  BY <1>1, <1>2 DEF Waiting, Serving, Changes
<1>5. Ended' = Ended \cup Waiting
  BY <1>2 DEF Ended, Waiting, Settled
<1>6. QED
  BY <1>1, <1>3, <1>4, <1>5 DEF Client!Close

LEMMA ServeStep ==
    ASSUME ServeInv, [Next]_vars
    PROVE  WaitInv' /\ [Client!Next]_(Client!clientVars)
<1>1. ASSUME UNCHANGED <<queue, outcome, kind, before>>
      PROVE  WaitInv' /\ UNCHANGED Client!clientVars
  BY <1>1 DEF ServeInv, WaitInv, Waiting, Serving, Ended, Changes, Client!clientVars
<1>2. CASE Connect \/ SocketDies \/ SocketError \/ SocketClose \/ UNCHANGED vars
  BY <1>1, <1>2 DEF Connect, SocketDies, SocketError, SocketClose, vars, opVars
<1>3. ASSUME NEW o \in Op, NEW k \in Kind,
             Refuse(o, k) \/ FailFast(o, k) \/ \E s \in Source : Push(o, k, s)
      PROVE  WaitInv' /\ Client!Ask(o, k = "mutate")
  <2>1. CASE Refuse(o, k) \/ FailFast(o, k)
    <3>1. PICK r \in Settled : Issue(o, k, r) /\ queue' = queue
      BY <2>1 DEF Refuse, FailFast, Settled
    <3>2. QED
      BY <3>1, TurnedDownImplements
  <2>2. CASE \E s \in Source : Push(o, k, s)
    BY <2>2, PushImplements
  <2>3. QED
    BY <1>3, <2>1, <2>2
<1>4. ASSUME NEW o \in Op, Enqueue(o) \/ Keepalive(o)
      PROVE  WaitInv' /\ Client!Next
  <2>1. PICK k \in Kind :
           Refuse(o, k) \/ FailFast(o, k) \/ \E s \in Source : Push(o, k, s)
    BY <1>4 DEF Enqueue, Keepalive, Kind, Source
  <2>2. WaitInv' /\ Client!Ask(o, k = "mutate")
    BY <1>3, <2>1
  <2>3. QED
    BY <2>2 DEF Client!Next
<1>5. CASE Drain
  BY <1>5, DrainImplements DEF Client!Next
<1>6. ASSUME NEW o \in Op, NEW r, Done(o, r)
      PROVE  WaitInv' /\ Client!Next
  BY <1>6, DoneImplements DEF Client!Next
<1>7. CASE Disconnect
  BY <1>7, DisconnectImplements DEF Client!Next
<1>8. QED
  BY <1>2, <1>4, <1>5, <1>6, <1>7 DEF Next

LEMMA InitServe == Init => WaitInv /\ Client!Init
<1> SUFFICES ASSUME Init PROVE WaitInv /\ Client!Init
  OBVIOUS
<1>1. WaitInv
  BY DEF Init, WaitInv
<1>2. Waiting = {} /\ Serving = {} /\ Ended = {} /\ Changes = {}
  BY DEF Init, Waiting, Serving, Ended, Changes, Settled
<1>3. QED
  BY <1>1, <1>2 DEF Init, Client!Init

\* What waits is always in a queue the loop will look into.
THEOREM WaitInvariance == Spec => []ServeInv
<1>1. Init => ServeInv
  BY InitInv, InitOrder, InitServe DEF ServeInv
<1>2. ServeInv /\ [Next]_vars => ServeInv'
  BY NextInv, NextOrder, ServeStep DEF ServeInv
<1>3. QED
  BY <1>1, <1>2, PTL DEF Spec

\* The adapter implements SerialClient: with three queues, a loop that is
\* scheduled or running, timeouts and sockets that die at any moment, its
\* callers see a server that does one thing after the other (246-417).
THEOREM SerialCorrect == Spec => Serial
BY InitServe, ServeStep, WaitInvariance, PTL DEF Spec, Serial, Client!Spec

-----------------------------------------------------------------------------
(* What follows for every server of that kind *)

\* Where the next operation comes from.
LEMMA FollowOrdered ==
    ASSUME Client!Ordered, NEW done, Client!Follow(done), before' = before,
           Serving \subseteq done, Ended \subseteq done, Waiting \cap done = {},
           Ended' = done, done \subseteq Op, Changes' = Changes
    PROVE  Client!Ordered' /\ Serving' \cap Ended = {}
<1>1. PICK o \in Waiting : before[o] \subseteq done /\ Serving' = {o} /\ Waiting' = Waiting \ {o}
  BY DEF Client!Follow
<1>2. Waiting' \cap Serving' = {} /\ Waiting' \cap Ended' = {} /\ Serving' \cap Ended' = {}
  BY <1>1
<1>3. QED
  BY <1>1, <1>2 DEF Client!Ordered

LEMMA ClientOrdered ==
    ASSUME Client!Ordered, [Client!Next]_(Client!clientVars)
    PROVE  /\ Client!Ordered'
           /\ [Ended \subseteq Ended' /\ Serving' \cap Ended = {}]_(Client!clientVars)
<1>1. ASSUME NEW o \in Op, NEW isChange \in BOOLEAN, Client!Ask(o, isChange)
      PROVE  Client!Ordered' /\ Ended \subseteq Ended' /\ Serving' \cap Ended = {}
  <2>1. /\ Serving' = Serving /\ o \notin Waiting \cup Serving \cup Ended
        /\ \/ Waiting' = Waiting \cup {o} /\ Ended' = Ended
           \/ Ended' = Ended \cup {o} /\ Waiting' = Waiting
        /\ Changes' \subseteq Op
    BY <1>1 DEF Client!Ask, Client!Ordered
  <2>2. before' \in [Op -> SUBSET Op] /\ \A e \in Op \ {o} : before'[e] = before[e]
    BY <1>1 DEF Client!Ask, Client!Ordered
  <2>3. \A e \in Serving : before'[e] \subseteq Ended'
    BY <2>1, <2>2 DEF Client!Ordered
  <2>4. QED
    BY <2>1, <2>2, <2>3 DEF Client!Ordered
<1>2. CASE Client!Start
  <2>1. /\ Serving = {} /\ Ended' = Ended /\ Changes' = Changes /\ before' = before
        /\ Client!Follow(Ended)
    BY <1>2 DEF Client!Start
  <2>2. QED
    BY <2>1, FollowOrdered DEF Client!Ordered
<1>3. ASSUME NEW o \in Op, Client!Answer(o)
      PROVE  Client!Ordered' /\ Ended \subseteq Ended' /\ Serving' \cap Ended = {}
  <2>1. /\ Serving = {o} /\ Ended' = Ended \cup {o} /\ Changes' = Changes
        /\ before' = before
        /\ \/ Client!Follow(Ended \cup {o})
           \/ Waiting = {} /\ Serving' = {} /\ Waiting' = Waiting
    BY <1>3 DEF Client!Answer
  <2>2. CASE Client!Follow(Ended \cup {o})
    <3> DEFINE done == Ended \cup {o}
    <3>1. /\ Serving \subseteq done /\ Ended \subseteq done
          /\ Waiting \cap done = {} /\ done \subseteq Op
      BY <2>1 DEF Client!Ordered
    <3>2. Client!Follow(done) /\ Ended' = done
      BY <2>1, <2>2
    <3> HIDE DEF done
    <3>3. Client!Ordered' /\ Serving' \cap Ended = {}
      BY <2>1, <3>1, <3>2, FollowOrdered
    <3>4. QED
      BY <3>1, <3>2, <3>3
  <2>3. CASE Waiting = {} /\ Serving' = {} /\ Waiting' = Waiting
    BY <2>1, <2>3 DEF Client!Ordered
  <2>4. QED
    BY <2>1, <2>2, <2>3
<1>4. CASE Client!Close
  BY <1>4 DEF Client!Close, Client!Ordered
<1>5. CASE UNCHANGED Client!clientVars
  BY <1>5 DEF Client!Ordered, Client!clientVars
<1>6. QED
  BY <1>1, <1>2, <1>3, <1>4, <1>5 DEF Client!Next

LEMMA InitOrdered == Init => Client!Ordered
BY InitServe DEF Client!Init, Client!Ordered

\* One operation at most is with the server, after the changes it was asked
\* behind, and nothing is in two places.
THEOREM OrderedCorrect == Spec => []Client!Ordered
<1>1. ServeInv /\ Client!Ordered /\ [Next]_vars => Client!Ordered'
  BY ServeStep, ClientOrdered
<1>2. QED
  BY <1>1, InitOrdered, WaitInvariance, PTL DEF Spec

\* What was answered or turned away stays so: nothing is sent to the server
\* twice, and no change is made whose caller has already been told that it
\* was not.
THEOREM OnceCorrect == Spec => Client!Once
<1> DEFINE Stays == Ended \subseteq Ended' /\ Serving' \cap Ended = {}
<1>1. ServeInv /\ Client!Ordered /\ [Next]_vars => [Stays]_(Client!clientVars)
  BY ServeStep, ClientOrdered
<1> HIDE DEF Stays
<1>2. Spec => [][Stays]_(Client!clientVars)
  BY <1>1, WaitInvariance, OrderedCorrect, PTL DEF Spec
<1>3. QED
  BY <1>2 DEF Stays, Client!Once

-----------------------------------------------------------------------------
(* The adapter implements RemoteAdapter                                     *)

\* Whoever notices the loss, the interface sees one end of a connection.
LEMMA LossImplements ==
    ASSUME QueueInv, ConnectionLost, socket # "none", socket' # "none"
    PROVE  Adapter!Next \/ UNCHANGED Adapter!adapterVars
<1>1. Line' = "over"
  BY DEF ConnectionLost, Line
<1>2. CASE connected
  <2>1. Line = "up" /\ reports' = reports + 1
    BY <1>2 DEF Line, ConnectionLost
  <2>2. QED
    BY <1>1, <2>1 DEF Adapter!Next, Adapter!End
<1>3. CASE ~connected
  <2>1. Line = "over" /\ reports' = reports
    BY <1>3 DEF Line, ConnectionLost
  <2>2. QED
    BY <1>1, <2>1 DEF Adapter!adapterVars
<1>4. QED
  BY <1>2, <1>3

LEMMA LineStays ==
    ASSUME connected' = connected, reports' = reports,
           socket' = "none" <=> socket = "none"
    PROVE  UNCHANGED Adapter!adapterVars
BY DEF Line, Adapter!adapterVars

\* A request, its preflight and the keepalive.
LEMMA RequestImplements ==
    ASSUME QueueInv, NEW o \in Op, Enqueue(o) \/ Keepalive(o)
    PROVE  Adapter!Next \/ UNCHANGED Adapter!adapterVars
<1>1. ASSUME NEW k, FailFast(o, k)
      PROVE  Adapter!Next \/ UNCHANGED Adapter!adapterVars
  <2>1. ConnectionLost /\ socket = "dead" /\ socket' = socket
    BY <1>1 DEF FailFast
  <2>2. QED
    BY <2>1, LossImplements
<1>2. ASSUME NEW k, NEW s, Refuse(o, k) \/ Push(o, k, s)
      PROVE  UNCHANGED Adapter!adapterVars
  BY <1>2, LineStays DEF Refuse, Push
<1>3. QED
  BY <1>1, <1>2 DEF Enqueue, Keepalive

\* The answer of an operation, which may be that the connection is lost.
LEMMA AnswerImplements ==
    ASSUME QueueInv, NEW o \in Op, NEW r, Done(o, r)
    PROVE  Adapter!Next \/ UNCHANGED Adapter!adapterVars
<1>1. CASE r = "lost"
  <2>1. ConnectionLost /\ (socket' = "none" <=> socket = "none")
    BY <1>1 DEF Done
  <2>2. CASE socket # "none"
    BY <2>1, <2>2, LossImplements
  <2>3. CASE socket = "none"
    <3>1. ~connected
      BY <2>3 DEF QueueInv, LossReported
    <3>2. UNCHANGED <<connected, reports>>
      BY <2>1, <3>1 DEF ConnectionLost, QueueInv, Flags
    <3>3. QED
      BY <2>1, <3>2, LineStays
  <2>4. QED
    BY <2>2, <2>3
<1>2. CASE r # "lost"
  BY <1>2, LineStays DEF Done
<1>3. QED
  BY <1>1, <1>2

LEMMA AdapterStep == QueueInv /\ [Next]_vars => [Adapter!Next]_(Adapter!adapterVars)
<1> SUFFICES ASSUME QueueInv, [Next]_vars
             PROVE  Adapter!Next \/ UNCHANGED Adapter!adapterVars
  OBVIOUS
<1>1. CASE Connect
  <2>1. Line = "fresh" /\ Line' = "up" /\ reports' = reports
    BY <1>1 DEF Connect, Line, QueueInv, LossReported
  <2>2. QED
    BY <2>1 DEF Adapter!Next, Adapter!Connect
<1>2. ASSUME NEW o \in Op, Enqueue(o) \/ Keepalive(o)
      PROVE  Adapter!Next \/ UNCHANGED Adapter!adapterVars
  BY <1>2, RequestImplements
<1>3. CASE Drain \/ SocketDies \/ UNCHANGED vars
  <2>1. connected' = connected /\ reports' = reports /\ (socket' = "none" <=> socket = "none")
    BY <1>3 DEF Drain, SocketDies, vars
  <2>2. QED
    BY <2>1, LineStays
<1>4. ASSUME NEW o \in Op, NEW r, Done(o, r)
      PROVE  Adapter!Next \/ UNCHANGED Adapter!adapterVars
  BY <1>4, AnswerImplements
<1>5. CASE SocketError
  <2>1. reports' = reports /\ socket = "dead" /\ socket' = "dead" /\ connected' = FALSE
    BY <1>5 DEF SocketError
  <2>2. Line' = "over" /\ Line \in {"up", "over"}
    BY <2>1 DEF Line
  <2>3. QED
    BY <2>1, <2>2 DEF Adapter!Next, Adapter!End, Adapter!adapterVars
<1>6. CASE SocketClose \/ Disconnect
  <2>1. ConnectionLost /\ socket # "none" /\ socket' # "none"
    BY <1>6 DEF SocketClose, Disconnect
  <2>2. QED
    BY <2>1, LossImplements
<1>7. QED
  BY <1>1, <1>2, <1>3, <1>4, <1>5, <1>6 DEF Next

LEMMA AdapterInit == Init => Adapter!Init
BY DEF Init, Line, Adapter!Init

\* Over FTP the interface is kept: connected once, and its end told once at
\* most, whoever notices it (178-222, 246-307, 383-417).
THEOREM OneLifeCorrect == Spec => OneLife
BY AdapterInit, AdapterStep, QueueInvariance, PTL DEF Spec, OneLife, Adapter!Spec

\* So an adapter that is over is never connected again, not by an operation
\* that the server still answers: the pool may replace it as stale.
THEOREM StaysOverCorrect == Spec => Adapter!StaysOver
<1> DEFINE Stays == Line = "over" => Line' = "over"
<1>1. [Adapter!Next]_(Adapter!adapterVars) => [Stays]_(Adapter!adapterVars)
  BY DEF Adapter!Next, Adapter!Connect, Adapter!Fail, Adapter!End, Adapter!Deliver,
         Adapter!adapterVars
<1>2. QueueInv /\ [Next]_vars => [Stays]_(Adapter!adapterVars)
  BY <1>1, AdapterStep
<1> HIDE DEF Stays
<1>3. Spec => [][Stays]_(Adapter!adapterVars)
  BY <1>2, QueueInvariance, PTL DEF Spec
<1>4. QED
  BY <1>3 DEF Stays, Adapter!StaysOver

-----------------------------------------------------------------------------
(* The types *)

\* An operation is in a queue when it waits, and nowhere twice.
LEMMA PlacesOnce ==
    ASSUME PlaceInv, WaitInv, NEW o \in Op
    PROVE  /\ outcome[o] = "queued" <=> Places(o) # {}
           /\ Cardinality(Places(o)) <= 1
<1>1. \A x : x \in Places(o) <=>
          \E p \in Priority : \E i \in DOMAIN queue[p] : queue[p][i] = o /\ x = <<p, i>>
  BY DEF Places
<1>2. outcome[o] = "queued" <=> Places(o) # {}
  <2>1. ASSUME outcome[o] = "queued" PROVE Places(o) # {}
    <3>1. PICK p \in Priority : \E i \in DOMAIN queue[p] : queue[p][i] = o
      BY <2>1 DEF WaitInv
    <3>2. PICK i \in DOMAIN queue[p] : queue[p][i] = o
      BY <3>1
    <3>3. <<p, i>> \in Places(o)
      BY <1>1, <3>2
    <3>4. QED
      BY <3>3
  <2>2. ASSUME NEW x \in Places(o) PROVE outcome[o] = "queued"
    BY <1>1, <2>2 DEF PlaceInv
  <2>3. QED
    BY <2>1, <2>2
<1>3. \A x, y \in Places(o) : x = y
  BY <1>1 DEF PlaceInv
<1>4. CASE Places(o) = {}
  BY <1>2, <1>4, FS_EmptySet
<1>5. CASE Places(o) # {}
  <2>1. PICK x : Places(o) = {x}
    BY <1>3, <1>5
  <2>2. Cardinality(Places(o)) = 1
    BY <2>1, FS_Singleton
  <2>3. QED
    BY <1>2, <2>2
<1>6. QED
  BY <1>4, <1>5

\* Every variable keeps its type, and the three queues hold each operation that
\* waits once (324-381).
THEOREM TypeCorrect == Spec => []TypeOK
<1> DEFINE Pending == keepalivePending \in BOOLEAN
<1>1. Init => Pending
  BY DEF Init
<1>2. QueueInv /\ Pending /\ [Next]_vars => Pending'
  BY DEF Next, Connect, Enqueue, Keepalive, Refuse, FailFast, Push, Drain, Done, SocketDies,
         SocketError, SocketClose, Disconnect, ConnectionLost, vars
<1>3. ServeInv /\ Pending => TypeOK
  BY PlacesOnce DEF ServeInv, QueueInv, Flags, OrderInv, PlaceInv, TypeOK
<1> HIDE DEF Pending
<1>4. QED
  BY <1>1, <1>2, <1>3, QueueInvariance, WaitInvariance, PTL DEF Spec
=============================================================================
