------------------------ MODULE ConnectionPoolProofs ------------------------
(***************************************************************************)
(* What ConnectionPool guarantees for every set of connections and calls,  *)
(* every limit and every bound.                                            *)
(***************************************************************************)
EXTENDS ConnectionPool, TLAPS

USE PoolAssumption

-----------------------------------------------------------------------------
(* Types *)

\* The freshly constructed pool (connectionPool.ts:12-36) is well typed.
LEMMA InitType == Init => TypeOK
<1> SUFFICES ASSUME Init PROVE TypeOK
  OBVIOUS
<1>1. /\ pool \in [Conn -> Call \cup {None}]
      /\ status \in [Conn -> Status]
      /\ last \in [Conn -> 0..MaxTime]
  BY DEF Init, Status
<1>2. /\ pending \in [Conn -> Call \cup {None}]
      /\ pendingGen \in [Conn -> Nat \cup {None}]
      /\ \A c \in Conn : pending[c] = None <=> pendingGen[c] = None
      /\ gen \in [Conn -> Nat]
      /\ suspended \subseteq Conn
      /\ disposed \in BOOLEAN
  BY DEF Init
<1>3. /\ link \in [Call -> Link]
      /\ pc \in [Call -> Pc]
      /\ conn \in [Call -> Conn \cup {None}]
      /\ callGen \in [Call -> Nat]
      /\ target \in [Call -> Call \cup Conn \cup {None}]
      /\ closing \in [Conn -> Nat]
  BY DEF Init, Link, Pc
<1>4. /\ event \in [Conn -> Status]
      /\ now \in 0..MaxTime
      /\ cancelled \subseteq Call
  BY DEF Init, Status
<1>5. QED
  BY <1>1, <1>2, <1>3, <1>4 DEF TypeOK

\* Every continuation of the pool and every event around it keeps the types.
LEMMA NextType == TypeOK /\ [Next]_vars => TypeOK'
<1> SUFFICES ASSUME TypeOK, [Next]_vars PROVE TypeOK'
  OBVIOUS
<1> USE DEF TypeOK, Status, Link, Pc, entryVars, pendingVars, callVars
<1>1. ASSUME NEW k \in Call, NEW c \in Conn, Join(k, c)
      PROVE  TypeOK'
  BY <1>1 DEF Join, Joinable
<1> 0 \in 0..MaxTime
  OBVIOUS
<1>0. ASSUME NEW k \in Call, NEW c \in Conn, StartAttempt(k, c)
      PROVE  /\ pool' \in [Conn -> Call \cup {None}]
             /\ status' \in [Conn -> Status]
             /\ last' \in [Conn -> 0..MaxTime]
             /\ conn' \in [Call -> Conn \cup {None}]
             /\ callGen' \in [Call -> Nat]
             /\ UNCHANGED <<suspended, disposed, closing, now>>
  BY <1>0 DEF StartAttempt, DeleteEntry
<1>2. ASSUME NEW k \in Call, NEW c \in Conn, StartConnecting(k, c)
      PROVE  TypeOK'
  <2>1. link' \in [Call -> Link] /\ pc' \in [Call -> Pc]
    BY <1>2 DEF StartConnecting, With
  <2>2. /\ pending' \in [Conn -> Call \cup {None}]
        /\ pendingGen' \in [Conn -> Nat \cup {None}]
        /\ \A d \in Conn : (pending[d] = None <=> pendingGen[d] = None)'
    BY <1>2 DEF StartConnecting
  <2>3. /\ event' \in [Conn -> Status]
        /\ UNCHANGED <<gen, target, cancelled>>
    BY <1>2 DEF StartConnecting
  <2>4. StartAttempt(k, c)
    BY <1>2 DEF StartConnecting
  <2>5. QED
    BY <1>0, <2>1, <2>2, <2>3, <2>4
<1>3. ASSUME NEW k \in Call, NEW c \in Conn, StartEvicting(k, c)
      PROVE  TypeOK'
  <2>1. PICK v \in Oldest(Open \ {c}) :
          /\ gen' = [gen EXCEPT ![v] = @ + 1]
          /\ pending' = [pending EXCEPT ![v] = None, ![c] = k]
          /\ pendingGen' = [pendingGen EXCEPT ![v] = None, ![c] = gen[c]]
          /\ cancelled' = cancelled \cup
                            {j \in Call : Attempt(j) /\ conn[j] = v}
          /\ link' = With(link, AdaptersOf({c, v}), "closed")
          /\ target' = [target EXCEPT ![k] = v]
    BY <1>3 DEF StartEvicting
  <2>2. v \in Conn /\ v # c
    BY DEF Oldest, Open
  <2>3. link' \in [Call -> Link] /\ pc' \in [Call -> Pc]
    BY <1>3, <2>1 DEF StartEvicting, With
  <2>4. /\ pending' \in [Conn -> Call \cup {None}]
        /\ pendingGen' \in [Conn -> Nat \cup {None}]
        /\ \A d \in Conn : (pending[d] = None <=> pendingGen[d] = None)'
    BY <2>1, <2>2
  <2>5. /\ gen' \in [Conn -> Nat]
        /\ target' \in [Call -> Call \cup Conn \cup {None}]
        /\ cancelled' \subseteq Call
    BY <2>1, <2>2
  <2>6. StartAttempt(k, c) /\ event' = event
    BY <1>3 DEF StartEvicting
  <2>7. QED
    BY <1>0, <2>3, <2>4, <2>5, <2>6
<1>4. ASSUME NEW k \in Call, FinishEvict(k)
      PROVE  TypeOK'
  <2>1. status' \in [Conn -> Status]
    BY <1>4 DEF FinishEvict
  <2>2. event' \in [Conn -> Status]
    BY <1>4 DEF FinishEvict
  <2>3. link' \in [Call -> Link] /\ pc' \in [Call -> Pc]
    BY <1>4 DEF FinishEvict
  <2>4. /\ pool' \in [Conn -> Call \cup {None}]
        /\ last' \in [Conn -> 0..MaxTime]
    BY <1>4 DEF FinishEvict
  <2>5. target' \in [Call -> Call \cup Conn \cup {None}]
    BY <1>4 DEF FinishEvict
  <2>6. UNCHANGED <<pendingVars, gen, suspended, disposed, conn, callGen,
                    closing, now, cancelled>>
    BY <1>4 DEF FinishEvict
  <2>7. QED
    BY <2>1, <2>2, <2>3, <2>4, <2>5, <2>6
<1>5. ASSUME NEW k \in Call, Land(k)
      PROVE  TypeOK'
  BY <1>5 DEF Land
<1>6. ASSUME NEW k \in Call, Discard(k) \/ ConnectFail(k)
      PROVE  TypeOK'
  BY <1>6 DEF Discard, ConnectFail, GiveUp, SetStatus
<1>7. ASSUME NEW k \in Call, Settle(k)
      PROVE  TypeOK'
  BY <1>7 DEF Settle
<1>8. ASSUME NEW k \in Call, Wake(k)
      PROVE  TypeOK'
  BY <1>8 DEF Wake
<1>9. ASSUME NEW k \in Call, Lose(k)
      PROVE  TypeOK'
  BY <1>9 DEF Lose, SetStatus
<1>10. ASSUME NEW c \in Conn, Touch(c)
       PROVE  TypeOK'
  BY <1>10 DEF Touch
<1>11. ASSUME NEW S \in SUBSET Conn, Invalidate(S)
       PROVE  /\ gen' \in [Conn -> Nat]
              /\ pending' \in [Conn -> Call \cup {None}]
              /\ pendingGen' \in [Conn -> Nat \cup {None}]
              /\ \A c \in Conn : (pending[c] = None <=> pendingGen[c] = None)'
              /\ cancelled' \subseteq Call
  BY <1>11 DEF Invalidate, With
<1>12. ASSUME NEW S \in SUBSET Conn, BeginDisconnect(S)
       PROVE  /\ link' \in [Call -> Link]
              /\ closing' \in [Conn -> Nat]
  BY <1>12 DEF BeginDisconnect, With
<1>13. ASSUME NEW c \in Conn, Disconnect(c)
       PROVE  TypeOK'
  <2>1. {c} \in SUBSET Conn
    OBVIOUS
  <2>2. CASE pool[c] = None
    BY <1>13, <1>11, <2>1, <2>2 DEF Disconnect, SetStatus
  <2>3. CASE pool[c] # None
    BY <1>13, <1>11, <1>12, <2>1, <2>3 DEF Disconnect
  <2>4. QED
    BY <2>2, <2>3
<1>14. ASSUME NEW c \in Conn, FinishDisconnect(c)
       PROVE  TypeOK'
  BY <1>14 DEF FinishDisconnect, DeleteEntry
<1>15. CASE DisconnectAll
  <2>1. Open \in SUBSET Conn
    BY DEF Open
  <2>2. QED
    BY <1>15, <1>11, <1>12, <2>1 DEF DisconnectAll
<1>16. CASE IdleMonitor
  <2>1. {c \in Open : now - last[c] > IdleTimeout} \in SUBSET Conn
    BY DEF Open
  <2>2. QED
    BY <1>16, <1>11, <1>12, <2>1 DEF IdleMonitor
<1>17. ASSUME NEW c \in Conn, SuspendAutoConnect(c)
       PROVE  TypeOK'
  <2>1. {c} \in SUBSET Conn
    OBVIOUS
  <2>2. QED
    BY <1>17, <1>11, <2>1 DEF SuspendAutoConnect
<1>18. ASSUME NEW c \in Conn, ResumeAutoConnect(c)
       PROVE  TypeOK'
  BY <1>18 DEF ResumeAutoConnect
<1>19. CASE Dispose
  <2>1. Open \in SUBSET Conn
    BY DEF Open
  <2>2. QED
    BY <1>19, <1>12, <2>1 DEF Dispose
<1>20. CASE Tick
  BY <1>20 DEF Tick
<1>21. CASE UNCHANGED vars
  BY <1>21 DEF vars
<1>22. QED
  BY <1>1, <1>2, <1>3, <1>4, <1>5, <1>6, <1>7, <1>8, <1>9, <1>10, <1>13,
     <1>14, <1>15, <1>16, <1>17, <1>18, <1>19, <1>20, <1>21
     DEF Next, CallStep

\* Every variable keeps its type, and the two pending maps their common keys.
THEOREM TypeCorrect == Spec => []TypeOK
BY InitType, NextType, PTL DEF Spec

-----------------------------------------------------------------------------
(* The inductive invariant *)

\* An empty pool satisfies the inductive invariant.
LEMMA InitInv == Init => IInv
<1> SUFFICES ASSUME Init PROVE IInv
  OBVIOUS
<1>1. TypeOK
  BY InitType
<1>2. CallInv /\ EntryInv /\ ClosingInv /\ AttemptInv /\ JoinsAreCurrent
  BY DEF Init, CallInv, EntryInv, ClosingInv, AttemptInv, JoinsAreCurrent,
         Attempt, Settling
<1>3. DuplicateFree /\ NoLeak /\ DisconnectWins
  BY DEF Init, DuplicateFree, NoLeak, DisconnectWins, Attempt
<1>4. QED
  BY <1>1, <1>2, <1>3 DEF IInv

\* The inductive step: no continuation of connect, disconnect, suspend or the
\* idle monitor, and no event between two of them, breaks the invariant.
LEMMA NextInv == IInv /\ [Next]_vars => IInv'
<1> SUFFICES ASSUME IInv, [Next]_vars PROVE IInv'
  OBVIOUS
<1> TypeOK'
  BY NextType DEF IInv
<1> USE DEF IInv, TypeOK, Attempt, Settling, Joinable, entryVars, pendingVars,
            callVars
<1>1. ASSUME NEW c \in Conn, Touch(c)
      PROVE  IInv'
  <2>1. CallInv'
    BY <1>1 DEF Touch, CallInv
  <2>2. EntryInv'
    BY <1>1 DEF Touch, EntryInv
  <2>3. ClosingInv'
    BY <1>1 DEF Touch, ClosingInv
  <2>4. AttemptInv'
    BY <1>1 DEF Touch, AttemptInv
  <2>5. JoinsAreCurrent'
    BY <1>1 DEF Touch, JoinsAreCurrent
  <2>6. DuplicateFree'
    BY <1>1 DEF Touch, DuplicateFree
  <2>7. NoLeak'
    BY <1>1 DEF Touch, NoLeak
  <2>8. DisconnectWins'
    BY <1>1 DEF Touch, DisconnectWins
  <2>9. QED
    BY <2>1, <2>2, <2>3, <2>4, <2>5, <2>6, <2>7, <2>8
<1>2. ASSUME NEW k \in Call, NEW c \in Conn, Join(k, c)
      PROVE  IInv'
  <2>1. CallInv'
    BY <1>2 DEF Join, NeedsConnect, CallInv
  <2>2. EntryInv'
    BY <1>2 DEF Join, NeedsConnect, EntryInv
  <2>3. ClosingInv'
    BY <1>2 DEF Join, ClosingInv
  <2>4. AttemptInv'
    BY <1>2 DEF Join, AttemptInv
  <2>5. JoinsAreCurrent'
    BY <1>2 DEF Join, NeedsConnect, JoinsAreCurrent
  <2>6. DuplicateFree'
    BY <1>2 DEF Join, DuplicateFree
  <2>7. NoLeak'
    BY <1>2 DEF Join, NeedsConnect, NoLeak, CallInv
  <2>8. DisconnectWins'
    BY <1>2 DEF Join, DisconnectWins
  <2>9. QED
    BY <2>1, <2>2, <2>3, <2>4, <2>5, <2>6, <2>7, <2>8
<1>3. ASSUME NEW k \in Call, NEW c \in Conn, StartConnecting(k, c)
      PROVE  IInv'
  <2>1. CallInv'
    BY <1>3 DEF StartConnecting, StartAttempt, With, CallInv
  <2>2. EntryInv'
    BY <1>3 DEF StartConnecting, StartAttempt, DeleteEntry, NeedsConnect,
                EntryInv
  <2>3. ClosingInv'
    BY <1>3 DEF StartConnecting, StartAttempt, DeleteEntry, With, ClosingInv
  <2>4. AttemptInv'
    BY <1>3 DEF StartConnecting, StartAttempt, DeleteEntry, NeedsConnect,
                AttemptInv, CallInv, JoinsAreCurrent
  <2>5. JoinsAreCurrent'
    BY <1>3 DEF StartConnecting, StartAttempt, NeedsConnect, JoinsAreCurrent,
                CallInv
  <2>6. DuplicateFree'
    BY <1>3 DEF StartConnecting, StartAttempt, NeedsConnect, DuplicateFree,
                AttemptInv, JoinsAreCurrent
  <2>7. NoLeak'
    BY <1>3 DEF StartConnecting, StartAttempt, DeleteEntry, With, AdaptersOf,
                NoLeak
  <2>8. DisconnectWins'
    BY <1>3 DEF StartConnecting, StartAttempt, DeleteEntry, DisconnectWins
  <2>9. QED
    BY <2>1, <2>2, <2>3, <2>4, <2>5, <2>6, <2>7, <2>8
<1>4. ASSUME NEW k \in Call, NEW c \in Conn, StartEvicting(k, c)
      PROVE  IInv'
  <2>1. CallInv'
    BY <1>4 DEF StartEvicting, StartAttempt, NeedsConnect, With, CallInv
  <2>2. EntryInv'
    BY <1>4 DEF StartEvicting, StartAttempt, DeleteEntry, NeedsConnect, EntryInv
  <2>3. ClosingInv'
    BY <1>4 DEF StartEvicting, StartAttempt, DeleteEntry, With, AdaptersOf,
                ClosingInv
  <2>4. AttemptInv'
    BY <1>4 DEF StartEvicting, StartAttempt, DeleteEntry, NeedsConnect,
                AttemptInv, CallInv, JoinsAreCurrent
  <2>5. JoinsAreCurrent'
    BY <1>4 DEF StartEvicting, StartAttempt, NeedsConnect, JoinsAreCurrent,
                CallInv
  <2>6. DuplicateFree'
    BY <1>4 DEF StartEvicting, StartAttempt, NeedsConnect, DuplicateFree,
                AttemptInv, JoinsAreCurrent
  <2>7. NoLeak'
    BY <1>4 DEF StartEvicting, StartAttempt, DeleteEntry, NeedsConnect, With,
                AdaptersOf, NoLeak, CallInv
  <2>8. DisconnectWins'
    BY <1>4 DEF StartEvicting, StartAttempt, DeleteEntry, DisconnectWins,
                EntryInv
  <2>9. QED
    BY <2>1, <2>2, <2>3, <2>4, <2>5, <2>6, <2>7, <2>8
<1>5. ASSUME NEW k \in Call, FinishEvict(k)
      PROVE  IInv'
  <2>1. CallInv'
    BY <1>5 DEF FinishEvict, CallInv
  <2>2. EntryInv'
    BY <1>5 DEF FinishEvict, EntryInv
  <2>3. ClosingInv'
    BY <1>5 DEF FinishEvict, ClosingInv
  <2>4. AttemptInv'
    BY <1>5 DEF FinishEvict, AttemptInv
  <2>5. JoinsAreCurrent'
    BY <1>5 DEF FinishEvict, JoinsAreCurrent
  <2>6. DuplicateFree'
    BY <1>5 DEF FinishEvict, DuplicateFree
  <2>7. NoLeak'
    BY <1>5 DEF FinishEvict, NoLeak, ClosingInv
  <2>8. DisconnectWins'
    BY <1>5 DEF FinishEvict, DisconnectWins
  <2>9. QED
    BY <2>1, <2>2, <2>3, <2>4, <2>5, <2>6, <2>7, <2>8
<1>6. ASSUME NEW k \in Call, Land(k)
      PROVE  IInv'
  <2>1. CallInv'
    BY <1>6 DEF Land, CallInv
  <2>2. EntryInv'
    BY <1>6 DEF Land, EntryInv
  <2>3. ClosingInv'
    BY <1>6 DEF Land, Quiet, ClosingInv
  <2>4. AttemptInv'
    BY <1>6 DEF Land, Stale, AttemptInv
  <2>5. JoinsAreCurrent'
    BY <1>6 DEF Land, JoinsAreCurrent
  <2>6. DuplicateFree'
    BY <1>6 DEF Land, DuplicateFree
  <2>7. NoLeak'
    BY <1>6 DEF Land, Stale, NoLeak, AttemptInv
  <2>8. DisconnectWins'
    BY <1>6 DEF Land, Stale, DisconnectWins, AttemptInv
  <2>9. QED
    BY <2>1, <2>2, <2>3, <2>4, <2>5, <2>6, <2>7, <2>8
<1>7. ASSUME NEW k \in Call, Discard(k) \/ ConnectFail(k)
      PROVE  IInv'
  <2>1. CallInv'
    BY <1>7 DEF Discard, ConnectFail, GiveUp, CallInv
  <2>2. EntryInv'
    BY <1>7 DEF Discard, ConnectFail, GiveUp, EntryInv
  <2>3. ClosingInv'
    BY <1>7 DEF Discard, ConnectFail, GiveUp, ClosingInv
  <2>4. AttemptInv'
    BY <1>7 DEF Discard, ConnectFail, GiveUp, AttemptInv
  <2>5. JoinsAreCurrent'
    BY <1>7 DEF Discard, ConnectFail, GiveUp, JoinsAreCurrent
  <2>6. DuplicateFree'
    BY <1>7 DEF Discard, ConnectFail, GiveUp, DuplicateFree
  <2>7. NoLeak'
    BY <1>7 DEF Discard, ConnectFail, GiveUp, NoLeak
  <2>8. DisconnectWins'
    BY <1>7 DEF Discard, ConnectFail, GiveUp, DisconnectWins
  <2>9. QED
    BY <2>1, <2>2, <2>3, <2>4, <2>5, <2>6, <2>7, <2>8
<1>8. ASSUME NEW k \in Call, Settle(k)
      PROVE  IInv'
  <2>1. CallInv'
    BY <1>8 DEF Settle, CallInv
  <2>2. EntryInv'
    BY <1>8 DEF Settle, EntryInv
  <2>3. ClosingInv'
    BY <1>8 DEF Settle, ClosingInv
  <2>4. AttemptInv'
    BY <1>8 DEF Settle, AttemptInv, CallInv
  <2>5. JoinsAreCurrent'
    BY <1>8 DEF Settle, JoinsAreCurrent
  <2>6. DuplicateFree'
    BY <1>8 DEF Settle, DuplicateFree
  <2>7. NoLeak'
    BY <1>8 DEF Settle, NoLeak, CallInv
  <2>8. DisconnectWins'
    BY <1>8 DEF Settle, DisconnectWins
  <2>9. QED
    BY <2>1, <2>2, <2>3, <2>4, <2>5, <2>6, <2>7, <2>8
<1>9. ASSUME NEW k \in Call, Wake(k)
      PROVE  IInv'
  <2>1. CallInv'
    BY <1>9 DEF Wake, CallInv
  <2>2. EntryInv'
    BY <1>9 DEF Wake, EntryInv
  <2>3. ClosingInv'
    BY <1>9 DEF Wake, ClosingInv
  <2>4. AttemptInv'
    BY <1>9 DEF Wake, AttemptInv
  <2>5. JoinsAreCurrent'
    BY <1>9 DEF Wake, JoinsAreCurrent
  <2>6. DuplicateFree'
    BY <1>9 DEF Wake, DuplicateFree
  <2>7. NoLeak'
    BY <1>9 DEF Wake, NoLeak, CallInv
  <2>8. DisconnectWins'
    BY <1>9 DEF Wake, DisconnectWins
  <2>9. QED
    BY <2>1, <2>2, <2>3, <2>4, <2>5, <2>6, <2>7, <2>8
<1>10. ASSUME NEW k \in Call, Lose(k)
      PROVE  IInv'
  <2>1. CallInv'
    BY <1>10 DEF Lose, CallInv
  <2>2. EntryInv'
    BY <1>10 DEF Lose, EntryInv
  <2>3. ClosingInv'
    BY <1>10 DEF Lose, ClosingInv
  <2>4. AttemptInv'
    BY <1>10 DEF Lose, AttemptInv
  <2>5. JoinsAreCurrent'
    BY <1>10 DEF Lose, JoinsAreCurrent
  <2>6. DuplicateFree'
    BY <1>10 DEF Lose, DuplicateFree
  <2>7. NoLeak'
    BY <1>10 DEF Lose, NoLeak
  <2>8. DisconnectWins'
    BY <1>10 DEF Lose, DisconnectWins
  <2>9. QED
    BY <2>1, <2>2, <2>3, <2>4, <2>5, <2>6, <2>7, <2>8
<1>11. ASSUME NEW c \in Conn, Disconnect(c)
      PROVE  IInv'
  <2>1. CallInv'
    BY <1>11 DEF Disconnect, Invalidate, BeginDisconnect, With, CallInv
  <2>2. EntryInv'
    BY <1>11 DEF Disconnect, EntryInv
  <2>3. ClosingInv'
    BY <1>11 DEF Disconnect, BeginDisconnect, With, AdaptersOf, ClosingInv
  <2>4. AttemptInv'
    BY <1>11 DEF Disconnect, Invalidate, With, AttemptInv, CallInv
  <2>5. JoinsAreCurrent'
    BY <1>11 DEF Disconnect, Invalidate, With, JoinsAreCurrent
  <2>6. DuplicateFree'
    BY <1>11 DEF Disconnect, Invalidate, DuplicateFree
  <2>7. NoLeak'
    <3>1. \A k \in Call : link'[k] = "up" => link[k] = "up"
      BY <1>11 DEF Disconnect, BeginDisconnect, With
    <3>2. UNCHANGED <<pool, conn, disposed>>
      BY <1>11 DEF Disconnect
    <3>3. QED
      BY <3>1, <3>2 DEF NoLeak
  <2>8. DisconnectWins'
    BY <1>11 DEF Disconnect, Invalidate, DisconnectWins, EntryInv
  <2>9. QED
    BY <2>1, <2>2, <2>3, <2>4, <2>5, <2>6, <2>7, <2>8
<1>12. ASSUME NEW c \in Conn, FinishDisconnect(c)
      PROVE  IInv'
  <2>1. CallInv'
    BY <1>12 DEF FinishDisconnect, CallInv
  <2>2. EntryInv'
    BY <1>12 DEF FinishDisconnect, DeleteEntry, EntryInv
  <2>3. ClosingInv'
    BY <1>12 DEF FinishDisconnect, DeleteEntry, ClosingInv
  <2>4. AttemptInv'
    BY <1>12 DEF FinishDisconnect, DeleteEntry, AttemptInv
  <2>5. JoinsAreCurrent'
    BY <1>12 DEF FinishDisconnect, JoinsAreCurrent
  <2>6. DuplicateFree'
    BY <1>12 DEF FinishDisconnect, DuplicateFree
  <2>7. NoLeak'
    BY <1>12 DEF FinishDisconnect, DeleteEntry, NoLeak, ClosingInv
  <2>8. DisconnectWins'
    BY <1>12 DEF FinishDisconnect, DeleteEntry, DisconnectWins
  <2>9. QED
    BY <2>1, <2>2, <2>3, <2>4, <2>5, <2>6, <2>7, <2>8
<1>13. CASE DisconnectAll
  <2>1. CallInv'
    BY <1>13 DEF DisconnectAll, Invalidate, BeginDisconnect, With, CallInv
  <2>2. EntryInv'
    BY <1>13 DEF DisconnectAll, EntryInv
  <2>3. ClosingInv'
    BY <1>13 DEF DisconnectAll, BeginDisconnect, With, AdaptersOf, ClosingInv
  <2>4. AttemptInv'
    BY <1>13 DEF DisconnectAll, Invalidate, With, AttemptInv, CallInv
  <2>5. JoinsAreCurrent'
    BY <1>13 DEF DisconnectAll, Invalidate, With, JoinsAreCurrent
  <2>6. DuplicateFree'
    BY <1>13 DEF DisconnectAll, Invalidate, DuplicateFree
  <2>7. NoLeak'
    BY <1>13 DEF DisconnectAll, BeginDisconnect, With, NoLeak
  <2>8. DisconnectWins'
    BY <1>13 DEF DisconnectAll, Invalidate, DisconnectWins, EntryInv
  <2>9. QED
    BY <2>1, <2>2, <2>3, <2>4, <2>5, <2>6, <2>7, <2>8
<1>14. CASE IdleMonitor
  <2>1. CallInv'
    BY <1>14 DEF IdleMonitor, Invalidate, BeginDisconnect, With, CallInv
  <2>2. EntryInv'
    BY <1>14 DEF IdleMonitor, EntryInv
  <2>3. ClosingInv'
    BY <1>14 DEF IdleMonitor, BeginDisconnect, With, AdaptersOf, ClosingInv
  <2>4. AttemptInv'
    BY <1>14 DEF IdleMonitor, Invalidate, With, AttemptInv, CallInv
  <2>5. JoinsAreCurrent'
    BY <1>14 DEF IdleMonitor, Invalidate, With, JoinsAreCurrent
  <2>6. DuplicateFree'
    BY <1>14 DEF IdleMonitor, Invalidate, DuplicateFree
  <2>7. NoLeak'
    BY <1>14 DEF IdleMonitor, BeginDisconnect, With, NoLeak
  <2>8. DisconnectWins'
    BY <1>14 DEF IdleMonitor, Invalidate, DisconnectWins, EntryInv
  <2>9. QED
    BY <2>1, <2>2, <2>3, <2>4, <2>5, <2>6, <2>7, <2>8
<1>15. ASSUME NEW c \in Conn, SuspendAutoConnect(c)
      PROVE  IInv'
  <2>1. CallInv'
    BY <1>15 DEF SuspendAutoConnect, Invalidate, CallInv
  <2>2. EntryInv'
    BY <1>15 DEF SuspendAutoConnect, EntryInv
  <2>3. ClosingInv'
    BY <1>15 DEF SuspendAutoConnect, ClosingInv
  <2>4. AttemptInv'
    BY <1>15 DEF SuspendAutoConnect, Invalidate, With, AttemptInv, CallInv
  <2>5. JoinsAreCurrent'
    BY <1>15 DEF SuspendAutoConnect, Invalidate, With, JoinsAreCurrent
  <2>6. DuplicateFree'
    BY <1>15 DEF SuspendAutoConnect, Invalidate, DuplicateFree
  <2>7. NoLeak'
    BY <1>15 DEF SuspendAutoConnect, NoLeak
  <2>8. DisconnectWins'
    BY <1>15 DEF SuspendAutoConnect, Invalidate, DisconnectWins, EntryInv
  <2>9. QED
    BY <2>1, <2>2, <2>3, <2>4, <2>5, <2>6, <2>7, <2>8
<1>16. ASSUME NEW c \in Conn, ResumeAutoConnect(c)
      PROVE  IInv'
  <2>1. CallInv'
    BY <1>16 DEF ResumeAutoConnect, CallInv
  <2>2. EntryInv'
    BY <1>16 DEF ResumeAutoConnect, EntryInv
  <2>3. ClosingInv'
    BY <1>16 DEF ResumeAutoConnect, ClosingInv
  <2>4. AttemptInv'
    BY <1>16 DEF ResumeAutoConnect, AttemptInv
  <2>5. JoinsAreCurrent'
    BY <1>16 DEF ResumeAutoConnect, JoinsAreCurrent
  <2>6. DuplicateFree'
    BY <1>16 DEF ResumeAutoConnect, DuplicateFree
  <2>7. NoLeak'
    BY <1>16 DEF ResumeAutoConnect, NoLeak
  <2>8. DisconnectWins'
    BY <1>16 DEF ResumeAutoConnect, DisconnectWins
  <2>9. QED
    BY <2>1, <2>2, <2>3, <2>4, <2>5, <2>6, <2>7, <2>8
<1>17. CASE Dispose
  <2>1. CallInv'
    BY <1>17 DEF Dispose, BeginDisconnect, With, CallInv
  <2>2. EntryInv'
    BY <1>17 DEF Dispose, EntryInv
  <2>3. ClosingInv'
    BY <1>17 DEF Dispose, BeginDisconnect, With, AdaptersOf, ClosingInv
  <2>4. AttemptInv'
    BY <1>17 DEF Dispose, AttemptInv
  <2>5. JoinsAreCurrent'
    BY <1>17 DEF Dispose, JoinsAreCurrent
  <2>6. DuplicateFree'
    BY <1>17 DEF Dispose, DuplicateFree
  <2>7. NoLeak'
    BY <1>17 DEF Dispose, NoLeak
  <2>8. DisconnectWins'
    BY <1>17 DEF Dispose, DisconnectWins
  <2>9. QED
    BY <2>1, <2>2, <2>3, <2>4, <2>5, <2>6, <2>7, <2>8
<1>18. CASE Tick
  <2>1. CallInv'
    BY <1>18 DEF Tick, CallInv
  <2>2. EntryInv'
    BY <1>18 DEF Tick, EntryInv
  <2>3. ClosingInv'
    BY <1>18 DEF Tick, ClosingInv
  <2>4. AttemptInv'
    BY <1>18 DEF Tick, AttemptInv
  <2>5. JoinsAreCurrent'
    BY <1>18 DEF Tick, JoinsAreCurrent
  <2>6. DuplicateFree'
    BY <1>18 DEF Tick, DuplicateFree
  <2>7. NoLeak'
    BY <1>18 DEF Tick, NoLeak
  <2>8. DisconnectWins'
    BY <1>18 DEF Tick, DisconnectWins
  <2>9. QED
    BY <2>1, <2>2, <2>3, <2>4, <2>5, <2>6, <2>7, <2>8
<1>19. CASE UNCHANGED vars
  BY <1>19 DEF vars, CallInv, EntryInv, ClosingInv, AttemptInv, JoinsAreCurrent,
         DuplicateFree, NoLeak, DisconnectWins
<1>20. QED
  BY <1>1, <1>2, <1>3, <1>4, <1>5, <1>6, <1>7, <1>8, <1>9, <1>10, <1>11,
     <1>12, <1>13, <1>14, <1>15, <1>16, <1>17, <1>18, <1>19
     DEF Next, CallStep

-----------------------------------------------------------------------------
(* The theorems *)

\* The inductive invariant holds of every interleaving of the pool's calls.
THEOREM Invariance == Spec => []IInv
BY InitInv, NextInv, PTL DEF Spec

\* A connected adapter is always the one its connection's entry holds.
THEOREM NoLeakCorrect == Spec => []NoLeak
<1>1. IInv => NoLeak
  BY DEF IInv
<1>2. QED
  BY Invariance, <1>1, PTL

\* Two attempts in flight for one connection: one has been cancelled.
THEOREM DuplicateFreeCorrect == Spec => []DuplicateFree
<1>1. IInv => DuplicateFree
  BY DEF IInv
<1>2. QED
  BY Invariance, <1>1, PTL

\* An attempt overtaken by disconnect or suspend never becomes an entry.
THEOREM DisconnectWinsCorrect == Spec => []DisconnectWins
<1>1. IInv => DisconnectWins
  BY DEF IInv
<1>2. QED
  BY Invariance, <1>1, PTL

\* What _pending offers to join is in flight, wanted and current.
THEOREM JoinsAreCurrentCorrect == Spec => []JoinsAreCurrent
<1>1. IInv => JoinsAreCurrent
  BY DEF IInv
<1>2. QED
  BY Invariance, <1>1, PTL

-----------------------------------------------------------------------------
(* What follows from SingleFlight, for any states that behave like it *)

\* The pool's initial state offers nothing and has nothing in use.
LEMMA FlightInitial == Init => Flight!Init
BY DEF Init, Flight!Init, Promise, Session, Barred, Stage, StageOf, Joined, Live

\* Nothing to begin with is sound.
LEMMA FlightInitSound == Flight!Init => Flight!Sound
BY DEF Flight!Init, Flight!Sound, Flight!TypeOK, Flight!Stage

\* No step of a single flight hands one attempt to two connections, offers an
\* attempt that ended or lets a call wait for one that waits.
LEMMA FlightNextSound ==
    Flight!Sound /\ [Flight!Next]_(Flight!flightVars) => Flight!Sound'
<1> SUFFICES ASSUME Flight!Sound, [Flight!Next]_(Flight!flightVars)
             PROVE  Flight!Sound'
  OBVIOUS
<1> USE DEF Flight!Sound, Flight!TypeOK, Flight!Stage, Flight!Advance,
            Flight!Without, Flight!Outcome
<1>1. ASSUME NEW k \in Call, NEW c \in Conn, NEW S, Flight!Begin(k, c, S)
      PROVE  Flight!Sound'
  BY <1>1 DEF Flight!Begin, Flight!Wants
<1>2. ASSUME NEW k \in Call, NEW c \in Conn, Flight!Join(k, c)
      PROVE  Flight!Sound'
  BY <1>2 DEF Flight!Join, Flight!Wants
<1>3. ASSUME NEW k \in Call, Flight!Land(k)
      PROVE  Flight!Sound'
  BY <1>3 DEF Flight!Land
<1>4. ASSUME NEW k \in Call, Flight!Refuse(k)
      PROVE  Flight!Sound'
  BY <1>4 DEF Flight!Refuse
<1>5. ASSUME NEW k \in Call, Flight!Answer(k)
      PROVE  Flight!Sound'
  BY <1>5 DEF Flight!Answer
<1>6. ASSUME NEW k \in Call, Flight!AnswerJoined(k)
      PROVE  Flight!Sound'
  BY <1>6 DEF Flight!AnswerJoined
<1>7. ASSUME NEW c \in Conn, Flight!Break(c) \/ Flight!Bar(c) \/ Flight!Unbar(c)
      PROVE  Flight!Sound'
  BY <1>7 DEF Flight!Break, Flight!Bar, Flight!Unbar
<1>8. ASSUME NEW S \in SUBSET Conn, Flight!Drop(S)
      PROVE  Flight!Sound'
  BY <1>8 DEF Flight!Drop
<1>9. CASE Flight!Close
  BY <1>9 DEF Flight!Close
<1>10. CASE UNCHANGED Flight!flightVars
  BY <1>10 DEF Flight!flightVars
<1>11. QED
  BY <1>1, <1>2, <1>3, <1>4, <1>5, <1>6, <1>7, <1>8, <1>9, <1>10
     DEF Flight!Next

\* A step of a single flight neither offers nor uses an attempt called off.
LEMMA FlightNextCalledOff ==
    ASSUME Flight!Sound, [Flight!Next]_(Flight!flightVars),
           NEW k \in Call, Flight!CalledOff(k), NEW c \in Conn
    PROVE  Promise'[c] # k /\ Session'[c] # k
<1> USE DEF Flight!Sound, Flight!TypeOK, Flight!CalledOff, Flight!Without
<1>0. /\ Stage[k] = "trying"
      /\ Promise[c] # k
      /\ k # None
      /\ Session[c] # k
  OBVIOUS
<1>1. ASSUME NEW j \in Call, NEW d \in Conn, NEW S,
             Flight!Begin(j, d, S) \/ Flight!Join(j, d)
      PROVE  Promise'[c] # k /\ Session'[c] # k
  BY <1>0, <1>1 DEF Flight!Begin, Flight!Join, Flight!Wants
<1>2. ASSUME NEW j \in Call, Flight!Land(j)
      PROVE  Promise'[c] # k /\ Session'[c] # k
  BY <1>0, <1>2 DEF Flight!Land
<1>3. ASSUME NEW j \in Call,
             Flight!Refuse(j) \/ Flight!Answer(j) \/ Flight!AnswerJoined(j)
      PROVE  Promise'[c] # k /\ Session'[c] # k
  BY <1>0, <1>3 DEF Flight!Refuse, Flight!Answer, Flight!AnswerJoined
<1>4. ASSUME NEW d \in Conn, Flight!Break(d) \/ Flight!Bar(d) \/ Flight!Unbar(d)
      PROVE  Promise'[c] # k /\ Session'[c] # k
  BY <1>0, <1>4 DEF Flight!Break, Flight!Bar, Flight!Unbar
<1>5. ASSUME NEW S \in SUBSET Conn, Flight!Drop(S)
      PROVE  Promise'[c] # k /\ Session'[c] # k
  BY <1>0, <1>5 DEF Flight!Drop
<1>6. CASE Flight!Close
  BY <1>0, <1>6 DEF Flight!Close
<1>7. CASE UNCHANGED Flight!flightVars
  BY <1>0, <1>7 DEF Flight!flightVars
<1>8. QED
  BY <1>1, <1>2, <1>3, <1>4, <1>5, <1>6, <1>7 DEF Flight!Next

-----------------------------------------------------------------------------
(* The pool implements SingleFlight *)

\* Where a call goes is where its stage goes.
LEMMA StageMoves ==
    ASSUME pc \in [Call -> Pc], NEW k \in Call, NEW p \in Pc,
           pc' = [pc EXCEPT ![k] = p]
    PROVE  Stage' = [Stage EXCEPT ![k] = StageOf(p)]
BY DEF Stage

\* What a call waits for changes with its place and its target only.
LEMMA JoinedStays ==
    ASSUME pc' = pc, target' = target
    PROVE  Stage' = Stage /\ Joined' = Joined
BY DEF Stage, Joined

\* The sessions in use depend on the entries and the adapters in them.
LEMMA SessionStays ==
    ASSUME disposed' = disposed, pool' = pool, link' = link
    PROVE  Session' = Session
BY DEF Session, Live

\* What the registered promises and suspensions offer depends on them only.
LEMMA OfferStays ==
    ASSUME disposed' = disposed, pending' = pending
    PROVE  Promise' = Promise
BY DEF Promise

\* Disconnecting the entries of S ends their sessions and no other: an
\* adapter is in one entry only.
LEMMA DisconnectEnds ==
    ASSUME IInv, NEW S \in SUBSET Conn, disposed' = disposed, pool' = pool,
           link' = With(link, AdaptersOf(S), "closed")
    PROVE  Session' = Flight!Without(Session, S)
<1>1. ASSUME NEW c \in Conn, pool[c] # None
      PROVE  link'[pool[c]] = IF c \in S THEN "closed" ELSE link[pool[c]]
  <2>1. pool[c] \in Call /\ conn[pool[c]] = c
    BY <1>1 DEF IInv, EntryInv, TypeOK
  <2>2. pool[c] \in AdaptersOf(S) <=> c \in S
    BY <1>1, <2>1 DEF AdaptersOf, IInv, EntryInv
  <2>3. QED
    BY <2>1, <2>2 DEF With, IInv, TypeOK
<1>2. QED
  BY <1>1 DEF Session, Live, Flight!Without

\* Invalidating the attempts of S withdraws their promises.
LEMMA InvalidateWithdraws ==
    ASSUME TypeOK, NEW S \in SUBSET Conn, disposed' = disposed, Invalidate(S)
    PROVE  Promise' = Flight!Without(Promise, S)
BY DEF Invalidate, With, Promise, Flight!Without, TypeOK
\* An attempt starts: the adapters of the stale entry and of the entries in
\* V are closed, whatever other adapter the new one is.
LEMMA StartEnds ==
    ASSUME IInv, NEW k \in Call, NEW c \in Conn, NEW V \in SUBSET Conn,
           StartAttempt(k, c),
           \A d \in Conn : pool[d] # None =>
             link'[pool[d]] = IF d \in V \cup {c} THEN "closed" ELSE link[pool[d]]
    PROVE  Session' = Flight!Without(Session, V)
<1>1. /\ disposed' = disposed
      /\ ~Live(c)
      /\ pool' = [pool EXCEPT ![c] = None]
  BY DEF StartAttempt, NeedsConnect, DeleteEntry
<1>2. pool \in [Conn -> Call \cup {None}]
  BY DEF IInv, TypeOK
<1>3. ASSUME NEW d \in Conn
      PROVE  Session'[d] = IF d \in V THEN None ELSE Session[d]
  <2>1. CASE d = c
    BY <1>1, <1>2, <2>1 DEF Session, Live
  <2>2. CASE d # c
    BY <1>1, <1>2, <2>2 DEF Session, Live
  <2>3. QED
    BY <2>1, <2>2
<1>4. QED
  BY <1>3 DEF Session, Flight!Without

\* What a call that starts an attempt found: nobody's attempt, no session.
LEMMA StartWants ==
    ASSUME IInv, NEW k \in Call, NEW c \in Conn, StartAttempt(k, c)
    PROVE  /\ Flight!Wants(k, c)
           /\ Promise[c] = None
           /\ ~disposed /\ pending[c] = None /\ pc[k] = "idle"
<1>1. NeedsConnect(k, c) /\ ~Joinable(c) /\ UNCHANGED <<suspended, disposed>>
  BY DEF StartAttempt
<1>2. pending[c] = None
  BY <1>1 DEF IInv, JoinsAreCurrent
<1>3. Stage[k] = "new"
  BY <1>1 DEF NeedsConnect, Stage, StageOf
<1>4. QED
  BY <1>1, <1>2, <1>3
     DEF NeedsConnect, Flight!Wants, Promise, Session, Barred

\* There is room: the call makes its attempt at nobody's cost.
LEMMA StartConnectingImplements ==
    ASSUME IInv, NEW k \in Call, NEW c \in Conn, StartConnecting(k, c)
    PROVE  Flight!Begin(k, c, {})
<1>1. StartAttempt(k, c)
  BY DEF StartConnecting
<1>2. /\ Flight!Wants(k, c)
      /\ Promise[c] = None
      /\ ~disposed /\ pending[c] = None /\ pc[k] = "idle"
  BY <1>1, StartWants
<1>3. disposed' = disposed
  BY <1>1 DEF StartAttempt
<1>4. Promise' = [Flight!Without(Promise, {}) EXCEPT ![c] = k]
  BY <1>2, <1>3 DEF StartConnecting, Promise, Flight!Without, IInv, TypeOK
<1>5. Session' = Flight!Without(Session, {})
  <2>1. ASSUME NEW d \in Conn, pool[d] # None
        PROVE  link'[pool[d]] = IF d \in {} \cup {c} THEN "closed" ELSE link[pool[d]]
    <3>1. pool[d] \in Call /\ pool[d] # k /\ conn[pool[d]] = d
      BY <1>2, <2>1 DEF IInv, TypeOK, EntryInv
    <3>2. pool[d] \in AdaptersOf({c}) <=> d = c
      BY <2>1, <3>1 DEF AdaptersOf, IInv, EntryInv
    <3>3. QED
      BY <3>1, <3>2 DEF StartConnecting, With, IInv, TypeOK
  <2>2. QED
    BY <1>1, <2>1, StartEnds
<1>6. Stage' = [Stage EXCEPT ![k] = "trying"]
  BY StageMoves DEF StartConnecting, StageOf, Pc, IInv, TypeOK
<1>7. Joined' = Joined
  BY <1>2 DEF StartConnecting, Joined, IInv, TypeOK
<1>8. QED
  BY <1>2, <1>4, <1>5, <1>6, <1>7 DEF Flight!Begin, Flight!Advance

\* The pool is full: the attempt is made at the cost of one other connection.
LEMMA StartEvictingImplements ==
    ASSUME IInv, NEW k \in Call, NEW c \in Conn, StartEvicting(k, c)
    PROVE  \E v \in Conn \ {c} : Flight!Begin(k, c, {v})
<1>1. StartAttempt(k, c)
  BY DEF StartEvicting
<1>2. /\ Flight!Wants(k, c)
      /\ Promise[c] = None
      /\ ~disposed /\ pending[c] = None /\ pc[k] = "idle"
  BY <1>1, StartWants
<1>3. disposed' = disposed
  BY <1>1 DEF StartAttempt
<1>4. PICK v \in Oldest(Open \ {c}) :
        /\ pending' = [pending EXCEPT ![v] = None, ![c] = k]
        /\ link' = With(link, AdaptersOf({c, v}), "closed")
        /\ target' = [target EXCEPT ![k] = v]
  BY DEF StartEvicting
<1>5. v \in Conn \ {c}
  BY DEF Oldest, Open
<1>6. Promise' = [Flight!Without(Promise, {v}) EXCEPT ![c] = k]
  BY <1>2, <1>3, <1>4, <1>5 DEF Promise, Flight!Without, IInv, TypeOK
<1>7. Session' = Flight!Without(Session, {v})
  <2>1. ASSUME NEW d \in Conn, pool[d] # None
        PROVE  link'[pool[d]] = IF d \in {v} \cup {c} THEN "closed" ELSE link[pool[d]]
    <3>1. pool[d] \in Call /\ conn[pool[d]] = d
      BY <2>1 DEF IInv, TypeOK, EntryInv
    <3>2. pool[d] \in AdaptersOf({c, v}) <=> d \in {c, v}
      BY <1>5, <2>1, <3>1 DEF AdaptersOf, IInv, EntryInv
    <3>3. QED
      BY <1>4, <3>1, <3>2 DEF With, IInv, TypeOK
  <2>2. {v} \in SUBSET Conn
    BY <1>5
  <2>3. QED
    BY <1>1, <2>1, <2>2, StartEnds
<1>8. Stage' = [Stage EXCEPT ![k] = "trying"]
  BY StageMoves DEF StartEvicting, StageOf, Pc, IInv, TypeOK
<1>9. Joined' = Joined
  BY <1>2, <1>4 DEF StartEvicting, Joined, IInv, TypeOK
<1>10. Flight!Begin(k, c, {v})
  BY <1>2, <1>6, <1>7, <1>8, <1>9 DEF Flight!Begin, Flight!Advance
<1>11. QED
  BY <1>5, <1>10

\* A call that finds an attempt in progress joins it.
LEMMA JoinImplements ==
    ASSUME IInv, NEW k \in Call, NEW c \in Conn, Join(k, c)
    PROVE  Flight!Join(k, c)
<1>1. /\ ~disposed /\ pc[k] = "idle" /\ c \notin suspended /\ ~Live(c)
      /\ pending[c] # None
      /\ pc' = [pc EXCEPT ![k] = "waiting"]
      /\ target' = [target EXCEPT ![k] = pending[c]]
      /\ pool' = pool /\ pending' = pending /\ link' = link
      /\ suspended' = suspended /\ disposed' = disposed
  BY DEF Join, NeedsConnect, Joinable, entryVars, pendingVars
<1>2. Promise' = Promise /\ Session' = Session /\ Barred' = Barred
  BY <1>1, OfferStays, SessionStays DEF Barred
<1>3. Stage' = [Stage EXCEPT ![k] = "joining"]
  BY <1>1, StageMoves DEF StageOf, Pc, IInv, TypeOK
<1>4. Joined' = [Joined EXCEPT ![k] = Promise[c]]
  BY <1>1 DEF Joined, Promise, IInv, TypeOK
<1>5. Stage[k] = "new" /\ Session[c] = None /\ Promise[c] # None /\ c \notin Barred
  BY <1>1 DEF Stage, StageOf, Session, Promise, Barred
<1>6. QED
  BY <1>1, <1>2, <1>3, <1>4, <1>5
     DEF Flight!Join, Flight!Wants, Flight!Advance

\* The end of an eviction shows nobody anything: what it deletes is down.
LEMMA FinishEvictStutters ==
    ASSUME IInv, NEW k \in Call, FinishEvict(k)
    PROVE  UNCHANGED Flight!flightVars
<1>1. /\ pc[k] = "evicting"
      /\ pool' = [pool EXCEPT ![target[k]] = None]
      /\ link' = [link EXCEPT ![k] = "opening"]
      /\ pc' = [pc EXCEPT ![k] = "connecting"]
      /\ target' = [target EXCEPT ![k] = None]
      /\ pending' = pending /\ suspended' = suspended /\ disposed' = disposed
  BY DEF FinishEvict, pendingVars
<1>2. ~Live(target[k])
  BY <1>1 DEF IInv, CallInv, ClosingInv, Live
<1>3. Session' = Session
  <2>1. ASSUME NEW c \in Conn, c # target[k], pool[c] # None
        PROVE  pool[c] \in Call /\ pool[c] # k
    BY <1>1, <2>1 DEF IInv, TypeOK, EntryInv
  <2>2. QED
    BY <1>1, <1>2, <2>1 DEF Session, Live, IInv, TypeOK
<1>4. Stage' = Stage
  <2>1. Stage' = [Stage EXCEPT ![k] = "trying"]
    BY <1>1, StageMoves DEF StageOf, Pc, IInv, TypeOK
  <2>2. Stage[k] = "trying"
    BY <1>1 DEF Stage, StageOf
  <2>3. QED
    BY <2>1, <2>2 DEF Stage
<1>5. Joined' = Joined
  BY <1>1 DEF Joined, IInv, TypeOK
<1>6. Promise' = Promise /\ Barred' = Barred
  BY <1>1, OfferStays DEF Barred
<1>7. QED
  BY <1>1, <1>3, <1>4, <1>5, <1>6 DEF Flight!flightVars

\* The attempt that lands is the one on offer.
LEMMA LandImplements ==
    ASSUME IInv, NEW k \in Call, Land(k)
    PROVE  Flight!Land(k)
<1> DEFINE c == conn[k]
<1>1. /\ pc[k] = "connecting"
      /\ c \notin suspended /\ gen[c] = callGen[k]
      /\ pool' = [pool EXCEPT ![c] = k]
      /\ link' = [link EXCEPT ![k] = "up"]
      /\ pc' = [pc EXCEPT ![k] = "ok"]
      /\ target' = target
      /\ pending' = pending /\ suspended' = suspended /\ disposed' = disposed
  BY DEF Land, Stale, pendingVars
<1>2. c \in Conn
  BY <1>1 DEF IInv, CallInv, Attempt
<1>3. ~disposed => pending[c] = k /\ pool[c] = None
  BY <1>1, <1>2 DEF IInv, AttemptInv, Attempt, TypeOK
<1>4. Stage[k] = "trying" /\ Stage' = [Stage EXCEPT ![k] = "landed"]
  BY <1>1, StageMoves DEF Stage, StageOf, Pc, IInv, TypeOK
<1>5. Joined' = Joined
  BY <1>1 DEF Joined, IInv, TypeOK
<1>6. Promise' = Promise /\ Barred' = Barred
  BY <1>1, OfferStays DEF Barred
<1>7. CASE disposed
  BY <1>1, <1>4, <1>5, <1>6, <1>7 DEF Session, Flight!Land, Flight!Advance
<1>8. CASE ~disposed
  <2>1. Session' = [Session EXCEPT ![c] = k]
    <3>1. ASSUME NEW d \in Conn, d # c, pool[d] # None
          PROVE  pool[d] \in Call /\ pool[d] # k
      BY <1>1, <3>1 DEF IInv, TypeOK, EntryInv
    <3>2. QED
      BY <1>1, <1>2, <1>8, <3>1 DEF Session, Live, IInv, TypeOK
  <2>2. Promise[c] = k /\ c \in Conn \ Barred
    BY <1>1, <1>2, <1>3, <1>8 DEF Promise, Barred
  <2>3. QED
    BY <1>1, <1>4, <1>5, <1>6, <2>1, <2>2 DEF Flight!Land, Flight!Advance
<1>9. QED
  BY <1>7, <1>8

\* An attempt that fails or comes too late is refused.
LEMMA RefuseImplements ==
    ASSUME IInv, NEW k \in Call, Discard(k) \/ ConnectFail(k)
    PROVE  Flight!Refuse(k)
<1>1. /\ pc[k] = "connecting"
      /\ link' = [link EXCEPT ![k] = "closed"]
      /\ pc' = [pc EXCEPT ![k] = "err"]
      /\ pool' = pool /\ target' = target
      /\ pending' = pending /\ suspended' = suspended /\ disposed' = disposed
  BY DEF Discard, ConnectFail, GiveUp, pendingVars
<1>2. Session' = Session
  <2>1. ASSUME NEW c \in Conn, pool[c] # None
        PROVE  pool[c] \in Call /\ pool[c] # k
    BY <1>1, <2>1 DEF IInv, TypeOK, EntryInv
  <2>2. QED
    BY <1>1, <2>1 DEF Session, Live, IInv, TypeOK
<1>3. Stage[k] = "trying" /\ Stage' = [Stage EXCEPT ![k] = "refused"]
  BY <1>1, StageMoves DEF Stage, StageOf, Pc, IInv, TypeOK
<1>4. Joined' = Joined
  BY <1>1 DEF Joined, IInv, TypeOK
<1>5. Promise' = Promise /\ Barred' = Barred
  BY <1>1, OfferStays DEF Barred
<1>6. QED
  BY <1>1, <1>2, <1>3, <1>4, <1>5 DEF Flight!Refuse, Flight!Advance

\* The finally block answers the call and withdraws its promise.
LEMMA SettleImplements ==
    ASSUME IInv, NEW k \in Call, Settle(k)
    PROVE  Flight!Answer(k)
<1>1. /\ pc[k] \in {"ok", "err"}
      /\ pc' = [pc EXCEPT ![k] = IF pc[k] = "ok" THEN "returned" ELSE "failed"]
      /\ pending' = IF pending[conn[k]] = k THEN [pending EXCEPT ![conn[k]] = None]
                    ELSE pending
      /\ pool' = pool /\ link' = link /\ target' = target
      /\ suspended' = suspended /\ disposed' = disposed
  BY DEF Settle, Settling, entryVars, pendingVars
<1>2. Promise' = Flight!Without(Promise, {c \in Conn : Promise[c] = k})
  <2>1. \A c \in Conn : pending[c] = k => conn[k] = c
    BY DEF IInv, JoinsAreCurrent
  <2>2. pending' = [c \in Conn |-> IF pending[c] = k THEN None ELSE pending[c]]
    BY <1>1, <2>1 DEF IInv, TypeOK
  <2>3. QED
    BY <1>1, <2>2 DEF Promise, Flight!Without
<1>3. /\ Stage[k] \in {"landed", "refused"}
      /\ Stage' = [Stage EXCEPT ![k] = Flight!Outcome(Stage[k])]
  <2>1. CASE pc[k] = "ok"
    BY <1>1, <2>1, StageMoves DEF Stage, StageOf, Pc, Flight!Outcome, IInv, TypeOK
  <2>2. CASE pc[k] = "err"
    BY <1>1, <2>2, StageMoves DEF Stage, StageOf, Pc, Flight!Outcome, IInv, TypeOK
  <2>3. QED
    BY <1>1, <2>1, <2>2
<1>4. Joined' = Joined
  BY <1>1 DEF Joined, IInv, TypeOK
<1>5. Session' = Session /\ Barred' = Barred
  BY <1>1, SessionStays DEF Barred
<1>6. QED
  BY <1>1, <1>2, <1>3, <1>4, <1>5 DEF Flight!Answer, Flight!Advance

\* A call that joined gets the outcome of the call it joined.
LEMMA WakeImplements ==
    ASSUME IInv, Flight!Sound, NEW k \in Call, Wake(k)
    PROVE  Flight!AnswerJoined(k)
<1>1. /\ pc[k] = "waiting"
      /\ \/ pc[target[k]] \in {"ok", "returned"} /\ pc' = [pc EXCEPT ![k] = "returned"]
         \/ pc[target[k]] \in {"err", "failed"} /\ pc' = [pc EXCEPT ![k] = "failed"]
      /\ target' = [target EXCEPT ![k] = None]
      /\ pool' = pool /\ link' = link /\ pending' = pending
      /\ suspended' = suspended /\ disposed' = disposed
  BY DEF Wake, entryVars, pendingVars
<1>2. Stage[k] = "joining" /\ Joined[k] = target[k]
  BY <1>1 DEF Stage, StageOf, Joined
<1>3. target[k] \in Call
  BY <1>2 DEF Flight!Sound
<1>4. /\ Stage[Joined[k]] \in {"landed", "refused", "adapter", "error"}
      /\ Stage' = [Stage EXCEPT ![k] = Flight!Outcome(Stage[Joined[k]])]
  <2>1. Stage[Joined[k]] = StageOf(pc[target[k]])
    BY <1>2, <1>3 DEF Stage
  <2>2. CASE pc[target[k]] \in {"ok", "returned"}
    BY <1>1, <2>1, <2>2, StageMoves DEF StageOf, Pc, Flight!Outcome, IInv, TypeOK
  <2>3. CASE pc[target[k]] \in {"err", "failed"}
    BY <1>1, <2>1, <2>3, StageMoves DEF StageOf, Pc, Flight!Outcome, IInv, TypeOK
  <2>4. QED
    BY <1>1, <2>2, <2>3
<1>5. Joined' = [Joined EXCEPT ![k] = None]
  BY <1>1 DEF Joined, IInv, TypeOK
<1>6. Promise' = Promise /\ Session' = Session /\ Barred' = Barred
  BY <1>1, OfferStays, SessionStays DEF Barred
<1>7. QED
  BY <1>1, <1>2, <1>4, <1>5, <1>6 DEF Flight!AnswerJoined, Flight!Advance

\* Invalidating S and disconnecting the entries of S gives S up; nothing is
\* left to give up once the pool is disposed.
LEMMA GivesUp ==
    ASSUME IInv, NEW S \in SUBSET Conn, Invalidate(S), pool' = pool,
           \/ link' = With(link, AdaptersOf(S), "closed")
           \/ link' = link /\ \A c \in S : pool[c] = None,
           pc' = pc, target' = target,
           suspended' = suspended, disposed' = disposed
    PROVE  Flight!Drop(S)
<1>1. Promise' = Flight!Without(Promise, S)
  BY InvalidateWithdraws DEF IInv
<1>2. Session' = Flight!Without(Session, S)
  <2>1. CASE link' = With(link, AdaptersOf(S), "closed")
    BY <2>1, DisconnectEnds
  <2>2. CASE link' = link /\ \A c \in S : pool[c] = None
    BY <2>2, SessionStays DEF Session, Live, Flight!Without
  <2>3. QED
    BY <2>1, <2>2
<1>3. Stage' = Stage /\ Joined' = Joined /\ Barred' = Barred
  BY JoinedStays DEF Barred
<1>4. QED
  BY <1>1, <1>2, <1>3 DEF Flight!Drop

\* disconnect, disconnectAll and the idle monitor give connections up.
LEMMA DisconnectImplements ==
    ASSUME IInv,
           (\E c \in Conn : Disconnect(c)) \/ DisconnectAll \/ IdleMonitor
    PROVE  \E S \in SUBSET Conn : Flight!Drop(S)
<1>1. ASSUME NEW c \in Conn, Disconnect(c)
      PROVE  Flight!Drop({c})
  <2>1. /\ Invalidate({c}) /\ pool' = pool
        /\ \/ link' = With(link, AdaptersOf({c}), "closed")
           \/ link' = link /\ \A d \in {c} : pool[d] = None
        /\ pc' = pc /\ target' = target
        /\ suspended' = suspended /\ disposed' = disposed
    BY <1>1 DEF Disconnect, BeginDisconnect, callVars
  <2>2. {c} \in SUBSET Conn
    OBVIOUS
  <2>3. QED
    BY <2>1, <2>2, GivesUp
<1>2. ASSUME DisconnectAll
      PROVE  Flight!Drop(Open)
  <2>1. /\ Invalidate(Open) /\ pool' = pool
        /\ link' = With(link, AdaptersOf(Open), "closed")
        /\ pc' = pc /\ target' = target
        /\ suspended' = suspended /\ disposed' = disposed
    BY <1>2 DEF DisconnectAll, BeginDisconnect, callVars, entryVars
  <2>2. Open \in SUBSET Conn
    BY DEF Open
  <2>3. QED
    BY <2>1, <2>2, GivesUp
<1>3. ASSUME IdleMonitor
      PROVE  \E S \in SUBSET Conn : Flight!Drop(S)
  <2> DEFINE idle == {c \in Open : now - last[c] > IdleTimeout}
  <2>1. /\ Invalidate(idle) /\ pool' = pool
        /\ link' = With(link, AdaptersOf(idle), "closed")
        /\ pc' = pc /\ target' = target
        /\ suspended' = suspended /\ disposed' = disposed
    BY <1>3 DEF IdleMonitor, BeginDisconnect, callVars, entryVars
  <2>2. idle \in SUBSET Conn
    BY DEF Open
  <2> HIDE DEF idle
  <2>3. QED
    BY <2>1, <2>2, GivesUp
<1>4. QED
  BY <1>1, <1>2, <1>3, \A c \in Conn : {c} \in SUBSET Conn,
     Open \in SUBSET Conn DEF Open

\* The end of a disconnect shows nobody anything: whatever entry it deletes
\* is down already.
LEMMA FinishDisconnectStutters ==
    ASSUME IInv, NEW c \in Conn, FinishDisconnect(c)
    PROVE  UNCHANGED Flight!flightVars
<1>1. /\ closing[c] > 0
      /\ pool' = [pool EXCEPT ![c] = None]
      /\ link' = link /\ pc' = pc /\ target' = target
      /\ pending' = pending /\ suspended' = suspended /\ disposed' = disposed
  BY DEF FinishDisconnect, DeleteEntry, pendingVars, callVars
<1>2. ~Live(c)
  BY <1>1 DEF IInv, ClosingInv, Live
<1>3. Session' = Session
  BY <1>1, <1>2 DEF Session, Live, IInv, TypeOK
<1>4. QED
  BY <1>1, <1>3, OfferStays, JoinedStays DEF Flight!flightVars, Barred

\* Suspending calls attempts off and leaves a session in use alone.
LEMMA SuspendImplements ==
    ASSUME IInv, NEW c \in Conn,
           SuspendAutoConnect(c) \/ ResumeAutoConnect(c)
    PROVE  Flight!Bar(c) \/ Flight!Unbar(c) \/ UNCHANGED Flight!flightVars
<1>1. /\ pool' = pool /\ link' = link /\ pc' = pc /\ target' = target
      /\ disposed' = disposed
  BY DEF SuspendAutoConnect, ResumeAutoConnect, entryVars, callVars
<1>2. Session' = Session /\ Stage' = Stage /\ Joined' = Joined
  BY <1>1, SessionStays, JoinedStays
<1>3. CASE SuspendAutoConnect(c)
  <2>1. Invalidate({c}) /\ suspended' = suspended \cup {c}
    BY <1>3 DEF SuspendAutoConnect
  <2>2. {c} \in SUBSET Conn
    OBVIOUS
  <2>3. Promise' = Flight!Without(Promise, {c})
    BY <1>1, <2>1, <2>2, InvalidateWithdraws DEF IInv
  <2>4. CASE disposed
    <3>1. Promise' = Promise
      BY <1>1, <2>4 DEF Promise
    <3>2. QED
      BY <1>1, <1>2, <2>4, <3>1 DEF Flight!flightVars, Barred
  <2>5. CASE ~disposed
    BY <1>1, <1>2, <2>1, <2>3, <2>5 DEF Flight!Bar, Barred
  <2>6. QED
    BY <2>4, <2>5
<1>4. CASE ResumeAutoConnect(c)
  <2>1. pending' = pending /\ suspended' = suspended \ {c}
    BY <1>4 DEF ResumeAutoConnect, pendingVars
  <2>2. Promise' = Promise
    BY <1>1, <2>1, OfferStays
  <2>3. CASE disposed
    BY <1>1, <1>2, <2>2, <2>3 DEF Flight!flightVars, Barred
  <2>4. CASE ~disposed
    BY <1>1, <1>2, <2>1, <2>2, <2>4 DEF Flight!Unbar, Barred
  <2>5. QED
    BY <2>3, <2>4
<1>5. QED
  BY <1>3, <1>4

\* Disposing the pool closes it: nothing is on offer or in use from then on.
LEMMA DisposeImplements == IInv /\ Dispose => Flight!Close
<1> SUFFICES ASSUME IInv, Dispose PROVE Flight!Close
  OBVIOUS
<1>1. disposed' /\ pc' = pc /\ target' = target
  BY DEF Dispose, callVars
<1>2. Stage' = Stage /\ Joined' = Joined
  BY <1>1, JoinedStays
<1>3. Promise' = Flight!Without(Promise, Conn) /\ Session' = Flight!Without(Session, Conn)
  BY <1>1 DEF Promise, Session, Flight!Without
<1>4. disposed' = TRUE /\ Barred' = {}
  BY <1>1 DEF Dispose, Barred
<1>5. QED
  BY <1>2, <1>3, <1>4 DEF Flight!Close

\* A connection that drops ends the session of its own connection, if it is
\* in use; an adapter that is up after the pool was disposed is in no use.
LEMMA LoseImplements ==
    ASSUME IInv, NEW k \in Call, Lose(k)
    PROVE  (\E c \in Conn : Flight!Break(c)) \/ UNCHANGED Flight!flightVars
<1>1. /\ link[k] = "up"
      /\ link' = [link EXCEPT ![k] = "lost"]
      /\ pool' = pool /\ pc' = pc /\ target' = target
      /\ pending' = pending /\ suspended' = suspended /\ disposed' = disposed
  BY DEF Lose, pendingVars, callVars
<1>2. /\ Stage' = Stage /\ Joined' = Joined /\ Promise' = Promise
      /\ Barred' = Barred
  BY <1>1, JoinedStays, OfferStays DEF Barred
<1>3. CASE \E c \in Conn : pool[c] = k
  <2>1. PICK c \in Conn : pool[c] = k
    BY <1>3
  <2>2. \A d \in Conn : pool[d] = k => d = c
    BY <2>1 DEF IInv, EntryInv, TypeOK
  <2>3. Session' = Flight!Without(Session, {c})
    <3>1. \A d \in Conn : pool[d] # None => pool[d] \in Call
      BY DEF IInv, TypeOK
    <3>2. QED
      BY <1>1, <2>1, <2>2, <3>1 DEF Session, Live, Flight!Without, IInv, TypeOK
  <2>4. QED
    BY <1>1, <1>2, <2>3 DEF Flight!Break
<1>4. CASE \A c \in Conn : pool[c] # k
  <2>1. Session' = Session
    <3>1. \A d \in Conn : pool[d] # None => pool[d] \in Call
      BY DEF IInv, TypeOK
    <3>2. QED
      BY <1>1, <1>4, <3>1 DEF Session, Live, IInv, TypeOK
  <2>2. QED
    BY <1>1, <1>2, <2>1 DEF Flight!flightVars
<1>5. QED
  BY <1>3, <1>4

\* Every step of the pool is one of the single flight, or none.
LEMMA FlightStep ==
    IInv /\ Flight!Sound /\ [Next]_vars => [Flight!Next]_(Flight!flightVars)
<1> SUFFICES ASSUME IInv, Flight!Sound, [Next]_vars
             PROVE  Flight!Next \/ UNCHANGED Flight!flightVars
  OBVIOUS
<1>1. ASSUME NEW k \in Call, NEW c \in Conn,
             Join(k, c) \/ StartConnecting(k, c) \/ StartEvicting(k, c)
      PROVE  Flight!Next
  <2>1. CASE Join(k, c)
    BY <2>1, JoinImplements DEF Flight!Next
  <2>2. ASSUME NEW S \in {{}} \cup {{d} : d \in Conn \ {c}}, Flight!Begin(k, c, S)
        PROVE  Flight!Next
    BY <2>2 DEF Flight!Next
  <2>3. CASE StartConnecting(k, c)
    <3>1. Flight!Begin(k, c, {})
      BY <2>3, StartConnectingImplements
    <3>2. QED
      BY <2>2, <3>1
  <2>4. CASE StartEvicting(k, c)
    <3>1. PICK v \in Conn \ {c} : Flight!Begin(k, c, {v})
      BY <2>4, StartEvictingImplements
    <3>2. QED
      BY <2>2, <3>1
  <2>5. QED
    BY <1>1, <2>1, <2>3, <2>4
<1>2. ASSUME NEW k \in Call, CallStep(k)
      PROVE  Flight!Next \/ UNCHANGED Flight!flightVars
  BY <1>2, FinishEvictStutters, LandImplements, RefuseImplements,
     SettleImplements, WakeImplements DEF CallStep, Flight!Next
<1>3. ASSUME NEW k \in Call, Lose(k)
      PROVE  Flight!Next \/ UNCHANGED Flight!flightVars
  BY <1>3, LoseImplements DEF Flight!Next
<1>4. ASSUME (\E c \in Conn : Disconnect(c)) \/ DisconnectAll \/ IdleMonitor
      PROVE  Flight!Next
  BY <1>4, DisconnectImplements DEF Flight!Next
<1>5. ASSUME NEW c \in Conn, SuspendAutoConnect(c) \/ ResumeAutoConnect(c)
      PROVE  Flight!Next \/ UNCHANGED Flight!flightVars
  BY <1>5, SuspendImplements DEF Flight!Next
<1>6. ASSUME NEW c \in Conn, FinishDisconnect(c)
      PROVE  UNCHANGED Flight!flightVars
  BY <1>6, FinishDisconnectStutters
<1>7. CASE Dispose
  BY <1>7, DisposeImplements DEF Flight!Next
<1>8. ASSUME (\E c \in Conn : Touch(c)) \/ Tick \/ UNCHANGED vars
      PROVE  UNCHANGED Flight!flightVars
  <2>1. /\ pool' = pool /\ link' = link /\ pc' = pc /\ target' = target
        /\ pending' = pending /\ suspended' = suspended /\ disposed' = disposed
    BY <1>8 DEF Touch, Tick, vars, entryVars, pendingVars, callVars
  <2>2. QED
    BY <2>1, SessionStays, OfferStays, JoinedStays DEF Flight!flightVars, Barred
<1>9. QED
  BY <1>1, <1>2, <1>3, <1>4, <1>5, <1>6, <1>7, <1>8 DEF Next

\* In the pool no attempt serves two connections, a promise is of an attempt
\* under way, a live entry of one that succeeded, and a getAdapter call that
\* waits, waits for an attempt and not for another waiting call (71-78).
THEOREM SoundCorrect == Spec => []Flight!Sound
<1>1. Init => IInv /\ Flight!Sound
  BY InitInv, FlightInitial, FlightInitSound
<1>2. IInv /\ Flight!Sound /\ [Next]_vars => IInv' /\ Flight!Sound'
  BY NextInv, FlightStep, FlightNextSound
<1>3. QED
  BY <1>1, <1>2, PTL DEF Spec

\* The pool implements SingleFlight: every behaviour of the pool, seen through
\* its registered promises and its live entries, is one of a single flight.
THEOREM OneFlightCorrect == Spec => OneFlight
BY FlightInitial, FlightStep, Invariance, SoundCorrect, PTL
   DEF Spec, OneFlight, Flight!Spec

\* So an attempt that a disconnect, a suspend or an eviction called off is
\* never again offered to join, and its adapter is never the live entry of any
\* connection, whenever it ends (138-156).
THEOREM CalledOffCorrect == Spec => Flight!StaysCalledOff
<1> DEFINE Off == \A k \in Call : Flight!CalledOff(k) =>
             \A c \in Conn : Promise'[c] # k /\ Session'[c] # k
<1>1. IInv /\ Flight!Sound /\ [Next]_vars => [Off]_(Flight!flightVars)
  BY FlightStep, FlightNextCalledOff
<1> HIDE DEF Off
<1>2. Spec => [][Off]_(Flight!flightVars)
  BY <1>1, Invariance, SoundCorrect, PTL DEF Spec
<1>3. QED
  BY <1>2 DEF Off, Flight!StaysCalledOff

-----------------------------------------------------------------------------
(* What the attempts of one connection do to its status *)

\* c stays up from one state to the next, in one and the same entry.
StaysUp(c) == ~disposed /\ Live(c) /\ pool'[c] = pool[c] /\ Live(c)'

\* Its status, in the entry and as the views were told.
StatusKept(c) == status'[c] = status[c] /\ event'[c] = event[c]

\* A step of an attempt at c that had been called off.
StepsCalledOff(c) ==
    \E k \in cancelled : conn[k] = c /\ Attempt(k) /\ pc'[k] # pc[k]

\* An attempt that may still land has no entry to overwrite; one that has an
\* entry under it was overtaken.
LEMMA AttemptUnderEntry ==
    ASSUME IInv, ~disposed, NEW k \in Call, Attempt(k), pool[conn[k]] # None
    PROVE  k \in cancelled
BY DEF IInv, AttemptInv

\* The starts: the connection they are for is not live, and its neighbours
\* keep what they have.
LEMMA StartKeepsStatus ==
    ASSUME IInv, NEW k \in Call, NEW d \in Conn, NEW c \in Conn, StaysUp(c),
           StartConnecting(k, d) \/ StartEvicting(k, d)
    PROVE  StatusKept(c)
<1>1. StartAttempt(k, d)
  BY DEF StartConnecting, StartEvicting
<1>2. c # d
  BY <1>1 DEF StartAttempt, NeedsConnect, StaysUp
<1>3. status' = [status EXCEPT ![d] = "disconnected"]
  BY <1>1 DEF StartAttempt, DeleteEntry
<1>4. event' = event \/ event' = [event EXCEPT ![d] = "connecting"]
  BY DEF StartConnecting, StartEvicting
<1>5. QED
  BY <1>2, <1>3, <1>4 DEF StatusKept, IInv, TypeOK

\* The end of an eviction writes the victim's status, whose entry goes, and
\* the attempt's own.
LEMMA FinishEvictStatus ==
    ASSUME IInv, NEW k \in Call, NEW c \in Conn, StaysUp(c), FinishEvict(k)
    PROVE  StatusKept(c) \/ StepsCalledOff(c)
<1>1. /\ pc[k] = "evicting" /\ Attempt(k) /\ conn[k] \in Conn /\ target[k] \in Conn
  BY DEF FinishEvict, IInv, CallInv, Attempt
<1>2. pc'[k] = "connecting"
  BY DEF FinishEvict, IInv, TypeOK
<1>3. pool' = [pool EXCEPT ![target[k]] = None]
  BY DEF FinishEvict
<1>4. c # target[k]
  BY <1>1, <1>3 DEF StaysUp, Live, IInv, TypeOK
<1>5. CASE c = conn[k]
  <2>1. k \in cancelled
    BY <1>1, <1>5, AttemptUnderEntry DEF StaysUp, Live
  <2>2. QED
    BY <2>1, <1>1, <1>2, <1>5 DEF StepsCalledOff
<1>6. CASE c # conn[k]
  BY <1>4, <1>6 DEF FinishEvict, StatusKept, IInv, TypeOK
<1>7. QED
  BY <1>5, <1>6

\* An attempt that lands makes a new entry; it leaves the others alone.
LEMMA LandKeepsStatus ==
    ASSUME IInv, NEW k \in Call, NEW c \in Conn, StaysUp(c), Land(k)
    PROVE  StatusKept(c)
<1>1. pc[k] = "connecting" /\ conn[k] \in Conn
  BY DEF Land, IInv, CallInv, Attempt
<1>2. pool[c] # k
  BY <1>1 DEF IInv, EntryInv, StaysUp, Live
<1>3. c # conn[k]
  BY <1>1, <1>2 DEF Land, StaysUp, IInv, TypeOK
<1>4. QED
  BY <1>3 DEF Land, StatusKept, IInv, TypeOK

\* An attempt that ends for nothing writes the status of whatever entry its
\* connection has by then: only one that was called off finds a live one.
LEMMA GiveUpStatus ==
    ASSUME IInv, NEW k \in Call, NEW s \in Status, NEW c \in Conn, StaysUp(c),
           GiveUp(k, s)
    PROVE  StatusKept(c) \/ StepsCalledOff(c)
<1>1. /\ pc[k] = "connecting" /\ Attempt(k) /\ conn[k] \in Conn
  BY DEF GiveUp, IInv, CallInv, Attempt
<1>2. pc'[k] = "err"
  BY DEF GiveUp, IInv, TypeOK
<1>3. CASE c = conn[k]
  <2>1. k \in cancelled
    BY <1>1, <1>3, AttemptUnderEntry DEF StaysUp, Live
  <2>2. QED
    BY <2>1, <1>1, <1>2, <1>3 DEF StepsCalledOff
<1>4. CASE c # conn[k]
  BY <1>4 DEF GiveUp, SetStatus, StatusKept, IInv, TypeOK
<1>5. QED
  BY <1>3, <1>4

\* A disconnect writes no status before its await, unless there is no entry,
\* and after it the entry is gone.
LEMMA DisconnectStatus ==
    ASSUME IInv, NEW d \in Conn, NEW c \in Conn, StaysUp(c),
           Disconnect(d) \/ FinishDisconnect(d)
    PROVE  StatusKept(c)
<1>1. CASE Disconnect(d)
  <2>1. CASE pool[d] = None
    <3>1. c # d
      BY <2>1 DEF StaysUp, Live
    <3>2. SetStatus(d, "disconnected")
      BY <1>1, <2>1 DEF Disconnect
    <3>3. QED
      BY <3>1, <3>2 DEF SetStatus, StatusKept, IInv, TypeOK
  <2>2. CASE pool[d] # None
    BY <1>1, <2>2 DEF Disconnect, StatusKept
  <2>3. QED
    BY <2>1, <2>2
<1>2. CASE FinishDisconnect(d)
  <2>1. pool' = [pool EXCEPT ![d] = None]
    BY <1>2 DEF FinishDisconnect, DeleteEntry
  <2>2. c # d
    BY <2>1 DEF StaysUp, Live, IInv, TypeOK
  <2>3. QED
    BY <1>2, <2>2 DEF FinishDisconnect, DeleteEntry, StatusKept, IInv, TypeOK
<1>3. QED
  BY <1>1, <1>2

\* A session that breaks is up no more.
LEMMA LoseStatus ==
    ASSUME IInv, NEW k \in Call, NEW c \in Conn, StaysUp(c), Lose(k)
    PROVE  StatusKept(c)
<1>1. CASE pool[conn[k]] = k
  <2>1. link' = [link EXCEPT ![k] = "lost"]
    BY DEF Lose
  <2>2. pool[c] # k
    BY <2>1 DEF StaysUp, Live, IInv, TypeOK
  <2>3. c # conn[k]
    BY <1>1, <2>2
  <2>4. status' = status \/ status' = [status EXCEPT ![conn[k]] = "disconnected"]
    BY DEF Lose, SetStatus
  <2>5. event' = event \/ event' = [event EXCEPT ![conn[k]] = "disconnected"]
    BY DEF Lose, SetStatus
  <2>6. QED
    BY <2>3, <2>4, <2>5 DEF StatusKept, IInv, TypeOK
<1>2. CASE pool[conn[k]] # k
  BY <1>2 DEF Lose, StatusKept
<1>3. QED
  BY <1>1, <1>2

LEMMA StatusStep ==
    ASSUME IInv, [Next]_vars, NEW c \in Conn, StaysUp(c)
    PROVE  StatusKept(c) \/ StepsCalledOff(c)
<1>1. ASSUME NEW k \in Call, NEW d \in Conn,
             Join(k, d) \/ StartConnecting(k, d) \/ StartEvicting(k, d)
      PROVE  StatusKept(c)
  BY <1>1, StartKeepsStatus DEF Join, entryVars, StatusKept
<1>2. ASSUME NEW k \in Call, CallStep(k)
      PROVE  StatusKept(c) \/ StepsCalledOff(c)
  <2>1. CASE FinishEvict(k)
    BY <2>1, FinishEvictStatus
  <2>2. CASE Land(k)
    BY <2>2, LandKeepsStatus
  <2>3. CASE Discard(k) \/ ConnectFail(k)
    BY <2>3, GiveUpStatus DEF Discard, ConnectFail, Status
  <2>4. CASE Settle(k) \/ Wake(k)
    BY <2>4 DEF Settle, Wake, entryVars, StatusKept
  <2>5. QED
    BY <1>2, <2>1, <2>2, <2>3, <2>4 DEF CallStep
<1>3. ASSUME NEW k \in Call, Lose(k)
      PROVE  StatusKept(c)
  BY <1>3, LoseStatus
<1>4. ASSUME NEW d \in Conn, Disconnect(d) \/ FinishDisconnect(d)
      PROVE  StatusKept(c)
  BY <1>4, DisconnectStatus
<1>5. ASSUME NEW d \in Conn,
             Touch(d) \/ SuspendAutoConnect(d) \/ ResumeAutoConnect(d)
      PROVE  StatusKept(c)
  BY <1>5 DEF Touch, SuspendAutoConnect, ResumeAutoConnect, entryVars, StatusKept
<1>6. CASE DisconnectAll \/ IdleMonitor \/ Dispose \/ Tick \/ UNCHANGED vars
  BY <1>6 DEF DisconnectAll, IdleMonitor, Dispose, Tick, vars, entryVars, StatusKept
<1>7. QED
  BY <1>1, <1>2, <1>3, <1>4, <1>5, <1>6 DEF Next

\* As long as a connection stays up, its status and what the views are told of
\* it are written only by an attempt that had been called off (300-306).
THEOREM LiveStatusKeptCorrect == Spec => LiveStatusKept
<1> DEFINE Kept == \A c \in Conn :
             ~disposed /\ Live(c) /\ pool'[c] = pool[c] /\ Live(c)' =>
               \/ status'[c] = status[c] /\ event'[c] = event[c]
               \/ \E k \in cancelled : conn[k] = c /\ Attempt(k) /\ pc'[k] # pc[k]
<1>1. IInv /\ [Next]_vars => [Kept]_vars
  BY StatusStep DEF StaysUp, StatusKept, StepsCalledOff
<1> HIDE DEF Kept
<1>2. Spec => [][Kept]_vars
  BY <1>1, Invariance, PTL DEF Spec
<1>3. QED
  BY <1>2 DEF Kept, LiveStatusKept
=============================================================================
