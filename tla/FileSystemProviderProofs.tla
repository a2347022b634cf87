---------------------- MODULE FileSystemProviderProofs ----------------------
(* Theorems about FileSystemProvider: how requests are shared, what the     *)
(* watcher may cache, and that a read sees the writes that returned before  *)
(* it, whatever the number of calls, requests and the rest.                 *)
EXTENDS FileSystemProvider, TLAPS

Request == [kind : Kind, phase : Phase, on : Req \cup {None}, saw : Sampled,
            retried : BOOLEAN, era : Nat]

\* The variables that decide which request a call joins.
SharingTypes ==
    /\ pending \in [Kind -> Req \cup {None}]
    /\ req \in [Req -> Request]
    /\ suspends \in Nat
    /\ \A r \in Req : req[r].era <= suspends
    /\ remote \in State

\* A listing that was asked for since the last disconnect is registered.
ListingRegistered ==
    \A r \in InFlight :
        req[r].kind \in {"list", "probe"} /\ req[r].era = suspends
            => pending[req[r].kind] = r

\* What holds between any two continuations of the provider.
SharingInv ==
    /\ SharingTypes
    /\ PendingIsLive
    /\ ListingRegistered

USE ProviderAssumption

-----------------------------------------------------------------------------
(* What a step does to the requests *)

\* A step that leaves the requests in flight, and what is registered, alone:
\* one may have been asked, asked again or answered.
LEMMA ProgressKeeps ==
    ASSUME SharingInv, UNCHANGED <<pending, suspends>>, remote' \in State,
           req' \in [Req -> Request],
           \A r \in Req : /\ req'[r].kind = req[r].kind
                          /\ req'[r].era = req[r].era
                          /\ req'[r].phase = "idle" <=> req[r].phase = "idle"
    PROVE  SharingInv'
<1>1. InFlight' = InFlight
  BY DEF InFlight
<1>2. SharingTypes'
  BY DEF SharingInv, SharingTypes
<1>3. PendingIsLive'
  BY <1>1 DEF SharingInv, SharingTypes, PendingIsLive
<1>4. ListingRegistered'
  BY <1>1 DEF SharingInv, ListingRegistered, InFlight
<1>5. QED
  BY <1>2, <1>3, <1>4 DEF SharingInv

\* A request that ends, with whatever result, leaves the registration of
\* every other request that is to be joined in place.
LEMMA SettleKeeps ==
    ASSUME SharingInv, NEW r \in InFlight, NEW result, Settle(r, result),
           UNCHANGED <<suspends, remote>>
    PROVE  SharingInv'
<1>1. r \in Req /\ req[r].kind \in Kind
  BY DEF InFlight, SharingInv, SharingTypes, Request
<1>2. req' \in [Req -> Request] /\ req'[r] = Unused
  BY <1>1 DEF Settle, Unused, SharingInv, SharingTypes, Request, Kind, Phase,
              Sampled
<1>3. \A q \in Req \ {r} : /\ req'[q].kind = req[q].kind
                           /\ req'[q].era = req[q].era
                           /\ req'[q].phase = req[q].phase
  BY <1>1 DEF Settle, SharingInv, SharingTypes, Request
<1>4. InFlight' = InFlight \ {r}
  BY <1>1, <1>2, <1>3 DEF InFlight, Unused
<1>5. pending' \in [Kind -> Req \cup {None}]
  BY <1>1 DEF Settle, Drop, SharingInv, SharingTypes
<1>6. \A k \in Kind : pending'[k] # None => pending'[k] = pending[k]
                                            /\ pending[k] # r
  BY <1>1 DEF Settle, Drop, SharingInv, SharingTypes, PendingIsLive, Kind
<1>7. \A k \in {"list", "probe"} : pending[k] # r => pending'[k] = pending[k]
  BY <1>1 DEF Settle, Drop, SharingInv, SharingTypes, Kind
<1>8. SharingTypes'
  BY <1>1, <1>2, <1>3, <1>5 DEF SharingInv, SharingTypes, Unused
<1>9. PendingIsLive'
  BY <1>3, <1>4, <1>5, <1>6 DEF SharingInv, SharingTypes, PendingIsLive
<1>10. ListingRegistered'
  BY <1>3, <1>4, <1>7 DEF SharingInv, ListingRegistered, InFlight
<1>11. QED
  BY <1>8, <1>9, <1>10 DEF SharingInv

\* A request that starts where none is registered becomes the one to join.
LEMMA StartKeeps ==
    ASSUME SharingInv, NEW k \in Kind, pending[k] = None,
           NEW r \in Req, r \notin InFlight, NEW phase \in Phase \ {"idle"},
           req' \in [Req -> Request], req'[r] = Fresh(k, phase),
           \A q \in Req \ {r} : /\ req'[q].kind = req[q].kind
                                /\ req'[q].era = req[q].era
                                /\ req'[q].phase = "idle"
                                     <=> req[q].phase = "idle",
           pending' = [pending EXCEPT ![k] = r],
           UNCHANGED <<suspends, remote>>
    PROVE  SharingInv'
<1>1. req'[r].kind = k /\ req'[r].era = suspends /\ req'[r].phase # "idle"
  BY DEF Fresh
<1>2. InFlight' = InFlight \cup {r}
  BY <1>1 DEF InFlight
<1>3. SharingTypes'
  BY <1>1 DEF SharingInv, SharingTypes
<1>4. PendingIsLive'
  BY <1>1, <1>2 DEF SharingInv, SharingTypes, PendingIsLive
<1>5. ListingRegistered'
  <2> SUFFICES ASSUME NEW q \in InFlight', req'[q].kind \in {"list", "probe"},
                      req'[q].era = suspends
               PROVE  pending'[req'[q].kind] = q
    BY DEF ListingRegistered
  <2>1. CASE q = r
    BY <1>1, <2>1 DEF SharingInv, SharingTypes
  <2>2. CASE q # r
    <3>1. q \in InFlight /\ q \in Req
      BY <1>2, <2>2 DEF InFlight
    <3>2. pending[req[q].kind] = q /\ req[q].kind = req'[q].kind
      BY <2>2, <3>1 DEF SharingInv, ListingRegistered
    <3>3. req[q].kind # k
      BY <3>1, <3>2
    <3>4. QED
      BY <3>2, <3>3 DEF SharingInv, SharingTypes
  <2>3. QED
    BY <2>1, <2>2
<1>6. QED
  BY <1>3, <1>4, <1>5 DEF SharingInv

-----------------------------------------------------------------------------
(* The inductive invariant *)

\* A new provider has asked for nothing.
LEMMA InitInv == Init => SharingInv
<1> SUFFICES ASSUME Init PROVE SharingInv
  OBVIOUS
<1>1. InFlight = {}
  BY DEF Init, InFlight, Unused
<1>2. SharingTypes
  BY DEF Init, SharingTypes, Unused, Request, Kind, Phase, Sampled, State
<1>3. PendingIsLive
  BY DEF Init, PendingIsLive
<1>4. ListingRegistered
  BY <1>1 DEF ListingRegistered
<1>5. QED
  BY <1>2, <1>3, <1>4 DEF SharingInv

\* Steps that do not touch the requests.
LEMMA OthersKeep ==
    ASSUME SharingInv, UNCHANGED <<pending, req, suspends>>, remote' \in State
    PROVE  SharingInv'
BY ProgressKeeps DEF SharingInv, SharingTypes

\* What _awaitProbeContext does after the listing.
LEMMA InferKeeps ==
    ASSUME SharingInv, NEW r \in InFlight, Infer(r),
           UNCHANGED <<suspends, remote>>
    PROVE  SharingInv'
<1> DEFINE l == cache["listing"]
           c == IF l # None /\ ~l.present THEN SetNotFound(cache, l) ELSE cache
<1>1. CASE c["notFound"] # None
  <2>1. Settle(r, c["notFound"])
    BY <1>1 DEF Infer
  <2>2. QED
    BY <2>1, SettleKeeps
<1>2. CASE c["notFound"] = None
  <2>1. /\ req' = [req EXCEPT ![r].phase = Asked, ![r].on = None]
        /\ UNCHANGED <<pending, call>>
    BY <1>2 DEF Infer
  <2>2. /\ Asked \in Phase \ {"idle"} /\ r \in Req /\ req[r].phase # "idle"
        /\ req \in [Req -> Request] /\ remote \in State
    BY DEF Asked, Phase, InFlight, SharingInv, SharingTypes
  <2>3. req' \in [Req -> Request]
    <3>1. [req[r] EXCEPT !.phase = Asked, !.on = None] \in Request
      BY <2>2 DEF Request
    <3>2. req' = [req EXCEPT ![r] = [req[r] EXCEPT !.phase = Asked,
                                                   !.on = None]]
      BY <2>1
    <3>3. QED
      BY <2>2, <3>1, <3>2
  <2>4. \A q \in Req : /\ req'[q].kind = req[q].kind
                       /\ req'[q].era = req[q].era
                       /\ req'[q].phase = "idle" <=> req[q].phase = "idle"
    BY <2>1, <2>2 DEF Request
  <2>5. QED
    BY <2>1, <2>2, <2>3, <2>4, ProgressKeeps
<1>3. QED
  BY <1>1, <1>2

\* No reply, mutation, poll, disconnect or connect breaks it.
LEMMA NextInv == SharingInv /\ [Next]_vars => SharingInv'
<1> SUFFICES ASSUME SharingInv, [Next]_vars PROVE SharingInv'
  OBVIOUS
<1>0. /\ remote \in State
      /\ req \in [Req -> Request]
      /\ Asked \in Phase \ {"idle"}
      /\ \A r \in NextReq : r \in Req /\ r \notin InFlight
      /\ \A k \in Kind : pending[k] \in Req \cup {None}
  BY DEF SharingInv, SharingTypes, Asked, Phase, NextReq, InFlight
<1>1. ASSUME NEW c \in Call, NEW k \in Kind, ReadHit(c, k) \/ ReadJoin(c, k)
      PROVE  SharingInv'
  BY <1>0, <1>1, OthersKeep DEF ReadHit, ReadJoin, Called, bounds
<1>2. ASSUME NEW c \in Call, NEW k \in Kind, NEW r \in NextReq,
             ReadStart(c, k, r)
      PROVE  SharingInv'
  <2> DEFINE ph == IF Probing /\ k # "list" THEN "context" ELSE Asked
  <2>1. ph \in Phase \ {"idle"}
    BY <1>0 DEF Phase
  <2>2. Fresh(k, ph) \in Request
    BY <2>1 DEF Fresh, Request, SharingInv, SharingTypes, Sampled
  <2>3. req' = [req EXCEPT ![r] = Fresh(k, ph)] /\ pending[k] = None
    BY <1>2 DEF ReadStart
  <2>4. UNCHANGED <<suspends, remote>> /\ pending' = [pending EXCEPT ![k] = r]
    BY <1>2 DEF ReadStart, Called, bounds
  <2>5. QED
    <3>1. /\ r \in Req /\ r \notin InFlight
          /\ req' \in [Req -> Request] /\ req'[r] = Fresh(k, ph)
          /\ \A q \in Req \ {r} : req'[q] = req[q]
      BY <1>0, <2>2, <2>3
    <3>2. QED
      BY <1>0, <2>1, <2>3, <2>4, <3>1, StartKeeps
<1>3. ASSUME NEW r \in Req, ProbeContext(r) PROVE SharingInv'
  <2>1. r \in InFlight /\ UNCHANGED <<suspends, remote>>
    BY <1>3 DEF ProbeContext, InFlight, bounds
  <2>2. ListingInFlight \in Req \cup {None}
    BY <1>0 DEF ListingInFlight, Kind
  <2>3. CASE /\ ListingInFlight # None
             /\ req' = [req EXCEPT ![r].phase = "awaiting",
                                   ![r].on = ListingInFlight]
             /\ UNCHANGED <<cache, pending, call>>
    <3>0. req[r] \in Request /\ "awaiting" \in Phase
      BY <1>0 DEF SharingInv, SharingTypes, Phase
    <3>1. req' \in [Req -> Request]
      <4>1. [req[r] EXCEPT !.phase = "awaiting", !.on = ListingInFlight]
              \in Request
        BY <2>2, <3>0 DEF Request
      <4>2. req' = [req EXCEPT ![r] = [req[r] EXCEPT !.phase = "awaiting",
                                                     !.on = ListingInFlight]]
        BY <2>3
      <4>3. QED
        BY <1>0, <4>1, <4>2 DEF SharingInv, SharingTypes
    <3>2. \A q \in Req : /\ req'[q].kind = req[q].kind
                         /\ req'[q].era = req[q].era
                         /\ req'[q].phase = "idle" <=> req[q].phase = "idle"
      BY <1>0, <2>1, <2>3 DEF Request, InFlight
    <3>3. QED
      BY <1>0, <2>1, <2>3, <3>1, <3>2, ProgressKeeps
  <2>4. ASSUME NEW p \in NextReq, ListingInFlight = None,
               req' = [req EXCEPT ![r].phase = "awaiting", ![r].on = p,
                                  ![p] = Fresh("probe", Asked)],
               pending' = [pending EXCEPT !["probe"] = p]
        PROVE  SharingInv'
    <3>1. pending["probe"] = None
      BY <2>4 DEF ListingInFlight
    <3>2. Fresh("probe", Asked) \in Request
      BY <1>0 DEF Fresh, Request, SharingInv, SharingTypes, Sampled, Kind
    <3>3. p \in Req /\ p # r /\ p \notin InFlight
      BY <1>0, <2>1
    <3>4. req' \in [Req -> Request] /\ req'[p] = Fresh("probe", Asked)
      BY <1>0, <2>4, <3>2, <3>3 DEF Phase, Request
    <3>5. \A q \in Req \ {p} : /\ req'[q].kind = req[q].kind
                               /\ req'[q].era = req[q].era
                               /\ req'[q].phase = "idle" <=> req[q].phase = "idle"
      BY <1>0, <2>1, <2>4, <3>3 DEF Request, InFlight
    <3>6. QED
      BY <1>0, <2>1, <2>4, <3>1, <3>3, <3>4, <3>5, StartKeeps DEF Kind
  <2>5. CASE Infer(r)
    BY <2>1, <2>5, InferKeeps
  <2>6. QED
    BY <1>3, <2>3, <2>4, <2>5 DEF ProbeContext
<1>4. ASSUME NEW r \in Req, ProbeAwaited(r) PROVE SharingInv'
  BY <1>4, InferKeeps DEF ProbeAwaited, InFlight, bounds
<1>5. ASSUME NEW r \in Req, Serve(r) PROVE SharingInv'
  <2>1. /\ req[r] \in Request /\ req[r].phase = "asked"
        /\ remote \in Sampled /\ "answered" \in Phase
    BY <1>0, <1>5 DEF Serve, Sampled, Phase
  <2>2. [req[r] EXCEPT !.phase = "answered", !.saw = remote] \in Request
    BY <2>1 DEF Request
  <2>3. req' = [req EXCEPT ![r] = [req[r] EXCEPT !.phase = "answered",
                                                 !.saw = remote]]
    BY <1>5 DEF Serve
  <2>4. UNCHANGED <<pending, suspends, remote>>
    BY <1>5 DEF Serve, bounds
  <2>5. req' \in [Req -> Request]
    BY <1>0, <2>2, <2>3
  <2>6. \A q \in Req : /\ req'[q].kind = req[q].kind
                       /\ req'[q].era = req[q].era
                       /\ req'[q].phase = "idle" <=> req[q].phase = "idle"
    BY <1>0, <2>1, <2>3 DEF Request
  <2>7. QED
    BY <1>0, <2>4, <2>5, <2>6, ProgressKeeps
<1>6. ASSUME NEW r \in Req, Deliver(r) \/ FailRead(r) PROVE SharingInv'
  <2>1. r \in InFlight /\ UNCHANGED <<suspends, remote>>
    <3>1. CASE Deliver(r)
      BY <3>1 DEF Deliver, InFlight, bounds
    <3>2. CASE FailRead(r)
      BY <3>2 DEF FailRead, InFlight, bounds
    <3>3. QED
      BY <1>6, <3>1, <3>2
  <2>2. \E result : Settle(r, result)
    BY <1>6 DEF Deliver, FailRead
  <2>3. QED
    BY <2>1, <2>2, SettleKeeps
<1>7. ASSUME NEW r \in Req, RetryRead(r) PROVE SharingInv'
  <2>1. r \in InFlight /\ UNCHANGED <<suspends, remote>>
    BY <1>7 DEF RetryRead, InFlight
  <2>2. CASE Settle(r, Failed)
    BY <2>1, <2>2, SettleKeeps
  <2>3. CASE /\ req' = [req EXCEPT ![r].phase = Asked, ![r].retried = TRUE]
             /\ UNCHANGED <<pending, call>>
    <3>0. req[r] \in Request /\ Asked \in Phase
      BY <1>0 DEF SharingInv, SharingTypes, Asked, Phase
    <3>1. req' \in [Req -> Request]
      <4>1. [req[r] EXCEPT !.phase = Asked, !.retried = TRUE] \in Request
        BY <3>0 DEF Request
      <4>2. req' = [req EXCEPT ![r] = [req[r] EXCEPT !.phase = Asked,
                                                     !.retried = TRUE]]
        BY <2>3
      <4>3. QED
        BY <1>0, <4>1, <4>2 DEF SharingInv, SharingTypes
    <3>2. \A q \in Req : /\ req'[q].kind = req[q].kind
                         /\ req'[q].era = req[q].era
                         /\ req'[q].phase = "idle" <=> req[q].phase = "idle"
      BY <1>0, <2>1, <2>3 DEF Request, InFlight
    <3>3. QED
      BY <1>0, <2>1, <2>3, <3>1, <3>2, ProgressKeeps
  <2>4. QED
    BY <1>7, <2>2, <2>3 DEF RetryRead
<1>8. ASSUME NEW m \in Mutation,
             \/ \E k \in {"write", "delete"} : Begin(m, k)
             \/ Complete(m)
             \/ RetryMutation(m)
             \/ FailMutation(m)
      PROVE  SharingInv'
  BY <1>0, <1>8, OthersKeep
     DEF Begin, Complete, RetryMutation, FailMutation, reads, bounds
<1>9. ASSUME NEW m \in Mutation, Apply(m) PROVE SharingInv'
  BY <1>0, <1>9, OthersKeep DEF Apply, Change, State, reads, bounds
<1>10. ASSUME NEW t \in Tick,
              Poll(t) \/ ServePoll(t) \/ DeliverPoll(t) \/ FailPoll(t)
       PROVE  SharingInv'
  BY <1>0, <1>10, OthersKeep
     DEF Poll, ServePoll, DeliverPoll, FailPoll, reads, bounds
<1>11. CASE SuspendAutoConnect
  <2>1. /\ pending' = [k \in Kind |-> None] /\ suspends' = suspends + 1
        /\ UNCHANGED <<req, remote>>
    BY <1>11 DEF SuspendAutoConnect
  <2>2. \A r \in Req : req[r].era < suspends'
    BY <2>1 DEF SharingInv, SharingTypes, Request
  <2>3. SharingTypes'
    BY <2>1, <2>2 DEF SharingInv, SharingTypes, Request
  <2>4. PendingIsLive'
    BY <2>1 DEF PendingIsLive
  <2>5. ListingRegistered'
    BY <2>1, <2>2, <2>3 DEF ListingRegistered, InFlight, SharingTypes, Request
  <2>6. QED
    BY <2>3, <2>4, <2>5 DEF SharingInv
<1>12. CASE \/ Watch \/ Disconnected \/ ResumeAutoConnect
            \/ \E e \in Cached : Expire(e)
  BY <1>0, <1>12, OthersKeep
     DEF Watch, Disconnected, ResumeAutoConnect, Expire, reads, bounds
<1>13. CASE External
  <2>1. Change(TRUE) \in State /\ Change(FALSE) \in State
    BY <1>0 DEF Change, State
  <2>2. /\ remote' \in {Change(TRUE), Change(FALSE)}
        /\ UNCHANGED <<pending, req, suspends>>
    BY <1>13 DEF External, reads
  <2>3. QED
    BY <2>1, <2>2, OthersKeep
<1>14. CASE UNCHANGED vars
  BY <1>0, <1>14, OthersKeep DEF vars, reads, bounds
<1>15. QED
  BY <1>1, <1>2, <1>3, <1>4, <1>5, <1>6, <1>7, <1>8, <1>9, <1>10, <1>11,
     <1>12, <1>13, <1>14 DEF Next

-----------------------------------------------------------------------------
(* The theorems *)

\* The invariant holds in every state of the provider.
THEOREM SharingInvariance == Spec => []SharingInv
BY InitInv, NextInv, PTL DEF Spec

\* A call joins only what is still to settle.
THEOREM PendingIsLiveCorrect == Spec => []PendingIsLive
<1>1. SharingInv => PendingIsLive
  BY DEF SharingInv
<1>2. QED
  BY SharingInvariance, <1>1, PTL

\* Between two disconnects one listing of each kind is asked for at a time.
THEOREM OneListingCorrect == Spec => []OneListing
<1>1. SharingInv => OneListing
  BY DEF SharingInv, ListingRegistered, OneListing
<1>2. QED
  BY SharingInvariance, <1>1, PTL

-----------------------------------------------------------------------------
(* The watcher: what a poll that no mutation preceded may still cache *)

Entering == {"asked", "answered"}

Polled == [phase : Phase, version : Nat, saw : Sampled, during : SUBSET Mutation, era : Nat]
Changing == [phase : Phase, kind : {"write", "delete"}, saw : Sampled \cup {Missing, Failed},
             retried : BOOLEAN]

\* The variables the version guard rests on.  No stamp is ahead of the server.
GuardTypes ==
    /\ remote \in State
    /\ {version, versions, settled, suspends} \subseteq Nat
    /\ version <= versions /\ settled <= remote.stamp
    /\ tick \in [Tick -> Polled]
    /\ mutation \in [Mutation -> Changing]
    /\ \A m \in Mutation : mutation[m].phase = "answered" /\ mutation[m].saw # Missing =>
          mutation[m].saw \in State /\ mutation[m].saw.stamp <= remote.stamp
    /\ \A t \in Tick : tick[t].era <= suspends /\ tick[t].version <= versions

\* A poll that no mutation preceded, and whose version still stands, has none
\* beside it: what it saw, or will see, is all that has settled.
Unovertaken ==
    \A t \in Tick :
        /\ tick[t].phase \in Entering
        /\ tick[t].during = {} /\ tick[t].era = suspends /\ tick[t].version = version
        => /\ Mutating = {}
           /\ tick[t].phase = "answered" =>
                  tick[t].saw \in State /\ tick[t].saw.stamp >= settled

GuardInv == GuardTypes /\ Unovertaken

LEMMA InitGuard == Init => GuardInv
<1> SUFFICES ASSUME Init PROVE GuardInv
  OBVIOUS
<1>1. GuardTypes
  BY DEF Init, GuardTypes, State, Polled, Changing, Phase, Sampled
<1>2. Unovertaken
  BY DEF Init, Unovertaken, Entering
<1>3. QED
  BY <1>1, <1>2 DEF GuardInv

\* Whatever moves neither server, mutations nor polls.
LEMMA ApartKeeps ==
    ASSUME GuardInv, UNCHANGED <<remote, mutation, version, versions, settled, tick, suspends>>
    PROVE  GuardInv'
BY DEF GuardInv, GuardTypes, Unovertaken, Mutating

LEMMA ReadsKeep ==
    ASSUME GuardInv, UNCHANGED <<remote, mutations, watch, suspends>>
    PROVE  GuardInv'
BY ApartKeeps DEF mutations, watch, history

\* A step of one mutation, after which it is still under way or not.
LEMMA MutationKeeps ==
    ASSUME GuardInv, NEW m \in Mutating, GuardTypes', UNCHANGED <<version, tick, suspends>>
    PROVE  GuardInv'
<1>1. \A t \in Tick : ~(/\ tick[t].phase \in Entering /\ tick[t].during = {}
                        /\ tick[t].era = suspends /\ tick[t].version = version)
  BY DEF GuardInv, Unovertaken
<1>2. Unovertaken'
  BY <1>1 DEF Unovertaken
<1>3. QED
  BY <1>2 DEF GuardInv

\* A step of one poll.
LEMMA PollKeeps ==
    ASSUME GuardInv, NEW t \in Tick, NEW p \in Polled, tick' = [tick EXCEPT ![t] = p],
           UNCHANGED <<remote, mutations, suspends>>,
           p.era <= suspends, p.version <= versions,
           /\ p.phase \in Entering
           /\ p.during = {} /\ p.era = suspends /\ p.version = version
           => /\ Mutating = {}
              /\ p.phase = "answered" => p.saw \in State /\ p.saw.stamp >= settled
    PROVE  GuardInv'
<1>1. UNCHANGED <<mutation, version, versions, settled>> /\ Mutating' = Mutating
  BY DEF mutations, history, Mutating
<1>2. tick'[t] = p /\ \A u \in Tick \ {t} : tick'[u] = tick[u]
  BY DEF GuardInv, GuardTypes
<1>3. GuardTypes'
  BY <1>1, <1>2 DEF GuardInv, GuardTypes
<1>4. Unovertaken'
  BY <1>1, <1>2 DEF GuardInv, Unovertaken
<1>5. QED
  BY <1>3, <1>4 DEF GuardInv

LEMMA MutationStep ==
    ASSUME GuardInv, NEW m \in Mutation,
           Apply(m) \/ Complete(m) \/ RetryMutation(m) \/ FailMutation(m)
    PROVE  GuardInv'
<1> USE DEF GuardInv, GuardTypes
<1>1. m \in Mutating
  BY DEF Apply, Complete, RetryMutation, FailMutation, Mutating
<1>2. UNCHANGED <<version, versions, tick, suspends>>
  BY DEF Apply, Complete, RetryMutation, FailMutation, watch, bounds
<1>3. CASE Apply(m)
  <2>1. /\ remote' \in State /\ remote'.stamp >= remote.stamp
        /\ settled' = settled
    BY <1>3 DEF Apply, Change, State, history
  <2>2. PICK saw \in {Missing, remote'} :
          mutation' = [mutation EXCEPT ![m].phase = "answered", ![m].saw = saw]
    BY <1>3 DEF Apply
  <2>3. mutation' \in [Mutation -> Changing]
    <3>1. mutation[m] \in Changing /\ saw \in Sampled \cup {Missing, Failed}
      BY <2>1, <2>2 DEF Sampled
    <3>2. [mutation[m] EXCEPT !.phase = "answered", !.saw = saw] \in Changing
      BY <3>1 DEF Changing, Phase
    <3>3. mutation' = [mutation EXCEPT
                         ![m] = [mutation[m] EXCEPT !.phase = "answered", !.saw = saw]]
      BY <2>2
    <3> QED
      BY <3>2, <3>3
  <2>4. \A n \in Mutation : mutation'[n].phase = "answered" /\ mutation'[n].saw # Missing =>
          mutation'[n].saw \in State /\ mutation'[n].saw.stamp <= remote'.stamp
    <3> SUFFICES ASSUME NEW n \in Mutation, mutation'[n].phase = "answered",
                        mutation'[n].saw # Missing
                 PROVE  mutation'[n].saw \in State /\ mutation'[n].saw.stamp <= remote'.stamp
      OBVIOUS
    <3>1. CASE n = m
      BY <2>1, <2>2, <3>1 DEF Changing, State
    <3>2. CASE n # m
      <4>1. mutation'[n] = mutation[n]
        BY <2>2, <3>2
      <4>2. mutation[n].saw \in State /\ mutation[n].saw.stamp <= remote.stamp
        BY <4>1
      <4>3. QED
        BY <2>1, <4>1, <4>2 DEF State
    <3>3. QED
      BY <3>1, <3>2
  <2>5. GuardTypes'
    BY <1>2, <2>1, <2>3, <2>4 DEF State
  <2>6. QED
    BY <1>1, <1>2, <2>5, MutationKeeps
<1>4. CASE Complete(m)
  <2>1. remote' = remote
    BY <1>4 DEF Complete
  <2>2. settled' \in Nat /\ settled' <= remote.stamp
    BY <1>4 DEF Complete, State, history
  <2>3. PICK phase \in {"failed", "done"} : mutation' = [mutation EXCEPT ![m].phase = phase]
    BY <1>4 DEF Complete
  <2>4. mutation' \in [Mutation -> Changing]
    BY <2>3 DEF Changing, Phase
  <2>5. \A n \in Mutation :
          /\ mutation'[n].saw = mutation[n].saw
          /\ mutation'[n].phase = "answered" => mutation[n].phase = "answered"
    BY <2>3
  <2>6. GuardTypes'
    <3>1. \A n \in Mutation : mutation'[n].phase = "answered" /\ mutation'[n].saw # Missing =>
            mutation'[n].saw \in State /\ mutation'[n].saw.stamp <= remote'.stamp
      <4> SUFFICES ASSUME NEW n \in Mutation, mutation'[n].phase = "answered",
                          mutation'[n].saw # Missing
                   PROVE  mutation'[n].saw \in State /\ mutation'[n].saw.stamp <= remote'.stamp
        OBVIOUS
      <4>1. mutation[n].phase = "answered" /\ mutation'[n].saw = mutation[n].saw
        BY <2>5
      <4> QED
        BY <2>1, <4>1
    <3>2. \A t \in Tick : tick'[t].era <= suspends' /\ tick'[t].version <= versions'
      BY <1>2
    <3> QED
      BY <1>2, <2>1, <2>2, <2>4, <3>1, <3>2
  <2>7. QED
    BY <1>1, <1>2, <2>6, MutationKeeps
<1>5. CASE RetryMutation(m) \/ FailMutation(m)
  <2>1. UNCHANGED <<remote, settled>>
    BY <1>5 DEF RetryMutation, FailMutation, history
  <2>2. mutation' \in [Mutation -> Changing] /\ mutation'[m].phase # "answered"
        /\ \A n \in Mutation \ {m} : mutation'[n] = mutation[n]
    <3>1. CASE mutation' = [mutation EXCEPT ![m].phase = "failed", ![m].saw = Failed]
      BY <3>1 DEF Changing, Phase
    <3>2. CASE mutation' = [mutation EXCEPT ![m].phase = Asked, ![m].retried = TRUE]
      <4>1. Asked \in {"asked", "refused"}
        BY DEF Asked
      <4>2. QED
        BY <3>2, <4>1 DEF Changing, Phase
    <3>3. QED
      BY <1>5, <3>1, <3>2 DEF RetryMutation, FailMutation
  <2>3. GuardTypes'
    BY <1>2, <2>1, <2>2
  <2>4. QED
    BY <1>1, <1>2, <2>3, MutationKeeps
<1>6. QED
  BY <1>3, <1>4, <1>5

\* A mutation that begins raises the version above that of every poll.
LEMMA BeginKeeps ==
    ASSUME GuardInv, NEW m \in Mutation, NEW k \in {"write", "delete"}, Begin(m, k)
    PROVE  GuardInv'
<1> USE DEF GuardInv, GuardTypes
<1>1. /\ version' = versions + 1 /\ versions' = versions + 1
      /\ UNCHANGED <<remote, settled, tick, suspends>>
      /\ mutation' = [mutation EXCEPT ![m].phase = Asked, ![m].kind = k]
  BY DEF Begin, history, watch, bounds
<1>2. Asked \in {"asked", "refused"}
  BY DEF Asked
<1> DEFINE d == [mutation[m] EXCEPT !.phase = Asked, !.kind = k]
<1>3. d \in Changing /\ d.phase = Asked
  <2>1. mutation[m] \in Changing
    OBVIOUS
  <2>2. QED
    BY <1>2, <2>1 DEF Changing, Phase
<1>4. /\ mutation' \in [Mutation -> Changing]
      /\ mutation'[m].phase # "answered" /\ \A n \in Mutation \ {m} : mutation'[n] = mutation[n]
  <2>1. mutation' = [mutation EXCEPT ![m] = d]
    BY <1>1
  <2> HIDE DEF d
  <2>2. QED
    BY <1>2, <1>3, <2>1
<1>5. \A t \in Tick : tick[t].version <= versions + 1 /\ tick[t].version # versions + 1
  BY DEF Polled
<1>6. GuardTypes'
  BY <1>1, <1>4, <1>5
<1>7. Unovertaken'
  BY <1>1, <1>5 DEF Unovertaken
<1>8. QED
  BY <1>6, <1>7

\* One that begins starts with what stands; its answer is what stands then.
LEMMA PollStep ==
    ASSUME GuardInv, NEW t \in Tick,
           Poll(t) \/ ServePoll(t) \/ DeliverPoll(t) \/ FailPoll(t)
    PROVE  GuardInv'
<1> USE DEF GuardInv, GuardTypes
<1>1. UNCHANGED <<remote, mutations, suspends>>
  BY DEF Poll, ServePoll, DeliverPoll, FailPoll, bounds
<1>2. tick[t] \in Polled /\ tick[t].era <= suspends /\ tick[t].version <= versions
  OBVIOUS
<1>3. CASE Poll(t)
  <2> DEFINE p == [tick[t] EXCEPT !.phase = "asked", !.version = version,
                                  !.during = Mutating, !.era = suspends]
  <2>1. tick' = [tick EXCEPT ![t] = p]
    BY <1>3 DEF Poll
  <2>2. p \in Polled /\ p.phase = "asked" /\ p.during = Mutating
        /\ p.era = suspends /\ p.version = version
    BY <1>2 DEF Polled, Phase, Mutating
  <2> HIDE DEF p
  <2>3. p.era <= suspends /\ p.version <= versions /\ p.phase # "answered"
    BY <2>2
  <2>4. QED
    BY <1>1, <2>1, <2>2, <2>3, PollKeeps
<1>4. CASE ServePoll(t)
  <2> DEFINE p == [tick[t] EXCEPT !.phase = "answered", !.saw = remote]
  <2>1. tick' = [tick EXCEPT ![t] = p] /\ tick[t].phase = "asked"
    BY <1>4 DEF ServePoll
  <2>2. p \in Polled /\ p.saw = remote /\ p.during = tick[t].during
        /\ p.era = tick[t].era /\ p.version = tick[t].version
    BY <1>2 DEF Polled, Phase, Sampled
  <2> HIDE DEF p
  <2>3. p.during = {} /\ p.era = suspends /\ p.version = version => Mutating = {}
    BY <2>1, <2>2 DEF Unovertaken, Entering
  <2>4. p.saw \in State /\ p.saw.stamp >= settled
    BY <2>2 DEF State
  <2>5. p.era <= suspends /\ p.version <= versions
    BY <1>2, <2>2
  <2>6. QED
    BY <1>1, <2>1, <2>2, <2>3, <2>4, <2>5, PollKeeps
<1>5. CASE DeliverPoll(t) \/ FailPoll(t)
  <2>1. PICK phase \in {"done", "cached"} : tick' = [tick EXCEPT ![t].phase = phase]
    BY <1>5 DEF DeliverPoll, FailPoll
  <2> DEFINE p == [tick[t] EXCEPT !.phase = phase]
  <2>2. tick' = [tick EXCEPT ![t] = p]
    BY <2>1
  <2>3. p \in Polled /\ p.phase \notin Entering
        /\ p.era = tick[t].era /\ p.version = tick[t].version
    BY <1>2 DEF Polled, Phase, Entering
  <2> HIDE DEF p
  <2>4. QED
    BY <1>1, <1>2, <2>2, <2>3, PollKeeps
<1>6. QED
  BY <1>3, <1>4, <1>5

LEMMA NextGuard == GuardInv /\ [Next]_vars => GuardInv'
<1> SUFFICES ASSUME GuardInv, [Next]_vars PROVE GuardInv'
  OBVIOUS
<1>1. ASSUME NEW c \in Call, NEW k,
             ReadHit(c, k) \/ ReadJoin(c, k) \/ \E r \in NextReq : ReadStart(c, k, r)
      PROVE  GuardInv'
  BY <1>1, ReadsKeep DEF ReadHit, ReadJoin, ReadStart, Called, bounds
<1>2. ASSUME NEW r \in Req,
             ProbeContext(r) \/ ProbeAwaited(r) \/ Serve(r) \/ Deliver(r) \/ RetryRead(r)
             \/ FailRead(r)
      PROVE  GuardInv'
  BY <1>2, ReadsKeep DEF ProbeContext, ProbeAwaited, Serve, Deliver, RetryRead, FailRead,
                         bounds
<1>3. ASSUME NEW m \in Mutation, NEW k \in {"write", "delete"}, Begin(m, k)
      PROVE  GuardInv'
  BY <1>3, BeginKeeps
<1>4. ASSUME NEW m \in Mutation,
             Apply(m) \/ Complete(m) \/ RetryMutation(m) \/ FailMutation(m)
      PROVE  GuardInv'
  BY <1>4, MutationStep
<1>5. ASSUME NEW t \in Tick, Poll(t) \/ ServePoll(t) \/ DeliverPoll(t) \/ FailPoll(t)
      PROVE  GuardInv'
  BY <1>5, PollStep
<1>6. CASE Watch
  BY <1>6, ApartKeeps DEF Watch, mutations, history, bounds
<1>7. CASE SuspendAutoConnect
  <2>1. /\ version' = 0 /\ suspends' = suspends + 1
        /\ UNCHANGED <<remote, mutation, versions, settled, tick>>
    BY <1>7 DEF SuspendAutoConnect
  <2>2. \A t \in Tick : tick[t].era <= suspends + 1 /\ tick[t].era # suspends + 1
    BY DEF GuardInv, GuardTypes, Polled
  <2>3. GuardTypes'
    BY <2>1, <2>2 DEF GuardInv, GuardTypes
  <2>4. Unovertaken'
    BY <2>1, <2>2 DEF Unovertaken
  <2>5. QED
    BY <2>3, <2>4 DEF GuardInv
<1>8. CASE Disconnected \/ ResumeAutoConnect \/ \E e \in Cached : Expire(e)
  BY <1>8, ReadsKeep DEF Disconnected, ResumeAutoConnect, Expire, bounds
<1>9. CASE External
  <2>1. remote' \in State /\ remote'.stamp >= remote.stamp
    <3>1. remote.stamp \in Nat
      BY DEF GuardInv, GuardTypes, State
    <3>2. \A b \in BOOLEAN : Change(b) \in State /\ Change(b).stamp = remote.stamp + 1
      BY <3>1 DEF Change, State
    <3>3. \E b \in BOOLEAN : remote' = Change(b)
      BY <1>9 DEF External
    <3> QED
      BY <3>1, <3>2, <3>3
  <2>2. UNCHANGED <<mutation, version, versions, settled, tick, suspends>>
    BY <1>9 DEF External, mutations, history, watch
  <2>3. GuardTypes'
    BY <2>1, <2>2 DEF GuardInv, GuardTypes, State
  <2>4. Unovertaken'
    BY <2>2 DEF GuardInv, Unovertaken, Mutating
  <2>5. QED
    BY <2>3, <2>4 DEF GuardInv
<1>10. CASE UNCHANGED vars
  BY <1>10, ApartKeeps DEF vars, mutations, history, watch, bounds
<1>11. QED
  BY <1>1, <1>2, <1>3, <1>4, <1>5, <1>6, <1>7, <1>8, <1>9, <1>10 DEF Next

\* Only the delivery of a poll's own reply caches it.
LEMMA CachedByDelivery ==
    ASSUME GuardInv, Next, NEW t \in Tick,
           tick[t].phase = "answered", tick'[t].phase = "cached"
    PROVE  DeliverPoll(t) /\ tick[t].version = version
<1> USE DEF GuardInv, GuardTypes
<1>1. ~UNCHANGED tick
  OBVIOUS
<1>2. PICK u \in Tick : Poll(u) \/ ServePoll(u) \/ DeliverPoll(u) \/ FailPoll(u)
  BY <1>1 DEF Next, ReadHit, ReadJoin, ReadStart, Called, ProbeContext, ProbeAwaited, Serve,
              Deliver, RetryRead, FailRead, Begin, Apply, Complete, RetryMutation,
              FailMutation, Watch, SuspendAutoConnect, Disconnected, ResumeAutoConnect,
              Expire, External, watch
<1>3. \A v \in Tick \ {u} : tick'[v] = tick[v]
  BY <1>2 DEF Poll, ServePoll, DeliverPoll, FailPoll
<1>4. u = t
  BY <1>3
<1>5. ~Poll(t) /\ ~ServePoll(t) /\ ~FailPoll(t)
  BY DEF Poll, ServePoll, FailPoll, Polled
<1>6. DeliverPoll(t)
  BY <1>2, <1>4, <1>5
<1>7. QED
  BY <1>6 DEF DeliverPoll, Polled

\* A poll that began while nothing was being changed never caches a listing
\* from before a change that has settled since. (fileSystemProvider.ts:176-192)
THEOREM WatcherGuardedCorrect == Spec => WatcherGuarded
<1>1. GuardInv /\ [Next]_vars =>
        [\A t \in Tick :
           /\ tick[t].phase = "answered" /\ tick'[t].phase = "cached"
           /\ tick[t].during = {} /\ tick[t].era = suspends
           => tick[t].saw.stamp >= settled]_vars
  <2> SUFFICES ASSUME GuardInv, Next, NEW t \in Tick,
                      tick[t].phase = "answered", tick'[t].phase = "cached",
                      tick[t].during = {}, tick[t].era = suspends
               PROVE  tick[t].saw.stamp >= settled
    OBVIOUS
  <2>1. tick[t].version = version
    BY CachedByDelivery
  <2>2. QED
    BY <2>1 DEF GuardInv, Unovertaken, Entering
<1>2. QED
  BY <1>1, InitGuard, NextGuard, PTL DEF Spec, WatcherGuarded

-----------------------------------------------------------------------------
(* Read your writes *)

Caller == [phase : Phase, on : Req \cup {None}, got : Sampled \cup {Failed}, floor : Nat]

\* A call counts on no more than has settled.
ReadTypes ==
    /\ cache \in [Cached -> Sampled]
    /\ call \in [Call -> Caller]
    /\ \A c \in Call : call[c].floor <= settled
    /\ raced \in BOOLEAN

\* s shows every change that has settled.
Current(s) == s \in State /\ s.stamp >= settled

CacheCurrent == \A e \in Cached : cache[e] # None => Current(cache[e])

RepliesCurrent == \A r \in Req : req[r].phase = "answered" => Current(req[r].saw)

\* Those of a poll that the version guard will let pass.
PollsCurrent ==
    \A t \in Tick : tick[t].phase = "answered" /\ tick[t].version = version
        => Current(tick[t].saw)

CallsCurrent ==
    \A c \in Call : call[c].got \notin {None, Failed} =>
        call[c].got \in State /\ call[c].got.stamp >= call[c].floor

\* Until a reply is overtaken, all that a call may be answered from is current.
ReadInv ==
    /\ SharingInv /\ GuardInv /\ ReadTypes
    /\ ~raced => CacheCurrent /\ RepliesCurrent /\ PollsCurrent /\ CallsCurrent

\* The operations on the cache leave an entry, drop it, or make it s.
LEMMA CacheOps ==
    ASSUME NEW c \in [Cached -> Sampled], NEW s \in Sampled,
           NEW d \in {SetStat(c, s), SetContent(c, s), SetNotFound(c, s), SetListing(c, s)}
    PROVE  d \in [Cached -> Sampled] /\ \A e \in Cached : d[e] \in {c[e], s, None}
<1>1. None \in Sampled
  BY DEF Sampled
<1>2. CASE d = SetStat(c, s)
  BY <1>1, <1>2 DEF SetStat, Cached
<1>3. CASE d = SetContent(c, s)
  BY <1>1, <1>3 DEF SetContent, Cached
<1>4. CASE d = SetNotFound(c, s)
  BY <1>1, <1>4 DEF SetNotFound, Cached
<1>5. CASE d = SetListing(c, s)
  BY <1>1, <1>5 DEF SetListing, SetStat, Cached
<1>6. QED
  BY <1>2, <1>3, <1>4, <1>5

LEMMA StoreOps ==
    ASSUME cache \in [Cached -> Sampled], NEW k, NEW s \in Sampled
    PROVE  /\ Store(k, s) \in [Cached -> Sampled]
           /\ \A e \in Cached : Store(k, s)[e] \in {cache[e], s, None}
<1>1. Store(k, s) \in {SetStat(cache, s), SetContent(cache, s), SetNotFound(cache, s),
                       SetListing(cache, s)}
  BY DEF Store
<1>2. QED
  BY <1>1, CacheOps

LEMMA InitRead == Init => ReadInv
<1> SUFFICES ASSUME Init PROVE ReadInv
  OBVIOUS
<1>1. SharingInv /\ GuardInv
  BY InitInv, InitGuard
<1>2. ReadTypes
  <2>1. cache \in [Cached -> Sampled] /\ raced \in BOOLEAN
    BY DEF Init, Sampled
  <2>2. call = [c \in Call |-> [phase |-> "idle", on |-> None, got |-> None, floor |-> 0]]
    BY DEF Init
  <2>3. call \in [Call -> Caller] /\ \A c \in Call : call[c].floor = 0
    BY <2>2 DEF Sampled, Caller, Phase
  <2>4. settled = 0
    BY DEF Init
  <2>5. QED
    BY <2>1, <2>3, <2>4 DEF ReadTypes
<1>3. CacheCurrent /\ RepliesCurrent /\ PollsCurrent /\ CallsCurrent
  BY DEF Init, CacheCurrent, RepliesCurrent, PollsCurrent, CallsCurrent, Unused
<1>4. QED
  BY <1>1, <1>2, <1>3 DEF ReadInv

\* A step of the reads: nothing it caches, returns or has been told is stale.
LEMMA ReadsCurrent ==
    ASSUME ReadInv, ReadTypes', UNCHANGED <<settled, raced, version, tick>>,
           ~raced => CacheCurrent' /\ RepliesCurrent' /\ CallsCurrent',
           SharingInv', GuardInv'
    PROVE  ReadInv'
<1>1. ~raced' => PollsCurrent'
  BY DEF ReadInv, PollsCurrent, Current
<1>2. QED
  BY <1>1 DEF ReadInv

\* The promise of a request settles with something current, or an error.
LEMMA SettleCurrent ==
    ASSUME ReadInv, NEW r \in Req, NEW result \in Sampled \cup {Failed}, Settle(r, result),
           UNCHANGED <<settled, raced>>,
           ~raced /\ result \notin {None, Failed} => Current(result)
    PROVE  /\ call' \in [Call -> Caller]
           /\ \A c \in Call : call'[c].floor <= settled
           /\ ~raced => RepliesCurrent' /\ CallsCurrent'
<1>1. call \in [Call -> Caller] /\ \A c \in Call : call[c].floor <= settled
  BY DEF ReadInv, ReadTypes
<1>2. req \in [Req -> Request]
  BY DEF ReadInv, SharingInv, SharingTypes
<1>3. settled \in Nat
  BY DEF ReadInv, GuardInv, GuardTypes
<1>4. call' = SettleCalls(r, result)
  BY DEF Settle
<1>5. \A c \in Call :
        \/ call'[c] = call[c]
        \/ call'[c] = [call[c] EXCEPT !.phase = "done", !.on = None, !.got = result]
  BY <1>4 DEF SettleCalls
<1>6. ASSUME NEW c \in Call
      PROVE  /\ call'[c] \in Caller /\ call'[c].floor = call[c].floor
             /\ call'[c].got \in {call[c].got, result}
  <2>1. call[c] \in Caller
    BY <1>1
  <2>2. CASE call'[c] = [call[c] EXCEPT !.phase = "done", !.on = None, !.got = result]
    <3>1. call'[c] = [phase |-> "done", on |-> None, got |-> result,
                      floor |-> call[c].floor]
      BY <2>1, <2>2 DEF Caller
    <3>2. QED
      BY <2>1, <3>1 DEF Caller, Phase
  <2>3. QED
    BY <1>5, <2>1, <2>2
<1>7. call' \in [Call -> Caller]
  <2>1. call' = [c \in Call |-> call'[c]]
    BY <1>4 DEF SettleCalls
  <2>2. \A c \in Call : call'[c] \in Caller
    BY <1>6
  <2>3. QED
    BY <2>1, <2>2
<1>8. ASSUME NEW q \in Req, req'[q].phase = "answered"
      PROVE  req[q].phase = "answered" /\ req'[q].saw = req[q].saw
  <2>1. req'[q] = Unused \/ req'[q] = req[q] \/ req'[q] = [req[q] EXCEPT !.on = None]
    BY DEF Settle
  <2>2. req'[q] # Unused
    BY <1>8 DEF Unused
  <2>3. req[q] \in Request
    BY <1>2
  <2>4. QED
    BY <1>8, <2>1, <2>2, <2>3 DEF Request
<1>9. ASSUME ~raced PROVE RepliesCurrent'
  BY <1>8, <1>9 DEF ReadInv, RepliesCurrent, Current
<1>10. ASSUME ~raced PROVE CallsCurrent'
  <2> SUFFICES ASSUME NEW c \in Call, call'[c].got \notin {None, Failed}
               PROVE  call'[c].got \in State /\ call'[c].got.stamp >= call'[c].floor
    BY DEF CallsCurrent
  <2>1. CASE call'[c].got = call[c].got
    BY <1>6, <1>10, <2>1 DEF ReadInv, CallsCurrent
  <2>2. CASE call'[c].got = result
    <3>1. result \in State /\ result.stamp >= settled
      BY <1>10, <2>2 DEF Current
    <3>2. result.stamp \in Nat /\ call[c].floor \in Nat /\ call[c].floor <= settled
      BY <1>1, <3>1 DEF State, Caller
    <3>3. QED
      BY <1>3, <1>6, <2>2, <3>1, <3>2
  <2>3. QED
    BY <1>6, <2>1, <2>2
<1>11. QED
  BY <1>1, <1>6, <1>7, <1>9, <1>10

\* Requests move on, none of them by an answer.
LEMMA ProgressCurrent ==
    ASSUME ReadInv, SharingInv', GuardInv',
           UNCHANGED <<cache, call, settled, raced, version, tick>>,
           \A q \in Req : req'[q].phase = "answered" =>
               req[q].phase = "answered" /\ req'[q].saw = req[q].saw
    PROVE  ReadInv'
<1>1. ReadTypes'
  BY DEF ReadInv, ReadTypes
<1>2. ASSUME ~raced PROVE CacheCurrent' /\ RepliesCurrent' /\ CallsCurrent'
  BY <1>2 DEF ReadInv, CacheCurrent, RepliesCurrent, CallsCurrent, Current
<1>3. QED
  BY <1>1, <1>2, ReadsCurrent

\* A request that ends with an error.
LEMMA EndCurrent ==
    ASSUME ReadInv, SharingInv', GuardInv', UNCHANGED <<cache, settled, raced, version, tick>>,
           NEW r \in Req, Settle(r, Failed)
    PROVE  ReadInv'
<1>1. /\ call' \in [Call -> Caller]
      /\ \A c \in Call : call'[c].floor <= settled
      /\ ~raced => RepliesCurrent' /\ CallsCurrent'
  BY SettleCurrent
<1>2. ReadTypes'
  BY <1>1 DEF ReadInv, ReadTypes
<1>3. ASSUME ~raced PROVE CacheCurrent'
  BY <1>3 DEF ReadInv, CacheCurrent, Current
<1>4. QED
  BY <1>1, <1>2, <1>3, ReadsCurrent

\* After the listing of the probe: absent because the listing says so.
LEMMA InferCurrent ==
    ASSUME ReadInv, SharingInv', GuardInv', UNCHANGED <<settled, raced, version, tick>>,
           NEW r \in Req, Infer(r)
    PROVE  ReadInv'
<1> DEFINE l == cache["listing"]
           c == IF l # None /\ ~l.present THEN SetNotFound(cache, l) ELSE cache
<1>1. cache \in [Cached -> Sampled] /\ l \in Sampled
  BY DEF ReadInv, ReadTypes, Cached
<1>2. c \in [Cached -> Sampled] /\ \A e \in Cached : c[e] \in {cache[e], l, None}
  BY <1>1, CacheOps
<1>3. ASSUME ~raced, NEW s \in {c[e] : e \in Cached}, s # None PROVE Current(s)
  <2>1. PICK e \in Cached : s \in {cache[e], cache["listing"]}
    BY <1>2, <1>3
  <2>2. QED
    BY <1>3, <2>1 DEF ReadInv, CacheCurrent, Cached
<1>4. CASE c["notFound"] # None
  <2> DEFINE n == c["notFound"]
  <2>1. cache' = SetNotFound(c, n) /\ Settle(r, n)
    BY <1>4 DEF Infer
  <2>2. n \in Sampled /\ n \in {c[e] : e \in Cached}
    BY <1>2 DEF Cached
  <2>3. cache' \in [Cached -> Sampled] /\ \A e \in Cached : cache'[e] \in {c[e], n, None}
    BY <1>2, <2>1, <2>2, CacheOps
  <2>4. /\ call' \in [Call -> Caller]
        /\ \A d \in Call : call'[d].floor <= settled
        /\ ~raced => RepliesCurrent' /\ CallsCurrent'
    BY <1>3, <2>1, <2>2, SettleCurrent
  <2>5. ReadTypes'
    BY <2>3, <2>4 DEF ReadInv, ReadTypes
  <2>6. ASSUME ~raced PROVE CacheCurrent'
    <3> SUFFICES ASSUME NEW e \in Cached, cache'[e] # None PROVE Current(cache'[e])
      BY DEF CacheCurrent, Current
    <3> HIDE DEF c
    <3>1. cache'[e] \in {c[f] : f \in Cached}
      BY <2>2, <2>3
    <3>2. QED
      BY <1>3, <2>6, <3>1
  <2>7. QED
    BY <2>4, <2>5, <2>6, ReadsCurrent
<1>5. CASE c["notFound"] = None
  <2>1. /\ cache' = c /\ req' = [req EXCEPT ![r].phase = Asked, ![r].on = None]
        /\ call' = call
    BY <1>5 DEF Infer
  <2>2. ReadTypes'
    BY <1>2, <2>1 DEF ReadInv, ReadTypes
  <2>3. ASSUME ~raced PROVE CacheCurrent'
    <3> SUFFICES ASSUME NEW e \in Cached, c[e] # None PROVE Current(c[e])
      BY <2>1 DEF CacheCurrent, Current
    <3> QED
      BY <1>3, <2>3
  <2>4. ASSUME ~raced PROVE RepliesCurrent'
    <3>1. Asked # "answered" /\ req \in [Req -> Request]
      BY DEF Asked, ReadInv, SharingInv, SharingTypes
    <3>2. ASSUME NEW q \in Req, req'[q].phase = "answered" PROVE req'[q] = req[q]
      <4>1. q # r
        <5>1. SUFFICES ASSUME q = r PROVE FALSE
          OBVIOUS
        <5>2. req'[r] = [req[r] EXCEPT !.phase = Asked, !.on = None] /\ req[r] \in Request
          BY <2>1, <3>1
        <5>3. QED
          BY <3>1, <3>2, <5>1, <5>2 DEF Request
      <4>2. QED
        BY <2>1, <3>1, <4>1
    <3> QED
      BY <2>4, <3>2 DEF ReadInv, RepliesCurrent, Current
  <2>5. ASSUME ~raced PROVE CallsCurrent'
    BY <2>1, <2>5 DEF ReadInv, CallsCurrent
  <2>6. QED
    BY <2>2, <2>3, <2>4, <2>5, ReadsCurrent
<1>6. QED
  BY <1>4, <1>5

\* stat, readFile, readDirectory, as they are called.
LEMMA CallStep ==
    ASSUME ReadInv, SharingInv', GuardInv', NEW c \in Call, NEW k \in Kind \ {"probe"},
           ReadHit(c, k) \/ ReadJoin(c, k) \/ \E r \in NextReq : ReadStart(c, k, r)
    PROVE  ReadInv'
<1>1. /\ UNCHANGED <<cache, settled, raced, version, tick>>
      /\ settled \in Nat /\ call[c] \in Caller /\ cache \in [Cached -> Sampled]
      /\ pending \in [Kind -> Req \cup {None}]
      /\ NextReq \subseteq Req
  BY DEF ReadHit, ReadJoin, ReadStart, Called, mutations, history, watch, ReadInv, GuardInv,
         GuardTypes, ReadTypes, SharingInv, SharingTypes, NextReq, InFlight
<1> DEFINE Answered(d) ==
             /\ call' = [call EXCEPT ![c] = d]
             /\ d.floor = settled
             /\ d.got # None => \E e \in Cached : d.got = cache[e]
<1>2. PICK d \in Caller : Answered(d)
  <2>1. CASE ReadHit(c, k)
    <3>1. \E e \in Cached : Hit(k) = cache[e]
      BY DEF Hit, Cached
    <3>2. [phase |-> "done", on |-> None, got |-> Hit(k), floor |-> settled] \in Caller
      BY <1>1, <3>1 DEF Caller, Phase
    <3>3. QED
      BY <2>1, <3>1, <3>2 DEF ReadHit
  <2>2. ASSUME NEW r \in Req, call' = [call EXCEPT ![c] = Waiting(r)]
        PROVE  \E d \in Caller : Answered(d)
    <3>1. Waiting(r) \in Caller /\ Waiting(r).floor = settled /\ Waiting(r).got = None
      BY <1>1 DEF Waiting, Caller, Phase, Sampled
    <3>2. QED
      BY <2>2, <3>1
  <2>3. CASE ReadJoin(c, k) \/ \E r \in NextReq : ReadStart(c, k, r)
    <3>1. \E r \in Req : call' = [call EXCEPT ![c] = Waiting(r)]
      BY <1>1, <2>3 DEF ReadJoin, ReadStart
    <3>2. QED
      BY <2>2, <3>1
  <2>4. QED
    BY <2>1, <2>3
<1> HIDE DEF Answered
<1>3. /\ call \in [Call -> Caller] /\ \A b \in Call : call[b].floor <= settled
      /\ raced \in BOOLEAN
  BY DEF ReadInv, ReadTypes
<1>4. /\ call' \in [Call -> Caller] /\ call'[c] = d /\ d.floor = settled
      /\ \A b \in Call \ {c} : call'[b] = call[b]
  <2>1. call' = [call EXCEPT ![c] = d] /\ d.floor = settled
    BY <1>2 DEF Answered
  <2>2. QED
    BY <1>3, <2>1
<1>5. ReadTypes'
  <2>1. \A b \in Call : call'[b].floor <= settled
    BY <1>3, <1>1, <1>4
  <2>2. QED
    BY <1>3, <1>1, <1>4, <2>1 DEF ReadTypes
<1>6. ASSUME ~raced PROVE CacheCurrent' /\ CallsCurrent'
  <2>1. CacheCurrent /\ CallsCurrent
    BY <1>6 DEF ReadInv
  <2>2. d.got # None => Current(d.got)
    BY <1>2, <2>1 DEF CacheCurrent, Answered
  <2>3. CallsCurrent'
    <3> SUFFICES ASSUME NEW b \in Call, call'[b].got \notin {None, Failed}
                 PROVE  call'[b].got \in State /\ call'[b].got.stamp >= call'[b].floor
      BY DEF CallsCurrent
    <3>1. CASE b = c
      BY <1>4, <2>2, <3>1 DEF Current
    <3>2. CASE b # c
      BY <1>4, <2>1, <3>2 DEF CallsCurrent
    <3>3. QED
      BY <3>1, <3>2
  <2>4. QED
    BY <1>1, <2>1, <2>3 DEF CacheCurrent, Current
<1>7. ASSUME ~raced PROVE RepliesCurrent'
  <2>1. CASE req' = req
    BY <1>1, <1>7, <2>1 DEF ReadInv, RepliesCurrent, Current
  <2>2. ASSUME NEW r \in Req, NEW phase \in {"context", Asked},
               req' = [req EXCEPT ![r] = Fresh(k, phase)]
        PROVE  RepliesCurrent'
    <3>1. Fresh(k, phase).phase # "answered" /\ req \in [Req -> Request]
      BY DEF Fresh, Asked, ReadInv, SharingInv, SharingTypes
    <3>2. QED
      BY <1>1, <1>7, <2>2, <3>1 DEF ReadInv, RepliesCurrent, Current
  <2>3. QED
    BY <1>1, <2>1, <2>2 DEF ReadHit, ReadJoin, ReadStart
<1>8. QED
  BY <1>1, <1>5, <1>6, <1>7, ReadsCurrent

\* The continuations of a request.
LEMMA RequestStep ==
    ASSUME ReadInv, SharingInv', GuardInv', NEW r \in Req,
           ProbeContext(r) \/ ProbeAwaited(r) \/ Serve(r) \/ Deliver(r) \/ RetryRead(r)
           \/ FailRead(r)
    PROVE  ReadInv'
<1>1. /\ UNCHANGED <<settled, raced, version, tick>>
      /\ req \in [Req -> Request] /\ cache \in [Cached -> Sampled]
      /\ remote \in State /\ settled \in Nat /\ settled <= remote.stamp
      /\ NextReq \subseteq Req /\ Asked # "answered"
  BY DEF ProbeContext, ProbeAwaited, Serve, Deliver, RetryRead, FailRead, mutations, history,
         watch, ReadInv, GuardInv, GuardTypes, ReadTypes, SharingInv, SharingTypes, NextReq,
         InFlight, Asked
<1>2. ASSUME Settle(r, Failed), cache' = cache PROVE ReadInv'
  BY <1>1, <1>2, EndCurrent
<1>3. CASE ProbeContext(r)
  <2>1. CASE req' = [req EXCEPT ![r].phase = "awaiting", ![r].on = ListingInFlight]
             /\ UNCHANGED <<cache, pending, call>>
    <3>1. \A q \in Req : req'[q].phase = "answered" => req'[q] = req[q]
      BY <1>1, <2>1 DEF Request
    <3>2. QED
      BY <1>1, <2>1, <3>1, ProgressCurrent
  <2>2. ASSUME NEW p \in Req,
               req' = [req EXCEPT ![r].phase = "awaiting", ![r].on = p,
                                  ![p] = Fresh("probe", Asked)],
               UNCHANGED <<cache, call>>
        PROVE  ReadInv'
    <3>1. Fresh("probe", Asked).phase # "answered"
      BY <1>1 DEF Fresh
    <3>2. \A q \in Req : req'[q].phase = "answered" => req'[q] = req[q]
      BY <1>1, <2>2, <3>1 DEF Request
    <3>3. QED
      BY <1>1, <2>2, <3>2, ProgressCurrent
  <2>3. CASE Infer(r)
    BY <1>1, <2>3, InferCurrent
  <2>4. QED
    BY <1>1, <1>3, <2>1, <2>2, <2>3 DEF ProbeContext
<1>4. CASE ProbeAwaited(r)
  BY <1>1, <1>4, InferCurrent DEF ProbeAwaited
<1>5. CASE Serve(r)
  <2>1. /\ req' = [req EXCEPT ![r].phase = "answered", ![r].saw = remote]
        /\ UNCHANGED <<cache, call>>
    BY <1>5 DEF Serve
  <2>2. Current(remote)
    BY <1>1 DEF Current, State
  <2>3. \A q \in Req \ {r} : req'[q] = req[q]
    BY <1>1, <2>1
  <2>4. req'[r].saw = remote
    BY <1>1, <2>1 DEF Request
  <2>5. ReadTypes'
    BY <1>1, <2>1 DEF ReadInv, ReadTypes
  <2>6. ASSUME ~raced PROVE CacheCurrent' /\ RepliesCurrent' /\ CallsCurrent'
    BY <1>1, <2>1, <2>2, <2>3, <2>4, <2>6
       DEF ReadInv, CacheCurrent, RepliesCurrent, CallsCurrent, Current
  <2>7. QED
    BY <1>1, <2>5, <2>6, ReadsCurrent
<1>6. CASE Deliver(r)
  <2> DEFINE s == req[r].saw
  <2>1. cache' = Store(req[r].kind, s) /\ Settle(r, s) /\ req[r].phase = "answered"
    BY <1>6 DEF Deliver
  <2>2. s \in Sampled
    BY <1>1 DEF Request
  <2>3. cache' \in [Cached -> Sampled] /\ \A e \in Cached : cache'[e] \in {cache[e], s, None}
    BY <1>1, <2>1, <2>2, StoreOps
  <2>4. ~raced => Current(s)
    BY <2>1 DEF ReadInv, RepliesCurrent
  <2> HIDE DEF s
  <2>5. /\ call' \in [Call -> Caller]
        /\ \A c \in Call : call'[c].floor <= settled
        /\ ~raced => RepliesCurrent' /\ CallsCurrent'
    BY <1>1, <2>1, <2>2, <2>4, SettleCurrent
  <2>6. ReadTypes'
    BY <1>1, <2>3, <2>5 DEF ReadInv, ReadTypes
  <2>7. ASSUME ~raced PROVE CacheCurrent'
    BY <1>1, <2>3, <2>4, <2>7 DEF ReadInv, CacheCurrent, Current
  <2>8. QED
    BY <1>1, <2>5, <2>6, <2>7, ReadsCurrent
<1>7. CASE RetryRead(r)
  <2>1. CASE Settle(r, Failed)
    BY <1>2, <1>7, <2>1 DEF RetryRead
  <2>2. CASE req' = [req EXCEPT ![r].phase = Asked, ![r].retried = TRUE]
             /\ UNCHANGED <<pending, call>>
    <3>1. \A q \in Req : req'[q].phase = "answered" => req'[q] = req[q]
      BY <1>1, <2>2 DEF Request
    <3>2. QED
      BY <1>1, <1>7, <2>2, <3>1, ProgressCurrent DEF RetryRead
  <2>3. QED
    BY <1>7, <2>1, <2>2 DEF RetryRead
<1>8. CASE FailRead(r)
  BY <1>2, <1>8 DEF FailRead
<1>9. QED
  BY <1>3, <1>4, <1>5, <1>6, <1>7, <1>8

\* The success of a mutation clears the cache, and marks what it overtook.
LEMMA ChangeStep ==
    ASSUME ReadInv, SharingInv', GuardInv', NEW m \in Mutation,
           Apply(m) \/ Complete(m) \/ RetryMutation(m) \/ FailMutation(m)
    PROVE  ReadInv'
<1>1. CASE UNCHANGED <<cache, req, call, tick, version, history>>
  BY <1>1, ProgressCurrent DEF history
<1>2. CASE Complete(m) /\ mutation[m].saw # Missing
  <2>1. /\ cache' = InvalidatePath(cache)
        /\ settled' = IF mutation[m].saw.stamp > settled
                      THEN mutation[m].saw.stamp ELSE settled
        /\ raced' = (raced \/ ReplyDue)
        /\ UNCHANGED <<req, call, tick, version>>
    BY <1>2 DEF Complete, reads, watch
  <2>2. settled' \in Nat /\ settled \in Nat
    BY DEF ReadInv, GuardInv, GuardTypes
  <2>3. settled' >= settled
    <3>1. mutation[m].saw.stamp \in Nat
      BY <1>2 DEF Complete, ReadInv, GuardInv, GuardTypes, State
    <3>2. QED
      BY <2>1, <2>2, <3>1
  <2>4. \A e \in Cached : cache'[e] = None
    BY <2>1 DEF InvalidatePath
  <2>5. ReadTypes'
    <3>1. cache' \in [Cached -> Sampled]
      BY <2>1 DEF InvalidatePath, Sampled
    <3>2. call' \in [Call -> Caller] /\ \A c \in Call : call[c].floor \in Nat
      BY <2>1 DEF ReadInv, ReadTypes, Caller
    <3>3. \A c \in Call : call'[c].floor <= settled'
      BY <2>1, <2>2, <2>3, <3>2 DEF ReadInv, ReadTypes
    <3>4. raced' \in BOOLEAN
      BY <2>1 DEF ReadInv, ReadTypes
    <3>5. QED
      BY <3>1, <3>2, <3>3, <3>4 DEF ReadTypes
  <2>6. ASSUME ~raced' PROVE CacheCurrent' /\ RepliesCurrent' /\ PollsCurrent' /\ CallsCurrent'
    <3>1. ~raced /\ ~ReplyDue
      BY <2>1, <2>6
    <3>2. RepliesCurrent' /\ PollsCurrent'
      BY <2>1, <3>1 DEF ReplyDue, RepliesCurrent, PollsCurrent
    <3>3. CallsCurrent'
      BY <2>1, <3>1 DEF ReadInv, CallsCurrent
    <3>4. QED
      BY <2>4, <3>2, <3>3 DEF CacheCurrent
  <2>7. QED
    BY <2>5, <2>6 DEF ReadInv
<1>3. QED
  BY <1>1, <1>2 DEF Apply, Complete, RetryMutation, FailMutation, reads, watch

\* What a poll caches has passed the guard.
LEMMA TickStep ==
    ASSUME ReadInv, SharingInv', GuardInv', NEW t \in Tick,
           Poll(t) \/ ServePoll(t) \/ DeliverPoll(t) \/ FailPoll(t)
    PROVE  ReadInv'
<1>1. /\ UNCHANGED <<req, call, version, settled, raced>>
      /\ tick \in [Tick -> Polled] /\ cache \in [Cached -> Sampled]
      /\ remote \in State /\ settled \in Nat /\ settled <= remote.stamp
  BY DEF Poll, ServePoll, DeliverPoll, FailPoll, reads, mutations, history, ReadInv, GuardInv,
         GuardTypes, ReadTypes
<1>2. ASSUME ~raced PROVE PollsCurrent'
  <2>1. \A u \in Tick \ {t} : tick'[u] = tick[u]
    BY <1>1 DEF Poll, ServePoll, DeliverPoll, FailPoll
  <2>2. tick'[t].phase = "answered" => tick'[t].saw = remote
    BY <1>1 DEF Poll, ServePoll, DeliverPoll, FailPoll, Polled
  <2>3. Current(remote)
    BY <1>1 DEF Current, State
  <2>4. QED
    BY <1>1, <1>2, <2>1, <2>2, <2>3 DEF ReadInv, PollsCurrent, Current
<1>3. cache' \in [Cached -> Sampled] /\ (~raced => CacheCurrent')
  <2>1. CASE cache' = cache
    BY <1>1, <2>1 DEF ReadInv, CacheCurrent, Current
  <2>2. CASE DeliverPoll(t) /\ version = tick[t].version
    <3> DEFINE s == tick[t].saw
    <3>1. PICK c \in {cache, InvalidatePath(cache)} : cache' = SetListing(c, s)
      BY <2>2 DEF DeliverPoll
    <3>2. s \in Sampled /\ (~raced => Current(s))
      BY <1>1, <2>2 DEF DeliverPoll, Polled, ReadInv, PollsCurrent
    <3>3. c \in [Cached -> Sampled] /\ \A e \in Cached : c[e] \in {cache[e], None}
      BY <1>1 DEF InvalidatePath, Sampled
    <3> HIDE DEF s
    <3>4. cache' \in [Cached -> Sampled] /\ \A e \in Cached : cache'[e] \in {c[e], s, None}
      BY <3>1, <3>2, <3>3, CacheOps
    <3>5. QED
      BY <1>1, <3>2, <3>3, <3>4 DEF ReadInv, CacheCurrent, Current
  <2>3. QED
    BY <2>1, <2>2 DEF Poll, ServePoll, DeliverPoll, FailPoll
<1>4. ReadTypes'
  BY <1>1, <1>3 DEF ReadInv, ReadTypes
<1>5. ~raced => RepliesCurrent' /\ CallsCurrent'
  BY <1>1 DEF ReadInv, RepliesCurrent, CallsCurrent, Current
<1>6. QED
  BY <1>1, <1>2, <1>3, <1>4, <1>5 DEF ReadInv

LEMMA NextRead == ReadInv /\ [Next]_vars => ReadInv'
<1> SUFFICES ASSUME ReadInv, [Next]_vars PROVE ReadInv'
  OBVIOUS
<1>1. SharingInv' /\ GuardInv'
  BY NextInv, NextGuard DEF ReadInv
<1>2. ASSUME NEW c \in Call, NEW k \in Kind \ {"probe"},
             ReadHit(c, k) \/ ReadJoin(c, k) \/ \E r \in NextReq : ReadStart(c, k, r)
      PROVE  ReadInv'
  BY <1>1, <1>2, CallStep
<1>3. ASSUME NEW r \in Req,
             ProbeContext(r) \/ ProbeAwaited(r) \/ Serve(r) \/ Deliver(r) \/ RetryRead(r)
             \/ FailRead(r)
      PROVE  ReadInv'
  BY <1>1, <1>3, RequestStep
<1>4. ASSUME NEW m \in Mutation, NEW k \in {"write", "delete"}, Begin(m, k)
      PROVE  ReadInv'
  <2>1. UNCHANGED <<cache, req, call, settled, raced, tick>> /\ version' = versions + 1
    BY <1>4 DEF Begin, reads, history, watch
  <2>2. \A t \in Tick : tick[t].version # version'
    BY <2>1 DEF ReadInv, GuardInv, GuardTypes, Polled
  <2>3. ReadTypes' /\ PollsCurrent'
    BY <2>1, <2>2 DEF ReadInv, ReadTypes, PollsCurrent
  <2>4. ~raced => CacheCurrent' /\ RepliesCurrent' /\ CallsCurrent'
    BY <2>1 DEF ReadInv, CacheCurrent, RepliesCurrent, CallsCurrent, Current
  <2>5. QED
    BY <1>1, <2>1, <2>3, <2>4 DEF ReadInv
<1>5. ASSUME NEW m \in Mutation,
             Apply(m) \/ Complete(m) \/ RetryMutation(m) \/ FailMutation(m)
      PROVE  ReadInv'
  BY <1>1, <1>5, ChangeStep
<1>6. ASSUME NEW t \in Tick, Poll(t) \/ ServePoll(t) \/ DeliverPoll(t) \/ FailPoll(t)
      PROVE  ReadInv'
  BY <1>1, <1>6, TickStep
<1>7. CASE Watch \/ ResumeAutoConnect \/ External \/ UNCHANGED vars
  BY <1>1, <1>7, ProgressCurrent DEF Watch, ResumeAutoConnect, External, vars, reads, mutations,
                                     history, watch
<1>8. CASE SuspendAutoConnect
  <2>1. /\ UNCHANGED <<cache, req, call, settled, tick>>
        /\ raced' = (raced \/ \E t \in Tick : tick[t].phase = "answered")
    BY <1>8 DEF SuspendAutoConnect
  <2>2. ReadTypes'
    BY <2>1 DEF ReadInv, ReadTypes
  <2>3. ASSUME ~raced' PROVE CacheCurrent' /\ RepliesCurrent' /\ PollsCurrent' /\ CallsCurrent'
    <3>1. ~raced /\ \A t \in Tick : tick[t].phase # "answered"
      BY <2>1, <2>3
    <3>2. CacheCurrent' /\ RepliesCurrent' /\ CallsCurrent'
      BY <2>1, <3>1 DEF ReadInv, CacheCurrent, RepliesCurrent, CallsCurrent, Current
    <3>3. QED
      BY <2>1, <3>1, <3>2 DEF PollsCurrent
  <2>4. QED
    BY <1>1, <2>2, <2>3 DEF ReadInv
<1>9. CASE Disconnected \/ \E e \in Cached : Expire(e)
  <2>1. /\ UNCHANGED <<req, call, settled, raced, version, tick>>
        /\ cache \in [Cached -> Sampled]
    BY <1>9 DEF Disconnected, Expire, reads, mutations, history, watch, ReadInv, ReadTypes
  <2>2. cache' \in [Cached -> Sampled] /\ \A e \in Cached : cache'[e] \in {cache[e], None}
    BY <1>9, <2>1 DEF Disconnected, Expire, Sampled
  <2>3. ReadTypes'
    BY <2>1, <2>2 DEF ReadInv, ReadTypes
  <2>4. ~raced => CacheCurrent' /\ RepliesCurrent' /\ CallsCurrent'
    BY <2>1, <2>2 DEF ReadInv, CacheCurrent, RepliesCurrent, CallsCurrent, Current
  <2>5. QED
    BY <1>1, <2>1, <2>3, <2>4, ReadsCurrent
<1>10. QED
  BY <1>2, <1>3, <1>4, <1>5, <1>6, <1>7, <1>8, <1>9 DEF Next

\* A call made after a mutation returned sees it, whichever way it is answered,
\* unless a reply was overtaken. (fileSystemProvider.ts:269-383, 434-441)
THEOREM ReadYourWritesCorrect == Spec => []ReadYourWrites
<1>1. ReadInv => ReadYourWrites
  BY DEF ReadInv, CallsCurrent, ReadYourWrites
<1>2. QED
  BY <1>1, InitRead, NextRead, PTL DEF Spec

-----------------------------------------------------------------------------
(* The cache and the watcher: types *)

\* A file that is cached as not found is not cached as anything else.
Alone(c) == c["notFound"] # None => c["stat"] = None /\ c["content"] = None

WatchTypes ==
    /\ snapshot \in Sampled /\ watching \in BOOLEAN
    /\ suspended \in {"no", "closing", "yes"}
    /\ suspends \in 0 .. MaxSuspends

\* The operations on the cache keep a file and its absence apart.
\* (cacheService.ts:53-90, 136-148; fileSystemProvider.ts:660-683)
LEMMA AloneOps ==
    ASSUME NEW c \in [Cached -> Sampled], Alone(c), NEW s \in Sampled
    PROVE  /\ Alone(SetStat(c, s)) /\ Alone(SetContent(c, s)) /\ Alone(SetNotFound(c, s))
           /\ Alone(SetListing(c, s))
           /\ Alone(InvalidatePath(c)) /\ InvalidatePath(c) \in [Cached -> Sampled]
           /\ \A e \in Cached : Alone([c EXCEPT ![e] = None])
<1>1. Alone(SetStat(c, s)) /\ Alone(SetContent(c, s)) /\ Alone(SetNotFound(c, s))
  BY DEF Alone, SetStat, SetContent, SetNotFound, Cached
<1>2. Alone(SetListing(c, s))
  BY DEF Alone, SetListing, SetStat, Cached
<1>3. Alone(InvalidatePath(c)) /\ InvalidatePath(c) \in [Cached -> Sampled]
  BY DEF Alone, InvalidatePath, Cached, Sampled
<1>4. ASSUME NEW e \in Cached PROVE Alone([c EXCEPT ![e] = None])
  BY DEF Alone, Cached
<1>5. QED
  BY <1>1, <1>2, <1>3, <1>4

LEMMA InferAlone ==
    ASSUME ReadInv, Alone(cache), NEW r \in Req, Infer(r)
    PROVE  Alone(cache')
<1>1. cache \in [Cached -> Sampled]
  BY DEF ReadInv, ReadTypes
<1> DEFINE l == cache["listing"]
           c == IF l # None /\ ~l.present THEN SetNotFound(cache, l) ELSE cache
<1>2. l \in Sampled
  BY <1>1 DEF Cached
<1>3. c \in [Cached -> Sampled] /\ Alone(c)
  BY <1>1, <1>2, CacheOps, AloneOps
<1>4. cache' = SetNotFound(c, c["notFound"]) \/ cache' = c
  BY DEF Infer
<1> HIDE DEF c
<1>5. c["notFound"] \in Sampled
  BY <1>3 DEF Cached
<1>6. QED
  BY <1>3, <1>4, <1>5, AloneOps

LEMMA AloneKept ==
    ASSUME ReadInv, Alone(cache), [Next]_vars
    PROVE  Alone(cache')
<1>1. cache \in [Cached -> Sampled]
  BY DEF ReadInv, ReadTypes
<1>2. ASSUME NEW c \in Call, NEW k \in Kind \ {"probe"},
             ReadHit(c, k) \/ ReadJoin(c, k) \/ \E r \in NextReq : ReadStart(c, k, r)
      PROVE  cache' = cache
  BY <1>2 DEF ReadHit, ReadJoin, ReadStart, Called
<1>3. ASSUME NEW r \in Req, ProbeContext(r) \/ ProbeAwaited(r)
      PROVE  cache' = cache \/ Infer(r)
  BY <1>3 DEF ProbeContext, ProbeAwaited
<1>4. ASSUME NEW r \in Req, Serve(r) \/ RetryRead(r) \/ FailRead(r)
      PROVE  cache' = cache
  BY <1>4 DEF Serve, RetryRead, FailRead
<1>5. ASSUME NEW r \in Req, Deliver(r)
      PROVE  Alone(cache')
  <2>1. req[r].saw \in Sampled
    BY DEF ReadInv, SharingInv, SharingTypes, Request
  <2>2. cache' = Store(req[r].kind, req[r].saw)
    BY <1>5 DEF Deliver
  <2>3. QED
    BY <1>1, <2>1, <2>2, AloneOps DEF Store
<1>6. ASSUME NEW m \in Mutation,
             \/ \E k \in {"write", "delete"} : Begin(m, k)
             \/ Apply(m) \/ Complete(m) \/ RetryMutation(m) \/ FailMutation(m)
      PROVE  cache' = cache \/ cache' = InvalidatePath(cache)
  BY <1>6 DEF Begin, Apply, Complete, RetryMutation, FailMutation
<1>7. ASSUME NEW t \in Tick, Poll(t) \/ ServePoll(t) \/ FailPoll(t)
      PROVE  cache' = cache
  BY <1>7 DEF Poll, ServePoll, FailPoll
<1>8. ASSUME NEW t \in Tick, DeliverPoll(t)
      PROVE  Alone(cache')
  <2>1. tick[t].saw \in Sampled
    BY DEF ReadInv, GuardInv, GuardTypes, Polled
  <2>2. \/ cache' = cache
        \/ cache' = SetListing(InvalidatePath(cache), tick[t].saw)
        \/ cache' = SetListing(cache, tick[t].saw)
    BY <1>8 DEF DeliverPoll
  <2>3. InvalidatePath(cache) \in [Cached -> Sampled] /\ Alone(InvalidatePath(cache))
    BY <1>1, <2>1, AloneOps
  <2>4. QED
    BY <1>1, <2>1, <2>2, <2>3, AloneOps
<1>9. CASE Watch \/ SuspendAutoConnect \/ ResumeAutoConnect \/ External \/ UNCHANGED vars
  BY <1>9 DEF Watch, SuspendAutoConnect, ResumeAutoConnect, External, vars
<1>10. CASE Disconnected
  BY <1>10 DEF Disconnected, Alone, Cached
<1>11. CASE \E e \in Cached : Expire(e)
  <2>1. None \in Sampled
    BY DEF Sampled
  <2>2. QED
    BY <1>1, <1>11, <2>1, AloneOps DEF Expire
<1>12. None \in Sampled
  BY DEF Sampled
<1>13. Alone(InvalidatePath(cache))
  BY <1>1, <1>12, AloneOps
<1>14. QED
  BY <1>2, <1>3, <1>4, <1>5, <1>6, <1>7, <1>8, <1>9, <1>10, <1>11, <1>13, InferAlone DEF Next

LEMMA WatchKept ==
    ASSUME ReadInv, WatchTypes, [Next]_vars
    PROVE  WatchTypes'
<1>1. ASSUME NEW c \in Call, NEW k \in Kind \ {"probe"},
             ReadHit(c, k) \/ ReadJoin(c, k) \/ \E r \in NextReq : ReadStart(c, k, r)
      PROVE  UNCHANGED <<snapshot, watching, suspended, suspends>>
  BY <1>1 DEF ReadHit, ReadJoin, ReadStart, Called, watch, bounds
<1>2. ASSUME NEW r \in Req,
             ProbeContext(r) \/ ProbeAwaited(r) \/ Serve(r) \/ Deliver(r) \/ RetryRead(r)
             \/ FailRead(r)
      PROVE  UNCHANGED <<snapshot, watching, suspended, suspends>>
  BY <1>2 DEF ProbeContext, ProbeAwaited, Serve, Deliver, RetryRead, FailRead, watch, bounds
<1>3. ASSUME NEW m \in Mutation,
             \/ \E k \in {"write", "delete"} : Begin(m, k)
             \/ Apply(m) \/ Complete(m) \/ RetryMutation(m) \/ FailMutation(m)
      PROVE  UNCHANGED <<snapshot, watching, suspended, suspends>>
  BY <1>3 DEF Begin, Apply, Complete, RetryMutation, FailMutation, watch, bounds
<1>4. ASSUME NEW t \in Tick, Poll(t) \/ ServePoll(t) \/ DeliverPoll(t) \/ FailPoll(t)
      PROVE  WatchTypes'
  <2>1. UNCHANGED <<watching, suspended, suspends>> /\ snapshot' \in {snapshot, tick[t].saw}
    BY <1>4 DEF Poll, ServePoll, DeliverPoll, FailPoll, bounds
  <2>2. tick[t].saw \in Sampled
    BY DEF ReadInv, GuardInv, GuardTypes, Polled
  <2>3. QED
    BY <2>1, <2>2 DEF WatchTypes
<1>5. CASE Watch \/ SuspendAutoConnect \/ Disconnected \/ ResumeAutoConnect
  <2>1. None \in Sampled
    BY DEF Sampled
  <2>2. CASE Watch
    BY <2>1, <2>2 DEF Watch, WatchTypes, bounds
  <2>3. CASE SuspendAutoConnect
    <3>1. suspends' = suspends + 1 /\ suspends < MaxSuspends
      BY <2>3 DEF SuspendAutoConnect
    <3>2. suspends' \in 0 .. MaxSuspends
      BY <3>1 DEF WatchTypes
    <3>3. snapshot' = snapshot /\ watching' = FALSE /\ suspended' = "closing"
      BY <2>3 DEF SuspendAutoConnect
    <3>4. QED
      BY <3>2, <3>3 DEF WatchTypes
  <2>4. CASE Disconnected \/ ResumeAutoConnect
    BY <2>4 DEF Disconnected, ResumeAutoConnect, WatchTypes, watch, bounds
  <2>5. QED
    BY <1>5, <2>2, <2>3, <2>4
<1>6. CASE External \/ (\E e \in Cached : Expire(e)) \/ UNCHANGED vars
  BY <1>6 DEF External, Expire, vars, watch, bounds, WatchTypes
<1>7. UNCHANGED <<snapshot, watching, suspended, suspends>> => WatchTypes'
  BY DEF WatchTypes
<1>8. QED
  BY <1>1, <1>2, <1>3, <1>4, <1>5, <1>6, <1>7 DEF Next

\* Whatever expires, is inferred or polled, the file is never cached both as
\* present and as not found, no request is of a disconnect yet to come, and
\* every variable has its type. (cacheService.ts:53-90; fileSystemProvider.ts:176-192, 636-683, 720-740)
THEOREM TypeCorrect == Spec => []TypeOK
<1> DEFINE Inv == ReadInv /\ Alone(cache) /\ WatchTypes
<1>1. Init => Inv
  <2> SUFFICES ASSUME Init PROVE Inv
    OBVIOUS
  <2>1. Alone(cache)
    BY DEF Init, Alone, Cached
  <2>2. WatchTypes
    BY DEF Init, WatchTypes, Sampled
  <2>3. QED
    BY <2>1, <2>2, InitRead
<1>2. Inv /\ [Next]_vars => Inv'
  <2> SUFFICES ASSUME Inv, [Next]_vars PROVE Inv'
    OBVIOUS
  <2>1. Alone(cache')
    BY AloneKept
  <2>2. QED
    BY <2>1, NextRead, WatchKept
<1>3. Inv => TypeOK
  <2> SUFFICES ASSUME Inv PROVE TypeOK
    OBVIOUS
  <2>1. SharingTypes /\ GuardTypes /\ ReadTypes /\ WatchTypes /\ Alone(cache)
    BY DEF ReadInv, SharingInv, GuardInv
  <2>2. \A r \in Req : req[r] \in [kind : Kind, phase : Phase, on : Req \cup {None},
                                   saw : Sampled, retried : BOOLEAN, era : 0 .. MaxSuspends]
    BY <2>1 DEF SharingTypes, Request, WatchTypes
  <2>3. \A t \in Tick : tick[t] \in [phase : Phase, version : Nat, saw : Sampled,
                                     during : SUBSET Mutation, era : 0 .. MaxSuspends]
    BY <2>1 DEF GuardTypes, Polled, WatchTypes
  <2>4. {version, versions, settled} \subseteq Nat /\ {watching, raced} \subseteq BOOLEAN
    BY <2>1 DEF GuardTypes, ReadTypes, WatchTypes
  <2>5. QED
    BY <2>1, <2>2, <2>3, <2>4 DEF SharingTypes, GuardTypes, ReadTypes, WatchTypes, Alone,
                                  Caller, Changing, TypeOK
<1> HIDE DEF Inv
<1>4. QED
  BY <1>1, <1>2, <1>3, PTL DEF Spec
=============================================================================
