------------------------------ MODULE SyncProofs ------------------------------
(***************************************************************************)
(* That the devices of Sync.tla implement LastWriterWins, for any number   *)
(* of devices, items, edits and restarts. What a device has saved for      *)
(* itself stands for what it knows. The invariant says that no stamp is    *)
(* invented on the way through memory, copies and cloud, and that, unless  *)
(* the device is torn, the memory never falls behind what is being saved,  *)
(* nor that behind the copy it is saved over.                              *)
(***************************************************************************)
EXTENDS Sync, TLAPS

Store == [Item -> Record]

\* Every variable the argument is about has its type.
TypeInv ==
    /\ clock \in 1 .. MaxClock
    /\ made \in [Item -> SUBSET ((0 .. MaxClock) \X (Device \cup {None}))]
    /\ mem \in [Device -> Store]
    /\ shadow \in [Device -> Store]
    /\ blob \in [Device -> Store]
    /\ saving \in [Device -> Store \cup {None}]
    /\ torn \in SUBSET Device
    /\ cloud \in Store

\* A store whose stamps are those of changes somebody made.
Sourced(s) == \A i \in Item : s[i].at \in Made[i]

OriginInv ==
    /\ \A d \in Device : Sourced(mem[d]) /\ Sourced(shadow[d]) /\ Sourced(blob[d])
    /\ \A d \in Device : saving[d] # None => Sourced(saving[d])
    /\ Sourced(cloud)

\* The copies of a device are in order.
Ordered(d) ==
    \A i \in Item :
        /\ shadow[d][i].at <= mem[d][i].at
        /\ saving[d] # None => /\ shadow[d][i].at <= saving[d][i].at
                               /\ saving[d][i].at <= mem[d][i].at

BaseInv == \A d \in Device \ torn : Ordered(d)

IInv == TypeInv /\ OriginInv /\ BaseInv

-----------------------------------------------------------------------------

\* A merge is a store that takes each stamp from one of the two, and is not
\* behind either. (connectionManager.ts:281-425)
LEMMA MergeFacts ==
    ASSUME NEW l \in Store, NEW r \in Store
    PROVE  /\ Merge(l, r) \in Store
           /\ \A i \in Item : /\ Merge(l, r)[i].at \in {l[i].at, r[i].at}
                              /\ Merge(l, r)[i].at >= l[i].at
  <1>1. \A i \in Item : Merge(l, r)[i] \in {l[i], r[i]}
        BY DEF Merge
  <1>2. Merge(l, r) \in Store
        BY <1>1 DEF Merge, Store
  <1>3. ASSUME NEW i \in Item
        PROVE  Merge(l, r)[i].at >= l[i].at
    <2>1. l[i].at \in Nat /\ r[i].at \in Nat
          BY ClockAssumption DEF Store, Record
    <2>. QED BY <2>1 DEF Merge
  <1>. QED BY <1>1, <1>2, <1>3

\* An exchange with the cloud hands on stores as they are.
LEMMA ExchangeFacts ==
    ASSUME TypeInv, OriginInv, NEW d \in Device, Exchange(d)
    PROVE  /\ blob' \in [Device -> Store]
           /\ cloud' \in Store
           /\ \A e \in Device : Sourced(blob'[e])
           /\ Sourced(cloud')
  <1>1. CASE blob' = [blob EXCEPT ![d] = cloud] /\ UNCHANGED cloud
    <2>1. \A e \in Device : blob'[e] \in {blob[e], cloud}
          BY <1>1 DEF TypeInv
    <2>2. blob' \in [Device -> Store]
          BY <1>1 DEF TypeInv
    <2>. QED BY <1>1, <2>1, <2>2 DEF TypeInv, OriginInv
  <1>2. CASE cloud' = blob[d] /\ UNCHANGED blob
        BY <1>2 DEF TypeInv, OriginInv
  <1>3. CASE UNCHANGED <<blob, cloud>>
        BY <1>3 DEF TypeInv, OriginInv
  <1>. QED BY <1>1, <1>2, <1>3 DEF Exchange, Exchanged, wire

\* What the first write of a save does. (encryptionService.ts:384)
LEMMA SaveFacts ==
    ASSUME TypeInv, NEW d \in Device, NEW val \in Store, Save(d, val)
    PROVE  /\ blob' \in [Device -> Store] /\ saving' \in [Device -> Store \cup {None}]
           /\ blob'[d] = val /\ saving'[d] = val
           /\ \A e \in Device \ {d} : blob'[e] = blob[e] /\ saving'[e] = saving[e]
           /\ UNCHANGED <<shadow, torn, cloud>>
  BY DEF Save, TypeInv

-----------------------------------------------------------------------------

LEMMA InitHolds == Init => IInv
  <1>. SUFFICES ASSUME Init PROVE IInv
       OBVIOUS
  <1>1. Nothing \in Store /\ \A i \in Item : Nothing[i].at = 0
        BY ClockAssumption DEF Nothing, Store, Record
  <1>2. made \in [Item -> SUBSET ((0 .. MaxClock) \X (Device \cup {None}))]
        BY ClockAssumption DEF Init
  <1>3. TypeInv
        BY <1>1, <1>2, ClockAssumption DEF Init, TypeInv
  <1>4. \A i \in Item : 0 \in Made[i]
        BY DEF Init, Made
  <1>5. OriginInv
        BY <1>1, <1>4 DEF Init, OriginInv, Sourced
  <1>6. BaseInv
        BY <1>1 DEF Init, BaseInv, Ordered
  <1>. QED BY <1>3, <1>5, <1>6 DEF IInv

\* A step that keeps the memory and what is saved for the device, and hands
\* the synchronised copies on, keeps the invariant.
LEMMA CarryKeeps ==
    ASSUME IInv, UNCHANGED <<mem, shadow, saving, torn, clock, made>>,
           blob' \in [Device -> Store], cloud' \in Store,
           \A e \in Device : Sourced(blob'[e]), Sourced(cloud')
    PROVE  IInv'
  <1>1. TypeInv'
        BY DEF IInv, TypeInv
  <1>2. OriginInv'
        BY DEF IInv, OriginInv, Sourced, Made
  <1>3. BaseInv'
        BY DEF IInv, BaseInv, Ordered
  <1>. QED BY <1>1, <1>2, <1>3 DEF IInv

\* So does one that loads: the memory is then not behind the device's own copy,
\* and where it is behind what is being saved the device is torn.
\* (connectionManager.ts:100-190)
LEMMA LoadKeeps ==
    ASSUME IInv, UNCHANGED <<shadow, clock, made>>, NEW d \in Device,
           blob' \in [Device -> Store], cloud' \in Store,
           \A e \in Device : Sourced(blob'[e]), Sourced(cloud'),
           mem' = [mem EXCEPT ![d] = Merge(shadow[d], blob'[d])],
           saving' \in [Device -> Store \cup {None}], torn' \in SUBSET Device,
           \A e \in Device \ {d} : saving'[e] = saving[e] /\ (e \in torn' <=> e \in torn),
           saving'[d] # None => saving'[d] = saving[d],
           d \notin torn' /\ saving'[d] # None =>
               d \notin torn /\ ~Misses(d, Merge(shadow[d], blob'[d]))
    PROVE  IInv'
  <1>. DEFINE b == blob'[d]
              new == Merge(shadow[d], b)
  <1>1. shadow[d] \in Store /\ b \in Store
        BY DEF IInv, TypeInv
  <1>2. /\ new \in Store
        /\ \A i \in Item : new[i].at \in {shadow[d][i].at, b[i].at} /\ new[i].at >= shadow[d][i].at
        BY <1>1, MergeFacts
  <1>3. \A i \in Item : shadow[d][i].at \in Nat /\ new[i].at \in Nat
        BY <1>1, <1>2, ClockAssumption DEF Store, Record
  <1>4. Sourced(b) /\ Sourced(shadow[d])
        BY DEF IInv, OriginInv
  <1>5. Sourced(new)
        BY <1>2, <1>4 DEF Sourced
  <1>6. d \notin torn' /\ saving'[d] # None =>
            d \notin torn /\ saving'[d] = saving[d] /\ ~Misses(d, new)
        OBVIOUS
  <1>. HIDE DEF new
  <1>7. mem'[d] = new /\ \A e \in Device \ {d} : mem'[e] = mem[e]
        BY DEF IInv, TypeInv, new
  <1>8. mem' \in [Device -> Store]
        BY <1>2 DEF IInv, TypeInv, new
  <1>9. TypeInv'
        BY <1>8 DEF IInv, TypeInv
  <1>10. Made' = Made
        BY DEF Made
  <1>11. OriginInv'
    <2>1. \A e \in Device : Sourced(mem'[e]) /\ Sourced(shadow'[e])
          BY <1>5, <1>7 DEF IInv, OriginInv
    <2>2. \A e \in Device : saving'[e] # None => Sourced(saving'[e])
          BY DEF IInv, OriginInv
    <2>. QED BY <1>10, <2>1, <2>2 DEF OriginInv, Sourced
  <1>12. ASSUME NEW e \in Device \ torn' PROVE Ordered(e)'
    <2>1. CASE e # d
          BY <1>7, <2>1 DEF IInv, BaseInv, Ordered
    <2>2. CASE e = d
      <3>1. \A i \in Item : shadow'[d][i].at <= mem'[d][i].at
            BY <1>2, <1>3, <1>7
      <3>2. ASSUME saving'[d] # None, NEW i \in Item
            PROVE  shadow'[d][i].at <= saving'[d][i].at /\ saving'[d][i].at <= mem'[d][i].at
        <4>1. d \notin torn /\ saving'[d] = saving[d] /\ ~Misses(d, new) /\ saving[d] # None
              BY <1>6, <2>2, <3>2
        <4>2. shadow[d][i].at <= saving[d][i].at
              BY <4>1 DEF IInv, BaseInv, Ordered
        <4>3. saving[d][i].at \in Nat /\ ~(new[i].at < saving[d][i].at)
              BY <4>1, ClockAssumption DEF Misses, IInv, TypeInv, Store, Record
        <4>4. saving[d][i].at <= new[i].at
              BY <1>3, <4>3
        <4>. QED BY <1>7, <4>1, <4>2, <4>4
      <3>. QED BY <2>2, <3>1, <3>2 DEF Ordered
    <2>. QED BY <2>1, <2>2
  <1>. QED BY <1>9, <1>11, <1>12 DEF IInv, BaseInv

\* What an edit does to the memory, and what it begins to save.
LEMMA ChangeFacts ==
    ASSUME IInv, NEW d \in Device, NEW i \in Item, NEW alive \in BOOLEAN,
           Change(d, i, alive)
    PROVE  /\ mem' \in [Device -> Store]
           /\ mem'[d][i].at = clock
           /\ \A j \in Item \ {i} : mem'[d][j] = mem[d][j]
           /\ \A e \in Device \ {d} : mem'[e] = mem[e]
           /\ blob' \in [Device -> Store] /\ saving' \in [Device -> Store \cup {None}]
           /\ blob'[d] = mem'[d] /\ saving'[d] = mem'[d]
           /\ \A e \in Device \ {d} : blob'[e] = blob[e] /\ saving'[e] = saving[e]
           /\ made' = [made EXCEPT ![i] = made[i] \cup {<<clock, d>>}]
           /\ UNCHANGED <<shadow, torn, cloud, clock>>
  <1>. DEFINE edit == [at |-> clock, alive |-> alive, by |-> d]
  <1>1. edit \in Record
        BY ClockAssumption DEF IInv, TypeInv, Record
  <1>2. mem' = [mem EXCEPT ![d] = [mem[d] EXCEPT ![i] = edit]]
        BY DEF Change
  <1>3. [mem[d] EXCEPT ![i] = edit] \in Store
        BY <1>1 DEF IInv, TypeInv, Store
  <1>4. mem' \in [Device -> Store]
        BY <1>2, <1>3 DEF IInv, TypeInv
  <1>5. /\ mem'[d] = [mem[d] EXCEPT ![i] = edit]
        /\ \A e \in Device \ {d} : mem'[e] = mem[e]
        BY <1>2 DEF IInv, TypeInv
  <1>6. /\ mem'[d][i] = edit
        /\ \A j \in Item \ {i} : mem'[d][j] = mem[d][j]
        BY <1>5 DEF IInv, TypeInv, Store
  <1>7. Save(d, mem'[d]) /\ mem'[d] \in Store
        BY <1>4 DEF Change
  <1>8. /\ made' = [made EXCEPT ![i] = made[i] \cup {<<clock, d>>}]
        /\ clock' = clock
        BY DEF Change
  <1>. QED BY <1>4, <1>5, <1>6, <1>7, <1>8, SaveFacts DEF IInv

\* The edit is made then, and no other.
LEMMA MadeFacts ==
    ASSUME IInv, NEW d \in Device, NEW i \in Item, NEW alive \in BOOLEAN,
           Change(d, i, alive)
    PROVE  /\ made' \in [Item -> SUBSET ((0 .. MaxClock) \X (Device \cup {None}))]
           /\ Made'[i] = Made[i] \cup {clock}
           /\ \A j \in Item \ {i} : Made'[j] = Made[j]
  <1>1. made' = [made EXCEPT ![i] = made[i] \cup {<<clock, d>>}]
        BY ChangeFacts
  <1>2. <<clock, d>> \in (0 .. MaxClock) \X (Device \cup {None})
        BY ClockAssumption DEF IInv, TypeInv
  <1>3. made' \in [Item -> SUBSET ((0 .. MaxClock) \X (Device \cup {None}))]
        BY <1>1, <1>2 DEF IInv, TypeInv
  <1>4. made'[i] = made[i] \cup {<<clock, d>>} /\ \A j \in Item \ {i} : made'[j] = made[j]
        BY <1>1 DEF IInv, TypeInv
  <1>5. {e[1] : e \in made[i] \cup {<<clock, d>>}} = {e[1] : e \in made[i]} \cup {clock}
    <2>. DEFINE all == made[i] \cup {<<clock, d>>}
    <2>1. <<clock, d>>[1] = clock
          OBVIOUS
    <2>2. ASSUME NEW t \in {e[1] : e \in all}
          PROVE  t \in {e[1] : e \in made[i]} \cup {clock}
      <3>1. PICK e \in all : t = e[1]
            BY <2>2
      <3>2. CASE e = <<clock, d>>
            BY <2>1, <3>1, <3>2
      <3>3. CASE e \in made[i]
            BY <3>1, <3>3
      <3>. QED BY <3>2, <3>3
    <2>3. ASSUME NEW t \in {e[1] : e \in made[i]} \cup {clock}
          PROVE  t \in {e[1] : e \in all}
      <3>1. CASE t = clock
        <4>1. <<clock, d>> \in all
              OBVIOUS
        <4>. QED BY <2>1, <3>1, <4>1
      <3>2. CASE t \in {e[1] : e \in made[i]}
        <4>1. PICK e \in made[i] : t = e[1]
              BY <3>2
        <4>2. e \in all
              OBVIOUS
        <4>. QED BY <4>1, <4>2
      <3>. QED BY <2>3, <3>1, <3>2
    <2>. QED BY <2>2, <2>3
  <1>. QED BY <1>3, <1>4, <1>5 DEF Made

LEMMA ChangeKeeps ==
    ASSUME IInv, NEW d \in Device, NEW i \in Item, NEW alive \in BOOLEAN,
           Change(d, i, alive)
    PROVE  IInv'
  <1>1. TypeInv'
        BY ChangeFacts, MadeFacts DEF IInv, TypeInv
  <1>2. /\ \A j \in Item : Made[j] \subseteq Made'[j]
        /\ clock \in Made'[i]
        BY MadeFacts
  <1>3. \A j \in Item : mem'[d][j].at \in Made'[j]
    <2>1. \A j \in Item \ {i} : mem'[d][j].at \in Made[j]
          BY ChangeFacts DEF IInv, OriginInv, Sourced
    <2>. QED BY <1>2, <2>1, ChangeFacts
  <1>4. OriginInv'
    <2>1. \A e \in Device \ {d}, j \in Item : /\ mem'[e][j].at \in Made'[j]
                                             /\ blob'[e][j].at \in Made'[j]
          BY <1>2, ChangeFacts DEF IInv, OriginInv, Sourced
    <2>2. \A e \in Device, j \in Item : shadow'[e][j].at \in Made'[j]
          BY <1>2, ChangeFacts DEF IInv, OriginInv, Sourced
    <2>3. \A e \in Device \ {d}, j \in Item :
              saving'[e] # None => saving'[e][j].at \in Made'[j]
          BY <1>2, ChangeFacts DEF IInv, OriginInv, Sourced
    <2>4. \A j \in Item : /\ blob'[d][j].at \in Made'[j]
                         /\ saving'[d][j].at \in Made'[j]
          BY <1>3, ChangeFacts
    <2>5. \A j \in Item : cloud'[j].at \in Made'[j]
          BY <1>2, ChangeFacts DEF IInv, OriginInv, Sourced
    <2>. QED BY <1>3, <2>1, <2>2, <2>3, <2>4, <2>5 DEF OriginInv, Sourced
  <1>5. ASSUME NEW e \in Device \ torn' PROVE Ordered(e)'
    <2>1. CASE e # d
          BY <2>1, ChangeFacts DEF IInv, BaseInv, Ordered
    <2>2. CASE e = d
      <3>1. d \notin torn
            BY <2>2, ChangeFacts
      <3>2. \A j \in Item : /\ shadow[d][j].at \in Nat /\ mem[d][j].at \in Nat
                           /\ mem'[d][j].at \in Nat /\ clock \in Nat
            BY ChangeFacts, ClockAssumption DEF IInv, TypeInv, Store, Record
      <3>3. \A j \in Item : shadow[d][j].at <= mem[d][j].at
            BY <3>1 DEF IInv, BaseInv, Ordered
      <3>4. mem[d][i].at < clock
            BY DEF Change
      <3>5. \A j \in Item : shadow[d][j].at <= mem'[d][j].at
            BY <3>2, <3>3, <3>4, ChangeFacts
      <3>. QED BY <2>2, <3>2, <3>5, ChangeFacts DEF Ordered
    <2>. QED BY <2>1, <2>2
  <1>. QED BY <1>1, <1>4, <1>5 DEF IInv, BaseInv

\* A run writes back what is in the memory.
LEMMA FinishKeeps ==
    ASSUME IInv, NEW d \in Device, Finish(d)
    PROVE  IInv'
  <1>1. Save(d, mem[d]) /\ mem[d] \in Store /\ UNCHANGED <<mem, clock, made>>
        BY DEF Finish, bounds, IInv, TypeInv
  <1>2. /\ blob' \in [Device -> Store] /\ saving' \in [Device -> Store \cup {None}]
        /\ blob'[d] = mem[d] /\ saving'[d] = mem[d]
        /\ \A e \in Device \ {d} : blob'[e] = blob[e] /\ saving'[e] = saving[e]
        /\ UNCHANGED <<shadow, torn, cloud>>
        BY <1>1, SaveFacts DEF IInv
  <1>3. TypeInv'
        BY <1>1, <1>2 DEF IInv, TypeInv
  <1>4. OriginInv'
        BY <1>1, <1>2 DEF IInv, OriginInv, Sourced, Made
  <1>5. \A j \in Item : mem[d][j].at \in Nat
        BY ClockAssumption DEF IInv, TypeInv, Store, Record
  <1>6. BaseInv'
        BY <1>1, <1>2, <1>5 DEF IInv, BaseInv, Ordered
  <1>. QED BY <1>3, <1>4, <1>6 DEF IInv

\* The second write of a save.
LEMMA SaveEndsFacts ==
    ASSUME IInv, NEW d \in Device, SaveEnds(d)
    PROVE  /\ saving[d] \in Store
           /\ shadow' \in [Device -> Store] /\ saving' \in [Device -> Store \cup {None}]
           /\ shadow'[d] = saving[d] /\ saving'[d] = None
           /\ \A e \in Device \ {d} : shadow'[e] = shadow[e] /\ saving'[e] = saving[e]
           /\ UNCHANGED <<mem, blob, torn, cloud, clock, made>>
  BY DEF SaveEnds, IInv, TypeInv, wire, bounds

LEMMA SaveEndsKeeps ==
    ASSUME IInv, NEW d \in Device, SaveEnds(d)
    PROVE  IInv'
  <1>1. TypeInv'
        BY SaveEndsFacts DEF IInv, TypeInv
  <1>2. Sourced(saving[d])
        BY DEF IInv, OriginInv, SaveEnds
  <1>3. OriginInv'
    <2>1. Made' = Made
          BY SaveEndsFacts DEF Made
    <2>2. \A e \in Device : Sourced(shadow'[e]) /\ Sourced(mem'[e]) /\ Sourced(blob'[e])
      <3>1. \A e \in Device : shadow'[e] \in {shadow[e], saving[d]}
            BY SaveEndsFacts
      <3>2. \A e \in Device : Sourced(shadow'[e])
            BY <1>2, <3>1 DEF IInv, OriginInv
      <3>. QED BY <3>2, SaveEndsFacts DEF IInv, OriginInv
    <2>3. \A e \in Device : saving'[e] # None => Sourced(saving'[e])
          BY SaveEndsFacts DEF IInv, OriginInv
    <2>4. Sourced(cloud')
          BY SaveEndsFacts DEF IInv, OriginInv
    <2>. QED BY <2>1, <2>2, <2>3, <2>4 DEF OriginInv, Sourced
  <1>4. ASSUME NEW e \in Device \ torn' PROVE Ordered(e)'
    <2>1. CASE e # d
          BY <2>1, SaveEndsFacts DEF IInv, BaseInv, Ordered
    <2>2. CASE e = d
      <3>1. \A j \in Item : saving[d][j].at <= mem[d][j].at
            BY <2>2, SaveEndsFacts DEF IInv, BaseInv, Ordered, SaveEnds
      <3>. QED BY <2>2, <3>1, SaveEndsFacts DEF Ordered
    <2>. QED BY <2>1, <2>2
  <1>. QED BY <1>1, <1>3, <1>4 DEF IInv, BaseInv

\* A restart loads what is there, and forgets the save it has cut off.
\* (extension.ts:404-418)
LEMMA RestartFacts ==
    ASSUME IInv, NEW d \in Device, Restart(d)
    PROVE  /\ mem' = [mem EXCEPT ![d] = Merge(shadow[d], blob'[d])]
           /\ UNCHANGED <<shadow, blob, cloud, clock, made>>
           /\ saving' \in [Device -> Store \cup {None}]
           /\ saving'[d] = None
           /\ \A e \in Device \ {d} : saving'[e] = saving[e]
           /\ torn' = torn \ {d}
  BY DEF Restart, wire, IInv, TypeInv

LEMMA RestartKeeps ==
    ASSUME IInv, NEW d \in Device, Restart(d)
    PROVE  IInv'
  <1>1. /\ blob' \in [Device -> Store] /\ cloud' \in Store
        /\ \A e \in Device : Sourced(blob'[e])
        /\ Sourced(cloud')
        BY RestartFacts DEF IInv, TypeInv, OriginInv
  <1>2. /\ torn' \in SUBSET Device
        /\ \A e \in Device \ {d} : e \in torn' <=> e \in torn
        BY RestartFacts DEF IInv, TypeInv
  <1>. QED BY <1>1, <1>2, RestartFacts, LoadKeeps

\* What a load does to a device that may be saving.
Loaded(d) ==
    /\ mem' = [mem EXCEPT ![d] = Merge(shadow[d], blob'[d])]
    /\ torn' = IF Misses(d, Merge(shadow[d], blob'[d])) THEN torn \cup {d}
               ELSE IF saving[d] = None THEN torn \ {d} ELSE torn

\* A step that goes through the cloud, and what else may follow it.
Exchanging(d) == Background(d) \/ PushDue(d) \/ Check(d) \/ SyncNow(d) \/ Retry(d)

LEMMA LoadFacts ==
    ASSUME NEW d \in Device, Load(d)
    PROVE  Loaded(d) \/ UNCHANGED <<mem, torn>>
  BY DEF Load, Loaded

LEMMA ExchangingFacts ==
    ASSUME NEW d \in Device, Exchanging(d)
    PROVE  /\ Exchange(d)
           /\ UNCHANGED <<shadow, saving, clock, made>>
           /\ Loaded(d) \/ UNCHANGED <<mem, torn>>
  <1>1. CASE Background(d)
        BY <1>1 DEF Background, Exchange, bounds
  <1>2. CASE PushDue(d)
        BY <1>2 DEF PushDue, bounds
  <1>3. CASE Check(d)
        BY <1>3, LoadFacts DEF Check, bounds
  <1>4. CASE SyncNow(d)
        BY <1>4, LoadFacts DEF SyncNow, bounds
  <1>5. CASE Retry(d)
        BY <1>5, LoadFacts DEF Retry, bounds
  <1>. QED BY <1>1, <1>2, <1>3, <1>4, <1>5 DEF Exchanging

LEMMA ExchangingKeeps ==
    ASSUME IInv, NEW d \in Device, Exchanging(d)
    PROVE  IInv'
  <1>1. /\ blob' \in [Device -> Store] /\ cloud' \in Store
        /\ \A e \in Device : Sourced(blob'[e])
        /\ Sourced(cloud')
        BY ExchangingFacts, ExchangeFacts DEF IInv
  <1>2. UNCHANGED <<shadow, saving, clock, made>>
        BY ExchangingFacts
  <1>3. CASE UNCHANGED <<mem, torn>>
        BY <1>1, <1>2, <1>3, CarryKeeps
  <1>4. CASE Loaded(d)
    <2>1. /\ saving' \in [Device -> Store \cup {None}] /\ torn' \in SUBSET Device
          /\ \A e \in Device \ {d} : e \in torn' <=> e \in torn
          BY <1>2, <1>4 DEF Loaded, IInv, TypeInv
    <2>2. d \notin torn' /\ saving'[d] # None =>
              d \notin torn /\ ~Misses(d, Merge(shadow[d], blob'[d]))
          BY <1>2, <1>4 DEF Loaded
    <2>3. mem' = [mem EXCEPT ![d] = Merge(shadow[d], blob'[d])]
          BY <1>4 DEF Loaded
    <2>. QED BY <1>1, <1>2, <2>1, <2>2, <2>3, LoadKeeps
  <1>. QED BY <1>3, <1>4, ExchangingFacts

LEMMA NextKeeps == IInv /\ [Next]_vars => IInv'
  <1>. SUFFICES ASSUME IInv, [Next]_vars PROVE IInv'
       OBVIOUS
  <1>1. CASE \E d \in Device, i \in Item, alive \in BOOLEAN : Change(d, i, alive)
        BY <1>1, ChangeKeeps
  <1>2. CASE \E d \in Device : Exchanging(d)
        BY <1>2, ExchangingKeeps
  <1>3. CASE \E d \in Device : SaveEnds(d)
        BY <1>3, SaveEndsKeeps
  <1>4. CASE \E d \in Device : Finish(d)
        BY <1>4, FinishKeeps
  <1>5. CASE \E d \in Device : Restart(d)
        BY <1>5, RestartKeeps
  <1>6. CASE Tick
    <2>1. clock' \in 1 .. MaxClock
          BY <1>6, ClockAssumption DEF Tick, IInv, TypeInv
    <2>. QED BY <1>6, <2>1 DEF Tick, copies, wire, IInv, TypeInv, OriginInv, BaseInv,
                               Ordered, Sourced, Made
  <1>7. CASE UNCHANGED vars
        BY <1>7 DEF vars, copies, wire, bounds, IInv, TypeInv, OriginInv, BaseInv,
                    Ordered, Sourced, Made
  <1>. QED BY <1>1, <1>2, <1>3, <1>4, <1>5, <1>6, <1>7 DEF Next, Exchanging

\* The invariant holds of every behaviour, with or without fairness.
THEOREM Invariance == Spec => []IInv
  BY InitHolds, NextKeeps, PTL DEF Spec

-----------------------------------------------------------------------------
(* Types *)

Flags == [Device -> BOOLEAN]
Left == 1 .. Retries \cup {None}
Run == BOOLEAN \cup {None}

SyncTypes ==
    /\ stale \in Flags /\ dirty \in Flags /\ fresh \in Flags /\ push \in Flags
    /\ retry \in [Device -> Left] /\ run \in [Device -> Run]

LEMMA FlagSet ==
    ASSUME NEW f \in Flags, NEW d \in Device, NEW b \in BOOLEAN
    PROVE  [f EXCEPT ![d] = b] \in Flags
  BY Zenon DEF Flags

LEMMA FieldSet ==
    ASSUME NEW S, NEW f \in [Device -> S], NEW d \in Device, NEW v \in S
    PROVE  [f EXCEPT ![d] = v] \in [Device -> S]
  OBVIOUS

\* A series of retries counts down, and is over after its last.
\* (syncService.ts:236-263)
LEMMA Countdown ==
    ASSUME NEW n \in Left, n # None
    PROVE  (IF n = 1 THEN None ELSE n - 1) \in Left
  BY RetriesAssumption DEF Left

LEMMA ExchangeFlags ==
    ASSUME SyncTypes, NEW d \in Device, Exchange(d)
    PROVE  stale' \in Flags /\ dirty' \in Flags
  <1>0. stale \in Flags /\ dirty \in Flags
        BY DEF SyncTypes
  <1>1. CASE stale' = [stale EXCEPT ![d] = FALSE] /\ dirty' = [dirty EXCEPT ![d] = FALSE]
        BY <1>0, <1>1, FlagSet
  <1>2. CASE stale' = [e \in Device |-> e # d] /\ dirty' = [dirty EXCEPT ![d] = FALSE]
    <2>1. [e \in Device |-> e # d] \in Flags
          BY Zenon DEF Flags
    <2>. QED BY <1>0, <1>2, <2>1, FlagSet
  <1>3. CASE UNCHANGED <<stale, dirty>>
        BY <1>0, <1>3
  <1>. QED BY <1>1, <1>2, <1>3 DEF Exchange, Exchanged, wire

\* A run that starts notes whether it has brought anything, as a Boolean.
LEMMA LoadTypes ==
    ASSUME SyncTypes, NEW d \in Device, Load(d)
    PROVE  fresh' \in Flags /\ run' \in [Device -> Run]
  <1>1. fresh' \in Flags
        BY FlagSet DEF Load, SyncTypes
  <1>2. PICK r \in Run : run' = [run EXCEPT ![d] = r] \/ run' = run
    <2>1. TRUE \in Run /\ None \in Run
          BY DEF Run
    <2>. QED BY <2>1 DEF Load
  <1>. QED BY <1>1, <1>2, FieldSet DEF SyncTypes

LEMMA ExchangingTypes ==
    ASSUME SyncTypes, NEW d \in Device, Exchanging(d)
    PROVE  SyncTypes'
  <1>0. stale' \in Flags /\ dirty' \in Flags
        BY ExchangingFacts, ExchangeFlags
  <1>1. StillFresh(d) \in BOOLEAN
        BY Zenon DEF StillFresh
  <1>2. CASE Background(d) \/ PushDue(d)
    <2>1. fresh' \in Flags
          BY <1>1, <1>2, FlagSet DEF Background, PushDue, SyncTypes
    <2>2. push' \in Flags
          BY <1>2, FlagSet DEF Background, PushDue, SyncTypes
    <2>3. retry' = retry /\ run' = run
          BY <1>2 DEF Background, PushDue
    <2>. QED BY <1>0, <2>1, <2>2, <2>3 DEF SyncTypes
  <1>3. CASE Check(d) \/ SyncNow(d)
    <2>1. push' = push /\ retry' = retry
          BY <1>3 DEF Check, SyncNow
    <2>2. CASE fresh' = [fresh EXCEPT ![d] = TRUE] /\ run' = run
      <3>1. fresh' \in Flags
            BY <2>2, FlagSet DEF SyncTypes
      <3>. QED BY <1>0, <2>1, <2>2, <3>1 DEF SyncTypes
    <2>3. CASE Load(d)
          BY <1>0, <2>1, <2>3, LoadTypes DEF SyncTypes
    <2>. QED BY <1>3, <2>2, <2>3 DEF Check, SyncNow
  <1>4. CASE Retry(d)
    <2>1. push' = push /\ retry[d] # None
          BY <1>4 DEF Retry
    <2>2. CASE run[d] # None
      <3>. DEFINE n == retry[d]
      <3>1. n \in Left /\ n # None
            BY <2>1 DEF SyncTypes
      <3>2. retry' = [retry EXCEPT ![d] = IF n = 1 THEN None ELSE n - 1]
            BY <1>4, <2>2 DEF Retry
      <3>. HIDE DEF n
      <3>3. retry' \in [Device -> Left]
            BY <3>1, <3>2, Countdown, FieldSet DEF SyncTypes
      <3>4. fresh' \in Flags /\ run' = run
            BY <1>1, <1>4, <2>2, FlagSet DEF Retry, SyncTypes
      <3>. QED BY <1>0, <2>1, <3>3, <3>4 DEF SyncTypes
    <2>3. CASE run[d] = None
      <3>. DEFINE n == retry[d]
      <3>1. n \in Left /\ n # None /\ None \in Left
            BY <2>1 DEF SyncTypes, Left
      <3>2. \/ retry' = [retry EXCEPT ![d] = None]
            \/ retry' = [retry EXCEPT ![d] = IF n = 1 THEN None ELSE n - 1]
            BY <1>4, <2>3 DEF Retry
      <3>3. Load(d)
            BY <1>4, <2>3 DEF Retry
      <3>. HIDE DEF n
      <3>4. retry' \in [Device -> Left]
            BY <3>1, <3>2, Countdown, FieldSet DEF SyncTypes
      <3>. QED BY <1>0, <2>1, <3>3, <3>4, LoadTypes DEF SyncTypes
    <2>. QED BY <2>2, <2>3
  <1>. QED BY <1>2, <1>3, <1>4 DEF Exchanging

LEMMA TypesKept == SyncTypes /\ [Next]_vars => SyncTypes'
  <1>. SUFFICES ASSUME SyncTypes, [Next]_vars PROVE SyncTypes'
       OBVIOUS
  <1>1. ASSUME NEW d \in Device, NEW val, Save(d, val), UNCHANGED <<push, retry>>,
               run' \in [Device -> Run]
        PROVE  SyncTypes'
    <2>1. /\ dirty' = [dirty EXCEPT ![d] = TRUE]
          /\ fresh' = [fresh EXCEPT ![d] = FALSE]
          /\ stale' = stale
          BY <1>1 DEF Save
    <2>2. dirty' \in Flags /\ fresh' \in Flags
          BY <2>1, FlagSet DEF SyncTypes
    <2>. QED BY <1>1, <2>1, <2>2 DEF SyncTypes
  <1>2. ASSUME NEW d \in Device, Exchanging(d) PROVE SyncTypes'
        BY <1>2, ExchangingTypes
  <1>3. ASSUME NEW d \in Device,
               SaveEnds(d) \/ Finish(d) \/ \E i \in Item, alive \in BOOLEAN : Change(d, i, alive)
        PROVE  SyncTypes'
    <2>1. CASE \E i \in Item, alive \in BOOLEAN : Change(d, i, alive)
      <3>1. Save(d, mem'[d]) /\ UNCHANGED <<push, retry, run>>
            BY <2>1 DEF Change
      <3>. QED BY <1>1, <3>1 DEF SyncTypes
    <2>2. CASE Finish(d)
      <3>1. Save(d, mem[d]) /\ UNCHANGED <<push, retry>>
            BY <2>2 DEF Finish
      <3>2. run' \in [Device -> Run]
            BY <2>2, FieldSet DEF Finish, SyncTypes, Run
      <3>. QED BY <1>1, <3>1, <3>2
    <2>3. CASE SaveEnds(d)
      <3>1. fresh' = [fresh EXCEPT ![d] = TRUE] /\ UNCHANGED <<stale, dirty, retry>>
            BY <2>3 DEF SaveEnds, wire
      <3>2. PICK b \in BOOLEAN : push' = [push EXCEPT ![d] = b]
        <4>1. push' = [push EXCEPT ![d] = push[d] \/ run[d] = None]
              BY <2>3 DEF SaveEnds
        <4>2. (push[d] \/ run[d] = None) \in BOOLEAN
              BY Zenon
        <4>. QED BY <4>1, <4>2
      <3>3. fresh' \in Flags /\ push' \in Flags
            BY <3>1, <3>2, FlagSet DEF SyncTypes
      <3>4. run' = [run EXCEPT ![d] = IF run[d] = FALSE THEN None ELSE run[d]]
            BY <2>3 DEF SaveEnds
      <3>5. run[d] \in Run /\ None \in Run
            BY DEF SyncTypes, Run
      <3>6. run' \in [Device -> Run]
            BY <3>4, <3>5, FieldSet DEF SyncTypes
      <3>. QED BY <3>1, <3>3, <3>6 DEF SyncTypes
    <2>. QED BY <1>3, <2>1, <2>2, <2>3
  <1>4. ASSUME NEW d \in Device, Restart(d) PROVE SyncTypes'
    <2>1. fresh' \in Flags /\ push' \in Flags
          BY <1>4, FlagSet DEF Restart, SyncTypes
    <2>2. Retries \in Left /\ None \in Run
          BY RetriesAssumption DEF Left, Run
    <2>3. retry' \in [Device -> Left] /\ run' \in [Device -> Run]
          BY <1>4, <2>2, FieldSet DEF Restart, SyncTypes
    <2>4. stale' = stale /\ dirty' = dirty
          BY <1>4 DEF Restart, wire
    <2>. QED BY <2>1, <2>3, <2>4 DEF SyncTypes
  <1>5. CASE Tick \/ UNCHANGED vars
    <2>1. UNCHANGED <<stale, dirty, fresh, push, retry, run>>
          BY <1>5 DEF Tick, vars, wire
    <2>. QED BY <2>1 DEF SyncTypes
  <1>. QED BY <1>1, <1>2, <1>3, <1>4, <1>5 DEF Next, Exchanging

\* Every field of a device has its type, at every stage of its runs, retries
\* and debounces: a series of retries that is on has one left. And the memory
\* is not behind the copy it is written over.
\* (syncService.ts:22-29, 85-263, connectionManager.ts:281-425)
THEOREM TypeCorrect == Spec => []TypeOK
  <1>1. Init => SyncTypes
    <2>. SUFFICES ASSUME Init PROVE SyncTypes
         OBVIOUS
    <2>1. [d \in Device |-> FALSE] \in Flags
          BY Zenon DEF Flags
    <2>2. stale \in Flags /\ dirty \in Flags /\ fresh \in Flags /\ push \in Flags
          BY <2>1 DEF Init
    <2>3. retry \in [Device -> Left] /\ run \in [Device -> Run]
          BY RetriesAssumption DEF Init, Left, Run
    <2>. QED BY <2>2, <2>3 DEF SyncTypes
  <1>2. IInv /\ SyncTypes => TypeOK
    <2>. SUFFICES ASSUME TypeInv, BaseInv, SyncTypes PROVE TypeOK
         BY DEF IInv
    <2>1. /\ {mem, shadow, blob} \subseteq [Device -> [Item -> Record]]
          /\ saving \in [Device -> [Item -> Record] \cup {None}]
          /\ cloud \in [Item -> Record]
          BY DEF TypeInv, Store
    <2>2. {stale, dirty, fresh, push} \subseteq [Device -> BOOLEAN]
          BY DEF SyncTypes, Flags
    <2>. QED BY <2>1, <2>2 DEF SyncTypes, Left, Run, BaseInv, Ordered, TypeOK
  <1>3. (IInv /\ SyncTypes) /\ [Next]_vars => (IInv /\ SyncTypes)'
        BY NextKeeps, TypesKept
  <1>. QED BY <1>1, <1>2, <1>3, InitHolds, PTL DEF Spec

-----------------------------------------------------------------------------
(* The refinement *)

LEMMA KnownFacts ==
    ASSUME IInv, IInv'
    PROVE  /\ \A d \in Device, i \in Item : /\ Known[d][i] = shadow[d][i].at
                                            /\ Known'[d][i] = shadow'[d][i].at
                                            /\ Known[d][i] \in Made[i]
                                            /\ Known[d][i] \in Nat
                                            /\ Known'[d][i] \in Nat
           /\ Known' \in [Device -> [Item -> (1 .. MaxClock) \cup {0}]]
  <1>1. \A d \in Device, i \in Item : /\ shadow[d][i].at \in 0 .. MaxClock
                                      /\ shadow'[d][i].at \in 0 .. MaxClock
        BY DEF IInv, TypeInv, Store, Record
  <1>2. Known' \in [Device -> [Item -> 0 .. MaxClock]]
        BY <1>1 DEF Known
  <1>3. 0 .. MaxClock = (1 .. MaxClock) \cup {0}
        BY ClockAssumption
  <1>4. \A d \in Device, i \in Item : shadow[d][i].at \in Made[i]
        BY DEF IInv, OriginInv, Sourced
  <1>. QED BY <1>1, <1>2, <1>3, <1>4, ClockAssumption DEF Known

\* An edit is newer than what the device has saved of the item.
LEMMA EditImplements ==
    ASSUME IInv, NEW d \in Device, NEW i \in Item, NEW alive \in BOOLEAN,
           Change(d, i, alive)
    PROVE  LWW!Change(d, {i}, clock)
  <1>1. d \in torn \/ clock >= Known[d][i]
    <2>1. d \notin torn => shadow[d][i].at <= mem[d][i].at
          BY DEF IInv, BaseInv, Ordered
    <2>2. mem[d][i].at < clock
          BY DEF Change
    <2>3. mem[d][i].at \in Nat /\ clock \in Nat /\ shadow[d][i].at \in Nat
          BY ClockAssumption DEF IInv, TypeInv, Store, Record
    <2>. QED BY <2>1, <2>2, <2>3 DEF Known
  <1>2. Known' = Known /\ torn' = torn
        BY ChangeFacts DEF Known
  <1>3. Made' = [j \in Item |-> IF j \in {i} THEN Made[j] \cup {clock} ELSE Made[j]]
        BY MadeFacts DEF Made
  <1>. QED BY <1>1, <1>2, <1>3 DEF LWW!Change

\* A device's own copy never goes back: only the end of a save writes it, and
\* what is saved is not behind it.
LEMMA SaveEndsImplements ==
    ASSUME IInv, IInv', NEW d \in Device, SaveEnds(d)
    PROVE  LWW!Learn(d)
  <1>1. \A e \in Device \ {d} : Known'[e] = Known[e]
        BY SaveEndsFacts DEF Known
  <1>2. LWW!OnlyAt(d)
        BY <1>1, KnownFacts DEF LWW!OnlyAt
  <1>3. \A j \in Item : Known'[d][j] = saving[d][j].at
        BY SaveEndsFacts, KnownFacts
  <1>4. \A j \in Item : saving[d][j].at \in Made[j]
        BY DEF IInv, OriginInv, Sourced, SaveEnds
  <1>5. d \notin torn => \A j \in Item : Known[d][j] <= saving[d][j].at
        BY KnownFacts DEF IInv, BaseInv, Ordered, SaveEnds
  <1>6. \A j \in Item : LWW!Heard(d, j)
        BY <1>3, <1>4, <1>5, KnownFacts DEF LWW!Heard
  <1>7. UNCHANGED <<Made, torn>>
        BY SaveEndsFacts DEF Made
  <1>. QED BY <1>2, <1>6, <1>7 DEF LWW!Learn

\* Any other step keeps what is known; a load may tear the device, or mend it.
LEMMA OtherImplements ==
    ASSUME IInv, NEW d \in Device, Exchanging(d) \/ Restart(d) \/ Finish(d)
    PROVE  LWW!Tear(d) \/ UNCHANGED <<Known, Made, torn>>
  <1>1. UNCHANGED <<shadow, made>>
        BY ExchangingFacts, RestartFacts DEF Finish, Save, bounds
  <1>2. torn' = torn \/ torn' = torn \cup {d} \/ torn' = torn \ {d}
        BY ExchangingFacts, RestartFacts DEF Loaded, Finish, Save
  <1>3. UNCHANGED <<Known, Made>>
        BY <1>1 DEF Known, Made
  <1>. QED BY <1>2, <1>3 DEF LWW!Tear

LEMMA StepImplements ==
    IInv /\ IInv' /\ [Next]_vars => [LWW!Next]_<<Known, Made, torn>>
  <1>. SUFFICES ASSUME IInv, IInv', [Next]_vars
                PROVE  [LWW!Next]_<<Known, Made, torn>>
       OBVIOUS
  <1>1. ASSUME NEW d \in Device, NEW i \in Item, NEW alive \in BOOLEAN, Change(d, i, alive)
        PROVE  LWW!Next
    <2>1. clock \in 1 .. MaxClock /\ {i} \in SUBSET Item
          BY DEF IInv, TypeInv
    <2>. QED BY <1>1, <2>1, EditImplements DEF LWW!Next
  <1>2. ASSUME NEW d \in Device, SaveEnds(d)
        PROVE  LWW!Next
        BY <1>2, SaveEndsImplements DEF LWW!Next
  <1>3. ASSUME NEW d \in Device, Exchanging(d) \/ Restart(d) \/ Finish(d)
        PROVE  LWW!Next \/ UNCHANGED <<Known, Made, torn>>
        BY <1>3, OtherImplements DEF LWW!Next
  <1>4. CASE Tick
        BY <1>4 DEF Tick, copies, Known, Made
  <1>5. CASE UNCHANGED vars
        BY <1>5 DEF vars, copies, bounds, Known, Made
  <1>. QED BY <1>1, <1>2, <1>3, <1>4, <1>5 DEF Next, Exchanging

\* The devices together behave as a last-writer-wins store: a device's own
\* copy only learns changes somebody made, and never goes back, unless the
\* device is torn. (syncService.ts:176-232, connectionManager.ts:281-425)
THEOREM ConvergingCorrect == Spec => Converging
  <1>1. Init => LWW!Init
    <2>1. ASSUME Init PROVE Made = [i \in Item |-> {0}]
          BY <2>1 DEF Init, Made
    <2>. QED BY <2>1 DEF Init, LWW!Init, Known, Nothing
  <1>2. Spec => []IInv
        BY Invariance
  <1>. QED BY <1>1, <1>2, StepImplements, PTL DEF Spec, Converging, LWW!Spec
=============================================================================
