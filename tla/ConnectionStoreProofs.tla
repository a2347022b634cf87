----------------------- MODULE ConnectionStoreProofs -----------------------
(* What ConnectionStore promises, for any number of items and calls: of an  *)
(* edit that has returned, that it is on the disk of this device, unless a  *)
(* load read the copies while the edit was under way; of the lock, that it  *)
(* has one holder at a time, which can get on, and that it is passed on.    *)
EXTENDS ConnectionStore, TLAPS

Kind == Changes \cup {"load", "save", "restore", None}
Pc == {"idle", "secrets", "queued", "loaded", "restoring", "bundle", "write", "drop", "done",
       "failed"}
Secrets == [Item -> Stamp]
OpRec == [kind : Kind, pc : Pc, item : Item \cup {None}, at : Stamp, ver : Nat,
          cand : Copy \cup Secrets \cup {None},
          from : {"merge", "remote", "local", "fresh", "backup", None},
          crossed : BOOLEAN, stale : BOOLEAN]

\* What the record of a call holds at each of its steps.
Formed(d) ==
    /\ d \in OpRec
    /\ d.pc = "idle" => d.kind = None
    /\ d.pc \in {"idle", "queued"} => d.from = None
    /\ d.pc = "queued" => d.kind \in {"load", "save", "restore"}
    /\ d.pc = "queued" /\ d.kind = "restore" => backup # None
    /\ d.pc \in {"loaded", "restoring"} => d.cand \in Copy /\ d.kind \in {"load", "restore"}
    /\ d.pc = "loaded" => d.kind = "load" /\ d.ver <= version
    /\ d.pc = "write" => d.cand \in Secrets
    /\ d.kind \in Changes =>
          d.item \in Item /\ d.pc \notin {"idle", "queued", "loaded", "restoring"}
    /\ d.pc \in {"secrets", "drop"} => d.kind \in Changes
    /\ d.at <= clock

\* Without Settings Sync the two copies are one.
StoreTypes ==
    /\ mem \in Value /\ version \in Nat /\ clock \in Stamp
    /\ secret \in Secrets
    /\ {shadow, synced, backup, pending} \subseteq Copy \cup {None}
    /\ synced = None <=> shadow = None
    /\ synced # None => backup # None
    /\ ~Syncing => synced = shadow

OpsFormed == op \in [Call -> OpRec] /\ \A c \in Call : Formed(op[c])

\* A load that is under way has the lock, and pending is its own.
LockInv ==
    /\ queue \in Seq(Call)
    /\ \A c \in Call : op[c].pc \in {"loaded", "restoring"} =>
          queue # <<>> /\ Head(queue) = c
    /\ pending # None => \E c \in Call : op[c].pc \in {"loaded", "restoring"}

\* An edit that is to be kept.
Counted(d) == d.kind \in Changes /\ d.pc # "failed" /\ ~d.crossed

\* It is in the memory from the beginning, ...
InMemory == \A c \in Call : Counted(op[c]) => mem[op[c].item].at >= op[c].at

\* ... on the disk at the end, ...
OnDisk ==
    \A c \in Call : Counted(op[c]) /\ op[c].pc = "done" =>
        shadow # None /\ shadow.val[op[c].item].at >= op[c].at

\* ... in what a load is to apply, ...
InLoad ==
    \A l \in Call : op[l].pc = "loaded" /\ version = op[l].ver =>
        \A c \in Call : Counted(op[c]) =>
            op[c].pc = "done" /\ op[l].cand.val[op[c].item].at >= op[c].at

\* ... and the store it began with stays the memory.
NotStale == \A c \in Call : Counted(op[c]) /\ op[c].pc # "done" => ~op[c].stale

Excused == Authoritative \/ Forgotten

Kept == InMemory /\ OnDisk /\ InLoad /\ NotStale

IInv == StoreTypes /\ OpsFormed /\ LockInv /\ (~Excused => Kept)

USE ClockAssumption, NoneAssumption

-----------------------------------------------------------------------------
LEMMA InitInv == Init => IInv
<1> SUFFICES ASSUME Init PROVE IInv
  OBVIOUS
<1>1. Nothing \in Value /\ NoSecret \in Secrets /\ Saved \in Copy /\ Saved.val \in Value
  BY DEF Nothing, NoSecret, Saved, Value, Secrets, Copy, Stamp
<1>2. StoreTypes
  BY <1>1 DEF Init, StoreTypes, Stamp
<1>3. IdleOp \in OpRec
  BY DEF IdleOp, OpRec, Kind, Pc, Stamp
<1>4. op = [c \in Call |-> IdleOp]
  BY DEF Init
<1>5. OpsFormed
  <2>1. Formed(IdleOp)
    BY <1>3 DEF Init, Formed, IdleOp, Changes
  <2>2. QED
    BY <1>3, <1>4, <2>1 DEF OpsFormed
<1>6. LockInv
  BY <1>4 DEF Init, LockInv, IdleOp
<1>7. \A c \in Call : ~Counted(op[c])
  BY <1>4 DEF IdleOp, Counted, Changes
<1>8. Kept
  BY <1>4, <1>7 DEF Kept, InMemory, OnDisk, InLoad, NotStale, IdleOp
<1>9. QED
  BY <1>2, <1>5, <1>6, <1>8 DEF IInv

-----------------------------------------------------------------------------
(* Steps in which one call moves *)

\* What the invariant says of the others does not change.
LEMMA OthersFormed ==
    ASSUME OpsFormed, NEW c \in Call, NEW d, op' = [op EXCEPT ![c] = d],
           Formed(d)', version' \in Nat, version' >= version, version \in Nat,
           backup # None => backup' # None,
           clock \in Nat, clock' \in Nat, clock' >= clock
    PROVE  /\ OpsFormed'
           /\ op'[c] = d
           /\ \A e \in Call \ {c} : op'[e] = op[e]
<1>1. d \in OpRec
  BY DEF Formed
<1>2. /\ op' \in [Call -> OpRec]
      /\ op'[c] = d
      /\ \A e \in Call \ {c} : op'[e] = op[e]
  BY <1>1 DEF OpsFormed
<1>3. ASSUME NEW e \in Call \ {c} PROVE Formed(op[e])'
  <2>1. Formed(op[e]) /\ op'[e] = op[e]
    BY <1>2 DEF OpsFormed
  <2>2. op[e].ver \in Nat /\ op[e].at \in Nat
    BY <2>1 DEF Formed, OpRec, Stamp
  <2>3. QED
    BY <2>1, <2>2 DEF Formed
<1>4. \A e \in Call : Formed(op[e])'
  BY <1>2, <1>3
<1>5. QED
  BY <1>2, <1>4 DEF OpsFormed

\* An excuse is not taken back.
LEMMA ExcusedStays ==
    ASSUME OpsFormed, NEW c \in Call, NEW d,
           op'[c] = d,
           \A e \in Call \ {c} : /\ op'[e].kind = op[e].kind /\ op'[e].pc = op[e].pc
                                 /\ op'[e].from = op[e].from,
           op[c].kind = "restore" => d.kind = "restore" /\ (op[c].pc # "queued" => d.pc # "queued"),
           op[c].from = "fresh" => d.from = "fresh"
    PROVE  Excused => Excused'
BY DEF Excused, Authoritative, Forgotten

\* A step that touches neither memory nor local copy, and in which no edit is
\* made, and none returns, changes nothing for the edits.
LEMMA AsideKeeps ==
    ASSUME OpsFormed, ~Excused => Kept, Excused => Excused', NEW c \in Call, NEW d,
           UNCHANGED <<mem, shadow, version>>,
           op'[c] = d, \A e \in Call \ {c} : op'[e] = op[e],
           Counted(d) => /\ Counted(op[c]) /\ d.item = op[c].item /\ d.at = op[c].at
                         /\ d.pc = "done" <=> op[c].pc = "done"
                         /\ d.stale = op[c].stale,
           d.pc # "loaded"
    PROVE  ~Excused' => Kept'
<1> SUFFICES ASSUME ~Excused' PROVE Kept'
  OBVIOUS
<1>1. InMemory /\ OnDisk /\ InLoad /\ NotStale
  BY DEF Kept
<1>2. InMemory'
  BY <1>1 DEF InMemory
<1>3. OnDisk'
  BY <1>1 DEF OnDisk
<1>4. InLoad'
  BY <1>1 DEF InLoad
<1>5. NotStale'
  BY <1>1 DEF NotStale
<1>6. QED
  BY <1>2, <1>3, <1>4, <1>5 DEF Kept

Loading == {"loaded", "restoring"}

\* A step of a call that is not loading, before or after.
LEMMA LockKeeps ==
    ASSUME LockInv, NEW c \in Call, NEW d,
           op'[c] = d, \A e \in Call \ {c} : op'[e] = op[e],
           op[c].pc \notin Loading, d.pc \notin Loading, pending' = pending,
           queue' = queue \/ queue' = Append(queue, c) \/ Release(c)
    PROVE  LockInv'
<1>1. queue' \in Seq(Call)
  BY DEF LockInv, Release
<1>2. ASSUME NEW e \in Call, op'[e].pc \in Loading
      PROVE  queue' # <<>> /\ Head(queue') = e
  <2>1. e # c /\ queue # <<>> /\ Head(queue) = e
    BY <1>2 DEF LockInv, Loading
  <2>2. CASE queue' = queue
    BY <2>1, <2>2
  <2>3. CASE queue' = Append(queue, c)
    BY <2>1, <2>3 DEF LockInv
  <2>4. CASE Release(c)
    BY <2>1, <2>4 DEF Release
  <2>5. QED
    BY <2>2, <2>3, <2>4
<1>3. ASSUME pending' # None PROVE \E e \in Call : op'[e].pc \in Loading
  BY <1>3 DEF LockInv, Loading
<1>4. QED
  BY <1>1, <1>2, <1>3 DEF LockInv, Loading

\* A step of the call that holds the lock.
LEMMA HolderKeeps ==
    ASSUME LockInv, NEW c \in Call, NEW d,
           op'[c] = d, \A e \in Call \ {c} : op'[e].pc = op[e].pc,
           Turn(c) \/ op[c].pc \in Loading,
           \/ d.pc \in Loading /\ queue' = queue
           \/ d.pc \notin Loading /\ pending' = None /\ (queue' = queue \/ Release(c))
    PROVE  LockInv'
<1>1. queue \in Seq(Call) /\ queue # <<>> /\ Head(queue) = c
  BY DEF LockInv, Turn, Loading
<1>2. \A e \in Call \ {c} : op'[e].pc \notin Loading
  BY <1>1 DEF LockInv, Loading
<1>3. queue' \in Seq(Call)
  BY <1>1 DEF Release
<1>4. QED
  BY <1>1, <1>2, <1>3 DEF LockInv, Loading

-----------------------------------------------------------------------------
(* The steps of an edit *)

LEMMA ChangeStep ==
    ASSUME IInv, NEW c \in Call, NEW i \in Item, Edit(c, i) \/ Delete(c, i)
    PROVE  IInv'
<1>1. /\ op[c].pc = "idle" /\ clock' = clock + 1 /\ clock' \in Stamp /\ version' = version + 1
      /\ UNCHANGED <<pending, disk, secret, queue>>
      /\ op \in [Call -> OpRec] /\ version \in Nat /\ clock \in Stamp /\ mem \in Value
  BY DEF Edit, Delete, IInv, StoreTypes, OpsFormed, Stamp
<1>2. version' \in Nat /\ version' > version /\ version \in Nat /\ backup' = backup
      /\ version' >= version /\ clock \in Nat /\ clock' \in Nat /\ clock' >= clock
  BY <1>1 DEF disk, Stamp
<1>3. PICK alive \in BOOLEAN : mem' = [mem EXCEPT ![i] = [at |-> clock', alive |-> alive]]
  BY DEF Edit, Delete
<1>4. PICK kind, pc, d :
        /\ kind \in {"edit", "delete"} /\ pc \in {"secrets", "bundle"}
        /\ d = [IdleOp EXCEPT !.kind = kind, !.pc = pc, !.item = i, !.at = clock']
        /\ op' = [op EXCEPT ![c] = d]
  BY DEF Edit, Delete
<1>5. /\ d.kind \in Changes /\ d.pc \in {"secrets", "bundle"} /\ d.item = i /\ d.at = clock' /\ d.from = None
      /\ d.stale = FALSE /\ d \in OpRec
  BY <1>1, <1>4 DEF IdleOp, OpRec, Kind, Pc, Changes
<1>6. Formed(d)'
  BY <1>1, <1>5 DEF Formed
<1>7. OpsFormed' /\ op'[c] = d /\ \A e \in Call \ {c} : op'[e] = op[e]
  BY <1>2, <1>4, <1>6, OthersFormed DEF IInv
<1>8. Formed(op[c])
  BY DEF IInv, OpsFormed
<1>9. Excused => Excused'
  BY <1>1, <1>5, <1>7, <1>8, ExcusedStays DEF IInv, Formed
<1>10. StoreTypes'
  <2>1. mem' \in Value
    BY <1>1, <1>3 DEF Value
  <2>2. QED
    BY <1>1, <2>1 DEF IInv, StoreTypes, disk
<1>11. LockInv'
  BY <1>1, <1>5, <1>7, LockKeeps DEF IInv, Loading
<1>12. ASSUME ~Excused' PROVE Kept'
  <2>1. Kept
    BY <1>9, <1>12 DEF IInv
  <2>2. ASSUME NEW e \in Call, Counted(op[e])
        PROVE  op[e].at \in Stamp /\ op[e].item \in Item /\ op[e].at < clock'
    <3>1. Formed(op[e]) /\ op[e].kind \in Changes
      BY <2>2 DEF IInv, OpsFormed, Counted
    <3>2. op[e].at \in Stamp /\ op[e].item \in Item
      BY <3>1 DEF Formed, OpRec
    <3>3. op[e].at <= clock
      BY <3>1 DEF Formed
    <3>4. QED
      BY <1>1, <3>2, <3>3 DEF Stamp
  <2>3. \A j \in Item : mem'[j] = IF j = i THEN [at |-> clock', alive |-> alive] ELSE mem[j]
    BY <1>1, <1>3 DEF Value
  <2>4. InMemory'
    <3> SUFFICES ASSUME NEW e \in Call, Counted(op'[e])
                 PROVE  mem'[op'[e].item].at >= op'[e].at
      BY DEF InMemory, Counted
    <3>1. CASE e = c
      BY <1>1, <1>5, <1>7, <2>3, <3>1 DEF Stamp
    <3>2. CASE e # c
      <4>1. op'[e] = op[e] /\ mem[op[e].item].at >= op[e].at
        BY <1>7, <2>1, <3>2 DEF Kept, InMemory
      <4>2. op[e].at \in Stamp /\ op[e].item \in Item /\ op[e].at < clock'
        BY <2>2, <4>1
      <4>3. QED
        BY <1>1, <2>3, <4>1, <4>2 DEF Stamp
    <3>3. QED
      BY <3>1, <3>2
  <2>5. OnDisk'
    BY <1>1, <1>5, <1>7, <2>1 DEF Kept, OnDisk, Counted, disk
  <2>6. InLoad'
    <3> SUFFICES ASSUME NEW l \in Call, op'[l].pc = "loaded", version' = op'[l].ver PROVE FALSE
      BY DEF InLoad
    <3>1. l # c /\ op'[l] = op[l]
      BY <1>5, <1>7
    <3>2. op[l].ver <= version /\ op[l].ver \in Nat
      BY <3>1 DEF IInv, OpsFormed, Formed, OpRec
    <3>3. QED
      BY <1>2, <3>1, <3>2
  <2>7. NotStale'
    BY <1>5, <1>7, <2>1 DEF Kept, NotStale, Counted
  <2>8. QED
    BY <2>4, <2>5, <2>6, <2>7 DEF Kept
<1>13. QED
  BY <1>7, <1>10, <1>11, <1>12 DEF IInv

\* The folder is still to go: of the edit itself nothing holds yet.
LEMMA DeleteFolderStep ==
    ASSUME IInv, NEW c \in Call, NEW i \in Item, DeleteFolder(c, i)
    PROVE  IInv'
<1>1. /\ op[c].pc = "idle" /\ version' = version + 1
      /\ UNCHANGED <<mem, pending, disk, secret, queue, clock>>
      /\ op \in [Call -> OpRec] /\ version \in Nat /\ mem \in Value /\ clock \in Stamp
  BY DEF DeleteFolder, IInv, StoreTypes, OpsFormed
<1>2. version' \in Nat /\ version' > version /\ version \in Nat /\ backup' = backup
      /\ version' >= version /\ clock \in Nat /\ clock' \in Nat /\ clock' >= clock
  BY <1>1 DEF disk, Stamp
<1>3. PICK d : /\ d = [IdleOp EXCEPT !.kind = "purge", !.pc = "bundle", !.item = i]
               /\ op' = [op EXCEPT ![c] = d]
  BY DEF DeleteFolder
<1>4. /\ d.kind \in Changes /\ d.pc = "bundle" /\ d.item = i /\ d.at = 0 /\ d.from = None
      /\ d.stale = FALSE /\ d \in OpRec
  <2>1. 0 \in Stamp
    BY DEF Stamp
  <2>2. QED
    BY <1>3, <2>1 DEF IdleOp, OpRec, Kind, Pc, Changes
<1>5. Formed(d)'
  BY <1>1, <1>2, <1>4 DEF Formed
<1>6. OpsFormed' /\ op'[c] = d /\ \A e \in Call \ {c} : op'[e] = op[e]
  BY <1>2, <1>3, <1>5, OthersFormed DEF IInv
<1>7. Formed(op[c])
  BY DEF IInv, OpsFormed
<1>8. Excused => Excused'
  BY <1>1, <1>4, <1>6, <1>7, ExcusedStays DEF IInv, Formed
<1>9. StoreTypes'
  BY <1>1 DEF IInv, StoreTypes, disk
<1>10. LockInv'
  BY <1>1, <1>4, <1>6, LockKeeps DEF IInv, Loading
<1>11. ASSUME ~Excused' PROVE Kept'
  <2>1. Kept
    BY <1>8, <1>11 DEF IInv
  <2>2. InMemory'
    <3>1. mem[i].at >= 0
      BY <1>1 DEF Value, Stamp
    <3>2. QED
      BY <1>1, <1>4, <1>6, <2>1, <3>1 DEF Kept, InMemory, Counted
  <2>3. OnDisk'
    BY <1>1, <1>4, <1>6, <2>1 DEF Kept, OnDisk, Counted, disk
  <2>4. InLoad'
    <3> SUFFICES ASSUME NEW l \in Call, op'[l].pc = "loaded", version' = op'[l].ver PROVE FALSE
      BY DEF InLoad
    <3>1. l # c /\ op'[l] = op[l]
      BY <1>4, <1>6
    <3>2. op[l].ver <= version /\ op[l].ver \in Nat
      BY <3>1 DEF IInv, OpsFormed, Formed, OpRec
    <3>3. QED
      BY <1>2, <3>1, <3>2
  <2>5. NotStale'
    BY <1>4, <1>6, <2>1 DEF Kept, NotStale, Counted
  <2>6. QED
    BY <2>2, <2>3, <2>4, <2>5 DEF Kept
<1>12. QED
  BY <1>6, <1>9, <1>10, <1>11 DEF IInv

\* The folder goes, from the store the call began with.
LEMMA DropFolderStep ==
    ASSUME IInv, NEW c \in Call, DropFolder(c)
    PROVE  IInv'
<1>1. /\ op[c].pc = "drop" /\ clock' = clock + 1 /\ clock' \in Stamp /\ clock \in Stamp
      /\ UNCHANGED <<version, pending, disk, secret, queue>>
      /\ op \in [Call -> OpRec] /\ version \in Nat /\ mem \in Value /\ Formed(op[c])
      /\ op[c].kind \in Changes /\ op[c].item \in Item
  BY DEF DropFolder, IInv, StoreTypes, OpsFormed, Stamp, Formed
<1>2. version' \in Nat /\ version' >= version /\ version \in Nat /\ backup' = backup
      /\ clock \in Nat /\ clock' \in Nat /\ clock' >= clock
  BY <1>1 DEF disk, Stamp
<1>3. PICK d : /\ d = [op[c] EXCEPT !.pc = "bundle", !.at = clock', !.stale = FALSE]
               /\ op' = [op EXCEPT ![c] = d]
  BY DEF DropFolder
<1>4. /\ d.kind = op[c].kind /\ d.pc = "bundle" /\ d.item = op[c].item /\ d.at = clock'
      /\ d.from = op[c].from /\ d.crossed = op[c].crossed /\ d.stale = FALSE /\ d \in OpRec
  BY <1>1, <1>3 DEF OpRec, Pc
<1>5. Formed(d)'
  BY <1>1, <1>2, <1>4 DEF Formed
<1>6. OpsFormed' /\ op'[c] = d /\ \A e \in Call \ {c} : op'[e] = op[e]
  BY <1>2, <1>3, <1>5, OthersFormed DEF IInv
<1>7. Excused => Excused'
  BY <1>1, <1>4, <1>6, ExcusedStays DEF IInv
<1>8. \A j \in Item :
        mem'[j] = IF ~op[c].stale /\ j = op[c].item THEN [at |-> clock', alive |-> FALSE]
                  ELSE mem[j]
  BY <1>1 DEF DropFolder, Value
<1>9. StoreTypes'
  <2>1. mem' \in Value
    BY <1>1 DEF DropFolder, Value
  <2>2. QED
    BY <1>1, <2>1 DEF IInv, StoreTypes, disk
<1>10. LockInv'
  BY <1>1, <1>4, <1>6, LockKeeps DEF IInv, Loading
<1>11. ASSUME ~Excused' PROVE Kept'
  <2>1. Kept
    BY <1>7, <1>11 DEF IInv
  <2>2. InMemory'
    <3> SUFFICES ASSUME NEW e \in Call, Counted(op'[e])
                 PROVE  mem'[op'[e].item].at >= op'[e].at
      BY DEF InMemory, Counted
    <3>1. CASE e = c
      <4>1. ~op[c].stale
        BY <1>1, <1>4, <1>6, <2>1, <3>1 DEF Kept, NotStale, Counted
      <4>2. QED
        BY <1>1, <1>2, <1>4, <1>6, <1>8, <3>1, <4>1
    <3>2. CASE e # c
      <4>1. op'[e] = op[e] /\ mem[op[e].item].at >= op[e].at
        BY <1>6, <2>1, <3>2 DEF Kept, InMemory
      <4>2. op[e].at \in Nat /\ op[e].item \in Item /\ op[e].at <= clock
        BY <4>1 DEF IInv, OpsFormed, Formed, OpRec, Counted, Stamp
      <4>3. QED
        BY <1>2, <1>8, <4>1, <4>2
    <3>3. QED
      BY <3>1, <3>2
  <2>3. OnDisk'
    BY <1>1, <1>4, <1>6, <2>1 DEF Kept, OnDisk, Counted, disk
  <2>4. InLoad'
    BY <1>1, <1>4, <1>6, <2>1 DEF Kept, InLoad, Counted
  <2>5. NotStale'
    BY <1>4, <1>6, <2>1 DEF Kept, NotStale, Counted
  <2>6. QED
    BY <2>2, <2>3, <2>4, <2>5 DEF Kept
<1>12. QED
  BY <1>6, <1>9, <1>10, <1>11 DEF IInv

\* Steps beside the memory and the local copy.
LEMMA AsideStep ==
    ASSUME IInv, NEW c \in Call, NEW d, op' = [op EXCEPT ![c] = d], Formed(d)',
           UNCHANGED <<mem, shadow, version, clock>>, backup # None => backup' # None,
           d.kind # op[c].kind => op[c].pc = "idle" /\ d.kind \notin Changes,
           d.pc = "queued" => op[c].pc = "idle",
           d.pc # "loaded", d.from = op[c].from,
           d.kind \in Changes => /\ d.pc # "done" /\ op[c].pc \notin {"done", "failed"}
                                 /\ d.item = op[c].item /\ d.at = op[c].at
                                 /\ d.crossed = op[c].crossed /\ d.stale = op[c].stale
    PROVE  /\ OpsFormed' /\ (~Excused' => Kept')
           /\ op'[c] = d /\ \A e \in Call \ {c} : op'[e] = op[e]
<1>1. /\ version \in Nat /\ clock \in Nat /\ Formed(op[c]) /\ op \in [Call -> OpRec]
      /\ version' = version /\ clock' = clock /\ OpsFormed
  BY DEF IInv, StoreTypes, OpsFormed, Stamp
<1>2. OpsFormed' /\ op'[c] = d /\ \A e \in Call \ {c} : op'[e] = op[e]
  <2>1. version' \in Nat /\ version' >= version /\ clock' \in Nat /\ clock' >= clock
    BY <1>1
  <2>2. QED
    BY <1>1, <2>1, OthersFormed
<1>3. Excused => Excused'
  <2>1. op[c].kind = "restore" => d.kind = "restore" /\ (op[c].pc # "queued" => d.pc # "queued")
    BY <1>1 DEF Formed
  <2>2. QED
    BY <1>1, <1>2, <2>1, ExcusedStays
<1>4. Counted(d) => /\ Counted(op[c]) /\ d.item = op[c].item /\ d.at = op[c].at
                    /\ d.pc = "done" <=> op[c].pc = "done"
                    /\ d.stale = op[c].stale
  BY <1>1 DEF Counted, Formed
<1>5. ~Excused' => Kept'
  <2>1. OpsFormed /\ (~Excused => Kept) /\ UNCHANGED <<mem, shadow, version>>
    BY DEF IInv
  <2>2. QED
    BY <1>2, <1>3, <1>4, <2>1, AsideKeeps
<1>6. QED
  BY <1>2, <1>5

\* What most steps leave of the store.
LEMMA SameStore ==
    ASSUME StoreTypes, UNCHANGED <<mem, version, disk, clock>>,
           pending' \in {pending, None}, secret' \in Secrets
    PROVE  StoreTypes'
BY DEF StoreTypes, disk

LEMMA StoreSecretsStep ==
    ASSUME IInv, NEW c \in Call, StoreSecrets(c)
    PROVE  IInv'
<1>1. /\ op[c].pc = "secrets" /\ op \in [Call -> OpRec] /\ Formed(op[c]) /\ secret \in Secrets
      /\ UNCHANGED <<mem, version, pending, disk, locked, queue, clock>>
      /\ version' = version /\ clock' = clock /\ backup' = backup /\ shadow' = shadow
  BY DEF StoreSecrets, IInv, StoreTypes, OpsFormed, disk
<1>2. PICK d : d = [op[c] EXCEPT !.pc = "bundle"] /\ op' = [op EXCEPT ![c] = d]
  BY DEF StoreSecrets
<1>3. /\ d.kind = op[c].kind /\ d.pc = "bundle" /\ d.item = op[c].item /\ d.at = op[c].at
      /\ d.from = op[c].from /\ d.crossed = op[c].crossed /\ d.stale = op[c].stale
      /\ d \in OpRec /\ op[c].kind \in Changes
  BY <1>1, <1>2 DEF OpRec, Pc, Formed
<1>4. Formed(d)'
  BY <1>1, <1>3 DEF Formed
<1>5. /\ OpsFormed' /\ (~Excused' => Kept')
      /\ op'[c] = d /\ \A e \in Call \ {c} : op'[e] = op[e]
  BY <1>1, <1>2, <1>3, <1>4, AsideStep
<1>6. secret' \in Secrets
  <2>1. op[c].at \in Stamp /\ 0 \in Stamp
    BY <1>1 DEF OpRec, Stamp
  <2>2. QED
    BY <1>1, <2>1 DEF StoreSecrets, Secrets
<1>7. StoreTypes'
  BY <1>1, <1>6, SameStore DEF IInv
<1>8. LockInv'
  BY <1>1, <1>3, <1>5, LockKeeps DEF IInv, Loading
<1>9. QED
  BY <1>5, <1>7, <1>8 DEF IInv

LEMMA BundleStep ==
    ASSUME IInv, NEW c \in Call, Bundle(c)
    PROVE  IInv'
<1>1. /\ op[c].pc = "bundle" /\ op \in [Call -> OpRec] /\ Formed(op[c]) /\ secret \in Secrets
      /\ UNCHANGED <<mem, version, pending, disk, secret, locked, queue, clock>>
      /\ version' = version /\ clock' = clock /\ backup' = backup /\ shadow' = shadow
  BY DEF Bundle, IInv, StoreTypes, OpsFormed, disk
<1>2. PICK cand : /\ cand = [i \in Item |-> IF mem[i].alive /\ ~locked THEN secret[i] ELSE 0]
                  /\ op' = [op EXCEPT ![c].pc = "write", ![c].cand = cand]
  BY DEF Bundle
<1>3. cand \in Secrets
  BY <1>1, <1>2 DEF Secrets, Stamp
<1>4. PICK d : d = [op[c] EXCEPT !.pc = "write", !.cand = cand] /\ op' = [op EXCEPT ![c] = d]
  BY <1>2
<1>5. /\ d.kind = op[c].kind /\ d.pc = "write" /\ d.item = op[c].item /\ d.at = op[c].at
      /\ d.from = op[c].from /\ d.crossed = op[c].crossed /\ d.stale = op[c].stale
      /\ d.cand = cand /\ d \in OpRec
  BY <1>1, <1>3, <1>4 DEF OpRec, Pc
<1>6. Formed(d)'
  BY <1>1, <1>3, <1>5 DEF Formed
<1>7. /\ OpsFormed' /\ (~Excused' => Kept')
      /\ op'[c] = d /\ \A e \in Call \ {c} : op'[e] = op[e]
  BY <1>1, <1>4, <1>5, <1>6, AsideStep
<1>8. StoreTypes'
  BY <1>1, SameStore DEF IInv
<1>9. LockInv'
  BY <1>1, <1>5, <1>7, LockKeeps DEF IInv, Loading
<1>10. QED
  BY <1>7, <1>8, <1>9 DEF IInv

-----------------------------------------------------------------------------
(* The lock, and the steps of those that wait for it or hold it *)

LEMMA EnqueueStep ==
    ASSUME IInv, NEW c \in Call, NEW kind \in {"load", "save", "restore"}, Enqueue(c, kind)
    PROVE  IInv'
<1>1. /\ op[c].pc = "idle" /\ op \in [Call -> OpRec] /\ Formed(op[c]) /\ clock \in Stamp
      /\ UNCHANGED <<mem, version, pending, disk, secret, locked, clock>>
      /\ version' = version /\ clock' = clock /\ backup' = backup /\ shadow' = shadow
      /\ kind = "restore" => backup # None
      /\ queue' = Append(queue, c) /\ secret \in Secrets
  BY DEF Enqueue, IInv, StoreTypes, OpsFormed, disk
<1>2. PICK d : d = [IdleOp EXCEPT !.kind = kind, !.pc = "queued"] /\ op' = [op EXCEPT ![c] = d]
  BY DEF Enqueue
<1>3. /\ d.kind = kind /\ d.pc = "queued" /\ d.from = None /\ d.at = 0
      /\ d \in OpRec /\ d.kind \notin Changes /\ op[c].from = None
  <2>1. op[c].from = None
    BY <1>1 DEF Formed
  <2>2. 0 \in Stamp
    BY DEF Stamp
  <2>3. QED
    BY <1>2, <2>1, <2>2 DEF IdleOp, OpRec, Kind, Pc, Changes
<1>4. Formed(d)'
  BY <1>1, <1>3 DEF Formed, Stamp
<1>5. /\ OpsFormed' /\ (~Excused' => Kept')
      /\ op'[c] = d /\ \A e \in Call \ {c} : op'[e] = op[e]
  BY <1>1, <1>2, <1>3, <1>4, AsideStep
<1>6. StoreTypes'
  BY <1>1, SameStore DEF IInv
<1>7. LockInv'
  BY <1>1, <1>3, <1>5, LockKeeps DEF IInv, Loading
<1>8. QED
  BY <1>5, <1>6, <1>7 DEF IInv

LEMMA StartSaveStep ==
    ASSUME IInv, NEW c \in Call, StartSave(c)
    PROVE  IInv'
<1>1. /\ op[c].pc = "queued" /\ op[c].kind = "save" /\ op \in [Call -> OpRec]
      /\ Formed(op[c]) /\ secret \in Secrets
      /\ UNCHANGED <<mem, version, pending, disk, secret, locked, queue, clock>>
      /\ version' = version /\ clock' = clock /\ backup' = backup /\ shadow' = shadow
  BY DEF StartSave, Turn, IInv, StoreTypes, OpsFormed, disk
<1>2. PICK d : d = [op[c] EXCEPT !.pc = "bundle"] /\ op' = [op EXCEPT ![c] = d]
  BY DEF StartSave
<1>3. /\ d.kind = "save" /\ d.pc = "bundle" /\ d.from = op[c].from /\ d.at = op[c].at
      /\ d \in OpRec /\ d.kind \notin Changes
  BY <1>1, <1>2 DEF OpRec, Pc, Changes
<1>4. Formed(d)'
  BY <1>1, <1>3 DEF Formed
<1>5. /\ OpsFormed' /\ (~Excused' => Kept')
      /\ op'[c] = d /\ \A e \in Call \ {c} : op'[e] = op[e]
  BY <1>1, <1>2, <1>3, <1>4, AsideStep
<1>6. StoreTypes'
  BY <1>1, SameStore DEF IInv
<1>7. LockInv'
  BY <1>1, <1>3, <1>5, LockKeeps DEF IInv, Loading
<1>8. QED
  BY <1>5, <1>6, <1>7 DEF IInv

\* A save that throws: the edit has not returned.
LEMMA WriteFailsStep ==
    ASSUME IInv, NEW c \in Call, Write(c), locked
    PROVE  IInv'
<1>1. /\ op[c].pc = "write" /\ op \in [Call -> OpRec] /\ Formed(op[c]) /\ secret \in Secrets
      /\ UNCHANGED <<mem, version, pending, disk, secret, locked, clock>>
      /\ version' = version /\ clock' = clock /\ backup' = backup /\ shadow' = shadow
      /\ Release(c)
  BY DEF Write, IInv, StoreTypes, OpsFormed, disk
<1>2. PICK d : /\ d = [op[c] EXCEPT !.pc = "failed", !.cand = None, !.ver = 0]
               /\ op' = [op EXCEPT ![c] = d]
  BY DEF Write, Ended
<1>3. /\ d.kind = op[c].kind /\ d.pc = "failed" /\ d.item = op[c].item /\ d.at = op[c].at
      /\ d.from = op[c].from /\ d.crossed = op[c].crossed /\ d.stale = op[c].stale
      /\ d \in OpRec
  BY <1>1, <1>2 DEF OpRec, Pc
<1>4. Formed(d)'
  BY <1>1, <1>3 DEF Formed
<1>5. /\ OpsFormed' /\ (~Excused' => Kept')
      /\ op'[c] = d /\ \A e \in Call \ {c} : op'[e] = op[e]
  BY <1>1, <1>2, <1>3, <1>4, AsideStep
<1>6. StoreTypes'
  BY <1>1, SameStore DEF IInv
<1>7. LockInv'
  BY <1>1, <1>3, <1>5, LockKeeps DEF IInv, Loading
<1>8. QED
  BY <1>5, <1>6, <1>7 DEF IInv

\* The passwords a load or a restoration brings are no part of the store.
LEMMA RestoreSecretsStep ==
    ASSUME IInv, NEW c \in Call, RestoreSecrets(c)
    PROVE  IInv'
<1>1. /\ op[c].pc = "restoring" /\ op \in [Call -> OpRec] /\ Formed(op[c])
      /\ UNCHANGED <<mem, version, disk, locked, clock>> /\ pending' = None
      /\ version' = version /\ clock' = clock /\ backup' = backup /\ shadow' = shadow
      /\ op[c].cand \in Copy /\ op[c].kind \notin Changes /\ secret \in Secrets
      /\ op[c].kind \in {"load", "restore"}
  BY DEF RestoreSecrets, IInv, StoreTypes, OpsFormed, Formed, Changes, disk
<1>2. PICK d : /\ \/ /\ d = [op[c] EXCEPT !.pc = "done", !.cand = None, !.ver = 0]
                     /\ Release(c)
                  \/ /\ d = [op[c] EXCEPT !.pc = "bundle"]
                     /\ queue' = queue
               /\ op' = [op EXCEPT ![c] = d]
  BY DEF RestoreSecrets, Ended
<1>3. /\ d.kind = op[c].kind /\ d.pc \in {"done", "bundle"} /\ d.from = op[c].from
      /\ d.at = op[c].at /\ d \in OpRec
  <2>1. CASE d = [op[c] EXCEPT !.pc = "done", !.cand = None, !.ver = 0]
    BY <1>1, <2>1 DEF OpRec, Pc
  <2>2. CASE d = [op[c] EXCEPT !.pc = "bundle"]
    BY <1>1, <2>2 DEF OpRec, Pc
  <2>3. QED
    BY <1>2, <2>1, <2>2
<1>4. Formed(d)'
  BY <1>1, <1>3 DEF Formed
<1>5. /\ OpsFormed' /\ (~Excused' => Kept')
      /\ op'[c] = d /\ \A e \in Call \ {c} : op'[e] = op[e]
  BY <1>1, <1>2, <1>3, <1>4, AsideStep
<1>6. secret' \in Secrets
  BY <1>1 DEF RestoreSecrets, Restored, Secrets, Copy
<1>7. StoreTypes'
  BY <1>1, <1>6, SameStore DEF IInv
<1>8. LockInv'
  BY <1>1, <1>2, <1>3, <1>5, HolderKeeps DEF IInv, Loading
<1>9. QED
  BY <1>5, <1>7, <1>8 DEF IInv

-----------------------------------------------------------------------------
(* A save that succeeds puts the whole memory on the disk. *)

LEMMA WriteSavesStep ==
    ASSUME IInv, NEW c \in Call, Write(c), ~locked
    PROVE  IInv'
<1>1. /\ op[c].pc = "write" /\ op \in [Call -> OpRec] /\ Formed(op[c]) /\ mem \in Value
      /\ UNCHANGED <<mem, version, pending, secret, clock>> /\ Release(c)
      /\ op[c].cand \in Secrets
      /\ synced' = [val |-> mem, secret |-> op[c].cand] /\ shadow' = synced'
      /\ backup' = IF backup = None THEN synced' ELSE backup
      /\ version \in Nat /\ clock \in Nat
  BY DEF Write, Persist, IInv, StoreTypes, OpsFormed, Formed, Stamp
<1>2. synced' \in Copy /\ synced' # None /\ backup' # None
  BY <1>1 DEF Copy, Secrets
<1>3. PICK d : /\ d = [op[c] EXCEPT !.pc = IF op[c].kind = "purge" /\ op[c].at = 0
                                           THEN "drop" ELSE "done",
                                    !.cand = None, !.ver = 0]
               /\ op' = [op EXCEPT ![c] = d]
  BY <1>1 DEF Write, Ended
<1>4. /\ d.kind = op[c].kind /\ d.item = op[c].item /\ d.at = op[c].at /\ d.from = op[c].from
      /\ d.crossed = op[c].crossed /\ d.stale = op[c].stale /\ d \in OpRec
      /\ d.pc = "done" \/ (d.pc = "drop" /\ d.kind \in Changes)
  BY <1>1, <1>3 DEF OpRec, Pc, Changes
<1>5. Formed(d)'
  BY <1>1, <1>2, <1>4 DEF Formed
<1>6. OpsFormed' /\ op'[c] = d /\ \A e \in Call \ {c} : op'[e] = op[e]
  <2>1. version' \in Nat /\ version' >= version /\ clock' \in Nat /\ clock' >= clock
    BY <1>1
  <2>2. QED
    BY <1>1, <1>2, <1>3, <1>5, <2>1, OthersFormed DEF IInv
<1>7. Excused => Excused'
  BY <1>1, <1>4, <1>6, ExcusedStays DEF IInv
<1>8. StoreTypes'
  BY <1>1, <1>2 DEF IInv, StoreTypes
<1>9. LockInv'
  BY <1>1, <1>4, <1>6, LockKeeps DEF IInv, Loading
<1>10. ASSUME ~Excused' PROVE Kept'
  <2>1. Kept
    BY <1>7, <1>10 DEF IInv
  <2>2. Counted(d) <=> Counted(op[c])
    BY <1>1, <1>4 DEF Counted
  <2>3. InMemory'
    BY <1>1, <1>4, <1>6, <2>1, <2>2 DEF Kept, InMemory
  <2>4. OnDisk'
    <3>1. shadow' # None /\ shadow'.val = mem'
      BY <1>1, <1>2
    <3>2. QED
      BY <2>3, <3>1 DEF OnDisk, InMemory
  <2>5. InLoad'
    BY <1>1, <1>4, <1>6, <2>1, <2>2 DEF Kept, InLoad
  <2>6. NotStale'
    BY <1>1, <1>4, <1>6, <2>1, <2>2 DEF Kept, NotStale
  <2>7. QED
    BY <2>3, <2>4, <2>5, <2>6 DEF Kept
<1>11. QED
  BY <1>6, <1>8, <1>9, <1>10 DEF IInv

-----------------------------------------------------------------------------
(* Steps that mark other calls *)

\* The marks are of no account for what else a record holds.
Alike(e, d) ==
    /\ e \in OpRec
    /\ e.kind = d.kind /\ e.pc = d.pc /\ e.item = d.item /\ e.at = d.at /\ e.ver = d.ver
    /\ e.cand = d.cand /\ e.from = d.from

LEMMA OthersAlike ==
    ASSUME OpsFormed, NEW c \in Call, op' \in [Call -> OpRec], Formed(op[c])',
           \A e \in Call \ {c} : Alike(op'[e], op[e]),
           version' \in Nat, version' >= version, version \in Nat,
           backup # None => backup' # None,
           clock \in Nat, clock' = clock
    PROVE  OpsFormed'
<1>1. ASSUME NEW e \in Call \ {c} PROVE Formed(op[e])'
  <2>1. Formed(op[e]) /\ Alike(op'[e], op[e])
    BY DEF OpsFormed
  <2>2. op[e].ver \in Nat /\ op[e].at \in Nat
    BY <2>1 DEF Formed, OpRec, Stamp
  <2>3. QED
    BY <2>1, <2>2 DEF Formed, Alike
<1>2. \A e \in Call : Formed(op[e])'
  BY <1>1
<1>3. QED
  BY <1>2 DEF OpsFormed

\* A folder's deletion loses the memory when it is replaced.
LEMMA ReplacedAlike ==
    ASSUME NEW calls \in [Call -> OpRec]
    PROVE  /\ Replaced(calls) \in [Call -> OpRec]
           /\ \A e \in Call : /\ Alike(Replaced(calls)[e], calls[e])
                               /\ Replaced(calls)[e].crossed = calls[e].crossed
<1>1. ASSUME NEW e \in Call
      PROVE  /\ Replaced(calls)[e] \in OpRec /\ Alike(Replaced(calls)[e], calls[e])
             /\ Replaced(calls)[e].crossed = calls[e].crossed
  <2>1. calls[e] \in OpRec
    OBVIOUS
  <2>2. PICK s \in BOOLEAN : Replaced(calls)[e] = [calls[e] EXCEPT !.stale = s]
    BY <2>1 DEF Replaced, OpRec
  <2>3. QED
    BY <2>1, <2>2 DEF OpRec, Alike
<1>2. DOMAIN Replaced(calls) = Call /\ Replaced(calls) = [e \in Call |-> Replaced(calls)[e]]
  BY DEF Replaced
<1>3. QED
  BY <1>1, <1>2

\* The backup is what the user wants: no edit has a claim any more.
LEMMA RestoreFromBackupStep ==
    ASSUME IInv, NEW c \in Call, RestoreFromBackup(c)
    PROVE  IInv'
<1>1. /\ op[c].pc = "queued" /\ Turn(c) /\ op[c].kind = "restore" /\ op \in [Call -> OpRec]
      /\ Formed(op[c]) /\ backup \in Copy /\ backup # None /\ version \in Nat /\ clock \in Nat
      /\ version' = version + 1 /\ mem' = backup.val /\ pending' = None
      /\ UNCHANGED <<disk, secret, locked, queue, clock>>
      /\ clock' = clock /\ backup' = backup /\ queue' = queue
  BY DEF RestoreFromBackup, Turn, IInv, StoreTypes, OpsFormed, Formed, Stamp, disk
<1>2. PICK d, calls :
        /\ d = [op[c] EXCEPT !.pc = "restoring", !.cand = backup, !.from = "backup"]
        /\ calls = [op EXCEPT ![c] = d] /\ op' = Replaced(calls)
  BY DEF RestoreFromBackup
<1>3. /\ d.kind = "restore" /\ d.pc = "restoring" /\ d.cand = backup /\ d.at = op[c].at
      /\ d \in OpRec
  BY <1>1, <1>2 DEF OpRec, Pc
<1>4. calls \in [Call -> OpRec] /\ calls[c] = d /\ \A e \in Call \ {c} : calls[e] = op[e]
  BY <1>1, <1>2, <1>3
<1>5. op' \in [Call -> OpRec] /\ \A e \in Call : Alike(op'[e], calls[e])
  BY <1>2, <1>4, ReplacedAlike
<1>6. Formed(op[c])'
  <2>1. Alike(op'[c], d)
    BY <1>4, <1>5
  <2>2. QED
    BY <1>1, <1>3, <2>1 DEF Formed, Alike, Changes
<1>7. OpsFormed'
  <2>1. \A e \in Call \ {c} : Alike(op'[e], op[e])
    BY <1>4, <1>5
  <2>2. version' \in Nat /\ version' >= version
    BY <1>1
  <2>3. QED
    BY <1>1, <1>5, <1>6, <2>1, <2>2, OthersAlike DEF IInv
<1>8. StoreTypes'
  BY <1>1 DEF IInv, StoreTypes, Copy, disk
<1>9. LockInv'
  <2>1. \A e \in Call \ {c} : op'[e].pc = op[e].pc
    BY <1>4, <1>5 DEF Alike
  <2>2. PICK r : r = op'[c] /\ r.pc = "restoring"
    BY <1>3, <1>4, <1>5 DEF Alike
  <2>3. QED
    BY <1>1, <2>1, <2>2, HolderKeeps DEF IInv, Loading
<1>10. Excused'
  BY <1>3, <1>4, <1>5 DEF Excused, Authoritative, Alike
<1>11. QED
  BY <1>7, <1>8, <1>9, <1>10 DEF IInv

LEMMA MergeKeepsLocal ==
    ASSUME NEW l \in Copy, NEW r \in Copy
    PROVE  /\ Merge(l, r) \in Copy
           /\ \A i \in Item : Merge(l, r).val[i].at >= l.val[i].at
<1>1. /\ l.val \in Value /\ r.val \in Value
      /\ l.secret \in [Item -> Stamp] /\ r.secret \in [Item -> Stamp]
  BY DEF Copy
<1>2. \A i \in Item : l.val[i].at \in Nat /\ r.val[i].at \in Nat
  BY <1>1 DEF Value, Stamp
<1>3. Merge(l, r).val \in Value /\ Merge(l, r).secret \in [Item -> Stamp]
  BY <1>1 DEF Merge, Value
<1>4. Merge(l, r) \in Copy
  BY <1>3 DEF Merge, Copy
<1>5. ASSUME NEW i \in Item PROVE Merge(l, r).val[i].at >= l.val[i].at
  <2>1. Merge(l, r).val[i] = IF l.val[i].at >= r.val[i].at THEN l.val[i] ELSE r.val[i]
    BY DEF Merge
  <2>2. CASE l.val[i].at >= r.val[i].at
    BY <1>2, <2>1, <2>2
  <2>3. CASE ~(l.val[i].at >= r.val[i].at)
    BY <1>2, <2>1, <2>3
  <2>4. QED
    BY <2>2, <2>3
<1>6. QED
  BY <1>4, <1>5

\* What a load reads holds every edit that has returned, unless it finds nothing.
LEMMA LoadReadStep ==
    ASSUME IInv, NEW c \in Call, LoadRead(c)
    PROVE  IInv'
<1>1. /\ op[c].pc = "queued" /\ Turn(c) /\ op[c].kind = "load" /\ op \in [Call -> OpRec]
      /\ Formed(op[c]) /\ version \in Nat /\ clock \in Nat /\ mem \in Value
      /\ queue # <<>> /\ Head(queue) = c /\ op[c].from = None
      /\ UNCHANGED <<mem, version, disk, secret, locked, queue, clock>>
      /\ clock' = clock /\ backup' = backup /\ queue' = queue /\ version' = version
      /\ shadow' = shadow /\ mem' = mem /\ StoreTypes
  BY DEF LoadRead, Turn, IInv, StoreTypes, OpsFormed, Formed, Stamp, disk
<1>2. pending = None
  BY <1>1 DEF IInv, LockInv
<1> DEFINE inMemory == IF IsEmpty(mem) THEN None ELSE [val |-> mem, secret |-> NoSecret]
           local == IF shadow # None /\ ~locked THEN shadow
                    ELSE IF pending # None THEN pending ELSE inMemory
           remote == IF locked THEN None ELSE synced
           from == IF remote # None /\ local # None /\ Syncing THEN "merge"
                   ELSE IF remote # None THEN "remote"
                   ELSE IF local # None THEN "local" ELSE "fresh"
           cand == CASE from = "merge"  -> Merge(local, remote)
                     [] from = "remote" -> remote
                     [] from = "local"  -> local
                     [] OTHER           -> [val |-> Nothing, secret |-> NoSecret]
           d == [op[c] EXCEPT !.pc = "loaded", !.ver = version, !.cand = cand, !.from = from]
<1>3. /\ pending' = local
      /\ op' = [e \in Call |-> IF e = c THEN d
                              ELSE IF InFlight(e) THEN [op[e] EXCEPT !.crossed = TRUE]
                              ELSE op[e]]
  BY DEF LoadRead
<1>4. [val |-> mem, secret |-> NoSecret] \in Copy /\ [val |-> Nothing, secret |-> NoSecret] \in Copy
  BY <1>1 DEF Copy, Nothing, NoSecret, Value, Stamp
<1> HIDE DEF cand
<1>5. /\ local \in Copy \cup {None} /\ remote \in Copy \cup {None}
      /\ from \in {"merge", "remote", "local", "fresh"}
  <2>1. {shadow, synced} \subseteq Copy \cup {None}
    BY <1>1 DEF StoreTypes
  <2>2. inMemory \in Copy \cup {None}
    BY <1>4
  <2>3. QED
    BY <1>2, <2>1, <2>2
<1> HIDE DEF local, remote, from
<1>6. cand \in Copy
  <2>1. CASE from = "merge"
    <3>1. local \in Copy /\ remote \in Copy
      BY <1>5, <2>1 DEF from
    <3>2. cand = Merge(local, remote)
      BY <2>1 DEF cand
    <3>3. QED
      BY <3>1, <3>2, MergeKeepsLocal
  <2>2. CASE from = "remote"
    BY <1>5, <2>2 DEF cand, from
  <2>3. CASE from = "local"
    BY <1>5, <2>3 DEF cand, from
  <2>4. CASE from = "fresh"
    BY <1>4, <2>4 DEF cand
  <2>5. QED
    BY <1>5, <2>1, <2>2, <2>3, <2>4
<1>7. op'[c] = d
  BY <1>3
<1>8. /\ d.kind = "load" /\ d.pc = "loaded" /\ d.cand = cand /\ d.at = op[c].at
      /\ d.ver = version /\ d.from = from /\ d \in OpRec
  <2>1. op[c] \in OpRec
    BY <1>1
  <2>2. QED
    BY <1>1, <1>5, <1>6, <2>1 DEF OpRec, Pc
<1> HIDE DEF d
<1>9. ASSUME NEW e \in Call \ {c}
      PROVE  /\ op'[e] = IF InFlight(e) THEN [op[e] EXCEPT !.crossed = TRUE] ELSE op[e]
             /\ Alike(op'[e], op[e]) /\ op'[e].stale = op[e].stale
             /\ ~op'[e].crossed => op'[e] = op[e] /\ ~InFlight(e)
  <2>1. op'[e] = IF InFlight(e) THEN [op[e] EXCEPT !.crossed = TRUE] ELSE op[e]
    BY <1>3
  <2>2. CASE InFlight(e)
    <3>1. PICK r : r = [op[e] EXCEPT !.crossed = TRUE] /\ op'[e] = r
      BY <2>1, <2>2
    <3>2. op[e] \in OpRec
      BY <1>1
    <3>3. Alike(r, op[e]) /\ r.stale = op[e].stale /\ r.crossed
      BY <3>1, <3>2 DEF OpRec, Alike
    <3>4. QED
      BY <2>1, <3>1, <3>3
  <2>3. CASE ~InFlight(e)
    BY <1>1, <2>1, <2>3 DEF Alike
  <2>4. QED
    BY <2>1, <2>2, <2>3
<1>10. OpsFormed'
  <2>1. op' \in [Call -> OpRec]
    <3>1. \A e \in Call : op'[e] \in OpRec
      BY <1>7, <1>8, <1>9 DEF Alike
    <3>2. DOMAIN op' = Call /\ op' = [e \in Call |-> op'[e]]
      BY <1>3
    <3>3. QED
      BY <3>1, <3>2
  <2>2. Formed(op[c])'
    BY <1>1, <1>6, <1>7, <1>8 DEF Formed, Changes
  <2>3. QED
    BY <1>1, <1>9, <2>1, <2>2, OthersAlike DEF IInv
<1>11. StoreTypes'
  BY <1>1, <1>3, <1>5 DEF StoreTypes, disk
<1>12. LockInv'
  <2>1. \A e \in Call \ {c} : op'[e].pc = op[e].pc
    BY <1>9 DEF Alike
  <2>2. QED
    BY <1>1, <1>7, <1>8, <2>1, HolderKeeps DEF IInv, Loading
<1>13. Excused => Excused'
  <2>1. \A e \in Call \ {c} : /\ op'[e].kind = op[e].kind /\ op'[e].pc = op[e].pc
                              /\ op'[e].from = op[e].from
    BY <1>9 DEF Alike
  <2>2. QED
    BY <1>1, <1>7, <1>8, <2>1, ExcusedStays DEF IInv
<1>14. ASSUME ~Excused' PROVE Kept'
  <2>1. InMemory /\ OnDisk /\ InLoad /\ NotStale
    BY <1>13, <1>14 DEF IInv, Kept
  <2>2. from # "fresh"
    BY <1>7, <1>8, <1>14 DEF Excused, Forgotten
  <2>3. ASSUME NEW e \in Call, Counted(op'[e])
        PROVE  e # c /\ op'[e] = op[e] /\ Counted(op[e]) /\ op[e].pc = "done"
    <3>1. e # c
      BY <1>7, <1>8, <2>3 DEF Counted, Changes
    <3>2. op'[e] = op[e] /\ ~InFlight(e)
      BY <1>9, <2>3, <3>1 DEF Counted
    <3>3. QED
      BY <2>3, <3>1, <3>2 DEF Counted, InFlight
  <2>4. InMemory'
    BY <1>1, <2>1, <2>3 DEF InMemory
  <2>5. OnDisk'
    BY <1>1, <2>1, <2>3 DEF OnDisk
  <2>6. NotStale'
    BY <2>3 DEF NotStale
  <2>7. ASSUME NEW e \in Call, Counted(op'[e])
        PROVE  cand.val[op[e].item].at >= op[e].at
    <3>1. /\ shadow # None /\ shadow.val[op[e].item].at >= op[e].at
          /\ mem[op[e].item].at >= op[e].at
      BY <2>1, <2>3, <2>7 DEF OnDisk, InMemory
    <3>2. op[e].item \in Item /\ op[e].at \in Nat
      BY <2>3, <2>7 DEF IInv, OpsFormed, Formed, OpRec, Counted, Stamp
    <3>3. synced # None
      BY <1>1, <3>1 DEF StoreTypes
    <3>4. CASE locked
      BY <1>2, <2>2, <3>1, <3>4 DEF cand, from, local, remote
    <3>5. CASE ~locked /\ Syncing
      <4>1. local = shadow /\ remote = synced /\ from = "merge"
        BY <3>1, <3>3, <3>5 DEF from, local, remote
      <4>2. cand = Merge(shadow, synced) /\ shadow \in Copy /\ synced \in Copy
        BY <1>1, <3>1, <3>3, <4>1 DEF StoreTypes, cand
      <4>3. cand.val[op[e].item].at >= shadow.val[op[e].item].at
        BY <3>2, <4>2, MergeKeepsLocal
      <4>4. cand.val[op[e].item].at \in Nat /\ shadow.val[op[e].item].at \in Nat
        BY <1>6, <3>2, <4>2 DEF Copy, Value, Stamp
      <4>5. QED
        BY <3>1, <3>2, <4>3, <4>4
    <3>6. CASE ~locked /\ ~Syncing
      <4>1. from = "remote" /\ cand = synced /\ synced = shadow
        BY <1>1, <3>1, <3>3, <3>6 DEF StoreTypes, cand, from, local, remote
      <4>2. QED
        BY <3>1, <4>1
    <3>7. QED
      BY <3>4, <3>5, <3>6
  <2>8. InLoad'
    <3>1. ASSUME NEW l \in Call, op'[l].pc = "loaded" PROVE l = c
      BY <1>1, <1>12, <3>1 DEF LockInv
    <3>2. QED
      BY <1>7, <1>8, <2>3, <2>7, <3>1 DEF InLoad
  <2>9. QED
    BY <2>4, <2>5, <2>6, <2>8 DEF Kept
<1>15. QED
  BY <1>10, <1>11, <1>12, <1>14 DEF IInv

\* No edit began since the copies were read, and those read hold the others.
LEMMA LoadApplyStep ==
    ASSUME IInv, NEW c \in Call, LoadApply(c), Applicable(c)
    PROVE  IInv'
<1>1. /\ op[c].pc = "loaded" /\ op[c].kind = "load" /\ op \in [Call -> OpRec] /\ op[c] \in OpRec
      /\ Formed(op[c]) /\ version \in Nat /\ clock \in Nat /\ op[c].cand \in Copy
      /\ queue # <<>> /\ Head(queue) = c /\ op[c].ver = version
      /\ mem' = op[c].cand.val
      /\ UNCHANGED <<version, disk, secret, locked, clock>>
      /\ clock' = clock /\ backup' = backup /\ version' = version /\ shadow' = shadow
      /\ StoreTypes
  BY DEF LoadApply, Applicable, IInv, StoreTypes, OpsFormed, Formed, LockInv, Stamp, disk
<1>2. PICK d, calls :
        /\ \/ /\ d = [op[c] EXCEPT !.pc = "restoring"]
              /\ pending' = pending /\ queue' = queue
           \/ /\ d = [op[c] EXCEPT !.pc = "done", !.cand = None, !.ver = 0]
              /\ pending' = None /\ Release(c)
        /\ calls = [op EXCEPT ![c] = d] /\ op' = Replaced(calls)
  BY DEF LoadApply, Ended
<1>3. /\ d.kind = "load" /\ d.pc \in {"restoring", "done"} /\ d.from = op[c].from
      /\ d.at = op[c].at /\ d \in OpRec /\ (d.pc = "restoring" => d.cand = op[c].cand)
      /\ d.pc = "restoring" => pending' = pending /\ queue' = queue
      /\ d.pc = "done" => pending' = None /\ Release(c)
  <2>1. CASE d = [op[c] EXCEPT !.pc = "restoring"] /\ pending' = pending /\ queue' = queue
    BY <1>1, <2>1 DEF OpRec, Pc
  <2>2. CASE /\ d = [op[c] EXCEPT !.pc = "done", !.cand = None, !.ver = 0]
             /\ pending' = None /\ Release(c)
    BY <1>1, <2>2 DEF OpRec, Pc
  <2>3. QED
    BY <1>2, <2>1, <2>2
<1>4. calls \in [Call -> OpRec] /\ calls[c] = d /\ \A e \in Call \ {c} : calls[e] = op[e]
  BY <1>1, <1>2, <1>3
<1>5. /\ op' \in [Call -> OpRec]
      /\ \A e \in Call : Alike(op'[e], calls[e]) /\ op'[e].crossed = calls[e].crossed
  BY <1>2, <1>4, ReplacedAlike
<1>6. PICK r : op'[c] = r /\ Alike(r, d)
  BY <1>4, <1>5
<1>7. \A e \in Call \ {c} : Alike(op'[e], op[e]) /\ op'[e].crossed = op[e].crossed
  BY <1>4, <1>5
<1>8. OpsFormed'
  <2>1. Formed(op[c])'
    BY <1>1, <1>3, <1>6 DEF Formed, Alike, Changes
  <2>2. version' \in Nat /\ version' >= version
    BY <1>1
  <2>3. QED
    BY <1>1, <1>5, <1>7, <2>1, <2>2, OthersAlike DEF IInv
<1>9. StoreTypes'
  <2>1. pending' \in Copy \cup {None}
    BY <1>1, <1>3 DEF StoreTypes
  <2>2. QED
    BY <1>1, <2>1 DEF StoreTypes, Copy, disk
<1>10. LockInv'
  <2>1. \A e \in Call \ {c} : op'[e].pc = op[e].pc
    BY <1>7 DEF Alike
  <2>2. op[c].pc \in Loading /\ r.pc = d.pc
    BY <1>1, <1>6 DEF Loading, Alike
  <2>3. CASE d.pc = "restoring"
    BY <1>3, <1>6, <2>1, <2>2, <2>3, HolderKeeps DEF IInv, Loading
  <2>4. CASE d.pc = "done"
    BY <1>3, <1>6, <2>1, <2>2, <2>4, HolderKeeps DEF IInv, Loading
  <2>5. QED
    BY <1>3, <2>3, <2>4
<1>11. Excused => Excused'
  <2>1. \A e \in Call \ {c} : /\ op'[e].kind = op[e].kind /\ op'[e].pc = op[e].pc
                              /\ op'[e].from = op[e].from
    BY <1>7 DEF Alike
  <2>2. r.from = op[c].from
    BY <1>3, <1>6 DEF Alike
  <2>3. QED
    BY <1>1, <1>6, <2>1, <2>2, ExcusedStays DEF IInv
<1>12. ASSUME ~Excused' PROVE Kept'
  <2>1. InMemory /\ OnDisk /\ InLoad /\ NotStale
    BY <1>11, <1>12 DEF IInv, Kept
  <2>2. ASSUME NEW e \in Call, Counted(op'[e])
        PROVE  /\ e # c /\ Counted(op[e]) /\ op'[e].pc = "done" /\ op[e].pc = "done"
               /\ op'[e].item = op[e].item /\ op'[e].at = op[e].at
               /\ op[c].cand.val[op[e].item].at >= op[e].at
    <3>1. e # c
      BY <1>3, <1>6, <2>2 DEF Counted, Changes, Alike
    <3>2. Counted(op[e]) /\ Alike(op'[e], op[e])
      BY <1>7, <2>2, <3>1 DEF Counted, Alike
    <3>3. op[e].pc = "done" /\ op[c].cand.val[op[e].item].at >= op[e].at
      BY <1>1, <2>1, <3>2 DEF InLoad
    <3>4. QED
      BY <3>1, <3>2, <3>3 DEF Alike
  <2>3. InMemory'
    BY <1>1, <2>2 DEF InMemory
  <2>4. OnDisk'
    BY <1>1, <2>1, <2>2 DEF OnDisk
  <2>5. InLoad'
    <3> SUFFICES ASSUME NEW l \in Call, op'[l].pc = "loaded" PROVE FALSE
      BY DEF InLoad
    <3>1. l # c
      BY <1>3, <1>6 DEF Alike
    <3>2. op[l].pc = "loaded"
      BY <1>7, <3>1 DEF Alike
    <3>3. QED
      BY <1>1, <3>1, <3>2 DEF IInv, LockInv
  <2>6. NotStale'
    BY <2>2 DEF NotStale
  <2>7. QED
    BY <2>3, <2>4, <2>5, <2>6 DEF Kept
<1>13. QED
  BY <1>8, <1>9, <1>10, <1>12 DEF IInv

\* What was read is dropped.
LEMMA LoadDropStep ==
    ASSUME IInv, NEW c \in Call, LoadApply(c), ~Applicable(c)
    PROVE  IInv'
<1>1. /\ op[c].pc = "loaded" /\ op \in [Call -> OpRec] /\ Formed(op[c]) /\ op[c] \in OpRec
      /\ UNCHANGED <<mem, version, disk, secret, locked, clock>> /\ pending' = None
      /\ version' = version /\ clock' = clock /\ backup' = backup /\ shadow' = shadow
      /\ op[c].kind = "load" /\ secret \in Secrets /\ Release(c) /\ secret' = secret
  BY DEF LoadApply, IInv, StoreTypes, OpsFormed, Formed, disk
<1>2. PICK d : /\ d = [op[c] EXCEPT !.pc = "done", !.cand = None, !.ver = 0]
               /\ op' = [op EXCEPT ![c] = d]
  BY DEF LoadApply, Ended
<1>3. /\ d.kind = op[c].kind /\ d.pc = "done" /\ d.from = op[c].from
      /\ d.at = op[c].at /\ d \in OpRec /\ d.kind \notin Changes
  BY <1>1, <1>2 DEF OpRec, Pc, Changes
<1>4. Formed(d)'
  BY <1>1, <1>3 DEF Formed
<1>5. /\ OpsFormed' /\ (~Excused' => Kept')
      /\ op'[c] = d /\ \A e \in Call \ {c} : op'[e] = op[e]
  BY <1>1, <1>2, <1>3, <1>4, AsideStep
<1>6. StoreTypes'
  BY <1>1, SameStore DEF IInv
<1>7. LockInv'
  BY <1>1, <1>3, <1>5, HolderKeeps DEF IInv, Loading
<1>8. QED
  BY <1>5, <1>6, <1>7 DEF IInv

-----------------------------------------------------------------------------
(* The environment, and the theorem *)

LEMMA EnvironmentStep ==
    ASSUME IInv, UNCHANGED <<mem, version, pending, shadow, backup, secret, op, queue>>,
           \/ synced' = synced /\ clock' = clock
           \/ \E i \in Item, alive \in BOOLEAN : Deliver(i, alive)
    PROVE  IInv'
<1>1. clock \in Nat /\ clock' \in Nat /\ clock' >= clock /\ version \in Nat /\ clock' \in Stamp
  BY DEF IInv, StoreTypes, Deliver, Stamp
<1>2. StoreTypes'
  <2>1. CASE synced' = synced /\ clock' = clock
    BY <2>1 DEF IInv, StoreTypes
  <2>2. ASSUME NEW i \in Item, NEW alive \in BOOLEAN, Deliver(i, alive)
        PROVE  StoreTypes'
    <3>1. PICK base \in {synced, backup} :
            synced' = [val |-> [base.val EXCEPT ![i] = [at |-> clock', alive |-> alive]],
                       secret |-> [base.secret EXCEPT ![i] = IF alive THEN clock' ELSE 0]]
      BY <2>2 DEF Deliver
    <3>2. base \in Copy
      BY <2>2 DEF Deliver, IInv, StoreTypes
    <3>3. /\ [base.val EXCEPT ![i] = [at |-> clock', alive |-> alive]] \in Value
          /\ [base.secret EXCEPT ![i] = IF alive THEN clock' ELSE 0] \in [Item -> Stamp]
      BY <1>1, <3>2 DEF Copy, Value, Stamp
    <3>4. synced' \in Copy
      BY <3>1, <3>3 DEF Copy
    <3>5. QED
      BY <1>1, <2>2, <3>4 DEF Deliver, IInv, StoreTypes
  <2>3. QED
    BY <2>1, <2>2
<1>3. OpsFormed'
  <2>1. ASSUME NEW e \in Call PROVE Formed(op[e])'
    <3>1. Formed(op[e]) /\ op'[e] = op[e]
      BY DEF IInv, OpsFormed
    <3>2. op[e].at \in Nat
      BY <3>1 DEF Formed, OpRec, Stamp
    <3>3. QED
      BY <1>1, <3>1, <3>2 DEF Formed
  <2>2. QED
    BY <2>1 DEF IInv, OpsFormed
<1>4. LockInv'
  BY DEF IInv, LockInv
<1>5. (~Excused => Kept)'
  BY DEF IInv, Excused, Authoritative, Forgotten, Kept, InMemory, OnDisk, InLoad, NotStale
<1>6. QED
  BY <1>2, <1>3, <1>4, <1>5 DEF IInv

LEMMA NextInv == IInv /\ [Next]_vars => IInv'
<1> SUFFICES ASSUME IInv, [Next]_vars PROVE IInv'
  OBVIOUS
<1>1. ASSUME NEW c \in Call, NEW i \in Item, Edit(c, i) \/ Delete(c, i) \/ DeleteFolder(c, i)
      PROVE  IInv'
  BY <1>1, ChangeStep, DeleteFolderStep
<1>2. ASSUME NEW c \in Call, NEW kind \in {"load", "save", "restore"}, Enqueue(c, kind)
      PROVE  IInv'
  BY <1>2, EnqueueStep
<1>3. ASSUME NEW c \in Call, Step(c)
      PROVE  IInv'
  BY <1>3, StoreSecretsStep, DropFolderStep, BundleStep, WriteFailsStep, WriteSavesStep,
     StartSaveStep, LoadReadStep, LoadApplyStep, LoadDropStep, RestoreSecretsStep,
     RestoreFromBackupStep DEF Step
<1>4. CASE \E i \in Item, alive \in BOOLEAN : Deliver(i, alive)
  BY <1>4, EnvironmentStep DEF Deliver
<1>5. ASSUME NEW l \in BOOLEAN, SetLocked(l)
      PROVE  IInv'
  BY <1>5, EnvironmentStep DEF SetLocked, disk
<1>6. CASE UNCHANGED vars
  BY <1>6, EnvironmentStep DEF vars, disk
<1>7. QED
  BY <1>1, <1>2, <1>3, <1>4, <1>5, <1>6 DEF Next

\* An edit or deletion that has returned is on the disk of this device, unless
\* a load read the copies while it was under way, a backup was restored, or a
\* load found nothing. (connectionManager.ts:54-130, 188-229, 830-912)
THEOREM ReturnedIsSavedCorrect == Spec => []ReturnedIsSaved
<1>1. IInv => ReturnedIsSaved
  BY DEF IInv, Kept, OnDisk, Counted, Excused, ReturnedIsSaved
<1>2. QED
  BY InitInv, NextInv, <1>1, PTL DEF Spec

\* Every variable of the store has its type: what a load, a backup or another
\* device brings is a whole copy, and what a save writes the bundle it read.
\* (connectionManager.ts:49-58, 281-425, 840-912)
THEOREM TypeCorrect == Spec => []TypeOK
<1>1. Init => locked \in BOOLEAN
  BY DEF Init
<1>2. locked \in BOOLEAN /\ [Next]_vars => locked' \in BOOLEAN
  <2> SUFFICES ASSUME locked \in BOOLEAN, [Next]_vars PROVE locked' \in BOOLEAN
    OBVIOUS
  <2>1. ASSUME NEW c \in Call, NEW i \in Item, Edit(c, i) \/ Delete(c, i) \/ DeleteFolder(c, i)
        PROVE  locked' = locked
    BY <2>1 DEF Edit, Delete, DeleteFolder
  <2>2. ASSUME NEW c \in Call, NEW kind, Enqueue(c, kind)
        PROVE  locked' = locked
    BY <2>2 DEF Enqueue
  <2>3. ASSUME NEW c \in Call, Step(c)
        PROVE  locked' = locked
    BY <2>3 DEF Step, StoreSecrets, DropFolder, Bundle, Write, StartSave, LoadRead, LoadApply,
                RestoreSecrets, RestoreFromBackup
  <2>4. ASSUME NEW i \in Item, NEW alive \in BOOLEAN, Deliver(i, alive)
        PROVE  locked' = locked
    BY <2>4 DEF Deliver
  <2>5. ASSUME NEW l \in BOOLEAN, SetLocked(l)
        PROVE  locked' \in BOOLEAN
    BY <2>5 DEF SetLocked
  <2>6. CASE UNCHANGED vars
    BY <2>6 DEF vars
  <2>7. QED
    BY <2>1, <2>2, <2>3, <2>4, <2>5, <2>6 DEF Next
<1>3. IInv /\ locked \in BOOLEAN => TypeOK
  <2> SUFFICES ASSUME IInv, locked \in BOOLEAN PROVE TypeOK
    OBVIOUS
  <2>1. ASSUME NEW c \in Call
        PROVE  /\ op[c].kind \in Kind /\ op[c].pc \in Pc
               /\ op[c].pc \in Loading => op[c].cand \in Copy
               /\ op[c].pc = "write" => op[c].cand \in Secrets
               /\ op[c].kind \in Changes => op[c].item \in Item /\ op[c].at <= clock
    <3>1. Formed(op[c])
      BY DEF IInv, OpsFormed
    <3>2. QED
      BY <3>1 DEF Formed, OpRec, Loading
  <2>2. StoreTypes /\ queue \in Seq(Call)
    BY DEF IInv, LockInv
  <2>3. QED
    BY <2>1, <2>2 DEF StoreTypes, TypeOK, Kind, Pc, Secrets, Loading
<1>4. Init => IInv /\ locked \in BOOLEAN
  BY <1>1, InitInv
<1>5. (IInv /\ locked \in BOOLEAN) /\ [Next]_vars => (IInv /\ locked \in BOOLEAN)'
  BY <1>2, NextInv
<1>6. QED
  BY <1>3, <1>4, <1>5, PTL DEF Spec

-----------------------------------------------------------------------------
(* The lock has one holder, and passes on *)

\* What a step of a call that is under way does to the lock: it is taken by
\* the head of the queue only, and given back by a call that ends.
LockStep(c) ==
    /\ op'[c].kind = op[c].kind
    /\ \A e \in Call \ {c} : op'[e].kind = op[e].kind /\ op'[e].pc = op[e].pc
    /\ op[c].pc \notin {"done", "failed"}
    /\ op[c].pc = "queued" => Turn(c)
    /\ \/ queue' = queue /\ op'[c].pc \notin {"done", "failed"}
       \/ Release(c) /\ (op'[c].pc \in {"done", "failed"} \/ op[c].kind \in Changes)

\* Every step is such a step, also that of a save that throws.
LEMMA StepIsLockStep ==
    ASSUME IInv, NEW c \in Call, Step(c)
    PROVE  LockStep(c)
<1>1. op \in [Call -> OpRec] /\ op[c] \in OpRec /\ Formed(op[c])
  BY DEF IInv, OpsFormed
<1>2. ASSUME StoreSecrets(c) \/ DropFolder(c) \/ Bundle(c) \/ StartSave(c) PROVE LockStep(c)
  <2>1. queue' = queue /\ op[c].pc \notin {"done", "failed"} /\ (op[c].pc = "queued" => Turn(c))
    BY <1>2 DEF StoreSecrets, DropFolder, Bundle, StartSave, Turn
  <2>2. PICK d : /\ op' = [op EXCEPT ![c] = d] /\ d.kind = op[c].kind
                 /\ d.pc \in {"bundle", "write"}
    <3>1. CASE StoreSecrets(c)
      <4>1. PICK d : d = [op[c] EXCEPT !.pc = "bundle"] /\ op' = [op EXCEPT ![c] = d]
        BY <3>1 DEF StoreSecrets
      <4>2. d.kind = op[c].kind /\ d.pc = "bundle"
        BY <1>1, <4>1 DEF OpRec
      <4>3. QED
        BY <4>1, <4>2
    <3>2. CASE DropFolder(c)
      <4>1. PICK d : /\ d = [op[c] EXCEPT !.pc = "bundle", !.at = clock', !.stale = FALSE]
                     /\ op' = [op EXCEPT ![c] = d]
        BY <3>2 DEF DropFolder
      <4>2. d.kind = op[c].kind /\ d.pc = "bundle"
        BY <1>1, <4>1 DEF OpRec
      <4>3. QED
        BY <4>1, <4>2
    <3>3. CASE Bundle(c)
      <4>1. PICK cand : op' = [op EXCEPT ![c].pc = "write", ![c].cand = cand]
        BY <3>3 DEF Bundle
      <4>2. PICK d : /\ d = [op[c] EXCEPT !.pc = "write", !.cand = cand]
                     /\ op' = [op EXCEPT ![c] = d]
        BY <4>1
      <4>3. d.kind = op[c].kind /\ d.pc = "write"
        BY <1>1, <4>2 DEF OpRec
      <4>4. QED
        BY <4>2, <4>3
    <3>4. CASE StartSave(c)
      <4>1. PICK d : d = [op[c] EXCEPT !.pc = "bundle"] /\ op' = [op EXCEPT ![c] = d]
        BY <3>4 DEF StartSave
      <4>2. d.kind = op[c].kind /\ d.pc = "bundle"
        BY <1>1, <4>1 DEF OpRec
      <4>3. QED
        BY <4>1, <4>2
    <3>5. QED
      BY <1>2, <3>1, <3>2, <3>3, <3>4
  <2>3. op'[c] = d /\ \A e \in Call \ {c} : op'[e] = op[e]
    BY <1>1, <2>2
  <2>4. QED
    BY <2>1, <2>2, <2>3 DEF LockStep
<1>3. ASSUME Write(c) PROVE LockStep(c)
  <2>1. Release(c) /\ op[c].pc = "write"
    BY <1>3 DEF Write
  <2>2. PICK pc : /\ op' = Ended(c, pc)
                  /\ pc \in {"done", "failed"} \/ op[c].kind \in Changes
    BY <1>3 DEF Write, Changes
  <2>3. PICK d : /\ d = [op[c] EXCEPT !.pc = pc, !.cand = None, !.ver = 0]
                 /\ op' = [op EXCEPT ![c] = d]
    BY <2>2 DEF Ended
  <2>4. op'[c] = d /\ d.kind = op[c].kind /\ d.pc = pc /\ \A e \in Call \ {c} : op'[e] = op[e]
    BY <1>1, <2>3 DEF OpRec
  <2>5. QED
    BY <2>1, <2>2, <2>4 DEF LockStep
<1>4. ASSUME LoadRead(c) PROVE LockStep(c)
  <2>1. Turn(c) /\ queue' = queue /\ op[c].pc = "queued"
    BY <1>4 DEF LoadRead, Turn
  <2>2. \A e \in Call : /\ op'[e].kind = op[e].kind
                        /\ op'[e].pc = IF e = c THEN "loaded" ELSE op[e].pc
    BY <1>1, <1>4 DEF LoadRead, OpRec
  <2>3. QED
    BY <2>1, <2>2 DEF LockStep
<1>5. ASSUME NEW calls, NEW d, calls = [op EXCEPT ![c] = d], d \in OpRec, d.kind = op[c].kind,
             op' = calls \/ op' = Replaced(calls),
             op[c].pc \notin {"done", "failed"}, op[c].pc = "queued" => Turn(c),
             \/ queue' = queue /\ d.pc \notin {"done", "failed"}
             \/ Release(c) /\ d.pc \in {"done", "failed"}
      PROVE  LockStep(c)
  <2>1. calls \in [Call -> OpRec] /\ calls[c] = d /\ \A e \in Call \ {c} : calls[e] = op[e]
    BY <1>1, <1>5
  <2>2. \A e \in Call : Alike(Replaced(calls)[e], calls[e])
    BY <2>1, ReplacedAlike
  <2>3. \A e \in Call : op'[e].kind = calls[e].kind /\ op'[e].pc = calls[e].pc
    <3>1. CASE op' = calls
      BY <3>1
    <3>2. CASE op' = Replaced(calls)
      BY <2>2, <3>2, Zenon DEF Alike
    <3>3. QED
      BY <1>5, <3>1, <3>2
  <2>4. QED
    BY <1>5, <2>1, <2>3 DEF LockStep
<1>6. ASSUME LoadApply(c) PROVE LockStep(c)
  <2>1. op[c].pc = "loaded"
    BY <1>6 DEF LoadApply
  <2>2. PICK d, calls :
          /\ \/ d = [op[c] EXCEPT !.pc = "restoring"] /\ queue' = queue
             \/ d = [op[c] EXCEPT !.pc = "done", !.cand = None, !.ver = 0] /\ Release(c)
          /\ calls = [op EXCEPT ![c] = d] /\ (op' = calls \/ op' = Replaced(calls))
    BY <1>6 DEF LoadApply, Ended
  <2>3. CASE d = [op[c] EXCEPT !.pc = "restoring"] /\ queue' = queue
    <3>1. d \in OpRec /\ d.kind = op[c].kind /\ d.pc = "restoring"
      BY <1>1, <2>3 DEF OpRec, Pc
    <3>2. QED
      BY <1>5, <2>1, <2>2, <2>3, <3>1
  <2>4. CASE d = [op[c] EXCEPT !.pc = "done", !.cand = None, !.ver = 0] /\ Release(c)
    <3>1. d \in OpRec /\ d.kind = op[c].kind /\ d.pc = "done"
      BY <1>1, <2>4 DEF OpRec, Pc
    <3>2. QED
      BY <1>5, <2>1, <2>2, <2>4, <3>1
  <2>5. QED
    BY <2>2, <2>3, <2>4
<1>7. ASSUME RestoreSecrets(c) PROVE LockStep(c)
  <2>1. op[c].pc = "restoring"
    BY <1>7 DEF RestoreSecrets
  <2>2. PICK d : /\ \/ d = [op[c] EXCEPT !.pc = "bundle"] /\ queue' = queue
                    \/ d = [op[c] EXCEPT !.pc = "done", !.cand = None, !.ver = 0] /\ Release(c)
                 /\ op' = [op EXCEPT ![c] = d]
    BY <1>7 DEF RestoreSecrets, Ended
  <2>3. CASE d = [op[c] EXCEPT !.pc = "bundle"] /\ queue' = queue
    <3>1. d \in OpRec /\ d.kind = op[c].kind /\ d.pc = "bundle"
      BY <1>1, <2>3 DEF OpRec, Pc
    <3>2. QED
      BY <1>5, <2>1, <2>2, <2>3, <3>1
  <2>4. CASE d = [op[c] EXCEPT !.pc = "done", !.cand = None, !.ver = 0] /\ Release(c)
    <3>1. d \in OpRec /\ d.kind = op[c].kind /\ d.pc = "done"
      BY <1>1, <2>4 DEF OpRec, Pc
    <3>2. QED
      BY <1>5, <2>1, <2>2, <2>4, <3>1
  <2>5. QED
    BY <2>2, <2>3, <2>4
<1>8. ASSUME RestoreFromBackup(c) PROVE LockStep(c)
  <2>1. Turn(c) /\ op[c].pc = "queued" /\ op[c].kind = "restore" /\ queue' = queue
    BY <1>8 DEF RestoreFromBackup, Turn
  <2>2. PICK d, calls :
          /\ d = [op[c] EXCEPT !.pc = "restoring", !.cand = backup, !.from = "backup"]
          /\ calls = [op EXCEPT ![c] = d] /\ op' = Replaced(calls)
    BY <1>8 DEF RestoreFromBackup
  <2>3. backup \in Copy
    BY <1>1, <2>1 DEF IInv, StoreTypes, Formed
  <2>4. d \in OpRec /\ d.kind = op[c].kind /\ d.pc = "restoring"
    BY <1>1, <2>2, <2>3 DEF OpRec, Pc
  <2>5. QED
    BY <1>5, <2>1, <2>2, <2>4
<1>9. QED
  BY <1>2, <1>3, <1>4, <1>6, <1>7, <1>8 DEF Step

\* The one that moves is the head: the queue stays, or loses it at its end.
LEMMA LockStepKeeps ==
    ASSUME OneHolder, queue \in Seq(Call), NEW c \in Call, LockStep(c)
    PROVE  OneHolder'
<1>1. \A e \in Call \ {c} : Locking(e)' <=> Locking(e)
  BY DEF LockStep, Locking
<1>2. CASE ~Locking(c)
  <2>1. queue # <<>> => Head(queue) # c
    <3>1. queue # <<>> => 1 \in DOMAIN queue /\ Head(queue) = queue[1]
      OBVIOUS
    <3>2. QED
      BY <1>2, <3>1 DEF OneHolder
  <2>2. queue' = queue
    BY <2>1 DEF LockStep, Release
  <2>3. ~Locking(c)'
    BY <1>2 DEF LockStep, Locking
  <2>4. \A i \in DOMAIN queue : queue[i] \in Call /\ queue[i] # c
    BY <1>2 DEF OneHolder
  <2>5. QED
    BY <1>1, <1>2, <2>2, <2>3, <2>4 DEF OneHolder, LockStep
<1>3. CASE Locking(c)
  <2>1. queue # <<>> /\ queue[1] = c /\ Head(queue) = c
    <3>1. PICK i \in DOMAIN queue : queue[i] = c
      BY <1>3 DEF OneHolder
    <3>2. i > 1 => op[c].pc = "queued"
      BY <3>1 DEF OneHolder
    <3>3. queue # <<>> /\ Head(queue) = queue[1] /\ i \in Nat /\ i >= 1
      BY <3>1
    <3>4. CASE op[c].pc = "queued"
      BY <3>3, <3>4 DEF LockStep, Turn
    <3>5. CASE op[c].pc # "queued"
      BY <3>1, <3>2, <3>3, <3>5
    <3>6. QED
      BY <3>4, <3>5
  <2>2. CASE queue' = queue /\ op'[c].pc \notin {"done", "failed"}
    <3>1. Locking(c)'
      BY <1>3, <2>2 DEF LockStep, Locking
    <3>2. \A i \in DOMAIN queue : i > 1 => queue[i] \in Call \ {c}
      <4>1. 1 \in DOMAIN queue
        BY <2>1
      <4>2. \A i \in DOMAIN queue : queue[i] = queue[1] => i = 1
        BY <4>1 DEF OneHolder
      <4>3. \A i \in DOMAIN queue : queue[i] \in Call
        OBVIOUS
      <4>4. QED
        BY <2>1, <4>2, <4>3
    <3>3. \A i \in DOMAIN queue : i > 1 => op'[queue[i]].pc = "queued"
      BY <3>2 DEF OneHolder, LockStep
    <3>4. \A e \in Call : Locking(e)' <=> \E i \in DOMAIN queue : queue[i] = e
      BY <1>1, <1>3, <3>1 DEF OneHolder
    <3>5. QED
      BY <2>2, <3>3, <3>4 DEF OneHolder
  <2>3. CASE Release(c) /\ op'[c].pc \in {"done", "failed"}
    <3>1. queue' = Tail(queue) /\ Len(queue') = Len(queue) - 1
          /\ \A i \in DOMAIN queue' : i + 1 \in DOMAIN queue /\ queue'[i] = queue[i + 1]
      BY <2>1, <2>3 DEF Release
    <3>2. ~Locking(c)'
      BY <2>3 DEF Locking
    <3>3. DOMAIN queue' = 1 .. Len(queue) - 1 /\ DOMAIN queue = 1 .. Len(queue)
          /\ Len(queue) \in Nat
      BY <2>1, <3>1
    <3>4. \A i \in DOMAIN queue' : queue'[i] \in Call \ {c} /\ op[queue'[i]].pc = "queued"
      <4>1. \A i \in DOMAIN queue : queue[i] = queue[1] => i = 1
        BY <2>1, <3>3 DEF OneHolder
      <4>2. \A i \in DOMAIN queue : queue[i] \in Call
        OBVIOUS
      <4>3. \A i \in DOMAIN queue : i > 1 => op[queue[i]].pc = "queued"
        BY DEF OneHolder
      <4>4. QED
        BY <2>1, <3>1, <3>3, <4>1, <4>2, <4>3
    <3>5. \A i, j \in DOMAIN queue' : queue'[i] = queue'[j] => i = j
      <4> SUFFICES ASSUME NEW i \in DOMAIN queue', NEW j \in DOMAIN queue',
                          queue'[i] = queue'[j]
                   PROVE  i = j
        OBVIOUS
      <4>1. i + 1 \in DOMAIN queue /\ j + 1 \in DOMAIN queue /\ queue[i + 1] = queue[j + 1]
        BY <3>1
      <4>2. i + 1 = j + 1
        BY <4>1 DEF OneHolder
      <4>3. QED
        BY <3>3, <4>2
    <3>6. ASSUME NEW e \in Call PROVE Locking(e)' <=> \E i \in DOMAIN queue' : queue'[i] = e
      <4>1. CASE e = c
        BY <3>2, <3>4, <4>1
      <4>2. CASE e # c
        <5>1. ASSUME Locking(e) PROVE \E i \in DOMAIN queue' : queue'[i] = e
          <6>1. PICK i \in DOMAIN queue : queue[i] = e
            BY <5>1 DEF OneHolder
          <6>2. i # 1
            BY <2>1, <4>2, <6>1
          <6>3. i - 1 \in DOMAIN queue' /\ (i - 1) + 1 = i
            BY <3>3, <6>2
          <6>4. queue'[i - 1] = e
            BY <3>1, <6>1, <6>3
          <6>5. QED
            BY <6>3, <6>4
        <5>2. ASSUME NEW i \in DOMAIN queue', queue'[i] = e PROVE Locking(e)
          BY <3>1, <5>2 DEF OneHolder
        <5>3. QED
          BY <1>1, <4>2, <5>1, <5>2
      <4>3. QED
        BY <4>1, <4>2
    <3>7. \A i \in DOMAIN queue' : op'[queue'[i]].pc = "queued"
      BY <3>4 DEF LockStep
    <3>8. QED
      BY <3>5, <3>6, <3>7 DEF OneHolder
  <2>4. op[c].kind \notin Changes
    BY <1>3 DEF Locking, Changes
  <2>5. QED
    BY <2>2, <2>3, <2>4 DEF LockStep
<1>4. QED
  BY <1>2, <1>3

\* A call that begins and does not ask for the lock.
LEMMA EditAside ==
    ASSUME IInv, OneHolder, NEW c \in Call, NEW i \in Item,
           Edit(c, i) \/ Delete(c, i) \/ DeleteFolder(c, i)
    PROVE  OneHolder'
<1>1. op \in [Call -> OpRec] /\ Formed(op[c]) /\ queue \in Seq(Call)
  BY DEF IInv, OpsFormed, LockInv
<1>2. queue' = queue /\ op[c].pc = "idle"
  BY DEF Edit, Delete, DeleteFolder
<1>3. PICK d : op' = [op EXCEPT ![c] = d] /\ d.kind \in Changes
  <2>1. CASE Edit(c, i)
    <3>1. PICK pc : op' = [op EXCEPT ![c] = [IdleOp EXCEPT !.kind = "edit", !.pc = pc,
                                                           !.item = i, !.at = clock']]
      BY <2>1 DEF Edit
    <3>2. PICK d : /\ d = [IdleOp EXCEPT !.kind = "edit", !.pc = pc, !.item = i, !.at = clock']
                   /\ op' = [op EXCEPT ![c] = d]
      BY <3>1
    <3>3. d.kind \in Changes
      BY <3>2 DEF IdleOp, Changes
    <3>4. QED
      BY <3>2, <3>3
  <2>2. CASE Delete(c, i)
    <3>1. PICK d : /\ d = [IdleOp EXCEPT !.kind = "delete", !.pc = "secrets",
                                         !.item = i, !.at = clock']
                   /\ op' = [op EXCEPT ![c] = d]
      BY <2>2 DEF Delete
    <3>2. d.kind \in Changes
      BY <3>1 DEF IdleOp, Changes
    <3>3. QED
      BY <3>1, <3>2
  <2>3. CASE DeleteFolder(c, i)
    <3>1. PICK d : /\ d = [IdleOp EXCEPT !.kind = "purge", !.pc = "bundle",
                                         !.item = i]
                   /\ op' = [op EXCEPT ![c] = d]
      BY <2>3 DEF DeleteFolder
    <3>2. d.kind \in Changes
      BY <3>1 DEF IdleOp, Changes
    <3>3. QED
      BY <3>1, <3>2
  <2>4. QED
    BY <2>1, <2>2, <2>3
<1>4. op'[c] = d /\ \A e \in Call \ {c} : op'[e] = op[e]
  BY <1>1, <1>3
<1>5. ~Locking(c) /\ ~Locking(c)' /\ \A e \in Call \ {c} : Locking(e)' <=> Locking(e)
  BY <1>1, <1>2, <1>3, <1>4 DEF Formed, Locking, Changes
<1>6. \A j \in DOMAIN queue : queue[j] \in Call \ {c}
  BY <1>1, <1>5 DEF OneHolder
<1>7. QED
  BY <1>2, <1>4, <1>5, <1>6 DEF OneHolder

\* A call that asks for the lock waits behind those that asked before.
LEMMA EnqueueJoins ==
    ASSUME IInv, OneHolder, NEW c \in Call, NEW kind \in {"load", "save", "restore"},
           Enqueue(c, kind)
    PROVE  OneHolder'
<1>1. op \in [Call -> OpRec] /\ Formed(op[c]) /\ queue \in Seq(Call)
  BY DEF IInv, OpsFormed, LockInv
<1>2. queue' = Append(queue, c) /\ op[c].pc = "idle"
  BY DEF Enqueue
<1>3. op'[c].kind = kind /\ op'[c].pc = "queued" /\ \A e \in Call \ {c} : op'[e] = op[e]
  <2>1. op' = [op EXCEPT ![c] = [IdleOp EXCEPT !.kind = kind, !.pc = "queued"]]
    BY DEF Enqueue
  <2>2. QED
    BY <1>1, <2>1 DEF IdleOp
<1>4. ~Locking(c) /\ Locking(c)' /\ \A e \in Call \ {c} : Locking(e)' <=> Locking(e)
  BY <1>1, <1>2, <1>3 DEF Formed, Locking
<1>5. /\ Len(queue) \in Nat /\ DOMAIN queue = 1 .. Len(queue)
      /\ DOMAIN queue' = 1 .. Len(queue) + 1
      /\ queue'[Len(queue) + 1] = c /\ \A i \in DOMAIN queue : queue'[i] = queue[i]
  BY <1>1, <1>2
<1>6. \A i \in DOMAIN queue : queue[i] \in Call \ {c}
  BY <1>1, <1>4 DEF OneHolder
<1>7. \A i, j \in DOMAIN queue' : queue'[i] = queue'[j] => i = j
  BY <1>5, <1>6 DEF OneHolder
<1>8. \A i \in DOMAIN queue' : i > 1 => op'[queue'[i]].pc = "queued"
  BY <1>3, <1>5, <1>6 DEF OneHolder
<1>9. ASSUME NEW e \in Call PROVE Locking(e)' <=> \E i \in DOMAIN queue' : queue'[i] = e
  <2>1. CASE e = c
    BY <1>4, <1>5, <2>1
  <2>2. CASE e # c
    BY <1>4, <1>5, <2>2 DEF OneHolder
  <2>3. QED
    BY <2>1, <2>2
<1>10. QED
  BY <1>7, <1>8, <1>9 DEF OneHolder

LEMMA OneHolderStep == IInv /\ OneHolder /\ [Next]_vars => OneHolder'
<1> SUFFICES ASSUME IInv, OneHolder, [Next]_vars PROVE OneHolder'
  OBVIOUS
<1>1. queue \in Seq(Call)
  BY DEF IInv, LockInv
<1>2. ASSUME NEW c \in Call, NEW i \in Item, Edit(c, i) \/ Delete(c, i) \/ DeleteFolder(c, i)
      PROVE  OneHolder'
  BY <1>2, EditAside
<1>3. ASSUME NEW c \in Call, NEW kind \in {"load", "save", "restore"}, Enqueue(c, kind)
      PROVE  OneHolder'
  BY <1>3, EnqueueJoins
<1>4. ASSUME NEW c \in Call, Step(c) PROVE OneHolder'
  BY <1>1, <1>4, StepIsLockStep, LockStepKeeps
<1>5. ASSUME UNCHANGED <<op, queue>> PROVE OneHolder'
  BY <1>5 DEF OneHolder, Locking
<1>6. QED
  BY <1>2, <1>3, <1>4, <1>5 DEF Next, Deliver, SetLocked, vars

\* What the record of the head holds gives it a step.
LEMMA HolderHasStep == IInv /\ OneHolder => HolderMoves
<1> SUFFICES ASSUME IInv, OneHolder, queue # <<>>
             PROVE  LET d == op[Head(queue)]
                    IN  \/ d.pc = "queued" /\ (d.kind = "restore" => backup # None)
                        \/ d.pc \in {"loaded", "restoring", "bundle", "write"}
  BY DEF HolderMoves
<1> DEFINE c == Head(queue)
<1>1. c \in Call /\ 1 \in DOMAIN queue /\ queue[1] = c
  BY DEF IInv, LockInv
<1> HIDE DEF c
<1>2. Locking(c)
  BY <1>1 DEF OneHolder
<1>3. Formed(op[c]) /\ op[c].pc \in Pc
  BY <1>1 DEF IInv, OpsFormed, OpRec
<1>4. op[c].kind \notin Changes /\ op[c].kind # None /\ op[c].pc \notin {"done", "failed"}
  BY <1>2 DEF Locking, Changes
<1>5. \/ op[c].pc = "queued" /\ (op[c].kind = "restore" => backup # None)
      \/ op[c].pc \in {"loaded", "restoring", "bundle", "write"}
  BY <1>3, <1>4 DEF Formed, Pc
<1>6. QED
  BY <1>5 DEF c

\* The lock has one holder at a time, the calls that wait for it do so in their
\* order and each once, the holder always has a step to take, and whoever ends
\* passes the lock on, also a save that throws: nobody waits behind a call that
\* is over. (connectionManager.ts:67-79, 887-897)
THEOREM LockHeldCorrect == Spec => []LockHeld
<1>1. Init => OneHolder
  BY DEF Init, OneHolder, Locking, IdleOp
<1>2. IInv /\ OneHolder /\ [Next]_vars => (IInv /\ OneHolder)'
  BY NextInv, OneHolderStep
<1>3. IInv /\ OneHolder => LockHeld
  BY HolderHasStep DEF LockHeld
<1>4. QED
  BY InitInv, <1>1, <1>2, <1>3, PTL DEF Spec
=============================================================================
