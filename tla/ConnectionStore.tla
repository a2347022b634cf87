-------------------------- MODULE ConnectionStore --------------------------
(***************************************************************************)
(* ConnectionManager (src/services/connectionManager.ts): the store of     *)
(* connections in memory, its two persisted copies, and the passwords in   *)
(* SecretStorage.  Edits change the memory at once and save it later; load,*)
(* save and the restoration of a backup queue up behind a lock, edits do   *)
(* not.  What an item holds is told apart by the time of its last edit.    *)
(***************************************************************************)
EXTENDS Naturals, Sequences

CONSTANTS
    Item,       \* ids of connections and folders
    Call,       \* calls of the manager's methods
    None,
    Syncing,    \* the setting security.syncConnections
    MaxClock    \* bound: edits, here and on another device

ASSUME ClockAssumption == MaxClock \in Nat

VARIABLES
    mem,       \* _store: of each item the last edit, and whether it is there
    version,   \* _storeVersion
    pending,   \* _pendingLocalStore
    shadow,    \* the local copy: items and bundled passwords
    synced,    \* the synchronised copy
    backup,    \* a backup file
    secret,    \* SecretStorage: the edit that set an item's password, 0 none
    locked,    \* the master password is not in memory
    op,        \* what each call does
    queue,     \* _lockQueue: the calls that hold it or wait for it
    clock

disk == <<shadow, synced, backup>>
vars == <<mem, version, pending, disk, secret, locked, op, queue, clock>>

Stamp == 0 .. MaxClock
Value == [Item -> [at : Stamp, alive : BOOLEAN]]
Copy == [val : Value, secret : [Item -> Stamp]]
ASSUME NoneAssumption ==
    /\ None \notin Call /\ None \notin Copy
    /\ None \notin {"edit", "delete", "purge", "load", "save", "restore", "fresh"}

Nothing == [i \in Item |-> [at |-> 0, alive |-> FALSE]]
NoSecret == [i \in Item |-> 0]
IdleOp == [kind |-> None, pc |-> "idle", item |-> None, at |-> 0, ver |-> 0,
           cand |-> None, from |-> None, crossed |-> FALSE, stale |-> FALSE]

IsEmpty(val) == \A i \in Item : ~val[i].alive

Saved == [val |-> [i \in Item |-> [at |-> 0, alive |-> TRUE]], secret |-> NoSecret]

\* The manager has loaded: nothing is stored yet, or everything since long.
Init ==
    /\ \/ /\ mem = Nothing
          /\ shadow = None /\ synced = None /\ backup = None
       \/ /\ mem = Saved.val
          /\ shadow = Saved /\ synced = Saved /\ backup = Saved
    /\ version = 0 /\ pending = None
    /\ secret = NoSecret /\ locked = FALSE
    /\ op = [c \in Call |-> IdleOp]
    /\ queue = <<>> /\ clock = 0

Changes == {"edit", "delete", "purge"}

InFlight(c) == op[c].kind \in Changes /\ op[c].pc \notin {"done", "failed"}

-----------------------------------------------------------------------------
(* Edits: the change is made, then come the awaits. *)

\* addConnection and updateConnection, which may store passwords, the moves
\* and the folders' operations, which store none.
Edit(c, i) ==
    /\ op[c].pc = "idle" /\ clock < MaxClock
    /\ mem[i].alive \/ mem[i].at = 0
    /\ clock' = clock + 1
    /\ version' = version + 1
    /\ mem' = [mem EXCEPT ![i] = [at |-> clock', alive |-> TRUE]]
    /\ \E pc \in {"secrets", "bundle"} :
          op' = [op EXCEPT ![c] = [IdleOp EXCEPT !.kind = "edit", !.pc = pc,
                                                 !.item = i, !.at = clock']]
    /\ UNCHANGED <<pending, disk, secret, locked, queue>>

Delete(c, i) ==
    /\ op[c].pc = "idle" /\ clock < MaxClock
    /\ mem[i].alive
    /\ clock' = clock + 1
    /\ version' = version + 1
    /\ mem' = [mem EXCEPT ![i] = [at |-> clock', alive |-> FALSE]]
    /\ op' = [op EXCEPT ![c] = [IdleOp EXCEPT !.kind = "delete", !.pc = "secrets",
                                              !.item = i, !.at = clock']]
    /\ UNCHANGED <<pending, disk, secret, locked, queue>>

\* deleteFolder with its connections: each is deleted and saved before the
\* folder itself goes.
DeleteFolder(c, i) ==
    /\ op[c].pc = "idle" /\ clock < MaxClock
    /\ mem[i].alive
    /\ version' = version + 1
    /\ op' = [op EXCEPT ![c] = [IdleOp EXCEPT !.kind = "purge", !.pc = "bundle",
                                              !.item = i]]
    /\ UNCHANGED <<mem, pending, disk, secret, locked, queue, clock>>

\* The folder leaves the store the call began with, which may not be the
\* memory any more; the version is that of the beginning.
DropFolder(c) ==
    LET i == op[c].item
    IN  /\ op[c].pc = "drop" /\ clock < MaxClock
        /\ clock' = clock + 1
        /\ mem' = IF op[c].stale THEN mem
                  ELSE [mem EXCEPT ![i] = [at |-> clock', alive |-> FALSE]]
        /\ op' = [op EXCEPT ![c].pc = "bundle", ![c].at = clock',
                             ![c].stale = FALSE]
        /\ UNCHANGED <<version, pending, disk, secret, locked, queue>>

StoreSecrets(c) ==
    /\ op[c].pc = "secrets"
    /\ secret' = [secret EXCEPT ![op[c].item] = IF op[c].kind = "edit" THEN op[c].at
                                                                      ELSE 0]
    /\ op' = [op EXCEPT ![c].pc = "bundle"]
    /\ UNCHANGED <<mem, version, pending, disk, locked, queue, clock>>

-----------------------------------------------------------------------------
(* _saveCore: the passwords are read one by one, then all is written. *)

Bundle(c) ==
    /\ op[c].pc = "bundle"
    /\ op' = [op EXCEPT ![c].pc = "write",
                        ![c].cand = [i \in Item |-> IF mem[i].alive /\ ~locked
                                                    THEN secret[i] ELSE 0]]
    /\ UNCHANGED <<mem, version, pending, disk, secret, locked, queue, clock>>

\* saveStore: both copies get what the memory holds now.
Persist(bundle) ==
    /\ synced' = [val |-> mem, secret |-> bundle]
    /\ shadow' = synced'

\* The lock passes on, if c holds it.
Release(c) == queue' = IF queue # <<>> /\ Head(queue) = c THEN Tail(queue) ELSE queue

Ended(c, pc) == [op EXCEPT ![c].pc = pc, ![c].cand = None, ![c].ver = 0]

\* Variant for sensitivity: a save that throws keeps the lock.
WriteKeepsLock(c) ==
    /\ op[c].pc = "write"
    /\ \/ /\ locked
          /\ op' = Ended(c, "failed")
          /\ UNCHANGED <<disk, queue>>
       \/ /\ ~locked
          /\ Persist(op[c].cand)
          /\ backup' = IF backup = None THEN synced' ELSE backup
          /\ op' = Ended(c, IF op[c].kind = "purge" /\ op[c].at = 0 THEN "drop" ELSE "done")
          /\ Release(c)
    /\ UNCHANGED <<mem, version, pending, secret, locked, clock>>

\* A locked store throws; a backup is made once a day.
Write(c) ==
    /\ op[c].pc = "write"
    /\ \/ /\ locked
          /\ op' = Ended(c, "failed")
          /\ UNCHANGED disk
       \/ /\ ~locked
          /\ Persist(op[c].cand)
          /\ backup' = IF backup = None THEN synced' ELSE backup
          /\ op' = Ended(c, IF op[c].kind = "purge" /\ op[c].at = 0 THEN "drop" ELSE "done")
    /\ Release(c)
    /\ UNCHANGED <<mem, version, pending, secret, locked, clock>>

-----------------------------------------------------------------------------
(* _withLock: load, save and restoreFromBackup, one at a time. *)

Enqueue(c, kind) ==
    /\ op[c].pc = "idle"
    /\ kind = "restore" => backup # None
    /\ op' = [op EXCEPT ![c] = [IdleOp EXCEPT !.kind = kind, !.pc = "queued"]]
    /\ queue' = Append(queue, c)
    /\ UNCHANGED <<mem, version, pending, disk, secret, locked, clock>>

Turn(c) == op[c].pc = "queued" /\ queue # <<>> /\ Head(queue) = c

StartSave(c) ==
    /\ Turn(c) /\ op[c].kind = "save"
    /\ op' = [op EXCEPT ![c].pc = "bundle"]
    /\ UNCHANGED <<mem, version, pending, disk, secret, locked, queue, clock>>

\* _mergeStores, item by item; StoreMerge has it in full.
Merge(l, r) ==
    LET Local(i) == l.val[i].at >= r.val[i].at
    IN  [val    |-> [i \in Item |-> IF Local(i) THEN l.val[i] ELSE r.val[i]],
         secret |-> [i \in Item |-> IF Local(i) THEN l.secret[i] ELSE r.secret[i]]]

\* Both copies are read; the edits that are under way are not in them yet.
LoadRead(c) ==
    /\ Turn(c) /\ op[c].kind = "load"
    /\ LET inMemory == IF IsEmpty(mem) THEN None ELSE [val |-> mem, secret |-> NoSecret]
           local == IF shadow # None /\ ~locked THEN shadow
                    ELSE IF pending # None THEN pending ELSE inMemory
           remote == IF locked THEN None ELSE synced
           from == IF remote # None /\ local # None /\ Syncing THEN "merge"
                   ELSE IF remote # None THEN "remote"
                   ELSE IF local # None THEN "local" ELSE "fresh"
           cand == CASE from = "merge"  -> Merge(local, remote)
                     [] from = "remote" -> remote
                     [] from = "local"  -> local
                     [] OTHER           -> [val |-> Nothing, secret |-> NoSecret]
       IN  /\ pending' = local
           /\ op' = [d \in Call |->
                       IF d = c THEN [op[c] EXCEPT !.pc = "loaded", !.ver = version,
                                                   !.cand = cand, !.from = from]
                       ELSE IF InFlight(d) THEN [op[d] EXCEPT !.crossed = TRUE]
                       ELSE op[d]]
    /\ UNCHANGED <<mem, version, disk, secret, locked, queue, clock>>

\* Variant for sensitivity: an edit since LoadRead is not noticed.
ApplicableAlways(c) == ~(IsEmpty(op[c].cand.val) /\ ~IsEmpty(mem))

\* Neither an edit since LoadRead nor an empty store may replace the memory.
Applicable(c) ==
    /\ version = op[c].ver
    /\ ~(IsEmpty(op[c].cand.val) /\ ~IsEmpty(mem))

\* Calls that keep the store they began with no longer have the memory.
Replaced(calls) ==
    [d \in Call |-> [calls[d] EXCEPT !.stale =
                       @ \/ (calls[d].kind = "purge" /\ calls[d].at = 0)]]

LoadApply(c) ==
    /\ op[c].pc = "loaded"
    /\ LET restores == Applicable(c) /\ op[c].from \in {"merge", "remote"}
           next == IF restores THEN [op EXCEPT ![c].pc = "restoring"]
                   ELSE Ended(c, "done")
       IN  /\ mem' = IF Applicable(c) THEN op[c].cand.val ELSE mem
           /\ op' = IF Applicable(c) THEN Replaced(next) ELSE next
           /\ IF restores THEN UNCHANGED <<pending, queue>>
              ELSE pending' = None /\ Release(c)
    /\ UNCHANGED <<version, disk, secret, locked, clock>>

\* The passwords of a merge replace those in SecretStorage, others fill gaps.
Restored(copy, force) ==
    [i \in Item |-> IF copy.secret[i] # 0 /\ (force \/ secret[i] = 0)
                    THEN copy.secret[i] ELSE secret[i]]

RestoreSecrets(c) ==
    /\ op[c].pc = "restoring"
    /\ secret' = Restored(op[c].cand, op[c].from # "remote")
    /\ pending' = None
    /\ IF op[c].kind = "load"
       THEN op' = Ended(c, "done") /\ Release(c)
       ELSE op' = [op EXCEPT ![c].pc = "bundle"] /\ UNCHANGED queue
    /\ UNCHANGED <<mem, version, disk, locked, clock>>

\* The backup becomes the store, whatever is newer.
RestoreFromBackup(c) ==
    /\ Turn(c) /\ op[c].kind = "restore"
    /\ version' = version + 1
    /\ mem' = backup.val
    /\ pending' = None
    /\ op' = Replaced([op EXCEPT ![c].pc = "restoring", ![c].cand = backup,
                                 ![c].from = "backup"])
    /\ UNCHANGED <<disk, secret, locked, queue, clock>>

-----------------------------------------------------------------------------
(* The environment *)

\* Settings Sync replaces the synchronised copy by that of another device,
\* which has edited an item and may not know the last edits made here.
Deliver(i, alive) ==
    /\ Syncing /\ clock < MaxClock /\ synced # None
    /\ clock' = clock + 1
    /\ \E base \in {synced, backup} :
          synced' = [val |-> [base.val EXCEPT ![i] = [at |-> clock', alive |-> alive]],
                     secret |-> [base.secret EXCEPT ![i] = IF alive THEN clock' ELSE 0]]
    /\ UNCHANGED <<mem, version, pending, shadow, backup, secret, locked, op, queue>>

SetLocked(l) ==
    /\ locked' = l /\ locked # l
    /\ UNCHANGED <<mem, version, pending, disk, secret, op, queue, clock>>

Step(c) ==
    \/ StoreSecrets(c) \/ DropFolder(c) \/ Bundle(c) \/ Write(c) \/ StartSave(c) \/ LoadRead(c)
    \/ LoadApply(c) \/ RestoreSecrets(c) \/ RestoreFromBackup(c)

Next ==
    \/ \E c \in Call :
         \/ \E i \in Item : Edit(c, i) \/ Delete(c, i) \/ DeleteFolder(c, i)
         \/ \E kind \in {"load", "save", "restore"} : Enqueue(c, kind)
         \/ Step(c)
    \/ \E i \in Item, alive \in BOOLEAN : Deliver(i, alive)
    \/ \E l \in BOOLEAN : SetLocked(l)

Spec == Init /\ [][Next]_vars

-----------------------------------------------------------------------------
(* Properties *)

\* Every variable has its type, and a call at work on a store or on a bundle of
\* passwords has one in hand: no merge, restoration or delivery makes a copy
\* that is not one. (connectionManager.ts:49-58, 281-425, 840-912)
TypeOK ==
    /\ mem \in Value /\ version \in Nat /\ locked \in BOOLEAN
    /\ {shadow, synced, backup, pending} \subseteq Copy \cup {None}
    /\ secret \in [Item -> Stamp] /\ clock \in Stamp
    /\ queue \in Seq(Call)
    /\ \A c \in Call :
         /\ op[c].kind \in Changes \cup {"load", "save", "restore", None}
         /\ op[c].pc \in {"idle", "secrets", "queued", "loaded", "restoring", "bundle",
                          "write", "drop", "done", "failed"}
         /\ op[c].pc \in {"loaded", "restoring"} => op[c].cand \in Copy
         /\ op[c].pc = "write" => op[c].cand \in [Item -> Stamp]
         /\ op[c].kind \in Changes => op[c].item \in Item /\ op[c].at <= clock

Authoritative == \E c \in Call : op[c].kind = "restore" /\ op[c].pc # "queued"

\* A load that finds nothing, as when the store is locked and the last
\* connection deleted, starts afresh and forgets the deletions.
Forgotten == \E c \in Call : op[c].from = "fresh"

\* An edit or deletion that has returned is on the disk of this device and
\* stays there, whatever is loaded, saved or delivered meanwhile; only a backup
\* that is restored undoes it.  Not so for one that was under way when a load
\* read the copies: see EditIsKept.
ReturnedIsSaved ==
    \A c \in Call :
        op[c].kind \in Changes /\ op[c].pc = "done"
        /\ ~op[c].crossed /\ ~Authoritative /\ ~Forgotten
        => shadow.val[op[c].item].at >= op[c].at

\* load, save and restoreFromBackup, from the call to its end.
Locking(c) == op[c].kind \in {"load", "save", "restore"} /\ op[c].pc \notin {"done", "failed"}

\* A call that is under way waits for the lock, in the order of the calls, or
\* holds it, and only the holder gets on. (connectionManager.ts:67-79)
OneHolder ==
    /\ \A i, j \in DOMAIN queue : queue[i] = queue[j] => i = j
    /\ \A c \in Call : Locking(c) <=> \E i \in DOMAIN queue : queue[i] = c
    /\ \A i \in DOMAIN queue : i > 1 => op[queue[i]].pc = "queued"

\* The holder never waits for another: it is at a step that asks for nothing
\* more, a restoration having the backup it needs. (connectionManager.ts:887-897)
HolderMoves ==
    queue # <<>> => LET d == op[Head(queue)]
                    IN  \/ d.pc = "queued" /\ (d.kind = "restore" => backup # None)
                        \/ d.pc \in {"loaded", "restoring", "bundle", "write"}

\* The lock is held by one at a time, is passed on by every call that ends,
\* also by one that throws, and nobody waits behind a holder that cannot move.
LockHeld == OneHolder /\ HolderMoves

(* What a comment says and the code does not do *)

\* "so that a concurrent load() can detect it was pre-empted and must not
\* overwrite fresh data": an edit that has returned is kept.
EditIsKept ==
    \A c \in Call :
        op[c].kind = "edit" /\ op[c].pc = "done" /\ ~Authoritative /\ ~Forgotten
        => mem[op[c].item].at >= op[c].at
=============================================================================
