-------------------------------- MODULE Sync --------------------------------
(***************************************************************************)
(* SyncService (src/services/syncService.ts) on several devices.  Each     *)
(* saves its store under a key that VS Code's Settings Sync carries; what  *)
(* arrives is noticed by the fingerprint of the blob, merged with the      *)
(* device's own copy, and written back if the merge brought anything new.  *)
(* A save writes one copy and then the other; the saves of a device follow *)
(* one another here, and a load is a step: a run that brings nothing new   *)
(* is over with it. ConnectionStore has saves and loads that overlap.      *)
(***************************************************************************)
EXTENDS Naturals

CONSTANTS
    Device, Item, None,
    Folder,        \* the items that are folders
    MaxClock,      \* bound: ticks of the clock, in each of which a device edits an
                   \* item at most once
    MaxRestart,    \* bound: restarts of VS Code
    Retries        \* RETRY_DELAYS_MS.length

ASSUME RetriesAssumption == Retries \in Nat \ {0}
ASSUME FolderAssumption == Folder \subseteq Item
ASSUME ClockAssumption == MaxClock \in Nat \ {0}

VARIABLES
    mem,       \* of each device: the store in memory
    shadow,    \* the copy that is not synchronised
    blob,      \* the copy that is
    cloud,     \* what Settings Sync holds
    stale,     \* the cloud has changed since the device's last exchange
    dirty,     \* blob has been written since then
    fresh,     \* _fingerprint is that of blob
    push,      \* _pushDebounceTimer is set
    retry,     \* retries that are left while _retryTimer is set, else None
    run,       \* _runSync under way: None, TRUE once load() has brought something
               \* new, FALSE while that is saved
    saving,    \* what a save has written to blob and not yet to shadow, or None
    clock, restarts,
    made,      \* of each item: when and by whom it was edited or deleted
    torn       \* devices that have loaded between the two writes of a save, when
               \* Settings Sync had already replaced what the first had written

copies == <<mem, shadow, blob, saving, torn>>
wire == <<cloud, stale, dirty>>
bounds == <<clock, restarts, made>>
vars == <<copies, wire, fresh, push, retry, run, bounds>>

\* The last edit or deletion of each item; at most one per device and time.
Record == [at : 0 .. MaxClock, alive : BOOLEAN, by : Device \cup {None}]
Nothing == [i \in Item |-> [at |-> 0, alive |-> FALSE, by |-> None]]

Init ==
    /\ mem = [d \in Device |-> Nothing] /\ shadow = mem /\ blob = mem
    /\ cloud = Nothing
    /\ stale = [d \in Device |-> FALSE] /\ dirty = stale /\ fresh = stale
    /\ push = stale
    /\ retry = [d \in Device |-> Retries]
    /\ run = [d \in Device |-> None] /\ saving = run /\ torn = {}
    /\ clock = 1 /\ restarts = 0
    /\ made = [i \in Item |-> {<<0, None>>}]

\* Variant for sensitivity: what was deleted comes back with any record of it.
MergeUndead(l, r) ==
    [i \in Item |-> IF l[i].alive THEN l[i]
                    ELSE IF r[i].alive \/ l[i].at < r[i].at THEN r[i] ELSE l[i]]

\* _mergeStores: the later record wins, the local one on a tie; a deletion
\* only beats what is older than it.
Merge(l, r) ==
    [i \in Item |-> IF \/ l[i].at < r[i].at
                       \/ l[i].at = r[i].at /\ r[i].alive /\ ~l[i].alive
                    THEN r[i] ELSE l[i]]

\* Variant for sensitivity: what was loaded is written back in any case.
ChangedAlways(old, new) == TRUE

\* What load() counts: items that appeared or went, and connections that were
\* updated.
Changed(old, new) ==
    \E i \in Item : \/ old[i].alive # new[i].alive
                    \/ i \notin Folder /\ new[i].alive /\ new[i].at > old[i].at

-----------------------------------------------------------------------------
(* Settings Sync: what the cloud has is taken over what the device has.    *)

Exchanged(d) ==
    \/ /\ stale[d]
       /\ blob' = [blob EXCEPT ![d] = cloud]
       /\ stale' = [stale EXCEPT ![d] = FALSE]
       /\ dirty' = [dirty EXCEPT ![d] = FALSE]
       /\ UNCHANGED cloud
    \/ /\ ~stale[d] /\ dirty[d]
       /\ cloud' = blob[d]
       /\ stale' = [e \in Device |-> e # d]
       /\ dirty' = [dirty EXCEPT ![d] = FALSE]
       /\ UNCHANGED blob

\* _triggerVsCodeSync: nothing to exchange, or the command fails, which is
\* ignored.
Exchange(d) == Exchanged(d) \/ UNCHANGED <<blob, wire>>

\* The blob the device had in mind is still there.
StillFresh(d) == fresh[d] /\ ~(stale[d] /\ ~stale'[d])

\* Settings Sync also runs of its own accord.
Background(d) ==
    /\ Exchanged(d)
    /\ fresh' = [fresh EXCEPT ![d] = StillFresh(d)]
    /\ UNCHANGED <<mem, shadow, saving, torn, push, retry, run, bounds>>

-----------------------------------------------------------------------------
(* Edits *)

\* saveStore writes the synchronised key first ...
Save(d, val) ==
    /\ saving[d] = None
    /\ blob' = [blob EXCEPT ![d] = val]
    /\ saving' = [saving EXCEPT ![d] = val]
    /\ dirty' = [dirty EXCEPT ![d] = TRUE]
    /\ fresh' = [fresh EXCEPT ![d] = FALSE]
    /\ UNCHANGED <<shadow, torn, cloud, stale>>

\* ... and then the other. onDidChange, which follows an edit that is saved,
\* notes the fingerprint, whatever the blob holds, and has the change pushed in
\* two seconds, unless a run is under way. A run notes the fingerprint after its
\* save too, and is over.
SaveEnds(d) ==
    /\ saving[d] # None
    /\ shadow' = [shadow EXCEPT ![d] = saving[d]]
    /\ saving' = [saving EXCEPT ![d] = None]
    /\ fresh' = [fresh EXCEPT ![d] = TRUE]
    /\ push' = [push EXCEPT ![d] = @ \/ run[d] = None]
    /\ run' = [run EXCEPT ![d] = IF @ = FALSE THEN None ELSE @]
    /\ UNCHANGED <<mem, blob, torn, wire, retry, bounds>>

\* A device edits an item once in a tick.
Change(d, i, alive) ==
    /\ mem[d][i].at < clock /\ <<clock, d>> \notin made[i]
    /\ alive \/ mem[d][i].alive
    /\ mem' = [mem EXCEPT ![d][i] = [at |-> clock, alive |-> alive, by |-> d]]
    /\ Save(d, mem'[d])
    /\ made' = [made EXCEPT ![i] = @ \cup {<<clock, d>>}]
    /\ UNCHANGED <<push, retry, run, clock, restarts>>

Tick ==
    /\ clock < MaxClock
    /\ clock' = clock + 1
    /\ UNCHANGED <<copies, wire, fresh, push, retry, run, restarts, made>>

PushDue(d) ==
    /\ push[d]
    /\ push' = [push EXCEPT ![d] = FALSE]
    /\ Exchange(d)
    /\ fresh' = [fresh EXCEPT ![d] = StillFresh(d)]
    /\ UNCHANGED <<mem, shadow, saving, torn, retry, run, bounds>>

-----------------------------------------------------------------------------
(* Synchronisation runs *)

\* load() does not replace what it lists by nothing at all.
Refused(d, new) == (\E i \in Item : mem[d][i].alive) /\ \A i \in Item : ~new[i].alive

\* The memory falls behind what is being saved.
Misses(d, new) == saving[d] # None /\ \E i \in Item : new[i].at < saving[d][i].at

\* _runSync up to the end of load(), which fires onDidChange, and to its own if
\* there is nothing to save.  The fingerprint is then that of the blob, whatever
\* it holds.
Load(d) ==
    LET new == Merge(shadow[d], blob'[d])
    IN  /\ IF Refused(d, new)
           THEN UNCHANGED <<mem, torn, run>>
           ELSE /\ mem' = [mem EXCEPT ![d] = new]
                /\ run' = [run EXCEPT ![d] = IF Changed(mem[d], new) THEN TRUE ELSE None]
                /\ torn' = IF Misses(d, new) THEN torn \cup {d}
                           ELSE IF saving[d] = None THEN torn \ {d} ELSE torn
        /\ fresh' = [fresh EXCEPT ![d] = TRUE]

\* A focus of the window, or a poll: a run if the fingerprint differs.  A run
\* that is under way makes this one return, its fingerprint noted.
Check(d) ==
    /\ Exchange(d)
    /\ IF StillFresh(d) \/ run[d] # None
       THEN /\ fresh' = [fresh EXCEPT ![d] = TRUE]
            /\ UNCHANGED <<mem, torn, run>>
       ELSE Load(d)
    /\ UNCHANGED <<shadow, saving, push, retry, bounds>>

SyncNow(d) ==
    /\ Exchange(d)
    /\ run[d] = None
    /\ Load(d)
    /\ UNCHANGED <<shadow, saving, push, retry, bounds>>

\* A retry ends the series when there was data; one that finds a run under
\* way, or whose load is refused, leaves the others to follow.
Retry(d) ==
    /\ retry[d] # None
    /\ Exchange(d)
    /\ IF run[d] # None
       THEN /\ fresh' = [fresh EXCEPT ![d] = StillFresh(d)]
            /\ UNCHANGED <<mem, torn, run>>
       ELSE Load(d)
    /\ retry' = [retry EXCEPT ![d] =
                    IF @ = 1 \/ (run[d] = None /\ ~Refused(d, Merge(shadow[d], blob'[d])))
                    THEN None ELSE @ - 1]
    /\ UNCHANGED <<shadow, saving, push, bounds>>

\* The rest of _runSync: save() if load() brought something new.
Finish(d) ==
    /\ run[d] = TRUE
    /\ Save(d, mem[d])
    /\ run' = [run EXCEPT ![d] = FALSE]
    /\ UNCHANGED <<mem, push, retry, bounds>>

\* VS Code is closed at any time and started again: activation loads, and
\* schedules retries.
Restart(d) ==
    /\ restarts < MaxRestart
    /\ restarts' = restarts + 1
    /\ mem' = [mem EXCEPT ![d] = Merge(shadow[d], blob[d])]
    /\ fresh' = [fresh EXCEPT ![d] = FALSE]
    /\ push' = [push EXCEPT ![d] = FALSE]
    /\ retry' = [retry EXCEPT ![d] = Retries]
    /\ run' = [run EXCEPT ![d] = None]
    /\ saving' = [saving EXCEPT ![d] = None] /\ torn' = torn \ {d}
    /\ UNCHANGED <<shadow, blob, wire, clock, made>>

Next ==
    \/ \E d \in Device :
         \/ \E i \in Item, alive \in BOOLEAN : Change(d, i, alive)
         \/ Background(d) \/ PushDue(d) \/ Check(d) \/ SyncNow(d) \/ Retry(d)
         \/ SaveEnds(d) \/ Finish(d) \/ Restart(d)
    \/ Tick

Spec == Init /\ [][Next]_vars

\* The poll comes round every minute, a debounce and a retry are timers, a save
\* and a run end, and Settings Sync is not down for good.  Nobody is bound to
\* edit, to restart or to press Sync Now.
FairSpec ==
    /\ Spec
    /\ \A d \in Device :
         /\ WF_vars(Check(d)) /\ WF_vars(PushDue(d)) /\ WF_vars(Retry(d))
         /\ WF_vars(SaveEnds(d)) /\ WF_vars(Finish(d)) /\ WF_vars(Background(d))

-----------------------------------------------------------------------------
(* Properties *)

\* Every variable has its type; what a device knows by its own copy is in the
\* memory, unless the device is torn.
TypeOK ==
    /\ {mem, shadow, blob} \subseteq [Device -> [Item -> Record]]
    /\ saving \in [Device -> [Item -> Record] \cup {None}]
    /\ cloud \in [Item -> Record]
    /\ {stale, dirty, fresh, push} \subseteq [Device -> BOOLEAN]
    /\ retry \in [Device -> 1 .. Retries \cup {None}]
    /\ run \in [Device -> BOOLEAN \cup {None}]
    /\ \A d \in Device \ torn, i \in Item : shadow[d][i].at <= mem[d][i].at

\* The devices together behave as a last-writer-wins store: by exchanges,
\* merges, write-backs, refused loads and restarts, also one between the two
\* writes of a save, the copy a device keeps for itself only learns changes
\* somebody made, and never goes back behind an edit or a deletion it has held,
\* unless the device is torn. (encryptionService.ts:376-406) The memory does go
\* back: a deletion of what the device did not list is not written back.
Known == [d \in Device |-> [i \in Item |-> shadow[d][i].at]]
Made == [i \in Item |-> {e[1] : e \in made[i]}]
LWW == INSTANCE LastWriterWins WITH known <- Known, made <- Made, Time <- 1 .. MaxClock
Converging == LWW!Spec

\* When nobody edits any more the devices come to rest: no write-back of a
\* merge makes the other device write back in turn, forever.
Quiesces == <>[](\A d \in Device : ~dirty[d] /\ ~stale[d])

(* What a comment says and the code does not do *)

\* "After local mutations, debounce-push to VS Code Settings Sync so the other
\* device receives changes promptly": what one device knows, the others get to
\* know, at some time.
Received ==
    \A d, e \in Device, i \in Item, t \in 1 .. MaxClock :
        mem[d][i].at = t ~> mem[e][i].at >= t
=============================================================================
