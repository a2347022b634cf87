---------------------------- MODULE CacheService ----------------------------
(***************************************************************************)
(* The cache of remote metadata and contents (src/services/cacheService    *)
(* .ts) that the file system provider and the chat tools share.  Four maps *)
(* with expiring entries; the one with contents has a byte budget, kept by *)
(* a counter, and evicts in the order of its Map.  Every operation is      *)
(* synchronous, so a step is a call.                                       *)
(***************************************************************************)
EXTENDS Integers, Sequences

CONSTANTS
    Conn,       \* connection ids
    Path,       \* normalized remote paths
    ParentOf,   \* the parent directory of a path; of the root, itself
    Size,       \* sizes the contents may have
    Budget,     \* values of the size limit
    Ttl,        \* values of the two times to live
    MaxTime,    \* bound on the clock
    MaxCounter  \* bound: nothing is cached once the counter is above it

VARIABLES
    content,    \* _contentCache: its entries in insertion order
    counter,    \* _currentContentSize
    meta,       \* _statCache, _dirCache, _notFoundCache: expiry of each key
    budget,     \* _maxContentSizeBytes
    ttl,        \* _statTtlMs, _contentTtlMs
    now         \* the clock

vars == <<content, counter, meta, budget, ttl, now>>

\* _makeKey
Key == Conn \X Path

Map == {"stat", "dir", "notFound"}

Absent == -1

-----------------------------------------------------------------------------
(* Operators *)

Bytes(entries) ==
    LET sum[n \in 0 .. Len(entries)] ==
            IF n = 0 THEN 0 ELSE sum[n - 1] + entries[n].size
    IN  sum[Len(entries)]

\* The entries of the keys, in their order.
Within(entries, keys) ==
    LET kept[n \in 0 .. Len(entries)] ==
            IF n = 0 THEN <<>>
            ELSE IF entries[n].key \in keys THEN Append(kept[n - 1], entries[n])
            ELSE kept[n - 1]
    IN  kept[Len(entries)]

Without(entries, keys) == Within(entries, Key \ keys)

\* Map.set: the entry of a key that is present keeps its place.
Put(entries, entry) ==
    IF \E i \in DOMAIN entries : entries[i].key = entry.key
    THEN [i \in DOMAIN entries |->
            IF entries[i].key = entry.key THEN entry ELSE entries[i]]
    ELSE Append(entries, entry)

\* Variant for sensitivity: the loop looks at what is there, not at what comes.
OverflowedIgnoresNew(n) ==
    CHOOSE j \in 0 .. Len(content) :
        LET Fits(i) == counter - Bytes(SubSeq(content, 1, i)) <= budget
        IN  /\ Fits(j) \/ j = Len(content)
            /\ \A i \in 0 .. j - 1 : ~Fits(i)

\* How many entries, from the oldest, the loop of setContent evicts before n
\* more bytes seem to fit.
Overflowed(n) ==
    CHOOSE j \in 0 .. Len(content) :
        LET Fits(i) == counter - Bytes(SubSeq(content, 1, i)) + n <= budget
        IN  /\ Fits(j) \/ j = Len(content)
            /\ \A i \in 0 .. j - 1 : ~Fits(i)

\* The maps with every key of keys removed from those of which.
Forget(which, keys) ==
    [m \in Map |-> [k \in Key |-> IF m \in which /\ k \in keys
                                  THEN Absent ELSE meta[m][k]]]

\* _evictContent, of every key of keys.
EvictContent(keys) ==
    /\ counter' = counter - Bytes(Within(content, keys))
    /\ content' = Without(content, keys)

-----------------------------------------------------------------------------
Init ==
    /\ content = <<>>
    /\ counter = 0
    /\ meta = [m \in Map |-> [k \in Key |-> Absent]]
    /\ budget \in Budget
    /\ ttl \in [{"stat", "content"} -> Ttl]
    /\ now = 0

UpdateConfig ==
    /\ budget' \in Budget
    /\ ttl' \in [{"stat", "content"} -> Ttl]
    /\ UNCHANGED <<content, counter, meta, now>>

\* setStat, setDirectory
SetMeta(m, k) ==
    /\ meta' = [Forget({"notFound"}, {k}) EXCEPT ![m][k] = now + ttl["stat"]]
    /\ UNCHANGED <<content, counter, budget, ttl, now>>

SetNotFound(k) ==
    /\ EvictContent({k})
    /\ meta' = [Forget({"stat", "dir"}, {k}) EXCEPT
                  !["notFound"][k] = now + ttl["stat"]]
    /\ UNCHANGED <<budget, ttl, now>>

\* The oldest entries go until the new one seems to fit; one that never can
\* is not cached, and what is known of its path stays.
SetContent(k, n) ==
    LET dropped == Overflowed(n)
        kept    == SubSeq(content, dropped + 1, Len(content))
        left    == counter - Bytes(SubSeq(content, 1, dropped))
    IN  /\ counter <= MaxCounter
        /\ IF n > budget
           THEN /\ content' = kept
                /\ counter' = left
                /\ UNCHANGED meta
           ELSE /\ content' = Put(kept, [key |-> k, size |-> n,
                                         expires |-> now + ttl["content"]])
                /\ counter' = left + n
                /\ meta' = Forget({"notFound"}, {k})
        /\ UNCHANGED <<budget, ttl, now>>

\* _get of getStat, getDirectory and getNotFound that finds the entry expired.
ExpireMeta(m, k) ==
    /\ meta[m][k] # Absent
    /\ now > meta[m][k]
    /\ meta' = Forget({m}, {k})
    /\ UNCHANGED <<content, counter, budget, ttl, now>>

\* _get of getContent that does: the map entry is deleted, nothing else.
ExpireContent(k) ==
    /\ \E i \in DOMAIN content : content[i].key = k /\ now > content[i].expires
    /\ content' = Without(content, {k})
    /\ UNCHANGED <<counter, meta, budget, ttl, now>>

InvalidatePath(c, p) ==
    /\ EvictContent({<<c, p>>})
    /\ meta' = [m \in Map |->
                  [Forget(Map, {<<c, p>>})[m] EXCEPT ![<<c, ParentOf[p]>>] =
                     IF m = "dir" THEN Absent ELSE @]]
    /\ UNCHANGED <<budget, ttl, now>>

InvalidateConnection(c) ==
    /\ EvictContent({c} \X Path)
    /\ meta' = Forget(Map, {c} \X Path)
    /\ UNCHANGED <<budget, ttl, now>>

\* clearAll, dispose
ClearAll ==
    /\ content' = <<>>
    /\ counter' = 0
    /\ meta' = Forget(Map, Key)
    /\ UNCHANGED <<budget, ttl, now>>

Tick ==
    /\ now < MaxTime
    /\ now' = now + 1
    /\ UNCHANGED <<content, counter, meta, budget, ttl>>

Next ==
    \/ UpdateConfig
    \/ \E k \in Key :
         \/ \E m \in {"stat", "dir"} : SetMeta(m, k)
         \/ SetNotFound(k)
         \/ \E n \in Size : SetContent(k, n)
         \/ \E m \in Map : ExpireMeta(m, k)
         \/ ExpireContent(k)
    \/ \E c \in Conn, p \in Path : InvalidatePath(c, p)
    \/ \E c \in Conn : InvalidateConnection(c)
    \/ ClearAll
    \/ Tick

Spec == Init /\ [][Next]_vars

-----------------------------------------------------------------------------
(* Properties *)

\* Every variable has its type; a key has at most one content entry.
TypeOK ==
    /\ content \in Seq([key : Key, size : Size, expires : Nat])
    /\ \A i, j \in DOMAIN content : content[i].key = content[j].key => i = j
    /\ counter \in Nat
    /\ meta \in [Map -> [Key -> Nat \cup {Absent}]]
    /\ budget \in Budget
    /\ ttl \in [{"stat", "content"} -> Ttl]
    /\ now \in 0 .. MaxTime

\* The counter that the limit is tested with never falls below the bytes the
\* map holds, whatever sequence of overwrites, expiries and evictions.
NeverUndercounts == counter >= Bytes(content)

\* The map never grows past the limit: a call that adds bytes leaves it within
\* the budget of the moment, also after the budget was lowered.
WithinBudget ==
    [][Bytes(content') > Bytes(content) => Bytes(content') <= budget]_vars

(* What a comment says and the code does not do *)

\* Line 84, "Evict oldest entries if we exceed max size": setContent evicts
\* other entries only when the bytes would exceed the limit.
EvictsOnlyWhenFull ==
    [][\A k \in Key, n \in Size :
         SetContent(k, n) /\ Overflowed(n) > 0 =>
           Bytes(content) + n > budget]_vars
=============================================================================
