------------------------- MODULE FileSystemProvider -------------------------
(***************************************************************************)
(* The file system provider (src/providers/fileSystemProvider.ts) between  *)
(* VS Code, the cache and the adapters of one connection, seen from one    *)
(* file and the directory it is in.  A request runs synchronously to its   *)
(* first await, and again from each reply to the next; in between other    *)
(* requests, mutations and polls of the watcher run.  Cached entries may   *)
(* expire at any time, which stands for the clock of the cache.            *)
(***************************************************************************)
EXTENDS Naturals, FiniteSets

CONSTANTS
    Call,          \* stat, readFile and readDirectory calls by VS Code
    Req,           \* the requests they start
    Mutation,      \* writes and deletes of the file
    Tick,          \* polls of the directory's watcher
    Probing,       \* BOOLEAN: FTP, and the file's path is a probe path
    MaxExternal,   \* bound on changes by other clients of the server
    MaxLosses,     \* bound on lost connections
    MaxSuspends,   \* bound on manual disconnects
    None,          \* nothing
    Missing,       \* the result FileNotFound
    Failed         \* any other error

ASSUME ProviderAssumption ==
    /\ Probing \in BOOLEAN
    /\ None \notin Req
    /\ {MaxExternal, MaxLosses, MaxSuspends} \subseteq Nat
    /\ Cardinality({None, Missing, Failed}) = 3

VARIABLES
    remote,      \* the file on the server: which change made it, if it exists
    cache,       \* what CacheService has of the file and of the listing
    pending,     \* _pendingStats, _pendingFiles, ...: the request to join
    req,         \* requests: phase, what the server answered, retried
    call,        \* calls: which request they wait for, what they returned
    mutation,    \* writes and deletes
    tick,        \* polls in flight
    version,     \* _pathMutationVersions of the directory
    versions,    \* _mutationVersion
    snapshot,    \* lastSnapshot of the watcher
    watching,    \* the interval is set
    suspended,   \* manual disconnect: "no", "closing" or "yes"
    losses, suspends, externals,   \* counters for the bounds
    settled,     \* history: the newest change a finished mutation made
    raced        \* history: a mutation finished, or the versions were
                 \* cleared, while an older reply was due

bounds == <<losses, suspends, externals>>
reads == <<pending, req, call>>
watch == <<tick, snapshot, watching>>
history == <<settled, raced>>
mutations == <<mutation, version, versions, history>>
vars == <<remote, cache, reads, mutations, watch, suspended, bounds>>

Kind == {"stat", "read", "list", "probe"}

\* A state of the file: the change that made it, and whether it exists.
State == [stamp : Nat, present : BOOLEAN]

Cached == {"stat", "content", "notFound", "listing"}

-----------------------------------------------------------------------------
(* The cache, as the provider uses it *)

SetStat(c, s) == [c EXCEPT !["stat"] = s, !["notFound"] = None]

SetContent(c, s) == [c EXCEPT !["content"] = s, !["notFound"] = None]

SetNotFound(c, s) ==
    [c EXCEPT !["stat"] = None, !["content"] = None, !["notFound"] = s]

\* Variant for sensitivity: the parent's listing is forgotten about.
InvalidateOnlyFile(c) == [e \in Cached |-> IF e = "listing" THEN c[e] ELSE None]

\* invalidatePath of the file: its entries and the listing of its parent.
InvalidatePath(c) == [e \in Cached |-> None]

\* _cacheDirectoryEntries
SetListing(c, s) ==
    LET listed == [c EXCEPT !["listing"] = s]
    IN  IF s.present THEN SetStat(listed, s) ELSE listed

\* What a request of kind k that saw s leaves in the cache.
Store(k, s) ==
    IF k \in {"list", "probe"} THEN SetListing(cache, s)
    ELSE IF ~s.present THEN SetNotFound(cache, s)
    ELSE IF k = "stat" THEN SetStat(cache, s) ELSE SetContent(cache, s)

\* The entry a call of kind k returns at once.
Hit(k) ==
    IF k = "list" THEN cache["listing"]
    ELSE IF cache["notFound"] # None THEN cache["notFound"]
    ELSE IF k = "stat" THEN cache["stat"] ELSE cache["content"]

-----------------------------------------------------------------------------
(* Requests *)

Unused == [kind |-> "stat", phase |-> "idle", on |-> None, saw |-> None,
           retried |-> FALSE, era |-> 0]

Fresh(k, phase) ==
    [kind |-> k, phase |-> phase, on |-> None, saw |-> None, retried |-> FALSE,
     era |-> suspends]

\* How an adapter is asked: _getAdapter refuses while it is suspended.
Asked == IF suspended = "no" THEN "asked" ELSE "refused"

InFlight == {r \in Req : req[r].phase # "idle"}

\* The request that starts next, if there is one.
NextReq ==
    IF Req = InFlight THEN {} ELSE {CHOOSE r \in Req : r \notin InFlight}

\* Variant for sensitivity: nothing is dropped.
DropNothing(r) == pending

\* The finally block: stat and readFile drop whatever is registered for the
\* path, readDirectory only itself.
Drop(r) ==
    IF req[r].kind \in {"stat", "read"} \/ pending[req[r].kind] = r
    THEN [pending EXCEPT ![req[r].kind] = None] ELSE pending

\* Variant for sensitivity: an error reaches nobody.
SettleOnSuccess(r, result) ==
    [c \in Call |-> IF call[c].phase = "waiting" /\ call[c].on = r
                       /\ result # Failed
                    THEN [call[c] EXCEPT !.phase = "done", !.on = None,
                                         !.got = result]
                    ELSE call[c]]

\* The promise of r settles, with a state of the file or an error, for every
\* call that waits.
SettleCalls(r, result) ==
    [c \in Call |-> IF call[c].phase = "waiting" /\ call[c].on = r
                    THEN [call[c] EXCEPT !.phase = "done", !.on = None,
                                         !.got = result]
                    ELSE call[c]]

\* So does it for the requests that wait for the listing r.
Settle(r, result) ==
    /\ req' = [q \in Req |-> IF q = r THEN Unused
                            ELSE IF req[q].on = r THEN [req[q] EXCEPT !.on = None]
                            ELSE req[q]]
    /\ pending' = Drop(r)
    /\ call' = SettleCalls(r, result)

-----------------------------------------------------------------------------
Init ==
    /\ remote \in [stamp : {0}, present : BOOLEAN]
    /\ cache = [e \in Cached |-> None]
    /\ pending = [k \in Kind |-> None]
    /\ req = [r \in Req |-> Unused]
    /\ call = [c \in Call |-> [phase |-> "idle", on |-> None, got |-> None,
                               floor |-> 0]]
    /\ mutation = [m \in Mutation |-> [phase |-> "idle", kind |-> "write",
                                       saw |-> None, retried |-> FALSE]]
    /\ tick = [t \in Tick |-> [phase |-> "idle", version |-> 0, saw |-> None,
                               during |-> {}, era |-> 0]]
    /\ version = 0 /\ versions = 0
    /\ snapshot = None
    /\ watching = TRUE
    /\ suspended = "no"
    /\ losses = 0 /\ suspends = 0 /\ externals = 0
    /\ settled = 0 /\ raced = FALSE

(***************************************************************************)
(* stat, readFile, readDirectory                                           *)
(***************************************************************************)

Called(c) ==
    /\ call[c].phase = "idle"
    /\ UNCHANGED <<remote, cache, mutations, watch, suspended, bounds>>

ReadHit(c, k) ==
    /\ Called(c)
    /\ Hit(k) # None
    /\ call' = [call EXCEPT ![c] = [phase |-> "done", on |-> None,
                                    got |-> Hit(k), floor |-> settled]]
    /\ UNCHANGED <<pending, req>>

Waiting(r) == [phase |-> "waiting", on |-> r, got |-> None, floor |-> settled]

ReadJoin(c, k) ==
    /\ Called(c)
    /\ Hit(k) = None
    /\ pending[k] # None
    /\ call' = [call EXCEPT ![c] = Waiting(pending[k])]
    /\ UNCHANGED <<pending, req>>

\* A new request; that of a probe path waits for the listing first.
ReadStart(c, k, r) ==
    /\ Called(c)
    /\ Hit(k) = None
    /\ pending[k] = None
    /\ req' = [req EXCEPT ![r] = Fresh(k, IF Probing /\ k # "list"
                                          THEN "context" ELSE Asked)]
    /\ pending' = [pending EXCEPT ![k] = r]
    /\ call' = [call EXCEPT ![c] = Waiting(r)]

\* After the listing: the file is known to be absent, and the request ends
\* with FileNotFound, or the server is asked.
Infer(r) ==
    LET l == cache["listing"]
        c == IF l # None /\ ~l.present THEN SetNotFound(cache, l) ELSE cache
    IN  IF c["notFound"] # None
        THEN /\ cache' = SetNotFound(c, c["notFound"])
             /\ Settle(r, c["notFound"])
        ELSE /\ cache' = c
             /\ req' = [req EXCEPT ![r].phase = Asked, ![r].on = None]
             /\ UNCHANGED <<pending, call>>

\* Variant for sensitivity: the probes of other requests are not looked at.
OwnListing == pending["list"]

\* What _awaitProbeContext joins.
ListingInFlight ==
    IF pending["list"] # None THEN pending["list"] ELSE pending["probe"]

\* _awaitProbeContext: joins a listing in flight, starts one if none is
\* cached, or looks at the cached one.
ProbeContext(r) ==
    /\ req[r].phase = "context"
    /\ LET listing == ListingInFlight
       IN  \/ /\ listing # None
              /\ req' = [req EXCEPT ![r].phase = "awaiting", ![r].on = listing]
              /\ UNCHANGED <<cache, pending, call>>
           \/ /\ listing = None
              /\ cache["listing"] = None
              /\ \E p \in NextReq :
                   /\ req' = [req EXCEPT ![r].phase = "awaiting", ![r].on = p,
                                         ![p] = Fresh("probe", Asked)]
                   /\ pending' = [pending EXCEPT !["probe"] = p]
              /\ UNCHANGED <<cache, call>>
           \/ /\ listing = None
              /\ cache["listing"] # None
              /\ Infer(r)
    /\ UNCHANGED <<remote, mutations, watch, suspended, bounds>>

ProbeAwaited(r) ==
    /\ req[r].phase = "awaiting"
    /\ req[r].on = None
    /\ Infer(r)
    /\ UNCHANGED <<remote, mutations, watch, suspended, bounds>>

\* The server reads the file or the directory.
Serve(r) ==
    /\ req[r].phase = "asked"
    /\ suspended = "no"
    /\ req' = [req EXCEPT ![r].phase = "answered", ![r].saw = remote]
    /\ UNCHANGED <<remote, cache, pending, call, mutations, watch, suspended,
                   bounds>>

\* The reply arrives: it is cached and returned.
Deliver(r) ==
    /\ req[r].phase = "answered"
    /\ cache' = Store(req[r].kind, req[r].saw)
    /\ Settle(r, req[r].saw)
    /\ UNCHANGED <<remote, mutations, watch, suspended, bounds>>

\* The connection is lost before the reply arrives: _retryOnConnectionLost
\* asks once more, on a fresh adapter.
RetryRead(r) ==
    /\ req[r].phase \in {"asked", "answered"}
    /\ losses < MaxLosses
    /\ losses' = losses + 1
    /\ IF req[r].kind # "probe" /\ ~req[r].retried
       THEN /\ req' = [req EXCEPT ![r].phase = Asked, ![r].retried = TRUE]
            /\ UNCHANGED <<pending, call>>
       ELSE Settle(r, Failed)
    /\ UNCHANGED <<remote, cache, mutations, watch, suspended, suspends,
                   externals>>

\* No connection, or an error of another kind.
FailRead(r) ==
    /\ req[r].phase \in {"refused", "asked", "answered"}
    /\ Settle(r, Failed)
    /\ UNCHANGED <<remote, cache, mutations, watch, suspended, bounds>>

(***************************************************************************)
(* writeFile, delete; rename and copy do the same to each of their paths   *)
(***************************************************************************)

Mutating ==
    {m \in Mutation : mutation[m].phase \in {"refused", "asked", "answered"}}

\* Variant for sensitivity: the version is left alone.
BeginUnrecorded(m, k) ==
    /\ mutation[m].phase = "idle"
    /\ mutation' = [mutation EXCEPT ![m].phase = Asked, ![m].kind = k]
    /\ UNCHANGED <<version, versions>>
    /\ UNCHANGED <<remote, cache, reads, history, watch, suspended, bounds>>

\* _recordMutation, and the operation is asked for.
Begin(m, k) ==
    /\ mutation[m].phase = "idle"
    /\ mutation' = [mutation EXCEPT ![m].phase = Asked, ![m].kind = k]
    /\ versions' = versions + 1
    /\ version' = versions + 1
    /\ UNCHANGED <<remote, cache, reads, history, watch, suspended, bounds>>

Change(present) == [stamp |-> remote.stamp + 1, present |-> present]

\* The server writes or deletes the file, or finds nothing to delete.
Apply(m) ==
    /\ mutation[m].phase = "asked"
    /\ suspended = "no"
    /\ remote' = IF mutation[m].kind = "write" THEN Change(TRUE)
                 ELSE IF remote.present THEN Change(FALSE) ELSE remote
    /\ mutation' = [mutation EXCEPT
                      ![m].phase = "answered",
                      ![m].saw = IF remote' = remote THEN Missing ELSE remote']
    /\ UNCHANGED <<cache, reads, version, versions, history, watch, suspended,
                   bounds>>

\* A reply from before is under way that nothing will throw away.
ReplyDue ==
    \/ \E r \in Req : req[r].phase = "answered"
    \/ \E t \in Tick : tick[t].phase = "answered" /\ tick[t].version = version

\* Success invalidates and fires; an error is only passed on.
Complete(m) ==
    /\ mutation[m].phase = "answered"
    /\ IF mutation[m].saw = Missing
       THEN /\ mutation' = [mutation EXCEPT ![m].phase = "failed"]
            /\ UNCHANGED <<cache, history>>
       ELSE /\ mutation' = [mutation EXCEPT ![m].phase = "done"]
            /\ cache' = InvalidatePath(cache)
            /\ settled' = IF mutation[m].saw.stamp > settled
                          THEN mutation[m].saw.stamp ELSE settled
            /\ raced' = (raced \/ ReplyDue)
    /\ UNCHANGED <<remote, reads, version, versions, watch, suspended, bounds>>

\* A loss before the reply: asked again once, whether or not it was done.
RetryMutation(m) ==
    /\ mutation[m].phase \in {"asked", "answered"}
    /\ losses < MaxLosses
    /\ losses' = losses + 1
    /\ mutation' = IF mutation[m].retried
                   THEN [mutation EXCEPT ![m].phase = "failed",
                                         ![m].saw = Failed]
                   ELSE [mutation EXCEPT ![m].phase = Asked,
                                         ![m].retried = TRUE]
    /\ UNCHANGED <<remote, cache, reads, version, versions, history, watch,
                   suspended, suspends, externals>>

\* No connection, or refused by the server.
FailMutation(m) ==
    /\ m \in Mutating
    /\ mutation[m].phase = "answered" => suspended # "no"
    /\ mutation' = [mutation EXCEPT ![m].phase = "failed", ![m].saw = Failed]
    /\ UNCHANGED <<remote, cache, reads, version, versions, history, watch,
                   suspended, bounds>>

(***************************************************************************)
(* watch: a directory that was found to be one                             *)
(***************************************************************************)

Poll(t) ==
    /\ tick[t].phase = "idle"
    /\ watching
    /\ suspended = "no"
    /\ tick' = [tick EXCEPT ![t].phase = "asked", ![t].version = version,
                            ![t].during = Mutating, ![t].era = suspends]
    /\ UNCHANGED <<remote, cache, reads, mutations, snapshot, watching,
                   suspended, bounds>>

ServePoll(t) ==
    /\ tick[t].phase = "asked"
    /\ suspended = "no"
    /\ tick' = [tick EXCEPT ![t].phase = "answered", ![t].saw = remote]
    /\ UNCHANGED <<remote, cache, reads, mutations, snapshot, watching,
                   suspended, bounds>>

\* The entry of the file in a listing; two listings differ by it.
Entry(s) == IF s = None \/ ~s.present THEN None ELSE s.stamp

\* A listing that a mutation overtook is thrown away; otherwise it is
\* compared with the last one, cached and remembered.
DeliverPoll(t) ==
    /\ tick[t].phase = "answered"
    /\ IF version # tick[t].version
       THEN /\ tick' = [tick EXCEPT ![t].phase = "done"]
            /\ UNCHANGED <<cache, snapshot>>
       ELSE /\ tick' = [tick EXCEPT ![t].phase = "cached"]
            /\ LET changed == Entry(tick[t].saw) # Entry(snapshot)
               IN  cache' = SetListing(IF changed THEN InvalidatePath(cache)
                                                  ELSE cache, tick[t].saw)
            /\ snapshot' = tick[t].saw
    /\ UNCHANGED <<remote, reads, mutations, watching, suspended, bounds>>

\* Errors of a poll are ignored.
FailPoll(t) ==
    /\ tick[t].phase \in {"asked", "answered"}
    /\ tick' = [tick EXCEPT ![t].phase = "done"]
    /\ UNCHANGED <<remote, cache, reads, mutations, snapshot, watching,
                   suspended, bounds>>

Watch ==
    /\ ~watching
    /\ suspended = "no"
    /\ watching' = TRUE
    /\ snapshot' = None
    /\ UNCHANGED <<remote, cache, reads, mutations, tick, suspended, bounds>>

(***************************************************************************)
(* Disconnecting and connecting, expiry, other clients                     *)
(***************************************************************************)

\* suspendAutoConnect: the watchers go, every pending map and version is
\* cleared, which lets the reply of any poll under way pass.
SuspendAutoConnect ==
    /\ suspended = "no"
    /\ suspends < MaxSuspends
    /\ suspends' = suspends + 1
    /\ suspended' = "closing"
    /\ watching' = FALSE
    /\ pending' = [k \in Kind |-> None]
    /\ version' = 0
    /\ raced' = (raced \/ \E t \in Tick : tick[t].phase = "answered")
    /\ UNCHANGED <<remote, cache, req, call, mutation, versions, settled, tick,
                   snapshot, losses, externals>>

\* The command goes on once the pool has disconnected.
Disconnected ==
    /\ suspended = "closing"
    /\ suspended' = "yes"
    /\ cache' = [e \in Cached |-> None]
    /\ UNCHANGED <<remote, reads, mutations, watch, bounds>>

ResumeAutoConnect ==
    /\ suspended = "yes"
    /\ suspended' = "no"
    /\ UNCHANGED <<remote, cache, reads, mutations, watch, bounds>>

Expire(e) ==
    /\ cache[e] # None
    /\ cache' = [cache EXCEPT ![e] = None]
    /\ UNCHANGED <<remote, reads, mutations, watch, suspended, bounds>>

External ==
    /\ externals < MaxExternal
    /\ externals' = externals + 1
    /\ \/ remote' = Change(TRUE)
       \/ remote.present /\ remote' = Change(FALSE)
    /\ UNCHANGED <<cache, reads, mutations, watch, suspended, losses, suspends>>

Next ==
    \/ \E c \in Call, k \in Kind \ {"probe"} :
         \/ ReadHit(c, k)
         \/ ReadJoin(c, k)
         \/ \E r \in NextReq : ReadStart(c, k, r)
    \/ \E r \in Req :
         \/ ProbeContext(r)
         \/ ProbeAwaited(r)
         \/ Serve(r)
         \/ Deliver(r)
         \/ RetryRead(r)
         \/ FailRead(r)
    \/ \E m \in Mutation :
         \/ \E k \in {"write", "delete"} : Begin(m, k)
         \/ Apply(m)
         \/ Complete(m)
         \/ RetryMutation(m)
         \/ FailMutation(m)
    \/ \E t \in Tick : Poll(t) \/ ServePoll(t) \/ DeliverPoll(t) \/ FailPoll(t)
    \/ Watch
    \/ SuspendAutoConnect
    \/ Disconnected
    \/ ResumeAutoConnect
    \/ \E e \in Cached : Expire(e)
    \/ External

Spec == Init /\ [][Next]_vars

\* Timers of the adapters end every operation, with a reply or an error.
Fairness ==
    \A r \in Req :
        /\ WF_vars(ProbeContext(r))
        /\ WF_vars(ProbeAwaited(r))
        /\ WF_vars(Deliver(r) \/ FailRead(r))

FairSpec == Spec /\ Fairness

-----------------------------------------------------------------------------
(* Properties *)

Sampled == State \cup {None}
Phase == {"idle", "context", "awaiting", "refused", "asked", "answered",
          "done", "waiting", "failed", "cached"}

\* Every variable has its type, and the file is not both cached and cached as
\* not found.
TypeOK ==
    /\ remote \in State
    /\ cache \in [Cached -> Sampled]
    /\ cache["notFound"] # None => cache["stat"] = None /\ cache["content"] = None
    /\ pending \in [Kind -> Req \cup {None}]
    /\ \A r \in Req :
         req[r] \in [kind : Kind, phase : Phase, on : Req \cup {None},
                     saw : Sampled, retried : BOOLEAN, era : 0 .. MaxSuspends]
    /\ \A c \in Call :
         call[c] \in [phase : Phase, on : Req \cup {None},
                      got : Sampled \cup {Failed}, floor : Nat]
    /\ \A m \in Mutation :
         mutation[m] \in [phase : Phase, kind : {"write", "delete"},
                          saw : Sampled \cup {Missing, Failed},
                          retried : BOOLEAN]
    /\ \A t \in Tick :
         tick[t] \in [phase : Phase, version : Nat, saw : Sampled,
                      during : SUBSET Mutation, era : 0 .. MaxSuspends]
    /\ {version, versions, settled} \subseteq Nat
    /\ snapshot \in Sampled
    /\ {watching, raced} \subseteq BOOLEAN
    /\ suspended \in {"no", "closing", "yes"}

\* A call only ever joins a request that is still to settle, so it never
\* waits on, or is handed the result of, an earlier one.
PendingIsLive ==
    \A k \in Kind : pending[k] # None =>
        pending[k] \in InFlight /\ req[pending[k]].kind = k

\* Of each kind, readDirectory's and that of the probes, one listing at a time
\* is asked for: who needs it next joins it.  Requests of before a disconnect
\* may still be under way after the reconnect.
OneListing ==
    \A k \in {"list", "probe"} :
        \A r, q \in {i \in InFlight : req[i].kind = k /\ req[i].era = suspends} :
            r = q

\* Read your writes: a call made after a mutation returned sees it, through
\* whichever cache entry, pending request or inference it is answered, if no
\* reply was under way as the mutation returned, and none of a poll as the
\* versions were cleared.
ReadYourWrites ==
    ~raced => \A c \in Call : call[c].got \notin {None, Failed} =>
                 call[c].got.stamp >= call[c].floor

\* What the version guard of the watcher achieves: a poll that began while no
\* mutation was in progress never caches a listing older than a mutation that
\* has returned since.
WatcherGuarded ==
    [][\A t \in Tick :
         /\ tick[t].phase = "answered" /\ tick'[t].phase = "cached"
         /\ tick[t].during = {} /\ tick[t].era = suspends
         => tick[t].saw.stamp >= settled]_vars

\* Every call settles, whether it asked, joined, or waits for a listing.
CallsEnd == \A c \in Call : call[c].phase = "waiting" ~> call[c].phase = "done"
=============================================================================
