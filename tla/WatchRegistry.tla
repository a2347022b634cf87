---------------------------- MODULE WatchRegistry ----------------------------
(***************************************************************************)
(* The polling watchers of the file system provider (watch() of            *)
(* src/providers/fileSystemProvider.ts) for one URI: VS Code and the       *)
(* extensions ask for the same URI again and again and share an interval.  *)
(* All of it is synchronous.                                               *)
(***************************************************************************)
EXTENDS Naturals

CONSTANTS
    Handle,   \* the disposables watch() returns
    Entry,    \* the entries it creates
    None

VARIABLES
    registered,   \* what _watchers holds for the URI
    running,      \* entries whose interval is set
    refCount,     \* of each entry
    handle        \* of each disposable: its entry, what disposing it does

vars == <<registered, running, refCount, handle>>

Init ==
    /\ registered = None
    /\ running = {}
    /\ refCount = [e \in Entry |-> 0]
    /\ handle = [h \in Handle |-> [on |-> None, role |-> "unused"]]

\* Variant for sensitivity: the interval is not cleared.
ForgetEntry(e) ==
    /\ registered' = None
    /\ UNCHANGED running

\* disposeFn: the interval is cleared, and whatever is registered goes.
DisposeEntry(e) ==
    /\ running' = running \ {e}
    /\ registered' = None

\* A second watch of a URI shares the entry of the first.
Share(h) ==
    /\ handle[h].role = "unused"
    /\ registered # None
    /\ refCount' = [refCount EXCEPT ![registered] = @ + 1]
    /\ handle' = [handle EXCEPT ![h] = [on |-> registered, role |-> "counted"]]
    /\ UNCHANGED <<registered, running>>

\* The first sets the interval; its disposable does not count.
Start(h, e) ==
    /\ handle[h].role = "unused"
    /\ registered = None
    /\ \A i \in Handle : handle[i].on # e
    /\ registered' = e
    /\ running' = running \cup {e}
    /\ refCount' = [refCount EXCEPT ![e] = 1]
    /\ handle' = [handle EXCEPT ![h] = [on |-> e, role |-> "owner"]]

ReleaseOwner(h) ==
    /\ handle[h].role = "owner"
    /\ DisposeEntry(handle[h].on)
    /\ handle' = [handle EXCEPT ![h].role = "released"]
    /\ UNCHANGED refCount

ReleaseCounted(h) ==
    /\ handle[h].role = "counted"
    /\ LET e == handle[h].on
       IN  /\ refCount' = [refCount EXCEPT ![e] = @ - 1]
           /\ IF refCount'[e] <= 0 THEN DisposeEntry(e)
                                  ELSE UNCHANGED <<registered, running>>
    /\ handle' = [handle EXCEPT ![h].role = "released"]

\* Manual disconnect and shutdown dispose what is registered, whoever holds
\* it; its disposables remain with their holders.
DisposeConnectionWatchers ==
    /\ registered # None
    /\ DisposeEntry(registered)
    /\ UNCHANGED <<refCount, handle>>

Next ==
    \/ \E h \in Handle :
         \/ Share(h)
         \/ \E e \in Entry : Start(h, e)
         \/ ReleaseOwner(h)
         \/ ReleaseCounted(h)
    \/ DisposeConnectionWatchers

Spec == Init /\ [][Next]_vars

\* As Spec, while the connection is not disconnected.
ConnectedSpec == Init /\ [][Next /\ ~DisposeConnectionWatchers]_vars

-----------------------------------------------------------------------------
(* Properties *)

Held(h) == handle[h].role \in {"owner", "counted"}

\* Every variable has its type, and what is registered is running.
TypeOK ==
    /\ registered \in Entry \cup {None}
    /\ running \subseteq Entry
    /\ registered # None => registered \in running
    /\ refCount \in [Entry -> Nat]
    /\ handle \in [Handle -> [on : Entry \cup {None},
                              role : {"unused", "owner", "counted", "released"}]]

\* No interval keeps polling the server for nobody: when every disposable of
\* an entry has been disposed, in any order, its interval is cleared.
NobodyPolls == \A e \in running : \E h \in Handle : Held(h) /\ handle[h].on = e

(* What a comment says and the code does not do *)

\* "Ref-count duplicate watchers": as long as somebody holds a watcher of the
\* URI, it is polled.
HeldIsPolled == \A h \in Handle : Held(h) => handle[h].on \in running
=============================================================================
