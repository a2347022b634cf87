------------------------------- MODULE Sessions -------------------------------
(***************************************************************************)
(* What ties a connection to a window: the Connect and Disconnect commands *)
(* of extension.ts, the manual-disconnect flags they keep in memory and in *)
(* the workspace state, the workspace folders, whose first change restarts *)
(* the extension host, the workspace files a Connect writes and opens, each*)
(* with a workspace state of its own, activation, and the background       *)
(* operations of VS Code (restored tabs, the Explorer), which connect      *)
(* whatever the pool does not hold back. Commands overlap: each awaits     *)
(* connections, writes and folder changes.                                 *)
(*                                                                         *)
(* The pool is abstracted to what ConnectionPool.tla shows of it: one      *)
(* attempt per connection, discarded when the connection is suspended.     *)
(* Activation is one step: the writes it awaits are shorter than any       *)
(* connection attempt.                                                     *)
(***************************************************************************)
EXTENDS Naturals, Sequences, SequencesExt

CONSTANTS Conn, Command,
          Home, File,   \* the workspace of the window at first, and the workspace
                        \* files of the extension, named for a host and a path
          MaxStart,     \* bound on the commands started
          MaxRestart    \* bound on the restarts nobody caused

VARIABLES
    host,       \* the extension host is "up" or "down"
    mem,        \* manualDisconnectIds
    disk,       \* the same in the workspace state
    writes,     \* updates of the workspace state on their way
    open,       \* the workspace that is open
    parked,     \* of the others: disk, folders and intended as they were left
    folders,    \* remote folders of the workspace, in order
    added,      \* folders whose change event is not delivered
    suspended,  \* the connections the pool may not connect by itself
    up, trying, \* connected; with an attempt under way
    known,      \* the connections of the store
    locked,     \* the store is locked: it lists nothing
    cmd,        \* the commands under way
    started, restarts,  \* counted against the bounds
    intended,   \* ghost: disconnected on purpose in this workspace, no Connect in
                \* it since
    left        \* ghost: what a Disconnect had still to do when it was cut off

pool == <<suspended, up, trying>>
flags == <<mem, disk, writes>>
spaces == <<open, parked>>
counts == <<started, restarts>>
ghost == <<intended, left>>
vars == <<host, flags, spaces, folders, added, pool, known, locked, cmd, counts, ghost>>

NoCmd == [kind |-> "none", todo |-> <<>>, got |-> <<>>, pc |-> "idle",
          restore |-> FALSE,
          shared |-> FALSE]    \* ghost: a connection of it had another command or an added folder

Workspace == {Home} \cup File
Blank == [disk |-> {}, folders |-> <<>>, intended |-> {}]

\* Every field within its values.
TypeOK ==
    /\ host \in {"up", "down"}
    /\ mem \subseteq Conn /\ disk \subseteq Conn
    /\ \A i \in DOMAIN writes : writes[i].ids \subseteq Conn
    /\ ToSet(folders) \subseteq Conn /\ added \subseteq Conn
    /\ suspended \subseteq Conn /\ up \subseteq Conn /\ trying \subseteq Conn
    /\ known \subseteq Conn
    /\ open \in Workspace
    /\ \A w \in Workspace : /\ parked[w].disk \subseteq Conn
                            /\ ToSet(parked[w].folders) \subseteq Conn
    /\ locked \in BOOLEAN
    /\ \A k \in Command :
          /\ cmd[k].kind \in {"none", "connect", "disconnect"}
          /\ cmd[k].pc \in {"idle", "item", "wait", "reached", "refused", "saved",
                            "place", "cut", "unfold"}

Init ==
    /\ host = "up"
    /\ mem = {} /\ disk = {} /\ writes = <<>>
    /\ folders \in {s \in SeqOf(Conn, 2) : IsInjective(s)}
    /\ open = Home /\ parked = [w \in Workspace |-> Blank]
    /\ added = {}
    /\ suspended = {} /\ up = {} /\ trying = {}
    /\ known = Conn
    /\ locked = FALSE
    /\ cmd = [k \in Command |-> NoCmd]
    /\ started = 0 /\ restarts = 0
    /\ intended = {} /\ left = {}

(***************************************************************************)
(* Steps of a command                                                      *)
(***************************************************************************)

Cur(k) == Head(cmd[k].todo)

\* What is left of the sequence s when only the members of S are kept: filter.
Kept(s, S) ==
    LET kept[n \in 0 .. Len(s)] ==
            IF n = 0 THEN <<>>
            ELSE IF s[n] \in S THEN Append(kept[n - 1], s[n]) ELSE kept[n - 1]
    IN  kept[Len(s)]

At(k, kind, pc) == host = "up" /\ cmd[k].kind = kind /\ cmd[k].pc = pc
Goto(k, pc) == cmd' = [cmd EXCEPT ![k].pc = pc]

\* persistManualDisconnectIds: the set as it is now, for command k to await.
Persist(k, ids) == writes' = Append(writes, [by |-> k, ids |-> ids])
Written(k) == \A i \in DOMAIN writes : writes[i].by # k

\* Attempts to connect c are discarded: every command that waits for it fails.
Refused(c, j) == IF cmd[j].pc = "wait" /\ Cur(j) = c THEN [cmd[j] EXCEPT !.pc = "refused"]
                 ELSE cmd[j]

\* The next item, or what follows the last one.
Advance(r) ==
    LET rest == [r EXCEPT !.todo = Tail(@), !.pc = "item"]
    IN  IF rest.todo # <<>> THEN rest
        ELSE IF r.kind = "connect" /\ r.got # <<>> THEN [rest EXCEPT !.pc = "place"]
        ELSE NoCmd

\* A command of this kind for the connections s.
Started(k, kind, s) ==
    LET common == {j \in Command \ {k} : ToSet(cmd[j].todo \o cmd[j].got) \cap ToSet(s) # {}}
    IN  [j \in Command |->
           IF j = k THEN [NoCmd EXCEPT !.kind = kind, !.todo = s, !.pc = "item",
                                       !.shared = \/ common # {}
                                                  \/ added \cap ToSet(s) # {}]
           ELSE [cmd[j] EXCEPT !.shared = @ \/ j \in common]]

Start(k) ==
    /\ host = "up"
    /\ cmd[k] = NoCmd
    /\ started < MaxStart
    /\ ~locked
    /\ started' = started + 1
    /\ \E kind \in {"connect", "disconnect"}, s \in SeqOf(known, 2) :
          /\ s # <<>> /\ IsInjective(s)
          /\ cmd' = Started(k, kind, s)
          /\ intended' = IF kind = "connect" THEN intended \ ToSet(s) ELSE intended
    /\ UNCHANGED <<host, flags, spaces, folders, added, pool, known, locked, restarts, left>>

\* Of the writes on their way any may be the last to arrive.
Arriving == {disk} \cup {writes[i].ids : i \in DOMAIN writes}

\* Nothing in memory survives; what a Disconnect had still to do is not done.
Dies(rest) ==
    /\ host' = "down"
    /\ mem' = {} /\ writes' = <<>> /\ added' = {}
    /\ suspended' = {} /\ up' = {} /\ trying' = {}
    /\ cmd' = [k \in Command |-> NoCmd]
    /\ left' = rest

\* The host goes down, to start again in the same workspace.
GoDown(rest) ==
    /\ Dies(rest)
    /\ disk' \in Arriving
    /\ UNCHANGED spaces

\* The window is reloaded with workspace w, its folders as they were left, or
\* with the folders new, written into its file.
Reopen(w, new) ==
    \E last \in Arriving :
        LET left_ == [disk |-> last, folders |-> folders, intended |-> intended]
            all == [parked EXCEPT ![open] = left_]
        IN  /\ Dies({})
            /\ open' = w
            /\ disk' = all[w].disk
            /\ folders' = IF new = <<>> THEN all[w].folders ELSE new
            /\ intended' = all[w].intended \ ToSet(new)
            /\ parked' = [all EXCEPT ![w] = Blank]

(***************************************************************************)
(* Connect                                                                 *)
(***************************************************************************)

\* connectItems: the flag is remembered, the connection freed and asked for.
ConnectItem(k) ==
    LET c == Cur(k)
    IN  /\ At(k, "connect", "item")
        /\ suspended' = suspended \ {c}
        /\ trying' = IF c \in up THEN trying ELSE trying \cup {c}
        /\ cmd' = [cmd EXCEPT ![k].restore = c \in mem,
                              ![k].pc = IF c \in up THEN "reached" ELSE "wait"]
        /\ UNCHANGED <<host, flags, spaces, folders, added, up, known, locked, counts, ghost>>

\* Connected: a flag it had is dropped, in memory and in the workspace state.
ConnectReached(k) ==
    LET c == Cur(k)
    IN  /\ At(k, "connect", "reached")
        /\ IF cmd[k].restore
           THEN mem' = mem \ {c} /\ Persist(k, mem') /\ UNCHANGED disk
           ELSE UNCHANGED flags
        /\ Goto(k, "saved")
        /\ UNCHANGED <<host, spaces, folders, added, pool, known, locked, counts, ghost>>

ConnectSaved(k) ==
    /\ At(k, "connect", "saved")
    /\ Written(k)
    /\ cmd' = [cmd EXCEPT ![k] = Advance([cmd[k] EXCEPT !.got = Append(@, Cur(k))])]
    /\ UNCHANGED <<host, flags, spaces, folders, added, pool, known, locked, counts, ghost>>

\* Failed: what was blocked before the command is blocked again.
ConnectRefused(k) ==
    LET c == Cur(k)
    IN  /\ At(k, "connect", "refused")
        /\ IF cmd[k].restore
           THEN /\ suspended' = suspended \cup {c}
                /\ trying' = trying \ {c}
                /\ cmd' = [j \in Command |-> IF j = k THEN Advance(cmd[k]) ELSE Refused(c, j)]
           ELSE cmd' = [cmd EXCEPT ![k] = Advance(@)] /\ UNCHANGED <<suspended, trying>>
        /\ UNCHANGED <<host, flags, spaces, folders, added, up, known, locked, counts, ghost>>

New(k) == Kept(cmd[k].got, Conn \ ToSet(folders))

\* Folders are added for the connections that have none. The first folder of
\* a window restarts the host; else an event follows.
Place(k) ==
    /\ At(k, "connect", "place")
    /\ folders' = folders \o New(k)
    /\ IF New(k) # <<>> /\ folders = <<>> THEN GoDown({})
       ELSE /\ added' = added \cup ToSet(New(k))
            /\ cmd' = [cmd EXCEPT ![k] = NoCmd]
            /\ UNCHANGED <<host, flags, spaces, pool, left>>
    /\ UNCHANGED <<known, locked, counts, intended>>

\* Where no workspace file of the extension with folders is open, the default
\* Connect writes one instead and opens it: the state of another workspace.
PlaceInFile(k) ==
    /\ At(k, "connect", "place")
    /\ New(k) # <<>>
    /\ open \in File => folders = <<>>
    /\ \E w \in File : Reopen(w, New(k))
    /\ UNCHANGED <<known, locked, counts>>

\* VS Code refuses the folders, or the file is not written or not opened.
PlaceFails(k) ==
    /\ At(k, "connect", "place")
    /\ New(k) # <<>>
    /\ cmd' = [cmd EXCEPT ![k] = NoCmd]
    /\ UNCHANGED <<host, flags, spaces, folders, added, pool, known, locked, counts, ghost>>

(***************************************************************************)
(* Disconnect                                                              *)
(***************************************************************************)

DisconnectItem(k) ==
    LET c == Cur(k)
    IN  /\ At(k, "disconnect", "item")
        /\ IF c \in mem THEN UNCHANGED flags
           ELSE mem' = mem \cup {c} /\ Persist(k, mem') /\ UNCHANGED disk
        /\ Goto(k, "cut")
        /\ UNCHANGED <<host, spaces, folders, added, pool, known, locked, counts, ghost>>

\* The flag is stored: suspend, which discards attempts, and disconnect.
Cut(k) ==
    LET c == Cur(k)
    IN  /\ At(k, "disconnect", "cut")
        /\ Written(k)
        /\ suspended' = suspended \cup {c}
        /\ trying' = trying \ {c}
        /\ up' = up \ {c}
        /\ cmd' = [j \in Command |-> IF j = k THEN [cmd[k] EXCEPT !.pc = "unfold"]
                                     ELSE Refused(c, j)]
        /\ UNCHANGED <<host, flags, spaces, folders, added, known, locked, counts, ghost>>

\* The folder is removed. When it is the first one the host restarts and the
\* rest of the selection is not reached.
Unfold(k) ==
    LET c == Cur(k)
        without == Kept(folders, Conn \ {c})
        first == folders # <<>> /\ Head(folders) = c
    IN  /\ At(k, "disconnect", "unfold")
        /\ intended' = IF cmd[k].shared THEN intended ELSE intended \cup {c}
        /\ folders' = without
        /\ IF first THEN GoDown(ToSet(Tail(cmd[k].todo)))
           ELSE /\ cmd' = [cmd EXCEPT ![k] = Advance(@)]
                /\ UNCHANGED <<host, flags, spaces, added, pool, left>>
        /\ UNCHANGED <<known, locked, counts>>

\* The removal is refused or takes more than 5 seconds: only a warning.
UnfoldFails(k) ==
    /\ At(k, "disconnect", "unfold")
    /\ Cur(k) \in ToSet(folders)
    /\ cmd' = [cmd EXCEPT ![k] = Advance(@)]
    /\ UNCHANGED <<host, flags, spaces, folders, added, pool, known, locked, counts, ghost>>

(***************************************************************************)
(* Everything else that moves                                              *)
(***************************************************************************)

AttemptEnds(c) ==
    /\ c \in trying
    /\ trying' = trying \ {c}
    /\ \/ /\ up' = up \cup {c}
          /\ cmd' = [j \in Command |-> IF cmd[j].pc = "wait" /\ Cur(j) = c
                                       THEN [cmd[j] EXCEPT !.pc = "reached"] ELSE cmd[j]]
       \/ UNCHANGED up /\ cmd' = [j \in Command |-> Refused(c, j)]
    /\ UNCHANGED <<host, flags, spaces, folders, added, suspended, known, locked, counts, ghost>>

\* A file operation of VS Code, on an open tab or by the Explorer.
Background(c) ==
    /\ host = "up"
    /\ c \in known \ (suspended \cup up \cup trying)
    /\ ~locked
    /\ trying' = trying \cup {c}
    /\ UNCHANGED <<host, flags, spaces, folders, added, suspended, up, known, locked, cmd, counts, ghost>>

LinkLost(c) ==
    /\ c \in up
    /\ up' = up \ {c}
    /\ UNCHANGED <<host, flags, spaces, folders, added, suspended, trying, known, locked, cmd, counts, ghost>>

Flush ==
    /\ host = "up"
    /\ writes # <<>>
    /\ disk' = Head(writes).ids
    /\ writes' = Tail(writes)
    /\ UNCHANGED <<host, mem, spaces, folders, added, pool, known, locked, cmd, counts, ghost>>

\* onDidChangeWorkspaceFolders: a folder that was added frees its connection.
FoldersChanged ==
    LET freed == added \cap mem
    IN  /\ host = "up"
        /\ added # {}
        /\ added' = {}
        /\ mem' = mem \ freed
        /\ suspended' = suspended \ freed
        /\ IF freed = {} THEN UNCHANGED writes ELSE Persist("event", mem')
        /\ UNCHANGED <<host, disk, spaces, folders, up, trying, known, locked, cmd, counts, ghost>>

\* pruneManualDisconnectIds against the connections of the store.
Prune(valid) ==
    /\ mem' = mem \cap valid
    /\ IF mem' = mem THEN UNCHANGED writes ELSE Persist("event", mem')
    /\ UNCHANGED disk

\* Variant for sensitivity: pruning against the empty list of a locked store.
StoreChangedAlways(nowLocked, stored) ==
    /\ locked' = nowLocked
    /\ known' = stored
    /\ Prune(IF nowLocked THEN {} ELSE stored)
    /\ UNCHANGED <<host, open, folders, added, suspended, counts, left>>

\* connectionManager.onDidChange: no pruning while the store is locked.
StoreChanged(nowLocked, stored) ==
    /\ locked' = nowLocked
    /\ known' = stored
    /\ IF nowLocked THEN UNCHANGED flags ELSE Prune(stored)
    /\ UNCHANGED <<host, open, folders, added, suspended, counts, left>>

SetLocked ==
    /\ host = "up"
    /\ StoreChanged(~locked, known)
    /\ UNCHANGED <<parked, up, trying, cmd, intended>>

\* The Delete command disconnects, then removes the connection.
DeleteConnection(c) ==
    /\ host = "up" /\ ~locked
    /\ c \in known
    /\ up' = up \ {c}
    /\ trying' = trying \ {c}
    /\ cmd' = [j \in Command |-> Refused(c, j)]
    /\ intended' = intended \ {c}
    /\ parked' = [w \in Workspace |-> [parked[w] EXCEPT !.intended = @ \ {c}]]
    /\ StoreChanged(locked, known \ {c})

\* The user adds the folder, in this window or, by Connect, in another one.
UserAddsFolder(c) ==
    /\ c \in known \ ToSet(folders)
    /\ restarts < MaxRestart
    /\ restarts' = restarts + 1
    /\ folders' = Append(folders, c)
    /\ intended' = intended \ {c}
    /\ IF folders = <<>> /\ host = "up" THEN GoDown({})
       ELSE /\ added' = IF host = "up" THEN added \cup {c} ELSE added
            /\ cmd' = [k \in Command |->
                         [cmd[k] EXCEPT !.shared = @ \/ c \in ToSet(cmd[k].todo)]]
            /\ UNCHANGED <<host, flags, spaces, pool, left>>
    /\ UNCHANGED <<known, locked, started>>

\* The window is reloaded or closed, or another workspace is opened in it.
Reload ==
    /\ host = "up"
    /\ restarts < MaxRestart
    /\ restarts' = restarts + 1
    /\ \E w \in Workspace : Reopen(w, <<>>)
    /\ UNCHANGED <<known, locked, started>>

\* activate(): prune, drop the flags of present folders, suspend the rest,
\* reconnect the folders. A master password leaves the store locked.
Activate ==
    /\ host = "down"
    /\ host' = "up"
    /\ \E l \in BOOLEAN :
          /\ locked' = l
          /\ mem' = (IF l THEN disk ELSE disk \cap known) \ ToSet(folders)
          /\ trying' = IF l THEN {} ELSE ToSet(folders) \cap known
    /\ disk' = mem'
    /\ suspended' = mem'
    /\ left' = {}
    /\ UNCHANGED <<writes, spaces, folders, added, up, known, cmd, counts, intended>>

Next ==
    \/ \E k \in Command :
          \/ Start(k)
          \/ ConnectItem(k) \/ ConnectReached(k) \/ ConnectSaved(k)
          \/ ConnectRefused(k) \/ Place(k) \/ PlaceInFile(k) \/ PlaceFails(k)
          \/ DisconnectItem(k) \/ Cut(k) \/ Unfold(k) \/ UnfoldFails(k)
    \/ \E c \in Conn : \/ AttemptEnds(c) \/ Background(c) \/ LinkLost(c)
                       \/ DeleteConnection(c) \/ UserAddsFolder(c)
    \/ Flush \/ FoldersChanged \/ SetLocked \/ Reload \/ Activate

Spec == Init /\ [][Next]_vars

(***************************************************************************)
(* Properties                                                              *)
(***************************************************************************)

\* A connection that Disconnect closed in a workspace, with no Connect of it
\* meanwhile or since, is not connected again in the background of that
\* workspace: not by an open tab, not after a reload, not around a locked
\* store, not when the window has had another workspace open meanwhile.
\* (CHANGELOG.md:59)
StaysDisconnected == intended \cap up = {}

\* What was disconnected is not connected in another workspace either, unless
\* it has a folder there. The code breaks this, see README.
\* (extension.ts:404-406, 829-841)
ClosedEverywhere ==
    \A w \in Workspace : parked[w].intended \cap up \subseteq ToSet(folders)

\* A Disconnect of several connections disconnects them all, even when the
\* removal of a folder restarts the host on the way. The code breaks this,
\* see README. (extension.ts:864-912)
SelectionKept == host = "down" => left \subseteq disk
=============================================================================
