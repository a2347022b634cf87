------------------------------- MODULE Services -------------------------------
(***************************************************************************)
(* The parts that work on their own, side by side, so that one run of TLC  *)
(* visits them all: the cache, the watchers of a URI, server-side search,  *)
(* the backups, the merge of two stores, the encryption of the store, the  *)
(* files of a server, the connection form and the labels of the folders.   *)
(* None of them reads or writes what another one keeps, so a behaviour of  *)
(* each alone is all there is to explore: the initial state chooses which  *)
(* of them moves. The properties are theirs.                               *)
(***************************************************************************)
EXTENDS Naturals, FiniteSets

CONSTANTS
    None, Conn,
    Path, ParentOf, Size, Budget, Ttl, MaxTime, MaxCounter,   \* of the cache
    Handle, Entry,                   \* of the watchers
    MaxRun, MaxResults,              \* of the searches
    Window, Keep, Mondays, MaxDay, MaxTask,  \* of the backups
    Folder, Secret, Mine, Theirs,    \* of the stores that meet
    Legacy, MaxKey, MaxEdit,         \* of the encryption
    Place, Caller, Free,             \* of the files
    Button, New, Nobody, MaxOpen,  \* of the form
    Count, MaxName, MaxCalls         \* of the labels

\* The chain of FTP operations is free or held by one of the callers.
ASSUME FreeAssumption == Free \notin Caller

\* A caller's name, which is also the body it writes, is no mark of a missing file.
ASSUME BodyAssumption == "none" \notin Caller

\* null and undefined are neither a version of the store, nor a blob, nor the
\* name of a command.
ASSUME EncryptionAssumption ==
    None \notin Nat \cup [key : Nat, data : Nat]
              \cup {"setup", "change", "migrate", "remove"}

\* Sizes and limits are numbers of bytes, times those of the clock.
ASSUME CacheAssumption ==
    Size \subseteq Nat /\ Budget \subseteq Nat /\ Ttl \subseteq Nat

\* So many backups of each kind are kept.
ASSUME BackupAssumption == Keep \in [{"daily", "weekly", "manual"} -> Nat]

\* A new connection is told from those that are stored, and the owner of an
\* empty panel from every connection.
ASSUME FormAssumption ==
    /\ MaxOpen \in Nat
    /\ Button \subseteq {"save", "test", "detect"}
    /\ New \notin Conn
    /\ Nobody \notin Conn \cup {New}

\* A workspace has a finite number of folders.
ASSUME LabelsAssumption == Count \in Nat

\* The bounds on the searches and on the results of one are numbers.
ASSUME SearchAssumption == MaxRun \in Nat /\ MaxResults \in Nat

VARIABLES
    part,                                               \* which of them moves
    content, counter, meta, budget, ttl, now,           \* the cache
    registered, polling, refCount, handle,              \* the watchers
    started, running, indicator, shown, painted,        \* the searches
    refresh, tools, server, run,
    day, files, torn, chain, at, lastDate, doomed,      \* the backups
    mine, theirs, rounds,                               \* the stores
    plain, enc, shadow, params, key, hash, mem, saver,  \* the encryption
    cmd, keys, acked, foreign, excused,
    protocol, temporary, alive, dirs, file, atRoot,     \* the files
    turn, op, pc, mode, source, raised, outcome, locked, misled, refused, clobbered,
    opened, panel, pending, ready, fields, id, busy,    \* the form
    toHost, toPage, jobs, stored,
    edited, page, coming, chosen,
    name, real, label, stubborn, attempted, calls,      \* the labels
    events, renames

caching == <<content, counter, meta, budget, ttl, now>>
watching == <<registered, polling, refCount, handle>>
searching == <<started, running, indicator, shown, painted, refresh, tools, server, run>>
backingUp == <<day, files, torn, chain, at, lastDate, doomed>>
merging == <<mine, theirs, rounds>>
encrypting == <<plain, enc, shadow, params, key, hash, mem, saver, cmd, keys, acked,
                foreign, excused>>
serving == <<protocol, temporary, alive, dirs, file, atRoot, turn, op, pc, mode, source,
             raised, outcome, locked, misled, refused, clobbered>>
filling == <<opened, panel, pending, ready, fields, id, busy, toHost, toPage, jobs, stored>>
choosing == <<edited, page, coming, chosen>>
labelling == <<name, real, label, stubborn, attempted, calls, events, renames>>
vars == <<part, caching, watching, searching, backingUp, merging, encrypting, serving,
          filling, choosing, labelling>>

Cache == INSTANCE CacheService

Watchers == INSTANCE WatchRegistry WITH running <- polling

Searches == INSTANCE RemoteSearch

Backups == INSTANCE BackupService WITH pc <- at

Merging == INSTANCE StoreMerge

\* A store has finitely many folders, null is neither an id nor a record, and
\* the secret kept for a connection is that of its record.
ASSUME StoresAssumption ==
    /\ IsFiniteSet(Folder)
    /\ None \notin Folder \cup [at : Nat, in : Folder \cup {None}]
                    \cup [at : Nat, in : Folder \cup {None}, data : Secret]
    /\ Mine \cup Theirs \subseteq Merging!Store(Nat, Secret)
    /\ \A s \in Mine \cup Theirs, c \in Conn :
          s.conn[c] # None => s.secret[c] = s.conn[c].data

Encryption == INSTANCE EncryptionService WITH meta <- params

Remote == INSTANCE RemoteFiles

Form == INSTANCE ConnectionForm

Fields == INSTANCE FormFields WITH source <- edited

Labels == INSTANCE FolderLabels WITH shown <- label

Parts == {"cache", "watch", "search", "backup", "merge", "encryption", "files", "form",
          "fields", "labels"}

\* What does not move holds nothing.
Init ==
    /\ part \in Parts
    /\ IF part = "cache" THEN Cache!Init
       ELSE content = <<>> /\ counter = None /\ meta = None /\ budget = None /\
            ttl = None /\ now = None
    /\ IF part = "watch" THEN Watchers!Init
       ELSE registered = None /\ polling = None /\ refCount = None /\ handle =
            None
    /\ IF part = "search" THEN Searches!Init
       ELSE started = None /\ running = None /\ indicator = None /\ shown = None
            /\ painted = None /\ refresh = None /\ tools = None /\ server = None
            /\ run = None
    /\ IF part = "backup" THEN Backups!Init
       ELSE day = None /\ files = {} /\ torn = None /\ chain = None /\ at = None
            /\ lastDate = None /\ doomed = None
    /\ IF part = "merge" THEN Merging!Init
       ELSE mine = None /\ theirs = None /\ rounds = None
    /\ IF part = "encryption" THEN Encryption!Init
       ELSE plain = None /\ enc = None /\ shadow = None /\ params = None /\ key =
            None /\ hash = None /\ mem = None /\ saver = None /\ cmd = None /\
            keys = None /\ acked = None /\ foreign = None /\ excused = None
    /\ IF part = "files" THEN Remote!Init
       ELSE protocol = None /\ temporary = None /\ alive = None /\ dirs = None /\
            file = None /\ atRoot = None /\ turn = None /\ op = None /\ pc = None
            /\ mode = None /\ source = None /\ raised = None /\ outcome = None /\
            locked = None /\ misled = None /\ refused = None /\ clobbered = None
    /\ IF part = "form" THEN Form!Init
       ELSE opened = None /\ panel = None /\ pending = None /\ ready = None /\
            fields = None /\ id = None /\ busy = None /\ toHost = None /\ toPage =
            None /\ jobs = None /\ stored = None
    /\ IF part = "fields" THEN Fields!Init
       ELSE edited = None /\ page = None /\ coming = None /\ chosen = None
    /\ IF part = "labels" THEN Labels!Init
       ELSE name = None /\ real = None /\ label = None /\ stubborn = None /\
            attempted = None /\ calls = None /\ events = None /\ renames = None

Next ==
    /\ \/ /\ part = "cache" /\ Cache!Next
          /\ UNCHANGED <<watching, searching, backingUp, merging, encrypting,
                         serving, filling, choosing, labelling>>
       \/ /\ part = "watch" /\ Watchers!Next
          /\ UNCHANGED <<caching, searching, backingUp, merging, encrypting,
                         serving, filling, choosing, labelling>>
       \/ /\ part = "search" /\ Searches!Next
          /\ UNCHANGED <<caching, watching, backingUp, merging, encrypting,
                         serving, filling, choosing, labelling>>
       \/ /\ part = "backup" /\ Backups!Next
          /\ UNCHANGED <<caching, watching, searching, merging, encrypting,
                         serving, filling, choosing, labelling>>
       \/ /\ part = "merge" /\ Merging!Exchange
          /\ UNCHANGED <<caching, watching, searching, backingUp, encrypting,
                         serving, filling, choosing, labelling>>
       \/ /\ part = "encryption" /\ Encryption!Next
          /\ UNCHANGED <<caching, watching, searching, backingUp, merging, serving,
                         filling, choosing, labelling>>
       \/ /\ part = "files" /\ Remote!Next
          /\ UNCHANGED <<caching, watching, searching, backingUp, merging,
                         encrypting, filling, choosing, labelling>>
       \/ /\ part = "form" /\ Form!Next
          /\ UNCHANGED <<caching, watching, searching, backingUp, merging,
                         encrypting, serving, choosing, labelling>>
       \/ /\ part = "fields" /\ Fields!Next
          /\ UNCHANGED <<caching, watching, searching, backingUp, merging,
                         encrypting, serving, filling, labelling>>
       \/ /\ part = "labels" /\ Labels!Next
          /\ UNCHANGED <<caching, watching, searching, backingUp, merging,
                         encrypting, serving, filling, choosing>>
    /\ UNCHANGED part

Spec == Init /\ [][Next]_vars

-----------------------------------------------------------------------------
(* Properties of the parts; each is stated in the module of its part *)

\* CacheService: a call that adds bytes leaves the cache within its budget.
CacheWithinBudget == Cache!WithinBudget

\* WatchRegistry: no interval polls for nobody.
NobodyPolls == part = "watch" => Watchers!NobodyPolls

\* RemoteSearch: the results shown are those of the latest search, up to its
\* limit.
OnlyLatest == part = "search" => Searches!OnlyLatest

\* RemoteSearch: a superseded search is told to stop.
NoOrphan == part = "search" => Searches!NoOrphan

\* BackupService: a daily or manual backup that is listed is whole.
ListedWhole == part = "backup" => Backups!ListedWhole

\* BackupService: only what enough newer backups replace is deleted, also by a
\* stale listing.
KeepsNewest == Backups!KeepsNewest

\* StoreMerge: the folders of a merged store are a forest.
Forest == part = "merge" => Merging!Forest

\* StoreMerge: both sides of an exchange end with the same, and nothing that
\* was deleted after its last edit comes back.
Agree == part = "merge" => Merging!Agree

\* EncryptionService: the password opens what has been saved, whenever VS Code
\* is closed.
Recoverable == part = "encryption" => Encryption!Recoverable

\* EncryptionService: nothing stays in the clear, and the key in memory is the
\* one of the disk.
EncryptionConsistent == part = "encryption" => Encryption!Consistent

\* RemoteFiles: a read-only file is read-only again after every write.
ModeComesBack == part = "files" => Remote!ModeComesBack

\* RemoteFiles: between two FTP operations the directory is the root.
BetweenOpsAtRoot == part = "files" => Remote!BetweenOpsAtRoot

\* RemoteFiles: over FTP a call that must not overwrite does not.
NeverClobbers == part = "files" => Remote!NeverClobbers

\* ConnectionForm: what is stored of a connection was entered for it.
SavedAsEntered == part = "form" => Form!SavedAsEntered

\* FormFields: what only SSH has is not saved with an FTP connection.
SavedUsable == part = "fields" => Fields!SavedUsable

\* FolderLabels: the labels become those of the connections, without a loop.
LabelsSettle == part = "labels" => Labels!LabelsSettle
=============================================================================
