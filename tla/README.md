# Remote Bridge, specified

TLA+ models of the Remote Bridge extension for VS Code (SSH/SFTP and FTP/FTPS
workspaces), model-checked with TLC, with theorems checked by TLAPS.
`PROJECT.json` lists the runs, for every definition the source lines it stands
for, the hazards the properties are aimed at, and the proved theorems.
Paths below are relative to `src/src/` unless they name a file of the repository's
root or of `media/`.

1. [The system](#1-the-system)
2. [What is done, and what is next](#2-what-is-done-and-what-is-next)
3. [The modules](#3-the-modules)
4. [The runs](#4-the-runs)
5. [Where code and documentation disagree](#5-where-code-and-documentation-disagree)
6. [What is proved](#6-what-is-proved)
7. [What is not modelled](#7-what-is-not-modelled)

## 1. The system

The extension host runs JavaScript on one thread, so concurrency means
interleaving at `await`, timers, and socket callbacks. Almost every component is
re-entered while one of its own calls is suspended. What an `await` waits for
decides what may come in between: a network round trip admits everything; an
`await` on something already done yields only to the microtask queue, where other
continuations of the extension run but no timer and no socket event does. The
host itself can end at any `await`: VS Code is closed, or a change of the first
workspace folder restarts it.

| Component | State | Operations | Talks to |
|---|---|---|---|
| `ConnectionPool` (`services/connectionPool.ts`) | entries by connection id, pending promises, generations, suspended ids, `disposed` | `getAdapter`, `disconnect`, `disconnectAll`, `suspendAutoConnect`, `resumeAutoConnect`, idle monitor, `dispose` | creates adapters; listens to their loss; tells provider, tree, status bar through `onDidChangeStatus` |
| SSH adapter (`adapters/sshAdapter.ts`) | client, SFTP channel, jump client, `connected` | `connect`, file operations, `exec`, `execStream`, shell | ssh2; tunnels |
| Tunnels (`utils/jumpTunnel.ts`, `utils/proxyTunnel.ts`) | what is open so far | open, close | ssh2, sockets |
| FTP adapter (`adapters/ftpAdapter.ts`) | three queues by priority, loop flags, keepalive timer, `_connected` | `_enqueue`, drain loop, preflight, file operations, `disconnect` | basic-ftp, which allows one command at a time |
| `CacheService` (`services/cacheService.ts`) | stat, content, listing and absence maps, byte counter | get/set, `invalidatePath`, `clearConnection`, limits | used by provider and chat tools |
| File system provider (`providers/fileSystemProvider.ts`) | shared requests, mutation versions, watchers, probe listings, suspended ids | `stat`, `readFile`, `readDirectory`, `writeFile`, `delete`, `rename`, `watch`, suspend/resume | pool, cache, VS Code |
| `ConnectionManager` (`services/connectionManager.ts`) | the store in memory, its version, a lock with a queue | CRUD of connections and folders, load, save, merge, restore | encryption, sync, backup |
| `EncryptionService` (`services/encryptionService.ts`) | key in memory; store, shadow and parameters in separate items | set, change, unlock, lock, remove master password | secret storage, global state |
| `SyncService` (`services/syncService.ts`) | fingerprint, run under way, timers | check, run, retry, debounced push | Settings Sync, manager |
| `BackupService` (`services/backupService.ts`) | write chain, day of the last backup | backup, promotion, pruning, restore | disk |
| Orchestration (`extension.ts`) | workspace folders and their labels, manual disconnects in memory and on disk | connect, disconnect, folder and store events, activation | everything |
| Remote search (`services/remoteSearchService.ts`, `commands/remoteSearchCommands.ts`, `providers/searchResultsProvider.ts`) | searches under way, cached tool, results, refresh timer | search, cancel, clear | SSH exec, results tree |
| Connection form (`webview/connectionFormPanel.ts`, `media/connectionForm.js`) | one panel, its page, messages between them | open, save, test, detect | manager, adapters |
| Workspace file (`utils/workspaceFileManager.ts`) | files, each a workspace with a state of its own | write, open, find, delete | orchestration, VS Code |
| Terminals, transfer tracker, recent connections, import preview | small buffers and counters | open/close, persistence | VS Code |
| Importers, exporters, crypto and shell helpers, views, chat tools, logger | none that decides later behaviour | conversions and presentation | |

What is hard, and what makes each part correct:

- **Pool.** An attempt to connect takes up to 30 s. In that time the user may
  disconnect, suspend and reconnect, other callers join, the idle monitor and
  evictions close entries. Correct: no live connection without an entry; never two
  attempts that are both wanted; an attempt that was overtaken never becomes an
  entry; every caller gets an answer.
- **SSH adapter.** `connect` opens up to four things one after the other (a proxy
  socket, a jump host's client, the client, its SFTP channel), each of which may fail
  or be lost; a loss is noticed by failing operations and by three events. Correct:
  nothing stays open, a loss is told once and always, `connect` and every operation
  settle, a stream that is cancelled too.
- **FTP queue.** Operations overlap on a client that may run one at a time, and the
  loss of the connection is noticed by five code paths at once. Correct: mutual
  exclusion, nothing forgotten in a queue, everything settles, a loss is reported
  once, priorities do not reorder a read before the write it follows.
- **One operation on the server.** A write of a read-only file is a mode read, a
  temporary chmod, the opening, over SSH the mode of the stream, the write and a chmod
  back, each a request of its own, which may be refused, and between which another
  caller's requests or a loss may come. Correct: the mode returns, the FTP client is
  back at the root, nothing is overwritten that must not be.
- **Cache.** The byte limit rests on a counter that six code paths adjust.
- **Provider.** Replies of requests made before a mutation arrive after it; polls do
  so seconds later. Correct: a read never returns what an earlier, finished mutation
  replaced; shared requests are alive; retries are transparent; watchers stop with
  their last holder.
- **Store, encryption, sync, backup.** Several stored items that are updated one
  after the other with awaits between them, a merge of two stores that must not lose
  or resurrect connections, retries of pushes. A crash between two updates, and a
  load between a change and its save, are what to look for.
- **Backups.** Windows write, prune and end in the middle of one another, in one
  folder. Correct: what is listed is whole, and the newest stay.
- **Sessions.** Commands overlap, removing a folder may restart the host in the middle
  of one, and a Connect may reopen the window under another workspace, with other
  flags. Correct: who was disconnected by hand stays so.
- **Search, form, labels.** Answers arrive for a search, a page or a folder that is
  not the present one any more.

## 2. What is done, and what is next

The order follows what the user would lose if it broke.

| Part | Modules | Proved | Next |
|---|---|---|---|
| Pool | ConnectionPool refines SingleFlight | the refinement, an invariant, six properties | |
| FTP queue | FtpQueue refines SerialClient and RemoteAdapter | both refinements, six properties | |
| SSH adapter, tunnels | SshAdapter refines RemoteAdapter | the refinement, two properties | |
| Requests on a server | RemoteFiles | three properties | |
| Provider, watchers | FileSystemProvider, WatchRegistry | five properties | trees of paths; a file read atomically between call and return, as the abstract specification |
| Cache | CacheService | one property | |
| Store | ConnectionStore, StoreMerge | four properties | the passwords one by one |
| Synchronisation | Sync refines LastWriterWins | the refinement | |
| Encryption, backup | EncryptionService, BackupService | four properties | |
| Sessions, workspace files, labels | Sessions, FolderLabels | two properties | |
| Search | RemoteSearch | two properties | |
| Form | ConnectionForm, FormFields | two properties | |
| Terminals; path normalisation | none | | the two small models that are left |

Modules to be proved about have no recursive operators, take their parameters as
constants with named assumptions, and state invariants as conjunctions of named
parts.

## 3. The modules

In every module a step is the code between two awaits. Definitions whose comment
starts with "Variant for sensitivity" are not part of the specification: they are
altered forms of the definition below them, which `PROJECT.json` pairs with the
property that must notice the difference. The `MC` modules add symmetry sets.

**ConnectionPool** (`services/connectionPool.ts`). Its unit is a `getAdapter` call
`k` that cannot return at once; the adapter it creates carries the same identity, so
`pool[c] = k` reads "the entry of c holds the adapter that call k opened". `pc[k]`
is where the call is: `connecting` and `evicting` are its two awaits, `ok`/`err`
the microtask after `_connectAdapter` in which `_pending` is cleaned up, `waiting`
a caller that joined. `pending`, `pendingGen`, `gen` and `suspended` are the
private maps. `cancelled` is history. The gap of `await adapter.disconnect()` is a
microtask: other API calls run in it, network events, timers and the clock do not
(`Quiet`). Ties of `_evictOldest` are resolved in any order. `closing` counts the
`disconnect` calls in their await. `dispose` may be called twice, as at shutdown
(`deactivate`, then the subscriptions). `touch()` has no caller and is left out.
**SingleFlight** is what callers may rely on: of each connection the `promise` newcomers
join and the `session` in use, of each call how far it is and whom it waits for. It knows
no generations, entries, statuses, evictions or clock; giving something up (`Drop`) is one
step there. The pool implements it with *promise* read as `_pending`, and *session* as
the adapter for which `isConnected` is true, not as the entry, which may be stale.

**FtpQueue** (`adapters/ftpAdapter.ts`). `queue` are the three arrays,
`queueRunning`/`drainScheduled` the two flags between which wakeups could be lost,
`executing` what runs on basic-ftp, `outcome` how each operation's promise settled,
`reports` the disconnect events. `Enqueue` is the synchronous part of `_enqueue`
with its two refusals, `Drain` the microtask and the head of the loop, `Done` what
follows an operation in `_executeQueuedOperation` and the next turn of the loop.
`SocketError` and `SocketClose` are the handlers set in `connect`. What basic-ftp
does is external: an operation ends in success, in an error, or in a closed client; some
kinds answer a loss with a result of their own (`Swallowed`): "no such file", a plain
error, or success.
**SerialClient** is what the callers get: a server that does one thing at a time, each
change before whatever was asked for after it, nothing twice, and no rest while something
waits. The queue implements it with the operations' outcomes as its state: neither the
queues nor the flags of the loop are to be seen.

**SshAdapter** (`adapters/sshAdapter.ts`, `utils/jumpTunnel.ts`,
`utils/proxyTunnel.ts`). One adapter from `connect` to `dispose`. `via` is the set of
tunnels that are configured: proxy, jump host, none or both. `stage` is how far
`connect` came, `client` and `jump` what has become of the two ssh2 clients,
`jumpKept` whether `_jumpClient` holds the second, `sock` the proxy socket: the
client's transport, or apart, once a jump host's stream is to take its place in
`connectConfig.sock`. `queued` is the microtask in which
a failed operation reports the loss, `events` counts the reports somebody could hear.
A call is an SFTP request, a collected command or a stream; `token` is its
cancellation and `timer` the forced close that follows the end of its input. Of ssh2
the model assumes that a link that broke, in the handshake or later, fails what is
pending and emits its events, in any order, `error` among them or not.
**RemoteAdapter** (`adapters/adapter.ts`) is the life of an adapter as the
pool sees it: not connected, up, over, and an event that is fired at once, a microtask
later or never. Both adapters implement it.

**RemoteFiles** (the file operations of both adapters). One server with a few places,
each a file in a directory of its own, and several callers. `pc[c]` names the next
request of caller `c`; over SSH requests of different callers interleave freely, over
FTP `turn` is the caller whose queued operation runs. `mode`, `source` and `raised`
are the locals of a write or copy: the mode that was read, that of the source, and
whether a bit was added. Every request may be refused; a mode that cannot be read is
"none", and a test for a file that fails reads as "no file" (`Probe`). `Chmod` is the
request with which `createWriteStream` gives the file the mode it was called with,
after the opening. `locked`, `misled`, `refused` and `clobbered` are history: which
files were read-only and were neither moved nor given up by the code (`Excuse`), who
was told "no file" wrongly, whether the last `cd('/')` was refused, and whether a call
that must not overwrite did although it was told the truth.

**CacheService** (`services/cacheService.ts`). All operations are synchronous, so
each is an action. `content` is a sequence of entries because the insertion order
of the `Map` is what eviction goes by; `counter` is `_currentContentSize`, a
variable of its own because the code keeps it separately from the map. `Put` keeps
the place of a key that is present, as `Map.set` does. The three maps of metadata
are one function from map and key to the time of expiry.

**FileSystemProvider** (`providers/fileSystemProvider.ts`). One file and the
directory it is in. Everything a reply can carry is a *state* of the file: the stamp
of the change that made it what it is, and whether it exists, which is all the
properties need to tell old from new. `req` are the asynchronous parts of `stat`,
`readFile`, `readDirectory` and the listing a probe starts; `call` the callers,
several of which may wait for one request; `mutation` writes and deletes; `tick`
polls of a watcher. `Serve`/`Apply`/`ServePoll` are the moments at which the server
looks, separate from the arrival of the reply. The cache appears as the entries of
the file; CacheService's clock appears as `Expire`, at any moment. Settled requests
are reused, so `Req` bounds what is in flight at once. `settled`, `raced`, `during`
and `era` are history.

**WatchRegistry** (`watch()` of the same file) has the disposables of one URI. The
first is the `owner` of the interval and calls `disposeFn` itself; later ones share
it and count down.

**ConnectionStore** (`services/connectionManager.ts`). The store is a stamp per item
with a tombstone flag, in memory (`mem`) and in the copies `shadow`, `synced` and
`backup`; `secret` is SecretStorage. Edits change the memory at once, then store
passwords, bundle them and write; they do not take the lock. `load`, `save` and
`restoreFromBackup` do, in the order of `queue`. `LoadRead`, `LoadApply` and
`RestoreSecrets` are the three parts of a load; `op[c].ver` is the `_storeVersion` it
compares. `Deliver` is Settings Sync replacing the synchronised copy by that of a
device that may not know the last edits. `crossed` (a load read the copies while the
edit was under way) is history.

**StoreMerge** (`_mergeStores`) is the merge in full, as operators: the newer record,
tombstones, references to folders that are gone, cycles, bundled passwords. Two
devices that hold any two stores of a set exchange them twice.

**Sync** (`services/syncService.ts`) has several devices, each with its memory, its own
copy and the synchronised one, and the cloud, which whole stores overwrite. `Exchange`
is what a call of the Settings Sync command does, which may fail and is then ignored,
`Background` an exchange of VS Code's own accord; `fresh`, `push`, `retry` and `run` are
the fingerprint, the two timers and `_syncing`. A save is two steps, one for each of its
writes (`Save`, `SaveEnds`), between which Settings Sync, loads and `Restart`, which
closes VS Code at any step, may come; `torn` is history: devices that have loaded in
that gap when the first write was already replaced. A load that would leave nothing of a
list that is not empty is refused (`Refused`), and of folders (`Folder`) it notices only
that they come and go. **LastWriterWins** is what this is to achieve: a device knows of
each item some change, and comes to know only newer ones, that somebody made. It is
excused where its own copy was torn. `Sync` implements it with *known* read as "what the
device has saved" (`Known`). The memory would not do: it goes back when a merge brought
nothing but tombstones of what the device did not list, which is not written back, and
VS Code is restarted.

**EncryptionService** (`services/encryptionService.ts`, and its commands in `extension.ts`).
The entries `plain`, `enc`, `shadow`, `meta` of the global state are written one by
one; `key` and `hash` are in memory. A command (`cmd`) sets, changes, removes or
migrates the password, step by step, while a save (`saver`) may overlap it. `Crash`
may come between any two steps, `RemoteChange` is another device that has changed the
password. A key stands for a password with its salt; a store for the number of its
last edit.

**BackupService** (`services/backupService.ts`). Windows of VS Code that share one
folder. Of each the chain of tasks and the place of the first one (`pc`); of the folder
the files by kind and date and whether each is whole. A pruning lists the folder once
(`List`) and deletes by that list one file after the other (`doomed`, `Delete`), while
other windows write and delete. `Keep` are the numbers that are kept, `Mondays` the
days of a weekly copy, which goes by the day the task began.

**Sessions** (`extension.ts`). Connect and Disconnect commands for several connections,
each with its place in its loop; the flags of manual disconnects in memory, on their
way to the disk (`writes`) and on it; the folders; the store's list and lock; the
pool, abstracted to which connections are suspended, being connected and connected.
The flags belong to a workspace: `open` is the one the window has, `parked` what the
others were left with. A Connect that has connected adds the folders to this workspace
(`Place`), or writes a workspace file and reopens the window with it (`PlaceInFile`,
`Reopen`), or does neither (`PlaceFails`).
`Kept` is the code's `filter`, written as a recursive function, which can be proved about.
`GoDown`, `Reopen` and `Activate` are the ends and the start of the extension host.
`Background` is any file operation of VS Code. `intended`, `shared` and `left` are
history.

**FolderLabels** (`syncWorkspaceFolderNames`). Labels as they are and as the host
believes them to be after its own call, calls VS Code has still to carry out and
events it has still to deliver.

**RemoteSearch** (`commands/remoteSearchCommands.ts`, `services/remoteSearchService.ts`,
`providers/searchResultsProvider.ts`). Searches numbered in the order they start, each
connecting, probing for a shell, opening a channel and streaming, each of which a loss
or an error of the stream may end (`Lost`, which clears the results); `running` is the
one the view belongs to. `shown` are the results, `painted` those the tree has drawn.

**ConnectionForm** (`webview/connectionFormPanel.ts`, `media/connectionForm.js`). The
panel, the page it shows, the messages between them, and the saves, tests and
detections (`jobs`) the panel is at. Of what a form holds the model keeps whose it is,
and of a job whose stored passwords it has read (`using`), one await after the other.
What a prefill brings was read when the form was opened. A new connection is not
followed beyond its saving: it gets an id of its own whatever its name.
**FormFields** has what the handlers of the page do to the fields that depend on one
another, with the two prefills that race with the user.

**Services** puts side by side the parts that share no state: cache, watchers,
searches, backups, merge, encryption, files, form, fields, labels. Since none reads
what another one keeps, a behaviour of each alone is all there is to explore, and the
initial state chooses which of them moves. Its properties are theirs, by `INSTANCE`.
It declares what the parts assume of their constants, and its specification is the
one their theorems are about; **MCServices** has the stores and limits TLC gives it.

**ConnectionPoolProofs**, **FtpQueueProofs**, **FileSystemProviderProofs**,
**ConnectionStoreProofs**, **SyncProofs**, **SshAdapterProofs**, **SessionsProofs** and
**ServicesProofs** have the theorems of section 6.

## 4. The runs

| Run | Question | Bounds, and why they are enough |
|---|---|---|
| `pool` | does the pool implement SingleFlight through disconnect, suspend, resume, eviction, loss and dispose, does nothing leak, does an attempt that was overtaken ever become the entry, who writes the status of a live connection, and does every call end? | two connections, one of each protocol, in a pool of one, so that the second evicts; two calls, which overtake or join one another; one invalidation and one tick of the clock, which makes an entry idle |
| `ftp_queue` | does the queue implement SerialClient and RemoteAdapter: no lost wakeup, no reordered write, one report of a loss; does everything settle? | three operations: one runs, one waits before it, one arrives; each is of any kind and source, a keepalive among them |
| `ssh` | is nothing left open, a loss told once (RemoteAdapter) and always, `connect` and every operation settled? | directly, through a proxy, a jump host or both; the link may break from the handshake on; two operations of every kind; three events, so that a second and a third report would be seen |
| `provider_reads` | read your writes on a probe path, with polls and a lost connection; what the version guard of the watcher guarantees | two calls, two requests at once, one mutation, one poll, one loss |
| `provider_liveness` | do calls that wait for requests that wait for requests settle, and share? | two calls with a request and a listing each; one manual disconnect, one change by another client |
| `store` | does an edit that has returned stay on the disk, has the lock one holder at a time that can get on, and is it always handed on? | one item; three calls: an edit, a load that crosses it, a third of any kind; three stamps, for an edit here, one elsewhere and a deletion |
| `store_lost` | is an edit under way kept by a load? (violated) | the same with two stamps |
| `sync` | does the whole implement LastWriterWins, and does it come to rest? | two devices, one item, a connection (`Folder` is empty), edits at two times, saves in two writes, one restart at any of them, one retry |
| `sessions` | does who was disconnected by hand in a workspace stay so there? | two connections, two commands of up to two connections each, the workspace of the window and one workspace file, one restart nobody caused and any number that commands cause |
| `services` | the sixteen properties of the parts named above | see below |
| `search_cut` | is a cut line shown as a match? (violated) | two searches, a limit of two |
| `form_tls` | is an FTP connection with TLS left as it was by its form? (violated) | every connection the form can show |

`services`: cache with two keys in one directory, sizes below, at and above the limit,
two limits so that it can be lowered, drift and time capped; three watchers and
intervals: an owner, a sharer, a successor; two searches with a limit of two and chunks
of up to two matches; two windows, so that one writes and prunes behind the other's
listing, three days, two of them Mondays, two tasks, two daily files kept; all stores of
a connection and two folders that may be one another's parents, with two stamps and
tombstones; four keys and two edits, an old key among them; two places and two callers,
both protocols, with and without the setting of the temporary permission; two pages, one
connection, save and test; two folders, three names, two calls or events under way.

`sync` was also checked with the item a folder, and explored at random with three
devices, two items, one of them a folder, and three times. The longest runs are `services` (2.4 million distinct
states, three minutes with two workers), `sync` (340 000, with liveness) and `sessions`
(1.7 million).

`CHECK_DEADLOCK FALSE` is set where calls, operations, commands or days are finite
sets: once all have ended nothing is left to do. Sessions never stops and is checked
for it.

**Why a passing property is worth its run.** `NoLeak` and `OneFlight` rest on the
generation being captured before the await and compared after it, and on
`_invalidatePendingConnect` being called in the same step as the change it announces;
take one away and an attempt lands after the user has disconnected. `DisconnectWins`
says so of every attempt, however often its connection was suspended, resumed and
connected anew before it ended. `LiveStatusKept` is about a status that is looked up by
id, so that two attempts write to one place. `NoStranded` is about the gap between the
last turn of the loop and the scheduling flag, `AfterMutations` about priorities that
must not let a read pass the write before it, `Serial` about both at once as the callers
see them. `OneLife` holds in two adapters that notice a loss in quite different ways.
`LockHeld` would break with one path that ends without passing the lock on, or asks for
it while holding it. `NothingLeaks` is about who owns the jump host's client and the
proxy socket between two awaits of `connect`. `ModeComesBack` would break with a step of
a write that fails and skips the `finally`; where the code does leave the file writable,
it says so one by one. `KeepsNewest` is about deletions by a list that other windows
have made stale: it holds because they only ever delete what has enough newer files, so
that the surplus of one list is still surplus later. `Converging` compares whole
behaviours, with a restart between the two writes of a save; `Quiesces` would fail if a
write-back were answered by a write-back. `LabelsSettle` bounds the calls between two
changes, which is what prevents a loop.

**What properties leave out, and why.** The code does not do more in these cases, so
the statement excludes them by name:

- `ReadYourWrites`: a reply that was already on its way when the mutation returned
  (`raced`); nothing in the code throws such a reply of `stat` or `readFile` away. Nor
  is one of a poll that had its answer when a manual disconnect cleared the versions: the
  version it started with may come to look current again. The run has no disconnect;
  one call with one disconnect was checked besides, and the theorem has any number.
- `WatcherGuarded`: polls that start inside a mutation, where the recorded version is
  the same before and after, and polls that a manual disconnect separates from their
  start, because it clears the versions.
- `LiveStatusKept`: a step of an attempt that a disconnect or a suspend overtook. When it
  ends after its successor is up, `_setStatus` finds the successor's entry and writes
  "disconnected" or "error" there, and the views show it until the next change; TLC finds
  the trace (connect, disconnect, connect anew, land, the first attempt is discarded)
  once the exception is taken out. Nothing else writes the status of a live connection.
- `ReturnedIsSaved`: an edit that was under way when a load read the copies (that one
  is `EditIsKept`, which fails), a restored backup, and a load that finds nothing
  (`Forgotten`).
- `Recoverable`: the gaps between two writes of a command in which the code does lose
  the store (`Torn`: after `setup` has erased the plain store and before the new
  parameters and the save; the last write of a change; a change whose local copy was
  under another key; a removal after the parameters are gone), saves that overlap a
  command, and the time between another device's change of password and this one's
  next save (`foreign`). What it states is everything else.
- `ListedWhole`: weekly backups, which are copied in place.
- `NothingLeaks`: the proxy socket of an adapter with a proxy and a jump host (`apart`).
  Only the client closes it, and the client is given the other stream.
- `Settles`: a link that ends in the handshake without an `error` (`Unanswered`), for
  `connect` then waits; and `CallsEnd` of the pool assumes that `connect` ends.
- `ModeComesBack`: a lost connection, after which no request can set the mode back, and
  what the code gives up (`Excuse`): a restoring chmod the server refuses, which is
  swallowed; an FTP write that ends in `ensureDir`, before the `try` that has the
  `finally`; and an SSH write whose stream sends a mode that was read while another
  write had raised it, or that could not be read. FTP writes do not overlap, and there
  nothing but the first two is excused, besides a mode that could not be read.
- `BetweenOpsAtRoot`: a `cd('/')` the server refused, which the code logs.
- `NeverClobbers`: SSH, where the test and the opening of the file are two requests, and
  callers whose test failed, which the code takes for "no file" (`misled`).
- `Converging`: a device that is `torn`. A load between the two writes of a save, after
  Settings Sync has replaced what the first has written, sees neither; the memory falls
  behind the second write, and the next save puts the older store over it.
- `SavedAsEntered`: of a new connection it says nothing (see section 5).
- `StaysDisconnected`: other workspaces than the one it was disconnected in
  (`ClosedEverywhere`, which the code breaks), and a Disconnect that overlapped another
  command for the same connection or an event that added its folder (`shared`). There
  the outcome depends on the order: a Connect that began before the Disconnect may clear
  the flag the Disconnect has set, or, failing, leave the connection suspended after a
  Connect.

**Fairness.** *Pool*: weak fairness of each call's next step (the microtask queue
drains; `connect()` of both adapters has a timeout of 30 s, `sshAdapter.ts:148-243`) and
of the end of `disconnect`. The one case in which the SSH adapter's does not end is
`Unanswered`, above. No caller must call, and no connection must be lost. *FTP queue*:
of the drain, a microtask, and of the end of each operation that runs, since basic-ftp
has a timeout of its own. *SSH adapter*: of the steps of `connect` (15 s for a proxy, 30
s for a jump host, `readyTimeout`), of ssh2's close of what broke or was ended, of the
microtask, of the answer to a request (the keepalive breaks a link that does not
answer), of a timer that is due, and of the end of a channel whose client is gone or
which was closed by force. Nothing says that a command exits. *Provider*: of each
request's reply or error, for the same timeouts; the server need not answer. *Sync*: of
the poll, the debounce, the retry, the end of a save and of a run, all of them timers or
promises, and of VS Code's own exchange, which is not down for good; nobody need edit,
restart or press a button, and no command need succeed.

## 5. Where code and documentation disagree

With a run that shows the disagreement:

| Run, property | Code | Says otherwise |
|---|---|---|
| `store_lost`, `EditIsKept` | `services/connectionManager.ts:147`: a load gives way to edits made after it began; one made just before, still to be saved, is in neither copy it reads and is replaced, then overwritten on disk | lines 52-53: the version counter lets a load "detect it was pre-empted" so that it does not "overwrite fresh data" |
| `search_cut`, `NoCutLine` | `services/remoteSearchService.ts:130`: a lost connection closes the channel without cancelling the stream, so the unfinished last line is delivered | lines 128-129, which say a line cut off must not be reported |
| `form_tls`, `EditKeeps` | `media/connectionForm.js:82`: opening the form of an FTP connection with TLS unticks the box, and saving stores it | `README.md:186` |

The others are definitions of the modules named, with the state in which each fails
described in the comment above it, or are read off the code. No run repeats them:

- `WithinLimit` (ConnectionPool; `services/connectionPool.ts:130`): attempts that
  overlap all pass the size test, and the pool stays above its limit.
- `LossIsTyped` (FtpQueue; `adapters/ftpAdapter.ts:252`): after a loss that something
  else noticed, an operation fails with a plain `Error`, and the provider, which looks
  for the typed one, does not retry.
- `EvictsOnlyWhenFull` (CacheService; `services/cacheService.ts:113`): the byte counter
  is not lowered by what `setContent` overwrites or `_get` finds expired, so entries
  are evicted with room to spare.
- `HeldIsPolled` (WatchRegistry; `providers/fileSystemProvider.ts:266`): the first
  watcher's disposable stops the interval others share.
- `services/syncService.ts:200`: a merge that brings only tombstones is not written
  back, and after a restart the deletion is forgotten.
- `Received` (Sync; `services/syncService.ts:58`): an edit made during a run is not
  pushed until its device writes again.
- `services/encryptionService.ts:410`: once the password was changed on another device
  the local copy under the old key can never be read again.
- `Refused` (Sync; `services/connectionManager.ts:166`): a load that would leave nothing
  of a list is refused, also when the other device has deleted its last item; that device
  lists it on, and its next save writes it back without the tombstone.
- `NothingLeaks` without its exception (SshAdapter; `adapters/sshAdapter.ts:145`): with a
  proxy and a jump host, which `README.md:188` says cannot be combined and nothing
  prevents, the proxy socket is never closed.
- `Unanswered` (SshAdapter; `adapters/sshAdapter.ts:239`): `end` and `close` in the
  handshake settle nothing; `connect` stays pending, and every later call joins it.
- `ModeComesBack` without its exceptions (RemoteFiles; `adapters/sshAdapter.ts:409`): the
  mode of the stream of one write undoes what another has restored; and
  `adapters/ftpAdapter.ts:629`: a failed `ensureDir` ends the write with the file raised.
- `NeverClobbers` without its exception (RemoteFiles; `adapters/ftpAdapter.ts:1006`): an
  error of SIZE and LIST reads as "no file", and the file is overwritten.
- `OkMeansDone` (SshAdapter; `adapters/sshAdapter.ts:634`): a channel that closes with no
  exit status counts as exit code 0.
- `ClosedEverywhere` (Sessions; `extension.ts:829`): the flags of manual disconnects are
  those of a workspace, and a Connect that reopens the window with a workspace file leaves
  them behind; a tab of a disconnected connection connects it again there.
- `SelectionKept` (Sessions; `extension.ts:870`): Disconnect of a selection whose first
  folder is the window's first one does not reach the rest.
- `Exclusive` (FormFields; `media/connectionForm.js:492`): the prefill ticks proxy and
  jump host at once, and both are saved.
- `PathIsOwn` (ConnectionForm; `media/connectionForm.js:331`): the answer to "Detect" is
  written into the form of whatever connection is shown when it comes.
- `TestsOwn` (ConnectionForm; `webview/connectionFormPanel.ts:342`): a test reads the
  stored passwords of whoever the panel is open for by then.
- `services/connectionManager.ts:575`: a new connection stays in the memory when its save
  fails, and the form, sent again with another name, adds a second.
- `OneCallAtATime` (FolderLabels; `extension.ts:499`): a change of the connections calls
  `updateWorkspaceFolders` before the previous call has been reported.

- `adapters/ftpAdapter.ts:217`: `disconnect()` fires `onDidDisconnect` also when the owner
  meant to close the connection, against `adapters/adapter.ts:41`; the SSH adapter does not.
  The pool disposes its listener first and does not notice.

Two hazards have no property, each for a reason given in `PROJECT.json`: entries left in the
cache below a renamed or deleted directory (`providers/fileSystemProvider.ts:467`), and
passwords read and written one by one (`services/connectionManager.ts:436`).

## 6. What is proved

All theorems are checked by TLAPS for every value of the constants. They have the same
form: an inductive invariant, of which the property is a part or a consequence, holds
initially and is kept by every step, one lemma step per action.

**ConnectionPoolProofs**, from `PoolAssumption` (finite connections and calls, a limit
of at least one). `TypeCorrect`, then `NoLeak`, `DuplicateFree`, `DisconnectWins` and
`JoinsAreCurrent`. None is inductive: that an entry is never
replaced by an overtaken attempt follows from what is known of the attempt while it is
suspended. The invariant says what each place of a call implies for its adapter, its
captured generation and the pending promise (`CallInv`, `AttemptInv`), that entries
belong to calls that ended well (`EntryInv`), and what is closing (`ClosingInv`).
With it `OneFlightCorrect` shows every step of the pool to be a step of `SingleFlight` or
a stutter (`FlightStep`, one lemma per action): an attempt that lands is the one on offer,
a promise withdrawn is withdrawn at the step that makes it stale, and what the gap of a
`disconnect` still does is nothing callers can see. What follows from `SingleFlight` alone
then holds of the pool: `SoundCorrect`, and `CalledOffCorrect`, that what was called off
is never offered nor used again. `LiveStatusKeptCorrect` goes through the writers of a
status: over an entry that is up there is no attempt but a cancelled one
(`AttemptUnderEntry`).

**FtpQueueProofs**: `OneAtATime`, `NoStranded`, `DrainedWhenGone`, `ReportedOnce`, from
`QueueInv`, which ties the two flags of the loop to the queues and to what runs.
There too `AfterMutations`, from an invariant that says that an operation stands once in
one queue (`PlaceInv`), that waiting mutations stand in the first queue (`HighInv`), that
what an operation was issued after are mutations that have been issued (`BeforeInv`), and
that in the first queue it stands behind them (`AheadInv`). Both together, and that what
waits in a queue is what was queued and not answered (`WaitInv`), give `SerialCorrect`, that
the queue implements `SerialClient`; `OrderedCorrect` and `OnceCorrect` are what follows
from that for the callers. `OneLifeCorrect` is the refinement of `RemoteAdapter`,
`StaysOverCorrect` its consequence.

**FileSystemProviderProofs**, from `ProviderAssumption`: `PendingIsLive` and `OneListing`,
because a request is registered as long as it is in flight; `WatcherGuarded`, because a
poll with an untouched version and no mutation beside it has seen everything settled, and
because the version a beginning mutation writes exceeds that of any poll. And
`ReadYourWrites`, by `ReadInv`: until a reply is overtaken, everything a call may be
answered from (the cache, the requests that have their answer, the polls the version
guard would let pass) is as new as what has settled.
`TypeCorrect` says besides that a file is never cached both as there and as not found
(`Alone`), whichever of the entries is filled, inferred or expires.

**ConnectionStoreProofs**, from `ClockAssumption` and `NoneAssumption`:
`ReturnedIsSaved`. An edit that counts is in the memory from the beginning (`InMemory`),
on the disk at the end (`OnDisk`), and in whatever a load would put in the place of the
memory (`InLoad`). That rests on the lock, for what one load keeps aside is not read by
another (`LockInv`), and on the two copies being present or absent together, and the
same without Settings Sync (`StoreTypes`). There too `LockHeld`, stated without
`ENABLED`. That the lock has one holder (`OneHolder`) is inductive beside that
invariant: every step of a call that is under way is a `LockStep`, taken by the head of
the queue only, which leaves the queue as it is or, when the call ends, hands it on, and
`LockStepKeeps` does the rest. That the holder can move (`HolderMoves`) follows from
what its record holds at each step (`Formed`): the steps at which nothing could be done
are those of edits, which never hold the lock. `TypeCorrect` follows from the same
records: a load applies a copy and a save writes a bundle of passwords, also after a
merge, a delivery or a restoration.

**SyncProofs**, from `ClockAssumption`, `RetriesAssumption` and `FolderAssumption`:
`ConvergingCorrect`, that `Sync` implements `LastWriterWins` with `Known` for *known*.
Every stored item originates from somebody's edit (`OriginInv`), and unless a device is
torn its memory is at least as new as what it is saving, and that as the copy it is
written over (`BaseInv`); `MergeFacts` states what the merge keeps. Each action is then
shown to be a step of the abstract specification or a stutter. `TypeCorrect` adds the
flags and timers: a series of retries that is on has one left (`Countdown`).

**SshAdapterProofs**, from `EventAssumption`: `ReportedOnce` (a report needs the flag
that its predecessor cleared, `TellInv`) and `NothingLeaks` (the jump host's client is
held by the stage of `connect` that opened it or by the adapter, and the proxy socket is
apart from the client only where a jump host is configured too, `KeepInv`).
`OneLifeCorrect` shows that the adapter implements `RemoteAdapter`, the same
specification as the FTP adapter: the microtask that is still to report is the event
that is owed. What follows from it are `StaysOverCorrect` and `ToldOnceCorrect`.
`TypeCorrect` closes the module.

**SessionsProofs** needs no assumption: `StaysDisconnected`, for any number of
connections, commands, workspaces and restarts. The property speaks of the pool and the
folders only, and says nothing of a host that is down, so it is not inductive.
`SessionInv` says that a connection that is meant to stay closed is `Closed`: it is not
connected or connecting, has no folder, no command and no event is about to bring it
back (`Touched`), and its flag is set in memory, on the disk and in every write on its
way (`Firm`), so that it does not matter at which write the host ends. Of a workspace
that is not open the same holds of what it was left with (`LeftClosed`, `SpacesInv`),
which is what `Reopen` needs. A flag that is only in memory is waited for by the
Disconnect that set it, and no later write takes it back (`Awaited`, `FlagsStored`).
`Cutting` says how far a Disconnect that nothing disturbs has come. Two commands with a
connection in common are both marked (`Aware`). Most actions are covered by one lemma
each showing that they are an `Effect`, a list of what may happen to a connection nobody
asked for, and by one lemma showing that `Effect` keeps the invariant. Starting and
finishing a command, events and the end of the host are treated on their own.
`FlagsStoredCorrect` states what of it concerns the next session alone: a flag outlives
the window at whichever write it ends.

**ServicesProofs** proves, of the specification `Services`, the sixteen properties its
run checks. The assumptions are those of that module: names that are not to be confused
are different, sizes, times, bounds and the numbers of backups that are kept are natural
numbers, and the stores that meet have finitely many folders and the secrets of their
records. `PartSteps` reduces a step to a step or a stutter of the part that moves; then
each part has an invariant of its own.

- *Cache*: `CacheWithinBudget`. It holds because `_currentContentSize` never falls below
  the bytes that are there (`CacheInv`), though it may well exceed them. `Bytes` and
  `Within` are computed entry by entry: `BytesFacts` and `WithinFacts` say what one more
  entry adds, `Divided` and `Joined` that what is evicted and what stays add up, `PutFacts`
  that a new entry adds its size at most, which needs that no key has two (`Distinct`).
- *Merge*: `Forest` and `Agree`. `Loops` follows a walk of as many steps as there are
  folders (`Walk`). Taking one folder to the root only shortens the walks of the others,
  so a turn of the loop in `_mergeStores` brings no folder into a cycle (`TurnFacts`), and
  after a turn for each there is none (`CutFacts`). Which record wins, and whether a
  tombstone beats it, does not depend on which side asks (`SameWinner`).
- *Watchers*: `NobodyPolls`, since an interval has an owner that is held or sharers that
  are counted (`OwnerInv`).
- *Requests on a server*: `BetweenOpsAtRoot` (over FTP only the caller whose turn it is
  leaves the root, and its next request goes back unless it is refused, `RootInv`),
  `NeverClobbers` (between its test and its write no other FTP operation runs, so what
  was found to be free stays so but for a test that failed, `FreeInv`) and
  `ModeComesBack`. The last one speaks of files nobody writes at present; in between, a
  locked file that is writable has a caller that made it so, remembers that, and will
  take the bit back or give the file up (`Held`, `WriteState`). The proof shows that no
  request of one caller takes that memory away from another (`Apart`, `Careful`).
- *Search*: `OnlyLatest` and `NoOrphan`. A search that lost the view is cancelled, and its
  stream limited, in the same step (`ToldToStop`); what is shown has been counted by the
  stream of the search that is running (`ShownCounted`); and an open stream has room for
  the line it holds back (`RoomLeft`), without which the limit is exceeded by one.
- *Backups*: `ListedWhole`, and the action property `KeepsNewest`, which does not follow
  from the step alone: what a window deletes it listed earlier. `DoomedInv` says that what
  any window has listed still has enough newer ones. What another window writes adds to
  these; what it deletes has enough newer ones itself, and if it is one of these, they
  are newer than the listed file too (`MoreIsEnough`, `DeleteKeeps`).
- *Form*: `SavedAsEntered`, for any number of connections, pages and messages. Whatever
  is on its way to the panel carries the id its data were entered for, whichever panel
  or page it meets there (`ToHostInv`, `ToPageInv`, `PageInv`), and is stored under that
  id only (`StoredInv`). `SavedUsable`, because every handler leaves the page with the
  sections of its protocol (`FieldsInv`).
- *Labels*: `LabelsSettle`. A folder and a name are attempted once (`OncePerFolder`), and
  an attempt that was made is there or is brought by the last call still under way for
  that folder (`AttemptsComeTrue`).
- *Encryption*: `Recoverable` and `EncryptionConsistent`. Both speak of every place
  between two writes, so the invariant does: which copies exist at which step of a
  command and under which key (`OneCopy`, `Rekeyed`, `SaverInv`), that a key just derived
  is used nowhere (`Fresh`), that a save overlaps a command only in its last step
  (`Alone`), and that every copy that can be read has all acknowledged edits (`UpToDate`,
  `Opens`, `KeyFits`). What needs the other devices to be quiet (`Current`) is kept
  apart from what does not (`Sound`).

What these two say of sums, walks and loops is proved by induction. The induction theorems
of the library take a predicate as a parameter, which the provers cannot instantiate, so
`Induction` speaks of a set of numbers instead, and follows from every set of numbers having
a least one (`Least`). `Iteration` then gives the values of a computation step by step, and
`Growing` the same induction over sequences.

**Only model-checked.** Liveness (`CallsEnd`, `AllSettle`, `Settles`, `LossReported`,
`Quiesces`) is out of the prover's reach. Every other property of the passing runs is a
theorem. **Only proved** are properties that the above imply or that the same invariant
contains: `DuplicateFree` and `JoinsAreCurrent` of the pool, `OneAtATime`
and `DrainedWhenGone` of the FTP queue, `ReportedOnce` of both adapters, `FlagsStored` of
the sessions, what follows from the abstract specifications, and the type invariants
(`TypeCorrect`, one for each of the seven components that have a proof module of their own),
which no run lists; TLC has checked these as invariants of the same instances.

## 7. What is not modelled

Components left out, and why:

- **Import preview**: a list with check boxes that answers once.
- **Terminals**: a pseudo-terminal per shell with a buffer of its own. Its one race,
  `close()` while the shell is being opened, loses the channel and touches nothing else.
- **Transfer tracker, recent connections**: counters and a list of ten names, read by the
  status bar and by menus only.
- **Workspace file**: that a Connect writes one and reopens the window with it is in
  Sessions; finding and deleting such files, and what stands in them, is not.
- **Views, chat participant and tools**: presentation of what other components keep, and
  handlers without state over pool, cache and exec.
- **Importers, exporters, crypto and shell helpers**: conversions of text and bytes with
  no state over time. **PerfLogger**: logging.

Left out of the parts that are modelled: bytes (protocols, ciphers, parsers of replies
and listings, command lines, wording, logging); listings, reads and shells of the
adapters; the handshakes of SOCKS and HTTP proxies, of which only the outcome counts;
`touch()` of the pool, which nothing calls; trees of paths, the resolution and backoff of
a watched path and the path functions of the provider; import and export of records and
the validation of their fields in the manager; dialogs of the settings and of commands;
the reading of a backup for the user to choose from; the form's HTML and messages.
