----------------------------- MODULE RemoteFiles -----------------------------
(***************************************************************************)
(* The file operations of the two adapters as the server sees them: each   *)
(* is a sequence of requests, and the requests of two callers may          *)
(* interleave.                                                             *)
(*                                                                         *)
(*   ssh  adapters/sshAdapter.ts: nothing orders the operations;           *)
(*   ftp  adapters/ftpAdapter.ts: an operation holds the queue from its    *)
(*        first request to its last; copy() is several operations.         *)
(*                                                                         *)
(* The remote tree is a set of directories that can each hold one file. A  *)
(* place names both the directory and the file in it. Bytes written by two *)
(* callers at once are not told apart, and what a server refuses it may    *)
(* refuse at any request. A new file is writable (files.newFileMode).      *)
(***************************************************************************)
EXTENDS Naturals, FiniteSets

CONSTANTS Place, Caller,
          Free          \* nobody holds the FTP queue

VARIABLES
    protocol,   \* "ssh" or "ftp"
    temporary,  \* the setting files.temporaryWritePermission
    alive,      \* the connection stands
    dirs,       \* directories of the tree
    file,       \* what a place holds: NoFile or [body, writable]
    atRoot,     \* the FTP working directory is the root
    turn,       \* who holds the FTP queue
    op,         \* the operation of a caller
    pc,         \* its next request
    mode,       \* the mode it read first: "none", "ro" or "rw"
    source,     \* the mode of the file it copies
    raised,     \* it added the owner-write bit
    outcome,    \* what its request sequence will settle with
    locked,     \* places whose file was read-only and stayed where it was,
                \* less those the code gave up, see Excuse
    misled,     \* callers whose test for a file failed and was read as "no file"
    refused,    \* the server refused the last cd('/')
    clobbered   \* a file was overwritten by a call that must not overwrite and
                \* was not misled

tree == <<dirs, file, atRoot>>
own == <<mode, source, raised, outcome>>
ghost == <<locked, misled, refused, clobbered>>
vars == <<protocol, temporary, alive, tree, turn, op, pc, own, ghost>>

NoFile == [body |-> "none", writable |-> FALSE]
Exists(p) == file[p] # NoFile
Modes == {"none", "ro", "rw"}
ModeOf(p) == IF ~Exists(p) THEN "none" ELSE IF file[p].writable THEN "rw" ELSE "ro"

\* A call: from and to differ only for rename and copy.
Op == [kind : {"write", "create", "update", "delete", "rmdir", "mkdir"},
       from : Place, to : Place, over : BOOLEAN]
Moves == [kind : {"rename", "copy"}, from : Place, to : Place, over : BOOLEAN]
Ops == {o \in Op : o.from = o.to /\ (o.kind = "rmdir" \/ ~o.over)}
       \cup {o \in Moves : o.from # o.to}

\* Every field within its values.
TypeOK ==
    /\ protocol \in {"ssh", "ftp"}
    /\ temporary \in BOOLEAN
    /\ alive \in BOOLEAN
    /\ dirs \subseteq Place
    /\ file \in [Place -> [body : Caller \cup {"none", "old", "part"}, writable : BOOLEAN]]
    /\ atRoot \in BOOLEAN
    /\ turn \in Caller \cup {Free}
    /\ mode \in [Caller -> Modes]
    /\ source \in [Caller -> Modes]
    /\ raised \in [Caller -> BOOLEAN]
    /\ locked \subseteq Place
    /\ misled \subseteq Caller
    /\ refused \in BOOLEAN
    /\ clobbered \in BOOLEAN
    /\ \A p \in Place : Exists(p) => p \in dirs

Init ==
    /\ protocol \in {"ssh", "ftp"}
    /\ temporary \in BOOLEAN
    /\ alive = TRUE
    /\ dirs \in SUBSET Place
    /\ file \in [Place -> [body : {"old"}, writable : BOOLEAN] \cup {NoFile}]
    /\ \A p \in Place : Exists(p) => p \in dirs
    /\ atRoot = TRUE
    /\ turn = Free
    /\ op = [c \in Caller |-> Free]
    /\ pc = [c \in Caller |-> "idle"]
    /\ mode = [c \in Caller |-> "none"]
    /\ source = [c \in Caller |-> "none"]
    /\ raised = [c \in Caller |-> FALSE]
    /\ outcome = [c \in Caller |-> "none"]
    /\ locked = {p \in Place : Exists(p) /\ ~file[p].writable}
    /\ misled = {}
    /\ refused = FALSE
    /\ clobbered = FALSE

(***************************************************************************)
(* One request of a caller                                                 *)
(***************************************************************************)

Ssh == protocol = "ssh"

\* The request p of c is due: over FTP only the holder of the queue runs.
At(c, p) ==
    /\ alive
    /\ pc[c] = p
    /\ Ssh \/ turn \in {c, Free}
    /\ UNCHANGED <<protocol, temporary, alive, op>>

\* The request after this one, within the operation that holds the queue.
Go(c, p) ==
    /\ pc' = [pc EXCEPT ![c] = p]
    /\ turn' = IF Ssh THEN turn ELSE c

\* The operation settles with r; a failure of one ends the call.
Return(c, r, then) ==
    /\ pc' = [pc EXCEPT ![c] = IF r = "ok" THEN then ELSE "done"]
    /\ turn' = IF Ssh THEN turn ELSE Free
    /\ outcome' = [outcome EXCEPT ![c] = r]
    /\ UNCHANGED <<mode, source, raised>>

Place0(c) == op[c].from
Target(c) == op[c].to

Unlock(p) == locked' = locked \ {p}

\* A write leaves the file writable for good: it gave it a mode that was read
\* while another write had raised it or that could not be read, or it did not
\* set the mode back.
Excuse(p) == Unlock(p)

\* _exists and _existsRaw: any error of the request reads as "no file".
Probe(c, p, there) ==
    /\ there \in {Exists(p), FALSE}
    /\ misled' = IF there = Exists(p) THEN misled ELSE misled \cup {c}
    /\ UNCHANGED <<tree, locked, refused, clobbered>>

KeepTree == UNCHANGED <<tree, ghost>>

Start(c) ==
    /\ pc[c] = "idle"
    /\ \E o \in Ops :
          /\ op' = [op EXCEPT ![c] = o]
          /\ pc' = [pc EXCEPT ![c] =
                      CASE o.kind = "write" -> "mode"
                        [] o.kind \in {"create", "update"} -> "check"
                        [] o.kind = "copy" -> IF Ssh THEN "target" ELSE "read"
                        [] o.kind = "rename" -> IF o.over THEN "move" ELSE "free"
                        [] OTHER -> o.kind]
    /\ UNCHANGED <<protocol, temporary, alive, tree, turn, own, ghost>>

\* The link breaks; every later request fails. A recursive delete and a
\* copy over SSH run in a command whose lost exit status reads as success.
Drop ==
    /\ alive
    /\ alive' = FALSE
    /\ UNCHANGED <<protocol, temporary, tree, turn, op, pc, own, ghost>>

Lost(c) ==
    /\ ~alive
    /\ pc[c] \notin {"idle", "done"}
    /\ Return(c, IF Ssh /\ (pc[c] = "copied" \/ (pc[c] = "emptied" /\ op[c].over))
                 THEN "ok" ELSE "lost", "done")
    /\ UNCHANGED <<protocol, temporary, alive, tree, op, ghost>>

(***************************************************************************)
(* writeFile                                                               *)
(***************************************************************************)

\* "create" must not overwrite, "update" must not create.
MayWrite(c, there) ==
    IF op[c].kind = "update" THEN there
    ELSE op[c].kind \in {"create", "copy"} /\ ~op[c].over => ~there

\* Variant for sensitivity: the check is an operation of its own.
CheckApart(c) ==
    /\ At(c, "check")
    /\ \E there \in BOOLEAN :
          /\ Probe(c, Target(c), there)
          /\ Return(c, IF MayWrite(c, there) THEN "ok" ELSE "failed", "mode")

Check(c) ==
    /\ At(c, "check")
    /\ \E there \in BOOLEAN :
          /\ Probe(c, Target(c), there)
          /\ IF MayWrite(c, there) THEN Go(c, "mode") /\ UNCHANGED own
             ELSE Return(c, "failed", "done")

\* The original mode, which is unknown when it cannot be read; a read-only
\* file is made writable for the write.
GetMode(c) ==
    /\ At(c, "mode")
    /\ KeepTree
    /\ \E m \in {ModeOf(Target(c)), "none"} :
          /\ mode' = [mode EXCEPT ![c] = m]
          /\ Go(c, IF m = "ro" /\ temporary THEN "grant"
                   ELSE IF Ssh THEN "open" ELSE "ensure")
    /\ UNCHANGED <<source, raised, outcome>>

Grant(c) ==
    /\ At(c, "grant")
    /\ \/ /\ Exists(Target(c))
          /\ file' = [file EXCEPT ![Target(c)].writable = TRUE]
          /\ raised' = [raised EXCEPT ![c] = TRUE]
          /\ Go(c, IF Ssh THEN "open" ELSE "ensure")
          /\ UNCHANGED <<dirs, atRoot, mode, source, outcome, ghost>>
       \/ Return(c, "failed", "done") /\ KeepTree

\* FTP: ensureDir walks down from the root to the parent directory, making
\* what is missing; cd('/') follows in any case.
EnsureDir(c) ==
    /\ At(c, "ensure")
    /\ atRoot' = FALSE
    /\ refused' = FALSE
    /\ \/ /\ dirs' = dirs \cup {Target(c)}
          /\ outcome' = [outcome EXCEPT ![c] = "ok"]
       \/ /\ outcome' = [outcome EXCEPT ![c] = "failed"]
          /\ UNCHANGED dirs
    /\ Go(c, "home")
    /\ UNCHANGED <<file, mode, source, raised, locked, misled, clobbered>>

\* After a failed ensureDir the write ends, and the file stays writable: the
\* finally that sets its mode back comes later.
AfterEnsure(c) ==
    /\ UNCHANGED <<dirs, file, misled, clobbered>>
    /\ IF outcome[c] = "ok" THEN Go(c, "open") /\ UNCHANGED <<own, locked>>
       ELSE /\ Return(c, "failed", "done")
            /\ IF raised[c] THEN Excuse(Target(c)) ELSE UNCHANGED locked

\* Variant for sensitivity: the directory is left only on success.
HomeOnSuccess(c) ==
    /\ At(c, "home")
    /\ AfterEnsure(c)
    /\ atRoot' = (outcome[c] = "ok")
    /\ UNCHANGED refused

\* A refused cd('/') is logged and the write goes on.
Home(c) ==
    /\ At(c, "home")
    /\ AfterEnsure(c)
    /\ \/ atRoot' = TRUE /\ UNCHANGED refused
       \/ refused' = TRUE /\ UNCHANGED atRoot

\* The server opens the file for writing: it is truncated or made, over SSH
\* with the mode that was read.
Open(c) ==
    LET p == Target(c)
    IN  /\ At(c, "open")
        /\ \/ /\ p \in dirs /\ (Exists(p) => file[p].writable)
              /\ Go(c, IF Ssh THEN "chmod" ELSE "send")
              /\ outcome' = [outcome EXCEPT ![c] = "ok"]
              /\ file' = [file EXCEPT ![p] = [body |-> "part", writable |->
                                    Exists(p) \/ ~(Ssh /\ mode[c] = "ro")]]
              /\ clobbered' = (clobbered \/
                     (~MayWrite(c, Exists(p)) /\ op[c].kind # "update" /\ c \notin misled))
           \/ /\ Go(c, "restore")
              /\ outcome' = [outcome EXCEPT ![c] = "failed"]
              /\ UNCHANGED <<file, clobbered>>
        /\ UNCHANGED <<dirs, atRoot, mode, source, raised, locked, misled, refused>>

\* createWriteStream gives the open file the mode it was called with, by a
\* request of its own (fchmod, else chmod), and goes on if it is refused.
Chmod(c) ==
    LET p == Target(c)
    IN  /\ At(c, "chmod")
        /\ Go(c, "send")
        /\ \/ /\ file' = IF Exists(p) THEN [file EXCEPT ![p].writable = mode[c] # "ro"]
                         ELSE file
              /\ IF mode[c] = "ro" THEN UNCHANGED locked ELSE Excuse(p)
           \/ UNCHANGED <<file, locked>>
        /\ UNCHANGED <<dirs, atRoot, own, misled, refused, clobbered>>

Send(c) ==
    /\ At(c, "send")
    /\ Go(c, "restore")
    /\ \/ /\ file' = IF file[Target(c)].body = "part"
                     THEN [file EXCEPT ![Target(c)].body = c] ELSE file
          /\ UNCHANGED outcome
       \/ /\ outcome' = [outcome EXCEPT ![c] = "failed"]
          /\ UNCHANGED file
    /\ UNCHANGED <<dirs, atRoot, mode, source, raised, ghost>>

\* Where SSH takes the bit back and FTP sends a mode: SSH if it added the bit,
\* FTP whenever it read a mode.
Due(c) == IF Ssh THEN raised[c] ELSE mode[c] # "none"

SetBack(c) ==
    LET p == Target(c)
    IN  file' = IF Exists(p) THEN [file EXCEPT ![p].writable = mode[c] = "rw"] ELSE file

Written(c) ==
    /\ Return(c, outcome[c], IF op[c].kind = "copy" THEN "align" ELSE "done")
    /\ UNCHANGED <<dirs, atRoot, misled, refused, clobbered>>

\* Variant for sensitivity: the mode is set back after a write that succeeded.
RestoreOnSuccess(c) ==
    /\ At(c, "restore")
    /\ Written(c)
    /\ UNCHANGED locked
    /\ IF Due(c) /\ outcome[c] = "ok" THEN SetBack(c) ELSE UNCHANGED file

\* finally: the mode is set back, or the server refuses and the file stays as
\* it is. Without a mode FTP sends that of new files, if one is configured.
Restore(c) ==
    /\ At(c, "restore")
    /\ Written(c)
    /\ \/ Due(c) /\ SetBack(c) /\ UNCHANGED locked
       \/ Due(c) /\ Excuse(Target(c)) /\ UNCHANGED file
       \/ ~Due(c) /\ UNCHANGED <<file, locked>>
       \/ /\ ~Ssh /\ ~Due(c) /\ Exists(Target(c))
          /\ file' = [file EXCEPT ![Target(c)].writable = TRUE]
          /\ Excuse(Target(c))

(***************************************************************************)
(* delete, rename, mkdir                                                   *)
(***************************************************************************)

Remove(c, p, then) ==
    /\ IF Exists(p)
       THEN file' = [file EXCEPT ![p] = NoFile] /\ Unlock(p) /\ Return(c, "ok", then)
       ELSE UNCHANGED <<file, locked>> /\ Return(c, "failed", then)
    /\ UNCHANGED <<dirs, atRoot, misled, refused, clobbered>>

Delete(c) == At(c, "delete") /\ Remove(c, Place0(c), "done")

\* A directory: refused unless empty or recursive ("over"). SSH removes the
\* tree by a command, file by file; FTP by removeDir, after a cd('/') that
\* ends the operation if it is refused.
Rmdir(c) ==
    LET p == Place0(c)
    IN  /\ At(c, "rmdir")
        /\ \/ Return(c, "failed", "done") /\ UNCHANGED <<tree, ghost>>
           \/ /\ p \in dirs /\ (Exists(p) => op[c].over)
              /\ file' = [file EXCEPT ![p] = NoFile]
              /\ Unlock(p)
              /\ atRoot' = (atRoot \/ ~Ssh)
              /\ UNCHANGED <<dirs, misled, refused, clobbered, own>>
              /\ Go(c, "emptied")

Emptied(c) ==
    LET p == Place0(c)
    IN  /\ At(c, "emptied")
        /\ UNCHANGED <<file, atRoot, ghost>>
        /\ dirs' = IF Exists(p) THEN dirs ELSE dirs \ {p}
        /\ Return(c, IF Exists(p) THEN "failed" ELSE "ok", "done")

\* rename without overwrite asks first whether the target is free.
TargetFree(c) ==
    /\ At(c, "free")
    /\ \E there \in BOOLEAN :
          /\ Probe(c, op[c].to, there)
          /\ IF there THEN Return(c, "failed", "done") ELSE Go(c, "move") /\ UNCHANGED own

\* SFTP moves a file onto a free name only, RNTO of some servers onto any.
Move(c) ==
    LET from == op[c].from
        to == op[c].to
    IN  /\ At(c, "move")
        /\ UNCHANGED <<dirs, atRoot, misled, refused>>
        /\ \/ /\ Exists(from) /\ to \in dirs /\ (Ssh => ~Exists(to))
              /\ file' = [file EXCEPT ![to] = file[from], ![from] = NoFile]
              /\ locked' = locked \ {from, to}
              /\ clobbered' = (clobbered \/ (Exists(to) /\ ~op[c].over /\ c \notin misled))
              /\ Return(c, "ok", "done")
           \/ Return(c, "failed", "done") /\ UNCHANGED <<file, locked, clobbered>>

\* SSH asks for each directory of the path and makes it, one it could not ask
\* for too; FTP makes it and takes "already exists" for an answer.
Mkdir(c) ==
    /\ At(c, "mkdir")
    /\ UNCHANGED <<file, atRoot, ghost>>
    /\ \/ Ssh /\ Go(c, "make") /\ UNCHANGED <<dirs, own>>
       \/ Ssh /\ Place0(c) \in dirs /\ Return(c, "ok", "done") /\ UNCHANGED dirs
       \/ ~Ssh /\ Return(c, "ok", "done") /\ dirs' = dirs \cup {Place0(c)}

\* By now another caller may have made it: the server refuses.
Make(c) ==
    /\ At(c, "make")
    /\ UNCHANGED <<file, atRoot, ghost>>
    /\ dirs' = dirs \cup {Place0(c)}
    /\ Return(c, IF Place0(c) \in dirs THEN "failed" ELSE "ok", "done")

(***************************************************************************)
(* copy                                                                    *)
(***************************************************************************)

\* SSH: an existing destination is deleted first, then cp runs.
CopyTarget(c) ==
    /\ At(c, "target")
    /\ \/ \E there \in BOOLEAN :
             /\ Probe(c, op[c].to, there)
             /\ there => ~op[c].over
             /\ Return(c, IF there THEN "failed" ELSE "ok", "cp")
       \/ op[c].over /\ Exists(op[c].to) /\ Remove(c, op[c].to, "cp")

Cp(c) ==
    LET to == op[c].to
    IN  /\ At(c, "cp")
        /\ UNCHANGED <<dirs, atRoot>>
        /\ IF ~Exists(op[c].from) \/ to \notin dirs \/ (Exists(to) /\ ~file[to].writable)
           THEN Return(c, "failed", "done") /\ UNCHANGED <<file, ghost>>
           ELSE /\ file' = [file EXCEPT ![to] = [body |-> "part", writable |-> TRUE]]
                /\ clobbered' = (clobbered \/ (Exists(to) /\ ~op[c].over /\ c \notin misled))
                /\ Unlock(to)
                /\ UNCHANGED <<misled, refused>>
                /\ Go(c, "copied")
                /\ UNCHANGED own

Copied(c) ==
    LET to == op[c].to
    IN  /\ At(c, "copied")
        /\ UNCHANGED <<dirs, atRoot, ghost>>
        /\ file' = IF Exists(to) /\ Exists(op[c].from)
                   THEN [file EXCEPT ![to] = file[op[c].from]] ELSE file
        /\ Return(c, "ok", "align")

\* FTP: read the source and its mode, then writeFile, then chmod.
Read(c) ==
    /\ At(c, "read")
    /\ KeepTree
    /\ source' = [source EXCEPT ![c] = ModeOf(op[c].from)]
    /\ outcome' = [outcome EXCEPT ![c] = IF Exists(op[c].from) THEN "ok" ELSE "failed"]
    /\ pc' = [pc EXCEPT ![c] = IF ~Exists(op[c].from) THEN "done"
                              ELSE IF op[c].over THEN "mode" ELSE "check"]
    /\ UNCHANGED <<turn, mode, raised>>

\* Both end by giving the copy the mode of its source: SSH reads it now, FTP
\* had read it with the content.
Align(c) ==
    LET to == op[c].to
        m == IF Ssh THEN ModeOf(op[c].from) ELSE source[c]
    IN  /\ At(c, "align")
        /\ UNCHANGED <<dirs, atRoot, misled, refused, clobbered>>
        /\ Unlock(to)
        /\ file' = IF Exists(to) /\ m # "none"
                   THEN [file EXCEPT ![to].writable = m = "rw"] ELSE file
        /\ Return(c, "ok", "done")

Request(c) ==
    \/ Check(c) \/ GetMode(c) \/ Grant(c) \/ EnsureDir(c) \/ Home(c)
    \/ Open(c) \/ Chmod(c) \/ Send(c) \/ Restore(c)
    \/ Delete(c) \/ Rmdir(c) \/ Emptied(c) \/ TargetFree(c) \/ Move(c)
    \/ Mkdir(c) \/ Make(c)
    \/ CopyTarget(c) \/ Cp(c) \/ Copied(c) \/ Read(c) \/ Align(c)

Next == Drop \/ \E c \in Caller : Start(c) \/ Request(c) \/ Lost(c)

Spec == Init /\ [][Next]_vars

(***************************************************************************)
(* Properties                                                              *)
(***************************************************************************)

Writing == {"grant", "ensure", "home", "open", "chmod", "send", "restore", "align"}

\* A read-only file that nobody removed, moved or copied over is read-only
\* again whenever no write is under way, whatever step of a write fails and
\* however writes interleave, but for what the code cannot or does not set
\* back: a lost connection, a refused restoring chmod (sshAdapter.ts:425), an
\* FTP write that ends in ensureDir (ftpAdapter.ts:625), and a mode read while
\* another SSH write had raised it, which createWriteStream then makes the
\* file's (sshAdapter.ts:409), see README. (sshAdapter.ts:385-430)
ModeComesBack ==
    (alive /\ \A c \in Caller : pc[c] \notin Writing) =>
        \A p \in locked : ~file[p].writable

\* Between two queued operations the FTP working directory is the root,
\* however the operation ended, unless the server refused that very cd: "the
\* next queued op inherits an unpredictable working directory" otherwise.
\* (ftpAdapter.ts:622-637)
BetweenOpsAtRoot == (alive /\ turn = Free) => atRoot \/ refused

\* Over FTP a write or a rename that must not overwrite does so only if its
\* own test for the file failed, which the code reads as "no file", see README:
\* nothing the other callers of the adapter ask comes between test and change.
\* (ftpAdapter.ts:583-592, 681-700)
NeverClobbers == protocol = "ftp" => ~clobbered
=============================================================================
