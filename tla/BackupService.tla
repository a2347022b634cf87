---------------------------- MODULE BackupService ----------------------------
(***************************************************************************)
(* BackupService (src/services/backupService.ts): daily, weekly and manual *)
(* backup files.  The windows of VS Code share one folder.  In a window    *)
(* the tasks run one after the other, each in steps between which the      *)
(* tasks of other windows take theirs and the window may be closed.  A     *)
(* file is written beside its place first, under a name with the process   *)
(* and the time in it that no listing takes for a backup, and renamed; it  *)
(* is copied in place when a daily one becomes a weekly one.               *)
(***************************************************************************)
EXTENDS Naturals, Sequences, FiniteSets

CONSTANTS
    Window,    \* windows of VS Code
    Keep,      \* how many files of each kind are kept, at least one
    Mondays,   \* the days on which a weekly backup is made
    MaxDay,    \* bound: days
    MaxTask    \* bound: tasks of all windows

VARIABLES
    day,
    files,      \* the names in the backups folder: [kind, date]
    torn,       \* those of them whose content is incomplete
    chain,      \* _writeChain of a window: its tasks, the first under way
    pc,         \* where the first task is
    lastDate,   \* _lastBackupDate of a window, 0 for null
    doomed      \* names that a pruning has listed and will delete

vars == <<day, files, torn, chain, pc, lastDate, doomed>>

Init ==
    /\ day = 1 /\ files = {} /\ torn = {}
    /\ chain = [w \in Window |-> <<>>] /\ pc = [w \in Window |-> "start"]
    /\ lastDate = [w \in Window |-> 0] /\ doomed = [w \in Window |-> {}]

Task(w) == Head(chain[w])
Tasks == UNION {{w} \X DOMAIN chain[w] : w \in Window}
File(kind, date) == [kind |-> kind, date |-> date]
Write(f, whole) ==
    /\ files' = files \cup {f}
    /\ torn' = IF whole THEN torn \ {f} ELSE torn \cup {f}

At(w, p) == pc[w] = p
Go(w, p) == pc' = [pc EXCEPT ![w] = p] /\ UNCHANGED <<day, chain>>

NextDay ==
    /\ day < MaxDay /\ day' = day + 1
    /\ UNCHANGED <<files, torn, chain, pc, lastDate, doomed>>

\* createBackupIfNeeded, after every save, and createManualBackup.  The day of
\* a manual backup is that of the command, of a daily one that of its turn.
Enqueue(w, kind) ==
    /\ Cardinality(Tasks) < MaxTask
    /\ chain' = [chain EXCEPT ![w] = Append(@, File(kind, day))]
    /\ UNCHANGED <<day, files, torn, pc, lastDate, doomed>>

\* The next task runs whether this one has succeeded or failed.
Done(w) ==
    /\ chain' = [chain EXCEPT ![w] = Tail(@)]
    /\ pc' = [pc EXCEPT ![w] = "start"]
    /\ doomed' = [doomed EXCEPT ![w] = {}]
    /\ UNCHANGED day

Start(w) ==
    /\ chain[w] # <<>> /\ At(w, "start")
    /\ IF Task(w).kind = "daily" /\ lastDate[w] = day
       THEN Done(w)
       ELSE /\ pc' = [pc EXCEPT ![w] = "write"]
            /\ chain' = IF Task(w).kind = "daily"
                        THEN [chain EXCEPT ![w] = <<File("daily", day)>> \o Tail(@)]
                        ELSE chain
            /\ UNCHANGED <<day, doomed>>
    /\ UNCHANGED <<files, torn, lastDate>>

\* Variant for sensitivity: the file is written in its place.
WriteInPlace(w) ==
    /\ At(w, "write") /\ Go(w, "rename")
    /\ Write(Task(w), FALSE)
    /\ UNCHANGED <<lastDate, doomed>>

WriteTemp(w) ==
    /\ At(w, "write") /\ Go(w, "rename")
    /\ UNCHANGED <<files, torn, lastDate, doomed>>

\* The weekly copy goes by the day of the task, which may be over by now.
Rename(w) ==
    /\ At(w, "rename")
    /\ Write(Task(w), TRUE)
    /\ IF Task(w).kind = "daily"
       THEN /\ lastDate' = [lastDate EXCEPT ![w] = Task(w).date]
            /\ Go(w, IF Task(w).date \in Mondays THEN "copy" ELSE "list")
       ELSE UNCHANGED lastDate /\ Go(w, "list")
    /\ UNCHANGED doomed

\* Creating, writing or renaming fails.
Fail(w) ==
    /\ pc[w] \in {"write", "rename"}
    /\ Done(w)
    /\ UNCHANGED <<files, torn, lastDate>>

\* _promoteWeekly copies in two steps, as far as a crash is concerned; a copy
\* that fails is forgotten.
Promote(w) ==
    /\ \/ At(w, "copy") /\ Write(File("weekly", Task(w).date), FALSE) /\ Go(w, "copying")
       \/ At(w, "copying") /\ Write(File("weekly", Task(w).date), TRUE) /\ Go(w, "list")
       \/ At(w, "copy") /\ Go(w, "list") /\ UNCHANGED <<files, torn>>
    /\ UNCHANGED <<lastDate, doomed>>

Newer(f) == {g \in files : g.kind = f.kind /\ g.date > f.date}

\* Variant for sensitivity: the list of names is not reversed.
SurplusOldest ==
    {f \in files : Cardinality({g \in files : g.kind = f.kind /\ g.date < f.date})
                   >= Keep[f.kind]}

Surplus == {f \in files : Cardinality(Newer(f)) >= Keep[f.kind]}

\* _pruneOldBackups reads the folder once ...
List(w) ==
    /\ At(w, "list") /\ Go(w, "delete")
    /\ doomed' = [doomed EXCEPT ![w] = Surplus]
    /\ UNCHANGED <<files, torn, lastDate>>

\* ... and deletes one file after the other by what it read, while other
\* windows write and delete; an error ends the pruning, which a file that is
\* gone is.
Delete(w) ==
    /\ At(w, "delete")
    /\ \/ \E f \in doomed[w] \cap files :
            /\ files' = files \ {f} /\ torn' = torn \ {f}
            /\ doomed' = [doomed EXCEPT ![w] = @ \ {f}]
            /\ UNCHANGED <<day, chain, pc>>
       \/ Done(w) /\ UNCHANGED <<files, torn>>
    /\ UNCHANGED lastDate

\* The window is closed, after flush() and its time limit or at once.
Crash(w) ==
    /\ chain' = [chain EXCEPT ![w] = <<>>]
    /\ pc' = [pc EXCEPT ![w] = "start"]
    /\ lastDate' = [lastDate EXCEPT ![w] = 0]
    /\ doomed' = [doomed EXCEPT ![w] = {}]
    /\ UNCHANGED <<day, files, torn>>

Step(w) ==
    \/ (\E kind \in {"daily", "manual"} : Enqueue(w, kind))
    \/ Start(w) \/ WriteTemp(w) \/ Rename(w) \/ Fail(w) \/ Promote(w)
    \/ List(w) \/ Delete(w) \/ Crash(w)

Next == NextDay \/ \E w \in Window : Step(w)

Spec == Init /\ [][Next]_vars

-----------------------------------------------------------------------------
(* Properties *)

TypeOK ==
    /\ day \in 1 .. MaxDay /\ lastDate \in [Window -> 0 .. MaxDay]
    /\ files \subseteq [kind : DOMAIN Keep, date : 1 .. MaxDay] /\ torn \subseteq files
    /\ \A w \in Window :
          /\ Len(chain[w]) <= MaxTask
          /\ pc[w] \in {"start", "write", "rename", "copy", "copying", "list", "delete"}
          /\ pc[w] # "start" => chain[w] # <<>>

\* A daily or manual backup that is listed is whole, whenever a window was
\* closed or whatever failed.  A weekly one may not be: it is copied in place.
\* (backupService.ts:54-72)
ListedWhole == \A f \in torn : f.kind = "weekly"

\* A backup is only ever deleted when as many newer ones of its kind are there
\* at that moment as are kept, though the pruning goes by a listing that other
\* windows have made stale by writing and pruning since, and may have been cut
\* short before by an error or the end of its window. (backupService.ts:236-267)
KeepsNewest ==
    [][\A f \in files \ files' :
          Cardinality({g \in files' : g.kind = f.kind /\ g.date > f.date}) >= Keep[f.kind]
      ]_vars
=============================================================================
