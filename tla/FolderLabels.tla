----------------------------- MODULE FolderLabels -----------------------------
(***************************************************************************)
(* syncWorkspaceFolderNames of extension.ts: the folders of the window are *)
(* to be shown under the names of their connections. A pass renames at     *)
(* most one folder, by a call VS Code carries out later and reports by an  *)
(* event, which makes the next pass. Renaming the first folder of a window *)
(* restarts the extension host.                                            *)
(***************************************************************************)
EXTENDS Naturals, Sequences, FiniteSetsExt

CONSTANTS
    Count,     \* folders of the window, 1 is the first
    MaxName,   \* bound: names a connection is given
    MaxCalls   \* bound: calls and events under way at a change

VARIABLES
    name,       \* name[f]: the name of the connection of folder f
    real,       \* the label of the folder in the window
    shown,      \* the label the extension host knows, its own calls included
    stubborn,   \* folders whose label VS Code does not change
    attempted,  \* attemptedFolderRenames
    calls,      \* updateWorkspaceFolders calls VS Code has not carried out
    events,     \* change events not delivered
    renames     \* ghost: calls since the connections last changed

vars == <<name, real, shown, stubborn, attempted, calls, events, renames>>

WorkspaceFolder == 1..Count
Name == 1..MaxName

\* The first pass of an activation is under way: none has been made yet.
Init ==
    /\ name \in [WorkspaceFolder -> {1}]
    /\ real \in [WorkspaceFolder -> {0, 1}] /\ shown = real
    /\ stubborn \in SUBSET WorkspaceFolder
    /\ attempted = {} /\ calls = <<>> /\ renames = 0
    /\ events = 1

\* Folders a pass would rename, given the labels and names it sees.
Candidates(labels, names, done) ==
    {f \in WorkspaceFolder : labels[f] # names[f] /\ <<f, names[f]>> \notin done}

\* Variant for sensitivity: a name that was not applied is tried again.
PassForever(labels, names, done, count) ==
    LET todo == {f \in WorkspaceFolder : labels[f] # names[f]}
    IN  IF todo = {}
        THEN shown' = labels /\ attempted' = done /\ renames' = count /\ UNCHANGED calls
        ELSE LET f == Min(todo)
             IN  /\ attempted' = done \cup {<<f, names[f]>>}
                 /\ shown' = [labels EXCEPT ![f] = names[f]]
                 /\ calls' = Append(calls, [folder |-> f, to |-> names[f]])
                 /\ renames' = count + 1

\* One pass: the first folder that has a wrong label is renamed.
Pass(labels, names, done, count) ==
    LET todo == Candidates(labels, names, done)
    IN  IF todo = {}
        THEN shown' = labels /\ attempted' = done /\ renames' = count /\ UNCHANGED calls
        ELSE LET f == Min(todo)
             IN  /\ attempted' = done \cup {<<f, names[f]>>}
                 /\ shown' = [labels EXCEPT ![f] = names[f]]
                 /\ calls' = Append(calls, [folder |-> f, to |-> names[f]])
                 /\ renames' = count + 1

\* The store has changed, and one connection may have another name: all
\* names may be tried anew.
ConnectionsChange(f, n) ==
    /\ Len(calls) + events < MaxCalls
    /\ name' = [name EXCEPT ![f] = n]
    /\ Pass(shown, name', {}, 0)
    /\ UNCHANGED <<real, stubborn, events>>

\* VS Code carries a call out, or leaves the label as it is, and reports.
Applied(call) ==
    IF call.folder \in stubborn THEN real ELSE [real EXCEPT ![call.folder] = call.to]

CarryOut ==
    /\ calls # <<>>
    /\ Head(calls).folder = 1 => Applied(Head(calls)) = real
    /\ real' = Applied(Head(calls))
    /\ calls' = Tail(calls)
    /\ events' = events + 1
    /\ UNCHANGED <<name, shown, stubborn, attempted, renames>>

\* The label of the first folder changes: the extension host starts again, and
\* its activation makes the first pass. Later calls may be lost with it.
Restart ==
    /\ calls # <<>> /\ Head(calls).folder = 1 /\ Applied(Head(calls)) # real
    /\ real' = Applied(Head(calls)) /\ shown' = real'
    /\ calls' \in {<<>>, Tail(calls)} /\ events' = 1
    /\ attempted' = {} /\ renames' = 0
    /\ UNCHANGED <<name, stubborn>>

\* The event brings the labels of the window, and makes a pass.
FoldersChanged ==
    /\ events > 0
    /\ events' = events - 1
    /\ Pass(real, name, attempted, renames)
    /\ UNCHANGED <<name, real, stubborn>>

Next ==
    \/ \E f \in WorkspaceFolder, n \in Name : ConnectionsChange(f, n)
    \/ CarryOut \/ Restart \/ FoldersChanged

Spec == Init /\ [][Next]_vars

(***************************************************************************)
(* Properties                                                              *)
(***************************************************************************)

\* When nothing is under way any more every folder VS Code renames has the
\* name of its connection, after restarts and overlapping changes as well; and
\* "a name VS Code does not apply cannot cause a loop": between two changes of
\* the connections each folder is renamed at most once.
\* (extension.ts:468-505)
LabelsSettle ==
    /\ events = 0 /\ calls = <<>> => \A f \in WorkspaceFolder \ stubborn : real[f] = name[f]
    /\ renames <= Count

(* What the code does not do: "updateWorkspaceFolders must not be called again
   before the previous call has fired onDidChangeWorkspaceFolders". *)
OneCallAtATime == Len(calls) <= 1
=============================================================================
