---------------------------- MODULE ConnectionForm ----------------------------
(***************************************************************************)
(* The form in which a connection is made or edited: the panel of the      *)
(* extension (src/webview/connectionFormPanel.ts) and the script of its    *)
(* page (media/connectionForm.js), which exchange messages.                *)
(*                                                                         *)
(* There is one panel. Opening the form for another connection replaces    *)
(* the page while messages of the old one, and saves, tests and detections *)
(* it asked for, are still under way. Pages are numbered as they open.     *)
(*                                                                         *)
(* Of what a form holds the model keeps whose it is; FormFields has the     *)
(* choices that exclude one another. A connection that is added gets an id *)
(* of its own and is in the list of the store from then on, also when its  *)
(* save fails; of the store the model keeps those that were there before.  *)
(***************************************************************************)
EXTENDS Naturals, Sequences

CONSTANTS Conn,      \* connections of the store
          New,       \* the form is for a new connection (editingId is null)
          Nobody,
          Button,    \* buttons of the page that the panel answers
          MaxOpen    \* bound on the pages opened

VARIABLES
    opened,    \* pages opened so far; the last one is shown unless panel = 0
    panel,     \* the page the live panel was made with, 0 if there is none
    pending,   \* whom the panel was last opened for (_editingId), and the path
               \* they had then (_pendingPrefill)
    ready,     \* the script of the page runs
    fields,    \* what the page shows
    id,        \* editingId of the page
    busy,      \* buttons disabled until their answer comes
    toHost, toPage,     \* messages under way
    jobs,      \* saves, tests and detections the panel is at
    stored     \* what the store holds of each connection

vars == <<opened, panel, pending, ready, fields, id, busy, toHost, toPage, jobs, stored>>

editing == pending.of

Owner == Conn \cup {New}
\* of: whose data fill the fields; secret: for whom a password was typed;
\* path: whose remote path it is.
Blank == [of |-> Nobody, secret |-> Nobody, path |-> Nobody]

Init ==
    /\ opened = 0 /\ panel = 0 /\ ready = FALSE
    /\ pending = [of |-> New, path |-> Nobody]
    /\ fields = Blank /\ id = New /\ busy = {}
    /\ toHost = <<>> /\ toPage = <<>> /\ jobs = <<>>
    /\ stored = [c \in Conn |-> [Blank EXCEPT !.of = c, !.path = c]]

(***************************************************************************)
(* The panel                                                               *)
(***************************************************************************)

Prefill(x) == [type |-> "prefill", for |-> x.of, path |-> x.path]
Answer(b, ok, path) == [type |-> b, ok |-> ok, path |-> path]

\* openForNew, openForEdit: a panel that is there gets a fresh page. What was
\* on its way to the old page is lost with it, what it has sent is not.
Open(x) ==
    /\ opened < MaxOpen
    /\ opened' = opened + 1
    /\ panel' = IF panel = 0 THEN opened' ELSE panel
    /\ pending' = [of |-> x, path |-> IF x = New THEN Nobody ELSE stored[x].path]
    /\ ready' = FALSE /\ fields' = Blank /\ id' = New /\ busy' = {}
    /\ toPage' = <<Prefill(pending')>>
    /\ UNCHANGED <<toHost, jobs, stored>>

Disposed ==
    /\ panel' = 0 /\ ready' = FALSE
    /\ fields' = Blank /\ id' = New /\ busy' = {}
    /\ toHost' = <<>> /\ toPage' = <<>>

\* The user closes the panel.
Close ==
    /\ panel # 0
    /\ Disposed
    /\ UNCHANGED <<opened, pending, jobs, stored>>

\* The page of a panel is told; one that is gone cannot be.
Tell(p, msg) == toPage' = IF p = panel THEN Append(toPage, msg) ELSE toPage

\* A password that was not typed leaves the one that is stored.
Kept(c, data) ==
    [data EXCEPT !.secret = IF @ = Nobody THEN stored[c].secret ELSE @]

\* Variant for sensitivity: the panel knows whom it edits.
SavedToPanels(m) ==
    IF editing \in Conn
    THEN stored' = [stored EXCEPT ![editing] = Kept(editing, m.data)]
    ELSE UNCHANGED stored

\* updateConnection or addConnection of the id the page has sent: the memory
\* changes at once, and stays so if the save fails.
Saved(m) ==
    IF m.id \in Conn
    THEN stored' = [stored EXCEPT ![m.id] = Kept(m.id, m.data)]
    ELSE UNCHANGED stored

\* using: whose stored passwords a test or a detection reads.
Job(m, using) == [type |-> m.type, panel |-> panel, of |-> m.data.of, using |-> using]

\* Refused are invalid fields, a name that is taken, of a new connection, and
\* a connection that has been deleted meanwhile.
HandleSave(m) ==
    \/ /\ Saved(m)
       /\ jobs' = Append(jobs, Job(m, {}))
       /\ UNCHANGED toPage
    \/ /\ Tell(panel, Answer("save", FALSE, Nobody))
       /\ UNCHANGED <<stored, jobs>>

HandleMessage ==
    LET m == Head(toHost)
    IN  /\ toHost # <<>>
        /\ UNCHANGED <<opened, pending>>
        /\ CASE m.type = "cancel" -> Disposed /\ UNCHANGED <<jobs, stored>>
             [] m.type = "ready" ->
                  /\ toHost' = Tail(toHost)
                  /\ Tell(panel, Prefill(pending))
                  /\ UNCHANGED <<panel, ready, fields, id, busy, jobs, stored>>
             [] m.type = "save" ->
                  /\ toHost' = Tail(toHost)
                  /\ HandleSave(m)
                  /\ UNCHANGED <<panel, ready, fields, id, busy>>
             [] OTHER ->
                  /\ toHost' = Tail(toHost)
                  /\ jobs' = Append(jobs, Job(m, {editing} \cap Conn))
                  /\ UNCHANGED <<panel, ready, fields, id, busy, toPage, stored>>

\* The await of the job i returns.
Over(i) == jobs' = SubSeq(jobs, 1, i - 1) \o SubSeq(jobs, i + 1, Len(jobs))

\* _createTempAdapter reads one stored password after the other, each of
\* whomever the panel is open for by then.
ReadSecret(i) ==
    /\ jobs[i].using # {} /\ editing \in Conn
    /\ jobs' = [jobs EXCEPT ![i].using = @ \cup {editing}]
    /\ UNCHANGED <<opened, panel, pending, ready, fields, id, busy, toHost, toPage, stored>>

\* A save that is on the disk closes the panel, whatever it shows by now.
SaveEnds(i) ==
    /\ jobs[i].type = "save"
    /\ Over(i)
    /\ \/ /\ jobs[i].panel = panel
          /\ Disposed
       \/ /\ Tell(jobs[i].panel, Answer("save", FALSE, Nobody))
          /\ UNCHANGED <<panel, ready, fields, id, busy, toHost>>
    /\ UNCHANGED <<opened, pending, stored>>

\* The temporary adapter of a test or a detection has done, or has failed.
TestEnds(i) ==
    /\ jobs[i].type \in {"test", "detect"}
    /\ Over(i)
    /\ \E ok \in BOOLEAN : Tell(jobs[i].panel, Answer(jobs[i].type, ok, jobs[i].of))
    /\ UNCHANGED <<opened, panel, pending, ready, fields, id, busy, toHost, stored>>

(***************************************************************************)
(* The page                                                                *)
(***************************************************************************)

\* The script runs to its end: "ready".
Load ==
    /\ panel # 0 /\ ~ready
    /\ ready' = TRUE
    /\ toHost' = Append(toHost, [type |-> "ready"])
    /\ UNCHANGED <<opened, panel, pending, fields, id, busy, toPage, jobs, stored>>

\* prefillForm: no password is filled in or cleared.
Prefilled(m) == [fields EXCEPT !.of = m.for, !.path = m.path]

Receive ==
    LET m == Head(toPage)
    IN  /\ ready /\ toPage # <<>>
        /\ toPage' = Tail(toPage)
        /\ IF m.type = "prefill"
           THEN fields' = Prefilled(m) /\ id' = m.for /\ UNCHANGED busy
           ELSE /\ busy' = busy \ {m.type}
                /\ fields' = IF m.type = "detect" /\ m.ok
                             THEN [fields EXCEPT !.path = m.path] ELSE fields
                /\ UNCHANGED id
        /\ UNCHANGED <<opened, panel, pending, ready, toHost, jobs, stored>>

Filled == ready /\ fields.of # Nobody

\* A button: validateForm lets only a form with a name and a host through.
Click(b) ==
    /\ Filled /\ b \notin busy
    /\ busy' = busy \cup {b}
    /\ toHost' = Append(toHost, [type |-> b, id |-> id, data |-> fields])
    /\ UNCHANGED <<opened, panel, pending, ready, fields, id, toPage, jobs, stored>>

Cancel ==
    /\ ready /\ \A i \in DOMAIN toHost : toHost[i].type # "cancel"
    /\ toHost' = Append(toHost, [type |-> "cancel"])
    /\ UNCHANGED <<opened, panel, pending, ready, fields, id, busy, toPage, jobs, stored>>

TypePassword ==
    /\ Filled /\ fields.secret # fields.of
    /\ fields' = [fields EXCEPT !.secret = fields.of]
    /\ UNCHANGED <<opened, panel, pending, ready, id, busy, toHost, toPage, jobs, stored>>

Next ==
    \/ \E x \in Owner : Open(x)
    \/ Close \/ HandleMessage \/ Load \/ Receive
    \/ \E i \in DOMAIN jobs : SaveEnds(i) \/ ReadSecret(i) \/ TestEnds(i)
    \/ \E b \in Button : Click(b)
    \/ Cancel \/ TypePassword

Spec == Init /\ [][Next]_vars

(***************************************************************************)
(* Properties                                                              *)
(***************************************************************************)

\* What is stored under an id was entered in a form filled for that id, its
\* password included, however forms, saves and messages overlap: the id comes
\* with the message and not from the panel, which may be open for another
\* connection by then. (connectionFormPanel.ts:195-234)
SavedAsEntered ==
    \A c \in Conn : stored[c].of = c /\ stored[c].secret \in {c, Nobody}

\* A button that was pressed will be answered: the panel has the message, is
\* at it, or has sent the result. (connectionForm.js:256-291, 318-349)
Answered ==
    \A b \in busy :
        \/ \E i \in DOMAIN toHost : toHost[i].type \in {b, "cancel"}
        \/ \E i \in DOMAIN jobs : jobs[i].type = b /\ jobs[i].panel = panel
        \/ \E i \in DOMAIN toPage : toPage[i].type = b

(* What the code does not do, see README: a home directory that is detected
   late lands in the form of another connection, and is saved with it; a test
   reads the passwords of the connection the panel was opened for since. *)
PathIsOwn == \A c \in Conn : stored[c].path \in {c, Nobody}
TestsOwn == \A i \in DOMAIN jobs : jobs[i].using \subseteq {jobs[i].of}
=============================================================================
