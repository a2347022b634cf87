------------------------------ MODULE FormFields ------------------------------
(***************************************************************************)
(* The choices of the connection form that exclude one another             *)
(* (media/connectionForm.js) and what is stored of them                    *)
(* (_mapFormToConfig of src/webview/connectionFormPanel.ts): the protocol, *)
(* the way to log in, a proxy, a jump host. The prefill of a page is sent  *)
(* when the form opens, where it may be too early for the page, and again  *)
(* with the labels when its script is ready, so that both may come after   *)
(* the user has begun to choose.                                           *)
(***************************************************************************)
EXTENDS Naturals, Sequences

CONSTANT None

VARIABLES
    source,     \* the connection that is edited, None for a new one
    page,       \* what the page shows
    coming,     \* messages still to come
    chosen      \* ghost: the user has chosen something

vars == <<source, page, coming, chosen>>

Protocol == {"ssh", "ftp", "ftps"}    \* SFTP is treated as SSH is
ForSsh == {"ssh"}
Port == 20 .. 23    \* 21 and 22 are the defaults of FTP and SSH, 23 that of FTPS

DefaultPort(p) == CASE p \in ForSsh -> 22 [] p = "ftp" -> 21 [] OTHER -> 23

\* login: "password" or "key" (or agent, or keyboard-interactive).
Config == [protocol : Protocol, port : Port, secure : BOOLEAN, login : {"password", "key"},
           proxy : BOOLEAN, jump : BOOLEAN]

NewConnection ==
    [protocol |-> "ssh", port |-> 22, secure |-> FALSE, login |-> "password",
     proxy |-> FALSE, jump |-> FALSE]

\* The fields of the page as it is loaded; named: the name is filled in.
Fresh == [protocol |-> "ssh", port |-> 22, touched |-> FALSE, secure |-> FALSE,
          login |-> "password", proxy |-> FALSE, jump |-> FALSE, named |-> FALSE]

\* A store may hold what another program or an import has put there.
Init ==
    /\ source \in {None} \cup {c \in Config : c.port # 20}
    /\ page = Fresh
    /\ coming \in {<<"prefill", "labels">>, <<"prefill", "prefill", "labels">>}
    /\ chosen = FALSE

\* Variant for sensitivity: the other sections are hidden, not emptied.
HideSections(f) == [f EXCEPT !.secure = IF f.protocol \in ForSsh THEN @
                                        ELSE f.protocol = "ftps"]

\* updateProtocolSections: FTP has neither keys nor jump hosts; whether it is
\* encrypted follows the protocol.
UpdateProtocolSections(f) ==
    IF f.protocol \in ForSsh THEN f
    ELSE [f EXCEPT !.secure = f.protocol = "ftps", !.login = "password", !.jump = FALSE]

\* prefillForm: the boxes of proxy and jump host are only ever ticked.
Prefill ==
    LET c == IF source = None THEN NewConnection ELSE source
    IN  /\ coming # <<>> /\ Head(coming) = "prefill"
        /\ coming' = Tail(coming)
        /\ page' = UpdateProtocolSections(
                     [protocol |-> c.protocol, port |-> c.port,
                      touched |-> source # None, named |-> TRUE,
                      secure |-> c.secure, login |-> c.login,
                      proxy |-> page.proxy \/ c.proxy, jump |-> page.jump \/ c.jump])
        /\ UNCHANGED <<source, chosen>>

\* setLabels: the sections are brought up to date with the protocol shown.
SetLabels ==
    /\ coming = <<"labels">>
    /\ coming' = <<>>
    /\ page' = UpdateProtocolSections(page)
    /\ UNCHANGED <<source, chosen>>

Show(f) == page' = f /\ chosen' = TRUE /\ UNCHANGED <<source, coming>>

ChooseProtocol(p) ==
    /\ p # page.protocol
    /\ Show(UpdateProtocolSections(
              [page EXCEPT !.protocol = p,
                           !.port = IF page.touched THEN @ ELSE DefaultPort(p)]))

ChoosePort == Show([page EXCEPT !.port = 20, !.touched = TRUE])

\* The check box "secure" is offered for FTP, the other logins for SSH.
ChooseSecure(b) == page.protocol \notin ForSsh /\ Show([page EXCEPT !.secure = b])
ChooseLogin(l) == page.protocol \in ForSsh /\ Show([page EXCEPT !.login = l])

\* A proxy and a jump host exclude each other when they are ticked.
ChooseProxy(b) == Show([page EXCEPT !.proxy = b, !.jump = @ /\ ~b])
ChooseJump(b) ==
    page.protocol \in ForSsh /\ Show([page EXCEPT !.jump = b, !.proxy = @ /\ ~b])

\* _mapFormToConfig: what SSH alone or FTP alone has is dropped for the other.
MapFormToConfig(f) ==
    [protocol |-> f.protocol, port |-> f.port, login |-> f.login, proxy |-> f.proxy,
     secure |-> f.secure /\ f.protocol \notin ForSsh,
     jump |-> f.jump /\ f.protocol \in ForSsh]

\* What the button "Save" would store; a page no prefill has reached has no
\* name yet, and is not valid.
Saved == MapFormToConfig(page)
Valid == page.named

Next ==
    \/ Prefill \/ SetLabels \/ ChoosePort
    \/ \E p \in Protocol : ChooseProtocol(p)
    \/ \E l \in {"password", "key"} : ChooseLogin(l)
    \/ \E b \in BOOLEAN : ChooseSecure(b) \/ ChooseProxy(b) \/ ChooseJump(b)

Spec == Init /\ [][Next]_vars

(***************************************************************************)
(* Properties                                                              *)
(***************************************************************************)

\* Whatever is chosen in whatever order, and whenever the second prefill
\* comes: an FTP connection is saved with nothing only SSH has, and a new one
\* whose port was not typed has the default port of its protocol.
\* (connectionForm.js:60-101, 472-542, connectionFormPanel.ts:461-510)
SavedUsable ==
    Valid =>
        /\ Saved.protocol \notin ForSsh => Saved.login = "password" /\ ~Saved.jump
        /\ Saved.protocol \in ForSsh => ~Saved.secure
        /\ source = None => Saved.port \in {20, DefaultPort(Saved.protocol)}

(* What the documents say and the code does not do *)

\* "TLS/FTPS toggle (for FTP connections)": a form that is opened for an FTP
\* connection and saved as it is leaves the connection as it was.
EditKeeps ==
    /\ Valid /\ ~chosen /\ source # None
    /\ source.protocol = "ftp" /\ source.login = "password" /\ ~source.jump
    => Saved = source

\* "Cannot be combined with Proxy": not so when the connection has both, or
\* the second prefill comes late.
Exclusive == Valid => ~(Saved.proxy /\ Saved.jump)
=============================================================================
