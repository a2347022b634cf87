----------------------------- MODULE RemoteSearch -----------------------------
(***************************************************************************)
(* Server-side search of one connection: run() of remoteSearchCommands.ts  *)
(* with the cancellation of the search before it, RemoteSearchService      *)
(* (tool detection and its cache, the stream, the limit), and the results  *)
(* tree with its delayed refresh. Searches are numbered in the order they  *)
(* start; several are under way at once, since one that is superseded goes *)
(* on until the server answers.                                            *)
(*                                                                         *)
(* A match is the run that found it and whether its line was complete.     *)
(***************************************************************************)
EXTENDS Naturals, Sequences

CONSTANTS MaxRun,      \* bound on the searches started
          MaxResults   \* remoteBridge.search.maxResults

Run == 1..MaxRun

VARIABLES
    started,    \* searches started so far
    running,    \* the run the view belongs to, 0 for none
    indicator,  \* context key searchRunning
    shown,      \* the matches of the provider
    painted,    \* the matches of the last tree refresh
    refresh,    \* the refresh timer is set
    tools,      \* cached tool of the connection: "unknown", "shell" or "noShell"
    server,     \* what a probe finds: "shell" or "noShell"
    run         \* run[r]: where search r stands

vars == <<started, running, indicator, shown, painted, refresh, tools, server, run>>

NotStarted == [pc |-> "idle", cancelled |-> FALSE, limited |-> FALSE,
               count |-> 0, rest |-> FALSE, found |-> "unknown"]

\* Every field within its values.
TypeOK ==
    /\ started \in 0..MaxRun /\ running \in 0..started
    /\ indicator \in BOOLEAN /\ refresh \in BOOLEAN
    /\ \A s \in {shown, painted} :
          \A i \in DOMAIN s : s[i].run \in Run /\ s[i].whole \in BOOLEAN
    /\ tools \in {"unknown", "shell", "noShell"}
    /\ server \in {"shell", "noShell"}
    /\ \A r \in Run :
          /\ run[r].pc \in {"idle", "connect", "probe", "probed", "open", "stream",
                            "fallback", "over"}
          /\ run[r].count \in 0..MaxResults

Init ==
    /\ started = 0 /\ running = 0 /\ indicator = FALSE
    /\ shown = <<>> /\ painted = <<>> /\ refresh = FALSE
    /\ tools = "unknown" /\ server \in {"shell", "noShell"}
    /\ run = [r \in Run |-> NotStarted]

(***************************************************************************)
(* The view                                                                *)
(***************************************************************************)

\* provider.clear, reset: emptied, and the tree refreshed at once.
Emptied == shown' = <<>> /\ painted' = <<>> /\ refresh' = FALSE

\* provider.add: the tree is refreshed within 200 ms. Matches of a run the
\* view does not belong to any more are dropped.
Added(r, batch) ==
    IF running = r /\ batch # <<>>
    THEN shown' = shown \o batch /\ refresh' = TRUE
    ELSE UNCHANGED <<shown, refresh>>

Paint ==
    /\ refresh
    /\ painted' = shown
    /\ refresh' = FALSE
    /\ UNCHANGED <<started, running, indicator, shown, tools, server, run>>

\* The finally block of run().
Over(r) ==
    IF running = r THEN running' = 0 /\ indicator' = FALSE
    ELSE UNCHANGED <<running, indicator>>

(***************************************************************************)
(* Commands of the user                                                    *)
(***************************************************************************)

\* running?.cancel(): the limit of a stream follows its token at once. A
\* token cancelled earlier is seen when the channel opens.
Cancelled ==
    [r \in Run |->
        IF r = running THEN [run[r] EXCEPT !.cancelled = TRUE,
                                           !.limited = @ \/ run[r].pc = "stream"]
        ELSE run[r]]

Search ==
    LET r == started + 1
    IN  /\ r \in Run
        /\ started' = r /\ running' = r
        /\ indicator' = TRUE
        /\ run' = [Cancelled EXCEPT ![r].pc = "connect"]
        /\ Emptied
        /\ UNCHANGED <<tools, server>>

Cancel ==
    /\ running # 0
    /\ run' = Cancelled
    /\ UNCHANGED <<started, running, indicator, shown, painted, refresh, tools, server>>

Clear ==
    /\ started > 0
    /\ run' = Cancelled
    /\ running' = 0 /\ indicator' = FALSE
    /\ Emptied
    /\ UNCHANGED <<started, tools, server>>

\* The connection is edited: its tools are forgotten.
Edit ==
    /\ server' \in {"shell", "noShell"} \ {server}
    /\ tools' = "unknown"
    /\ UNCHANGED <<started, running, indicator, shown, painted, refresh, run>>

(***************************************************************************)
(* RemoteSearchService.search                                              *)
(***************************************************************************)

\* A search that fails: the view is cleared unless it belongs to another.
Fails(r, pc) ==
    /\ run' = [run EXCEPT ![r].pc = pc]
    /\ IF running = r THEN Emptied ELSE UNCHANGED <<shown, painted, refresh>>

\* An unavailable search falls back to the search of VS Code and awaits it;
\* one that is superseded returns at once, and its finally changes nothing.
Unavailable(r) ==
    /\ Fails(r, IF running = r THEN "fallback" ELSE "over")
    /\ UNCHANGED <<running, indicator>>

FallbackDone(r) ==
    /\ run[r].pc = "fallback"
    /\ run' = [run EXCEPT ![r].pc = "over"]
    /\ Over(r)
    /\ UNCHANGED <<started, shown, painted, refresh, tools, server>>

\* getAdapter, then the cached tool unless it is unknown or too old.
Connected(r) ==
    /\ run[r].pc = "connect"
    /\ \/ Fails(r, "over") /\ Over(r)
       \/ Unavailable(r)
       \/ /\ \E pc \in IF tools = "shell" THEN {"open", "probe"} ELSE {"probe"} :
                run' = [run EXCEPT ![r].pc = pc]
          /\ UNCHANGED <<running, indicator, shown, painted, refresh>>
       \/ tools = "noShell" /\ Unavailable(r)
    /\ UNCHANGED <<started, tools, server>>

\* The server answers the probe. A probe that times out or is refused, or
\* whose channel closes because the connection is lost, finds no shell.
ProbeRuns(r) ==
    /\ run[r].pc = "probe"
    /\ \E found \in {server, "noShell"} :
          run' = [run EXCEPT ![r].pc = "probed", ![r].found = found]
    /\ UNCHANGED <<started, running, indicator, shown, painted, refresh, tools, server>>

\* The answer arrives and is cached, whatever was forgotten meanwhile.
ProbeAnswers(r) ==
    /\ run[r].pc = "probed"
    /\ tools' = run[r].found
    /\ IF run[r].found = "shell"
       THEN /\ run' = [run EXCEPT ![r].pc = "open"]
            /\ UNCHANGED <<running, indicator, shown, painted, refresh>>
       ELSE Unavailable(r)
    /\ UNCHANGED <<started, server>>

\* A typed connection loss is passed on and nothing is cached; so are a channel
\* that is refused for the search itself and an error of its stream, which
\* clears the results.
Lost(r) ==
    /\ run[r].pc \in {"probe", "open", "stream"}
    /\ Fails(r, "over")
    /\ Over(r)
    /\ UNCHANGED <<started, tools, server>>

\* Variant for sensitivity: only a cancellation that comes later is heard.
OpensDeaf(r) ==
    /\ run[r].pc = "open"
    /\ run' = [run EXCEPT ![r].pc = "stream"]
    /\ UNCHANGED <<started, running, indicator, shown, painted, refresh, tools, server>>

ChannelOpens(r) ==
    /\ run[r].pc = "open"
    /\ run' = [run EXCEPT ![r].pc = "stream", ![r].limited = run[r].cancelled]
    /\ UNCHANGED <<started, running, indicator, shown, painted, refresh, tools, server>>

\* Variant for sensitivity: the limit is noticed one match late.
DeliverMore(r, n) ==
    LET room == MaxResults + 1 - run[r].count
        taken == IF n < room THEN n ELSE room
    IN  [batch |-> [i \in 1..taken |-> [run |-> r, whole |-> TRUE]],
         count |-> run[r].count + taken,
         full  |-> n >= room]

\* deliver: up to the limit; reaching it cancels the stream.
Deliver(r, n) ==
    LET room == MaxResults - run[r].count
        taken == IF n < room THEN n ELSE room
    IN  [batch |-> [i \in 1..taken |-> [run |-> r, whole |-> TRUE]],
         count |-> run[r].count + taken,
         full  |-> n >= room]

\* A chunk with n matching lines; the beginning of another may stay behind.
Chunk(r) ==
    /\ run[r].pc = "stream" /\ ~run[r].limited
    /\ \E n \in 0..2, rest \in BOOLEAN :
          LET d == Deliver(r, n)
          IN  /\ run' = [run EXCEPT ![r].count = d.count, ![r].limited = d.full,
                                    ![r].rest = rest]
              /\ Added(r, d.batch)
    /\ UNCHANGED <<started, running, indicator, painted, tools, server>>

\* The channel closes. Unless the stream was cancelled what stayed behind is
\* delivered as a line, which it is when the search ran to its end. Exit code
\* 127 drops the cached tool.
StreamCloses(r, lost) ==
    LET last == IF run[r].rest /\ ~run[r].limited
                THEN <<[run |-> r, whole |-> ~lost]>> ELSE <<>>
    IN  /\ run[r].pc = "stream"
        /\ run' = [run EXCEPT ![r].pc = "over"]
        /\ IF running = r
           THEN shown' = shown \o last /\ painted' = shown' /\ refresh' = FALSE
           ELSE UNCHANGED <<shown, painted, refresh>>
        /\ Over(r)
        /\ tools' \in {tools} \cup IF run[r].limited THEN {} ELSE {"unknown"}
        /\ UNCHANGED <<started, server>>

Next ==
    \/ Search \/ Cancel \/ Clear \/ Edit \/ Paint
    \/ \E r \in Run :
          \/ Connected(r) \/ ProbeRuns(r) \/ ProbeAnswers(r) \/ Lost(r)
          \/ ChannelOpens(r) \/ Chunk(r) \/ FallbackDone(r)
          \/ \E lost \in BOOLEAN : StreamCloses(r, lost)

Spec == Init /\ [][Next]_vars

(***************************************************************************)
(* Properties                                                              *)
(***************************************************************************)

\* The results are those of the search started last, up to the limit, however
\* late the answers to earlier ones come; a match the tree lacks has a refresh
\* due, and "Cancel" is offered exactly while a search holds the view.
\* (remoteSearchCommands.ts:84-119, searchResultsProvider.ts:63-86)
OnlyLatest ==
    /\ \A i \in DOMAIN shown : shown[i].run = started
    /\ Len(shown) <= MaxResults
    /\ painted # shown => refresh
    /\ indicator <=> running # 0

\* A search that was superseded or cleared, at whatever stage, has been told
\* to stop by the time it runs on the server. (remoteSearchService.ts:75-76)
NoOrphan == \A r \in Run : run[r].pc = "stream" /\ r # running => run[r].limited

\* "A truncated grep line would still parse as a (wrong) match": none is
\* shown. The code breaks this when the connection is lost in the middle of a
\* line, see README. (remoteSearchService.ts:127-131)
NoCutLine == \A i \in DOMAIN shown : shown[i].whole
=============================================================================
