---------------------------- MODULE SessionsProofs ----------------------------
(***************************************************************************)
(* A connection the user has closed stays closed (StaysDisconnected), for  *)
(* every number of connections, commands and restarts. The invariant says  *)
(* of every such connection that it is Closed, and how far a command that  *)
(* is still closing one has come (Cutting); that needs every flag in       *)
(* memory to be stored or awaited by the command that set it (FlagsStored),*)
(* and commands that know of each other (Aware). The same is kept of every *)
(* workspace that is not open (SpacesInv), so that it holds when the window*)
(* comes back to it.                                                       *)
(***************************************************************************)
EXTENDS Sessions, SequenceTheorems, WellFoundedInduction, TLAPS

(***************************************************************************)
(* Sequences                                                               *)
(***************************************************************************)

Before == {p \in Nat \X Nat : p[1] < p[2]}

\* A set of numbers that is not empty has a least one.
LEMMA Least ==
    ASSUME NEW T \in SUBSET Nat, T # {}
    PROVE  \E x \in T : \A y \in T : x <= y
<1>1. IsWellFoundedOn(OpToRel(<, Nat), Nat)
  BY NatLessThanWellFounded
<1>2. OpToRel(<, Nat) = Before
  BY DEF OpToRel, Before
<1>3. PICK x \in T : \A y \in T : ~(<<y, x>> \in Before)
  BY <1>1, <1>2, WFMin
<1>4. ASSUME NEW y \in T PROVE x <= y
  <2>1. x \in Nat /\ y \in Nat
    OBVIOUS
  <2>2. ~(y < x)
    BY <1>3, <2>1 DEF Before
  <2>3. QED
    BY <2>1, <2>2
<1>5. QED
  BY <1>4

\* The elements a filter has kept after n of them, as Kept counts them.
Filters(f, n, s, S) ==
    f = [m \in 0 .. n |-> IF m = 0 THEN <<>>
                          ELSE IF s[m] \in S THEN Append(f[m - 1], s[m]) ELSE f[m - 1]]

\* The function that counts what a filter has kept exists for every length: the
\* least length without one would have a function one shorter to be made from.
LEMMA FilterExists ==
    ASSUME NEW s, NEW S, NEW n \in Nat
    PROVE  \E f : Filters(f, n, s, S)
<1> DEFINE bad == {m \in Nat : ~\E f : Filters(f, m, s, S)}
<1>1. SUFFICES ASSUME bad # {} PROVE FALSE
  OBVIOUS
<1>2. PICK x \in bad : \A y \in bad : x <= y
  BY <1>1, Least
<1>3. CASE x = 0
  <2> DEFINE g == [m \in 0 .. 0 |-> <<>>]
  <2>1. Filters(g, 0, s, S)
    <3>1. \A m \in 0 .. 0 : m = 0
      OBVIOUS
    <3>2. QED
      BY <3>1 DEF Filters
  <2>2. QED
    BY <1>2, <1>3, <2>1
<1>4. CASE x # 0
  <2>1. x - 1 \in Nat /\ x \in Nat
    BY <1>4
  <2>2. PICK f : Filters(f, x - 1, s, S)
    BY <1>2, <2>1
  <2> DEFINE next == IF s[x] \in S THEN Append(f[x - 1], s[x]) ELSE f[x - 1]
             g == [m \in 0 .. x |-> IF m = x THEN next ELSE f[m]]
  <2>3. \A m \in 0 .. x - 1 : g[m] = f[m]
    BY <2>1
  <2>4. ASSUME NEW m \in 0 .. x
        PROVE g[m] = IF m = 0 THEN <<>>
                     ELSE IF s[m] \in S THEN Append(g[m - 1], s[m]) ELSE g[m - 1]
    <3>1. CASE m = x
      BY <1>4, <2>1, <2>3, <3>1
    <3>2. CASE m # x
      <4>1. m \in 0 .. x - 1
        BY <2>1, <3>2
      <4>2. m # 0 => m - 1 \in 0 .. x - 1
        BY <4>1, <2>1
      <4>3. f[m] = IF m = 0 THEN <<>>
                   ELSE IF s[m] \in S THEN Append(f[m - 1], s[m]) ELSE f[m - 1]
        BY <2>2, <4>1 DEF Filters
      <4>4. QED
        BY <2>3, <4>1, <4>2, <4>3
    <3>3. QED
      BY <3>1, <3>2
  <2>5. Filters(g, x, s, S)
    <3> HIDE DEF next
    <3>1. g = [m \in 0 .. x |-> g[m]]
      OBVIOUS
    <3> HIDE DEF g
    <3>2. QED
      BY <2>4, <3>1 DEF Filters
  <2>6. QED
    BY <1>2, <2>5
<1>5. QED
  BY <1>3, <1>4

\* toAdd of addConnectedToCurrentWorkspace and the folders that stay: a filter
\* keeps elements of the sequence, and only those asked for.
LEMMA KeptFacts ==
    ASSUME NEW T, NEW s \in Seq(T), NEW S
    PROVE  /\ Kept(s, S) \in Seq(T)
           /\ ToSet(Kept(s, S)) \subseteq ToSet(s) \cap S
<1> DEFINE k == CHOOSE f : Filters(f, Len(s), s, S)
<1>1. Len(s) \in Nat
  BY LenProperties
<1>2. Filters(k, Len(s), s, S)
  BY <1>1, FilterExists
<1>3. Kept(s, S) = k[Len(s)]
  BY DEF Kept, Filters
<1> HIDE DEF k
<1> DEFINE good(t) == t \in Seq(T) /\ ToSet(t) \subseteq ToSet(s) \cap S
           bad == {m \in 0 .. Len(s) : ~good(k[m])}
<1>4. bad = {}
  <2>1. SUFFICES ASSUME bad # {} PROVE FALSE
    OBVIOUS
  <2>2. PICK x \in bad : \A y \in bad : x <= y
    <3>1. bad \in SUBSET Nat
      BY <1>1
    <3> HIDE DEF bad
    <3>2. QED
      BY <2>1, <3>1, Least
  <2>3. CASE x = 0
    <3>1. k[0] = <<>>
      BY <1>1, <1>2 DEF Filters
    <3>2. good(<<>>)
      BY EmptySeq DEF ToSet
    <3>3. QED
      BY <2>2, <2>3, <3>1, <3>2
  <2>4. CASE x # 0
    <3>1. x \in 1 .. Len(s) /\ x - 1 \in 0 .. Len(s)
      BY <1>1, <2>2, <2>4
    <3>2. good(k[x - 1])
      BY <1>1, <2>2, <3>1
    <3>3. k[x] = IF s[x] \in S THEN Append(k[x - 1], s[x]) ELSE k[x - 1]
      BY <1>1, <1>2, <2>4, <3>1 DEF Filters
    <3>4. s[x] \in T /\ s[x] \in ToSet(s)
      BY <3>1, ElementOfSeq, LenProperties DEF ToSet
    <3>5. CASE s[x] \in S
      <4> DEFINE t == k[x - 1]
      <4>1. t \in Seq(T) /\ k[x] = Append(t, s[x])
        BY <3>2, <3>3, <3>5
      <4>2. k[x] \in Seq(T) /\ DOMAIN k[x] = 1 .. Len(t) + 1 /\ Len(t) \in Nat
        BY <3>4, <4>1, AppendProperties, LenProperties
      <4>3. \A i \in 1 .. Len(t) + 1 : k[x][i] \in ToSet(t) \cup {s[x]}
        BY <3>4, <4>1, <4>2, AppendProperties, LenProperties DEF ToSet
      <4>4. good(k[x])
        BY <3>2, <3>4, <3>5, <4>2, <4>3 DEF ToSet
      <4>5. QED
        BY <2>2, <4>4
    <3>6. CASE s[x] \notin S
      BY <2>2, <3>2, <3>3, <3>6
    <3>7. QED
      BY <3>5, <3>6
  <2>5. QED
    BY <2>3, <2>4
<1>5. QED
  BY <1>1, <1>3, <1>4

(***************************************************************************)
(* The invariant                                                           *)
(***************************************************************************)

Pcs == {"idle", "item", "wait", "reached", "refused", "saved", "place", "cut", "unfold"}
Running == [kind : {"none", "connect", "disconnect"}, todo : Seq(Conn), got : Seq(Conn),
            pc : Pcs, restore : BOOLEAN, shared : BOOLEAN]
Update == [by : Command \cup {"event"}, ids : SUBSET Conn]

\* A command under way works on a connection, but for a Connect that has asked
\* for all of them.
WellFormed(r) ==
    /\ r.kind = "connect" => r.pc \in {"item", "wait", "reached", "refused", "saved", "place"}
    /\ r.kind = "disconnect" => r.pc \in {"item", "cut", "unfold"}
    /\ r.kind = "none" => r = NoCmd
    /\ r.kind # "none" /\ r.pc # "place" => r.todo # <<>>

SessionTypes ==
    /\ host \in {"up", "down"}
    /\ mem \in SUBSET Conn /\ disk \in SUBSET Conn
    /\ writes \in Seq(Update)
    /\ folders \in Seq(Conn)
    /\ added \in SUBSET Conn /\ suspended \in SUBSET Conn
    /\ up \in SUBSET Conn /\ trying \in SUBSET Conn
    /\ known \in SUBSET Conn
    /\ intended \in SUBSET Conn
    /\ cmd \in [Command -> Running]
    /\ \A k \in Command : WellFormed(cmd[k])

\* A host that is down holds nothing.
HoldsNothing ==
    host = "down" => /\ writes = <<>> /\ added = {} /\ up = {} /\ trying = {}
                     /\ cmd = [k \in Command |-> NoCmd]

\* The command has the connection to do or done.
Uses(k, c) == c \in ToSet(cmd[k].todo) \cup ToSet(cmd[k].got)

\* Two commands that have a connection in common know of it, and a command
\* knows of a folder that was added for what it has to do.
Aware ==
    /\ \A j, k \in Command, c \in Conn :
          j # k /\ Uses(j, c) /\ Uses(k, c) => cmd[k].shared
    /\ \A k \in Command, c \in added : c \in ToSet(cmd[k].todo) => cmd[k].shared

\* Whichever write is the last to arrive, the flag of c is stored.
Firm(c) == c \in disk /\ \A i \in DOMAIN writes : c \in writes[i].ids

\* A Disconnect waits for a write of the flag of c, which no later one undoes.
Awaited(c) ==
    \E k \in Command :
        /\ cmd[k].kind = "disconnect" /\ cmd[k].pc = "cut" /\ Cur(k) = c
        /\ \E i \in DOMAIN writes :
              writes[i].by = k /\ \A j \in DOMAIN writes : j >= i => c \in writes[j].ids

\* A flag in memory is stored, or somebody waits until it is.
FlagsStored == \A c \in mem : Firm(c) \/ Awaited(c)

\* How far a Disconnect that nothing else disturbs has come with its
\* connection.
Cutting ==
    \A k \in Command :
        cmd[k].kind = "disconnect" /\ ~cmd[k].shared =>
            /\ cmd[k].pc \in {"cut", "unfold"} /\ Cur(k) \in known => Cur(k) \in mem
            /\ cmd[k].pc = "unfold" =>
                  /\ Cur(k) \notin up \cup trying /\ Cur(k) \in suspended
                  /\ Cur(k) \in known => Firm(Cur(k))

\* Somebody connects c, or a folder was added for it.
Touched(c) ==
    c \in added \/ \E k \in Command : cmd[k].kind = "connect" /\ Uses(k, c)

\* What keeps a connection closed that was closed on purpose: it is not
\* connected, nobody is about to connect it, it has no folder, and its flag
\* is set wherever it is looked up. A connection that was removed from the
\* store needs no flag.
Closed(c) ==
    /\ c \notin up \cup trying
    /\ c \notin ToSet(folders)
    /\ ~Touched(c)
    /\ c \in known => /\ Firm(c)
                      /\ host = "up" => c \in suspended /\ c \in mem

\* So with a workspace that is not open.
LeftClosed(r) ==
    /\ r \in [disk : SUBSET Conn, folders : Seq(Conn), intended : SUBSET Conn]
    /\ \A c \in r.intended : c \notin ToSet(r.folders) /\ (c \in known => c \in r.disk)

SpacesInv ==
    /\ open \in Workspace
    /\ parked = [w \in Workspace |-> parked[w]]
    /\ \A w \in Workspace : LeftClosed(parked[w])

SessionInv ==
    /\ SessionTypes /\ HoldsNothing /\ Aware /\ FlagsStored /\ Cutting
    /\ \A c \in intended : Closed(c)

(***************************************************************************)
(* Steps of the commands                                                   *)
(***************************************************************************)

\* A command that is not running is well formed and holds no connection.
LEMMA NoCmdFormed == NoCmd \in Running /\ WellFormed(NoCmd) /\ ToSet(NoCmd.todo) = {}
                     /\ ToSet(NoCmd.got) = {}
BY EmptySeq DEF NoCmd, Running, Pcs, WellFormed, ToSet

\* The next item of a sequence and what remains are elements of it.
LEMMA HeadInSet ==
    ASSUME NEW T, NEW s \in Seq(T), s # <<>>
    PROVE  /\ Head(s) \in T /\ Head(s) \in ToSet(s)
           /\ Tail(s) \in Seq(T) /\ ToSet(Tail(s)) \subseteq ToSet(s)
           /\ ToSet(s) \subseteq T
<1>1. Len(s) \in Nat \ {0} /\ DOMAIN s = 1 .. Len(s)
  BY EmptySeq, LenProperties
<1>2. Head(s) = s[1]
  OBVIOUS
<1>3. Tail(s) \in Seq(T) /\ Len(Tail(s)) = Len(s) - 1
      /\ \A i \in 1 .. Len(Tail(s)) : Tail(s)[i] = s[i + 1]
  BY HeadTailProperties
<1>4. DOMAIN Tail(s) = 1 .. Len(s) - 1
  BY <1>3, LenProperties
<1>5. ToSet(Tail(s)) \subseteq ToSet(s)
  BY <1>1, <1>3, <1>4 DEF ToSet
<1>6. ToSet(s) \subseteq T
  BY <1>1, ElementOfSeq DEF ToSet
<1>7. QED
  BY <1>1, <1>2, <1>3, <1>5, <1>6 DEF ToSet

\* The next item of a command, or its end: it has no more to do and has done
\* no more than before.
LEMMA AdvanceFormed ==
    ASSUME NEW r \in Running, r.kind \in {"connect", "disconnect"}, r.todo # <<>>
    PROVE  /\ Advance(r) \in Running /\ WellFormed(Advance(r))
           /\ Advance(r) = NoCmd \/
                /\ Advance(r).kind = r.kind
                /\ ToSet(Advance(r).todo) \subseteq ToSet(r.todo)
                /\ Advance(r).got = r.got
                /\ Advance(r).shared = r.shared
                /\ Advance(r).pc \in {"item", "place"}
<1> DEFINE rest == [r EXCEPT !.todo = Tail(@), !.pc = "item"]
           last == [rest EXCEPT !.pc = "place"]
<1>1. Tail(r.todo) \in Seq(Conn) /\ ToSet(Tail(r.todo)) \subseteq ToSet(r.todo)
  BY HeadInSet DEF Running
<1>2. /\ rest \in Running /\ rest.kind = r.kind /\ rest.todo = Tail(r.todo)
      /\ rest.got = r.got /\ rest.shared = r.shared /\ rest.pc = "item"
  BY <1>1 DEF Running, Pcs
<1>3. /\ last \in Running /\ last.kind = r.kind /\ last.todo = Tail(r.todo)
      /\ last.got = r.got /\ last.shared = r.shared /\ last.pc = "place"
  BY <1>1 DEF Running, Pcs
<1>4. Advance(r) = IF rest.todo # <<>> THEN rest
                   ELSE IF r.kind = "connect" /\ r.got # <<>> THEN last
                   ELSE NoCmd
  BY DEF Advance
<1> HIDE DEF rest, last
<1>5. CASE rest.todo # <<>>
  BY <1>1, <1>2, <1>4, <1>5 DEF WellFormed
<1>6. CASE rest.todo = <<>> /\ r.kind = "connect" /\ r.got # <<>>
  BY <1>1, <1>3, <1>4, <1>6 DEF WellFormed
<1>7. CASE rest.todo = <<>> /\ ~(r.kind = "connect" /\ r.got # <<>>)
  BY <1>4, <1>7, NoCmdFormed
<1>8. QED
  BY <1>5, <1>6, <1>7

\* What a step may do with a command that is under way: end it, or leave it
\* with no more connections than it had.
Shrinks(r, q) ==
    /\ q \in Running /\ WellFormed(q)
    /\ q = NoCmd \/ /\ q.kind = r.kind
                    /\ ToSet(q.todo) \subseteq ToSet(r.todo)
                    /\ ToSet(q.todo) \cup ToSet(q.got) \subseteq ToSet(r.todo) \cup ToSet(r.got)
                    /\ r.shared => q.shared

\* No Disconnect comes to its next step, and none leaves the one before Cut.
Stays(r, q) ==
    /\ q.kind = "disconnect" /\ q.pc # "item" => q.pc = r.pc /\ q.todo = r.todo
    /\ r.kind = "disconnect" /\ r.pc = "cut" =>
          q.kind = "disconnect" /\ q.pc = "cut" /\ q.todo = r.todo

\* A command that is left alone keeps all that is said of commands.
LEMMA StandsStill ==
    ASSUME SessionTypes, NEW j \in Command
    PROVE  Shrinks(cmd[j], cmd[j]) /\ Stays(cmd[j], cmd[j])
BY DEF SessionTypes, Shrinks, Stays

\* The pool discards an attempt or reports it: only who waits for it moves.
LEMMA WaitEnds ==
    ASSUME SessionTypes, NEW j \in Command, NEW p \in {"refused", "reached"}, cmd[j].pc = "wait",
           NEW q, q = [cmd[j] EXCEPT !.pc = p]
    PROVE  Shrinks(cmd[j], q) /\ Stays(cmd[j], q)
<1>1. cmd[j] \in Running /\ WellFormed(cmd[j])
  BY DEF SessionTypes
<1>2. /\ q \in Running /\ q.kind = cmd[j].kind /\ q.todo = cmd[j].todo /\ q.got = cmd[j].got
      /\ q.shared = cmd[j].shared /\ q.pc = p
  BY <1>1 DEF Running, Pcs
<1>3. cmd[j].kind = "connect"
  BY <1>1 DEF Running, WellFormed, NoCmd
<1>4. QED
  BY <1>1, <1>2, <1>3 DEF Shrinks, Stays, WellFormed

\* A command whose connection was refused goes on without it, and with nothing new.
LEMMA RefusedFormed ==
    ASSUME SessionTypes, NEW j \in Command, NEW c
    PROVE  Shrinks(cmd[j], Refused(c, j)) /\ Stays(cmd[j], Refused(c, j))
BY StandsStill, WaitEnds DEF Refused

\* A Connect goes on with the same connection.
LEMMA ConnectMoves ==
    ASSUME SessionTypes, NEW k \in Command, cmd[k].kind = "connect", cmd[k].todo # <<>>,
           NEW p \in {"wait", "reached", "saved"}, NEW b \in BOOLEAN,
           NEW q, q = [cmd[k] EXCEPT !.restore = b, !.pc = p]
    PROVE  Shrinks(cmd[k], q) /\ Stays(cmd[k], q)
<1>1. cmd[k] \in Running /\ WellFormed(cmd[k])
  BY DEF SessionTypes
<1>2. /\ q \in Running /\ q.kind = cmd[k].kind /\ q.todo = cmd[k].todo /\ q.got = cmd[k].got
      /\ q.shared = cmd[k].shared /\ q.pc = p
  BY <1>1 DEF Running, Pcs
<1>3. QED
  BY <1>1, <1>2 DEF Shrinks, Stays, WellFormed

\* A command that has dealt with a connection goes to the next one.
LEMMA AdvanceMoves ==
    ASSUME SessionTypes, NEW k \in Command, cmd[k].kind \in {"connect", "disconnect"},
           cmd[k].pc # "cut", cmd[k].pc # "place"
    PROVE  Shrinks(cmd[k], Advance(cmd[k])) /\ Stays(cmd[k], Advance(cmd[k]))
<1> DEFINE q == Advance(cmd[k])
<1>1. cmd[k] \in Running /\ cmd[k].todo # <<>>
  BY DEF SessionTypes, WellFormed
<1>2. /\ q \in Running /\ WellFormed(q)
      /\ q = NoCmd \/
           /\ q.kind = cmd[k].kind /\ ToSet(q.todo) \subseteq ToSet(cmd[k].todo)
           /\ q.got = cmd[k].got /\ q.shared = cmd[k].shared /\ q.pc \in {"item", "place"}
  BY <1>1, AdvanceFormed
<1> HIDE DEF q
<1>3. Shrinks(cmd[k], q)
  BY <1>2 DEF Shrinks
<1>4. Stays(cmd[k], q)
  BY <1>2 DEF Stays, WellFormed, NoCmd
<1>5. QED
  BY <1>3, <1>4 DEF q

\* connectSaved goes on to its next item with the connection it has just made.
LEMMA AdvanceWithMoves ==
    ASSUME SessionTypes, NEW k \in Command, cmd[k].kind = "connect", cmd[k].pc = "saved",
           NEW q, q = Advance([cmd[k] EXCEPT !.got = Append(@, Cur(k))])
    PROVE  Shrinks(cmd[k], q) /\ Stays(cmd[k], q)
<1>1. cmd[k] \in Running /\ cmd[k].todo # <<>>
  BY DEF SessionTypes, WellFormed
<1>2. Cur(k) \in Conn /\ Cur(k) \in ToSet(cmd[k].todo) /\ cmd[k].got \in Seq(Conn)
  BY <1>1, HeadInSet DEF Running, Cur
<1> DEFINE more == Append(cmd[k].got, Cur(k))
           r == [cmd[k] EXCEPT !.got = more]
<1>3. more \in Seq(Conn) /\ ToSet(more) \subseteq ToSet(cmd[k].got) \cup {Cur(k)}
  <2>1. /\ more \in Seq(Conn) /\ DOMAIN more = 1 .. Len(cmd[k].got) + 1
        /\ Len(cmd[k].got) \in Nat /\ DOMAIN cmd[k].got = 1 .. Len(cmd[k].got)
    BY <1>2, AppendProperties, LenProperties
  <2>2. \A i \in DOMAIN more : more[i] \in ToSet(cmd[k].got) \cup {Cur(k)}
    BY <1>2, <2>1, AppendProperties DEF ToSet
  <2>3. QED
    BY <2>1, <2>2 DEF ToSet
<1> HIDE DEF more
<1>4. /\ r \in Running /\ r.kind = cmd[k].kind /\ r.todo = cmd[k].todo /\ r.got = more
      /\ r.shared = cmd[k].shared
  BY <1>1, <1>3 DEF Running
<1>5. q = Advance(r)
  BY <1>1 DEF more, Running
<1> HIDE DEF r
<1>6. /\ q \in Running /\ WellFormed(q)
      /\ q = NoCmd \/
           /\ q.kind = cmd[k].kind /\ ToSet(q.todo) \subseteq ToSet(cmd[k].todo)
           /\ q.got = more /\ q.shared = cmd[k].shared /\ q.pc \in {"item", "place"}
  BY <1>1, <1>4, <1>5, AdvanceFormed
<1>7. Shrinks(cmd[k], q)
  BY <1>2, <1>3, <1>6 DEF Shrinks
<1>8. Stays(cmd[k], q)
  BY <1>6 DEF Stays, WellFormed, NoCmd
<1>9. QED
  BY <1>7, <1>8

(***************************************************************************)
(* Steps while the host stays as it is                                     *)
(***************************************************************************)

\* What a step does to a connection that nobody asked to be connected: nothing
\* that could connect it.
Effect ==
    /\ SessionTypes' /\ HoldsNothing' /\ host' = host
    /\ \A k \in Command : Shrinks(cmd[k], cmd[k]')
    /\ known' \subseteq known
    /\ \A c \in Conn :
          /\ c \in up' => c \in up \cup trying
          /\ c \in trying' => c \in trying \/ c \in known \ suspended \/ Touched(c)
          /\ c \in ToSet(folders') => c \in ToSet(folders) \/ c \notin intended' \/ Touched(c)
          /\ c \in added' => \/ c \in added
                             \/ \E k \in Command : /\ cmd[k].kind = "connect" /\ Uses(k, c)
                                                   /\ cmd[k]' = NoCmd
                             \/ /\ c \notin intended'
                                /\ \A k \in Command : c \in ToSet(cmd[k]'.todo) => cmd[k]'.shared
          /\ c \in suspended => c \in suspended' \/ Touched(c)
          /\ c \in mem /\ c \in known' => c \in mem' \/ Touched(c)
          /\ Firm(c) /\ (c \in mem' \/ flags' = flags) => Firm(c)'

AllStay == \A k \in Command : Stays(cmd[k], cmd[k]')

\* Who waits for the write of a flag goes on waiting.
CutsWait ==
    \A k \in Command :
        cmd[k].kind = "disconnect" /\ cmd[k].pc = "cut" =>
            cmd[k]'.kind = "disconnect" /\ cmd[k]'.pc = "cut" /\ cmd[k]'.todo = cmd[k].todo

\* The connection a command is at.
LEMMA CurFacts ==
    ASSUME SessionTypes, NEW k \in Command, cmd[k].kind \in {"connect", "disconnect"},
           cmd[k].pc # "place"
    PROVE  /\ cmd[k] \in Running /\ WellFormed(cmd[k]) /\ cmd[k].todo # <<>>
           /\ Cur(k) \in Conn /\ Cur(k) \in ToSet(cmd[k].todo) /\ Uses(k, Cur(k))
<1>1. cmd[k] \in Running /\ WellFormed(cmd[k]) /\ cmd[k].todo # <<>>
  BY DEF SessionTypes, WellFormed
<1>2. QED
  BY <1>1, HeadInSet DEF Running, Cur, Uses

\* persistManualDisconnectIds appends the set as it is, so what is in it stays
\* stored, and what is awaited stays awaited.
LEMMA PersistKeeps ==
    ASSUME SessionTypes, mem' \in SUBSET Conn, NEW k \in Command \cup {"event"},
           Persist(k, mem'), disk' = disk
    PROVE  /\ writes' \in Seq(Update)
           /\ \A c \in mem' : Firm(c) => Firm(c)'
           /\ \A c \in mem' : Awaited(c) /\ CutsWait => Awaited(c)'
           /\ Len(writes') \in DOMAIN writes' /\ writes'[Len(writes')] = [by |-> k, ids |-> mem']
<1> DEFINE last == [by |-> k, ids |-> mem']
<1>1. last \in Update /\ writes \in Seq(Update)
  BY DEF SessionTypes, Update
<1>2. /\ writes' \in Seq(Update) /\ DOMAIN writes' = 1 .. Len(writes) + 1
      /\ Len(writes) \in Nat /\ DOMAIN writes = 1 .. Len(writes)
      /\ Len(writes') = Len(writes) + 1
      /\ \A i \in DOMAIN writes : writes'[i] = writes[i]
      /\ writes'[Len(writes) + 1] = last
  BY <1>1, AppendProperties, LenProperties DEF Persist
<1>3. ASSUME NEW c \in mem', Firm(c) PROVE Firm(c)'
  <2>1. \A i \in DOMAIN writes' : c \in writes'[i].ids
    BY <1>2, <1>3 DEF Firm
  <2>2. QED
    BY <1>3, <2>1 DEF Firm
<1>4. ASSUME NEW c \in mem', Awaited(c), CutsWait PROVE Awaited(c)'
  <2>1. PICK j \in Command :
            /\ cmd[j].kind = "disconnect" /\ cmd[j].pc = "cut" /\ Cur(j) = c
            /\ \E i \in DOMAIN writes :
                  writes[i].by = j /\ \A n \in DOMAIN writes : n >= i => c \in writes[n].ids
    BY <1>4 DEF Awaited
  <2>2. PICK i \in DOMAIN writes :
            writes[i].by = j /\ \A n \in DOMAIN writes : n >= i => c \in writes[n].ids
    BY <2>1
  <2>3. /\ i \in DOMAIN writes' /\ writes'[i].by = j
        /\ \A n \in DOMAIN writes' : n >= i => c \in writes'[n].ids
    BY <1>2, <1>4, <2>2
  <2>4. cmd'[j].kind = "disconnect" /\ cmd'[j].pc = "cut" /\ Head(cmd'[j].todo) = c
    BY <1>4, <2>1 DEF CutsWait, Cur
  <2>5. QED
    BY <2>3, <2>4 DEF Awaited, Cur
<1>5. QED
  BY <1>2, <1>3, <1>4

\* As long as no flag changes, every flag that is cleared stays stored or awaited.
LEMMA FlagsKept ==
    ASSUME FlagsStored, CutsWait, flags' = flags
    PROVE  FlagsStored'
<1>1. mem' = mem /\ disk' = disk /\ writes' = writes
  BY DEF flags
<1>2. ASSUME NEW c \in mem', Awaited(c) PROVE Awaited(c)'
  <2>1. \A j \in Command : cmd[j].kind = "disconnect" /\ cmd[j].pc = "cut" =>
            cmd'[j].kind = "disconnect" /\ cmd'[j].pc = "cut" /\ cmd'[j].todo = cmd[j].todo
    BY DEF CutsWait
  <2>2. QED
    BY <1>1, <1>2, <2>1 DEF Awaited, Cur
<1>3. \A c \in mem' : Firm(c) => Firm(c)'
  BY <1>1 DEF Firm
<1>4. QED
  BY <1>1, <1>2, <1>3 DEF FlagsStored

\* setManualDisconnected writes what it leaves in memory: a flag taken out of memory
\* is stored by the write that is then waiting.
LEMMA FlagsPersisted ==
    ASSUME SessionTypes, FlagsStored, CutsWait, mem' \in SUBSET mem,
           NEW k \in Command \cup {"event"}, Persist(k, mem'), disk' = disk
    PROVE  FlagsStored' /\ writes' \in Seq(Update) /\ \A c \in mem' : Firm(c) => Firm(c)'
<1>1. mem' \in SUBSET Conn
  BY DEF SessionTypes
<1>2. QED
  BY <1>1, PersistKeeps DEF FlagsStored

\* A step that only drops flags, and stores the rest if it drops any.
LEMMA FlagsDropped ==
    ASSUME SessionTypes, FlagsStored, AllStay, disk' = disk, mem' \in SUBSET mem,
           NEW k \in Command \cup {"event"},
           (mem' = mem /\ writes' = writes) \/ Persist(k, mem')
    PROVE  /\ FlagsStored' /\ writes' \in Seq(Update)
           /\ \A c \in Conn : Firm(c) /\ (c \in mem' \/ flags' = flags) => Firm(c)'
<1>1. CutsWait
  BY DEF AllStay, Stays, CutsWait
<1>2. CASE mem' = mem /\ writes' = writes
  BY <1>1, <1>2, FlagsKept DEF flags, SessionTypes, Firm
<1>3. CASE Persist(k, mem')
  <2>1. ASSUME flags' = flags, NEW d, Firm(d) PROVE Firm(d)'
    BY <2>1 DEF Firm, flags
  <2>2. QED
    BY <1>1, <1>3, <2>1, FlagsPersisted
<1>4. QED
  BY <1>2, <1>3

\* Commands that shrink stay well formed.
LEMMA CommandsFormed ==
    ASSUME SessionTypes, cmd' = [j \in Command |-> cmd'[j]],
           \A j \in Command : Shrinks(cmd[j], cmd'[j])
    PROVE  cmd' \in [Command -> Running] /\ \A j \in Command : WellFormed(cmd'[j])
BY DEF Shrinks

\* connectItems frees the connection and asks the pool for it.
LEMMA ConnectItemEffect ==
    ASSUME SessionInv, NEW k \in Command, ConnectItem(k)
    PROVE  Effect /\ AllStay /\ FlagsStored'
<1> DEFINE c == Cur(k)
           p == IF c \in up THEN "reached" ELSE "wait"
           b == c \in mem
           q == [cmd[k] EXCEPT !.restore = b, !.pc = p]
<1>1. /\ cmd[k].kind = "connect" /\ cmd[k].pc = "item" /\ SessionTypes
      /\ cmd \in [Command -> Running]
  BY DEF ConnectItem, At, SessionInv, SessionTypes
<1>2. cmd[k].todo # <<>> /\ c \in Conn /\ Touched(c)
  BY <1>1, CurFacts DEF Touched
<1>3. /\ host' = host /\ mem' = mem /\ disk' = disk /\ writes' = writes /\ folders' = folders
      /\ added' = added /\ up' = up /\ known' = known /\ intended' = intended /\ host = "up"
      /\ suspended' = suspended \ {c} /\ trying' \subseteq trying \cup {c}
  BY DEF ConnectItem, flags, ghost, At
<1>4. cmd' = [cmd EXCEPT ![k] = q]
  BY <1>1 DEF ConnectItem
<1>5. Shrinks(cmd[k], q) /\ Stays(cmd[k], q)
  <2>1. p \in {"wait", "reached", "saved"} /\ b \in BOOLEAN
    OBVIOUS
  <2> HIDE DEF p, b
  <2>2. QED
    BY <1>1, <1>2, <2>1, ConnectMoves
<1> HIDE DEF q
<1>6. \A j \in Command : Shrinks(cmd[j], cmd'[j]) /\ Stays(cmd[j], cmd'[j])
  BY <1>1, <1>4, <1>5, StandsStill
<1>7. cmd' \in [Command -> Running] /\ \A j \in Command : WellFormed(cmd'[j])
  BY <1>1, <1>4, <1>6, CommandsFormed
<1>8. SessionTypes' /\ HoldsNothing'
  BY <1>1, <1>2, <1>3, <1>7 DEF SessionTypes, HoldsNothing
<1>9. Effect
  BY <1>1, <1>2, <1>3, <1>6, <1>8 DEF Effect, Firm
<1>10. FlagsStored'
  BY <1>3, <1>6, FlagsKept DEF AllStay, Stays, CutsWait, SessionInv, flags
<1>11. QED
  BY <1>6, <1>9, <1>10 DEF AllStay

\* Connected: connectItems drops the flag and stores what is left of them.
LEMMA ConnectReachedEffect ==
    ASSUME SessionInv, NEW k \in Command, ConnectReached(k)
    PROVE  Effect /\ AllStay /\ FlagsStored'
<1> DEFINE c == Cur(k)
           q == [cmd[k] EXCEPT !.restore = cmd[k].restore, !.pc = "saved"]
<1>1. /\ cmd[k].kind = "connect" /\ cmd[k].pc = "reached" /\ SessionTypes
      /\ cmd \in [Command -> Running] /\ cmd[k].restore \in BOOLEAN
  BY DEF ConnectReached, At, SessionInv, SessionTypes, Running
<1>2. cmd[k].todo # <<>> /\ c \in Conn /\ Touched(c)
  BY <1>1, CurFacts DEF Touched
<1>3. /\ host' = host /\ disk' = disk /\ folders' = folders
      /\ added' = added /\ up' = up /\ known' = known /\ intended' = intended /\ host = "up"
      /\ suspended' = suspended /\ trying' = trying
      /\ mem \ {c} \subseteq mem' /\ mem' \subseteq mem
      /\ (mem' = mem /\ writes' = writes) \/ Persist(k, mem')
  BY DEF ConnectReached, flags, ghost, pool, At
<1>4. cmd' = [cmd EXCEPT ![k] = q]
  <2>1. cmd' = [cmd EXCEPT ![k].pc = "saved"]
    BY DEF ConnectReached, Goto
  <2>2. [cmd[k] EXCEPT !.pc = "saved"] = q
    BY <1>1 DEF Running
  <2>3. QED
    BY <2>1, <2>2
<1>5. Shrinks(cmd[k], q) /\ Stays(cmd[k], q)
  BY <1>1, <1>2, ConnectMoves
<1> HIDE DEF q
<1>6. \A j \in Command : Shrinks(cmd[j], cmd'[j]) /\ Stays(cmd[j], cmd'[j])
  BY <1>1, <1>4, <1>5, StandsStill
<1>7. cmd' \in [Command -> Running] /\ \A j \in Command : WellFormed(cmd'[j])
  BY <1>1, <1>4, <1>6, CommandsFormed
<1>8. /\ FlagsStored' /\ writes' \in Seq(Update)
      /\ \A d \in Conn : Firm(d) /\ (d \in mem' \/ flags' = flags) => Firm(d)'
  BY <1>1, <1>3, <1>6, FlagsDropped DEF AllStay, SessionInv
<1>9. SessionTypes' /\ HoldsNothing'
  BY <1>1, <1>2, <1>3, <1>7, <1>8 DEF SessionTypes, HoldsNothing
<1>10. Effect
  BY <1>1, <1>2, <1>3, <1>6, <1>8, <1>9 DEF Effect
<1>11. QED
  BY <1>6, <1>8, <1>10 DEF AllStay

\* The update of the workspace state is awaited before the next connection.
LEMMA ConnectSavedEffect ==
    ASSUME SessionInv, NEW k \in Command, ConnectSaved(k)
    PROVE  Effect /\ AllStay /\ FlagsStored'
<1> DEFINE q == Advance([cmd[k] EXCEPT !.got = Append(@, Cur(k))])
<1>1. /\ cmd[k].kind = "connect" /\ cmd[k].pc = "saved" /\ SessionTypes
      /\ cmd \in [Command -> Running]
  BY DEF ConnectSaved, At, SessionInv, SessionTypes
<1>2. /\ host' = host /\ mem' = mem /\ disk' = disk /\ writes' = writes /\ folders' = folders
      /\ added' = added /\ up' = up /\ known' = known /\ intended' = intended /\ host = "up"
      /\ suspended' = suspended /\ trying' = trying
  BY DEF ConnectSaved, flags, ghost, pool, At
<1>3. cmd' = [cmd EXCEPT ![k] = q]
  BY DEF ConnectSaved
<1>4. Shrinks(cmd[k], q) /\ Stays(cmd[k], q)
  BY <1>1, AdvanceWithMoves
<1> HIDE DEF q
<1>5. \A j \in Command : Shrinks(cmd[j], cmd'[j]) /\ Stays(cmd[j], cmd'[j])
  BY <1>1, <1>3, <1>4, StandsStill
<1>6. cmd' \in [Command -> Running] /\ \A j \in Command : WellFormed(cmd'[j])
  BY <1>1, <1>3, <1>5, CommandsFormed
<1>7. SessionTypes' /\ HoldsNothing'
  BY <1>1, <1>2, <1>6 DEF SessionTypes, HoldsNothing
<1>8. Effect
  BY <1>2, <1>5, <1>7 DEF Effect, Firm
<1>9. FlagsStored'
  BY <1>2, <1>5, FlagsKept DEF AllStay, Stays, CutsWait, SessionInv, flags
<1>10. QED
  BY <1>5, <1>8, <1>9 DEF AllStay

\* Refused: connectItems blocks again what was blocked before.
LEMMA ConnectRefusedEffect ==
    ASSUME SessionInv, NEW k \in Command, ConnectRefused(k)
    PROVE  Effect /\ AllStay /\ FlagsStored'
<1> DEFINE c == Cur(k)
           q == Advance(cmd[k])
<1>1. /\ cmd[k].kind = "connect" /\ cmd[k].pc = "refused" /\ SessionTypes
      /\ cmd \in [Command -> Running]
  BY DEF ConnectRefused, At, SessionInv, SessionTypes
<1>2. c \in Conn
  BY <1>1, CurFacts
<1>3. /\ host' = host /\ mem' = mem /\ disk' = disk /\ writes' = writes /\ folders' = folders
      /\ added' = added /\ up' = up /\ known' = known /\ intended' = intended /\ host = "up"
      /\ suspended \subseteq suspended' /\ suspended' \subseteq suspended \cup {c}
      /\ trying' \subseteq trying
  BY DEF ConnectRefused, flags, ghost, At
<1>4. \/ cmd' = [cmd EXCEPT ![k] = q]
      \/ cmd' = [j \in Command |-> IF j = k THEN q ELSE Refused(c, j)]
  BY <1>1 DEF ConnectRefused
<1>5. Shrinks(cmd[k], q) /\ Stays(cmd[k], q)
  BY <1>1, AdvanceMoves
<1> HIDE DEF q
<1>6. /\ cmd' = [j \in Command |-> cmd'[j]]
      /\ \A j \in Command : Shrinks(cmd[j], cmd'[j]) /\ Stays(cmd[j], cmd'[j])
  BY <1>1, <1>4, <1>5, StandsStill, RefusedFormed
<1>7. cmd' \in [Command -> Running] /\ \A j \in Command : WellFormed(cmd'[j])
  BY <1>1, <1>6, CommandsFormed
<1>8. SessionTypes' /\ HoldsNothing'
  BY <1>1, <1>2, <1>3, <1>7 DEF SessionTypes, HoldsNothing
<1>9. Effect
  BY <1>1, <1>2, <1>3, <1>6, <1>8 DEF Effect, Firm
<1>10. FlagsStored'
  BY <1>3, <1>6, FlagsKept DEF AllStay, Stays, CutsWait, SessionInv, flags
<1>11. QED
  BY <1>6, <1>9, <1>10 DEF AllStay

\* The elements of a concatenation.
LEMMA ConcatSet ==
    ASSUME NEW T, NEW s \in Seq(T), NEW t \in Seq(T)
    PROVE  s \o t \in Seq(T) /\ ToSet(s \o t) = ToSet(s) \cup ToSet(t)
<1>1. /\ s \o t \in Seq(T) /\ DOMAIN (s \o t) = 1 .. Len(s) + Len(t)
      /\ Len(s) \in Nat /\ Len(t) \in Nat /\ DOMAIN s = 1 .. Len(s) /\ DOMAIN t = 1 .. Len(t)
  BY ConcatProperties, LenProperties
<1>2. \A i \in 1 .. Len(s) + Len(t) : (s \o t)[i] = IF i <= Len(s) THEN s[i] ELSE t[i - Len(s)]
  BY ConcatProperties
<1>3. ASSUME NEW i \in DOMAIN (s \o t) PROVE (s \o t)[i] \in ToSet(s) \cup ToSet(t)
  <2>1. IF i <= Len(s) THEN i \in DOMAIN s ELSE i - Len(s) \in DOMAIN t
    BY <1>1
  <2>2. QED
    BY <1>1, <1>2, <2>1 DEF ToSet
<1>4. ASSUME NEW i \in DOMAIN s PROVE s[i] \in ToSet(s \o t)
  BY <1>1, <1>2 DEF ToSet
<1>5. ASSUME NEW i \in DOMAIN t PROVE t[i] \in ToSet(s \o t)
  <2>1. i + Len(s) \in DOMAIN (s \o t) /\ (s \o t)[i + Len(s)] = t[i]
    BY <1>1, <1>2
  <2>2. QED
    BY <2>1 DEF ToSet
<1>6. ToSet(s \o t) \subseteq ToSet(s) \cup ToSet(t)
  BY <1>3 DEF ToSet
<1>7. ToSet(s) \cup ToSet(t) \subseteq ToSet(s \o t)
  BY <1>4, <1>5 DEF ToSet
<1>8. QED
  BY <1>1, <1>6, <1>7

\* addConnectedToCurrentWorkspace, when the window has folders already: those
\* who are added belong to connections of the command, which ends here.
LEMMA PlaceEffect ==
    ASSUME SessionInv, NEW k \in Command, Place(k), host' = "up"
    PROVE  Effect /\ AllStay /\ FlagsStored'
<1> DEFINE new == New(k)
<1>1. /\ cmd[k].kind = "connect" /\ cmd[k].pc = "place" /\ SessionTypes /\ host = "up"
      /\ cmd \in [Command -> Running] /\ cmd[k].got \in Seq(Conn) /\ folders \in Seq(Conn)
  BY DEF Place, At, SessionInv, SessionTypes, Running
<1>2. new \in Seq(Conn) /\ ToSet(new) \subseteq ToSet(cmd[k].got)
  BY <1>1, KeptFacts DEF New
<1>3. folders' = folders \o new
  BY DEF Place
<1>4. /\ cmd' = [cmd EXCEPT ![k] = NoCmd] /\ added' = added \cup ToSet(new)
      /\ host' = host /\ mem' = mem /\ disk' = disk /\ writes' = writes
      /\ up' = up /\ known' = known /\ intended' = intended
      /\ suspended' = suspended /\ trying' = trying
  BY DEF Place, GoDown, Dies, flags, pool, spaces
<1> HIDE DEF new
<1>5. folders' \in Seq(Conn) /\ ToSet(folders') \subseteq ToSet(folders) \cup ToSet(new)
  BY <1>1, <1>2, <1>3, ConcatSet
<1>6. \A j \in Command : Shrinks(cmd[j], cmd'[j]) /\ Stays(cmd[j], cmd'[j])
  <2>1. Shrinks(cmd[k], NoCmd) /\ Stays(cmd[k], NoCmd)
    BY <1>1, NoCmdFormed DEF Shrinks, Stays, NoCmd
  <2>2. QED
    BY <1>1, <1>4, <2>1, StandsStill
<1>7. cmd' \in [Command -> Running] /\ \A j \in Command : WellFormed(cmd'[j])
  BY <1>1, <1>4, <1>6, CommandsFormed
<1>8. SessionTypes' /\ HoldsNothing'
  <2>1. ToSet(cmd[k].got) \subseteq Conn
    BY <1>1, LenProperties, ElementOfSeq DEF ToSet
  <2>2. QED
    BY <1>1, <1>2, <1>4, <1>5, <1>7, <2>1 DEF SessionTypes, HoldsNothing
<1>9. ASSUME NEW c \in ToSet(new)
      PROVE  /\ cmd[k].kind = "connect" /\ Uses(k, c) /\ cmd'[k] = NoCmd /\ Touched(c)
  BY <1>1, <1>2, <1>4 DEF Uses, Touched
<1>10. Effect
  BY <1>4, <1>5, <1>6, <1>8, <1>9 DEF Effect, Firm
<1>11. FlagsStored'
  BY <1>4, <1>6, FlagsKept DEF AllStay, Stays, CutsWait, SessionInv, flags
<1>12. QED
  BY <1>6, <1>10, <1>11 DEF AllStay

\* A Connect that finds no place for its folders ends.
LEMMA PlaceFailsEffect ==
    ASSUME SessionInv, NEW k \in Command, PlaceFails(k)
    PROVE  Effect /\ AllStay /\ FlagsStored'
<1>1. /\ cmd[k].kind = "connect" /\ cmd[k].pc = "place" /\ SessionTypes
      /\ cmd \in [Command -> Running]
  BY DEF PlaceFails, At, SessionInv, SessionTypes
<1>2. /\ cmd' = [cmd EXCEPT ![k] = NoCmd] /\ added' = added /\ folders' = folders
      /\ host' = host /\ mem' = mem /\ disk' = disk /\ writes' = writes
      /\ up' = up /\ known' = known /\ intended' = intended
      /\ suspended' = suspended /\ trying' = trying /\ host = "up"
  BY DEF PlaceFails, At, flags, pool, ghost
<1>3. \A j \in Command : Shrinks(cmd[j], cmd'[j]) /\ Stays(cmd[j], cmd'[j])
  <2>1. Shrinks(cmd[k], NoCmd) /\ Stays(cmd[k], NoCmd)
    BY <1>1, NoCmdFormed DEF Shrinks, Stays, NoCmd
  <2>2. QED
    BY <1>1, <1>2, <2>1, StandsStill
<1>4. cmd' \in [Command -> Running] /\ \A j \in Command : WellFormed(cmd'[j])
  BY <1>1, <1>2, <1>3, CommandsFormed
<1>5. SessionTypes' /\ HoldsNothing'
  BY <1>1, <1>2, <1>4 DEF SessionTypes, HoldsNothing
<1>6. Effect
  BY <1>2, <1>3, <1>5 DEF Effect, Firm
<1>7. FlagsStored'
  BY <1>2, <1>3, FlagsKept DEF AllStay, Stays, CutsWait, SessionInv, flags
<1>8. QED
  BY <1>3, <1>6, <1>7 DEF AllStay

\* A Disconnect goes on with the same connection.
LEMMA DisconnectMoves ==
    ASSUME SessionTypes, NEW k \in Command, cmd[k].kind = "disconnect", cmd[k].todo # <<>>,
           NEW p \in {"cut", "unfold"}, NEW q, q = [cmd[k] EXCEPT !.pc = p]
    PROVE  Shrinks(cmd[k], q) /\ q.pc = p /\ q.todo = cmd[k].todo /\ q.kind = "disconnect"
           /\ q.shared = cmd[k].shared
<1>1. cmd[k] \in Running /\ WellFormed(cmd[k])
  BY DEF SessionTypes
<1>2. /\ q \in Running /\ q.kind = cmd[k].kind /\ q.todo = cmd[k].todo /\ q.got = cmd[k].got
      /\ q.shared = cmd[k].shared /\ q.pc = p
  BY <1>1 DEF Running, Pcs
<1>3. QED
  BY <1>1, <1>2 DEF Shrinks, WellFormed

\* The command for disconnecting remembers the flag and has it stored.
LEMMA DisconnectItemEffect ==
    ASSUME SessionInv, NEW k \in Command, DisconnectItem(k)
    PROVE  /\ Effect /\ FlagsStored' /\ cmd[k].kind = "disconnect"
           /\ \A j \in Command \ {k} : Stays(cmd[j], cmd'[j])
           /\ cmd'[k].pc = "cut" /\ cmd'[k].todo = cmd[k].todo /\ Cur(k) \in mem'
<1> DEFINE c == Cur(k)
           q == [cmd[k] EXCEPT !.pc = "cut"]
<1>1. /\ cmd[k].kind = "disconnect" /\ cmd[k].pc = "item" /\ SessionTypes
      /\ cmd \in [Command -> Running]
  BY DEF DisconnectItem, At, SessionInv, SessionTypes, Running
<1>2. cmd[k].todo # <<>> /\ c \in Conn
  BY <1>1, CurFacts
<1>3. /\ host' = host /\ disk' = disk /\ folders' = folders
      /\ added' = added /\ up' = up /\ known' = known /\ intended' = intended /\ host = "up"
      /\ suspended' = suspended /\ trying' = trying
      /\ \/ flags' = flags /\ c \in mem
         \/ c \notin mem /\ mem' = mem \cup {c} /\ mem' # mem /\ Persist(k, mem')
  BY DEF DisconnectItem, flags, ghost, pool, At
<1>4. cmd' = [cmd EXCEPT ![k] = q]
  BY DEF DisconnectItem, Goto
<1>5. Shrinks(cmd[k], q) /\ q.pc = "cut" /\ q.todo = cmd[k].todo /\ q.kind = "disconnect"
  BY <1>1, <1>2, DisconnectMoves
<1> HIDE DEF q
<1>6. \A j \in Command : Shrinks(cmd[j], cmd'[j]) /\ (j # k => Stays(cmd[j], cmd'[j]))
  BY <1>1, <1>4, <1>5, StandsStill
<1>7. cmd' \in [Command -> Running] /\ \A j \in Command : WellFormed(cmd'[j])
  BY <1>1, <1>4, <1>6, CommandsFormed
<1>8. CutsWait
  BY <1>1, <1>6 DEF CutsWait, Stays
<1>9. ASSUME flags' = flags, c \in mem
      PROVE  /\ FlagsStored' /\ writes' \in Seq(Update) /\ mem' = mem
             /\ \A d \in Conn : Firm(d) => Firm(d)'
  <2>1. mem' = mem /\ writes' = writes
    BY <1>9 DEF flags
  <2>2. QED
    BY <1>1, <1>3, <1>8, <1>9, <2>1, FlagsKept DEF SessionInv, SessionTypes, Firm
<1>10. ASSUME mem' = mem \cup {c}, Persist(k, mem'), c \notin mem
       PROVE  /\ FlagsStored' /\ writes' \in Seq(Update)
              /\ \A d \in mem' : Firm(d) => Firm(d)'
  <2>1. mem' \in SUBSET Conn /\ k \in Command \cup {"event"}
    BY <1>1, <1>2, <1>10 DEF SessionTypes
  <2>2. /\ writes' \in Seq(Update)
        /\ \A d \in mem' : (Firm(d) => Firm(d)') /\ (Awaited(d) => Awaited(d)')
        /\ Len(writes') \in DOMAIN writes' /\ writes'[Len(writes')] = [by |-> k, ids |-> mem']
    BY <1>1, <1>3, <1>8, <1>10, <2>1, PersistKeeps
  <2>3. ASSUME NEW d, d = c PROVE Awaited(d)'
    <3>1. cmd'[k].kind = "disconnect" /\ cmd'[k].pc = "cut" /\ Head(cmd'[k].todo) = c
      BY <1>1, <1>4, <1>5 DEF Cur
    <3>2. DOMAIN writes' = 1 .. Len(writes')
      BY <2>2, LenProperties
    <3>3. \A j \in DOMAIN writes' : j >= Len(writes') => c \in writes'[j].ids
      BY <1>10, <2>2, <3>2
    <3>4. writes'[Len(writes')].by = k
      BY <2>2
    <3>5. QED
      BY <2>2, <2>3, <3>1, <3>3, <3>4 DEF Awaited, Cur
  <2>4. \A d \in mem' : Firm(d)' \/ Awaited(d)'
    BY <1>10, <2>2, <2>3 DEF FlagsStored, SessionInv
  <2>5. QED
    BY <2>2, <2>4 DEF FlagsStored
<1>11. /\ FlagsStored' /\ writes' \in Seq(Update) /\ mem' = mem \cup {c}
       /\ \A d \in Conn : Firm(d) /\ (d \in mem' \/ flags' = flags) => Firm(d)'
  <2>1. c \notin mem => flags' # flags
    BY <1>3 DEF flags
  <2>2. QED
    BY <1>3, <1>9, <1>10, <2>1
<1>12. SessionTypes' /\ HoldsNothing'
  BY <1>1, <1>2, <1>3, <1>7, <1>11 DEF SessionTypes, HoldsNothing
<1>13. Effect
  BY <1>1, <1>2, <1>3, <1>6, <1>11, <1>12 DEF Effect
<1>14. QED
  BY <1>1, <1>4, <1>5, <1>6, <1>11, <1>13

\* Its update has been written: the connection is suspended and disconnected.
\* Nobody else may have set its flag, so the flag is stored.
LEMMA CutEffect ==
    ASSUME SessionInv, NEW k \in Command, Cut(k)
    PROVE  /\ Effect /\ FlagsStored' /\ cmd[k].kind = "disconnect"
           /\ \A j \in Command \ {k} : Stays(cmd[j], cmd'[j])
           /\ cmd'[k].todo = cmd[k].todo /\ cmd'[k].shared = cmd[k].shared
           /\ Cur(k) \notin up' \cup trying' /\ Cur(k) \in suspended'
           /\ ~cmd[k].shared /\ Cur(k) \in known => Firm(Cur(k)) /\ Cur(k) \in mem
<1> DEFINE c == Cur(k)
           q == [cmd[k] EXCEPT !.pc = "unfold"]
<1>1. /\ cmd[k].kind = "disconnect" /\ cmd[k].pc = "cut" /\ SessionTypes
      /\ cmd \in [Command -> Running]
  BY DEF Cut, At, SessionInv, SessionTypes
<1>2. cmd[k].todo # <<>> /\ c \in Conn /\ Uses(k, c)
  BY <1>1, CurFacts
<1>3. /\ host' = host /\ mem' = mem /\ disk' = disk /\ writes' = writes /\ folders' = folders
      /\ added' = added /\ up' = up \ {c} /\ known' = known /\ intended' = intended
      /\ host = "up" /\ suspended' = suspended \cup {c} /\ trying' = trying \ {c}
  BY DEF Cut, flags, ghost, At
<1>4. cmd' = [j \in Command |-> IF j = k THEN q ELSE Refused(c, j)]
  BY DEF Cut
<1>5. /\ Shrinks(cmd[k], q) /\ q.pc = "unfold" /\ q.todo = cmd[k].todo
      /\ q.shared = cmd[k].shared
  BY <1>1, <1>2, DisconnectMoves
<1> HIDE DEF q
<1>6. \A j \in Command : Shrinks(cmd[j], cmd'[j]) /\ (j # k => Stays(cmd[j], cmd'[j]))
  BY <1>1, <1>4, <1>5, RefusedFormed
<1>7. cmd' \in [Command -> Running] /\ \A j \in Command : WellFormed(cmd'[j])
  BY <1>1, <1>4, <1>6, CommandsFormed
<1>8. SessionTypes' /\ HoldsNothing'
  BY <1>1, <1>2, <1>3, <1>7 DEF SessionTypes, HoldsNothing
<1>9. Effect
  BY <1>1, <1>2, <1>3, <1>6, <1>8 DEF Effect, Firm
<1>10. ASSUME NEW d, Awaited(d)
       PROVE  /\ Awaited(d)'
              /\ \E j \in Command \ {k} : Uses(j, d)
  <2>1. PICK j \in Command :
            /\ cmd[j].kind = "disconnect" /\ cmd[j].pc = "cut" /\ Cur(j) = d
            /\ \E i \in DOMAIN writes :
                  writes[i].by = j /\ \A n \in DOMAIN writes : n >= i => d \in writes[n].ids
    BY <1>10 DEF Awaited
  <2>2. j # k
    BY <2>1 DEF Cut, Written
  <2>3. cmd'[j].kind = "disconnect" /\ cmd'[j].pc = "cut" /\ cmd'[j].todo = cmd[j].todo
    BY <1>6, <2>1, <2>2 DEF Stays
  <2>4. Uses(j, d)
    BY <1>1, <2>1, CurFacts
  <2>5. Awaited(d)'
    BY <1>3, <2>1, <2>3 DEF Awaited, Cur
  <2>6. QED
    BY <2>2, <2>4, <2>5
<1>11. FlagsStored'
  BY <1>3, <1>10 DEF FlagsStored, SessionInv, Firm
<1>12. ASSUME ~cmd[k].shared, c \in known PROVE Firm(c) /\ c \in mem
  <2>1. c \in mem
    BY <1>1, <1>12 DEF SessionInv, Cutting
  <2>2. ~Awaited(c)
    BY <1>2, <1>10, <1>12 DEF SessionInv, Aware
  <2>3. QED
    BY <2>1, <2>2 DEF SessionInv, FlagsStored
<1>13. QED
  BY <1>1, <1>3, <1>4, <1>5, <1>6, <1>9, <1>11, <1>12

\* removeRemoteWorkspaceFolder, when the host goes on.
LEMMA UnfoldEffect ==
    ASSUME SessionInv, NEW k \in Command, Unfold(k), host' = "up"
    PROVE  Effect /\ AllStay /\ FlagsStored' /\ Cur(k) \notin ToSet(folders')
<1> DEFINE c == Cur(k)
           q == Advance(cmd[k])
           without == Kept(folders, Conn \ {c})
<1>1. /\ cmd[k].kind = "disconnect" /\ cmd[k].pc = "unfold" /\ SessionTypes
      /\ cmd \in [Command -> Running] /\ folders \in Seq(Conn) /\ host = "up"
  BY DEF Unfold, At, SessionInv, SessionTypes
<1>2. c \in Conn
  BY <1>1, CurFacts
<1>3. without \in Seq(Conn) /\ ToSet(without) \subseteq ToSet(folders) \cap (Conn \ {c})
  BY <1>1, KeptFacts
<1>4. /\ folders' = without /\ intended' \subseteq intended \cup {c} /\ known' = known
      /\ host' = host /\ mem' = mem /\ disk' = disk /\ writes' = writes
      /\ added' = added /\ up' = up /\ suspended' = suspended /\ trying' = trying
      /\ cmd' = [cmd EXCEPT ![k] = q]
  BY DEF Unfold, GoDown, Dies, flags, pool, spaces
<1>5. Shrinks(cmd[k], q) /\ Stays(cmd[k], q)
  BY <1>1, AdvanceMoves
<1> HIDE DEF q, without
<1>6. \A j \in Command : Shrinks(cmd[j], cmd'[j]) /\ Stays(cmd[j], cmd'[j])
  BY <1>1, <1>4, <1>5, StandsStill
<1>7. cmd' \in [Command -> Running] /\ \A j \in Command : WellFormed(cmd'[j])
  BY <1>1, <1>4, <1>6, CommandsFormed
<1>8. SessionTypes' /\ HoldsNothing'
  BY <1>1, <1>2, <1>3, <1>4, <1>7 DEF SessionTypes, HoldsNothing
<1>9. Effect
  BY <1>3, <1>4, <1>6, <1>8 DEF Effect, Firm
<1>10. FlagsStored'
  BY <1>4, <1>6, FlagsKept DEF AllStay, Stays, CutsWait, SessionInv, flags
<1>11. QED
  BY <1>3, <1>4, <1>6, <1>9, <1>10 DEF AllStay

\* The removal of the folder fails or takes too long: the command goes on.
LEMMA UnfoldFailsEffect ==
    ASSUME SessionInv, NEW k \in Command, UnfoldFails(k)
    PROVE  Effect /\ AllStay /\ FlagsStored'
<1> DEFINE q == Advance(cmd[k])
<1>1. /\ cmd[k].kind = "disconnect" /\ cmd[k].pc = "unfold" /\ SessionTypes
      /\ cmd \in [Command -> Running]
  BY DEF UnfoldFails, At, SessionInv, SessionTypes
<1>2. /\ host' = host /\ mem' = mem /\ disk' = disk /\ writes' = writes /\ folders' = folders
      /\ added' = added /\ up' = up /\ known' = known /\ intended' = intended /\ host = "up"
      /\ suspended' = suspended /\ trying' = trying
  BY DEF UnfoldFails, flags, ghost, pool, At
<1>3. cmd' = [cmd EXCEPT ![k] = q]
  BY DEF UnfoldFails
<1>4. Shrinks(cmd[k], q) /\ Stays(cmd[k], q)
  BY <1>1, AdvanceMoves
<1> HIDE DEF q
<1>5. \A j \in Command : Shrinks(cmd[j], cmd'[j]) /\ Stays(cmd[j], cmd'[j])
  BY <1>1, <1>3, <1>4, StandsStill
<1>6. cmd' \in [Command -> Running] /\ \A j \in Command : WellFormed(cmd'[j])
  BY <1>1, <1>3, <1>5, CommandsFormed
<1>7. SessionTypes' /\ HoldsNothing'
  BY <1>1, <1>2, <1>6 DEF SessionTypes, HoldsNothing
<1>8. Effect
  BY <1>2, <1>5, <1>7 DEF Effect, Firm
<1>9. FlagsStored'
  BY <1>2, <1>5, FlagsKept DEF AllStay, Stays, CutsWait, SessionInv, flags
<1>10. QED
  BY <1>5, <1>8, <1>9 DEF AllStay

(***************************************************************************)
(* Steps of the pool and of VS Code                                        *)
(***************************************************************************)

\* An attempt of the pool succeeds or fails; who waits for it goes on.
LEMMA AttemptEndsEffect ==
    ASSUME SessionInv, NEW c \in Conn, AttemptEnds(c)
    PROVE  Effect /\ AllStay /\ FlagsStored'
<1>1. SessionTypes /\ cmd \in [Command -> Running] /\ c \in trying /\ host = "up"
  BY DEF AttemptEnds, SessionInv, SessionTypes, HoldsNothing
<1>2. /\ host' = host /\ mem' = mem /\ disk' = disk /\ writes' = writes /\ folders' = folders
      /\ added' = added /\ known' = known /\ intended' = intended
      /\ suspended' = suspended /\ trying' = trying \ {c}
      /\ up \subseteq up' /\ up' \subseteq up \cup {c}
  BY DEF AttemptEnds, flags, ghost
<1>3. /\ cmd' = [j \in Command |-> cmd'[j]]
      /\ \A j \in Command : Shrinks(cmd[j], cmd'[j]) /\ Stays(cmd[j], cmd'[j])
  <2>1. CASE cmd' = [j \in Command |-> Refused(c, j)]
    BY <1>1, <2>1, RefusedFormed
  <2>2. CASE cmd' = [j \in Command |-> IF cmd[j].pc = "wait" /\ Cur(j) = c
                                       THEN [cmd[j] EXCEPT !.pc = "reached"] ELSE cmd[j]]
    BY <1>1, <2>2, WaitEnds, StandsStill
  <2>3. QED
    BY <2>1, <2>2 DEF AttemptEnds
<1>4. cmd' \in [Command -> Running] /\ \A j \in Command : WellFormed(cmd'[j])
  BY <1>1, <1>3, CommandsFormed
<1>5. SessionTypes' /\ HoldsNothing'
  BY <1>1, <1>2, <1>4 DEF SessionTypes, HoldsNothing
<1>6. Effect
  BY <1>1, <1>2, <1>3, <1>5 DEF Effect, Firm
<1>7. FlagsStored'
  BY <1>2, <1>3, FlagsKept DEF AllStay, Stays, CutsWait, SessionInv, flags
<1>8. QED
  BY <1>3, <1>6, <1>7 DEF AllStay

\* A background operation connects what the pool does not hold back; a
\* connection breaks.
LEMMA PoolEffect ==
    ASSUME SessionInv, NEW c \in Conn, Background(c) \/ LinkLost(c)
    PROVE  Effect /\ AllStay /\ FlagsStored'
<1>1. SessionTypes /\ host = "up"
  BY DEF Background, LinkLost, SessionInv, SessionTypes, HoldsNothing
<1>2. /\ host' = host /\ mem' = mem /\ disk' = disk /\ writes' = writes /\ folders' = folders
      /\ added' = added /\ known' = known /\ intended' = intended /\ cmd' = cmd
      /\ suspended' = suspended /\ up' \subseteq up
      /\ \/ trying' = trying
         \/ trying' = trying \cup {c} /\ c \in known \ suspended
  BY DEF Background, LinkLost, flags, ghost
<1>3. \A j \in Command : Shrinks(cmd[j], cmd'[j]) /\ Stays(cmd[j], cmd'[j])
  BY <1>1, <1>2, StandsStill
<1>4. SessionTypes' /\ HoldsNothing'
  BY <1>1, <1>2 DEF SessionTypes, HoldsNothing
<1>5. Effect
  BY <1>1, <1>2, <1>3, <1>4 DEF Effect, Firm
<1>6. FlagsStored'
  BY <1>2, <1>3, FlagsKept DEF AllStay, Stays, CutsWait, SessionInv, flags
<1>7. QED
  BY <1>3, <1>5, <1>6 DEF AllStay

\* VS Code writes the oldest update: what every update has is on disk.
LEMMA FlushEffect ==
    ASSUME SessionInv, Flush
    PROVE  Effect /\ AllStay /\ FlagsStored'
<1>1. SessionTypes /\ host = "up" /\ writes \in Seq(Update) /\ writes # <<>>
  BY DEF Flush, SessionInv, SessionTypes
<1>2. /\ host' = host /\ mem' = mem /\ disk' = writes[1].ids /\ writes' = Tail(writes)
      /\ folders' = folders /\ added' = added /\ known' = known /\ intended' = intended
      /\ cmd' = cmd /\ suspended' = suspended /\ up' = up /\ trying' = trying
  BY DEF Flush, pool, ghost
<1>3. /\ Len(writes) \in Nat \ {0} /\ DOMAIN writes = 1 .. Len(writes)
      /\ writes' \in Seq(Update) /\ DOMAIN writes' = 1 .. Len(writes) - 1
      /\ \A i \in DOMAIN writes' : i + 1 \in DOMAIN writes /\ writes'[i] = writes[i + 1]
  <2>1. Len(writes) \in Nat \ {0} /\ DOMAIN writes = 1 .. Len(writes)
    BY <1>1, EmptySeq, LenProperties
  <2>2. /\ writes' \in Seq(Update) /\ Len(writes') = Len(writes) - 1
        /\ \A i \in 1 .. Len(writes') : writes'[i] = writes[i + 1]
    BY <1>1, <1>2, HeadTailProperties
  <2>3. QED
    BY <2>1, <2>2, LenProperties
<1>4. 1 \in DOMAIN writes /\ writes[1].ids \in SUBSET Conn
  <2>1. 1 \in 1 .. Len(writes)
    BY <1>3
  <2>2. writes[1] \in Update
    BY <1>1, <2>1, ElementOfSeq
  <2>3. QED
    BY <1>3, <2>1, <2>2 DEF Update
<1>5. \A j \in Command : Shrinks(cmd[j], cmd'[j]) /\ Stays(cmd[j], cmd'[j])
  BY <1>1, <1>2, StandsStill
<1>6. SessionTypes' /\ HoldsNothing'
  BY <1>1, <1>2, <1>3, <1>4 DEF SessionTypes, HoldsNothing
<1>7. \A d : Firm(d) => Firm(d)'
  BY <1>2, <1>3, <1>4 DEF Firm
<1>8. Effect
  BY <1>2, <1>5, <1>6, <1>7 DEF Effect
<1>9. ASSUME NEW d, Awaited(d) PROVE Firm(d)' \/ Awaited(d)'
  <2>1. PICK j \in Command, i \in DOMAIN writes :
            /\ cmd[j].kind = "disconnect" /\ cmd[j].pc = "cut" /\ Cur(j) = d
            /\ writes[i].by = j /\ \A n \in DOMAIN writes : n >= i => d \in writes[n].ids
    BY <1>9 DEF Awaited
  <2>2. CASE i = 1
    <3>1. \A n \in DOMAIN writes : d \in writes[n].ids
      BY <1>3, <2>1, <2>2
    <3>2. QED
      BY <1>2, <1>3, <1>4, <3>1 DEF Firm
  <2>3. CASE i # 1
    <3>1. i - 1 \in DOMAIN writes' /\ writes'[i - 1].by = j
      BY <1>3, <2>1, <2>3
    <3>2. \A n \in DOMAIN writes' : n >= i - 1 => d \in writes'[n].ids
      BY <1>3, <2>1, <2>3
    <3>3. QED
      BY <1>2, <2>1, <3>1, <3>2 DEF Awaited, Cur
  <2>4. QED
    BY <2>2, <2>3
<1>10. FlagsStored'
  BY <1>2, <1>7, <1>9 DEF FlagsStored, SessionInv
<1>11. QED
  BY <1>5, <1>8, <1>10 DEF AllStay

\* onDidChangeWorkspaceFolders frees the connections of the folders that were
\* added.
LEMMA FoldersChangedEffect ==
    ASSUME SessionInv, FoldersChanged
    PROVE  Effect /\ AllStay /\ FlagsStored'
<1> DEFINE freed == added \cap mem
<1>1. SessionTypes /\ host = "up"
  BY DEF FoldersChanged, SessionInv
<1>2. /\ host' = host /\ disk' = disk /\ folders' = folders /\ added' = {} /\ known' = known
      /\ intended' = intended /\ cmd' = cmd /\ up' = up /\ trying' = trying
      /\ suspended' = suspended \ freed /\ mem' = mem \ freed
      /\ (mem' = mem /\ writes' = writes) \/ Persist("event", mem')
  BY <1>1 DEF FoldersChanged, ghost, SessionTypes
<1>3. \A j \in Command : Shrinks(cmd[j], cmd'[j]) /\ Stays(cmd[j], cmd'[j])
  BY <1>1, <1>2, StandsStill
<1>4. AllStay
  BY <1>3 DEF AllStay
<1>5. /\ FlagsStored' /\ writes' \in Seq(Update)
      /\ \A d \in Conn : Firm(d) /\ (d \in mem' \/ flags' = flags) => Firm(d)'
  BY <1>1, <1>2, <1>4, FlagsDropped DEF SessionInv, SessionTypes
<1>6. SessionTypes' /\ HoldsNothing'
  BY <1>1, <1>2, <1>5 DEF SessionTypes, HoldsNothing
<1>7. Effect
  BY <1>1, <1>2, <1>3, <1>5, <1>6 DEF Effect, Touched
<1>8. QED
  BY <1>4, <1>5, <1>7

\* The store changes: pruneManualDisconnectIds drops the flags of what is not
\* there any more, and nothing while the store is locked.
LEMMA StoreChangedDrops ==
    ASSUME SessionInv, NEW l, NEW stored \in SUBSET known, StoreChanged(l, stored)
    PROVE  /\ host' = host /\ disk' = disk /\ folders' = folders /\ added' = added
           /\ suspended' = suspended /\ known' = stored
           /\ mem \cap stored \subseteq mem' /\ mem' \in SUBSET mem
           /\ (mem' = mem /\ writes' = writes) \/ Persist("event", mem')
BY DEF StoreChanged, Prune, flags

\* Locking or unlocking the store drops flags of unknown connections only, and
\* touches no command and no folder.
LEMMA SetLockedEffect ==
    ASSUME SessionInv, SetLocked
    PROVE  Effect /\ AllStay /\ FlagsStored'
<1>1. SessionTypes /\ host = "up" /\ known \in SUBSET known
  BY DEF SetLocked, SessionInv
<1>2. /\ host' = host /\ disk' = disk /\ folders' = folders /\ added' = added
      /\ suspended' = suspended /\ known' = known
      /\ mem \cap known \subseteq mem' /\ mem' \in SUBSET mem
      /\ (mem' = mem /\ writes' = writes) \/ Persist("event", mem')
  BY <1>1, StoreChangedDrops DEF SetLocked
<1>3. cmd' = cmd /\ up' = up /\ trying' = trying /\ intended' = intended
  BY DEF SetLocked
<1>4. \A j \in Command : Shrinks(cmd[j], cmd'[j]) /\ Stays(cmd[j], cmd'[j])
  BY <1>1, <1>3, StandsStill
<1>5. AllStay
  BY <1>4 DEF AllStay
<1>6. /\ FlagsStored' /\ writes' \in Seq(Update)
      /\ \A d \in Conn : Firm(d) /\ (d \in mem' \/ flags' = flags) => Firm(d)'
  BY <1>1, <1>2, <1>5, FlagsDropped DEF SessionInv
<1>7. SessionTypes' /\ HoldsNothing'
  BY <1>1, <1>2, <1>3, <1>6 DEF SessionTypes, HoldsNothing
<1>8. Effect
  BY <1>1, <1>2, <1>3, <1>4, <1>6, <1>7 DEF Effect
<1>9. QED
  BY <1>5, <1>6, <1>8

\* Deleting a connection disconnects it first; what it leaves of the flag
\* belongs to nobody.
LEMMA DeleteEffect ==
    ASSUME SessionInv, NEW c \in Conn, DeleteConnection(c)
    PROVE  Effect /\ AllStay /\ FlagsStored' /\ intended' \subseteq intended
<1>1. SessionTypes /\ host = "up" /\ known \ {c} \in SUBSET known
      /\ cmd \in [Command -> Running]
  BY DEF DeleteConnection, SessionInv, SessionTypes
<1>2. /\ host' = host /\ disk' = disk /\ folders' = folders /\ added' = added
      /\ suspended' = suspended /\ known' = known \ {c}
      /\ mem \cap (known \ {c}) \subseteq mem' /\ mem' \in SUBSET mem
      /\ (mem' = mem /\ writes' = writes) \/ Persist("event", mem')
  BY <1>1, StoreChangedDrops DEF DeleteConnection
<1>3. /\ up' = up \ {c} /\ trying' = trying \ {c} /\ intended' = intended \ {c}
      /\ cmd' = [j \in Command |-> Refused(c, j)]
  BY DEF DeleteConnection
<1>4. \A j \in Command : Shrinks(cmd[j], cmd'[j]) /\ Stays(cmd[j], cmd'[j])
  BY <1>1, <1>3, RefusedFormed
<1>5. AllStay
  BY <1>4 DEF AllStay
<1>6. cmd' \in [Command -> Running] /\ \A j \in Command : WellFormed(cmd'[j])
  BY <1>1, <1>3, <1>4, CommandsFormed
<1>7. /\ FlagsStored' /\ writes' \in Seq(Update)
      /\ \A d \in Conn : Firm(d) /\ (d \in mem' \/ flags' = flags) => Firm(d)'
  BY <1>1, <1>2, <1>5, FlagsDropped DEF SessionInv
<1>8. SessionTypes' /\ HoldsNothing'
  BY <1>1, <1>2, <1>3, <1>6, <1>7 DEF SessionTypes, HoldsNothing
<1>9. Effect
  BY <1>1, <1>2, <1>3, <1>4, <1>7, <1>8 DEF Effect
<1>10. QED
  BY <1>3, <1>5, <1>7, <1>9

\* The user adds a folder and the host goes on: the commands that have its
\* connection to do know of it.
LEMMA UserAddsEffect ==
    ASSUME SessionInv, NEW c \in Conn, UserAddsFolder(c),
           ~(folders = <<>> /\ host = "up")
    PROVE  Effect /\ AllStay /\ FlagsStored' /\ intended' \subseteq intended
<1>1. SessionTypes /\ cmd \in [Command -> Running] /\ folders \in Seq(Conn)
  BY DEF SessionInv, SessionTypes
<1>2. /\ host' = host /\ mem' = mem /\ disk' = disk /\ writes' = writes
      /\ folders' = Append(folders, c) /\ known' = known /\ intended' = intended \ {c}
      /\ up' = up /\ trying' = trying /\ suspended' = suspended
      /\ IF host = "up" THEN added' = added \cup {c} ELSE added' = added
      /\ cmd' = [k \in Command |-> [cmd[k] EXCEPT !.shared = @ \/ c \in ToSet(cmd[k].todo)]]
  BY DEF UserAddsFolder, flags, pool
<1>3. ASSUME NEW k \in Command
      PROVE  \/ cmd'[k] = cmd[k] /\ c \notin ToSet(cmd'[k].todo)
             \/ /\ cmd'[k] \in Running /\ WellFormed(cmd'[k]) /\ cmd'[k].shared
                /\ cmd'[k].kind = cmd[k].kind /\ cmd'[k].pc = cmd[k].pc
                /\ cmd'[k].todo = cmd[k].todo /\ cmd'[k].got = cmd[k].got
  <2>1. cmd[k] \in Running /\ WellFormed(cmd[k]) /\ cmd[k].shared \in BOOLEAN
    BY <1>1 DEF SessionTypes, Running
  <2>2. CASE c \notin ToSet(cmd[k].todo)
    <3>1. cmd'[k] = [cmd[k] EXCEPT !.shared = cmd[k].shared]
      BY <1>2, <2>1, <2>2
    <3>2. QED
      BY <2>1, <2>2, <3>1 DEF Running
  <2>3. CASE c \in ToSet(cmd[k].todo)
    <3>1. cmd'[k] = [cmd[k] EXCEPT !.shared = TRUE]
      BY <1>2, <2>1, <2>3
    <3>2. /\ cmd'[k] \in Running /\ cmd'[k].shared
          /\ cmd'[k].kind = cmd[k].kind /\ cmd'[k].pc = cmd[k].pc
          /\ cmd'[k].todo = cmd[k].todo /\ cmd'[k].got = cmd[k].got
      BY <2>1, <3>1 DEF Running
    <3>3. cmd[k].kind # "none"
      BY <2>1, <2>3, NoCmdFormed DEF WellFormed
    <3>4. QED
      BY <2>1, <3>2, <3>3 DEF WellFormed
  <2>4. QED
    BY <2>2, <2>3
<1>4. \A k \in Command : Shrinks(cmd[k], cmd'[k]) /\ Stays(cmd[k], cmd'[k])
  BY <1>1, <1>3, StandsStill DEF Shrinks, Stays
<1>5. AllStay
  BY <1>4 DEF AllStay
<1>6. cmd' \in [Command -> Running] /\ \A k \in Command : WellFormed(cmd'[k])
  BY <1>1, <1>2, <1>4, CommandsFormed
<1>7. folders' \in Seq(Conn) /\ ToSet(folders') \subseteq ToSet(folders) \cup {c}
  <2>1. /\ folders' \in Seq(Conn) /\ DOMAIN folders' = 1 .. Len(folders) + 1
        /\ Len(folders) \in Nat /\ DOMAIN folders = 1 .. Len(folders)
    BY <1>1, <1>2, AppendProperties, LenProperties
  <2>2. \A i \in DOMAIN folders' : folders'[i] \in ToSet(folders) \cup {c}
    BY <1>1, <1>2, <2>1, AppendProperties DEF ToSet
  <2>3. QED
    BY <2>1, <2>2 DEF ToSet
<1>8. SessionTypes'
  BY <1>1, <1>2, <1>6, <1>7 DEF SessionTypes
<1>9. HoldsNothing'
  <2>1. ASSUME host = "down" PROVE cmd' = [k \in Command |-> NoCmd]
    <3>1. \A k \in Command : cmd[k] = NoCmd
      BY <2>1 DEF SessionInv, HoldsNothing
    <3>2. ASSUME NEW k \in Command PROVE cmd'[k] = NoCmd
      <4>1. cmd[k].kind = "none"
        BY <3>1 DEF NoCmd
      <4>2. cmd'[k].kind = "none"
        BY <1>3, <4>1
      <4>3. WellFormed(cmd'[k])
        BY <1>6
      <4>4. QED
        BY <4>2, <4>3 DEF WellFormed
    <3>3. QED
      BY <1>6, <3>2
  <2>2. QED
    BY <1>2, <2>1 DEF SessionInv, HoldsNothing
<1>10. \A k \in Command : c \in ToSet(cmd'[k].todo) => cmd'[k].shared
  BY <1>3
<1>11. Effect
  BY <1>2, <1>4, <1>7, <1>8, <1>9, <1>10 DEF Effect, Firm
<1>12. FlagsStored'
  BY <1>2, <1>5, FlagsKept DEF AllStay, Stays, CutsWait, SessionInv, flags
<1>13. QED
  BY <1>2, <1>5, <1>11, <1>12

(***************************************************************************)
(* The invariant is kept                                                   *)
(***************************************************************************)

\* Nobody else has to do with the connection of a Disconnect that is not
\* disturbed.
LEMMA Undisturbed ==
    ASSUME SessionInv, NEW k \in Command, cmd[k].kind = "disconnect", ~cmd[k].shared,
           NEW c \in ToSet(cmd[k].todo)
    PROVE  ~Touched(c) /\ \A j \in Command \ {k} : ~Uses(j, c)
<1>1. Uses(k, c) /\ c \in Conn
  <2>1. cmd[k] \in Running /\ cmd[k].todo \in Seq(Conn)
    BY DEF SessionInv, SessionTypes, Running
  <2>2. QED
    BY <2>1, LenProperties, ElementOfSeq DEF ToSet, Uses
<1>2. \A j \in Command \ {k} : ~Uses(j, c)
  BY <1>1 DEF SessionInv, Aware
<1>3. c \notin added
  BY DEF SessionInv, Aware
<1>4. QED
  BY <1>2, <1>3 DEF Touched

\* Commands that only shrink stay aware: what two of them have in common they had in
\* common before, and what is newly added they are told of.
LEMMA AwareKept == SessionInv /\ Effect => Aware'
<1> SUFFICES ASSUME SessionInv, Effect PROVE Aware'
  OBVIOUS
<1>1. ASSUME NEW j \in Command, NEW c, Uses(j, c)'
      PROVE  /\ cmd'[j] # NoCmd /\ Uses(j, c)
             /\ c \in ToSet(cmd'[j].todo) => c \in ToSet(cmd[j].todo)
             /\ cmd[j].shared => cmd'[j].shared
  <2>1. cmd'[j] # NoCmd
    BY <1>1, NoCmdFormed DEF Uses
  <2>2. QED
    BY <1>1, <2>1 DEF Effect, Shrinks, Uses
<1>2. ASSUME NEW j \in Command, NEW k \in Command, NEW c \in Conn,
             j # k, Uses(j, c)', Uses(k, c)'
      PROVE  cmd'[k].shared
  BY <1>1, <1>2 DEF SessionInv, Aware
<1>3. ASSUME NEW k \in Command, NEW c \in added', c \in ToSet(cmd'[k].todo)
      PROVE  cmd'[k].shared
  <2>1. Uses(k, c)' /\ c \in Conn
    BY <1>3 DEF Uses, Effect, SessionTypes
  <2>2. CASE c \in added
    BY <1>1, <1>3, <2>1, <2>2 DEF SessionInv, Aware
  <2>3. CASE \E j \in Command : cmd[j].kind = "connect" /\ Uses(j, c) /\ cmd'[j] = NoCmd
    BY <1>1, <2>1, <2>3 DEF SessionInv, Aware
  <2>4. CASE \A j \in Command : c \in ToSet(cmd'[j].todo) => cmd'[j].shared
    BY <1>3, <2>4
  <2>5. QED
    BY <2>1, <2>2, <2>3, <2>4 DEF Effect
<1>4. QED
  BY <1>2, <1>3 DEF Aware

\* A connection that a step touches for the first time has just been added to the
\* workspace by the user, who then no longer means it to be disconnected.
LEMMA TouchedKept ==
    ASSUME SessionInv, Effect, NEW c \in Conn, ~Touched(c)
    PROVE  Touched(c)' => c \notin intended' /\ c \in added' /\ c \notin added
<1>1. ASSUME NEW k \in Command, cmd'[k].kind = "connect", Uses(k, c)' PROVE FALSE
  <2>1. Shrinks(cmd[k], cmd'[k]) /\ cmd'[k] # NoCmd
    BY <1>1, NoCmdFormed DEF Effect, NoCmd
  <2>2. cmd[k].kind = "connect" /\ Uses(k, c)
    BY <1>1, <2>1 DEF Shrinks, Uses
  <2>3. QED
    BY <2>2 DEF Touched
<1>2. c \notin added
  BY DEF Touched
<1>3. c \in added' => c \notin intended'
  BY <1>2 DEF Effect, Touched
<1>4. QED
  BY <1>1, <1>2, <1>3 DEF Touched

\* A connection that is closed stays closed in a step that leaves the flags alone or
\* the host running.
LEMMA ClosedKept ==
    ASSUME SessionInv, Effect, NEW c \in Conn, Closed(c), c \in intended',
           flags' = flags \/ host = "up"
    PROVE  Closed(c)'
<1>1. ~Touched(c) /\ c \notin up \cup trying /\ c \notin ToSet(folders)
  BY DEF Closed
<1>2. ~Touched(c)'
  BY <1>1, TouchedKept
<1>3. c \notin ToSet(folders') /\ c \notin up'
  BY <1>1 DEF Effect
<1>4. c \notin trying'
  <2>1. CASE host = "up"
    BY <1>1, <2>1 DEF Effect, Closed
  <2>2. CASE host = "down"
    BY <2>2 DEF Effect, HoldsNothing
  <2>3. QED
    BY <2>1, <2>2 DEF SessionInv, SessionTypes
<1>5. ASSUME c \in known'
      PROVE  Firm(c)' /\ (host' = "up" => c \in suspended' /\ c \in mem')
  <2>1. c \in known
    BY <1>5 DEF Effect
  <2>2. Firm(c) /\ (host = "up" => c \in suspended /\ c \in mem)
    BY <2>1 DEF Closed
  <2>3. host = "up" => c \in suspended' /\ c \in mem'
    BY <1>1, <1>5, <2>2 DEF Effect
  <2>4. Firm(c)'
    BY <2>2, <2>3 DEF Effect
  <2>5. QED
    BY <2>3, <2>4 DEF Effect
<1>6. QED
  BY <1>2, <1>3, <1>4, <1>5 DEF Closed

\* Where a Disconnect that goes on waiting has come.
LEMMA CuttingKept ==
    ASSUME SessionInv, Effect, NEW k \in Command, Stays(cmd[k], cmd'[k]),
           cmd'[k].kind = "disconnect", ~cmd'[k].shared
    PROVE  /\ cmd'[k].pc \in {"cut", "unfold"} /\ Head(cmd'[k].todo) \in known' =>
                 Head(cmd'[k].todo) \in mem'
           /\ cmd'[k].pc = "unfold" =>
                 /\ Head(cmd'[k].todo) \notin up' \cup trying'
                 /\ Head(cmd'[k].todo) \in suspended'
                 /\ Head(cmd'[k].todo) \in known' =>
                       \A d : d = Head(cmd'[k].todo) => Firm(d)'
<1> SUFFICES ASSUME cmd'[k].pc \in {"cut", "unfold"}
             PROVE  /\ Head(cmd'[k].todo) \in known' => Head(cmd'[k].todo) \in mem'
                    /\ cmd'[k].pc = "unfold" =>
                          /\ Head(cmd'[k].todo) \notin up' \cup trying'
                          /\ Head(cmd'[k].todo) \in suspended'
                          /\ Head(cmd'[k].todo) \in known' =>
                                \A d : d = Head(cmd'[k].todo) => Firm(d)'
  OBVIOUS
<1> DEFINE c == Cur(k)
<1>1. /\ cmd[k].kind = "disconnect" /\ ~cmd[k].shared /\ cmd[k].pc = cmd'[k].pc
      /\ Head(cmd'[k].todo) = c
  BY DEF Effect, Shrinks, Stays, NoCmd, Cur
<1>2. c \in Conn /\ c \in ToSet(cmd[k].todo)
  BY <1>1, CurFacts DEF SessionInv
<1>3. ~Touched(c)
  BY <1>1, <1>2, Undisturbed
<1>4. /\ c \in known => c \in mem
      /\ cmd[k].pc = "unfold" => /\ c \notin up \cup trying /\ c \in suspended
                                 /\ c \in known => Firm(c)
  BY <1>1 DEF SessionInv, Cutting
<1> HIDE DEF c
<1>5. c \in known' => c \in mem'
  BY <1>2, <1>3, <1>4 DEF Effect
<1>6. cmd[k].pc = "unfold" => c \notin up' \cup trying' /\ c \in suspended'
  BY <1>2, <1>3, <1>4 DEF Effect
<1>7. ASSUME cmd[k].pc = "unfold", c \in known', NEW d, d = c PROVE Firm(d)'
  <2>1. d \in Conn /\ Firm(d) /\ d \in mem'
    BY <1>2, <1>4, <1>5, <1>7 DEF Effect
  <2>2. QED
    BY <2>1 DEF Effect
<1>8. QED
  BY <1>1, <1>5, <1>6, <1>7

\* A step that leaves every Disconnect where it is or sends it to its next
\* connection.
LEMMA QuietKeeps ==
    ASSUME SessionInv, Effect, AllStay, FlagsStored', intended' \subseteq intended,
           flags' = flags \/ host = "up"
    PROVE  SessionInv'
<1>1. SessionTypes' /\ HoldsNothing' /\ Aware'
  BY AwareKept DEF Effect
<1>2. Cutting'
  BY CuttingKept DEF AllStay, Cutting, Cur
<1>3. ASSUME NEW c \in intended' PROVE Closed(c)'
  <2>1. c \in Conn /\ Closed(c)
    BY <1>3 DEF SessionInv, SessionTypes
  <2>2. QED
    BY <1>3, <2>1, ClosedKept
<1>4. QED
  BY <1>1, <1>2, <1>3 DEF SessionInv

\* disconnect: the flag is set and its write begins before anything is closed.
LEMMA DisconnectItemKeeps ==
    ASSUME SessionInv, NEW k \in Command, DisconnectItem(k)
    PROVE  SessionInv'
<1>1. /\ Effect /\ FlagsStored' /\ \A j \in Command \ {k} : Stays(cmd[j], cmd'[j])
      /\ cmd'[k].pc = "cut" /\ cmd'[k].todo = cmd[k].todo /\ Cur(k) \in mem'
  BY DisconnectItemEffect
<1>2. host = "up" /\ intended' = intended
  BY DEF DisconnectItem, At, ghost
<1>3. SessionTypes' /\ HoldsNothing' /\ Aware'
  BY <1>1, AwareKept DEF Effect
<1>4. Head(cmd'[k].todo) \in mem'
  BY <1>1 DEF Cur
<1>5. Cutting'
  BY <1>1, <1>4, CuttingKept DEF Cutting, Cur
<1>6. ASSUME NEW c \in intended' PROVE Closed(c)'
  <2>1. c \in Conn /\ Closed(c)
    BY <1>2, <1>6 DEF SessionInv, SessionTypes
  <2>2. QED
    BY <1>1, <1>2, <1>6, <2>1, ClosedKept
<1>7. QED
  BY <1>1, <1>3, <1>5, <1>6 DEF SessionInv

\* disconnect: the flag is stored, and the connection and every attempt are closed.
LEMMA CutKeeps ==
    ASSUME SessionInv, NEW k \in Command, Cut(k)
    PROVE  SessionInv'
<1> DEFINE c == Cur(k)
<1>1. /\ Effect /\ FlagsStored' /\ cmd[k].kind = "disconnect"
      /\ \A j \in Command \ {k} : Stays(cmd[j], cmd'[j])
      /\ cmd'[k].todo = cmd[k].todo /\ cmd'[k].shared = cmd[k].shared
      /\ c \notin up' \cup trying' /\ c \in suspended'
      /\ ~cmd[k].shared /\ c \in known => Firm(c) /\ c \in mem
  BY CutEffect
<1>2. host = "up" /\ intended' = intended
  BY DEF Cut, At, ghost
<1>3. SessionTypes' /\ HoldsNothing' /\ Aware'
  BY <1>1, AwareKept DEF Effect
<1>4. c \in Conn /\ c \in ToSet(cmd[k].todo) /\ Head(cmd'[k].todo) = c
  <2>1. cmd[k].pc = "cut"
    BY DEF Cut, At
  <2>2. QED
    BY <1>1, <2>1, CurFacts DEF SessionInv, Cur
<1> HIDE DEF c
<1>5. ASSUME ~cmd[k].shared, c \in known'
      PROVE  c \in mem' /\ \A d : d = c => Firm(d)'
  <2>1. ~Touched(c)
    BY <1>1, <1>4, <1>5, Undisturbed
  <2>2. Firm(c) /\ c \in mem
    BY <1>1, <1>5 DEF Effect
  <2>3. QED
    BY <1>1, <1>4, <1>5, <2>1, <2>2 DEF Effect
<1>6. Cutting'
  BY <1>1, <1>4, <1>5, CuttingKept DEF Cutting, Cur
<1>7. ASSUME NEW d \in intended' PROVE Closed(d)'
  <2>1. d \in Conn /\ Closed(d)
    BY <1>2, <1>7 DEF SessionInv, SessionTypes
  <2>2. QED
    BY <1>1, <1>2, <1>7, <2>1, ClosedKept
<1>8. QED
  BY <1>1, <1>3, <1>6, <1>7 DEF SessionInv

\* A connection that nobody shares has been closed once its folder is gone.
LEMMA UnfoldKeeps ==
    ASSUME SessionInv, NEW k \in Command, Unfold(k), host' = "up"
    PROVE  SessionInv'
<1> DEFINE c == Cur(k)
<1>1. /\ Effect /\ AllStay /\ FlagsStored' /\ c \notin ToSet(folders')
  BY UnfoldEffect
<1>2. /\ host = "up" /\ cmd[k].kind = "disconnect" /\ cmd[k].pc = "unfold"
      /\ intended' = IF cmd[k].shared THEN intended ELSE intended \cup {c}
  BY DEF Unfold, At
<1>3. SessionTypes' /\ HoldsNothing' /\ Aware'
  BY <1>1, AwareKept DEF Effect
<1>4. Cutting'
  BY <1>1, CuttingKept DEF AllStay, Cutting, Cur
<1>5. c \in Conn /\ c \in ToSet(cmd[k].todo)
  BY <1>2, CurFacts DEF SessionInv
<1>6. ~cmd[k].shared => /\ c \notin up \cup trying /\ c \in suspended
                        /\ c \in known => c \in mem /\ Firm(c)
  BY <1>2 DEF SessionInv, Cutting
<1> HIDE DEF c
<1>7. ASSUME NEW d, d = c, ~cmd[k].shared PROVE Closed(d)'
  <2>1. ~Touched(c)
    BY <1>2, <1>5, <1>7, Undisturbed
  <2>2. ~Touched(d)'
    BY <1>1, <1>2, <1>5, <1>7, <2>1, TouchedKept
  <2>3. /\ d \in Conn /\ d \notin up' /\ d \notin trying' /\ d \notin ToSet(folders')
        /\ d \in suspended'
    BY <1>1, <1>5, <1>6, <1>7, <2>1 DEF Effect
  <2>4. ASSUME d \in known' PROVE d \in mem' /\ Firm(d)'
    <3>1. d \in mem /\ Firm(d)
      BY <1>1, <1>6, <1>7, <2>4 DEF Effect
    <3>2. d \in mem'
      BY <1>1, <1>5, <1>7, <2>1, <2>4, <3>1 DEF Effect
    <3>3. QED
      BY <1>1, <1>5, <1>7, <3>1, <3>2 DEF Effect
  <2>5. QED
    BY <2>2, <2>3, <2>4 DEF Closed
<1>8. ASSUME NEW d \in intended' PROVE Closed(d)'
  <2>1. CASE d = c /\ ~cmd[k].shared
    BY <1>7, <2>1
  <2>2. CASE d \in intended
    <3>1. d \in Conn /\ Closed(d)
      BY <2>2 DEF SessionInv, SessionTypes
    <3>2. QED
      BY <1>1, <1>2, <1>8, <3>1, ClosedKept
  <2>3. QED
    BY <1>2, <1>8, <2>1, <2>2
<1>9. QED
  BY <1>1, <1>3, <1>4, <1>8 DEF SessionInv

\* Whatever write is the last to arrive, the flags of those who are closed are
\* stored.
LEMMA ArrivingFacts ==
    ASSUME SessionInv, NEW last \in Arriving
    PROVE  last \in SUBSET Conn /\ \A c : Firm(c) => c \in last
<1>1. SessionTypes
  BY DEF SessionInv
<1>2. \A i \in DOMAIN writes : writes[i].ids \in SUBSET Conn
  <2>1. writes \in Seq(Update) /\ DOMAIN writes = 1 .. Len(writes)
    BY <1>1, LenProperties DEF SessionTypes
  <2>2. \A i \in DOMAIN writes : writes[i] \in Update
    BY <2>1, ElementOfSeq
  <2>3. QED
    BY <2>2 DEF Update
<1>3. QED
  BY <1>1, <1>2 DEF SessionTypes, Firm, Arriving

\* A host that goes down keeps those closed who have no folder and whose flag
\* is stored in the workspace it will start in.
LEMMA DiesKeeps ==
    ASSUME SessionInv, host = "up", NEW rest, Dies(rest), folders' \in Seq(Conn),
           known' = known, intended' \in SUBSET Conn, disk' \in SUBSET Conn,
           \A c \in intended' : c \notin ToSet(folders') /\ (c \in known => c \in disk')
    PROVE  SessionInv'
<1>1. SessionTypes
  BY DEF SessionInv
<1>2. /\ host' = "down" /\ mem' = {} /\ writes' = <<>> /\ added' = {}
      /\ suspended' = {} /\ up' = {} /\ trying' = {}
      /\ cmd' = [k \in Command |-> NoCmd]
  BY DEF Dies
<1>4. <<>> \in Seq(Update) /\ DOMAIN <<>> = {}
  <2>1. <<>> \in Seq(Update) /\ Len(<<>>) = 0
    BY EmptySeq
  <2>2. DOMAIN <<>> = 1 .. Len(<<>>)
    BY <2>1, LenProperties
  <2>3. QED
    BY <2>1, <2>2
<1>5. SessionTypes'
  BY <1>1, <1>2, <1>4, NoCmdFormed DEF SessionTypes
<1>6. HoldsNothing' /\ FlagsStored'
  BY <1>2 DEF HoldsNothing, FlagsStored
<1>7. \A k \in Command : cmd'[k] = NoCmd
  BY <1>2
<1>8. Aware' /\ Cutting'
  BY <1>2, <1>7, NoCmdFormed DEF Aware, Cutting, Uses, NoCmd
<1>9. ASSUME NEW c \in intended' PROVE Closed(c)'
  <2>1. ~Touched(c)'
    BY <1>2, <1>7 DEF Touched, NoCmd
  <2>2. c \in known' => Firm(c)'
    BY <1>2, <1>4, <1>9 DEF Firm
  <2>3. QED
    BY <1>2, <1>9, <2>1, <2>2 DEF Closed
<1>10. QED
  BY <1>5, <1>6, <1>8, <1>9 DEF SessionInv

\* So where the host starts again in the same workspace.
LEMMA GoDownKeeps ==
    ASSUME SessionInv, host = "up", NEW rest, GoDown(rest), folders' \in Seq(Conn),
           known' = known, intended' \in SUBSET Conn,
           \A c \in intended' : c \notin ToSet(folders') /\ (c \in known => Firm(c))
    PROVE  SessionInv'
<1>1. Dies(rest) /\ disk' \in Arriving
  BY DEF GoDown
<1>2. disk' \in SUBSET Conn /\ \A c : Firm(c) => c \in disk'
  BY <1>1, ArrivingFacts
<1>3. QED
  BY <1>1, <1>2, DiesKeeps

\* The workspace that is left is as closed as it was, and so is the one that is
\* opened, but for the connections whose folders have been written into it.
LEMMA ReopenFacts ==
    ASSUME SessionInv, SpacesInv, NEW w \in Workspace, NEW new \in Seq(Conn), Reopen(w, new),
           known' = known
    PROVE  /\ Dies({}) /\ folders' \in Seq(Conn)
           /\ intended' \in SUBSET Conn /\ disk' \in SUBSET Conn
           /\ \A c \in intended' : c \notin ToSet(folders') /\ (c \in known => c \in disk')
           /\ SpacesInv'
<1> DEFINE was(last) == [disk |-> last, folders |-> folders, intended |-> intended]
           all(last) == [parked EXCEPT ![open] = was(last)]
<1>1. PICK last \in Arriving :
          /\ Dies({})
          /\ open' = w
          /\ disk' = all(last)[w].disk
          /\ folders' = IF new = <<>> THEN all(last)[w].folders ELSE new
          /\ intended' = all(last)[w].intended \ ToSet(new)
          /\ parked' = [all(last) EXCEPT ![w] = Blank]
  BY DEF Reopen
<1>2. last \in SUBSET Conn /\ \A c : Firm(c) => c \in last
  BY ArrivingFacts
<1>3. /\ folders \in Seq(Conn) /\ intended \in SUBSET Conn
      /\ \A c \in intended : c \notin ToSet(folders) /\ (c \in known => Firm(c))
  BY DEF SessionInv, SessionTypes, Closed
<1>4. LeftClosed(was(last))
  BY <1>2, <1>3 DEF LeftClosed
<1> DEFINE r == all(last)[w]
<1>5. \A v \in Workspace : LeftClosed(all(last)[v])
  <2>1. \A v \in Workspace : all(last)[v] = IF v = open THEN was(last) ELSE parked[v]
    BY DEF SpacesInv
  <2> HIDE DEF was
  <2>2. QED
    BY <1>4, <2>1 DEF SpacesInv
<1>6. LeftClosed(r)
  BY <1>5
<1>7. LeftClosed(Blank)
  BY EmptySeq DEF LeftClosed, Blank
<1>8. \A v \in Workspace : parked'[v] = IF v = w THEN Blank ELSE all(last)[v]
  <2>1. DOMAIN all(last) = Workspace
    BY DEF SpacesInv
  <2> HIDE DEF all
  <2>2. QED
    BY <1>1, <2>1
<1>9. parked' = [v \in Workspace |-> parked'[v]]
  BY <1>1 DEF SpacesInv
<1> HIDE DEF all, r
<1>10. SpacesInv'
  <2>1. \A v \in Workspace : LeftClosed(parked'[v])
    BY <1>5, <1>7, <1>8
  <2>2. QED
    BY <1>1, <1>9, <2>1 DEF SpacesInv, LeftClosed
<1>11. disk' = r.disk /\ intended' = r.intended \ ToSet(new)
       /\ folders' = IF new = <<>> THEN r.folders ELSE new
  BY <1>1 DEF r
<1>12. QED
  BY <1>1, <1>6, <1>10, <1>11 DEF LeftClosed

\* The host restarts: for the first folder of the window, for the removal of
\* the first one, for a workspace file that is opened, or because the user
\* reloads the window or opens another workspace in it.
LEMMA RestartKeeps ==
    ASSUME SessionInv, SpacesInv, host = "up", host' = "down", Next
    PROVE  SessionInv'
<1>1. SessionTypes /\ folders \in Seq(Conn) /\ intended \in SUBSET Conn
  BY DEF SessionInv, SessionTypes
<1>2. \A c \in intended : /\ c \notin ToSet(folders) /\ (c \in known => Firm(c))
                          /\ ~Touched(c)
  BY DEF SessionInv, Closed
<1>3. CASE \E k \in Command : Place(k)
  <2>1. PICK k \in Command : Place(k)
    BY <1>3
  <2> DEFINE new == New(k)
  <2>2. folders' = folders \o new
    BY <2>1 DEF Place
  <2>3. /\ cmd[k].kind = "connect" /\ known' = known /\ intended' = intended /\ GoDown({})
    BY <2>1 DEF Place, At, flags
  <2>4. cmd[k].got \in Seq(Conn)
    BY <1>1 DEF SessionTypes, Running
  <2>5. new \in Seq(Conn) /\ ToSet(new) \subseteq ToSet(cmd[k].got)
    BY <2>4, KeptFacts DEF New
  <2> HIDE DEF new
  <2>6. folders' \in Seq(Conn) /\ ToSet(folders') \subseteq ToSet(folders) \cup ToSet(new)
    BY <1>1, <2>2, <2>5, ConcatSet
  <2>7. \A c \in intended : c \notin ToSet(new)
    BY <1>2, <2>3, <2>5 DEF Touched, Uses
  <2>8. QED
    BY <1>1, <1>2, <2>3, <2>6, <2>7, GoDownKeeps
<1>4. CASE \E k \in Command : Unfold(k)
  <2>1. PICK k \in Command : Unfold(k)
    BY <1>4
  <2> DEFINE c == Cur(k)
             without == Kept(folders, Conn \ {c})
  <2>2. /\ cmd[k].kind = "disconnect" /\ cmd[k].pc = "unfold" /\ known' = known
        /\ folders' = without /\ GoDown(ToSet(Tail(cmd[k].todo)))
        /\ intended' = IF cmd[k].shared THEN intended ELSE intended \cup {c}
    BY <2>1 DEF Unfold, At
  <2>3. without \in Seq(Conn) /\ ToSet(without) \subseteq ToSet(folders) \cap (Conn \ {c})
    BY <1>1, KeptFacts
  <2>4. c \in Conn
    BY <1>1, <2>2, CurFacts
  <2>5. ~cmd[k].shared => (c \in known => Firm(c))
    BY <2>2 DEF SessionInv, Cutting
  <2> HIDE DEF c, without
  <2>6. intended' \in SUBSET Conn
        /\ \A d \in intended' : d \notin ToSet(folders') /\ (d \in known => Firm(d))
    BY <1>1, <1>2, <2>2, <2>3, <2>4, <2>5
  <2>7. QED
    BY <2>2, <2>3, <2>6, GoDownKeeps
<1>5. CASE \E c \in Conn : UserAddsFolder(c)
  <2>1. PICK c \in Conn : UserAddsFolder(c)
    BY <1>5
  <2>2. /\ folders = <<>> /\ folders' = Append(folders, c) /\ known' = known
        /\ intended' = intended \ {c} /\ GoDown({})
    BY <2>1 DEF UserAddsFolder
  <2>3. folders' \in Seq(Conn) /\ ToSet(folders') = {c}
    <3>1. folders' = <<c>>
      BY <2>2
    <3>2. folders' \in Seq(Conn) /\ DOMAIN folders' = {1}
      BY <3>1
    <3>3. QED
      BY <3>1, <3>2 DEF ToSet
  <2>4. QED
    BY <1>1, <1>2, <2>2, <2>3, GoDownKeeps
<1>6. CASE Reload
  <2>1. PICK w \in Workspace : Reopen(w, <<>>)
    BY <1>6 DEF Reload
  <2>2. <<>> \in Seq(Conn) /\ known' = known
    BY <1>6, EmptySeq DEF Reload
  <2>3. QED
    BY <2>1, <2>2, ReopenFacts, DiesKeeps
<1>7. CASE \E k \in Command : PlaceInFile(k)
  <2>1. PICK k \in Command : PlaceInFile(k)
    BY <1>7
  <2>2. PICK w \in File : Reopen(w, New(k))
    BY <2>1 DEF PlaceInFile
  <2>3. w \in Workspace /\ known' = known
    BY <2>1 DEF Workspace, PlaceInFile
  <2>4. New(k) \in Seq(Conn)
    BY <1>1, KeptFacts DEF New, SessionTypes, Running
  <2>5. QED
    BY <2>2, <2>3, <2>4, ReopenFacts, DiesKeeps
<1>8. QED
  <2>1. ASSUME NEW k \in Command,
               \/ Start(k) \/ ConnectItem(k) \/ ConnectReached(k) \/ ConnectSaved(k)
               \/ ConnectRefused(k) \/ DisconnectItem(k) \/ Cut(k) \/ UnfoldFails(k)
               \/ PlaceFails(k)
        PROVE  host' = host
    BY <2>1 DEF Start, ConnectItem, ConnectReached, ConnectSaved, ConnectRefused,
                DisconnectItem, Cut, UnfoldFails, PlaceFails
  <2>2. ASSUME NEW c \in Conn,
               AttemptEnds(c) \/ Background(c) \/ LinkLost(c) \/ DeleteConnection(c)
        PROVE  host' = host
    BY <2>2 DEF AttemptEnds, Background, LinkLost, DeleteConnection, StoreChanged
  <2>3. Flush \/ FoldersChanged \/ SetLocked => host' = host
    BY DEF Flush, FoldersChanged, SetLocked, StoreChanged
  <2>4. ~Activate
    BY DEF Activate
  <2>5. QED
    BY <1>3, <1>4, <1>5, <1>6, <1>7, <2>1, <2>2, <2>3, <2>4 DEF Next

\* The sequences commands begin with are sequences of connections.
LEMMA ShortSequences ==
    ASSUME NEW S \in SUBSET Conn, NEW s \in SeqOf(S, 2)
    PROVE  s \in Seq(Conn) /\ ToSet(s) \subseteq S
<1>1. PICK m \in 0 .. 2 : s \in [1 .. m -> S]
  BY DEF SeqOf
<1>2. s \in Seq(S)
  BY <1>1
<1>3. s \in Seq(Conn)
  BY <1>1
<1>4. ToSet(s) \subseteq S
  BY <1>1 DEF ToSet
<1>5. QED
  BY <1>3, <1>4

\* What a new command finds, and what it means to those who are under way.
LEMMA StartedFormed ==
    ASSUME SessionInv, NEW k \in Command, cmd[k] = NoCmd,
           NEW kind \in {"connect", "disconnect"}, NEW s \in Seq(Conn), s # <<>>,
           cmd' = Started(k, kind, s), added' = added
    PROVE  /\ cmd' \in [Command -> Running] /\ \A j \in Command : WellFormed(cmd'[j])
           /\ cmd'[k].kind = kind /\ cmd'[k].pc = "item" /\ cmd'[k].todo = s
           /\ cmd'[k].got = <<>>
           /\ \A j \in Command \ {k} :
                 /\ cmd'[j].kind = cmd[j].kind /\ cmd'[j].pc = cmd[j].pc
                 /\ cmd'[j].todo = cmd[j].todo /\ cmd'[j].got = cmd[j].got
                 /\ cmd[j].shared => cmd'[j].shared
           /\ Aware'
<1> DEFINE common == {j \in Command \ {k} :
                         ToSet(cmd[j].todo \o cmd[j].got) \cap ToSet(s) # {}}
           known_ == common # {} \/ added \cap ToSet(s) # {}
           q == [NoCmd EXCEPT !.kind = kind, !.todo = s, !.pc = "item", !.shared = known_]
<1>1. /\ cmd \in [Command -> Running] /\ \A j \in Command : WellFormed(cmd[j])
      /\ Aware
  BY DEF SessionInv, SessionTypes
<1>2. ASSUME NEW j \in Command \ {k}, NEW c, Uses(j, c), c \in ToSet(s) PROVE j \in common
  <2>1. cmd[j].todo \in Seq(Conn) /\ cmd[j].got \in Seq(Conn)
    BY <1>1 DEF Running
  <2>2. ToSet(cmd[j].todo \o cmd[j].got) = ToSet(cmd[j].todo) \cup ToSet(cmd[j].got)
    BY <2>1, ConcatSet
  <2>3. QED
    BY <1>2, <2>2 DEF Uses
<1>3. ASSUME NEW j \in common PROVE cmd[j].kind # "none"
  <2>1. cmd[j].todo \in Seq(Conn) /\ cmd[j].got \in Seq(Conn)
    BY <1>1 DEF Running
  <2>2. ToSet(cmd[j].todo \o cmd[j].got) = ToSet(cmd[j].todo) \cup ToSet(cmd[j].got)
    BY <2>1, ConcatSet
  <2>3. cmd[j] # NoCmd
    BY <2>2, NoCmdFormed
  <2>4. QED
    BY <1>1, <2>3 DEF WellFormed
<1>4. cmd' = [j \in Command |-> IF j = k THEN q
                                ELSE [cmd[j] EXCEPT !.shared = @ \/ j \in common]]
  BY Zenon DEF Started
<1>5. known_ \in BOOLEAN /\ common \subseteq Command \ {k}
  OBVIOUS
<1>6. (common # {} => known_) /\ (added \cap ToSet(s) # {} => known_)
  OBVIOUS
<1> HIDE DEF common, known_
<1>7. /\ q \in Running /\ q.kind = kind /\ q.pc = "item" /\ q.todo = s /\ q.got = <<>>
      /\ q.shared = known_
  BY <1>5, EmptySeq DEF NoCmd, Running, Pcs
<1> HIDE DEF q
<1>8. cmd'[k] = q
  BY <1>4
<1>9. ASSUME NEW j \in Command \ {k}
      PROVE  /\ cmd'[j] \in Running /\ cmd'[j].kind = cmd[j].kind /\ cmd'[j].pc = cmd[j].pc
             /\ cmd'[j].todo = cmd[j].todo /\ cmd'[j].got = cmd[j].got
             /\ cmd'[j].shared = (cmd[j].shared \/ j \in common)
             /\ WellFormed(cmd'[j])
  <2>1. cmd[j] \in Running /\ cmd[j].shared \in BOOLEAN
    BY <1>1 DEF Running
  <2>2. CASE j \notin common
    <3>1. cmd'[j] = [cmd[j] EXCEPT !.shared = cmd[j].shared]
      BY <1>4, <2>1, <2>2
    <3>2. cmd'[j] = cmd[j]
      BY <2>1, <3>1 DEF Running
    <3>3. QED
      BY <1>1, <2>1, <2>2, <3>2
  <2>3. CASE j \in common
    <3>1. cmd'[j] = [cmd[j] EXCEPT !.shared = TRUE]
      BY <1>4, <2>1, <2>3
    <3>2. /\ cmd'[j] \in Running /\ cmd'[j].shared
          /\ cmd'[j].kind = cmd[j].kind /\ cmd'[j].pc = cmd[j].pc
          /\ cmd'[j].todo = cmd[j].todo /\ cmd'[j].got = cmd[j].got
      BY <2>1, <3>1 DEF Running
    <3>3. WellFormed(cmd'[j])
      BY <1>1, <1>3, <2>3, <3>2 DEF WellFormed
    <3>4. QED
      BY <2>1, <2>3, <3>1, <3>2, <3>3
  <2>4. QED
    BY <2>2, <2>3
<1>10. cmd' \in [Command -> Running] /\ \A j \in Command : WellFormed(cmd'[j])
  <2>1. WellFormed(q)
    BY <1>7 DEF WellFormed
  <2>2. QED
    BY <1>4, <1>7, <1>8, <1>9, <2>1
<1>11. ASSUME NEW c
       PROVE  /\ Uses(k, c)' <=> c \in ToSet(s)
              /\ \A j \in Command \ {k} : Uses(j, c)' <=> Uses(j, c)
  <2>1. ToSet(<<>>) = {}
    BY NoCmdFormed DEF NoCmd
  <2>2. QED
    BY <1>7, <1>8, <1>9, <2>1 DEF Uses
<1>12. ASSUME NEW i \in Command, NEW j \in Command, NEW c \in Conn, i # j,
              Uses(i, c)', Uses(j, c)'
       PROVE  cmd'[j].shared
  <2>1. CASE j = k
    BY <1>2, <1>6, <1>7, <1>8, <1>11, <1>12, <2>1
  <2>2. CASE i = k
    BY <1>2, <1>9, <1>11, <1>12, <2>2
  <2>3. CASE i # k /\ j # k
    BY <1>1, <1>9, <1>11, <1>12, <2>3 DEF Aware
  <2>4. QED
    BY <2>1, <2>2, <2>3
<1>13. ASSUME NEW j \in Command, NEW c \in added, c \in ToSet(cmd'[j].todo)
       PROVE  cmd'[j].shared
  <2>1. CASE j = k
    BY <1>6, <1>7, <1>8, <1>13, <2>1
  <2>2. CASE j # k
    BY <1>1, <1>9, <1>13, <2>2 DEF Aware
  <2>3. QED
    BY <2>1, <2>2
<1>14. Aware'
  BY <1>12, <1>13 DEF Aware
<1>15. QED
  BY <1>7, <1>8, <1>9, <1>10, <1>14

\* A command starts: a Connect takes its connections from those that were
\* closed on purpose.
LEMMA StartKeeps ==
    ASSUME SessionInv, NEW k \in Command, Start(k)
    PROVE  SessionInv'
<1>1. /\ host' = host /\ mem' = mem /\ disk' = disk /\ writes' = writes /\ folders' = folders
      /\ added' = added /\ suspended' = suspended /\ up' = up /\ trying' = trying
      /\ known' = known /\ host = "up" /\ cmd[k] = NoCmd /\ flags' = flags
  BY DEF Start, flags, pool
<1>2. PICK kind \in {"connect", "disconnect"}, s \in SeqOf(known, 2) :
          /\ s # <<>> /\ cmd' = Started(k, kind, s)
          /\ intended' = IF kind = "connect" THEN intended \ ToSet(s) ELSE intended
  BY DEF Start
<1>3. SessionTypes /\ known \in SUBSET Conn
  BY DEF SessionInv, SessionTypes
<1>4. s \in Seq(Conn)
  BY <1>3, ShortSequences
<1>5. /\ cmd' \in [Command -> Running] /\ \A j \in Command : WellFormed(cmd'[j])
      /\ cmd'[k].kind = kind /\ cmd'[k].pc = "item" /\ cmd'[k].todo = s /\ cmd'[k].got = <<>>
      /\ \A j \in Command \ {k} :
            /\ cmd'[j].kind = cmd[j].kind /\ cmd'[j].pc = cmd[j].pc
            /\ cmd'[j].todo = cmd[j].todo /\ cmd'[j].got = cmd[j].got
            /\ cmd[j].shared => cmd'[j].shared
      /\ Aware'
  BY <1>1, <1>2, <1>4, StartedFormed
<1>6. SessionTypes' /\ HoldsNothing'
  BY <1>1, <1>2, <1>3, <1>5 DEF SessionTypes, HoldsNothing
<1>7. FlagsStored'
  <2>1. CutsWait
    BY <1>1, <1>5 DEF CutsWait, NoCmd
  <2>2. QED
    BY <1>1, <2>1, FlagsKept DEF SessionInv
<1>8. Cutting'
  BY <1>1, <1>5 DEF SessionInv, Cutting, Cur, Firm
<1>9. ASSUME NEW c \in intended' PROVE Closed(c)'
  <2>1. c \in intended /\ Closed(c)
    BY <1>2, <1>9 DEF SessionInv
  <2>2. ASSUME NEW j \in Command, cmd'[j].kind = "connect", Uses(j, c)' PROVE FALSE
    <3>1. CASE j = k
      <4>1. c \in ToSet(s)
        BY <1>5, <2>2, <3>1, NoCmdFormed DEF Uses, NoCmd
      <4>2. QED
        BY <1>2, <1>5, <1>9, <2>2, <3>1, <4>1
    <3>2. CASE j # k
      BY <1>5, <2>1, <2>2, <3>2 DEF Closed, Touched, Uses
    <3>3. QED
      BY <3>1, <3>2
  <2>3. ~Touched(c)'
    BY <1>1, <2>1, <2>2 DEF Touched, Closed
  <2>4. QED
    BY <1>1, <2>1, <2>3 DEF Closed, Firm
<1>10. QED
  BY <1>5, <1>6, <1>7, <1>8, <1>9 DEF SessionInv

\* activate() reads the flags from the workspace state and suspends who has
\* one; the folders are connected, and who was closed on purpose has none.
LEMMA ActivateKeeps ==
    ASSUME SessionInv, Activate
    PROVE  SessionInv'
<1>1. SessionTypes /\ host = "down" /\ HoldsNothing
  BY DEF Activate, SessionInv
<1>2. /\ writes = <<>> /\ added = {} /\ up = {} /\ trying = {}
      /\ cmd = [k \in Command |-> NoCmd]
  BY <1>1 DEF HoldsNothing
<1>3. /\ host' = "up" /\ disk' = mem' /\ suspended' = mem' /\ writes' = writes
      /\ folders' = folders /\ added' = added /\ up' = up /\ known' = known /\ cmd' = cmd
      /\ intended' = intended /\ trying' \subseteq ToSet(folders) \cap known
      /\ mem' \subseteq disk /\ (disk \cap known) \ ToSet(folders) \subseteq mem'
  BY DEF Activate
<1>4. SessionTypes' /\ HoldsNothing'
  BY <1>1, <1>3 DEF SessionTypes, HoldsNothing
<1>5. DOMAIN writes = {}
  <2>1. writes \in Seq(Update) /\ Len(<<>>) = 0
    BY <1>1, EmptySeq DEF SessionTypes
  <2>2. DOMAIN writes = 1 .. Len(writes)
    BY <2>1, LenProperties
  <2>3. QED
    BY <1>2, <2>1, <2>2
<1>6. \A c \in mem' : Firm(c)'
  BY <1>3, <1>5 DEF Firm
<1>7. FlagsStored'
  BY <1>6 DEF FlagsStored
<1>8. \A k \in Command : cmd'[k] = NoCmd
  BY <1>2, <1>3
<1>9. Aware' /\ Cutting'
  BY <1>2, <1>3, <1>8, NoCmdFormed DEF Aware, Cutting, Uses, NoCmd
<1>10. ASSUME NEW c \in intended' PROVE Closed(c)'
  <2>1. Closed(c)
    BY <1>3, <1>10 DEF SessionInv
  <2>2. ~Touched(c)'
    BY <1>2, <1>3, <1>8 DEF Touched, NoCmd
  <2>3. c \in known => c \in mem'
    BY <1>3, <2>1 DEF Closed, Firm
  <2>4. QED
    BY <1>2, <1>3, <1>6, <2>1, <2>2, <2>3 DEF Closed
<1>11. QED
  BY <1>4, <1>7, <1>9, <1>10 DEF SessionInv

\* The invariant holds of a host that has just started.
LEMMA SessionStart == Init => SessionInv /\ SpacesInv
<1> SUFFICES ASSUME Init PROVE SessionInv /\ SpacesInv
  OBVIOUS
<1>1. folders \in Seq(Conn)
  BY ShortSequences DEF Init
<1>2. /\ host = "up" /\ mem = {} /\ disk = {} /\ writes = <<>> /\ added = {}
      /\ suspended = {} /\ up = {} /\ trying = {} /\ known = Conn /\ intended = {}
      /\ cmd = [k \in Command |-> NoCmd]
  BY DEF Init
<1>3. \A k \in Command : cmd[k] = NoCmd
  BY <1>2
<1>4. SessionTypes
  BY <1>1, <1>2, <1>3, NoCmdFormed, EmptySeq DEF SessionTypes
<1>5. Aware /\ Cutting
  BY <1>2, <1>3, NoCmdFormed DEF Aware, Cutting, Uses, NoCmd
<1>6. SpacesInv
  <2>1. LeftClosed(Blank)
    BY EmptySeq DEF LeftClosed, Blank
  <2>2. QED
    BY <2>1 DEF Init, SpacesInv, Workspace
<1>7. QED
  BY <1>2, <1>4, <1>5, <1>6 DEF SessionInv, HoldsNothing, FlagsStored

\* Every step keeps the invariant.
LEMMA SessionKept == SessionInv /\ SpacesInv /\ [Next]_vars => SessionInv'
<1> SUFFICES ASSUME SessionInv, SpacesInv, [Next]_vars PROVE SessionInv'
  OBVIOUS
<1>1. CASE UNCHANGED vars
  <2>1. /\ host' = host /\ mem' = mem /\ disk' = disk /\ writes' = writes /\ folders' = folders
        /\ added' = added /\ suspended' = suspended /\ up' = up /\ trying' = trying
        /\ known' = known /\ cmd' = cmd /\ intended' = intended
    BY <1>1 DEF vars, flags, pool, counts, ghost
  <2>2. SessionTypes' /\ HoldsNothing' /\ Aware'
    BY <2>1 DEF SessionInv, SessionTypes, HoldsNothing, Aware, Uses
  <2>3. FlagsStored' /\ Cutting'
    BY <2>1 DEF SessionInv, FlagsStored, Cutting, Firm, Awaited, Cur
  <2>4. \A c \in intended' : Closed(c)'
    BY <2>1 DEF SessionInv, Closed, Firm, Touched, Uses
  <2>5. QED
    BY <2>2, <2>3, <2>4 DEF SessionInv
<1>2. CASE Next /\ host = "up" /\ host' = "down"
  BY <1>2, RestartKeeps
<1>3. CASE Next /\ ~(host = "up" /\ host' = "down")
  <2>1. ASSUME NEW k \in Command,
               \/ ConnectItem(k) \/ ConnectReached(k) \/ ConnectSaved(k)
               \/ ConnectRefused(k) \/ UnfoldFails(k) \/ PlaceFails(k)
        PROVE  SessionInv'
    <3>1. host = "up" /\ intended' = intended
      BY <2>1 DEF ConnectItem, ConnectReached, ConnectSaved, ConnectRefused, UnfoldFails,
                  PlaceFails, At, ghost
    <3>2. QED
      BY <2>1, <3>1, ConnectItemEffect, ConnectReachedEffect, ConnectSavedEffect,
         ConnectRefusedEffect, UnfoldFailsEffect, PlaceFailsEffect, QuietKeeps
  <2>2. ASSUME NEW k \in Command, Place(k) \/ Unfold(k) PROVE SessionInv'
    <3>1. host = "up" /\ host' \in {"up", "down"}
      BY <2>2 DEF Place, Unfold, At, GoDown, Dies
    <3>2. host' = "up"
      BY <1>3, <3>1
    <3>3. CASE Place(k)
      <4>1. intended' = intended
        BY <3>3 DEF Place
      <4>2. QED
        BY <3>1, <3>2, <3>3, <4>1, PlaceEffect, QuietKeeps
    <3>4. CASE Unfold(k)
      BY <3>2, <3>4, UnfoldKeeps
    <3>5. QED
      BY <2>2, <3>3, <3>4
  <2>3. ASSUME NEW k \in Command, Start(k) \/ DisconnectItem(k) \/ Cut(k) PROVE SessionInv'
    BY <2>3, StartKeeps, DisconnectItemKeeps, CutKeeps
  <2>4. ASSUME NEW c \in Conn,
               AttemptEnds(c) \/ Background(c) \/ LinkLost(c) \/ DeleteConnection(c)
        PROVE  SessionInv'
    <3>1. host = "up"
      BY <2>4 DEF AttemptEnds, Background, LinkLost, DeleteConnection, SessionInv,
                  SessionTypes, HoldsNothing
    <3>2. intended' \subseteq intended
      BY <2>4 DEF AttemptEnds, Background, LinkLost, DeleteConnection, ghost
    <3>3. QED
      BY <2>4, <3>1, <3>2, AttemptEndsEffect, PoolEffect, DeleteEffect, QuietKeeps
  <2>5. ASSUME NEW c \in Conn, UserAddsFolder(c) PROVE SessionInv'
    <3>1. ~(folders = <<>> /\ host = "up")
      BY <1>3, <2>5 DEF UserAddsFolder, GoDown, Dies
    <3>2. flags' = flags
      BY <2>5, <3>1 DEF UserAddsFolder
    <3>3. QED
      BY <2>5, <3>1, <3>2, UserAddsEffect, QuietKeeps
  <2>6. CASE Flush \/ FoldersChanged \/ SetLocked
    <3>1. host = "up" /\ intended' = intended
      BY <2>6 DEF Flush, FoldersChanged, SetLocked, ghost
    <3>2. QED
      BY <2>6, <3>1, FlushEffect, FoldersChangedEffect, SetLockedEffect, QuietKeeps
  <2>7. ~Reload /\ \A k \in Command : ~PlaceInFile(k)
    BY <1>3 DEF Reload, PlaceInFile, Reopen, Dies, At
  <2>8. QED
    BY <1>3, <2>1, <2>2, <2>3, <2>4, <2>5, <2>6, <2>7, ActivateKeeps DEF Next
<1>4. QED
  BY <1>1, <1>2, <1>3

\* Steps in the open workspace leave the others alone, and one that deletes a
\* connection takes it from all.
LEMMA SpacesKept == SessionInv /\ SpacesInv /\ [Next]_vars => SpacesInv'
<1> SUFFICES ASSUME SessionInv, SpacesInv, [Next]_vars PROVE SpacesInv'
  OBVIOUS
<1>1. CASE UNCHANGED <<spaces, known>>
  BY <1>1 DEF SpacesInv, LeftClosed, spaces
<1>2. ASSUME NEW k \in Command,
             \/ Start(k) \/ ConnectItem(k) \/ ConnectReached(k) \/ ConnectSaved(k)
             \/ ConnectRefused(k) \/ Place(k) \/ PlaceFails(k)
             \/ DisconnectItem(k) \/ Cut(k) \/ Unfold(k) \/ UnfoldFails(k)
      PROVE  UNCHANGED <<spaces, known>>
  BY <1>2 DEF Start, ConnectItem, ConnectReached, ConnectSaved, ConnectRefused, Place,
              PlaceFails, DisconnectItem, Cut, Unfold, UnfoldFails, GoDown
<1>3. ASSUME NEW c \in Conn,
             AttemptEnds(c) \/ Background(c) \/ LinkLost(c) \/ UserAddsFolder(c)
      PROVE  UNCHANGED <<spaces, known>>
  BY <1>3 DEF AttemptEnds, Background, LinkLost, UserAddsFolder, GoDown
<1>4. CASE Flush \/ FoldersChanged \/ SetLocked \/ Activate
  <2>1. UNCHANGED <<spaces, known>>
    BY <1>4 DEF Flush, FoldersChanged, SetLocked, Activate, StoreChanged, spaces
  <2>2. QED
    BY <1>1, <2>1
<1>5. CASE \E c \in Conn : DeleteConnection(c)
  <2>1. PICK c \in Conn : DeleteConnection(c)
    BY <1>5
  <2>2. /\ parked' = [w \in Workspace |-> [parked[w] EXCEPT !.intended = @ \ {c}]]
        /\ open' = open /\ known' = known \ {c}
    BY <2>1 DEF DeleteConnection, StoreChanged
  <2>3. ASSUME NEW w \in Workspace
        PROVE  /\ parked'[w] \in [disk : SUBSET Conn, folders : Seq(Conn),
                                  intended : SUBSET Conn]
               /\ \A d \in parked'[w].intended :
                     /\ d \notin ToSet(parked'[w].folders)
                     /\ d \in known' => d \in parked'[w].disk
    <3>1. LeftClosed(parked[w])
      BY DEF SpacesInv
    <3>2. parked'[w] = [parked[w] EXCEPT !.intended = parked[w].intended \ {c}]
      BY <2>2
    <3>3. QED
      BY <2>2, <3>1, <3>2 DEF LeftClosed
  <2>4. open' \in Workspace /\ parked' = [w \in Workspace |-> parked'[w]]
    BY <2>2 DEF SpacesInv
  <2>5. QED
    BY <2>3, <2>4 DEF SpacesInv, LeftClosed
<1>6. CASE Reload
  <2>1. PICK w \in Workspace : Reopen(w, <<>>)
    BY <1>6 DEF Reload
  <2>2. <<>> \in Seq(Conn) /\ known' = known
    BY <1>6, EmptySeq DEF Reload
  <2>3. QED
    BY <2>1, <2>2, ReopenFacts
<1>7. CASE \E k \in Command : PlaceInFile(k)
  <2>1. PICK k \in Command : PlaceInFile(k)
    BY <1>7
  <2>2. PICK w \in File : Reopen(w, New(k))
    BY <2>1 DEF PlaceInFile
  <2>3. w \in Workspace /\ known' = known
    BY <2>1 DEF Workspace, PlaceInFile
  <2>4. cmd[k].got \in Seq(Conn)
    BY DEF SessionInv, SessionTypes, Running
  <2>5. New(k) \in Seq(Conn)
    BY <2>4, KeptFacts DEF New
  <2>6. QED
    BY <2>2, <2>3, <2>5, ReopenFacts
<1>8. CASE UNCHANGED vars
  BY <1>1, <1>8 DEF vars
<1>9. QED
  BY <1>1, <1>2, <1>3, <1>4, <1>5, <1>6, <1>7, <1>8 DEF Next

\* Both together.
LEMMA InvKept == (SessionInv /\ SpacesInv) /\ [Next]_vars => (SessionInv /\ SpacesInv)'
BY SessionKept, SpacesKept

\* Whatever the commands, the folder events, the locks of the store and the
\* restarts do at once: a connection that Disconnect closed in a workspace,
\* with no Connect of it meanwhile or since, is not connected in the background
\* of that workspace, also when a Connect has opened another one meanwhile.
\* (extension.ts:404-466, 744-912; CHANGELOG.md:59)
THEOREM StaysDisconnectedCorrect == Spec => []StaysDisconnected
<1>1. SessionInv => StaysDisconnected
  BY DEF SessionInv, Closed, StaysDisconnected
<1>2. QED
  BY <1>1, SessionStart, InvKept, PTL DEF Spec

\* The flag of a manual disconnect outlives the window: it is in the workspace
\* state whichever of the writes on their way is the last to arrive, or the
\* Disconnect that set it is still waiting for its write before it closes
\* anything. (extension.ts:404-466, 864-912)
THEOREM FlagsStoredCorrect == Spec => []FlagsStored
<1>1. SessionInv => FlagsStored
  BY DEF SessionInv
<1>2. QED
  BY <1>1, SessionStart, InvKept, PTL DEF Spec

LEMMA LockedKept == locked \in BOOLEAN /\ [Next]_vars => locked' \in BOOLEAN
<1> SUFFICES ASSUME locked \in BOOLEAN, [Next]_vars PROVE locked' \in BOOLEAN
  OBVIOUS
<1>1. CASE \E k \in Command :
              \/ Start(k) \/ ConnectItem(k) \/ ConnectReached(k) \/ ConnectSaved(k)
              \/ ConnectRefused(k) \/ Place(k) \/ PlaceInFile(k) \/ PlaceFails(k)
              \/ DisconnectItem(k) \/ Cut(k) \/ Unfold(k) \/ UnfoldFails(k)
  BY <1>1 DEF Start, ConnectItem, ConnectReached, ConnectSaved, ConnectRefused, Place,
              PlaceInFile, PlaceFails, DisconnectItem, Cut, Unfold, UnfoldFails
<1>2. CASE \E c \in Conn : AttemptEnds(c) \/ Background(c) \/ LinkLost(c) \/ DeleteConnection(c)
                          \/ UserAddsFolder(c)
  BY <1>2 DEF AttemptEnds, Background, LinkLost, DeleteConnection, UserAddsFolder, StoreChanged
<1>3. CASE Flush \/ FoldersChanged \/ SetLocked \/ Reload \/ Activate
  BY <1>3 DEF Flush, FoldersChanged, SetLocked, Reload, Activate, StoreChanged
<1>4. CASE UNCHANGED vars
  BY <1>4 DEF vars
<1>5. QED
  BY <1>1, <1>2, <1>3, <1>4 DEF Next

\* Every field has its values: what is flagged, written, suspended or connected
\* is a connection, whatever commands and restarts overlap.
\* (extension.ts:404-466, 744-912)
THEOREM TypeCorrect == Spec => []TypeOK
<1> DEFINE Inv == (SessionInv /\ SpacesInv) /\ locked \in BOOLEAN
<1>1. Init => Inv
  BY SessionStart DEF Init
<1>2. Inv /\ [Next]_vars => Inv'
  BY InvKept, LockedKept
<1>3. Inv => TypeOK
  <2> SUFFICES ASSUME SessionTypes, SpacesInv, locked \in BOOLEAN PROVE TypeOK
    BY DEF SessionInv
  <2>1. ToSet(folders) \subseteq Conn
    BY ElementOfSeq, LenProperties DEF SessionTypes, ToSet
  <2>2. \A i \in DOMAIN writes : writes[i].ids \subseteq Conn
    <3>1. \A i \in DOMAIN writes : writes[i] \in Update
      BY ElementOfSeq, LenProperties DEF SessionTypes
    <3>2. QED
      BY <3>1 DEF Update
  <2>3. \A k \in Command : cmd[k].kind \in {"none", "connect", "disconnect"} /\ cmd[k].pc \in Pcs
    BY DEF SessionTypes, Running
  <2>4. \A w \in Workspace : /\ parked[w].disk \subseteq Conn
                             /\ ToSet(parked[w].folders) \subseteq Conn
    BY ElementOfSeq, LenProperties DEF SpacesInv, LeftClosed, ToSet
  <2>5. QED
    BY <2>1, <2>2, <2>3, <2>4 DEF SessionTypes, SpacesInv, TypeOK, Pcs
<1> HIDE DEF Inv
<1>4. QED
  BY <1>1, <1>2, <1>3, PTL DEF Spec
=============================================================================
