----------------------------- MODULE ChatServer -----------------------------
(***************************************************************************)
(* The chat server of a2/: server.c with its registry (list.c) and its     *)
(* container of partial messages (container.c, messagebuffer.c).  One      *)
(* thread discards stale partial messages, waits in select, and reads and  *)
(* handles what has arrived, message by message.                           *)
(*                                                                         *)
(* On the wire a message is a header, followed by a body when its length   *)
(* is not zero.  Headers arrive whole here (MessageFraming is about the    *)
(* ones that do not) and a body has the size of a header, so that a buffer *)
(* can swallow a header in the place of a missing body.                    *)
(***************************************************************************)
EXTENDS ClientList, FiniteSets

CONSTANTS
  Clients,      \* the people who connect
  IDs,          \* the identifiers in use; EmptyID is the empty string
  EmptyID,
  Messages,     \* the headers the clients send: [type, source, dest, body]
  MaxFd,        \* bound: descriptors 4..MaxFd for client sockets
  MaxConnects,  \* bound: connections made in a behaviour
  MaxSent,      \* bound: messages sent in a behaviour
  NoClient,
  Nothing

ListenFd == 3
Fds == 4..MaxFd
NoFd == 0

Types == {"HELLO", "LIST_REQUEST", "CHAT", "EXIT", "INVALID"}

ASSUME ClientAssumption == NoClient \notin Clients
ASSUME IDAssumption == EmptyID \notin IDs
ASSUME MessageAssumption ==
  Messages \subseteq [type : Types, source : IDs \cup {EmptyID},
                      dest : IDs \cup {EmptyID}, body : BOOLEAN]
ASSUME BoundAssumption ==
  MaxFd \in Nat /\ MaxFd > ListenFd /\ MaxConnects \in Nat /\ MaxSent \in Nat

\* Cells on the wire that are no header; Text is also the partial message
\* that never completes, see Store.
Text == [type |-> "TEXT", source |-> EmptyID, dest |-> EmptyID, body |-> TRUE]
Cells == Messages \cup {Text}

VARIABLES
  step,       \* "top", "select", "serve", "handle" or "crashed"
  ready,      \* what is left of temp_set in the service loop
  current,    \* the descriptor whose data is handled
  data,       \* what handle has still to process of the last read
  clientIDs,  \* the registry: List of [id, fd]
  container,  \* the partial message of each descriptor, or Nothing
  master,     \* master_set: descriptors are added, never removed
  fdmax,
  peer,       \* the client at the other end of each descriptor
  gone,       \* descriptors whose peer has closed its end
  inbox,      \* cells received and not read
  stale,      \* descriptors whose partial message is 60 seconds old
  backlog,    \* connections waiting for accept
  connects,   \* connections made so far
  sent,       \* messages sent so far
  passed      \* history: [source, dest] of the chat the last step forwarded

vars == <<step, ready, current, data, clientIDs, container, master, fdmax, peer,
          gone, inbox, stale, backlog, connects, sent, passed>>

Open == {fd \in Fds : peer[fd] # NoClient}

\* Descriptors in master_set that are closed: select fails with EBADF.
Dangling == (master \ {ListenFd}) \ Open

Readable == {fd \in Open : inbox[fd] # <<>> \/ fd \in gone}

CloseSockets(fds) ==
  /\ peer' = [fd \in Fds |-> IF fd \in fds THEN NoClient ELSE peer[fd]]
  /\ gone' = gone \ fds
  /\ inbox' = [fd \in Fds |-> IF fd \in fds THEN <<>> ELSE inbox[fd]]

-----------------------------------------------------------------------------
(* The handlers, as the set of their possible outcomes: the registry       *)
(* afterwards, the descriptors closed, the chat forwarded, and the cells   *)
(* written, all of them to one descriptor.                                 *)

Outcome(list, closed) ==
  [list |-> list, closed |-> closed, passed |-> Nothing, to |-> NoFd, cells |-> <<>>]

Writing(outcome, fd, cells) == [outcome EXCEPT !.to = fd, !.cells = cells]

\* The second write to a peer that is gone fails, the first may succeed.
WriteFails(fd) ==
  CASE fd \notin Open -> {TRUE} [] fd \in gone -> BOOLEAN [] OTHER -> {FALSE}

\* Faulty variant: the record stays.
removeClientOnlyCloses(list, clientID, fd) == Outcome(list, {fd})

removeClient(list, clientID, fd) == Outcome(List_remove(list, clientID), {fd})

\* Writes to fd on behalf of clientID, with validateWrite after each.
Written(list, clientID, fd, cells) ==
  {IF failed THEN removeClient(list, clientID, fd)
   ELSE Writing(Outcome(list, {}), fd, cells) : failed \in WriteFails(fd)}

client_list(list, clientID, fd) == Written(list, clientID, fd, <<"CLIENT_LIST", "IDS">>)

client_present(list, clientID, fd) ==
  IF List_getFD(list, clientID) = fd
  THEN {removeClient(list, clientID, fd)}
  ELSE {Writing(Outcome(list, {fd}), fd, <<"CLIENT_PRESENT">>)}

\* A new client is sent HELLO_ACK and then the list it is on.
Register(list, clientID, fd) ==
  {[o EXCEPT !.cells = <<"HELLO_ACK">> \o @] :
     o \in client_list(List_add(list, clientID, fd), clientID, fd)}

\* Faulty variants: an empty identifier registers; one in use registers again.
helloAnyName(list, m, fd) ==
  IF List_contains_id(list, m.source) THEN client_present(list, m.source, fd)
  ELSE Register(list, m.source, fd)
helloNoCheck(list, m, fd) ==
  IF m.source = EmptyID THEN {removeClient(list, m.source, fd)}
  ELSE Register(list, m.source, fd)

hello(list, m, fd) ==
  IF m.source = EmptyID THEN {removeClient(list, m.source, fd)}
  ELSE IF List_contains_id(list, m.source) THEN client_present(list, m.source, fd)
  ELSE Register(list, m.source, fd)

\* Faulty variant: every sender is who it claims to be.
authenticateNone(list, clientID, fd) == TRUE
authenticate(list, clientID, fd) ==
  List_contains_id(list, clientID) /\ List_getFD(list, clientID) = fd

\* Faulty variants: the chat is written to its sender; the text goes first.
chatBack(list, m, fd) ==
  {[o EXCEPT !.passed = <<m.source, m.dest>>] :
     o \in Written(list, m.source, fd, <<"CHAT", "TEXT">>)}

chatTextFirst(list, m, fd) ==
  {[o EXCEPT !.passed = <<m.source, m.dest>>] :
     o \in Written(list, m.dest, List_getFD(list, m.dest), <<"TEXT", "CHAT">>)}

chat(list, m, fd) ==
  IF m.source = m.dest THEN {removeClient(list, m.source, fd)}
  ELSE IF List_contains_id(list, m.dest)
  THEN {[o EXCEPT !.passed = <<m.source, m.dest>>] :
          o \in Written(list, m.dest, List_getFD(list, m.dest),
                        IF m.body THEN <<"CHAT", "TEXT">> ELSE <<"EMPTY_CHAT">>)}
  ELSE {Writing(removeClient(list, m.source, fd), fd, <<"CANNOT_DELIVER">>)}

\* A message of a type that clients do not send, or too long, is malformed.
validateHeader(m) == m.type \in {"HELLO", "LIST_REQUEST", "CHAT", "EXIT"}

authenticated(list, m, fd) ==
  CASE m.type = "LIST_REQUEST" -> client_list(list, m.source, fd)
    [] m.type = "CHAT" -> chat(list, m, fd)
    [] m.type = "EXIT" -> {Outcome(List_remove(list, m.source), {})}

process(list, m, fd) ==
  CASE ~validateHeader(m) -> {removeClient(list, m.source, fd)}
    [] m.type = "HELLO" -> hello(list, m, fd)
    [] OTHER -> IF authenticate(list, m.source, fd) THEN authenticated(list, m, fd)
                ELSE {removeClient(list, m.source, fd)}

-----------------------------------------------------------------------------
(* start_server's loop *)

\* Container_discardStale: each stale partial message goes, with the record of
\* its descriptor and the connection.  A descriptor without record has the
\* identifier NULL, which List_remove survives only if the list is empty.
DiscardStale ==
  /\ step = "top"
  /\ \E fd \in stale :
       \/ /\ List_contains_fd(clientIDs, fd) \/ clientIDs = <<>>
          /\ clientIDs' = List_remove(clientIDs, List_getClientID(clientIDs, fd))
          /\ container' = [container EXCEPT ![fd] = Nothing]
          /\ CloseSockets({fd})
          /\ stale' = stale \ {fd}
          /\ UNCHANGED step
       \/ /\ ~List_contains_fd(clientIDs, fd) /\ clientIDs # <<>>
          /\ step' = "crashed"
          /\ UNCHANGED <<clientIDs, container, peer, gone, inbox, stale>>
  /\ passed' = Nothing
  /\ UNCHANGED <<ready, current, data, master, fdmax, backlog, connects, sent>>

NothingStale ==
  /\ step = "top" /\ stale = {}
  /\ step' = "select"
  /\ passed' = Nothing
  /\ UNCHANGED <<ready, current, data, clientIDs, container, master, fdmax, peer,
                 gone, inbox, stale, backlog, connects, sent>>

max(a, b) == IF a > b THEN a ELSE b

\* accept is reached when select reports a pending connection, and when select
\* fails: temp_set still holds the listening socket then, and accept waits.
Accept ==
  /\ step = "select" /\ backlog # <<>>
  /\ \/ \E fd \in Fds \ Open :
          /\ \A g \in Fds \ Open : fd <= g
          /\ peer' = [peer EXCEPT ![fd] = Head(backlog)]
          /\ master' = master \cup {fd}
          /\ fdmax' = max(fd, fdmax)
     \/ UNCHANGED <<peer, master, fdmax>>   \* accept fails
  /\ backlog' = Tail(backlog)
  /\ step' = "top"
  /\ UNCHANGED <<ready, current, data, clientIDs, container, gone, inbox, stale,
                 connects, sent, passed>>

\* Faulty variant: the service loop stops before fdmax.
ReadyBelowFdmax == {fd \in Readable \cap master : fd < fdmax}
\* What is left of master_set in temp_set, up to fdmax.
ReadyNow == {fd \in Readable \cap master : fd <= fdmax}

SelectFails == Dangling # {}

Select ==
  /\ step = "select" /\ backlog = <<>> /\ ~SelectFails
  /\ ready' = ReadyNow
  /\ ready' # {}
  /\ step' = "serve"
  /\ UNCHANGED <<current, data, clientIDs, container, master, fdmax, peer, gone,
                 inbox, stale, backlog, connects, sent, passed>>

\* One descriptor of the service loop: read takes what has arrived of the
\* queue.  At end of file, and from a socket closed in this loop, it takes
\* nothing, and nothing is done about it.
Read(fd) ==
  /\ step = "serve" /\ fd \in ready /\ \A g \in ready : fd <= g
  /\ ready' = ready \ {fd}
  /\ \/ /\ inbox[fd] # <<>>
        /\ \E n \in 1..Len(inbox[fd]) :
             /\ data' = SubSeq(inbox[fd], 1, n)
             /\ inbox' = [inbox EXCEPT ![fd] = SubSeq(@, n + 1, Len(@))]
        /\ current' = fd
        /\ step' = "handle"
     \/ /\ inbox[fd] = <<>>
        /\ step' = IF ready' = {} THEN "top" ELSE "serve"
        /\ UNCHANGED <<current, data, inbox>>
  /\ passed' = Nothing
  /\ UNCHANGED <<clientIDs, container, master, fdmax, peer, gone, stale, backlog,
                 connects, sent>>

\* handle returns when no data is left.
Advance(rest) ==
  /\ data' = rest
  /\ current' = IF rest = <<>> THEN NoFd ELSE current
  /\ step' = IF rest # <<>> THEN "handle" ELSE IF ready = {} THEN "top" ELSE "serve"
  /\ UNCHANGED <<ready, master, fdmax, backlog, connects, sent>>

\* handle stores what is no complete message.  Text read as a header announces
\* a length of at least 16^7 and takes in whatever follows.
Store ==
  LET buffered == container[current]
      cell == Head(data)
      kept == IF buffered # Nothing THEN buffered ELSE cell
  IN /\ step = "handle"
     /\ kept = Text \/ (buffered = Nothing /\ cell.body /\ Len(data) = 1)
     /\ container' = [container EXCEPT ![current] = kept]
     /\ stale' = stale \ {current}
     /\ passed' = Nothing
     /\ Advance(<<>>)
     /\ UNCHANGED <<clientIDs, peer, gone, inbox>>

\* The message that handle has completed and what is left of the data: the
\* stored header takes the next cell for its body, whatever it is.
Completed ==
  LET buffered == container[current]
  IN IF buffered # Nothing THEN [message |-> buffered, rest |-> Tail(data)]
     ELSE [message |-> Head(data),
           rest |-> SubSeq(data, IF Head(data).body THEN 3 ELSE 2, Len(data))]

\* handle completes a message, processes it and removes its buffer.
MessageComplete ==
  /\ step = "handle"
  /\ Completed.message # Text
  /\ container[current] = Nothing /\ Completed.message.body => Len(data) >= 2

ProcessWith(outcome) ==
  /\ clientIDs' = outcome.list
  /\ CloseSockets(outcome.closed)
  /\ passed' = outcome.passed
  /\ container' = [container EXCEPT ![current] = Nothing]
  /\ stale' = stale \ {current}
  /\ Advance(Completed.rest)

Process ==
  /\ MessageComplete
  /\ \E o \in process(clientIDs, Completed.message, current) : ProcessWith(o)

-----------------------------------------------------------------------------
(* The clients, their network and the clock *)

serverVars == <<step, ready, current, data, clientIDs, container, master, fdmax>>

Connected(c) == (\E i \in 1..Len(backlog) : backlog[i] = c)
                \/ (\E fd \in Fds \ gone : peer[fd] = c)

Connect(c) ==
  /\ step # "crashed"
  /\ ~Connected(c) /\ connects < MaxConnects
  /\ Cardinality(Open) + Len(backlog) < Cardinality(Fds)
  /\ backlog' = Append(backlog, c)
  /\ connects' = connects + 1
  /\ passed' = Nothing
  /\ UNCHANGED <<serverVars, peer, gone, inbox, stale, sent>>

Send(fd, m) ==
  /\ step # "crashed"
  /\ fd \in Open \ gone /\ sent < MaxSent
  /\ inbox' = [inbox EXCEPT ![fd] = @ \o IF m.body THEN <<m, Text>> ELSE <<m>>]
  /\ sent' = sent + 1
  /\ passed' = Nothing
  /\ UNCHANGED <<serverVars, peer, gone, stale, backlog, connects>>

Disconnect(fd) ==
  /\ step # "crashed"
  /\ fd \in Open \ gone
  /\ gone' = gone \cup {fd}
  /\ passed' = Nothing
  /\ UNCHANGED <<serverVars, peer, inbox, stale, backlog, connects, sent>>

\* A partial message has waited for 60 seconds.
Age(fd) ==
  /\ step # "crashed"
  /\ container[fd] # Nothing /\ fd \notin stale
  /\ stale' = stale \cup {fd}
  /\ passed' = Nothing
  /\ UNCHANGED <<serverVars, peer, gone, inbox, backlog, connects, sent>>

-----------------------------------------------------------------------------
Init ==
  /\ step = "top" /\ ready = {} /\ current = NoFd /\ data = <<>>
  /\ clientIDs = List_new
  /\ container = [fd \in Fds |-> Nothing] /\ stale = {}
  /\ master = {ListenFd} /\ fdmax = ListenFd
  /\ peer = [fd \in Fds |-> NoClient] /\ gone = {}
  /\ inbox = [fd \in Fds |-> <<>>] /\ backlog = <<>>
  /\ connects = 0 /\ sent = 0 /\ passed = Nothing

Server ==
  \/ DiscardStale \/ NothingStale \/ Accept \/ Select \/ Store \/ Process
  \/ \E fd \in Fds : Read(fd)

Environment ==
  \/ \E c \in Clients : Connect(c)
  \/ \E fd \in Fds, m \in Messages : Send(fd, m)
  \/ \E fd \in Fds : Disconnect(fd) \/ Age(fd)

Next == Server \/ Environment

Spec == Init /\ [][Next]_vars

\* The server runs whenever it is not blocked in select or accept.
FairSpec == Spec /\ WF_vars(Server)

-----------------------------------------------------------------------------
(* Safety *)

TypeOK ==
  /\ step \in {"top", "select", "serve", "handle", "crashed"}
  /\ ready \subseteq Fds /\ current \in Fds \cup {NoFd} /\ data \in Seq(Cells)
  /\ clientIDs \in Seq([id : IDs, fd : Fds])
  /\ container \in [Fds -> Cells \cup {Nothing}] /\ stale \subseteq Fds
  /\ master \subseteq Fds \cup {ListenFd} /\ fdmax \in Fds \cup {ListenFd}
  /\ peer \in [Fds -> Clients \cup {NoClient}] /\ gone \subseteq Open
  /\ inbox \in [Fds -> Seq(Cells)] /\ backlog \in Seq(Clients)
  /\ connects \in Nat /\ sent \in Nat /\ passed \in (IDs \X IDs) \cup {Nothing}

\* An identifier is in the registry once, whatever was registered, refused,
\* removed on a failed write or swept, and through whichever descriptor.
UniqueIDs ==
  \A i, j \in 1..Len(clientIDs) : clientIDs[i].id = clientIDs[j].id => i = j

\* The promise of ChatRoom: the members are the registered identifiers.
Room == INSTANCE ChatRoom WITH
  Names <- IDs,
  members <- {clientIDs[i].id : i \in 1..Len(clientIDs)}

RoomSpec == Room!Spec

-----------------------------------------------------------------------------
(* Liveness *)

\* What has arrived on a socket is read in the end, however busy the others
\* are, unless a closed descriptor in master_set keeps the server in accept.
InputReadUnlessDangling ==
  \A fd \in Fds :
    inbox[fd] # <<>> ~> (inbox[fd] = <<>> \/ Dangling # {} \/ step = "crashed")

-----------------------------------------------------------------------------
(* What the comments say, and the code does not do *)

\* "Service all sockets with input pending" (server.c:91).
InputIsRead ==
  \A fd \in Fds : inbox[fd] # <<>> ~> (inbox[fd] = <<>> \/ step = "crashed")

=============================================================================
