----------------------------- MODULE ChatScripts -----------------------------
(***************************************************************************)
(* The chat server with the two test clients of the repository,            *)
(* clients/client_2/client2.c and clients/client_4/client4.c, which talk   *)
(* to each other: each connects, runs through a fixed list of blocking     *)
(* reads and writes, and closes.                                           *)
(*                                                                         *)
(* What one write of the server sends (a header, the identifiers, a text)  *)
(* arrives as a whole.  A client reads 50 bytes for a header, the length   *)
(* in the header for a text, and up to 400 bytes, whatever they are, for   *)
(* the list of identifiers.  A client that has ended may be started again. *)
(***************************************************************************)
EXTENDS ChatServer

CONSTANTS client2, client4, phila   \* phila is a name that nobody registers

ASSUME ScriptAssumption ==
  /\ Clients = {client2, client4} /\ client2 # client4
  /\ IDs = Clients \cup {phila} /\ phila \notin Clients

-----------------------------------------------------------------------------
(* The scripts *)

Statement(do, m) == [do |-> do, message |-> m]
Message(type, source, dest, body) ==
  [type |-> type, source |-> source, dest |-> dest, body |-> body]

\* The server does not look at the destination "Server".
sendHello(c) == <<Statement("send", Message("HELLO", c, EmptyID, FALSE))>>
sendChat(c, recipient) == <<Statement("send", Message("CHAT", c, recipient, TRUE))>>
sendExit(c) == <<Statement("send", Message("EXIT", c, EmptyID, FALSE))>>

recHelloAck ==
  <<Statement("ack", Nothing), Statement("ack", Nothing), Statement("list", Nothing)>>
recChat == <<Statement("chat", Nothing), Statement("text", Nothing)>>
closing == <<Statement("close", Nothing)>>

script2 ==
  sendHello(client2) \o recHelloAck \o recChat \o recChat
  \o sendChat(client2, client4) \o sendChat(client2, client4) \o sendChat(client2, client4)
  \o sendExit(client2) \o closing
script4 ==
  sendHello(client4) \o recHelloAck
  \o sendChat(client4, client2) \o sendChat(client4, client2) \o sendChat(client4, phila)
  \o recChat \o recChat \o recChat \o sendExit(client4) \o closing

start_client == [c \in Clients |-> IF c = client2 THEN script2 ELSE script4]

ASSUME ScriptMessageAssumption ==
  \A c \in Clients : \A i \in 1..Len(start_client[c]) :
    start_client[c][i].do = "send" => start_client[c][i].message \in Messages

-----------------------------------------------------------------------------
VARIABLES
  at,      \* statements each client has completed
  stream,  \* what the server has written to each client and it has not read
  greedy,  \* history: clients whose read of the list took more than the list
  killed   \* clients that have died of SIGPIPE or of a text taken for a header

clientVars == <<at, stream, greedy, killed>>
allVars == <<vars, clientVars>>

Running(c) == at[c] < Len(start_client[c]) /\ c \notin killed
Doing(c, do) == Running(c) /\ start_client[c][at[c] + 1].do = do

Connection(c) == {fd \in Open \ gone : peer[fd] = c}

\* The server has closed the connection or accept has lost it.
Lost(c) == Connection(c) = {} /\ ~\E i \in 1..Len(backlog) : backlog[i] = c

Continue(c, n) == at' = [at EXCEPT ![c] = @ + n]

\* What it has not read is of no use to a client that has ended.
Forget(c) == stream' = [stream EXCEPT ![c] = <<>>]
Die(c) == killed' = killed \cup {c} /\ Forget(c) /\ UNCHANGED at

\* What a read takes from the front of the stream.
Take(c, n) == stream' = [stream EXCEPT ![c] = SubSeq(@, n + 1, Len(@))]

-----------------------------------------------------------------------------
(* The server's steps *)

Delivered(outcome) ==
  [c \in Clients |-> IF outcome.to \in Connection(c) THEN stream[c] \o outcome.cells
                     ELSE stream[c]]

Answer ==
  /\ MessageComplete
  /\ \E o \in process(clientIDs, Completed.message, current) :
       ProcessWith(o) /\ stream' = Delivered(o)
  /\ UNCHANGED <<at, greedy, killed>>

OtherServerStep ==
  /\ DiscardStale \/ NothingStale \/ Accept \/ Select \/ Store \/ \E fd \in Fds : Read(fd)
  /\ UNCHANGED clientVars

ServerStep == Answer \/ OtherServerStep

-----------------------------------------------------------------------------
(* The clients' steps *)

\* A new process, with a new socket: nothing of the old stream is left.
Launch(c) ==
  /\ ~Running(c)
  /\ Connect(c)
  /\ at' = [at EXCEPT ![c] = 0]
  /\ greedy' = greedy \ {c} /\ killed' = killed \ {c}
  /\ Forget(c)

\* A statement that writes; header and text are written one after the other.
Write(c) ==
  /\ Doing(c, "send")
  /\ \E fd \in Connection(c) : Send(fd, start_client[c][at[c] + 1].message)
  /\ Continue(c, 1)
  /\ UNCHANGED <<stream, greedy, killed>>

\* Writes to a connection that the server has closed: the first ones may
\* return, a later one raises SIGPIPE, which the clients do not ignore.
WriteToNobody(c) ==
  /\ Doing(c, "send") /\ Lost(c)
  /\ \/ Continue(c, 1) /\ UNCHANGED <<stream, killed>>
     \/ Die(c)
  /\ UNCHANGED <<vars, greedy>>

\* A read of 50 bytes for a header of recHelloAck; its type is printed only.
ReadAck(c) ==
  /\ Doing(c, "ack") /\ stream[c] # <<>>
  /\ Take(c, 1)
  /\ Continue(c, 1)
  /\ UNCHANGED <<vars, greedy, killed>>

\* The read of 400 bytes takes whatever has arrived.
ReadList(c) ==
  /\ Doing(c, "list")
  /\ \E n \in 1..Len(stream[c]) :
       /\ Take(c, n)
       /\ greedy' = IF n > 1 THEN greedy \cup {c} ELSE greedy
  /\ Continue(c, 1)
  /\ UNCHANGED <<vars, killed>>

\* The header of recChat.  A length of zero makes the read of the text return
\* at once.  When a text is read as a header, the bytes that follow it may put
\* the length in the gigabytes, and the array for it kills the client.
ReadChat(c) ==
  /\ Doing(c, "chat") /\ stream[c] # <<>>
  /\ \/ /\ Head(stream[c]) \in {"CHAT", "CLIENT_LIST"}
        /\ Continue(c, 1) /\ Take(c, 1) /\ UNCHANGED killed
     \/ /\ Head(stream[c]) \notin {"CHAT", "CLIENT_LIST"}
        /\ Continue(c, 2) /\ Take(c, 1) /\ UNCHANGED killed
     \/ /\ Head(stream[c]) \in {"TEXT", "IDS"} /\ Len(stream[c]) > 1
        /\ Die(c)
  /\ UNCHANGED <<vars, greedy>>

ReadText(c) ==
  /\ Doing(c, "text") /\ stream[c] # <<>>
  /\ Take(c, 1)
  /\ Continue(c, 1)
  /\ UNCHANGED <<vars, greedy, killed>>

\* A read at end of file: the buffer stays zero and so does the length.
ReadEOF(c) ==
  /\ Running(c) /\ ~Doing(c, "send") /\ ~Doing(c, "close")
  /\ stream[c] = <<>> /\ Lost(c)
  /\ Continue(c, IF Doing(c, "chat") THEN 2 ELSE 1)
  /\ UNCHANGED <<vars, stream, greedy, killed>>

\* The end of the script, or of the process, closes the connection.
Hangup(c) ==
  /\ \/ Doing(c, "close") /\ Continue(c, 1)
     \/ c \in killed /\ ~Lost(c) /\ UNCHANGED at
  /\ IF Lost(c) THEN UNCHANGED vars ELSE \E fd \in Connection(c) : Disconnect(fd)
  /\ Forget(c)
  /\ UNCHANGED <<greedy, killed>>

ClientStep(c) ==
  \/ Write(c) \/ WriteToNobody(c) \/ ReadAck(c) \/ ReadList(c) \/ ReadChat(c)
  \/ ReadText(c) \/ ReadEOF(c) \/ Hangup(c)

-----------------------------------------------------------------------------
ScriptInit ==
  /\ Init
  /\ at = [c \in Clients |-> Len(start_client[c])]
  /\ stream = [c \in Clients |-> <<>>]
  /\ greedy = {} /\ killed = {}

ScriptNext ==
  \/ ServerStep
  \/ \E c \in Clients : Launch(c) \/ ClientStep(c)
  \/ \E fd \in Fds : Age(fd) /\ UNCHANGED clientVars

\* The server and each client run whenever they are not blocked in a system
\* call; nobody has to start a client.
ScriptSpec ==
  /\ ScriptInit /\ [][ScriptNext]_allVars
  /\ WF_allVars(ServerStep)
  /\ \A c \in Clients : WF_allVars(ClientStep(c))

-----------------------------------------------------------------------------
(* Properties *)

\* removeClient takes the record of the name in the message and the socket it
\* came from (a2/server.c:352).  Between clients that use their own names the
\* two never come apart: the descriptor of a record is open, and the client at
\* its other end is the one with that name, through refusals, failed writes,
\* stale messages, deaths and reconnections.
RecordsAreConnected ==
  \A i \in 1..Len(clientIDs) : peer[clientIDs[i].fd] = clientIDs[i].id

\* The clients' reads and the server's writes stay in step: unless the read of
\* 400 bytes has taken more than the list (client2.c:50), recChat finds a
\* header where it reads one, and a text where it reads a text.
HeadersWhereExpected ==
  \A c \in Clients \ greedy :
    /\ Doing(c, "chat") /\ stream[c] # <<>> => Head(stream[c]) \notin {"TEXT", "IDS"}
    /\ Doing(c, "text") /\ stream[c] # <<>> => Head(stream[c]) = "TEXT"

Greeted == Len(sendHello(client2) \o recHelloAck)
OnAir(c) == \E i \in 1..Len(clientIDs) : clientIDs[i].id = c /\ clientIDs[i].fd \in Connection(c)

\* What client4 sends reaches client2: if client2 waits for its first chat and
\* client4 is about to send its two, client2 has read both in the end, over its
\* living connection, although client4 is refused right after them.
ChatsAreHeard ==
  (/\ at[client2] = Greeted /\ OnAir(client2) /\ client2 \notin greedy \cup killed
   /\ at[client4] = Greeted /\ OnAir(client4) /\ client4 \notin killed
   /\ Dangling = {})
  ~> ((at[client2] = Greeted + 4 /\ ~Lost(client2)) \/ stale # {})

=============================================================================
