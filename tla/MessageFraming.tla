--------------------------- MODULE MessageFraming ---------------------------
(***************************************************************************)
(* How the chat server of a2/ cuts the byte stream of each connection into *)
(* messages: the read of start_server, handle in server.c, the container   *)
(* of partial messages (container.c, messagebuffer.c).                     *)
(*                                                                         *)
(* The stream is made of cells of 25 bytes: a header has two (the type is  *)
(* in the first, the length in the second), a body as many as the header   *)
(* announces.  A cell is named by its place in the stream: the connection, *)
(* the message and the place in the message.  What process does with a     *)
(* complete message is ChatServer's subject; here it is recorded, and may  *)
(* close a connection, the sender's or the recipient's.                    *)
(*                                                                         *)
(* A closed descriptor stays in master_set, so that select fails until it  *)
(* is open again: the server is then in accept and reads nothing.          *)
(***************************************************************************)
EXTENDS Integers, Sequences, SequencesExt

CONSTANTS
  Fds,           \* client sockets
  BodyLengths,   \* cells in the body of the k-th message of a connection
  MaxGeneration  \* bound: connections that get the same descriptor

ASSUME FdsAssumption == Fds \subseteq Nat \ {0}
ASSUME BodyAssumption == BodyLengths \in Seq(Nat)
ASSUME BoundAssumption == MaxGeneration \in Nat

NoFd == 0
HeaderSize == 2
TextLength == 100   \* what text announces in place of a length: over 2^24

VARIABLES
  step,       \* where start_server is: "top", "select", "serve", "handle",
              \* or "crashed"
  ready,      \* what is left of temp_set in the service loop
  current,    \* the descriptor whose data handle works on, or NoFd
  data,       \* what handle has still to process of the last read
  container,  \* sequence of MessageBuffers [clientFd, full_size, message]
  stale,      \* descriptors with a buffer that got nothing for 60 seconds
  open,       \* descriptors that are connected
  generation, \* connections made so far on each descriptor
  inbox,      \* cells received and not read
  sent,       \* messages sent on the current connection
  processed,  \* history: what process was called with on that connection
  disturbed   \* history: connections whose stream was not cut at its messages,
              \* since a read ended inside a header that announces a body, or
              \* since the descriptor had a buffer when it was opened

vars == <<step, ready, current, data, container, stale, open, generation, inbox, sent,
          processed, disturbed>>

Cell(gen, k, i) == [gen |-> gen, of |-> k, at |-> i]

\* The cells of the k-th message, header included.
MessageSize(k) == HeaderSize + BodyLengths[k]

MessageCells(gen, k) == [i \in 1..MessageSize(k) |-> Cell(gen, k, i)]

\* The length read at its place in the second cell.  In the first half of a
\* header that place is the zero padding of the source.
LengthIn(cell) ==
  CASE cell.at = 1 -> 0
    [] cell.at = 2 -> BodyLengths[cell.of]
    [] cell.at > HeaderSize -> TextLength

\* validateHeader: the type must be one that clients send.
validateHeader(message) == message[1].at = 1

-----------------------------------------------------------------------------
(* container.c and messagebuffer.c *)

\* Faulty variant: any buffer is taken for the descriptor's.
FirstBuffer(fd) == {i \in 1..Len(container) : i = 1}
\* The index of the descriptor's buffer: the loops stop at the first match.
BufferOf(fd) ==
  {i \in 1..Len(container) :
     container[i].clientFd = fd /\ \A j \in 1..(i - 1) : container[j].clientFd # fd}

\* Faulty variant: the space left in the buffer is not respected.
TakeAll(buffer, length) == length
\* How much of the data MessageBuffer_append takes: what the message lacks.
AppendSize(buffer, length) ==
  LET lacking == buffer.full_size - Len(buffer.message)
  IN IF length < lacking THEN length ELSE lacking

\* Faulty variant: a header is enough.
isCompleteWithHeader(buffer) == Len(buffer.message) >= HeaderSize
isComplete(buffer) == buffer.full_size = Len(buffer.message)

\* The full size of the message that starts with the data.  The buffer of
\* start_server is cleared before each read, so a length that has not arrived
\* reads as 0.
FullSize == HeaderSize + (IF Len(data) = 1 THEN 0 ELSE LengthIn(data[2]))

\* Container_removeBuffer, or nothing if there is no such buffer.
RemoveBuffer(list, fd) ==
  LET found == {i \in 1..Len(list) : list[i].clientFd = fd}
  IN IF found = {} THEN list ELSE RemoveAt(list, CHOOSE i \in found : \A j \in found : i <= j)

-----------------------------------------------------------------------------
(* The server's loop *)

\* Descriptors in master_set that are closed: accept adds a descriptor, and
\* nothing takes one out.
Dangling == {fd \in Fds \ open : generation[fd] > 0}

CloseConnection(fd) ==
  /\ open' = open \ {fd}
  /\ inbox' = [inbox EXCEPT ![fd] = <<>>]

\* Container_discardStale, one stale message at a time.  It kills the process
\* if the descriptor has no record and others have (List_remove with NULL).
DiscardStale(fd) ==
  /\ step = "top" /\ fd \in stale
  /\ \/ /\ container' = RemoveBuffer(container, fd)
        /\ stale' = stale \ {fd}
        /\ CloseConnection(fd)
        /\ UNCHANGED step
     \/ /\ step' = "crashed"
        /\ UNCHANGED <<container, stale, open, inbox>>
  /\ UNCHANGED <<ready, current, data, generation, sent, processed, disturbed>>

NothingStale ==
  /\ step = "top" /\ stale = {}
  /\ step' = "select"
  /\ UNCHANGED <<ready, current, data, container, stale, open, generation, inbox, sent,
                 processed, disturbed>>

\* select fails with a closed descriptor in the set, and accept is called.
Select ==
  /\ step = "select" /\ Dangling = {}
  /\ ready' = {fd \in open : inbox[fd] # <<>>}
  /\ ready' # {}
  /\ step' = "serve"
  /\ UNCHANGED <<current, data, container, stale, open, generation, inbox, sent, processed,
                 disturbed>>

\* The service loop goes on, or the iteration is over.
Service == IF ready' = {} THEN "top" ELSE "serve"

\* A read of these cells ends inside a header that announces a body.
Splits(cells) ==
  cells[Len(cells)].at = 1 /\ BodyLengths[cells[Len(cells)].of] # 0

\* read takes what has arrived of the queue; from a socket that was closed in
\* this loop it takes nothing.
Read(fd) ==
  /\ step = "serve" /\ fd \in ready /\ \A g \in ready : fd <= g
  /\ ready' = ready \ {fd}
  /\ \/ \E n \in 1..Len(inbox[fd]) :
          /\ data' = SubSeq(inbox[fd], 1, n)
          /\ inbox' = [inbox EXCEPT ![fd] = SubSeq(@, n + 1, Len(@))]
          /\ disturbed' = disturbed \cup (IF Splits(data') THEN {fd} ELSE {})
          /\ current' = fd /\ step' = "handle"
     \/ /\ inbox[fd] = <<>>
        /\ step' = Service
        /\ UNCHANGED <<current, data, inbox, disturbed>>
  /\ UNCHANGED <<container, stale, open, generation, sent, processed>>

\* Faulty variant: no recursive call.
RestNothing(size) == <<>>
\* The data that the recursive call of handle gets.
Rest(size) == SubSeq(data, size + 1, Len(data))

\* process is given a complete message: it closes the connection if the header
\* is malformed, and may close it, or the one the message is for, if it is not.
process(message) ==
  /\ processed' = [processed EXCEPT ![current] = Append(@, message)]
  /\ \/ validateHeader(message) /\ UNCHANGED <<open, inbox>>
     \/ ~validateHeader(message) /\ CloseConnection(current)
     \/ validateHeader(message) /\ \E fd \in Fds : CloseConnection(fd)

\* handle with the buffer that is now in the container, of which size cells
\* are new: either it is complete, is processed and removed, or it stays.
Finish(list, i, size) ==
  LET buffer == list[i]
  IN /\ \/ /\ isComplete(buffer)
           /\ process(buffer.message)
           /\ container' = RemoveBuffer(list, buffer.clientFd)
        \/ /\ ~isComplete(buffer)
           /\ container' = list
           /\ UNCHANGED <<open, inbox, processed>>
     /\ stale' = stale \ {current}
     /\ data' = Rest(size)
     /\ UNCHANGED ready
     /\ \/ data' = <<>> /\ current' = NoFd /\ step' = Service
        \/ data' # <<>> /\ UNCHANGED <<current, step>>
     /\ UNCHANGED <<generation, sent, disturbed>>

\* handle with a partial message in the container: Container_insert_partial.
HandlePartial ==
  /\ step = "handle"
  /\ \E i \in BufferOf(current) :
       LET size == AppendSize(container[i], Len(data))
       IN Finish([container EXCEPT ![i].message = @ \o SubSeq(data, 1, size)], i, size)

\* handle with none: Contianer_insert_new.
HandleNew ==
  /\ step = "handle" /\ BufferOf(current) = {}
  /\ LET empty == [clientFd |-> current, full_size |-> FullSize, message |-> <<>>]
         size == AppendSize(empty, Len(data))
     IN Finish(Append(container, [empty EXCEPT !.message = SubSeq(data, 1, size)]),
               Len(container) + 1, size)

-----------------------------------------------------------------------------
(* The clients and the clock *)

\* accept, which has priority over the sockets with input and is also called
\* when select has failed: a client gets the least descriptor that is free.
Accept(fd) ==
  /\ step = "select"
  /\ fd \notin open /\ generation[fd] < MaxGeneration
  /\ \A g \in Fds \ open : fd <= g
  /\ open' = open \cup {fd}
  /\ generation' = [generation EXCEPT ![fd] = @ + 1]
  /\ sent' = [sent EXCEPT ![fd] = 0]
  /\ processed' = [processed EXCEPT ![fd] = <<>>]
  /\ disturbed' = IF BufferOf(fd) # {} THEN disturbed \cup {fd} ELSE disturbed \ {fd}
  /\ step' = "top"
  /\ UNCHANGED <<ready, current, data, container, stale, inbox>>

Send(fd) ==
  /\ step # "crashed"
  /\ fd \in open /\ sent[fd] < Len(BodyLengths)
  /\ sent' = [sent EXCEPT ![fd] = @ + 1]
  /\ inbox' = [inbox EXCEPT ![fd] = @ \o MessageCells(generation[fd], sent[fd] + 1)]
  /\ UNCHANGED <<step, ready, current, data, container, stale, open, generation, processed,
                 disturbed>>

\* A buffer gets nothing for 60 seconds: the server is in select, or returns to it.
Age(fd) ==
  /\ step \in {"top", "select"}
  /\ BufferOf(fd) # {} /\ fd \notin stale
  /\ stale' = stale \cup {fd}
  /\ UNCHANGED <<step, ready, current, data, container, open, generation, inbox, sent,
                 processed, disturbed>>

-----------------------------------------------------------------------------
Init ==
  /\ step = "top" /\ ready = {}
  /\ current = NoFd /\ data = <<>> /\ container = <<>> /\ stale = {}
  /\ open = {} /\ generation = [fd \in Fds |-> 0]
  /\ inbox = [fd \in Fds |-> <<>>] /\ sent = [fd \in Fds |-> 0]
  /\ processed = [fd \in Fds |-> <<>>] /\ disturbed = {}

Server ==
  \/ NothingStale \/ Select \/ HandlePartial \/ HandleNew
  \/ \E fd \in Fds : DiscardStale(fd) \/ Read(fd)

Next == Server \/ \E fd \in Fds : Accept(fd) \/ Send(fd) \/ Age(fd)

Spec == Init /\ [][Next]_vars

\* The server runs unless it is blocked in select or accept.
FairSpec == Spec /\ WF_vars(Server)

-----------------------------------------------------------------------------
(* Safety *)

CellType == [gen : Nat, of : 1..Len(BodyLengths), at : Nat \ {0}]

Buffer == [clientFd : Fds, full_size : Nat, message : Seq(CellType)]

\* Types; a buffer never holds more than it was allocated for.
TypeOK ==
  /\ step \in {"top", "select", "serve", "handle", "crashed"} /\ ready \subseteq Fds
  /\ current \in Fds \cup {NoFd} /\ data \in Seq(CellType)
  /\ container \in Seq(Buffer)
  /\ \A i \in 1..Len(container) : Len(container[i].message) <= container[i].full_size
  /\ stale \cup open \cup disturbed \subseteq Fds /\ generation \in [Fds -> Nat]
  /\ inbox \in [Fds -> Seq(CellType)] /\ sent \in [Fds -> Nat]
  /\ processed \in [Fds -> Seq(Seq(CellType))]

\* The cell that the client sends after a cell, if it goes on.
Following(cell) ==
  IF cell.at < MessageSize(cell.of) THEN [cell EXCEPT !.at = @ + 1]
  ELSE Cell(cell.gen, cell.of + 1, 1)

\* The cells are those of the messages from..to, each once and in its turn.
AreMessages(cells, gen, from, to) ==
  /\ cells = <<>> <=> from > to
  /\ cells # <<>> => /\ cells[1] = Cell(gen, from, 1)
                     /\ cells[Len(cells)] = Cell(gen, to, MessageSize(to))
  /\ \A i \in 1..(Len(cells) - 1) : cells[i + 1] = Following(cells[i])

Partial(fd) ==
  IF BufferOf(fd) = {} THEN <<>> ELSE container[CHOOSE i \in BufferOf(fd) : TRUE].message

\* The cells on their way to process: buffered, in the hands of handle, queued.
InFlight(fd) == Partial(fd) \o (IF current = fd THEN data ELSE <<>>) \o inbox[fd]

\* Nothing is lost, repeated, reordered or mixed with another connection on
\* its way through read, handle and the container: after the messages that
\* were processed, what is buffered, what handle holds and what is queued make
\* up all the other messages that were sent.  It takes a split header or a
\* buffer left by an earlier connection to disturb that, on the connections
\* where this happens and on no other.
StreamConserved ==
  \A fd \in open \ disturbed :
    /\ Len(processed[fd]) <= sent[fd]
    /\ AreMessages(InFlight(fd), generation[fd], Len(processed[fd]) + 1, sent[fd])

\* What process was given are the messages of the connection, in their turn and
\* each with all of its body, unless that has happened on the connection.
UndisturbedAreWhole ==
  \A fd \in open \ disturbed : \A k \in 1..Len(processed[fd]) :
    k <= sent[fd] /\ processed[fd][k] = MessageCells(generation[fd], k)

-----------------------------------------------------------------------------
(* Liveness *)

\* Each message sent is processed in the end, however read cuts the stream,
\* unless the connection is closed (its partial message got stale, or what it
\* sent was refused) or disturbed, the process is killed by NULL, or a closed
\* descriptor keeps select from reporting input for ever.
SentAreProcessed ==
  \A fd \in Fds, k \in 1..Len(BodyLengths) :
    (fd \in open /\ sent[fd] >= k)
      ~> (\/ fd \notin open \/ fd \in disturbed \/ Len(processed[fd]) >= k
          \/ step = "crashed" \/ [](Dangling # {}))

-----------------------------------------------------------------------------
(* What the comments say, and the code does not do *)

\* isComplete is "true if the whole message has been received"
\* (messagebuffer.c:22): each message processed is one that its connection
\* has sent, in its turn and with all of its body.
ProcessedWhole ==
  \A fd \in open : \A k \in 1..Len(processed[fd]) :
    k <= sent[fd] /\ processed[fd][k] = MessageCells(generation[fd], k)

\* getMessageBuffer "Returns the MessageBuffer of the corresponding client"
\* (container.h:39): no cell in it came over an earlier connection that had
\* the same descriptor.
BufferOfClient ==
  \A fd \in open : \A i \in BufferOf(fd) :
    \A c \in 1..Len(container[i].message) : container[i].message[c].gen = generation[fd]

=============================================================================
