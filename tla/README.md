# Verification of Shared Experiences

The repository holds a movie server (`server/`), an older chat server (`a2/`)
with its test clients (`clients/`), and a GUI (`client/`). Both servers are one
thread around `select`, and everything that is hard in them comes from the order
in which connections, bytes and closes reach that thread. This directory models
the two servers, the list they share and the test clients in TLA+, checks the
models with TLC and proves with TLAPS nearly every safety property that the
runs check ("Only model-checked" below names the rest).

## Inventory

| Component | State | Operations | Properties that make it correct |
|---|---|---|---|
| Movie server, `server/server.c` | `master_set`, `fdmax`, registry `clientIDs`; per vote `voted`, `vote_tally`, deadline; per film `to_play_index`, `downloaded_count`, `end_count`, the read buffer | `run_server`, `voting`, `play_video`, `send_to_all`, `handle_voting`, `handle_download`, `handle_playing` | ballots match voters, the film is settled by this round's ballots, everyone registered is sent it and stays on record, downloads are counted, the descriptor set is that of the open sockets, votes end, connections are accepted |
| Registry, `list.c` (twice) | growing array of pointers to (identifier, descriptor) | add, remove by identifier, expand, free, lookups both ways | no pointer dangles and no entry leaks; the first match is removed; to its callers it is a sequence |
| Chat server, `a2/server.c` | `master_set`, `fdmax`, registry, container | `start_server`, `handle`, `process`, `hello`, `client_list`, `chat`, `client_present`, `authenticate`, `removeClient`, `validateWrite` | an identifier is registered once, chats pass only between registered people, input is read |
| Message framing, `a2/container.c`, `messagebuffer.c`, `handle` | a partial message per descriptor | insert, append, complete, discard after 60 s | the stream of a connection is cut into exactly the messages sent, whatever happens on the others |
| Headers, `header.c` | none | construction, byte order | round trip |
| Video files, `get_videos`, `load_video` | none | directory and file input | |
| GUI, `client/` | JavaFX screens over fixed sample data; no connection to a server | | |
| Test clients, `clients/client_2`, `client_4` | the place in the script, what has arrived | a fixed script of blocking reads and writes | reads stay in step with the server's writes, chats arrive, a record points to a connection of its client until the server closes it |

Interaction: the registry is called by both servers; `handle` fills the
container and calls `process`, whose handlers change the registry and close
sockets; `Container_discardStale` changes registry, container and sockets at
the top of the loop. Between the two servers there is no interaction. The
hazards, each with its line, are in `PROJECT.json`.

## Modules

| Module | Models | Reads as |
|---|---|---|
| `ClientList` | `list.c` as its callers see it | operators on sequences of `[id, fd]` |
| `ClientListProofs` | | what its operations do to identifiers, proved |
| `Registry` | the same, as a specification | register, unregister, renew |
| `ListArray` | `a2/list.c` in memory | block of pointers, entries by address; the refinement of `Registry` |
| `ListArrayProofs` | | theorems and their proofs |
| `WatchParty` | the abstract round | idle, voting, loading, playing; ballots; film |
| `MovieServer` | `server/server.c` | state and actions below; the refinement of `WatchParty`; properties |
| `MovieServerProofs` | | types, descriptors and readiness, proved |
| `MovieSessionProofs` | | what is queued on a connection, who has the film, who is on record, proved |
| `MovieBallotProofs` | | the ballots and the steps of a round, proved |
| `ChatRoom` | the abstract chat | members; the chat that passes in a step |
| `ChatServer` | `a2/server.c` and its container, whole headers | state and actions below; the refinement of `ChatRoom` |
| `ChatServerProofs` | | theorems and their proofs |
| `MessageFraming` | `handle`, `container.c`, `messagebuffer.c` on the cells of each stream | the loop of `start_server` without what `process` does; one action per level of `handle`'s recursion |
| `MessageFramingProofs` | | theorems and their proofs |
| `ChatScripts` | `clients/client_2/client2.c`, `clients/client_4/client4.c`, run against `ChatServer` | scripts as sequences of statements; one action per kind of statement and outcome |
| `ChatScriptsProofs` | | theorems and their proofs |
| `MCMovieServer`, `MCChatServer`, `MCChatScripts`, `MCMessageFraming`, `MCListArray` | | instances for TLC |

A definition named "faulty variant" in a comment is what a plausible mistake in
the definition below it would be. `PROJECT.json` pairs each property with the
variant that breaks it.

### MovieServer

`pc` is the part of `run_server`'s loop that runs, `step` the place in one of
the three `select` loops: the test of the loop condition, `select`, or the
service loop with the rest of `temp_set` in `ready`.

| Action | Code (`server/server.c`) |
|---|---|
| `BeginRound` | 39-41, 170-207: `get_videos`, MOVIES to everyone if anyone is registered, empty ballots |
| `StayInLoop`, `EndVoting`, `EndDownload`, `EndPlaying` | 82, 121, 236-255: the loop conditions, the winner |
| `Accept`, `Select` | 83-93, 122-132, 211-222 |
| `ServeVoting` | 224-235, 258-280: one read of all that is queued |
| `ServeDownload` | 95-106, 282-302: one read of one byte, buffer cleared after |
| `PlayRead`, `PlayHandle` | 134-147, 304-335: the first read takes all, the second one byte more and blocks for it |
| `SendSelected`, `SendStart` | 49-56, 109-118 |
| `SelectForContent`, `SendContent`, `StartDownload` | 58-68, 69-75, 78-82: the `select` for writing, the film to one descriptor after the other, the locals of the download loop |

Sockets: `inbox` holds the bytes received and not read; a name is one byte that
carries its terminating NUL. `stalled` is the set of descriptors whose send
buffer is full: only the film can fill it, and only for `SlowClients`. The film is
written with one blocking `write` of the whole file (73, 296, 319). `WriteVideo`
either returns at once or fills the send buffer and leaves its descriptor in
`writing`: no action of the server is enabled then, until its client has taken
all but a buffer of the film (`TakeVideo`) or has gone (`Disconnect`). The send
buffer is full after that until the client reads the rest (`Drain`), and any other
write to it waits. A write by `send_to_all`, and the film, go to the sockets
writable at the moment of the `select` (`Writable`).

Undefined values are choices: the cells of `vote_tally`, which is allocated too
small and zeroed as bytes, `max_votes` and `downloaded_count` take any value of
`GarbageInts`; `accept` is passed an uninitialized length and may fail. The
write past the end of `vote_tally`'s block is modelled by the value the cell is
found to hold at the end, not by what else it may overwrite. `List_remove` with
NULL is the state "crashed".

No client of this protocol exists in the repository, so `Connect`, `Send`,
`Disconnect`, `TakeVideo` and `Drain` are external: HELLO comes first, a vote after the
list, DOWNLOADED after the film, END_MOVIE after START, GOODBYE last, each once
per connection, and a client may close at any time.

### ChatServer

`step` is the place in `start_server`'s loop: `"top"` (`DiscardStale`,
`NothingStale`), `"select"` (`Accept`, `Select`), `"serve"` (`Read`) and
`"handle"` (`Store`, `Process`). `process` and its handlers are operators that
return the set of outcomes (registry, closed descriptors, chat passed, and what
is written to whom), since a write to a peer that has gone may or may not fail. `Accept` is enabled also when
a closed descriptor in `master_set` (`Dangling`) makes `select` fail: `temp_set`
still holds the listening socket and `accept` waits for the next connection.

### ChatScripts

The scripts of the two clients, `script2` and `script4`, are sequences of
statements: `"send"` a message, read the header of an acknowledgement (`"ack"`),
the `"list"`, the header of a `"chat"` and its `"text"`, and `"close"`. `at` is the
place of each client in its script and `stream` what the server has written to
it and it has not read, one cell per `write` of the server. `Answer` is the
`Process` of `ChatServer` together with the delivery of what it writes. The
reads of 50 bytes take one cell; the read of 400 bytes for the list takes any
number (`ReadList`), and `greedy` remembers that it took more than the list. The
clients look at no type and no error: at end of file `ReadEOF` goes on with
zeros. `WriteToNobody` is a write to a connection that the server has closed,
which may return or raise SIGPIPE, deadly for the clients, which do not ignore
it. `ReadChat` may also kill a client: a text taken for a header can announce a
length of gigabytes for an array on the stack. A client that has ended may be
launched again, with a new socket: `Launch` starts with an empty stream.
`ScriptMessageAssumption` says that `Messages` has every message of the scripts;
TLC evaluates it in each run of the module.

### ListArray

`capacity`, `size` and `data` are the fields of `List`; `heap` holds the live
entries by address. `malloc` returns any free address, so that memory is reused
as early as possible; what was never written is `Wild`. `List_remove` moves the
pointers up from one place further, which for a full list is past the end of the
block (`a2/list.c:56`): `Pointer` reads `Wild` there. `List_renew` is `List_free`
followed by `List_new`, the lists of `Container_discardStale`
(`a2/container.c:126-156`), of which each call makes and frees one; the movie server
never frees a list. `Entries` is the refinement mapping: the sequence of the
entries behind the pointers in use. `server/list.c` is the same code with the
lookup by descriptor added.

### MessageFraming

Cells are 25 bytes: half a header (`a2/header.h:11-20` is 50 bytes, packed), or 25
bytes of body. A cell is named by the place in the stream it was sent at:
connection, message, place in the message. `StreamConserved` compares names:
behind what was processed, the cells in flight begin with the first of the next
message, end with the last one sent, and each is followed by the one that was
sent after it. `HandlePartial` and
`HandleNew` are one call of `handle` each; `Finish` is what both do then,
`data'` what the recursive call gets. A read may end at any cell. `process` may
close any connection, the sender's or another's, as `ChatServer`'s handlers do, and
closes the sender's for a header that is not valid.

`step` and `ready` are the loop of `start_server` as in `ChatServer`: `DiscardStale` and
`NothingStale` at its top, `Select` or `Accept`, then `Read` for each ready descriptor
in turn. A descriptor that is closed stays in `master_set` (`Dangling`): `Select` is
then disabled and only `Accept` goes on, until the descriptor is in use again.
`List_remove` with NULL may kill the process in `DiscardStale`; whether it does
depends on the registry, which is not here, and is a choice.

Two things in the code make a connection lose the boundaries of its messages:
a read that ends inside a header that announces a body (`Splits`; the length is
taken as 0), and a buffer that an earlier connection on the same descriptor has
left in the container. `disturbed` remembers the connections to which one
of them has happened. `FramingSplit` and `FramingReuse` are about these;
`StreamConserved`, `UndisturbedAreWhole` and `SentAreProcessed` are about all others, in
the same runs of the system: a disturbed connection must not disturb its
neighbours.

## Runs

| Run | Shows | Bounds |
|---|---|---|
| `MovieVoting` | types, `BallotsMatchVoted`, `VotesReadAreCounted`, `EarlyEndHasAllBallots`, refinement of `WatchParty` | 2 people, 2 videos, 3 connections on 2 descriptors; HELLO, VOTE, GOODBYE |
| `MovieRound` | `DescriptorsConsistent`, `ServedHaveInput`, `JoinedHaveFilm`, `MembersStayOnRecord`, `DownloadsAreCounted` | 3 connections, one slow reader, garbage 0 or 2^24; HELLO, DOWNLOADED, END_MOVIE, GOODBYE |
| `MovieProgress` | `VotingEndsAfterDeadline`, `ConnectionsAreAccepted` | 2 connections, one slow reader; HELLO, VOTE, GOODBYE |
| `ChatTalk` | types, `UniqueIDs`, refinement of `ChatRoom` | 3 connections on 2 descriptors, any 3 of the messages of `Conversation` and `Refusals` |
| `ScriptsTalk` | `RecordsAreConnected`, `HeadersWhereExpected`, `ChatsAreHeard`, `InputReadUnlessDangling` | both clients, 2 launches on 2 descriptors, 10 messages |
| `ListArray` | types, `PointersAreLive`, refinement of `Registry` | 5 addresses, so capacities 0, 2 and 6; 2 identifiers, 2 descriptors |
| `FramingWhole` | types, `StreamConserved`, `UndisturbedAreWhole`, `SentAreProcessed` | 2 descriptors, 2 connections each, each sends a message with a body of one cell and one without |

Runs that TLC refutes, each against a sentence of the repository:

| Run | Sentence | What happens |
|---|---|---|
| `MovieWinner` | `server/server.c:40` "the vote-winning movie" | an uninitialized cell or `max_votes` decides |
| `MoviePending` | `server/server.c:126` "Service all sockets with input pending" | the second read waits for ever |
| `ChatPending` | `a2/server.c:91`, the same sentence | a closed descriptor in `master_set` keeps the server in `accept` |
| `FramingSplit` | `a2/messagebuffer.c:22` "true if the whole message has been received" | the length is read before it has arrived |
| `FramingReuse` | `a2/container.h:39` "the MessageBuffer of the corresponding client" | what is left of a read after a refusal meets the next client |

Other behaviour of the models that a reader may not expect, and no run states:
`server/server.c:197` says that `voted` "prevents one client making over 1 vote",
but the test is made on the descriptor (270), so that somebody who votes,
disconnects, reconnects on another descriptor and votes has two ballots;
who votes on a descriptor on which an earlier connection has
voted in the same round has none (`VotesReadAreCounted` says so in its
precondition);
two people may register under one name in the movie server, and GOODBYE then
removes the first record of the name (`MembersStayOnRecord` is about names that
one client has); START goes out when enough DOWNLOADED
were counted, also of people who have left; `removeClient` of the chat server
removes the record of the name in the message, not that of the descriptor, and a
HELLO repeated on its own descriptor removes the name it carries. The films of
the movie server end only when everybody has left: `handle_playing` is passed
`downloaded_count` in the place of `end_count` (140), and the list of videos that
opens a round is broadcast to nobody (192-195). A record outlives the connection of
a client that goes without GOODBYE or EXIT, in both servers; what
`RecordsAreConnected` calls connected is a descriptor that the server has not
closed.

Why the bounds are enough to be interesting: two descriptors with three
connections force a descriptor to be reused while the other is in use; two
people suffice for ties, duplicate names and one blocking the other; three
messages for a registration, a competing one and a chat. Two launches let both
clients run once or one of them run twice; with three, the safety properties of
`ScriptsTalk` hold as well (879,900 states), but the liveness check takes too
long. Five entries force two expansions and a removal from a full block.
A message with a body of one cell has three cells and so can be cut inside its
header, between header and body, and, with the header-only message behind
it, be read together with a part of the next; two descriptors with two connections
each have a partial message on one while the other is cut, closed, swept or
reused. With a body of two cells the run takes 992,781 states and five minutes,
and holds as well.
Bounds are guards of
the client actions (`MaxConnects`, `MaxFd`, `MaxSent`, `MaxGeneration`), never of
the server's. The movie runs divide the message types between them because all
five at once exceed what a run can hold.

`CHECK_DEADLOCK FALSE` is set because a server waiting in `select`, `accept` or
a blocking write, when all connections are used up, really has nothing to do.

## Fairness

`FairSpec` adds `WF_vars(Server)`: the one thread runs whenever it is not
blocked in a system call, and a blocked call is a disabled action. It chooses
no order: that is in the guards (lowest descriptor first, `accept` before
input). Nothing is assumed of clients or of the clock there. `ScriptSpec` has weak
fairness for the server and for each client's next statement, since a process
that is not blocked runs; launching a client and the clock have none. The
liveness properties name their escapes: `[]Blocked` in the movie server (it stays
for ever in a write of the film, in the answer to a HELLO over a full
socket, in a `select` for writing or in a second read) and the crash; `Dangling` and the crash in the
chat server; a connection that is closed or disturbed, `[](Dangling # {})` and the crash in the
framing; a message that gets stale in `ChatsAreHeard`. An escape is a state
of the code that hinders the one thread, and the hazards in `PROJECT.json` that are
only escapes say so. Liveness
under fairness is checked by TLC only.

## Proofs

`MovieServerProofs` proves of `Spec`, for every set of clients and every value
of the bounds and of `GarbageInts` (a set of integers), and for one to three
videos:

- `TypesAreCorrect`: `[]TypeOK`;
- `DescriptorsStayConsistent`: `[]DescriptorsConsistent`, the set given to
  `select` is the listening socket and the open ones, and `fdmax` reaches them;
- `ServiceFindsInput`: `[]ServedHaveInput`, the first read in a service loop
  never blocks.

The inductive invariant is `IInv == TypeOK /\ DescriptorsConsistent /\
ServedHaveInput /\ LoopControl`. `LoopControl` is the strengthening: without it a
state where `ready` holds a closed descriptor, or where a second read is pending
outside the playing loop, would satisfy the other parts and lose them in a step
(a close outside the service loop would leave `ready` behind). The argument for
`ServedHaveInput` is that a handler takes input, and closes, only at the
descriptor being served, which leaves `ready` in the same step, while the
environment only adds input and ends of file. The proof has one lemma per group of
actions (`ServeInv`, `PhaseInv`, `SelectInv`, `EnvironmentInv`), joined in
`NextInv`; the helpers on sequences come first.

Assumptions: those of `MovieServer`'s ASSUMEs. `VideoCountAssumption` bounds the
videos at three because the model tells a vote's index byte from a message type
by it.

`MovieSessionProofs` proves of the same `Spec`:

- `MembersHaveFilm`: `[]JoinedHaveFilm`;
- `DownloadsCountOnce`: `DownloadsAreCounted`;
- `MembersStay`: `[]MembersStayOnRecord`.

The invariant is `SessionInv == IInv /\ Streams /\ Members` (`SessionInvariance`).
`Streams` says of each connection that its queue is well formed (a VOTE is
followed by its video, GOODBYE ends the queue, there is at most one DOWNLOADED)
and that the client has answered only what it was sent; a closed descriptor is as
clean as a new one. Without it a read of several messages could hide a second
DOWNLOADED, or a byte of one message could be taken for the type of another.
`Members` is what makes the broadcast reach everybody: until the film is sent no
member has a full send buffer, since only the film fills it, and nobody is a
member before HELLO was handled. A record without a member belongs to a
connection that is gone, which is why the next owner of its descriptor still
has its HELLO ahead.

`MembersStay` needs more, in `RecordInv == OneLive /\ Names /\ Reading /\ Recorded`.
GOODBYE removes the first record with the name that it finds for its descriptor,
and clients may leave records behind: another of the same name, of an earlier
connection, or of an earlier owner of the descriptor. `Recorded` says which of
them can do harm: behind the record of a client, another one with its name is of the
same connection, or of one that has nothing more to be read, so that no GOODBYE
will look it up; and a record in front of it is the one that GOODBYE removes. The
rest says where names come from. A client has one connection that is not closed
(`OneLive`); the name bytes in a queue are those of its client, and a byte that
reads as HELLO before the list was sent begins a HELLO (`Names`); while downloading
the rest of the buffer holds no name, and while playing the second read takes no
HELLO (`Reading`), so that only the voting loop registers names. The proof uses
that nobody is registered when the videos are announced (`Members`), so that
whoever has the list has registered.

`MovieBallotProofs` proves, with `VoteInv == SessionInv /\ BallotInv /\ VotesInv`:

- `BallotsStayMatched`: `[]BallotsMatchVoted`;
- `VotesReadStayCounted`: `VotesReadAreCounted`;
- `EarlyEndsAreComplete`: `EarlyEndHasAllBallots`;
- `RoundsFollowParty`: whatever the uninitialized variables hold, each step is one
  of `WatchParty` or the close of a vote in which the uninitialized variables
  differ (`CloseUneven`).

`CloseUneven` is the one step that `WatchParty` does not have: some cell of
`vote_tally` began with another number than `max_votes`, and the greatest sum of
garbage and ballots wins, which `MovieWinner` shows. With the same number everywhere
the film is one that the ballots elect: that is `PartySpec`, which `MovieVoting`
checks with the value 0. `BallotInv` adds to
`BallotsMatchVoted` that no ballot is left over between votes; `VoteCounts` shows
that a new vote adds one voter to the list and one ballot to its video. `VotesInv` says
what may stand in front of a VOTE in the queue of a connection in its first
round: nothing. In a later round a DOWNLOADED can
stand there, `handle_voting` drops the rest of the read with it, and the vote is
lost; `VotesReadAreCounted` therefore speaks of connections that were sent no film
yet (`MOVIE_CONTENT \notin seen[fd]`).

`ListArrayProofs` proves of `ListArray`'s `Spec`, for every set of identifiers,
descriptors and addresses, all that its run checks:

- `ArrayTypes`: `[]TypeOK`;
- `PointersStayLive`: `[]PointersAreLive`;
- `ArrayImplementsRegistry`: `RegistrySpec`.

`MemoryInv == TypeOK /\ PointersAreLive` is inductive as it stands: the three
parts of `PointersAreLive` need each other, since freeing one entry is safe only if no
other pointer leads to it. One lemma per operation shows that it is kept
(`AddKeepsMemory`, `RemoveKeepsMemory`, `RenewKeepsMemory`); in the removal, each
index in use afterwards comes from one index before it (`Old`), the removed one
left out, and that is why the pointer read past the end is never in use. For the
refinement, `AddAppends` and `RemoveRemoves` show entry by entry that the sequence
behind the array changes as `ClientList` says; `FirstInIsFirstOf` and
`SamePositions` carry the first match of a loop from 0 over to a sequence that
counts from 1.

`ChatServerProofs` proves of `ChatServer`'s `Spec`, for every set of clients,
identifiers and messages and every value of the bounds:

- `TypeCorrect`: `[]TypeOK`;
- `IdentifiersUnique`: `[]UniqueIDs`;
- `ImplementsRoom`: `RoomSpec`.

It rests on `ClientListProofs`, which says what `List_add` and `List_remove` do to
the identifiers of a list of any length (`AddIds`, `RemoveIds`): the first entry
with an identifier is the only one as long as none has two. The inductive
invariant is `IInv == TypeOK /\ UniqueIDs /\ HandleControl`; `HandleControl` (a
message is handled only on a client socket, with data left) is needed because the
type of what is left of the data depends on there being some. Every handler is shown
`Sound`: from any registry it yields a registry again and does what the room
allows (`HelloIsSound`, `ChatIsSound`, `ProcessIsSound`). In `chat` that takes the
authentication before it, which is what makes the sender a member, and in `hello`
the check that the name is free. The steps that process no message either sweep a
client away (`DiscardInv`) or are `Quiet`. `AllowedInRoom` turns both into steps of
`ChatRoom`.

`MessageFramingProofs` proves of `MessageFraming`'s `Spec`, for any descriptors,
lengths and number of connections:

- `Types`: `[]TypeOK`;
- `StreamsStayConserved`: `[]StreamConserved`;
- `MessagesStayWhole`: `[]UndisturbedAreWhole`.

None assumes anything of the cuts, of refusals or of what the other connections do.
The inductive invariant `FramingInv` says that handle has data exactly while it runs
(`HandlesData`), that a descriptor has at most one buffer (`OneBuffer`), that a closed
descriptor has nothing queued (`ClosedAreEmpty`), `SentBounded`, and, of each open
connection that is not disturbed, `InOrder`: its buffer lacks something and has the
size of the message the connection sends next (`BufferWaits`), its cells in flight
are those of the messages still to come (`StreamOf`), what was processed are the
messages before them (`WholeOf`), and what `handle` holds of it does not end inside
a header. `BufferWaits` is the heart: the
length that `handle` takes from the data is that of the message, because the first
cell after a complete message is a first cell again, and its second is there.
`HandledCells` treats one level of `handle` for the partial and the new message
alike, `FinishOwn` and `FinishOthers` what it means for the connection it works for
and for all others, and `HandleKeeps`, `ReadKeeps`, `DiscardKeeps`, `AcceptKeeps` and
`SendKeeps` are the actions. That `disturbed` is exact is seen in `ReadKeeps` and
`AcceptKeeps`, the only places where a connection gets into it. What holds of every
cell of a stream is proved from the least place where
it would fail (`LeastNumber`), which stands for an induction over the sequence.

`ChatScriptsProofs` proves of `ScriptSpec`, for any number of launches, messages
and descriptors:

- `ScriptsAreClients`: `Spec` of `ChatServer`, so that all its theorems hold here;
- `RecordsStayConnected`: `[]RecordsAreConnected`;
- `HeadersStayExpected`: `[]HeadersWhereExpected`.

`TalkInv` strengthens the first invariant by who speaks where: what waits on a
socket, is handled, or is left in the container comes from the client at the
other end (`InboxHeard`, `DataHeard`, `ContainerHeard`), and a HELLO is the first
thing a client says. It is needed because `removeClient` goes by the name in the
message and the descriptor it came from, and a partial message may outlive its
connection; `ContainerHeard` says that such a one never meets a client on record.
`SyncInv` is the second strengthening. `InStep` says what may be under way to a
client at each place of its script: what it reads next comes first, and every
text follows the header of a chat (`Framed`). Where something must come and nothing is
there, the client is not registered or its connection is lost, so that the next
thing written to it is what it waits for. `HelloWaits`, `OneLine` and `NoSecond`
say that a client has one connection, and that nothing is written to it while its
HELLO waits. The proof showed a mistake in the model: `Launch` used to
leave what the earlier connection had not read to the new process.

Only model-checked: liveness under fairness, which is out of the prover's reach
(`VotingEndsAfterDeadline`, `ConnectionsAreAccepted`, `SentAreProcessed`,
`ChatsAreHeard`, `InputReadUnlessDangling`), `PartySpec`, and the five counterexamples.

## Not modelled

- The GUI, which shows fixed sample data and opens no connection. Of the test
  clients, the functions that their scripts do not call; `client_3` and `provided`
  exist as binaries only.
- `make_socket`, `main`, `get_videos`, `load_video`: straight-line input and
  output. The number of videos is a constant of at least one.
- The contents of MOVIES, CLIENT_LIST and START, and the conversions of
  `header.c` and `htonll`.
- Writes that are cut short, a full send buffer in the chat server, negative
  lengths in chat headers, memory exhaustion, `FD_SETSIZE`.
- The array behind `container.c`, which grows and shifts like that of `list.c`;
  the 400 bytes of `List_getIDs`; names of 20 bytes, which leave no room for a NUL.
- Writes of the server that a client receives in parts.

## Plan

1. A composition of `MessageFraming` with `ChatServer`'s handlers for split
   headers; lengths that are out of range; a bounded send buffer.
2. The array of `container.c`, along `ListArray`.
3. The conversions (`Header_toNetworkOrder`, `htonll`) as functions on bytes,
   with their widths.
