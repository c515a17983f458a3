---------------------------- MODULE MovieServer ----------------------------
(***************************************************************************)
(* The movie server, server/server.c: one thread that for ever announces   *)
(* the videos, lets the clients vote, ships the winning video to everyone, *)
(* waits until enough clients have downloaded it, tells everyone to start  *)
(* and waits for the round to end.                                         *)
(*                                                                         *)
(* Each pass through one of the three select loops (voting, download,      *)
(* playing) is split where another actor can act in between: the test of   *)
(* the loop condition, select with accept, and the service of one ready    *)
(* descriptor.  The film goes to one client at a time in a blocking write: *)
(* the write begins in one step, and until its reader has taken enough the *)
(* server does nothing.  A socket's receive buffer is a sequence of bytes, *)
(* so that a read takes what the code's read takes: all that is queued     *)
(* while voting, a single byte while downloading, everything and then one  *)
(* byte more while playing.                                                *)
(*                                                                         *)
(* No client of this protocol is in the repository.  The clients here are  *)
(* the ones the server is written for: each sends every message at most    *)
(* once per connection, HELLO first, and answers only what it was sent.    *)
(***************************************************************************)
EXTENDS ClientList, FiniteSets

CONSTANTS
  Clients,        \* the people who connect
  NameByte,       \* the NUL-terminated name of a client, as one byte >= FirstName
  VideoCount,     \* number of .mp4 files in the server's directory
  SlowClients,    \* those who may be slower than the server to take a video
  Script,         \* message types the clients use
  GarbageInts,    \* what an uninitialized int may hold
  MaxFd,          \* bound: descriptors 4..MaxFd for client sockets
  MaxConnects,    \* bound: connections made in a behaviour
  NoClient

ListenFd == 3
Fds == 4..MaxFd
NoFd == 0
FirstName == 32
Garbage == 256
Videos == 0..(VideoCount - 1)

\* A vote's index byte is below every message type but HELLO (and 2), so the
\* index byte of one VOTE is never taken for another VOTE.
ASSUME VideoCountAssumption == VideoCount \in 1..3
ASSUME NameAssumption ==
  NameByte \in [Clients -> FirstName..(Garbage - 1)] /\ NoClient \notin Clients
ASSUME GarbageAssumption == GarbageInts \subseteq Int /\ GarbageInts # {}
ASSUME ScriptAssumption ==
  SlowClients \subseteq Clients /\ Script \subseteq {1, 3, 6, 8, 9}
ASSUME BoundAssumption == MaxFd \in Nat /\ MaxFd > ListenFd /\ MaxConnects \in Nat

\* Message types (server.h)
HELLO == 1
MOVIES == 2
VOTE == 3
MOVIE_SELECTED == 4
MOVIE_CONTENT == 5
DOWNLOADED == 6
START == 7
END_MOVIE == 8
GOODBYE == 9

FromServer == {MOVIES, MOVIE_SELECTED, MOVIE_CONTENT, START}
Loops == {"voting", "download", "playing"}

VARIABLES
  pc,         \* the part of run_server's loop that runs
  step,       \* within a select loop: "test", "select" or "serve"
  ready,      \* what is left of temp_set in the service loop, or of
              \* write_set while the film is written
  waiting,    \* descriptor whose second read (playing loop) is pending
  clientIDs,  \* the registry: List of [id, fd]
  voted,      \* descriptors that voted: List of [NULL, fd]
  tally,      \* votes added to each cell of vote_tally
  downloaded, \* downloaded_count of play_video
  movie,      \* video_index / to_play_index
  buffer,     \* play_video's buffer up to its trailing NULs
  expired,    \* more than SECONDS_TO_VOTE seconds of voting have passed
  master,     \* master_set
  fdmax,
  peer,       \* the client at the other end of each descriptor
  gone,       \* descriptors whose peer has closed its end
  inbox,      \* bytes received and not read
  backlog,    \* connections waiting for accept
  stalled,    \* descriptors with a full send buffer
  writing,    \* descriptor whose film is being written by a blocked write
  seen,       \* message types written to each connection
  said,       \* messages the client has sent on each connection
  connects,   \* connections made so far
  joined,     \* history: descriptors whose HELLO was handled in this round
  hasFilm     \* history: descriptors sent the content of the current movie

control == <<pc, step, ready, waiting>>
ballot == <<voted, tally>>
sockets == <<master, fdmax, peer, gone, backlog>>
sending == <<stalled, writing, seen, hasFilm>>
members == <<clientIDs, joined>>
vars == <<pc, step, ready, waiting, clientIDs, voted, tally, downloaded, movie,
          buffer, expired, master, fdmax, peer, gone, inbox, backlog, stalled,
          writing, seen, said, connects, joined, hasFilm>>

-----------------------------------------------------------------------------
(* Bytes and strings *)

\* The bytes of the message of a type; v is used by VOTE only.
Bytes(c, type, v) ==
  CASE type = HELLO -> <<HELLO, NameByte[c]>>
    [] type = VOTE -> <<VOTE, v>>
    [] OTHER -> <<type>>

\* read into a buffer: the first bytes are replaced, the rest stays.
ReadInto(buf, bytes) == bytes \o SubSeq(buf, Len(bytes) + 1, Len(buf))

\* Faulty variant: the read of one byte discards what follows.
UnreadNothing(bytes) == <<>>
\* What a read of sizeof(char) bytes leaves.
Unread(bytes) == Tail(bytes)

\* The C string at Message.data: from the second byte up to a NUL, which a
\* name byte carries with it and which follows the last byte of the buffer.
DataString(buf) ==
  LET End(i) == buf[i] = 0 \/ buf[i] >= FirstName
      first == {i \in 2..Len(buf) : End(i) /\ \A j \in 2..(i - 1) : ~End(j)}
  IN IF first = {} THEN SubSeq(buf, 2, Len(buf))
     ELSE LET i == CHOOSE i \in first : TRUE
          IN SubSeq(buf, 2, IF buf[i] = 0 THEN i - 1 ELSE i)

-----------------------------------------------------------------------------
(* Sockets *)

Open == {fd \in Fds : peer[fd] # NoClient}

\* read returns at once: data or end of file; accept for the listening socket.
Readable == {fd \in Open : inbox[fd] # <<>> \/ fd \in gone}

\* Faulty variant: the loop stops before fdmax.
WritableBelowFdmax == {fd \in (master \ {ListenFd}) \ stalled : fd < fdmax}

\* The listening socket is never writable.
Writable == (master \ {ListenFd}) \ stalled

\* The write of a whole video: it returns at once, or it fills the send buffer
\* and blocks until its reader has taken all but a buffer of what is written.
WriteVideo(fd) ==
  /\ hasFilm' = hasFilm \cup {fd}
  /\ \/ UNCHANGED <<stalled, writing>>
     \/ /\ fd \notin gone /\ peer[fd] \in SlowClients
        /\ stalled' = stalled \cup {fd} /\ writing' = fd

\* Messages of the given types are written to each of fds; a video is written
\* to one descriptor at a time.
Deliver(fds, types) ==
  /\ seen' = [fd \in Fds |-> IF fd \in fds THEN seen[fd] \cup types ELSE seen[fd]]
  /\ IF MOVIE_CONTENT \in types
     THEN \E fd \in fds : WriteVideo(fd)
     ELSE UNCHANGED <<stalled, writing, hasFilm>>

\* send_to_all: select blocks until some socket is writable; the sockets that
\* are not writable at that moment are skipped.
SendToAll(types) == Writable # {} /\ Deliver(Writable, types)

CloseConnection(fd) ==
  /\ master' = master \ {fd}
  /\ peer' = [peer EXCEPT ![fd] = NoClient]
  /\ gone' = gone \ {fd}
  /\ inbox' = [inbox EXCEPT ![fd] = <<>>]
  /\ stalled' = stalled \ {fd}
  /\ seen' = [seen EXCEPT ![fd] = {}]
  /\ said' = [said EXCEPT ![fd] = {}]
  /\ hasFilm' = hasFilm \ {fd}
  /\ UNCHANGED <<fdmax, backlog, writing>>

-----------------------------------------------------------------------------
(* The branches of handle_voting, handle_download and handle_playing.      *)
(* "rest" is what the read has left in the receive buffer.                 *)

\* HELLO: a new record, and the messages are written to the socket, which
\* blocks while its send buffer is full.
Hello(fd, name, types, rest) ==
  /\ fd \notin stalled
  /\ clientIDs' = List_add(clientIDs, name, fd)
  /\ joined' = joined \cup {fd}
  /\ Deliver({fd}, types)
  /\ inbox' = [inbox EXCEPT ![fd] = rest]
  /\ UNCHANGED <<pc, sockets, ballot, downloaded, said>>

\* Faulty variants: no test of voted; the test made on the registry.
MayVoteAgain(fd) == TRUE
MayVoteUnregistered(fd) == ~List_contains_fd(clientIDs, fd)
MayVote(fd) == ~List_contains_fd(voted, fd)

\* VOTE: counted for a descriptor that has not voted.
Vote(fd, video, rest) ==
  /\ MayVote(fd)
  /\ tally' = [tally EXCEPT ![video] = @ + 1]
  /\ voted' = List_add(voted, NULL, fd)
  /\ inbox' = [inbox EXCEPT ![fd] = rest]
  /\ UNCHANGED <<pc, sockets, sending, members, downloaded, said>>

\* GOODBYE: the record with the identifier of the descriptor's record goes
\* and the socket is closed.  Without a record List_remove compares
\* identifiers with NULL, which kills the process if there are any.
Goodbye(fd) ==
  \/ /\ clientIDs = <<>> \/ List_contains_fd(clientIDs, fd)
     /\ clientIDs' = List_remove(clientIDs, List_getClientID(clientIDs, fd))
     /\ joined' = joined \ {fd}
     /\ CloseConnection(fd)
     /\ UNCHANGED <<pc, ballot, downloaded>>
  \/ /\ clientIDs # <<>> /\ ~List_contains_fd(clientIDs, fd)
     /\ pc' = "crashed"
     /\ UNCHANGED <<sockets, sending, ballot, members, downloaded, inbox, said>>

\* The counter behind the pointer the handler was given.
Count(fd, rest) ==
  /\ downloaded' = downloaded + 1
  /\ inbox' = [inbox EXCEPT ![fd] = rest]
  /\ UNCHANGED <<pc, sockets, sending, ballot, members, said>>

Ignore(fd, rest) ==
  /\ inbox' = [inbox EXCEPT ![fd] = rest]
  /\ UNCHANGED <<pc, sockets, sending, ballot, members, downloaded, said>>

handle_voting(fd, data) ==
  LET type == data[1]
      video == IF Len(data) > 1 THEN data[2] ELSE 0
  IN \/ type = HELLO /\ Hello(fd, DataString(data), {MOVIES}, <<>>)
     \/ type = VOTE /\ Vote(fd, video, <<>>)
     \/ type = GOODBYE /\ Goodbye(fd)
     \/ /\ type \notin {HELLO, VOTE, GOODBYE} \/ (type = VOTE /\ ~MayVote(fd))
        /\ Ignore(fd, <<>>)

handle_download(fd, data, rest) ==
  LET type == data[1]
  IN \/ type = DOWNLOADED /\ Count(fd, rest)
     \/ type = HELLO /\ Hello(fd, DataString(data), {MOVIE_CONTENT}, rest)
     \/ type = GOODBYE /\ Goodbye(fd)
     \/ type \notin {HELLO, DOWNLOADED, GOODBYE} /\ Ignore(fd, rest)

\* Called with &downloaded_count where it expects &end_count.
handle_playing(fd, data, rest) ==
  LET type == data[1]
  IN \/ type = END_MOVIE /\ Count(fd, rest)
     \/ type = HELLO /\ Hello(fd, DataString(data), {MOVIE_CONTENT, START}, rest)
     \/ type = GOODBYE /\ Goodbye(fd)
     \/ type \notin {HELLO, END_MOVIE, GOODBYE} /\ Ignore(fd, rest)

-----------------------------------------------------------------------------
(* The select loops *)

\* The for loop over the descriptors goes on, or the iteration is over.
NextDescriptor(fd) ==
  /\ ready' = ready \ {fd}
  /\ step' = IF ready = {fd} THEN "test" ELSE "serve"

Serving(loop, fd) ==
  pc = loop /\ step = "serve" /\ fd \in ready /\ \A g \in ready : fd <= g

\* Faulty variant: fdmax is not raised.
maxSecond(a, b) == b
max(a, b) == IF a > b THEN a ELSE b

\* Faulty variant: the sockets with input come before accept.
AcceptWhenIdle == backlog # <<>> /\ Readable = {}
ConnectionPending == backlog # <<>>

\* Faulty variant: the loop reads every socket of master_set.
ReadyAll == master \ {ListenFd}
ReadyNow == {fd \in Readable \cap master : fd <= fdmax}

\* accept has priority: the sockets with input wait for another iteration.
\* An accept that fails (it is given an uninitialized length) loses the
\* connection, and its FD_SET(-1) marks no descriptor up to fdmax.
Accept ==
  /\ pc \in Loops /\ step = "select" /\ ConnectionPending
  /\ step' = "test"
  /\ backlog' = Tail(backlog)
  /\ \/ \E fd \in Fds \ Open :
           /\ \A g \in Fds \ Open : fd <= g
           /\ peer' = [peer EXCEPT ![fd] = Head(backlog)]
           /\ master' = master \cup {fd}
           /\ fdmax' = max(fd, fdmax)
     \/ UNCHANGED <<peer, master, fdmax>>
  /\ UNCHANGED <<pc, ready, waiting, members, ballot, downloaded, movie, buffer,
                 expired, gone, inbox, sending, said, connects>>

\* select without a pending connection: returns when some socket of
\* master_set, up to fdmax, is readable.
Select ==
  /\ pc \in Loops /\ step = "select" /\ ~ConnectionPending
  /\ ready' = ReadyNow
  /\ ready' # {}
  /\ step' = "serve"
  /\ UNCHANGED <<pc, waiting, members, ballot, downloaded, movie, buffer,
                 expired, sockets, inbox, sending, said, connects>>

ServeVoting(fd) ==
  /\ Serving("voting", fd)
  /\ NextDescriptor(fd)
  /\ IF inbox[fd] # <<>> THEN handle_voting(fd, inbox[fd]) ELSE Ignore(fd, <<>>)
  /\ UNCHANGED <<waiting, movie, buffer, expired, connects>>

ServeDownload(fd) ==
  /\ Serving("download", fd)
  /\ NextDescriptor(fd)
  /\ IF inbox[fd] # <<>>
     THEN handle_download(fd, ReadInto(buffer, <<Head(inbox[fd])>>), Unread(inbox[fd]))
     ELSE Ignore(fd, <<>>)
  /\ buffer' = <<>>
  /\ UNCHANGED <<waiting, movie, expired, connects>>

\* The first read of the playing loop takes everything; at end of file there
\* is no second read, and the buffer is not cleared.
PlayRead(fd) ==
  /\ Serving("playing", fd) /\ waiting = NoFd
  /\ IF inbox[fd] # <<>>
     THEN /\ buffer' = ReadInto(buffer, inbox[fd])
          /\ waiting' = fd
          /\ UNCHANGED <<ready, step>>
     ELSE NextDescriptor(fd) /\ UNCHANGED <<buffer, waiting>>
  /\ Ignore(fd, <<>>)
  /\ UNCHANGED <<movie, expired, connects>>

\* The second read blocks until one more byte, or the end of file, arrives.
PlayHandle(fd) ==
  /\ Serving("playing", fd) /\ waiting = fd /\ fd \in Readable
  /\ NextDescriptor(fd)
  /\ waiting' = NoFd
  /\ IF inbox[fd] # <<>>
     THEN handle_playing(fd, ReadInto(buffer, <<Head(inbox[fd])>>), Unread(inbox[fd]))
     ELSE Ignore(fd, <<>>)
  /\ buffer' = <<>>
  /\ UNCHANGED <<movie, expired, connects>>

-----------------------------------------------------------------------------
(* run_server, voting and play_video between the loops *)

\* The local variables of a call of voting or play_video, when it begins and,
\* so that no dead value tells states apart, when it ends.
NoBallots ==
  /\ voted' = List_new
  /\ tally' = [v \in Videos |-> 0]
  /\ expired' = FALSE

\* run_server's loop: get_videos, then voting announces the videos to
\* everyone if anyone is registered, and starts with empty ballots.
BeginRound ==
  /\ pc = "round"
  /\ IF clientIDs # <<>> THEN SendToAll({MOVIES}) ELSE UNCHANGED sending
  /\ pc' = "voting" /\ step' = "select"
  /\ NoBallots
  /\ UNCHANGED <<ready, waiting, members, downloaded, movie, buffer, sockets,
                 inbox, said, connects>>

\* Faulty variants: the deadline is not tested; one ballot may be missing.
VotingOverUntimed == Len(voted) = Len(clientIDs) /\ Len(voted) >= 1
VotingOverEarly == expired \/ (Len(voted) >= Len(clientIDs) - 1 /\ Len(voted) >= 1)
VotingOver ==
  expired \/ (Len(voted) = Len(clientIDs) /\ Len(voted) >= 1)

\* Faulty variants: indices from 1; the last of the greatest cells.
WinnerFromOne(cells, max_votes) ==
  1 + Max({v \in Videos : \A u \in Videos : cells[u] <= cells[v]})
WinnerLast(cells, max_votes) ==
  Max({v \in Videos : \A u \in Videos : cells[u] <= cells[v]})

\* The first of the greatest cells if it is above the initial max_votes, else 0.
Winner(cells, max_votes) ==
  LET best == {v \in Videos : /\ cells[v] > max_votes
                              /\ \A u \in Videos : cells[u] <= cells[v]
                              /\ \A u \in Videos : u < v => cells[u] < cells[v]}
  IN IF best = {} THEN 0 ELSE CHOOSE v \in best : TRUE

\* vote_tally has video_count bytes zeroed, not video_count ints, and
\* max_votes is not initialized: both hold whatever was there.
EndVotingWith(base, max_votes) ==
  /\ pc = "voting" /\ step = "test" /\ VotingOver
  /\ movie' = Winner([v \in Videos |-> base[v] + tally[v]], max_votes)
  /\ pc' = "selected"
  /\ NoBallots
  /\ hasFilm' = {}
  /\ UNCHANGED <<step, ready, waiting, members, downloaded, buffer, sockets,
                 inbox, stalled, writing, seen, said, connects>>

EndVoting ==
  \E base \in [Videos -> GarbageInts], max_votes \in GarbageInts :
    EndVotingWith(base, max_votes)

\* play_video: MOVIE_SELECTED to everyone.
SendSelected ==
  /\ pc = "selected"
  /\ SendToAll({MOVIE_SELECTED})
  /\ pc' = "content"
  /\ UNCHANGED <<step, ready, waiting, members, ballot, downloaded, movie, buffer,
                 expired, sockets, inbox, said, connects>>

\* play_video: if anyone is registered, select blocks until some socket is
\* writable, and the video goes to those that are writable at that moment.
SelectForContent ==
  /\ pc = "content"
  /\ clientIDs # <<>> => Writable # {}
  /\ ready' = IF clientIDs # <<>> THEN Writable ELSE {}
  /\ pc' = "film"
  /\ UNCHANGED <<step, waiting, members, ballot, downloaded, movie, buffer, expired,
                 sockets, inbox, sending, said, connects>>

\* The body of the for loop: the video to the next of them.
SendContent(fd) ==
  /\ pc = "film" /\ fd \in ready /\ \A g \in ready : fd <= g
  /\ Deliver({fd}, {MOVIE_CONTENT})
  /\ ready' = ready \ {fd}
  /\ UNCHANGED <<pc, step, waiting, members, ballot, downloaded, movie, buffer, expired,
                 sockets, inbox, said, connects>>

\* The download loop starts with an uninitialized counter and buffer.
StartDownload ==
  /\ pc = "film" /\ ready = {}
  /\ pc' = "download" /\ step' = "test"
  /\ downloaded' \in GarbageInts
  /\ buffer' = <<Garbage, Garbage>>
  /\ UNCHANGED <<ready, waiting, members, ballot, movie, expired, sockets, inbox,
                 sending, said, connects>>

SendStart ==
  /\ pc = "start"
  /\ SendToAll({START})
  /\ pc' = "playing" /\ step' = "test"
  /\ UNCHANGED <<ready, waiting, members, ballot, downloaded, movie, buffer,
                 expired, sockets, inbox, said, connects>>

\* end_count stays 0: handle_playing counts in downloaded_count.
end_count == 0

AllDownloaded == downloaded >= Len(clientIDs)

LoopDone ==
  CASE pc = "voting" -> VotingOver
    [] pc = "download" -> AllDownloaded
    [] pc = "playing" -> end_count >= Len(clientIDs)

StayInLoop ==
  /\ pc \in Loops /\ step = "test" /\ ~LoopDone
  /\ step' = "select"
  /\ UNCHANGED <<pc, ready, waiting, members, ballot, downloaded, movie, buffer,
                 expired, sockets, inbox, sending, said, connects>>

EndDownload ==
  /\ pc = "download" /\ step = "test" /\ LoopDone
  /\ pc' = "start"
  /\ UNCHANGED <<step, ready, waiting, members, ballot, downloaded, movie, buffer,
                 expired, sockets, inbox, sending, said, connects>>

EndPlaying ==
  /\ pc = "playing" /\ step = "test" /\ LoopDone
  /\ pc' = "round"
  /\ downloaded' = 0 /\ movie' = 0 /\ buffer' = <<>>
  /\ joined' = {}
  /\ UNCHANGED <<step, ready, waiting, clientIDs, ballot, expired, sockets, inbox,
                 sending, said, connects>>

-----------------------------------------------------------------------------
(* The clients, their network and the clock *)

serverVars == <<control, members, ballot, downloaded, movie, buffer, master, fdmax>>

Queued(c) == \E i \in 1..Len(backlog) : backlog[i] = c

Connected(c) == Queued(c) \/ \E fd \in Fds \ gone : peer[fd] = c

Connect(c) ==
  /\ pc # "crashed"
  /\ ~Connected(c) /\ connects < MaxConnects
  /\ Cardinality(Open) + Len(backlog) < Cardinality(Fds)
  /\ backlog' = Append(backlog, c)
  /\ connects' = connects + 1
  /\ UNCHANGED <<serverVars, expired, peer, gone, inbox, sending, said>>

\* What a client of this protocol may send: HELLO first, a vote once it has
\* the list, DOWNLOADED once it has read the video, END_MOVIE once it was
\* told to start, and GOODBYE last.
MaySend(fd, type) ==
  /\ type \notin said[fd] /\ GOODBYE \notin said[fd]
  /\ CASE type = HELLO -> TRUE
       [] type = VOTE -> HELLO \in said[fd] /\ MOVIES \in seen[fd]
       [] type = DOWNLOADED -> MOVIE_CONTENT \in seen[fd] /\ fd \notin stalled
                               /\ HELLO \in said[fd]
       [] type = END_MOVIE -> DOWNLOADED \in said[fd] /\ START \in seen[fd]
       [] type = GOODBYE -> HELLO \in said[fd]

Send(fd, type, v) ==
  /\ pc # "crashed"
  /\ fd \in Open \ gone /\ MaySend(fd, type)
  /\ type # VOTE => v = 0
  /\ inbox' = [inbox EXCEPT ![fd] = @ \o Bytes(peer[fd], type, v)]
  /\ said' = [said EXCEPT ![fd] = @ \cup {type}]
  /\ UNCHANGED <<serverVars, expired, peer, gone, backlog, sending, connects>>

\* The client closes its end, or dies; a write to it no longer blocks.
Disconnect(fd) ==
  /\ pc # "crashed"
  /\ fd \in Open \ gone
  /\ gone' = gone \cup {fd}
  /\ stalled' = stalled \ {fd}
  /\ writing' = IF writing = fd THEN NoFd ELSE writing
  /\ UNCHANGED <<serverVars, expired, peer, inbox, backlog, seen, hasFilm, said, connects>>

\* A client takes all but a send buffer of what is being written to it, and
\* the server's write returns.
TakeVideo(fd) ==
  /\ pc # "crashed" /\ fd = writing
  /\ writing' = NoFd
  /\ UNCHANGED <<serverVars, expired, peer, gone, inbox, backlog, stalled, seen, hasFilm,
                 said, connects>>

\* A client reads the rest, and so makes room in the send buffer.
Drain(fd) ==
  /\ pc # "crashed" /\ fd \in stalled /\ fd # writing
  /\ stalled' = stalled \ {fd}
  /\ UNCHANGED <<serverVars, expired, peer, gone, inbox, backlog, writing, seen, hasFilm,
                 said, connects>>

\* SECONDS_TO_VOTE pass.
Tick ==
  /\ pc = "voting" /\ ~expired
  /\ expired' = TRUE
  /\ UNCHANGED <<serverVars, peer, gone, inbox, backlog, sending, said, connects>>

-----------------------------------------------------------------------------
Init ==
  /\ pc = "round" /\ step = "test" /\ ready = {} /\ waiting = NoFd
  /\ clientIDs = List_new /\ voted = List_new
  /\ tally = [v \in Videos |-> 0]
  /\ downloaded = 0 /\ movie = 0 /\ buffer = <<>> /\ expired = FALSE
  /\ master = {ListenFd} /\ fdmax = ListenFd
  /\ peer = [fd \in Fds |-> NoClient] /\ gone = {}
  /\ inbox = [fd \in Fds |-> <<>>] /\ backlog = <<>>
  /\ stalled = {} /\ writing = NoFd /\ seen = [fd \in Fds |-> {}] /\ hasFilm = {}
  /\ said = [fd \in Fds |-> {}] /\ connects = 0 /\ joined = {}

\* The one thread, unless it is inside a write that has not returned.
Server ==
  /\ writing = NoFd
  /\ \/ BeginRound \/ Accept \/ Select \/ StayInLoop \/ EndVoting
     \/ SendSelected \/ SelectForContent \/ StartDownload
     \/ EndDownload \/ SendStart \/ EndPlaying
     \/ \E fd \in Fds : \/ ServeVoting(fd) \/ SendContent(fd) \/ ServeDownload(fd)
                       \/ PlayRead(fd) \/ PlayHandle(fd)

Environment ==
  \/ \E c \in Clients : Connect(c)
  \/ \E fd \in Fds, type \in Script, v \in Videos : Send(fd, type, v)
  \/ \E fd \in Fds : Disconnect(fd) \/ TakeVideo(fd) \/ Drain(fd)
  \/ Tick

Next == Server \/ Environment

Spec == Init /\ [][Next]_vars

\* The server runs whenever it is not blocked in a system call; nothing
\* obliges a client to act.
FairSpec == Spec /\ WF_vars(Server)

-----------------------------------------------------------------------------
(* Safety *)

Record == [id : Seq(Int), fd : Fds]
Ballot == [id : {NULL}, fd : Fds]

\* Types of the server's, the network's and the history variables.
TypeOK ==
  /\ pc \in Loops \cup {"round", "selected", "content", "film", "start", "crashed"}
  /\ step \in {"test", "select", "serve"}
  /\ ready \subseteq Fds /\ waiting \in Fds \cup {NoFd}
  /\ clientIDs \in Seq(Record) /\ voted \in Seq(Ballot)
  /\ tally \in [Videos -> Nat] /\ downloaded \in Int /\ movie \in Videos
  /\ buffer \in Seq(Int) /\ expired \in BOOLEAN
  /\ master \subseteq Fds \cup {ListenFd} /\ fdmax \in Fds \cup {ListenFd}
  /\ peer \in [Fds -> Clients \cup {NoClient}] /\ gone \subseteq Fds
  /\ inbox \in [Fds -> Seq(Int)] /\ backlog \in Seq(Clients)
  /\ stalled \subseteq Fds /\ writing \in Fds \cup {NoFd}
  /\ hasFilm \subseteq Fds /\ joined \subseteq Fds
  /\ seen \in [Fds -> SUBSET FromServer] /\ said \in [Fds -> SUBSET Script]
  /\ connects \in Nat

\* The set given to select holds exactly the listening socket and the sockets
\* that are open, and fdmax reaches all of them, over any sequence of accept
\* and close: no client is left out and select never fails on a closed
\* descriptor (accept in the three loops, GOODBYE in the three handlers).
DescriptorsConsistent ==
  /\ master = Open \cup {ListenFd}
  /\ \A fd \in master : fd <= fdmax
  /\ gone \cup stalled \cup hasFilm \cup joined \subseteq Open
  /\ writing \in stalled \cup {NoFd}

\* What select reported in a loop is still true when the for loop gets to the
\* descriptor, whatever was served before it: its first read finds data or
\* end of file, and never blocks the server (lines 97, 136 and 228).
ServedHaveInput ==
  pc # "film" => ready \subseteq Readable \cup {waiting}

\* The list of those who voted and the tally tell the same story: a
\* descriptor is listed once, and its ballot counts for one of the videos (a
\* byte that names no video would be counted outside the tally, 272).
BallotsMatchVoted ==
  /\ \A i, j \in 1..Len(voted) : voted[i].fd = voted[j].fd => i = j
  /\ \E choice \in [1..Len(voted) -> Videos] : \A v \in Videos :
       tally[v] = Cardinality({i \in 1..Len(voted) : choice[i] = v})

\* A VOTE that the server reads while voting, in the first round of its
\* connection, is not lost with what shares its read (228): it adds exactly one
\* ballot, to the video it names.  What is refused is the vote on a descriptor
\* that voted in this round already, for an earlier connection (270); and a
\* connection that was sent an earlier film may have its DOWNLOADED in front
\* of the vote.
VotesReadAreCounted ==
  [][\A fd \in Fds : \A i \in 1..Len(inbox[fd]) :
       /\ pc = "voting" /\ MOVIE_CONTENT \notin seen[fd]
       /\ inbox[fd][i] = VOTE /\ inbox'[fd] = <<>>
       /\ ~List_contains_fd(voted, fd)
       => tally' = [tally EXCEPT ![inbox[fd][i + 1]] = @ + 1]]_vars

\* GOODBYE removes the first record that has the name found for its descriptor
\* (276, 298, 331), which may be the record of another connection.  Whoever
\* registered while voting, under a name that nobody else has, stays on record
\* with its own descriptor until it leaves, whatever records earlier
\* connections of the same client, or of the same descriptor, have left.
MembersStayOnRecord ==
  \A fd \in Open \ gone :
    /\ MOVIES \in seen[fd]
    /\ \A c \in Clients : NameByte[c] = NameByte[peer[fd]] => c = peer[fd]
    => \E i \in 1..Len(clientIDs) :
         clientIDs[i] = Entry_new(<<NameByte[peer[fd]]>>, fd)

\* Whoever's HELLO was handled in this round has been sent its film by the
\* time the server waits for downloads: the broadcast (67-76) skips none of
\* those who registered while voting, and later ones get it with their HELLO.
JoinedHaveFilm ==
  pc \in {"download", "start", "playing"} => joined \subseteq hasFilm

\* While downloads are awaited, every DOWNLOADED is counted exactly once, from
\* whatever the uninitialized counter held (79): what is counted plus what is
\* still queued grows by the DOWNLOADEDs that are sent and by nothing else,
\* whatever shares the queue and whoever comes and goes (lines 82-107).
Announced ==
  downloaded + Cardinality({fd \in Open : \E i \in 1..Len(inbox[fd]) : inbox[fd][i] = DOWNLOADED})
DownloadsAreCounted ==
  [][pc = "download" /\ pc' = "download" =>
       Announced' = Announced
                    + Cardinality({fd \in Fds : DOWNLOADED \in said'[fd] \ said[fd]})]_vars

\* The test compares two lengths (239), and those who have voted and left count
\* in one of them only.  While nobody who voted has left, a vote that ends
\* before its deadline has the ballot of everybody who is registered.
FdsOf(list) == {list[i].fd : i \in 1..Len(list)}
EarlyEndHasAllBallots ==
  [][pc = "voting" /\ pc' = "selected" /\ ~expired /\ FdsOf(voted) \subseteq FdsOf(clientIDs)
       => FdsOf(voted) = FdsOf(clientIDs)]_vars

\* The promise of WatchParty, whose film and ballots are those of the round.
Party == INSTANCE WatchParty WITH
  Films <- Videos,
  stage <- CASE pc = "round" -> "idle"
             [] pc = "voting" -> "voting"
             [] pc \in {"selected", "content", "film", "download", "start"} -> "loading"
             [] pc = "playing" -> "playing"
             [] pc = "crashed" -> "stopped",
  ballots <- tally,
  film <- movie

PartySpec == Party!Spec

-----------------------------------------------------------------------------
(* Liveness *)

\* The server is inside a system call that cannot return now: the write of a
\* film, a select for writing without a writable socket, the answer to a HELLO
\* over a full socket, the second read of the playing loop without input.
Blocked ==
  \/ writing # NoFd
  \/ pc \in {"selected", "start"} /\ Writable = {}
  \/ pc \in {"round", "content"} /\ clientIDs # <<>> /\ Writable = {}
  \/ /\ pc \in Loops /\ step = "serve" /\ Min(ready) \in stalled
     /\ pc = "playing" => waiting # NoFd
     /\ inbox[Min(ready)] # <<>> /\ Head(inbox[Min(ready)]) = HELLO
  \/ waiting # NoFd /\ waiting \notin Readable

\* The deadline is tested after select returns (213, 236-244): once it has
\* passed, voting ends as soon as anything at all happens on a socket.
VotingEndsAfterDeadline ==
  (pc = "voting" /\ expired /\ (Readable # {} \/ backlog # <<>>))
    ~> (pc # "voting" \/ []Blocked)

\* A pending connection is taken by accept in whatever loop the server is or
\* comes to, however busy the other sockets are.  A slow reader can delay it
\* by a film and a full send buffer in turn, and keeps it waiting only if it
\* keeps the server blocked for ever (or GOODBYE has killed the server, 276).
ConnectionsAreAccepted ==
  \A c \in Clients : Queued(c) ~> (~Queued(c) \/ pc = "crashed" \/ []Blocked)

-----------------------------------------------------------------------------
(* What the comments and the README say, and the code does not do *)

\* "the vote-winning movie" (server.c:40): no video has more votes than the
\* one that is chosen.
VoteWinnerPlays ==
  [][pc = "voting" /\ pc' = "selected" =>
       \A v \in Videos : tally[v] <= tally[movie']]_vars

\* "Service all sockets with input pending" (server.c:126): what a client has
\* sent while the film plays is read while it plays.
PlayingServesAll ==
  \A fd \in Fds :
    (pc = "playing" /\ inbox[fd] # <<>>) ~> (pc # "playing" \/ inbox[fd] = <<>>)

=============================================================================
