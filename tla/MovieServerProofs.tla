------------------------- MODULE MovieServerProofs -------------------------
(***************************************************************************)
(* What MovieServer guarantees for every number of clients, videos and     *)
(* descriptors and for whatever the uninitialized variables hold: the      *)
(* types, that the set given to select is the set of open sockets, and     *)
(* that the service loop never reads from a socket without input.          *)
(***************************************************************************)
EXTENDS MovieServer, SequenceTheorems, TLAPS

\* While descriptors are left to serve, or to be written the film, the server
\* is in the loop that does so, they are open, and a second read is pending for
\* one of them at most.
LoopControl ==
  /\ ready \subseteq Open
  /\ ready # {} => pc = "film" \/ (step = "serve" /\ pc \in Loops \cup {"crashed"})
  /\ waiting # NoFd => waiting \in ready /\ pc = "playing"

IInv == TypeOK /\ DescriptorsConsistent /\ ServedHaveInput /\ LoopControl

-----------------------------------------------------------------------------
(* The operators of the model *)

\* A part of a sequence is a sequence over the same set.
LEMMA SubSeqType ==
  ASSUME NEW E, NEW s \in Seq(E), NEW m \in Nat, NEW n \in Int, m >= 1, n <= Len(s)
  PROVE  SubSeq(s, m, n) \in Seq(E)
  <1>1. \A i \in m..n : i \in 1..Len(s) BY LenProperties
  <1>2. \A i \in m..n : s[i] \in E BY <1>1, ElementOfSeq
  <1>3. QED BY <1>2, SubSeqProperties

\* A read of some bytes into a buffer leaves a buffer (read(2) in 97, 136).
LEMMA ReadIntoType ==
  ASSUME NEW buf \in Seq(Int), NEW bytes \in Seq(Int)
  PROVE  ReadInto(buf, bytes) \in Seq(Int)
  <1>1. SubSeq(buf, Len(bytes) + 1, Len(buf)) \in Seq(Int)
    BY LenProperties, SubSeqProperties
  <1>2. QED BY <1>1, ConcatProperties DEF ReadInto

\* The string in a message is a sequence of bytes (strcpy in 267, 292, 315).
LEMMA DataStringType ==
  ASSUME NEW buf \in Seq(Int)
  PROVE  DataString(buf) \in Seq(Int)
  <1> DEFINE End(i) == buf[i] = 0 \/ buf[i] >= FirstName
             first == {i \in 2..Len(buf) : End(i) /\ \A j \in 2..(i - 1) : ~End(j)}
             k == CHOOSE i \in first : TRUE
  <1>1. CASE first = {}
    <2>1. DataString(buf) = SubSeq(buf, 2, Len(buf)) BY <1>1 DEF DataString
    <2>2. SubSeq(buf, 2, Len(buf)) \in Seq(Int) BY LenProperties, SubSeqProperties
    <2>3. QED BY <2>1, <2>2
  <1>2. CASE first # {}
    <2>1. k \in first BY <1>2
    <2>2. k \in 2..Len(buf) BY <2>1
    <2>3. DataString(buf) = SubSeq(buf, 2, IF buf[k] = 0 THEN k - 1 ELSE k)
      BY <1>2 DEF DataString
    <2>4. SubSeq(buf, 2, k - 1) \in Seq(Int) /\ SubSeq(buf, 2, k) \in Seq(Int)
      <3>1. Len(buf) \in Nat BY LenProperties
      <3>2. /\ k \in Int /\ k - 1 \in Int /\ k <= Len(buf) /\ k - 1 <= Len(buf)
            /\ 2 \in Nat /\ 2 >= 1
        BY <2>2, <3>1
      <3>3. SubSeq(buf, 2, k - 1) \in Seq(Int) BY <3>2, SubSeqType
      <3>4. SubSeq(buf, 2, k) \in Seq(Int) BY <3>2, SubSeqType
      <3>5. QED BY <3>3, <3>4
    <2>5. QED BY <2>3, <2>4
  <1>3. QED BY <1>1, <1>2

\* Removing an entry from a list leaves a list (List_remove in list.c).
LEMMA RemoveType ==
  ASSUME NEW E, NEW list \in Seq(E), NEW clientID
  PROVE  List_remove(list, clientID) \in Seq(E)
  <1> DEFINE found == FirstOfID(list, clientID)
             k == CHOOSE i \in found : TRUE
  <1>1. CASE found = {} BY <1>1 DEF List_remove
  <1>2. CASE found # {}
    <2>1. k \in 1..Len(list) BY <1>2 DEF FirstOfID
    <2>2. List_remove(list, clientID) = SubSeq(list, 1, k - 1) \o SubSeq(list, k + 1, Len(list))
      BY <1>2 DEF List_remove, RemoveAt
    <2>3. SubSeq(list, 1, k - 1) \in Seq(E) /\ SubSeq(list, k + 1, Len(list)) \in Seq(E)
      <3>1. Len(list) \in Nat BY LenProperties
      <3>2. /\ k \in Nat /\ k - 1 \in Int /\ k >= 1 /\ k - 1 <= Len(list)
            /\ 1 \in Nat /\ 1 >= 1
        BY <2>1, <3>1
      <3>3. SubSeq(list, 1, k - 1) \in Seq(E) BY <3>2, SubSeqType
      <3>4. SubSeq(list, k + 1, Len(list)) \in Seq(E)
        <4>1. k + 1 \in Nat /\ k + 1 >= 1 /\ Len(list) \in Int /\ Len(list) <= Len(list)
          BY <3>1, <3>2
        <4>2. QED BY <4>1, SubSeqType
      <3>5. QED BY <3>3, <3>4
    <2>4. QED BY <2>2, <2>3, ConcatProperties
  <1>3. QED BY <1>1, <1>2

\* The winning index is the index of a video (246-254).
LEMMA WinnerType ==
  ASSUME NEW cells, NEW max_votes
  PROVE  Winner(cells, max_votes) \in Videos
  <1> DEFINE best == {v \in Videos : /\ cells[v] > max_votes
                                     /\ \A u \in Videos : cells[u] <= cells[v]
                                     /\ \A u \in Videos : u < v => cells[u] < cells[v]}
  <1>1. 0 \in Videos BY VideoCountAssumption DEF Videos
  <1>2. CASE best = {} BY <1>1, <1>2 DEF Winner
  <1>3. CASE best # {}
    <2>1. (CHOOSE v \in best : TRUE) \in Videos BY <1>3
    <2>2. QED BY <1>3, <2>1 DEF Winner
  <1>4. QED BY <1>2, <1>3

\* What a client sends is a sequence of bytes.
LEMMA BytesType ==
  ASSUME NEW c \in Clients, NEW type \in Int, NEW v \in Videos
  PROVE  Bytes(c, type, v) \in Seq(Int) /\ Bytes(c, type, v) # <<>>
  <1>1. NameByte[c] \in Int BY NameAssumption DEF FirstName, Garbage
  <1>2. v \in Int BY VideoCountAssumption DEF Videos
  <1>3. QED BY <1>1, <1>2 DEF Bytes, HELLO, VOTE

-----------------------------------------------------------------------------
(* The service of one descriptor: whatever branch its handler takes *)

\* A new list of records after HELLO, a new ballot after VOTE.
LEMMA AddType ==
  ASSUME NEW fd \in Fds
  PROVE  /\ \A list \in Seq(Record), name \in Seq(Int) : List_add(list, name, fd) \in Seq(Record)
         /\ \A list \in Seq(Ballot) : List_add(list, NULL, fd) \in Seq(Ballot)
  <1>1. \A name \in Seq(Int) : Entry_new(name, fd) \in Record BY DEF Entry_new, Record
  <1>2. Entry_new(NULL, fd) \in Ballot BY DEF Entry_new, Ballot
  <1>3. QED BY <1>1, <1>2, AppendProperties DEF List_add

\* The branches of the handlers keep the types of what they change.
LEMMA HandlerType ==
  ASSUME IInv, NEW fd \in Fds, fd \in ready, pc \in Loops, NextDescriptor(fd),
         NEW name \in Seq(Int), NEW rest \in Seq(Int), NEW video,
         NEW types \in SUBSET FromServer,
         waiting' = NoFd, buffer' \in Seq(Int), UNCHANGED <<movie, expired, connects>>,
         \/ Hello(fd, name, types, rest) \/ Vote(fd, video, rest)
         \/ Goodbye(fd) \/ Count(fd, rest) \/ Ignore(fd, rest)
  PROVE  TypeOK'
  <1> USE DEF IInv, TypeOK
  <1>1. /\ ready' \subseteq Fds /\ waiting' \in Fds \cup {NoFd}
        /\ step' \in {"test", "select", "serve"}
        /\ buffer' \in Seq(Int) /\ movie' \in Videos /\ expired' \in BOOLEAN
        /\ connects' \in Nat
    BY DEF NextDescriptor
  <1>2. CASE Hello(fd, name, types, rest)
    <2>1. clientIDs' \in Seq(Record) BY <1>2, AddType DEF Hello
    <2>2. /\ seen' \in [Fds -> SUBSET FromServer]
          /\ stalled' \subseteq Fds /\ hasFilm' \subseteq Fds
          /\ writing' \in Fds \cup {NoFd}
      BY <1>2 DEF Hello, Deliver, WriteVideo, DescriptorsConsistent, Open
    <2>3. inbox' \in [Fds -> Seq(Int)] /\ joined' \subseteq Fds BY <1>2 DEF Hello
    <2>4. QED BY <1>1, <1>2, <2>1, <2>2, <2>3 DEF Hello, sockets, ballot
  <1>3. CASE Vote(fd, video, rest)
    <2>1. voted' \in Seq(Ballot) BY <1>3, AddType DEF Vote
    <2>2. tally' \in [Videos -> Nat]
      <3>1. tally' = [tally EXCEPT ![video] = tally[video] + 1] BY <1>3 DEF Vote
      <3>2. CASE video \in Videos
        <4>1. tally[video] + 1 \in Nat BY <3>2
        <4>2. QED BY <3>1, <4>1
      <3>3. CASE video \notin Videos
        <4>1. tally' = [v \in Videos |-> tally[v]] BY <3>1, <3>3
        <4>2. QED BY <4>1
      <3>4. QED BY <3>2, <3>3
    <2>3. inbox' \in [Fds -> Seq(Int)] BY <1>3 DEF Vote
    <2>4. QED BY <1>1, <1>3, <2>1, <2>2, <2>3 DEF Vote, sockets, sending, members
  <1>4. CASE Goodbye(fd)
    <2>1. CASE CloseConnection(fd) /\ UNCHANGED <<pc, ballot, downloaded>>
               /\ clientIDs' = List_remove(clientIDs, List_getClientID(clientIDs, fd))
               /\ joined' = joined \ {fd}
      <3>1. clientIDs' \in Seq(Record) BY <2>1, RemoveType
      <3>2. inbox' \in [Fds -> Seq(Int)] BY <2>1, EmptySeq DEF CloseConnection
      <3>3. /\ seen' \in [Fds -> SUBSET FromServer] /\ said' \in [Fds -> SUBSET Script]
            /\ peer' \in [Fds -> Clients \cup {NoClient}]
        BY <2>1 DEF CloseConnection
      <3>4. QED BY <1>1, <2>1, <3>1, <3>2, <3>3 DEF CloseConnection, ballot
    <2>2. CASE pc' = "crashed"
               /\ UNCHANGED <<sockets, sending, ballot, members, downloaded, inbox, said>>
      BY <1>1, <2>2 DEF sockets, sending, ballot, members
    <2>3. QED BY <1>4, <2>1, <2>2 DEF Goodbye
  <1>5. CASE Count(fd, rest)
    BY <1>1, <1>5 DEF Count, sockets, sending, ballot, members
  <1>6. CASE Ignore(fd, rest)
    BY <1>1, <1>6 DEF Ignore, sockets, sending, ballot, members
  <1>7. QED BY <1>2, <1>3, <1>4, <1>5, <1>6

\* They close what they take out of the set, and leave the input of the other
\* descriptors alone.
LEMMA HandlerControl ==
  ASSUME IInv, NEW fd \in Fds, fd \in ready, pc \in Loops, NextDescriptor(fd),
         NEW name \in Seq(Int), NEW rest \in Seq(Int), NEW video,
         NEW types \in SUBSET FromServer,
         waiting = NoFd \/ waiting = fd, waiting' = NoFd, writing = NoFd,
         \/ Hello(fd, name, types, rest) \/ Vote(fd, video, rest)
         \/ Goodbye(fd) \/ Count(fd, rest) \/ Ignore(fd, rest)
  PROVE  DescriptorsConsistent' /\ ServedHaveInput' /\ LoopControl'
  <1> USE DEF IInv, DescriptorsConsistent, ServedHaveInput, LoopControl, Open, Readable,
              NextDescriptor, Loops
  <1>1. inbox \in [Fds -> Seq(Int)] /\ peer \in [Fds -> Clients \cup {NoClient}]
    BY DEF TypeOK
  <1>2. step = "serve" BY DEF IInv
  <1>3. CASE Hello(fd, name, types, rest)
    BY <1>1, <1>2, <1>3 DEF Hello, Deliver, WriteVideo, sockets
  <1>4. CASE Vote(fd, video, rest)
    BY <1>1, <1>2, <1>4 DEF Vote, sockets, sending, members
  <1>5. CASE Goodbye(fd)
    <2>1. CASE CloseConnection(fd) /\ UNCHANGED pc /\ joined' = joined \ {fd}
      BY <1>1, <1>2, <2>1 DEF CloseConnection, ListenFd, Fds
    <2>2. CASE pc' = "crashed" /\ UNCHANGED <<sockets, sending, members, inbox>>
      BY <1>1, <1>2, <2>2 DEF sockets, sending, members
    <2>3. QED BY <1>5, <2>1, <2>2 DEF Goodbye
  <1>6. CASE Count(fd, rest)
    BY <1>1, <1>2, <1>6 DEF Count, sockets, sending, members
  <1>7. CASE Ignore(fd, rest)
    BY <1>1, <1>2, <1>7 DEF Ignore, sockets, sending, members
  <1>8. QED BY <1>3, <1>4, <1>5, <1>6, <1>7

-----------------------------------------------------------------------------
(* The inductive invariant *)

\* The invariant holds when the server starts.
LEMMA InitInv == Init => IInv
  <1> SUFFICES ASSUME Init PROVE IInv OBVIOUS
  <1>1. 0 \in Videos BY VideoCountAssumption DEF Videos
  <1>2. ListenFd \in Nat BY DEF ListenFd
  <1>3. <<>> \in Seq(Record) /\ <<>> \in Seq(Ballot) /\ <<>> \in Seq(Int) /\ <<>> \in Seq(Clients)
    BY EmptySeq
  <1>4. TypeOK BY <1>1, <1>3 DEF Init, TypeOK, List_new
  <1>5. DescriptorsConsistent /\ ServedHaveInput /\ LoopControl
    BY <1>2 DEF Init, DescriptorsConsistent, ServedHaveInput, LoopControl, Open
  <1>6. QED BY <1>4, <1>5 DEF IInv

\* The steps of the loops that serve a descriptor.
LEMMA ServeInv ==
  ASSUME IInv, writing = NoFd, NEW fd \in Fds,
         ServeVoting(fd) \/ ServeDownload(fd) \/ PlayRead(fd) \/ PlayHandle(fd)
  PROVE  IInv'
  <1>1. /\ inbox[fd] \in Seq(Int) /\ buffer \in Seq(Int) /\ fd \in ready /\ pc \in Loops
        /\ <<>> \in Seq(Int)
    BY EmptySeq DEF IInv, TypeOK, ServeVoting, ServeDownload, PlayRead, PlayHandle, Serving, Loops
  <1>2. {MOVIES} \subseteq FromServer /\ {MOVIE_CONTENT} \subseteq FromServer
        /\ {MOVIE_CONTENT, START} \subseteq FromServer
    BY DEF FromServer
  <1>3. inbox[fd] # <<>> =>
          /\ Unread(inbox[fd]) \in Seq(Int)
          /\ ReadInto(buffer, <<Head(inbox[fd])>>) \in Seq(Int)
    <2>1. SUFFICES ASSUME inbox[fd] # <<>>
                   PROVE  /\ Unread(inbox[fd]) \in Seq(Int)
                          /\ ReadInto(buffer, <<Head(inbox[fd])>>) \in Seq(Int)
      OBVIOUS
    <2>2. Tail(inbox[fd]) \in Seq(Int) /\ Head(inbox[fd]) \in Int
      BY <1>1, <2>1, HeadTailProperties
    <2>3. <<Head(inbox[fd])>> \in Seq(Int) BY <2>2
    <2>4. QED BY <1>1, <2>2, <2>3, ReadIntoType DEF Unread
  <1>4. CASE ServeVoting(fd)
    <2>1. waiting = NoFd /\ waiting' = NoFd
      BY <1>4 DEF IInv, LoopControl, ServeVoting, Serving
    <2>2. PICK name, video :
             /\ name \in Seq(Int)
             /\ \/ Hello(fd, name, {MOVIES}, <<>>) \/ Vote(fd, video, <<>>)
                \/ Goodbye(fd) \/ Count(fd, <<>>) \/ Ignore(fd, <<>>)
      <3>1. CASE inbox[fd] # <<>>
        <4>1. DataString(inbox[fd]) \in Seq(Int) BY <1>1, DataStringType
        <4>2. QED BY <1>4, <3>1, <4>1 DEF ServeVoting, handle_voting
      <3>2. CASE inbox[fd] = <<>> BY <1>1, <1>4, <3>2 DEF ServeVoting
      <3>3. QED BY <3>1, <3>2
    <2>3. NextDescriptor(fd) /\ buffer' \in Seq(Int) /\ UNCHANGED <<movie, expired, connects>>
      BY <1>1, <1>4 DEF ServeVoting
    <2>4. TypeOK' BY <1>1, <1>2, <2>1, <2>2, <2>3, HandlerType
    <2>5. DescriptorsConsistent' /\ ServedHaveInput' /\ LoopControl'
      BY <1>1, <1>2, <2>1, <2>2, <2>3, HandlerControl
    <2>6. QED BY <2>4, <2>5 DEF IInv
  <1>5. CASE ServeDownload(fd)
    <2>1. waiting = NoFd /\ waiting' = NoFd
      BY <1>5 DEF IInv, LoopControl, ServeDownload, Serving
    <2>2. PICK name \in Seq(Int), rest \in Seq(Int) :
             \/ Hello(fd, name, {MOVIE_CONTENT}, rest)
             \/ Goodbye(fd) \/ Count(fd, rest) \/ Ignore(fd, rest)
      <3>1. CASE inbox[fd] # <<>>
        <4>1. DataString(ReadInto(buffer, <<Head(inbox[fd])>>)) \in Seq(Int)
          BY <1>3, <3>1, DataStringType
        <4>2. QED BY <1>3, <1>5, <3>1, <4>1 DEF ServeDownload, handle_download
      <3>2. CASE inbox[fd] = <<>> BY <1>1, <1>5, <3>2 DEF ServeDownload
      <3>3. QED BY <3>1, <3>2
    <2>3. NextDescriptor(fd) /\ buffer' \in Seq(Int) /\ UNCHANGED <<movie, expired, connects>>
      BY <1>1, <1>5 DEF ServeDownload
    <2>4. TypeOK' BY <1>1, <1>2, <2>1, <2>2, <2>3, HandlerType
    <2>5. DescriptorsConsistent' /\ ServedHaveInput' /\ LoopControl'
      BY <1>1, <1>2, <2>1, <2>2, <2>3, HandlerControl
    <2>6. QED BY <2>4, <2>5 DEF IInv
  <1>6. CASE PlayHandle(fd)
    <2>1. waiting = fd /\ waiting' = NoFd BY <1>6 DEF PlayHandle
    <2>2. PICK name \in Seq(Int), rest \in Seq(Int) :
             \/ Hello(fd, name, {MOVIE_CONTENT, START}, rest)
             \/ Goodbye(fd) \/ Count(fd, rest) \/ Ignore(fd, rest)
      <3>1. CASE inbox[fd] # <<>>
        <4>1. DataString(ReadInto(buffer, <<Head(inbox[fd])>>)) \in Seq(Int)
          BY <1>3, <3>1, DataStringType
        <4>2. QED BY <1>3, <1>6, <3>1, <4>1 DEF PlayHandle, handle_playing
      <3>2. CASE inbox[fd] = <<>> BY <1>1, <1>6, <3>2 DEF PlayHandle
      <3>3. QED BY <3>1, <3>2
    <2>3. NextDescriptor(fd) /\ buffer' \in Seq(Int) /\ UNCHANGED <<movie, expired, connects>>
      BY <1>1, <1>6 DEF PlayHandle
    <2>4. TypeOK' BY <1>1, <1>2, <2>1, <2>2, <2>3, HandlerType
    <2>5. DescriptorsConsistent' /\ ServedHaveInput' /\ LoopControl'
      BY <1>1, <1>2, <2>1, <2>2, <2>3, HandlerControl
    <2>6. QED BY <2>4, <2>5 DEF IInv
  <1>7. CASE PlayRead(fd)
    <2>1. waiting = NoFd /\ pc = "playing" BY <1>7 DEF PlayRead, Serving
    <2>2. Ignore(fd, <<>>) /\ UNCHANGED <<movie, expired, connects>> BY <1>7 DEF PlayRead
    <2>3. CASE inbox[fd] = <<>>
      <3>1. NextDescriptor(fd) /\ buffer' \in Seq(Int) /\ waiting' = NoFd
        BY <1>1, <1>7, <2>1, <2>3 DEF PlayRead
      <3>2. TypeOK' BY <1>1, <1>2, <2>2, <3>1, HandlerType
      <3>3. DescriptorsConsistent' /\ ServedHaveInput' /\ LoopControl'
        BY <1>1, <1>2, <2>1, <2>2, <3>1, HandlerControl
      <3>4. QED BY <3>2, <3>3 DEF IInv
    <2>4. CASE inbox[fd] # <<>>
      <3>1. buffer' = ReadInto(buffer, inbox[fd]) /\ waiting' = fd /\ UNCHANGED <<ready, step>>
        BY <1>7, <2>4 DEF PlayRead
      <3>2. buffer' \in Seq(Int) BY <1>1, <3>1, ReadIntoType
      <3>3. inbox' \in [Fds -> Seq(Int)] BY <1>1, <2>2 DEF Ignore, IInv, TypeOK
      <3>4. TypeOK'
        BY <2>2, <3>1, <3>2, <3>3 DEF Ignore, IInv, TypeOK, sockets, sending, ballot, members
      <3>5. DescriptorsConsistent' /\ ServedHaveInput' /\ LoopControl'
        <4>1. /\ inbox \in [Fds -> Seq(Int)] /\ inbox' = [inbox EXCEPT ![fd] = <<>>]
              /\ UNCHANGED <<master, fdmax, peer, gone, stalled, writing, hasFilm, joined, pc>>
          BY <2>2 DEF Ignore, IInv, TypeOK, sockets, sending, members
        <4>2. DescriptorsConsistent' BY <4>1 DEF IInv, DescriptorsConsistent, Open
        <4>3. ServedHaveInput'
          BY <2>1, <3>1, <4>1
          DEF IInv, ServedHaveInput, LoopControl, Readable, Open, Fds, NoFd
        <4>4. LoopControl'
          BY <1>1, <2>1, <3>1, <4>1 DEF IInv, LoopControl, Open
        <4>5. QED BY <4>2, <4>3, <4>4
      <3>6. QED BY <3>4, <3>5 DEF IInv
    <2>5. QED BY <2>3, <2>4
  <1>8. QED BY <1>4, <1>5, <1>6, <1>7

\* Between the loops, and at their tests, no descriptor is left to serve.
LEMMA NothingToServe ==
  ASSUME IInv, pc # "film", step # "serve" \/ pc \notin Loops \cup {"crashed"}
  PROVE  ready = {} /\ waiting = NoFd
  BY DEF IInv, LoopControl

\* send_to_all writes to open sockets only.
LEMMA SendToAllType ==
  ASSUME IInv, NEW types \in SUBSET FromServer, SendToAll(types) \/ UNCHANGED sending
  PROVE  /\ seen' \in [Fds -> SUBSET FromServer]
         /\ stalled' \subseteq Open /\ hasFilm' \subseteq Open
         /\ writing' \in stalled' \cup {NoFd}
  <1>1. Writable \subseteq Open /\ Open \subseteq Fds
    BY DEF IInv, DescriptorsConsistent, Writable, Open
  <1>2. CASE SendToAll(types)
    BY <1>1, <1>2 DEF IInv, TypeOK, DescriptorsConsistent, SendToAll, Deliver, WriteVideo
  <1>3. CASE UNCHANGED sending
    BY <1>3 DEF IInv, TypeOK, DescriptorsConsistent, sending
  <1>4. QED BY <1>2, <1>3

\* The steps between the loops, where no descriptor is being served.
LEMMA PhaseInv ==
  ASSUME IInv,
         \/ BeginRound \/ EndVoting \/ SendSelected \/ StartDownload
         \/ EndDownload \/ SendStart \/ EndPlaying \/ StayInLoop
  PROVE  IInv'
  <1> USE DEF Loops, EndVotingWith
  <1>1. ready = {} /\ waiting = NoFd
    <2>1. CASE StartDownload BY <2>1 DEF StartDownload, IInv, LoopControl
    <2>2. CASE ~StartDownload
      BY <2>2, NothingToServe DEF BeginRound, EndVoting, SendSelected, EndDownload,
                                  SendStart, EndPlaying, StayInLoop
    <2>3. QED BY <2>1, <2>2
  <1>2. UNCHANGED <<ready, waiting, clientIDs, sockets, inbox, said, connects>>
    BY DEF BeginRound, EndVoting, SendSelected, StartDownload, EndDownload, SendStart,
           EndPlaying, StayInLoop, members
  <1>3. /\ seen' \in [Fds -> SUBSET FromServer]
        /\ stalled' \subseteq Open /\ hasFilm' \subseteq Open
        /\ writing' \in stalled' \cup {NoFd}
    <2>1. \A m \in {MOVIES, MOVIE_SELECTED, MOVIE_CONTENT, START} : {m} \in SUBSET FromServer
      BY DEF FromServer
    <2>2. CASE EndVoting
      BY <2>2 DEF EndVoting, IInv, TypeOK, DescriptorsConsistent
    <2>3. CASE BeginRound BY <2>1, <2>3, SendToAllType DEF BeginRound
    <2>4. CASE SendSelected BY <2>1, <2>4, SendToAllType DEF SendSelected
    <2>5. CASE StartDownload
      BY <2>5 DEF StartDownload, sending, IInv, TypeOK, DescriptorsConsistent
    <2>6. CASE SendStart BY <2>1, <2>6, SendToAllType DEF SendStart
    <2>7. CASE EndDownload \/ EndPlaying \/ StayInLoop
      BY <2>7 DEF EndDownload, EndPlaying, StayInLoop, sending, IInv, TypeOK, DescriptorsConsistent
    <2>8. QED BY <2>2, <2>3, <2>4, <2>5, <2>6, <2>7
  <1>4. /\ voted' \in Seq(Ballot)
        /\ tally' \in [Videos -> Nat] /\ expired' \in BOOLEAN
    <2>1. CASE NoBallots BY <2>1, EmptySeq DEF NoBallots, List_new
    <2>2. CASE UNCHANGED <<ballot, expired>> BY <2>2 DEF ballot, IInv, TypeOK
    <2>3. QED BY <2>1, <2>2 DEF BeginRound, EndVoting, SendSelected, StartDownload,
                               EndDownload, SendStart, EndPlaying, StayInLoop
  <1>5. movie' \in Videos
    <2>1. 0 \in Videos BY VideoCountAssumption DEF Videos
    <2>2. CASE EndVoting BY <2>2, WinnerType DEF EndVoting
    <2>3. CASE EndPlaying BY <2>1, <2>3 DEF EndPlaying
    <2>4. CASE ~EndVoting /\ ~EndPlaying
      BY <2>4 DEF BeginRound, SendSelected, StartDownload, EndDownload, SendStart,
                  StayInLoop, IInv, TypeOK
    <2>5. QED BY <2>2, <2>3, <2>4
  <1>6. downloaded' \in Int /\ buffer' \in Seq(Int)
    <2>1. <<>> \in Seq(Int) /\ <<Garbage, Garbage>> \in Seq(Int) BY EmptySeq DEF Garbage
    <2>2. CASE StartDownload BY <2>1, <2>2, GarbageAssumption DEF StartDownload
    <2>3. CASE EndPlaying BY <2>1, <2>3 DEF EndPlaying
    <2>4. CASE ~StartDownload /\ ~EndPlaying
      BY <2>4 DEF BeginRound, EndVoting, SendSelected, EndDownload, SendStart,
                  StayInLoop, IInv, TypeOK
    <2>5. QED BY <2>2, <2>3, <2>4
  <1>7. joined' \subseteq joined
    BY DEF BeginRound, EndVoting, SendSelected, StartDownload, EndDownload, SendStart,
           EndPlaying, StayInLoop, members
  <1>8. /\ pc' \in Loops \cup {"round", "selected", "content", "start", "crashed"}
        /\ step' \in {"test", "select", "serve"}
    BY DEF BeginRound, EndVoting, SendSelected, StartDownload, EndDownload, SendStart,
           EndPlaying, StayInLoop, IInv, TypeOK
  <1>9. TypeOK'
    BY <1>1, <1>2, <1>3, <1>4, <1>5, <1>6, <1>7, <1>8 DEF IInv, TypeOK, sockets, Open
  <1>10. DescriptorsConsistent' /\ ServedHaveInput' /\ LoopControl'
    BY <1>1, <1>2, <1>3, <1>7
    DEF IInv, DescriptorsConsistent, ServedHaveInput, LoopControl, sockets, Open
  <1>11. QED BY <1>9, <1>10 DEF IInv

\* The broadcast of the film: select, and the write to one descriptor.
LEMMA FilmInv ==
  ASSUME IInv, SelectForContent \/ \E fd \in Fds : SendContent(fd)
  PROVE  IInv'
  <1>1. Writable \subseteq Open /\ Open \subseteq Fds
    BY DEF IInv, DescriptorsConsistent, Writable, Open
  <1>2. waiting = NoFd
    BY DEF IInv, LoopControl, SelectForContent, SendContent
  <1>3. CASE SelectForContent
    <2>1. ready' \subseteq Open BY <1>1, <1>3 DEF SelectForContent
    <2>2. TypeOK'
      BY <1>1, <1>3, <2>1 DEF SelectForContent, IInv, TypeOK, members, ballot, sockets, sending
    <2>3. DescriptorsConsistent' /\ ServedHaveInput' /\ LoopControl'
      BY <1>2, <1>3, <2>1
      DEF SelectForContent, IInv, DescriptorsConsistent, ServedHaveInput, LoopControl, Open,
          sockets, sending, members
    <2>4. QED BY <2>2, <2>3 DEF IInv
  <1>4. ASSUME NEW fd \in Fds, SendContent(fd) PROVE IInv'
    <2>1. /\ ready' = ready \ {fd} /\ fd \in Open /\ ready \subseteq Open /\ pc' = "film"
          /\ UNCHANGED <<waiting, clientIDs, joined, sockets, inbox>>
      BY <1>4 DEF SendContent, IInv, LoopControl, members
    <2>2. {MOVIE_CONTENT} \in SUBSET FromServer BY DEF FromServer
    <2>3. /\ seen' \in [Fds -> SUBSET FromServer]
          /\ stalled' \subseteq Open /\ hasFilm' \subseteq Open
          /\ writing' \in stalled' \cup {NoFd}
      BY <1>1, <1>4, <2>1, <2>2
      DEF SendContent, Deliver, WriteVideo, IInv, TypeOK, DescriptorsConsistent
    <2>4. TypeOK'
      BY <1>1, <1>4, <2>1, <2>3 DEF SendContent, IInv, TypeOK, members, ballot, sockets
    <2>5. DescriptorsConsistent' /\ ServedHaveInput' /\ LoopControl'
      BY <1>2, <2>1, <2>3
      DEF IInv, DescriptorsConsistent, ServedHaveInput, LoopControl, Open, sockets
    <2>6. QED BY <2>4, <2>5 DEF IInv
  <1>5. QED BY <1>3, <1>4

\* accept and select.
LEMMA SelectInv ==
  ASSUME IInv, Accept \/ Select
  PROVE  IInv'
  <1>1. ready = {} /\ waiting = NoFd
    BY NothingToServe DEF Accept, Select, Loops
  <1>2. CASE Accept
    <2>1. Tail(backlog) \in Seq(Clients) /\ Head(backlog) \in Clients
      BY <1>2, HeadTailProperties DEF Accept, ConnectionPending, IInv, TypeOK
    <2>2. UNCHANGED <<pc, ready, waiting, gone, inbox, stalled, writing, hasFilm, joined>>
      BY <1>2 DEF Accept, sending, members
    <2>3. CASE UNCHANGED <<peer, master, fdmax>>
      <3>1. TypeOK'
        BY <1>2, <2>1, <2>3 DEF Accept, IInv, TypeOK, members, ballot, sending
      <3>2. DescriptorsConsistent' /\ ServedHaveInput' /\ LoopControl'
        BY <1>1, <2>2, <2>3
        DEF IInv, DescriptorsConsistent, ServedHaveInput, LoopControl, Open
      <3>3. QED BY <3>1, <3>2 DEF IInv
    <2>4. ASSUME NEW fd \in Fds \ Open,
                 peer' = [peer EXCEPT ![fd] = Head(backlog)],
                 master' = master \cup {fd}, fdmax' = max(fd, fdmax)
          PROVE  IInv'
      <3>1. peer \in [Fds -> Clients \cup {NoClient}] /\ fdmax \in Fds \cup {ListenFd}
        BY DEF IInv, TypeOK
      <3>2. /\ fdmax' \in Fds \cup {ListenFd}
            /\ fdmax' >= fd /\ fdmax' >= fdmax
        BY <2>4, <3>1, BoundAssumption DEF max, Fds, ListenFd
      <3>3. peer' \in [Fds -> Clients \cup {NoClient}] BY <2>1, <2>4, <3>1
      <3>4. Open' = Open \cup {fd}
        BY <2>1, <2>4, <3>1, NameAssumption DEF Open
      <3>5. TypeOK'
        BY <1>2, <2>1, <2>4, <3>2, <3>3 DEF Accept, IInv, TypeOK, members, ballot, sending
      <3>6. \A g \in master : g <= fdmax /\ g \in Int
        BY BoundAssumption DEF IInv, TypeOK, DescriptorsConsistent, Fds, ListenFd
      <3>7. \A g \in master' : g <= fdmax'
        BY <2>4, <3>1, <3>2, <3>6, BoundAssumption DEF Fds, ListenFd
      <3>8. DescriptorsConsistent' /\ ServedHaveInput' /\ LoopControl'
        BY <1>1, <2>2, <2>4, <3>4, <3>7
        DEF IInv, DescriptorsConsistent, ServedHaveInput, LoopControl
      <3>9. QED BY <3>5, <3>8 DEF IInv
    <2>5. QED BY <1>2, <2>3, <2>4 DEF Accept
  <1>3. CASE Select
    <2>1. ready' \subseteq Readable /\ Readable \subseteq Open /\ Open \subseteq Fds
      BY <1>3 DEF Select, ReadyNow, Readable, Open
    <2>2. TypeOK'
      BY <1>3, <2>1 DEF Select, IInv, TypeOK, members, ballot, sockets, sending
    <2>3. UNCHANGED <<pc, waiting, master, fdmax, peer, gone, inbox, stalled, writing, hasFilm, joined>>
      BY <1>3 DEF Select, members, sockets, sending
    <2>4. DescriptorsConsistent' /\ ServedHaveInput' /\ LoopControl'
      BY <1>1, <1>3, <2>1, <2>3
      DEF Select, IInv, DescriptorsConsistent, ServedHaveInput, LoopControl, Open, Readable
    <2>5. QED BY <2>2, <2>4 DEF IInv
  <1>4. QED BY <1>2, <1>3

\* The clients, the network and the clock leave the server's sets alone, and
\* take no input or end of file away.
LEMMA EnvironmentInv ==
  ASSUME IInv, Environment
  PROVE  IInv'
  <1> USE DEF serverVars, control, members, ballot
  <1>1. inbox \in [Fds -> Seq(Int)] /\ peer \in [Fds -> Clients \cup {NoClient}]
    BY DEF IInv, TypeOK
  <1>2. ASSUME NEW c \in Clients, Connect(c) PROVE IInv'
    <2>1. backlog' \in Seq(Clients) BY <1>2, AppendProperties DEF Connect, IInv, TypeOK
    <2>2. TypeOK' BY <1>2, <2>1 DEF Connect, sending, IInv, TypeOK
    <2>3. DescriptorsConsistent' /\ ServedHaveInput' /\ LoopControl'
      BY <1>2 DEF Connect, sending, IInv, DescriptorsConsistent, ServedHaveInput, LoopControl,
                  Open, Readable
    <2>4. QED BY <2>2, <2>3 DEF IInv
  <1>3. ASSUME NEW fd \in Fds, NEW type \in Script, NEW v \in Videos, Send(fd, type, v)
        PROVE  IInv'
    <2>1. fd \in Open /\ peer[fd] \in Clients BY <1>1, <1>3 DEF Send, Open
    <2>2. type \in Int BY ScriptAssumption
    <2>3. Bytes(peer[fd], type, v) \in Seq(Int) /\ Bytes(peer[fd], type, v) # <<>>
      BY <2>1, <2>2, BytesType
    <2>4. inbox[fd] \o Bytes(peer[fd], type, v) \in Seq(Int)
          /\ inbox[fd] \o Bytes(peer[fd], type, v) # <<>>
      BY <1>1, <2>3, ConcatProperties, ConcatEqualIffEmpty
    <2>5. inbox' = [inbox EXCEPT ![fd] = inbox[fd] \o Bytes(peer[fd], type, v)]
      BY <1>3 DEF Send
    <2>6. inbox' \in [Fds -> Seq(Int)] BY <1>1, <2>4, <2>5
    <2>7. TypeOK' BY <1>3, <2>6 DEF Send, sending, IInv, TypeOK
    <2>8. \A g \in Fds : inbox[g] # <<>> => inbox'[g] # <<>> BY <1>1, <2>4, <2>5
    <2>9. DescriptorsConsistent' /\ ServedHaveInput' /\ LoopControl'
      BY <1>3, <2>8 DEF Send, sending, IInv, DescriptorsConsistent, ServedHaveInput,
                        LoopControl, Open, Readable
    <2>10. QED BY <2>7, <2>9 DEF IInv
  <1>4. ASSUME NEW fd \in Fds, Disconnect(fd) \/ TakeVideo(fd) \/ Drain(fd)
        PROVE  IInv'
    <2>1. /\ gone' \subseteq Open /\ gone \subseteq gone' /\ Open \subseteq Fds
          /\ stalled' \subseteq stalled /\ writing' \in stalled' \cup {NoFd}
      BY <1>4 DEF Disconnect, TakeVideo, Drain, IInv, DescriptorsConsistent, Open
    <2>2. UNCHANGED <<serverVars, expired, peer, inbox, backlog, seen, hasFilm, said, connects>>
      BY <1>4 DEF Disconnect, TakeVideo, Drain
    <2>3. TypeOK' BY <2>1, <2>2 DEF IInv, TypeOK
    <2>4. DescriptorsConsistent' /\ ServedHaveInput' /\ LoopControl'
      BY <2>1, <2>2 DEF IInv, DescriptorsConsistent, ServedHaveInput, LoopControl, Open, Readable
    <2>5. QED BY <2>3, <2>4 DEF IInv
  <1>5. CASE Tick
    <2>1. TypeOK' BY <1>5 DEF Tick, sending, IInv, TypeOK
    <2>2. DescriptorsConsistent' /\ ServedHaveInput' /\ LoopControl'
      BY <1>5 DEF Tick, sending, IInv, DescriptorsConsistent, ServedHaveInput, LoopControl,
                  Open, Readable
    <2>3. QED BY <2>1, <2>2 DEF IInv
  <1>6. QED BY <1>2, <1>3, <1>4, <1>5 DEF Environment

\* Every step keeps the invariant.
LEMMA NextInv == IInv /\ [Next]_vars => IInv'
  <1> SUFFICES ASSUME IInv, [Next]_vars PROVE IInv' OBVIOUS
  <1>1. CASE Server
    <2>1. CASE Accept \/ Select BY <2>1, SelectInv
    <2>2. CASE \/ BeginRound \/ StayInLoop \/ EndVoting \/ SendSelected \/ StartDownload
               \/ EndDownload \/ SendStart \/ EndPlaying
      BY <2>2, PhaseInv
    <2>3. CASE SelectForContent \/ \E fd \in Fds : SendContent(fd) BY <2>3, FilmInv
    <2>4. CASE \E fd \in Fds :
                 ServeVoting(fd) \/ ServeDownload(fd) \/ PlayRead(fd) \/ PlayHandle(fd)
      BY <1>1, <2>4, ServeInv DEF Server
    <2>5. QED BY <1>1, <2>1, <2>2, <2>3, <2>4 DEF Server
  <1>2. CASE Environment BY <1>2, EnvironmentInv
  <1>3. CASE UNCHANGED vars
    BY <1>3 DEF vars, IInv, TypeOK, DescriptorsConsistent, ServedHaveInput, LoopControl,
                Open, Readable
  <1>4. QED BY <1>1, <1>2, <1>3 DEF Next

-----------------------------------------------------------------------------
(* The theorems *)

\* The inductive invariant holds in every reachable state.
THEOREM Invariance == Spec => []IInv
  <1>1. QED BY InitInv, NextInv, PTL DEF Spec

\* Every variable keeps its type: no handler, and no byte order in which
\* messages are read, registers a record or settles on a video that is none.
THEOREM TypesAreCorrect == Spec => []TypeOK
  <1>1. IInv => TypeOK BY DEF IInv
  <1>2. QED BY <1>1, Invariance, PTL

\* master_set is the set of open sockets and fdmax reaches them all, however
\* many clients connect and say GOODBYE in whatever loop.
THEOREM DescriptorsStayConsistent == Spec => []DescriptorsConsistent
  <1>1. IInv => DescriptorsConsistent BY DEF IInv
  <1>2. QED BY <1>1, Invariance, PTL

\* The first read of a service never blocks, for any number of ready sockets
\* and whatever the services before it did.
THEOREM ServiceFindsInput == Spec => []ServedHaveInput
  <1>1. IInv => ServedHaveInput BY DEF IInv
  <1>2. QED BY <1>1, Invariance, PTL

=============================================================================
