-------------------------- MODULE ChatServerProofs --------------------------
(***************************************************************************)
(* What the chat server guarantees for any clients, identifiers, messages  *)
(* and bounds: the types, that an identifier is registered once, and that  *)
(* it implements ChatRoom.                                                 *)
(***************************************************************************)
EXTENDS ChatServer, ClientListProofs

Record == [id : IDs, fd : Fds]

\* handle works on the data of a client socket and has some left.
HandleControl == step = "handle" => current \in Fds /\ data # <<>>

IInv == TypeOK /\ UniqueIDs /\ HandleControl

-----------------------------------------------------------------------------
(* The handlers *)

Fields == {"list", "closed", "passed", "to", "cells"}

\* A registry: entries of the right type, no identifier twice.
IsRegistry(list) == list \in Seq(Record) /\ NoTwice(list)

\* What a handler may do to the room: somebody new comes in, some leave, or a
\* chat passes between two who are in, and its addressee may drop out.
Sound(list, o) ==
  /\ IsRegistry(o.list)
  /\ \/ o.passed = Nothing /\ \E names \in SUBSET IDs : Ids(o.list) = Ids(list) \ names
     \/ o.passed = Nothing /\ \E name \in IDs \ Ids(list) : Ids(o.list) = Ids(list) \cup {name}
     \/ \E from, to \in Ids(list) :
          /\ from # to /\ o.passed = <<from, to>>
          /\ Ids(o.list) \in {Ids(list), Ids(list) \ {to}}

\* The identifiers on record are identifiers.
LEMMA IdsOfRegistry ==
  ASSUME NEW list, IsRegistry(list)
  PROVE  Ids(list) \subseteq IDs
  <1>1. \A i \in 1..Len(list) : list[i] \in Record BY ElementOfSeq DEF IsRegistry
  <1>2. \A i \in 1..Len(list) : list[i].id \in IDs BY <1>1 DEF Record
  <1>3. QED BY <1>2 DEF Ids

\* List_remove lets one member go, or nobody.
LEMMA RemoveLeaves ==
  ASSUME NEW list, IsRegistry(list), NEW clientID
  PROVE  /\ IsRegistry(List_remove(list, clientID))
         /\ Ids(List_remove(list, clientID)) = Ids(list) \ {clientID}
         /\ \E names \in SUBSET IDs : Ids(List_remove(list, clientID)) = Ids(list) \ names
  <1>1. /\ IsRegistry(List_remove(list, clientID))
        /\ Ids(List_remove(list, clientID)) = Ids(list) \ {clientID}
    BY RemoveIds DEF IsRegistry
  <1>2. Ids(list) \ {clientID} = Ids(list) \ ({clientID} \cap IDs) BY IdsOfRegistry
  <1>3. {clientID} \cap IDs \in SUBSET IDs OBVIOUS
  <1>4. QED BY <1>1, <1>2, <1>3

\* A refused or broken connection: the record goes or everything stays.
LEMMA RemovingIsSound ==
  ASSUME NEW list, IsRegistry(list), NEW clientID, NEW o,
         o.passed = Nothing, o.list \in {list, List_remove(list, clientID)}
  PROVE  Sound(list, o)
  <1>1. CASE o.list = list
    <2>1. Ids(o.list) = Ids(list) \ {} /\ {} \in SUBSET IDs BY <1>1
    <2>2. QED BY <1>1, <2>1 DEF Sound
  <1>2. CASE o.list = List_remove(list, clientID)
    BY <1>2, RemoveLeaves DEF Sound
  <1>3. QED BY <1>1, <1>2

-----------------------------------------------------------------------------
(* Outcomes as records *)

Plain(o) == DOMAIN o = Fields /\ o.passed = Nothing

\* An outcome that only changes the list and closes descriptors passes no chat.
LEMMA OutcomeIsPlain ==
  ASSUME NEW list, NEW closed
  PROVE  Plain(Outcome(list, closed)) /\ Outcome(list, closed).list = list
  BY DEF Outcome, Plain, Fields

\* Writing changes neither the list of an outcome nor the chat it passes.
LEMMA WritingIsPlain ==
  ASSUME NEW o, Plain(o), NEW fd, NEW cells
  PROVE  Plain(Writing(o, fd, cells)) /\ Writing(o, fd, cells).list = o.list
  BY DEF Writing, Plain, Fields

\* removeClient takes the record out and passes no chat.
LEMMA RemoveClientIsPlain ==
  ASSUME NEW list, NEW clientID, NEW fd
  PROVE  LET o == removeClient(list, clientID, fd)
         IN Plain(o) /\ o.list = List_remove(list, clientID)
  BY OutcomeIsPlain DEF removeClient

\* After a write the list is as before, or, if it failed (validateWrite),
\* without the record of the client.
LEMMA WrittenIsPlain ==
  ASSUME NEW list, NEW clientID, NEW fd, NEW cells, NEW o \in Written(list, clientID, fd, cells)
  PROVE  Plain(o) /\ o.list \in {list, List_remove(list, clientID)}
  <1> DEFINE sent1 == Writing(Outcome(list, {}), fd, cells)
             lost == removeClient(list, clientID, fd)
  <1>1. o = lost \/ o = sent1 BY DEF Written
  <1>2. Plain(sent1) /\ sent1.list = list BY OutcomeIsPlain, WritingIsPlain
  <1>3. Plain(lost) /\ lost.list = List_remove(list, clientID) BY RemoveClientIsPlain
  <1> HIDE DEF sent1, lost
  <1>4. QED BY <1>1, <1>2, <1>3

-----------------------------------------------------------------------------
(* The handlers *)

\* A new name registers, one that is taken is refused (hello, client_present).
LEMMA HelloIsSound ==
  ASSUME NEW list, IsRegistry(list), NEW m \in Messages, NEW fd \in Fds, NEW o \in hello(list, m, fd)
  PROVE  Sound(list, o)
  <1>1. m.source \in IDs \cup {EmptyID} BY MessageAssumption
  <1>2. CASE m.source = EmptyID
    <2>1. o = removeClient(list, m.source, fd) BY <1>2 DEF hello
    <2>2. QED BY <2>1, RemoveClientIsPlain, RemovingIsSound DEF Plain
  <1>3. CASE m.source # EmptyID /\ List_contains_id(list, m.source)
    <2>1. o \in client_present(list, m.source, fd) BY <1>3 DEF hello
    <2>2. \/ o = removeClient(list, m.source, fd)
          \/ o = Writing(Outcome(list, {fd}), fd, <<"CLIENT_PRESENT">>)
      BY <2>1 DEF client_present
    <2>3. CASE o = removeClient(list, m.source, fd)
      BY <2>3, RemoveClientIsPlain, RemovingIsSound DEF Plain
    <2>4. CASE o = Writing(Outcome(list, {fd}), fd, <<"CLIENT_PRESENT">>)
      <3>1. Plain(o) /\ o.list = list BY <2>4, OutcomeIsPlain, WritingIsPlain
      <3>2. QED BY <3>1, RemovingIsSound DEF Plain
    <2>5. QED BY <2>2, <2>3, <2>4
  <1>4. CASE m.source # EmptyID /\ ~List_contains_id(list, m.source)
    <2> DEFINE longer == List_add(list, m.source, fd)
    <2>1. o \in Register(list, m.source, fd) BY <1>4 DEF hello
    <2>2. PICK w \in Written(longer, m.source, fd, <<"CLIENT_LIST", "IDS">>) :
            o = [w EXCEPT !.cells = <<"HELLO_ACK">> \o @]
      BY <2>1 DEF Register, client_list
    <2>3. Plain(w) /\ w.list \in {longer, List_remove(longer, m.source)} BY WrittenIsPlain
    <2>4. o.list = w.list /\ o.passed = Nothing BY <2>2, <2>3 DEF Plain, Fields
    <2>5. m.source \in IDs /\ m.source \notin Ids(list)
      BY <1>1, <1>4 DEF List_contains_id, Ids
    <2>6. Entry_new(m.source, fd) \in Record BY <2>5 DEF Entry_new, Record
    <2>7. IsRegistry(longer) /\ Ids(longer) = Ids(list) \cup {m.source}
      BY <2>5, <2>6, AddIds DEF IsRegistry
    <2> HIDE DEF longer
    <2>8. CASE w.list = longer
      BY <2>4, <2>5, <2>7, <2>8 DEF Sound
    <2>9. CASE w.list = List_remove(longer, m.source)
      <3>1. IsRegistry(o.list) /\ Ids(o.list) = Ids(longer) \ {m.source}
        BY <2>4, <2>7, <2>9, RemoveLeaves
      <3>2. Ids(o.list) = Ids(list) \ {} /\ {} \in SUBSET IDs BY <2>5, <2>7, <3>1
      <3>3. QED BY <2>4, <3>1, <3>2 DEF Sound
    <2>10. QED BY <2>3, <2>8, <2>9
  <1>5. QED BY <1>2, <1>3, <1>4

\* A chat passes between two members, or its sender is refused (chat).
LEMMA ChatIsSound ==
  ASSUME NEW list, IsRegistry(list), NEW m \in Messages, NEW fd \in Fds,
         m.source \in Ids(list), NEW o \in chat(list, m, fd)
  PROVE  Sound(list, o)
  <1>1. CASE m.source = m.dest
    <2>1. o = removeClient(list, m.source, fd) BY <1>1 DEF chat
    <2>2. QED BY <2>1, RemoveClientIsPlain, RemovingIsSound DEF Plain
  <1>2. CASE m.source # m.dest /\ List_contains_id(list, m.dest)
    <2> DEFINE cells == IF m.body THEN <<"CHAT", "TEXT">> ELSE <<"EMPTY_CHAT">>
    <2>1. PICK w \in Written(list, m.dest, List_getFD(list, m.dest), cells) :
            o = [w EXCEPT !.passed = <<m.source, m.dest>>]
      BY <1>2 DEF chat
    <2>2. Plain(w) /\ w.list \in {list, List_remove(list, m.dest)} BY WrittenIsPlain
    <2>3. o.list = w.list /\ o.passed = <<m.source, m.dest>> BY <2>1, <2>2 DEF Plain, Fields
    <2>4. m.dest \in Ids(list) BY <1>2 DEF List_contains_id, Ids
    <2>5. IsRegistry(o.list) /\ Ids(o.list) \in {Ids(list), Ids(list) \ {m.dest}}
      BY <2>2, <2>3, RemoveLeaves
    <2>6. QED BY <1>2, <2>3, <2>4, <2>5 DEF Sound
  <1>3. CASE m.source # m.dest /\ ~List_contains_id(list, m.dest)
    <2>1. o = Writing(removeClient(list, m.source, fd), fd, <<"CANNOT_DELIVER">>)
      BY <1>3 DEF chat
    <2>2. Plain(o) /\ o.list = List_remove(list, m.source)
      BY <2>1, RemoveClientIsPlain, WritingIsPlain
    <2>3. QED BY <2>2, RemovingIsSound DEF Plain
  <1>4. QED BY <1>1, <1>2, <1>3

\* Whatever process does with a message, the room allows (process).
LEMMA ProcessIsSound ==
  ASSUME NEW list, IsRegistry(list), NEW m \in Messages, NEW fd \in Fds,
         NEW o \in process(list, m, fd)
  PROVE  Sound(list, o)
  <1> DEFINE refused == removeClient(list, m.source, fd)
  <1>1. CASE o = refused BY <1>1, RemoveClientIsPlain, RemovingIsSound DEF Plain
  <1>2. CASE o \in hello(list, m, fd) BY <1>2, HelloIsSound
  <1>3. CASE authenticate(list, m.source, fd) /\ o \in authenticated(list, m, fd)
            /\ m.type \in {"LIST_REQUEST", "CHAT", "EXIT"}
    <2>1. m.source \in Ids(list) BY <1>3 DEF authenticate, List_contains_id, Ids
    <2>2. CASE m.type = "LIST_REQUEST"
      <3>1. o \in client_list(list, m.source, fd) BY <1>3, <2>2 DEF authenticated
      <3>2. QED BY <3>1, WrittenIsPlain, RemovingIsSound DEF client_list, Plain
    <2>3. CASE m.type = "CHAT"
      <3>1. o \in chat(list, m, fd) BY <1>3, <2>3 DEF authenticated
      <3>2. QED BY <2>1, <3>1, ChatIsSound
    <2>4. CASE m.type = "EXIT"
      <3>1. o = Outcome(List_remove(list, m.source), {}) BY <1>3, <2>4 DEF authenticated
      <3>2. QED BY <3>1, OutcomeIsPlain, RemovingIsSound DEF Plain
    <2>5. QED BY <1>3, <2>2, <2>3, <2>4
  <1>4. \/ o = refused
        \/ o \in hello(list, m, fd)
        \/ /\ authenticate(list, m.source, fd) /\ o \in authenticated(list, m, fd)
           /\ m.type \in {"LIST_REQUEST", "CHAT", "EXIT"}
    <2>1. CASE ~validateHeader(m) BY <2>1 DEF process
    <2>2. CASE validateHeader(m) /\ m.type = "HELLO" BY <2>2 DEF process
    <2>3. CASE validateHeader(m) /\ m.type # "HELLO" BY <2>3 DEF process, validateHeader
    <2>4. QED BY <2>1, <2>2, <2>3
  <1>5. QED BY <1>1, <1>2, <1>3, <1>4

-----------------------------------------------------------------------------
(* The invariant *)

\* A part of a sequence is a sequence over the same set.
LEMMA PartType ==
  ASSUME NEW E, NEW s \in Seq(E), NEW m \in Nat, NEW n \in Int, m >= 1, n <= Len(s)
  PROVE  SubSeq(s, m, n) \in Seq(E)
  <1>1. \A i \in m..n : i \in 1..Len(s) BY LenProperties
  <1>2. \A i \in m..n : s[i] \in E BY <1>1, ElementOfSeq
  <1>3. QED BY <1>2, SubSeqProperties

\* The server starts with an empty registry and nothing to handle.
LEMMA InvInit == Init => IInv
  <1> SUFFICES ASSUME Init PROVE IInv OBVIOUS
  <1>1. clientIDs = <<>> BY DEF Init, List_new
  <1>2. UniqueIDs BY <1>1 DEF UniqueIDs
  <1>3. TypeOK BY <1>1, BoundAssumption DEF Init, TypeOK, Open, Fds, ListenFd, NoFd
  <1>4. QED BY <1>2, <1>3 DEF Init, IInv, HandleControl

\* The registry is one.
LEMMA InvRegistry ==
  ASSUME IInv
  PROVE  IsRegistry(clientIDs)
  BY DEF IInv, TypeOK, UniqueIDs, IsRegistry, NoTwice, Record

\* The message that handle has completed, and the rest, are what was read.
LEMMA CompletedType ==
  ASSUME IInv, MessageComplete
  PROVE  Completed.message \in Messages /\ Completed.rest \in Seq(Cells) /\ current \in Fds
  <1>1. current \in Fds /\ data \in Seq(Cells) /\ data # <<>>
    BY DEF IInv, HandleControl, TypeOK, MessageComplete
  <1>2. container[current] \in Cells \cup {Nothing} BY <1>1 DEF IInv, TypeOK
  <1>3. Head(data) \in Cells /\ Tail(data) \in Seq(Cells) BY <1>1, HeadTailProperties
  <1>4. Len(data) \in Nat BY <1>1, LenProperties
  <1>5. SubSeq(data, 3, Len(data)) \in Seq(Cells) /\ SubSeq(data, 2, Len(data)) \in Seq(Cells)
    BY <1>1, <1>4, PartType
  <1>6. CASE container[current] # Nothing
    <2>1. Completed = [message |-> container[current], rest |-> Tail(data)]
      BY <1>6 DEF Completed
    <2>2. QED BY <1>1, <1>2, <1>3, <1>6, <2>1 DEF MessageComplete, Cells
  <1>7. CASE container[current] = Nothing
    <2>1. Completed = [message |-> Head(data),
                       rest |-> SubSeq(data, IF Head(data).body THEN 3 ELSE 2, Len(data))]
      BY <1>7 DEF Completed
    <2>2. QED BY <1>1, <1>3, <1>5, <2>1 DEF MessageComplete, Cells
  <1>8. QED BY <1>6, <1>7

\* Closing keeps the types of the sockets' variables.
LEMMA CloseType ==
  ASSUME TypeOK, NEW fds, CloseSockets(fds)
  PROVE  /\ peer' \in [Fds -> Clients \cup {NoClient}] /\ gone' \subseteq Open'
         /\ inbox' \in [Fds -> Seq(Cells)]
  <1>1. inbox' \in [Fds -> Seq(Cells)] BY DEF TypeOK, CloseSockets
  <1>2. peer' \in [Fds -> Clients \cup {NoClient}] BY DEF TypeOK, CloseSockets
  <1>3. gone' \subseteq Open' BY DEF TypeOK, CloseSockets, Open
  <1>4. QED BY <1>1, <1>2, <1>3

\* Going on with the rest of the data keeps the types, and handle goes on only
\* while some is left.
LEMMA AdvanceType ==
  ASSUME IInv, NEW rest \in Seq(Cells), current \in Fds, Advance(rest)
  PROVE  /\ data' \in Seq(Cells) /\ current' \in Fds \cup {NoFd}
         /\ step' \in {"handle", "top", "serve"}
         /\ step' = "handle" => current' \in Fds /\ data' # <<>>
         /\ ready' = ready /\ master' = master /\ fdmax' = fdmax
         /\ backlog' = backlog /\ connects' = connects /\ sent' = sent
  BY DEF Advance

\* Processing a message keeps the invariant and does what the room allows.
LEMMA ProcessInv ==
  ASSUME IInv, Process
  PROVE  IInv' /\ \E o : Sound(clientIDs, o) /\ clientIDs' = o.list /\ passed' = o.passed
  <1>1. MessageComplete BY DEF Process
  <1>2. Completed.message \in Messages /\ Completed.rest \in Seq(Cells) /\ current \in Fds
    BY <1>1, CompletedType
  <1>3. PICK o \in process(clientIDs, Completed.message, current) : ProcessWith(o)
    BY DEF Process
  <1>4. Sound(clientIDs, o) BY <1>2, InvRegistry, ProcessIsSound
  <1>5. /\ clientIDs' = o.list /\ passed' = o.passed /\ CloseSockets(o.closed)
        /\ container' = [container EXCEPT ![current] = Nothing]
        /\ stale' = stale \ {current} /\ Advance(Completed.rest)
    BY <1>3 DEF ProcessWith
  <1>6. IsRegistry(clientIDs') BY <1>4, <1>5 DEF Sound
  <1>7. passed' \in (IDs \X IDs) \cup {Nothing}
    <2>1. Ids(clientIDs) \subseteq IDs BY InvRegistry, IdsOfRegistry
    <2>2. \/ o.passed = Nothing
          \/ \E from, to \in Ids(clientIDs) : o.passed = <<from, to>>
      BY <1>4 DEF Sound
    <2>3. QED BY <1>5, <2>1, <2>2
  <1>8. TypeOK
    BY DEF IInv
  <1>9. /\ peer' \in [Fds -> Clients \cup {NoClient}] /\ gone' \subseteq Open'
        /\ inbox' \in [Fds -> Seq(Cells)]
    BY <1>5, <1>8, CloseType
  <1>10. /\ data' \in Seq(Cells) /\ current' \in Fds \cup {NoFd}
         /\ step' \in {"handle", "top", "serve"}
         /\ step' = "handle" => current' \in Fds /\ data' # <<>>
         /\ ready' = ready /\ master' = master /\ fdmax' = fdmax
         /\ backlog' = backlog /\ connects' = connects /\ sent' = sent
    BY <1>2, <1>5, AdvanceType
  <1>11. container' \in [Fds -> Cells \cup {Nothing}] /\ stale' \subseteq Fds
    BY <1>2, <1>5, <1>8 DEF TypeOK
  <1>12. TypeOK'
    BY <1>6, <1>7, <1>8, <1>9, <1>10, <1>11 DEF TypeOK, IsRegistry, Record
  <1>13. UniqueIDs' BY <1>6 DEF IsRegistry, NoTwice, UniqueIDs
  <1>14. QED BY <1>4, <1>5, <1>10, <1>12, <1>13 DEF IInv, HandleControl

\* A step that leaves the registry alone says nothing or goes on saying it.
Quiet == clientIDs' = clientIDs /\ passed' \in {passed, Nothing}

\* Buffering a partial message keeps the invariant and the registry.
LEMMA StoreInv ==
  ASSUME IInv, Store
  PROVE  IInv' /\ Quiet
  <1>1. current \in Fds /\ data \in Seq(Cells) /\ data # <<>> /\ TypeOK
    BY DEF IInv, HandleControl, Store, TypeOK
  <1>2. Head(data) \in Cells BY <1>1, HeadTailProperties
  <1>3. <<>> \in Seq(Cells) OBVIOUS
  <1>4. Advance(<<>>) /\ stale' = stale \ {current} /\ passed' = Nothing
        /\ UNCHANGED <<clientIDs, peer, gone, inbox>>
    BY DEF Store
  <1>5. container' \in [Fds -> Cells \cup {Nothing}]
    BY <1>1, <1>2 DEF Store, TypeOK
  <1>6. /\ data' \in Seq(Cells) /\ current' \in Fds \cup {NoFd}
        /\ step' \in {"handle", "top", "serve"}
        /\ step' = "handle" => current' \in Fds /\ data' # <<>>
        /\ ready' = ready /\ master' = master /\ fdmax' = fdmax
        /\ backlog' = backlog /\ connects' = connects /\ sent' = sent
    BY <1>1, <1>3, <1>4, AdvanceType
  <1>7. TypeOK' BY <1>1, <1>4, <1>5, <1>6 DEF TypeOK, Open
  <1>8. UniqueIDs' BY <1>4 DEF IInv, UniqueIDs
  <1>9. QED BY <1>4, <1>6, <1>7, <1>8 DEF IInv, HandleControl, Quiet

-----------------------------------------------------------------------------
(* The other steps *)

\* Sweeping a stale buffer lets its client go, or the server crashes.
LEMMA DiscardInv ==
  ASSUME IInv, DiscardStale
  PROVE  /\ IInv' /\ passed' = Nothing
         /\ \E names \in SUBSET IDs : Ids(clientIDs') = Ids(clientIDs) \ names
  <1>1. TypeOK /\ step = "top" /\ passed' = Nothing BY DEF IInv, DiscardStale
  <1>2. UNCHANGED <<ready, current, data, master, fdmax, backlog, connects, sent>>
    BY DEF DiscardStale
  <1>3. IsRegistry(clientIDs) BY InvRegistry
  <1>4. PICK fd \in stale :
          \/ /\ clientIDs' = List_remove(clientIDs, List_getClientID(clientIDs, fd))
             /\ container' = [container EXCEPT ![fd] = Nothing]
             /\ CloseSockets({fd})
             /\ stale' = stale \ {fd}
             /\ UNCHANGED step
          \/ /\ step' = "crashed"
             /\ UNCHANGED <<clientIDs, container, peer, gone, inbox, stale>>
    BY DEF DiscardStale
  <1>5. CASE /\ clientIDs' = List_remove(clientIDs, List_getClientID(clientIDs, fd))
             /\ container' = [container EXCEPT ![fd] = Nothing]
             /\ CloseSockets({fd})
             /\ stale' = stale \ {fd}
             /\ UNCHANGED step
    <2>1. /\ IsRegistry(clientIDs')
          /\ \E names \in SUBSET IDs : Ids(clientIDs') = Ids(clientIDs) \ names
      BY <1>3, <1>5, RemoveLeaves
    <2>2. /\ peer' \in [Fds -> Clients \cup {NoClient}] /\ gone' \subseteq Open'
          /\ inbox' \in [Fds -> Seq(Cells)]
      BY <1>1, <1>5, CloseType
    <2>3. container' \in [Fds -> Cells \cup {Nothing}] /\ stale' \subseteq Fds
      BY <1>1, <1>5 DEF TypeOK
    <2>4. TypeOK' BY <1>1, <1>2, <1>5, <2>1, <2>2, <2>3 DEF TypeOK, IsRegistry, Record
    <2>5. UniqueIDs' BY <2>1 DEF IsRegistry, NoTwice, UniqueIDs
    <2>6. QED BY <1>1, <1>5, <2>1, <2>4, <2>5 DEF IInv, HandleControl
  <1>6. CASE /\ step' = "crashed"
             /\ UNCHANGED <<clientIDs, container, peer, gone, inbox, stale>>
    <2>1. TypeOK' BY <1>1, <1>2, <1>6 DEF TypeOK, Open
    <2>2. UniqueIDs' BY <1>6 DEF IInv, UniqueIDs
    <2>3. Ids(clientIDs') = Ids(clientIDs) \ {} /\ {} \in SUBSET IDs BY <1>6
    <2>4. QED BY <1>1, <1>6, <2>1, <2>2, <2>3 DEF IInv, HandleControl
  <1>7. QED BY <1>4, <1>5, <1>6

\* Connections are accepted and lost without a word in the registry.
LEMMA AcceptInv ==
  ASSUME IInv, Accept
  PROVE  IInv' /\ Quiet
  <1>1. /\ TypeOK /\ UniqueIDs /\ backlog # <<>> /\ step' = "top" /\ backlog' = Tail(backlog)
        /\ UNCHANGED <<ready, current, data, clientIDs, container, gone, inbox, stale,
                       connects, sent, passed>>
    BY DEF IInv, Accept
  <1>2. Head(backlog) \in Clients /\ backlog' \in Seq(Clients)
    BY <1>1, HeadTailProperties DEF TypeOK
  <1>3. /\ peer' \in [Fds -> Clients \cup {NoClient}] /\ Open \subseteq Open'
        /\ master' \subseteq Fds \cup {ListenFd} /\ fdmax' \in Fds \cup {ListenFd}
    <2>1. CASE UNCHANGED <<peer, master, fdmax>> BY <1>1, <2>1 DEF TypeOK, Open
    <2>2. ASSUME NEW fd \in Fds, peer' = [peer EXCEPT ![fd] = Head(backlog)],
                 master' = master \cup {fd}, fdmax' = max(fd, fdmax)
          PROVE  <1>3
      <3>1. peer' \in [Fds -> Clients \cup {NoClient}] BY <1>1, <1>2, <2>2 DEF TypeOK
      <3>2. Head(backlog) # NoClient BY <1>2, ClientAssumption
      <3>3. peer \in [Fds -> Clients \cup {NoClient}] BY <1>1 DEF TypeOK
      <3>4. \A g \in Fds : peer[g] # NoClient => peer'[g] # NoClient BY <2>2, <3>2, <3>3
      <3>5. Open \subseteq Open' BY <3>4 DEF Open
      <3>6. master' \subseteq Fds \cup {ListenFd} /\ fdmax' \in Fds \cup {ListenFd}
        BY <1>1, <2>2 DEF TypeOK, max
      <3>7. QED BY <3>1, <3>5, <3>6
    <2>3. QED BY <2>1, <2>2 DEF Accept
  <1>4. TypeOK' BY <1>1, <1>2, <1>3 DEF TypeOK
  <1>5. QED BY <1>1, <1>4 DEF IInv, UniqueIDs, HandleControl, Quiet

\* Reading a part of a queue leaves the rest of it, and the registry.
LEMMA ReadInv ==
  ASSUME IInv, NEW fd \in Fds, Read(fd)
  PROVE  IInv' /\ Quiet
  <1>1. /\ TypeOK /\ UniqueIDs /\ step = "serve" /\ ready' = ready \ {fd} /\ passed' = Nothing
        /\ UNCHANGED <<clientIDs, container, master, fdmax, peer, gone, stale, backlog,
                       connects, sent>>
    BY DEF IInv, Read
  <1>2. inbox[fd] \in Seq(Cells) BY <1>1 DEF TypeOK
  <1>3. CASE /\ inbox[fd] # <<>>
             /\ \E n \in 1..Len(inbox[fd]) :
                  /\ data' = SubSeq(inbox[fd], 1, n)
                  /\ inbox' = [inbox EXCEPT ![fd] = SubSeq(@, n + 1, Len(@))]
             /\ current' = fd
             /\ step' = "handle"
    <2>1. PICK n \in 1..Len(inbox[fd]) :
            /\ data' = SubSeq(inbox[fd], 1, n)
            /\ inbox' = [inbox EXCEPT ![fd] = SubSeq(inbox[fd], n + 1, Len(inbox[fd]))]
      BY <1>3
    <2>2. Len(inbox[fd]) \in Nat BY <1>2, LenProperties
    <2>3. SubSeq(inbox[fd], 1, n) \in Seq(Cells) BY <1>2, <2>2, PartType
    <2>4. SubSeq(inbox[fd], n + 1, Len(inbox[fd])) \in Seq(Cells) BY <1>2, <2>2, PartType
    <2>5. data' # <<>>
      <3>1. \A i \in 1..n : inbox[fd][i] \in Cells BY <1>2, <2>2, ElementOfSeq
      <3>2. Len(SubSeq(inbox[fd], 1, n)) = n BY <2>2, <3>1, SubSeqProperties
      <3>3. QED BY <2>1, <2>2, <3>2
    <2>6. inbox' \in [Fds -> Seq(Cells)] BY <1>1, <2>1, <2>4 DEF TypeOK
    <2>7. TypeOK' BY <1>1, <1>3, <2>1, <2>3, <2>6 DEF TypeOK, Open
    <2>8. QED BY <1>1, <1>3, <2>5, <2>7 DEF IInv, UniqueIDs, HandleControl, Quiet
  <1>4. CASE /\ inbox[fd] = <<>>
             /\ step' = IF ready' = {} THEN "top" ELSE "serve"
             /\ UNCHANGED <<current, data, inbox>>
    <2>1. step' \in {"top", "serve"} BY <1>4
    <2>2. TypeOK' BY <1>1, <1>4, <2>1 DEF TypeOK, Open
    <2>3. QED BY <1>1, <2>1, <2>2 DEF IInv, UniqueIDs, HandleControl, Quiet
  <1>5. QED BY <1>3, <1>4 DEF Read

\* The end of the sweep and select touch nothing but the control.
LEMMA WaitInv ==
  ASSUME IInv, NothingStale \/ Select
  PROVE  IInv' /\ Quiet
  <1>1. TypeOK /\ UniqueIDs BY DEF IInv
  <1>2. CASE NothingStale
    <2>1. TypeOK' BY <1>1, <1>2 DEF NothingStale, TypeOK, Open
    <2>2. QED BY <1>1, <1>2, <2>1 DEF NothingStale, IInv, UniqueIDs, HandleControl, Quiet
  <1>3. CASE Select
    <2>1. ready' \subseteq Fds BY <1>3 DEF Select, ReadyNow, Readable, Open
    <2>2. TypeOK' BY <1>1, <1>3, <2>1 DEF Select, TypeOK, Open
    <2>3. QED BY <1>1, <1>3, <2>2 DEF Select, IInv, UniqueIDs, HandleControl, Quiet
  <1>4. QED BY <1>2, <1>3

\* Neither the clients nor the clock reach into the registry.
LEMMA EnvironmentInv ==
  ASSUME IInv, Environment
  PROVE  IInv' /\ Quiet
  <1>1. TypeOK /\ UniqueIDs /\ HandleControl BY DEF IInv
  <1>2. ASSUME NEW c \in Clients, Connect(c) PROVE IInv' /\ Quiet
    <2>1. backlog' \in Seq(Clients) BY <1>1, <1>2, AppendProperties DEF Connect, TypeOK
    <2>2. TypeOK' BY <1>1, <1>2, <2>1 DEF Connect, serverVars, TypeOK, Open
    <2>3. QED BY <1>1, <1>2, <2>2
            DEF Connect, serverVars, IInv, UniqueIDs, HandleControl, Quiet
  <1>3. ASSUME NEW fd \in Fds, NEW m \in Messages, Send(fd, m) PROVE IInv' /\ Quiet
    <2> DEFINE cells == IF m.body THEN <<m, Text>> ELSE <<m>>
    <2>1. inbox[fd] \in Seq(Cells) BY <1>1 DEF TypeOK
    <2>2. cells \in Seq(Cells)
      <3>1. m \in Cells /\ Text \in Cells BY DEF Cells
      <3>2. <<m>> \in Seq(Cells) /\ <<m, Text>> \in Seq(Cells) BY <3>1
      <3>3. QED BY <3>2
    <2> HIDE DEF cells
    <2>3. inbox[fd] \o cells \in Seq(Cells) BY <2>1, <2>2, ConcatProperties
    <2>4. inbox' = [inbox EXCEPT ![fd] = inbox[fd] \o cells] BY <1>3 DEF Send, cells
    <2>5. inbox' \in [Fds -> Seq(Cells)] BY <1>1, <2>3, <2>4 DEF TypeOK
    <2>6. TypeOK' BY <1>1, <1>3, <2>5 DEF Send, serverVars, TypeOK, Open
    <2>7. QED BY <1>1, <1>3, <2>6
            DEF Send, serverVars, IInv, UniqueIDs, HandleControl, Quiet
  <1>4. ASSUME NEW fd \in Fds, Disconnect(fd) PROVE IInv' /\ Quiet
    <2>1. TypeOK' BY <1>1, <1>4 DEF Disconnect, serverVars, TypeOK, Open
    <2>2. QED BY <1>1, <1>4, <2>1
            DEF Disconnect, serverVars, IInv, UniqueIDs, HandleControl, Quiet
  <1>5. ASSUME NEW fd \in Fds, Age(fd) PROVE IInv' /\ Quiet
    <2>1. TypeOK' BY <1>1, <1>5 DEF Age, serverVars, TypeOK, Open
    <2>2. QED BY <1>1, <1>5, <2>1
            DEF Age, serverVars, IInv, UniqueIDs, HandleControl, Quiet
  <1>6. QED BY <1>2, <1>3, <1>4, <1>5 DEF Environment

-----------------------------------------------------------------------------
(* The theorems *)

\* What a step does to the registry and to the chat it passes on.
Allowed ==
  \/ \E o : Sound(clientIDs, o) /\ clientIDs' = o.list /\ passed' = o.passed
  \/ /\ passed' = Nothing
     /\ \E names \in SUBSET IDs : Ids(clientIDs') = Ids(clientIDs) \ names
  \/ Quiet

\* Every step keeps the invariant and does what the room allows.
LEMMA StepInv ==
  ASSUME IInv, [Next]_vars
  PROVE  IInv' /\ Allowed
  <1>1. CASE Process BY <1>1, ProcessInv DEF Allowed
  <1>2. CASE DiscardStale BY <1>2, DiscardInv DEF Allowed
  <1>3. CASE Store BY <1>3, StoreInv DEF Allowed
  <1>4. CASE Accept BY <1>4, AcceptInv DEF Allowed
  <1>5. CASE NothingStale \/ Select BY <1>5, WaitInv DEF Allowed
  <1>6. CASE \E fd \in Fds : Read(fd) BY <1>6, ReadInv DEF Allowed
  <1>7. CASE Environment BY <1>7, EnvironmentInv DEF Allowed
  <1>8. CASE UNCHANGED vars
    <2>1. IInv' BY <1>8 DEF vars, IInv, TypeOK, UniqueIDs, HandleControl, Open
    <2>2. Quiet BY <1>8 DEF vars, Quiet
    <2>3. QED BY <2>1, <2>2 DEF Allowed
  <1>9. QED BY <1>1, <1>2, <1>3, <1>4, <1>5, <1>6, <1>7, <1>8 DEF Next, Server

\* The invariant holds throughout.
LEMMA Invariance == Spec => []IInv
  <1>1. Init => IInv BY InvInit
  <1>2. IInv /\ [Next]_vars => IInv' BY StepInv
  <1>3. QED BY <1>1, <1>2, PTL DEF Spec

\* Every variable of the chat server keeps its type.
THEOREM TypeCorrect == Spec => []TypeOK
  <1>1. IInv => TypeOK BY DEF IInv
  <1>2. QED BY <1>1, Invariance, PTL

\* However clients register, drop out and are swept, an identifier has one
\* entry in the registry.
THEOREM IdentifiersUnique == Spec => []UniqueIDs
  <1>1. IInv => UniqueIDs BY DEF IInv
  <1>2. QED BY <1>1, Invariance, PTL

\* An allowed step is a step of the room, or leaves it as it was.
LEMMA AllowedInRoom ==
  ASSUME IInv, Allowed
  PROVE  [Room!Next]_<<Ids(clientIDs), passed>>
  <1>1. Ids(clientIDs) \subseteq IDs BY InvRegistry, IdsOfRegistry
  <1>2. ASSUME passed' = Nothing, NEW names \in SUBSET IDs,
               Ids(clientIDs') = Ids(clientIDs) \ names
        PROVE  Room!Next
    <2>1. Room!Leave(names) BY <1>2 DEF Room!Leave, Ids
    <2>2. QED BY <2>1 DEF Room!Next
  <1>3. ASSUME NEW o, Sound(clientIDs, o), clientIDs' = o.list, passed' = o.passed
        PROVE  Room!Next
    <2>1. ASSUME passed' = Nothing, NEW name \in IDs \ Ids(clientIDs),
                 Ids(clientIDs') = Ids(clientIDs) \cup {name}
          PROVE  Room!Next
      <3>1. Room!Join(name) BY <2>1 DEF Room!Join, Ids
      <3>2. QED BY <3>1 DEF Room!Next
    <2>2. ASSUME NEW from \in Ids(clientIDs), NEW to \in Ids(clientIDs), from # to,
                 passed' = <<from, to>>,
                 Ids(clientIDs') \in {Ids(clientIDs), Ids(clientIDs) \ {to}}
          PROVE  Room!Next
      <3>1. Room!Chat(from, to) BY <2>2 DEF Room!Chat, Ids
      <3>2. QED BY <1>1, <3>1 DEF Room!Next
    <2>3. QED BY <1>2, <1>3, <2>1, <2>2 DEF Sound
  <1>4. CASE Quiet
    <2>1. CASE passed' = passed BY <1>4, <2>1 DEF Quiet
    <2>2. CASE passed' = Nothing
      <3>1. Ids(clientIDs') = Ids(clientIDs) \ {} /\ {} \in SUBSET IDs BY <1>4 DEF Quiet
      <3>2. QED BY <1>2, <2>2, <3>1
    <2>3. QED BY <1>4, <2>1, <2>2 DEF Quiet
  <1>5. QED BY <1>2, <1>3, <1>4 DEF Allowed

\* The chat server implements the chat room: one member per name, and a chat
\* passes only between two different members.
THEOREM ImplementsRoom == Spec => RoomSpec
  <1>1. Init => Room!Init BY DEF Init, List_new, Room!Init
  <1>2. IInv /\ [Next]_vars => [Room!Next]_<<Ids(clientIDs), passed>>
    BY StepInv, AllowedInRoom
  <1>3. IInv /\ [Next]_vars
          => [Room!Next]_<<{clientIDs[i].id : i \in 1..Len(clientIDs)}, passed>>
    BY <1>2 DEF Ids
  <1>4. QED BY <1>1, <1>3, Invariance, PTL DEF Spec, RoomSpec, Room!Spec

=============================================================================
