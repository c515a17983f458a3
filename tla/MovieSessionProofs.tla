------------------------- MODULE MovieSessionProofs -------------------------
(***************************************************************************)
(* What MovieServer guarantees about the messages of a connection and the  *)
(* film of a round: the bytes that are queued, whatever has been read of   *)
(* them and with what else, still begin and end the messages that were     *)
(* sent; every DOWNLOADED is counted once; whoever registered in a round   *)
(* gets its film; and whoever registered while voting stays on record.     *)
(***************************************************************************)
EXTENDS MovieServerProofs, ClientListProofs, FiniteSetTheorems, WellFoundedInduction

\* A queue of bytes on which the messages of sent were sent: a VOTE is
\* followed by its video, GOODBYE ends it and DOWNLOADED is there once at most.
WellFormed(queue, sent) ==
  /\ queue # <<>> => HELLO \in sent
  /\ \A i \in 1..Len(queue) :
       /\ queue[i] = VOTE =>
            /\ VOTE \in sent /\ \A j \in 1..Len(queue) : queue[j] = VOTE => j = i
            /\ i < Len(queue) /\ queue[i + 1] \in Videos
       /\ queue[i] = GOODBYE => i = Len(queue) /\ GOODBYE \in sent
       /\ queue[i] = DOWNLOADED =>
            DOWNLOADED \in sent /\ \A j \in 1..Len(queue) : queue[j] = DOWNLOADED => j = i

\* What holds of each connection between the two ends: the queue is well
\* formed, a client said HELLO first and answered only what it was sent, and a
\* descriptor that is closed is as clean as a fresh one.
Streams ==
  \A fd \in Fds :
    /\ WellFormed(inbox[fd], said[fd])
    /\ said[fd] # {} => HELLO \in said[fd]
    /\ VOTE \in said[fd] => MOVIES \in seen[fd]
    /\ DOWNLOADED \in said[fd] => MOVIE_CONTENT \in seen[fd]
    /\ END_MOVIE \in said[fd] => DOWNLOADED \in said[fd]
    /\ fd \notin Open => inbox[fd] = <<>> /\ said[fd] = {} /\ seen[fd] = {}

\* Nothing but a HELLO that is still to be read, or to be sent, can come next.
Fresh(fd) == said[fd] = {} \/ (inbox[fd] # <<>> /\ Head(inbox[fd]) = HELLO)

\* The members of a round: nobody when it begins; until the film is sent, no
\* member has a full send buffer, there are as many records as members, and
\* a record of a descriptor that is no member belongs to a connection that is
\* gone, so that the new one has everything ahead of it; then all have the film,
\* or are among those it is being sent to.
Members ==
  /\ pc = "round" => joined = {} /\ clientIDs = <<>>
  /\ pc = "voting" => \A fd \in joined : MOVIES \in seen[fd]
  /\ pc \in {"voting", "selected", "content"} =>
       /\ joined \cap stalled = {}
       /\ Cardinality(joined) <= Len(clientIDs)
       /\ \A fd \in Open \ joined : List_contains_fd(clientIDs, fd) => Fresh(fd)
  /\ pc = "film" => joined \subseteq hasFilm \cup ready
  /\ JoinedHaveFilm

SessionInv == IInv /\ Streams /\ Members

-----------------------------------------------------------------------------
(* Queues of bytes *)

\* The bytes of a message are not taken for the type of another one.
LEMMA BytesShape ==
  ASSUME NEW c \in Clients, NEW type \in Script, NEW v \in Videos
  PROVE  LET b == Bytes(c, type, v)
         IN /\ b \in Seq(Int) /\ b # <<>> /\ b[1] = type /\ Len(b) \in 1..2
            /\ \A i \in 1..Len(b) :
                 /\ b[i] = VOTE => type = VOTE /\ i = 1 /\ i < Len(b) /\ b[i + 1] \in Videos
                 /\ b[i] \in {GOODBYE, DOWNLOADED} => type = b[i] /\ i = 1 /\ Len(b) = 1
  <1>1. NameByte[c] \in Int /\ NameByte[c] >= 32 BY NameAssumption DEF FirstName, Garbage
  <1>2. v \in Int /\ v < 3 /\ v >= 0 BY VideoCountAssumption DEF Videos
  <1>3. type \in {1, 3, 6, 8, 9} BY ScriptAssumption
  <1>4. CASE type = HELLO
    <2>1. Bytes(c, type, v) = <<HELLO, NameByte[c]>> BY <1>4 DEF Bytes, HELLO, VOTE
    <2>2. /\ Bytes(c, type, v) \in Seq(Int) /\ Bytes(c, type, v) # <<>>
          /\ Len(Bytes(c, type, v)) = 2
          /\ Bytes(c, type, v)[1] = 1 /\ Bytes(c, type, v)[2] = NameByte[c]
      BY <1>1, <2>1 DEF HELLO
    <2>3. QED BY <1>1, <1>4, <2>2 DEF HELLO, VOTE, GOODBYE, DOWNLOADED
  <1>5. CASE type = VOTE
    <2> DEFINE b == Bytes(c, type, v)
    <2>1. Bytes(c, type, v) = <<VOTE, v>> BY <1>5 DEF Bytes, HELLO, VOTE
    <2>2. b \in Seq(Int) /\ b # <<>> /\ Len(b) = 2 /\ b[1] = 3 /\ b[2] = v
      BY <1>2, <2>1 DEF VOTE
    <2>3. 1..Len(b) = {1, 2} BY <2>2
    <2> HIDE DEF b
    <2>4. \A i \in 1..Len(b) :
            /\ b[i] = VOTE => type = VOTE /\ i = 1 /\ i < Len(b) /\ b[i + 1] \in Videos
            /\ b[i] \in {GOODBYE, DOWNLOADED} => type = b[i] /\ i = 1 /\ Len(b) = 1
      <3>1. b[1] = VOTE /\ b[2] # VOTE /\ b[1 + 1] \in Videos BY <1>2, <2>2 DEF VOTE
      <3>2. b[1] \notin {GOODBYE, DOWNLOADED} /\ b[2] \notin {GOODBYE, DOWNLOADED}
        BY <1>2, <2>2 DEF GOODBYE, DOWNLOADED
      <3>3. QED BY <1>5, <2>2, <2>3, <3>1, <3>2
    <2>5. QED BY <1>5, <2>2, <2>4 DEF b, VOTE
  <1>6. CASE type \notin {HELLO, VOTE}
    <2>1. Bytes(c, type, v) = <<type>> BY <1>6 DEF Bytes
    <2>2. QED BY <1>3, <1>6, <2>1 DEF VOTE, GOODBYE, DOWNLOADED
  <1>7. QED BY <1>4, <1>5, <1>6

\* What a read of one byte leaves is well formed.
LEMMA TailWellFormed ==
  ASSUME NEW q \in Seq(Int), NEW sent, q # <<>>, WellFormed(q, sent)
  PROVE  WellFormed(Tail(q), sent)
  <1> DEFINE t == Tail(q)
  <1>1. /\ Len(q) \in Nat /\ t \in Seq(Int) /\ Len(t) = Len(q) - 1
        /\ \A i \in 1..Len(t) : t[i] = q[i + 1]
    BY HeadTailProperties, LenProperties
  <1>2. \A i \in 1..Len(t) : i + 1 \in 1..Len(q) BY <1>1
  <1> HIDE DEF t
  <1>3. ASSUME NEW i \in 1..Len(t), t[i] = VOTE
        PROVE  VOTE \in sent /\ \A j \in 1..Len(t) : t[j] = VOTE => j = i
    <2>1. i + 1 \in 1..Len(q) /\ q[i + 1] = VOTE BY <1>1, <1>2, <1>3
    <2>2. VOTE \in sent /\ \A j \in 1..Len(q) : q[j] = VOTE => j = i + 1
      BY <2>1 DEF WellFormed
    <2>3. ASSUME NEW j \in 1..Len(t), t[j] = VOTE PROVE j = i
      <3>1. q[j + 1] = VOTE /\ j + 1 \in 1..Len(q) BY <1>1, <1>2, <2>3
      <3>2. j + 1 = i + 1 BY <2>2, <3>1
      <3>3. QED BY <1>1, <3>2
    <2>4. QED BY <2>2, <2>3
  <1>4. ASSUME NEW i \in 1..Len(t), t[i] = VOTE
        PROVE  i < Len(t) /\ t[i + 1] \in Videos
    <2>1. q[i + 1] = VOTE /\ i + 1 \in 1..Len(q) BY <1>1, <1>2, <1>4
    <2>2. i + 1 < Len(q) /\ q[(i + 1) + 1] \in Videos BY <2>1 DEF WellFormed
    <2>3. i < Len(t) /\ i + 1 \in 1..Len(t) BY <1>1, <2>2
    <2>4. QED BY <1>1, <2>2, <2>3
  <1>5. ASSUME NEW i \in 1..Len(t), t[i] = GOODBYE
        PROVE  i = Len(t) /\ GOODBYE \in sent
    BY <1>1, <1>2, <1>5 DEF WellFormed
  <1>6. ASSUME NEW i \in 1..Len(t), t[i] = DOWNLOADED
        PROVE  DOWNLOADED \in sent /\ \A j \in 1..Len(t) : t[j] = DOWNLOADED => j = i
    <2>1. i + 1 \in 1..Len(q) /\ q[i + 1] = DOWNLOADED BY <1>1, <1>2, <1>6
    <2>2. /\ DOWNLOADED \in sent
          /\ \A j \in 1..Len(q) : q[j] = DOWNLOADED => j = i + 1
      BY <2>1 DEF WellFormed
    <2>3. ASSUME NEW j \in 1..Len(t), t[j] = DOWNLOADED PROVE j = i
      <3>1. q[j + 1] = DOWNLOADED /\ j + 1 \in 1..Len(q) BY <1>1, <1>2, <2>3
      <3>2. j + 1 = i + 1 BY <2>2, <3>1
      <3>3. QED BY <1>1, <3>2
    <2>4. QED BY <2>2, <2>3
  <1>7. HELLO \in sent BY DEF WellFormed
  <1>8. QED BY <1>4, <1>5, <1>6, <1>7, <1>3 DEF WellFormed, t

\* A queue stays well formed when a message is sent that was not sent before,
\* HELLO first and none after GOODBYE.
LEMMA SendWellFormed ==
  ASSUME NEW q \in Seq(Int), NEW sent, WellFormed(q, sent),
         NEW c \in Clients, NEW type \in Script, NEW v \in Videos,
         type \notin sent, GOODBYE \notin sent, type = HELLO \/ HELLO \in sent
  PROVE  WellFormed(q \o Bytes(c, type, v), sent \cup {type})
  <1> DEFINE b == Bytes(c, type, v)
             r == q \o b
             m == Len(q)
  <1>1. /\ b \in Seq(Int) /\ b[1] = type /\ Len(b) \in 1..2
        /\ \A i \in 1..Len(b) :
             /\ b[i] = VOTE => type = VOTE /\ i = 1 /\ i < Len(b) /\ b[i + 1] \in Videos
             /\ b[i] \in {GOODBYE, DOWNLOADED} => type = b[i] /\ i = 1 /\ Len(b) = 1
    BY BytesShape
  <1> HIDE DEF b
  <1>2. /\ m \in Nat /\ r \in Seq(Int) /\ Len(r) = m + Len(b)
        /\ \A i \in 1..m : r[i] = q[i]
        /\ \A i \in 1..Len(b) : r[m + i] = b[i]
    <2>1. /\ m \in Nat /\ r \in Seq(Int) /\ Len(r) = m + Len(b)
          /\ \A i \in 1..(m + Len(b)) : r[i] = IF i <= m THEN q[i] ELSE b[i - m]
      BY <1>1, ConcatProperties, LenProperties
    <2> HIDE DEF r, m
    <2>2. \A i \in 1..m : i \in 1..(m + Len(b)) /\ i <= m BY <1>1, <2>1
    <2>3. \A i \in 1..Len(b) : m + i \in 1..(m + Len(b)) /\ ~(m + i <= m) /\ (m + i) - m = i
      BY <1>1, <2>1
    <2>4. \A i \in 1..Len(b) : r[m + i] = b[(m + i) - m] BY <2>1, <2>3
    <2>5. \A i \in 1..Len(b) : r[m + i] = b[i] BY <2>3, <2>4
    <2>6. QED BY <2>1, <2>2, <2>5
  <1>3. \A i \in 1..m : q[i] # GOODBYE BY DEF WellFormed
  <1>4. m \in Nat /\ Len(b) \in Nat /\ Len(b) >= 1 /\ Len(r) = m + Len(b) BY <1>1, <1>2
  <1> HIDE DEF m, r
  <1>5. \A i \in 1..Len(r) : i \in 1..m \/ \E k \in 1..Len(b) : i = m + k
    <2>1. ASSUME NEW i \in 1..Len(r), i \notin 1..m PROVE i - m \in 1..Len(b) /\ i = m + (i - m)
      BY <1>4, <2>1
    <2>2. QED BY <2>1
  <1>6. ASSUME NEW i \in 1..Len(r)
        PROVE  /\ r[i] = VOTE =>
                    /\ VOTE \in sent \cup {type} /\ \A j \in 1..Len(r) : r[j] = VOTE => j = i
                    /\ i < Len(r) /\ r[i + 1] \in Videos
               /\ r[i] = GOODBYE => i = Len(r) /\ GOODBYE \in sent \cup {type}
               /\ r[i] = DOWNLOADED =>
                    /\ DOWNLOADED \in sent \cup {type}
                    /\ \A j \in 1..Len(r) : r[j] = DOWNLOADED => j = i
    <2>1. CASE i \in 1..m
      <3>1. r[i] = q[i] BY <1>2, <2>1
      <3>2. ASSUME r[i] = VOTE
            PROVE  VOTE \in sent /\ \A j \in 1..Len(r) : r[j] = VOTE => j = i
        <4>1. VOTE \in sent /\ \A j \in 1..m : q[j] = VOTE => j = i
          BY <2>1, <3>1, <3>2 DEF WellFormed, m
        <4>2. \A k \in 1..Len(b) : b[k] # VOTE BY <1>1, <4>1
        <4>3. QED BY <1>2, <1>5, <4>1, <4>2
      <3>3. ASSUME r[i] = VOTE PROVE i < Len(r) /\ r[i + 1] \in Videos
        <4>1. i < m /\ q[i + 1] \in Videos BY <2>1, <3>1, <3>3 DEF WellFormed, m
        <4>2. i + 1 \in 1..m /\ i < Len(r) BY <1>4, <2>1, <4>1
        <4>3. QED BY <1>2, <4>1, <4>2
      <3>4. ASSUME r[i] = DOWNLOADED
            PROVE  DOWNLOADED \in sent /\ \A j \in 1..Len(r) : r[j] = DOWNLOADED => j = i
        <4>1. DOWNLOADED \in sent /\ \A j \in 1..m : q[j] = DOWNLOADED => j = i
          BY <2>1, <3>1, <3>4 DEF WellFormed, m
        <4>2. \A k \in 1..Len(b) : b[k] # DOWNLOADED BY <1>1, <4>1
        <4>3. QED BY <1>2, <1>5, <4>1, <4>2
      <3>5. QED BY <1>3, <2>1, <3>1, <3>3, <3>4, <3>2
    <2>2. ASSUME NEW k \in 1..Len(b), i = m + k
          PROVE  /\ r[i] = VOTE =>
                    /\ VOTE \in sent \cup {type} /\ \A j \in 1..Len(r) : r[j] = VOTE => j = i
                    /\ i < Len(r) /\ r[i + 1] \in Videos
                 /\ r[i] = GOODBYE => i = Len(r) /\ GOODBYE \in sent \cup {type}
                 /\ r[i] = DOWNLOADED =>
                      /\ DOWNLOADED \in sent \cup {type}
                      /\ \A j \in 1..Len(r) : r[j] = DOWNLOADED => j = i
      <3>1. r[i] = b[k] BY <1>2, <2>2
      <3>2. ASSUME r[i] = VOTE PROVE i < Len(r) /\ r[i + 1] \in Videos
        <4>1. k < Len(b) /\ b[k + 1] \in Videos BY <1>1, <3>1, <3>2
        <4>2. k + 1 \in 1..Len(b) /\ i < Len(r) /\ i + 1 = m + (k + 1)
          BY <1>4, <2>2, <4>1
        <4>3. r[m + (k + 1)] = b[k + 1] BY <1>2, <4>2
        <4>4. QED BY <4>1, <4>2, <4>3
      <3>3. ASSUME r[i] = GOODBYE PROVE i = Len(r) /\ GOODBYE \in sent \cup {type}
        <4>1. type = GOODBYE /\ k = 1 /\ Len(b) = 1 BY <1>1, <3>1, <3>3
        <4>2. QED BY <1>2, <2>2, <4>1
      <3>4. ASSUME r[i] = DOWNLOADED
            PROVE  /\ DOWNLOADED \in sent \cup {type}
                   /\ \A j \in 1..Len(r) : r[j] = DOWNLOADED => j = i
        <4>1. type = DOWNLOADED /\ k = 1 /\ Len(b) = 1 BY <1>1, <3>1, <3>4
        <4>2. \A j \in 1..m : q[j] # DOWNLOADED BY <4>1 DEF WellFormed, m
        <4>3. \A j \in 1..Len(r) : r[j] = DOWNLOADED => j = i
          <5>1. ASSUME NEW j \in 1..Len(r), r[j] = DOWNLOADED PROVE j = i
            <6>1. j \notin 1..m BY <1>2, <4>2, <5>1
            <6>2. PICK l \in 1..1 : j = m + l BY <1>5, <4>1, <5>1, <6>1
            <6>3. QED BY <2>2, <4>1, <6>2
          <5>2. QED BY <5>1
        <4>4. QED BY <4>1, <4>3
      <3>5. ASSUME r[i] = VOTE
            PROVE  VOTE \in sent \cup {type} /\ \A j \in 1..Len(r) : r[j] = VOTE => j = i
        <4>1. type = VOTE /\ k = 1 BY <1>1, <3>1, <3>5
        <4>2. \A j \in 1..m : q[j] # VOTE BY <4>1 DEF WellFormed, m
        <4>3. ASSUME NEW j \in 1..Len(r), r[j] = VOTE PROVE j = i
          <5>1. j \notin 1..m BY <1>2, <4>2, <4>3
          <5>2. PICK l \in 1..Len(b) : j = m + l BY <1>5, <5>1
          <5>3. b[l] = VOTE BY <1>2, <4>3, <5>2
          <5>4. l = 1 BY <1>1, <5>3
          <5>5. QED BY <2>2, <4>1, <5>2, <5>4
        <4>4. QED BY <4>1, <4>3
      <3>6. QED BY <3>2, <3>3, <3>4, <3>5
    <2>3. QED BY <1>5, <2>1, <2>2
  <1>7. QED BY <1>6 DEF WellFormed, r, b, m

-----------------------------------------------------------------------------
(* What the service of a descriptor does, by the first byte that is queued *)

\* The type a handler sees is the byte that was read into the front of the
\* buffer (line 97 of the download loop, 136 of the playing loop).
LEMMA TypeIsByteRead ==
  ASSUME NEW buf \in Seq(Int), NEW byte \in Int
  PROVE  ReadInto(buf, <<byte>>)[1] = byte
  <1>1. SubSeq(buf, 2, Len(buf)) \in Seq(Int) BY LenProperties, SubSeqProperties
  <1>2. <<byte>> \in Seq(Int) /\ Len(<<byte>>) = 1 /\ <<byte>>[1] = byte OBVIOUS
  <1>3. ReadInto(buf, <<byte>>) = <<byte>> \o SubSeq(buf, 2, Len(buf))
    BY <1>2 DEF ReadInto
  <1>4. Len(SubSeq(buf, 2, Len(buf))) \in Nat BY <1>1, LenProperties
  <1>5. QED BY <1>1, <1>2, <1>3, <1>4, ConcatProperties

\* handle_voting: everything that is queued is read, and the first byte decides.
LEMMA VotingCases ==
  ASSUME IInv, NEW fd \in Fds, ServeVoting(fd)
  PROVE  /\ pc = "voting" /\ fd \in Open
         /\ LET q == inbox[fd]
            IN \/ /\ q # <<>> /\ Head(q) = HELLO
                  /\ \E name \in Seq(Int) : Hello(fd, name, {MOVIES}, <<>>)
               \/ /\ q # <<>> /\ Head(q) = VOTE
                  /\ Vote(fd, IF Len(q) > 1 THEN q[2] ELSE 0, <<>>)
               \/ q # <<>> /\ Head(q) = GOODBYE /\ Goodbye(fd)
               \/ /\ q # <<>> => Head(q) \notin {HELLO, GOODBYE}
                                 /\ (Head(q) = VOTE => ~MayVote(fd))
                  /\ Ignore(fd, <<>>)
  <1>1. inbox[fd] \in Seq(Int) BY DEF IInv, TypeOK
  <1>2. pc = "voting" /\ fd \in Open
    BY DEF ServeVoting, Serving, IInv, LoopControl
  <1>3. CASE inbox[fd] = <<>> BY <1>2, <1>3 DEF ServeVoting
  <1>4. CASE inbox[fd] # <<>>
    <2>1. DataString(inbox[fd]) \in Seq(Int) /\ Head(inbox[fd]) = inbox[fd][1]
      BY <1>1, <1>4, DataStringType
    <2>2. handle_voting(fd, inbox[fd]) BY <1>4 DEF ServeVoting
    <2> DEFINE q == inbox[fd]
    <2>3. \/ q[1] = HELLO /\ Hello(fd, DataString(q), {MOVIES}, <<>>)
          \/ q[1] = VOTE /\ Vote(fd, IF Len(q) > 1 THEN q[2] ELSE 0, <<>>)
          \/ q[1] = GOODBYE /\ Goodbye(fd)
          \/ /\ q[1] \notin {HELLO, VOTE, GOODBYE} \/ (q[1] = VOTE /\ ~MayVote(fd))
             /\ Ignore(fd, <<>>)
      BY <2>2 DEF handle_voting
    <2>4. HELLO # VOTE /\ VOTE # GOODBYE BY DEF HELLO, VOTE, GOODBYE
    <2> HIDE DEF q
    <2>5. QED BY <1>2, <1>4, <2>1, <2>3, <2>4 DEF q
  <1>5. QED BY <1>3, <1>4

\* handle_download and handle_playing: one byte of the queue decides.
LEMMA DownloadCases ==
  ASSUME IInv, NEW fd \in Fds, ServeDownload(fd)
  PROVE  /\ pc = "download" /\ fd \in Open
         /\ LET q == inbox[fd]
            IN \/ /\ q # <<>>
                  /\ \/ Head(q) = DOWNLOADED /\ Count(fd, Tail(q))
                     \/ /\ Head(q) = HELLO
                        /\ \E name \in Seq(Int) : Hello(fd, name, {MOVIE_CONTENT}, Tail(q))
                     \/ Head(q) = GOODBYE /\ Goodbye(fd)
                     \/ Head(q) \notin {HELLO, DOWNLOADED, GOODBYE} /\ Ignore(fd, Tail(q))
               \/ q = <<>> /\ Ignore(fd, <<>>)
  <1>1. inbox[fd] \in Seq(Int) /\ buffer \in Seq(Int) BY DEF IInv, TypeOK
  <1>2. pc = "download" /\ fd \in Open
    BY DEF ServeDownload, Serving, IInv, LoopControl
  <1>3. CASE inbox[fd] = <<>> BY <1>2, <1>3 DEF ServeDownload
  <1>4. CASE inbox[fd] # <<>>
    <2> DEFINE data == ReadInto(buffer, <<Head(inbox[fd])>>)
    <2>1. Head(inbox[fd]) \in Int BY <1>1, <1>4, HeadTailProperties
    <2>2. data[1] = Head(inbox[fd]) BY <1>1, <2>1, TypeIsByteRead
    <2>3. DataString(data) \in Seq(Int) 
      <3>1. <<Head(inbox[fd])>> \in Seq(Int) BY <2>1
      <3>2. QED BY <1>1, <3>1, ReadIntoType, DataStringType
    <2>4. handle_download(fd, data, Tail(inbox[fd])) BY <1>4 DEF ServeDownload, Unread
    <2> HIDE DEF data
    <2>5. QED BY <1>2, <1>4, <2>2, <2>3, <2>4 DEF handle_download
  <1>5. QED BY <1>3, <1>4

\* The two reads of the playing loop.
LEMMA PlayingCases ==
  ASSUME IInv, NEW fd \in Fds, PlayRead(fd) \/ PlayHandle(fd)
  PROVE  /\ pc = "playing" /\ fd \in Open
         /\ LET q == inbox[fd]
            IN \/ /\ q # <<>>
                  /\ \/ Count(fd, Tail(q))
                     \/ /\ Head(q) = HELLO
                        /\ \E name \in Seq(Int) : Hello(fd, name, {MOVIE_CONTENT, START}, Tail(q))
                     \/ Head(q) = GOODBYE /\ Goodbye(fd)
                     \/ Ignore(fd, Tail(q))
               \/ Ignore(fd, <<>>)
  <1>1. inbox[fd] \in Seq(Int) /\ buffer \in Seq(Int) BY DEF IInv, TypeOK
  <1>2. pc = "playing" /\ fd \in Open
    BY DEF PlayRead, PlayHandle, Serving, IInv, LoopControl
  <1>3. CASE PlayRead(fd) BY <1>2, <1>3 DEF PlayRead
  <1>4. CASE PlayHandle(fd) /\ inbox[fd] = <<>> BY <1>2, <1>4 DEF PlayHandle
  <1>5. CASE PlayHandle(fd) /\ inbox[fd] # <<>>
    <2> DEFINE data == ReadInto(buffer, <<Head(inbox[fd])>>)
    <2>1. Head(inbox[fd]) \in Int BY <1>1, <1>5, HeadTailProperties
    <2>2. data[1] = Head(inbox[fd]) BY <1>1, <2>1, TypeIsByteRead
    <2>3. DataString(data) \in Seq(Int) 
      <3>1. <<Head(inbox[fd])>> \in Seq(Int) BY <2>1
      <3>2. QED BY <1>1, <3>1, ReadIntoType, DataStringType
    <2>4. handle_playing(fd, data, Tail(inbox[fd])) BY <1>5 DEF PlayHandle, Unread
    <2> HIDE DEF data
    <2>5. QED BY <1>2, <1>5, <2>2, <2>3, <2>4 DEF handle_playing
  <1>6. QED BY <1>3, <1>4, <1>5

-----------------------------------------------------------------------------
(* What a step does to the connections *)

\* The server has written something to connections that are open.
SeenGrows ==
  /\ seen' \in [Fds -> SUBSET FromServer]
  /\ \A fd \in Fds : seen[fd] \subseteq seen'[fd] /\ (fd \notin Open => seen'[fd] = seen[fd])

\* Every step sends one message, closes or opens a connection, reads from one,
\* or writes to some.
NetworkStep ==
  \/ /\ UNCHANGED <<peer, seen>>
     /\ \E fd \in Fds, type \in Script, v \in Videos : Send(fd, type, v)
  \/ \E fd \in Fds : CloseConnection(fd)
  \/ /\ UNCHANGED <<inbox, said, seen>>
     /\ \E fd \in Fds \ Open, c \in Clients : peer' = [peer EXCEPT ![fd] = c]
  \/ /\ UNCHANGED <<peer, said>> /\ SeenGrows
     /\ \E fd \in Open, rest \in Seq(Int) :
          /\ rest = <<>> \/ (inbox[fd] # <<>> /\ rest = Tail(inbox[fd]))
          /\ inbox' = [inbox EXCEPT ![fd] = rest]
  \/ UNCHANGED <<peer, inbox, said>> /\ SeenGrows

\* Writing to open descriptors only adds to what was written to them.
LEMMA DeliverGrows ==
  ASSUME IInv, NEW fds \in SUBSET Open, NEW types \in SUBSET FromServer, Deliver(fds, types)
  PROVE  SeenGrows
  BY DEF IInv, TypeOK, Deliver, WriteVideo, SeenGrows, Open

\* The handlers' branches.
LEMMA HandlerNetwork ==
  ASSUME IInv, NEW fd \in Open, NEW rest \in Seq(Int),
         rest = <<>> \/ (inbox[fd] # <<>> /\ rest = Tail(inbox[fd])),
         NEW name, NEW types \in SUBSET FromServer, NEW video,
         \/ Hello(fd, name, types, rest) \/ Vote(fd, video, rest)
         \/ Goodbye(fd) \/ Count(fd, rest) \/ Ignore(fd, rest)
  PROVE  NetworkStep
  <1>1. seen \in [Fds -> SUBSET FromServer] BY DEF IInv, TypeOK
  <1>2. ASSUME UNCHANGED seen PROVE SeenGrows BY <1>1, <1>2 DEF SeenGrows
  <1>3. CASE Hello(fd, name, types, rest)
    <2>1. SeenGrows BY <1>3, DeliverGrows DEF Hello
    <2>2. QED BY <1>3, <2>1 DEF Hello, sockets, NetworkStep
  <1>4. CASE Vote(fd, video, rest) BY <1>2, <1>4 DEF Vote, sockets, sending, NetworkStep
  <1>5. CASE Count(fd, rest) BY <1>2, <1>5 DEF Count, sockets, sending, NetworkStep
  <1>6. CASE Ignore(fd, rest) BY <1>2, <1>6 DEF Ignore, sockets, sending, NetworkStep
  <1>7. CASE Goodbye(fd)
    <2>1. CASE CloseConnection(fd) BY <2>1 DEF NetworkStep, Open
    <2>2. CASE UNCHANGED <<sockets, sending, inbox, said>>
      BY <1>2, <2>2 DEF sockets, sending, NetworkStep
    <2>3. QED BY <1>7, <2>1, <2>2 DEF Goodbye
  <1>8. QED BY <1>3, <1>4, <1>5, <1>6, <1>7

\* So every step of the specification is one of these.
LEMMA NetworkSteps ==
  ASSUME IInv, [Next]_vars
  PROVE  NetworkStep
  <1>1. seen \in [Fds -> SUBSET FromServer] /\ inbox \in [Fds -> Seq(Int)] /\ Open \subseteq Fds
    BY DEF IInv, TypeOK, Open
  <1>2. ASSUME UNCHANGED seen PROVE SeenGrows BY <1>1, <1>2 DEF SeenGrows
  <1>3. ASSUME NEW fd \in Fds,
               ServeVoting(fd) \/ ServeDownload(fd) \/ PlayRead(fd) \/ PlayHandle(fd)
        PROVE  NetworkStep
    <2>1. /\ {MOVIES} \in SUBSET FromServer /\ {MOVIE_CONTENT} \in SUBSET FromServer
          /\ {MOVIE_CONTENT, START} \in SUBSET FromServer
      BY DEF FromServer
    <2>2. <<>> \in Seq(Int) /\ (inbox[fd] # <<>> => Tail(inbox[fd]) \in Seq(Int))
      BY <1>1, EmptySeq, HeadTailProperties
    <2>3. CASE ServeVoting(fd)
      <3>1. fd \in Open BY <2>3, VotingCases
      <3>2. \/ \E name \in Seq(Int) : Hello(fd, name, {MOVIES}, <<>>)
            \/ \E video : Vote(fd, video, <<>>)
            \/ Goodbye(fd) \/ Ignore(fd, <<>>)
        BY <2>3, VotingCases
      <3>3. QED BY <2>1, <2>2, <3>1, <3>2, HandlerNetwork
    <2>4. CASE ServeDownload(fd)
      <3>1. fd \in Open BY <2>4, DownloadCases
      <3>2. \E rest \in Seq(Int) :
              /\ rest = <<>> \/ (inbox[fd] # <<>> /\ rest = Tail(inbox[fd]))
              /\ \/ \E name \in Seq(Int) : Hello(fd, name, {MOVIE_CONTENT}, rest)
                 \/ Goodbye(fd) \/ Count(fd, rest) \/ Ignore(fd, rest)
        BY <2>2, <2>4, DownloadCases
      <3>3. QED BY <2>1, <3>1, <3>2, HandlerNetwork
    <2>5. CASE PlayRead(fd) \/ PlayHandle(fd)
      <3>1. fd \in Open BY <2>5, PlayingCases
      <3>2. \E rest \in Seq(Int) :
              /\ rest = <<>> \/ (inbox[fd] # <<>> /\ rest = Tail(inbox[fd]))
              /\ \/ \E name \in Seq(Int) : Hello(fd, name, {MOVIE_CONTENT, START}, rest)
                 \/ Goodbye(fd) \/ Count(fd, rest) \/ Ignore(fd, rest)
        BY <2>2, <2>5, PlayingCases
      <3>3. QED BY <2>1, <3>1, <3>2, HandlerNetwork
    <2>6. QED BY <1>3, <2>3, <2>4, <2>5
  <1>4. ASSUME NEW types \in SUBSET FromServer, SendToAll(types) PROVE SeenGrows
    <2>1. Writable \in SUBSET Open BY DEF IInv, DescriptorsConsistent, Writable
    <2>2. QED BY <1>4, <2>1, DeliverGrows DEF SendToAll
  <1>5. ASSUME \/ BeginRound \/ EndVoting \/ SendSelected \/ SelectForContent \/ StartDownload
               \/ EndDownload \/ SendStart \/ EndPlaying \/ StayInLoop
               \/ \E fd \in Fds : SendContent(fd)
        PROVE  NetworkStep
    <2>1. \A m \in {MOVIES, MOVIE_SELECTED, MOVIE_CONTENT, START} : {m} \in SUBSET FromServer
      BY DEF FromServer
    <2>2. UNCHANGED <<peer, inbox, said>>
      BY <1>5 DEF BeginRound, EndVoting, EndVotingWith, SendSelected, SelectForContent,
                  SendContent, StartDownload, EndDownload, SendStart, EndPlaying, StayInLoop,
                  sockets
    <2>3. SeenGrows
      <3>1. CASE BeginRound BY <1>2, <1>4, <2>1, <3>1 DEF BeginRound, sending
      <3>2. CASE SendSelected BY <1>4, <2>1, <3>2 DEF SendSelected
      <3>3. ASSUME NEW fd \in Fds, SendContent(fd) PROVE SeenGrows
        <4>1. {fd} \in SUBSET Open BY <3>3 DEF SendContent, IInv, LoopControl
        <4>2. QED BY <2>1, <3>3, <4>1, DeliverGrows DEF SendContent
      <3>4. CASE SendStart BY <1>4, <2>1, <3>4 DEF SendStart
      <3>5. CASE \/ EndVoting \/ SelectForContent \/ StartDownload \/ EndDownload
                 \/ EndPlaying \/ StayInLoop
        BY <1>2, <3>5 DEF EndVoting, EndVotingWith, SelectForContent, StartDownload,
                          EndDownload, EndPlaying, StayInLoop, sending
      <3>6. QED BY <1>5, <3>1, <3>2, <3>3, <3>4, <3>5
    <2>4. QED BY <2>2, <2>3 DEF NetworkStep
  <1>6. CASE Accept
    <2>1. Head(backlog) \in Clients
      BY <1>6, HeadTailProperties DEF Accept, ConnectionPending, IInv, TypeOK
    <2>2. UNCHANGED <<inbox, said, seen>> BY <1>6 DEF Accept, sending
    <2>3. CASE UNCHANGED peer BY <1>2, <2>2, <2>3 DEF NetworkStep
    <2>4. CASE \E fd \in Fds \ Open : peer' = [peer EXCEPT ![fd] = Head(backlog)]
      BY <2>1, <2>2, <2>4 DEF NetworkStep
    <2>5. QED BY <1>6, <2>3, <2>4 DEF Accept
  <1>7. CASE Select BY <1>2, <1>7 DEF Select, sockets, sending, NetworkStep
  <1>8. CASE Environment
    <2>1. ASSUME NEW c \in Clients, Connect(c) PROVE NetworkStep
      BY <1>2, <2>1 DEF Connect, sending, NetworkStep
    <2>2. ASSUME NEW fd \in Fds, NEW type \in Script, NEW v \in Videos, Send(fd, type, v)
          PROVE  NetworkStep
      BY <2>2 DEF Send, sending, NetworkStep
    <2>3. ASSUME NEW fd \in Fds, Disconnect(fd) \/ TakeVideo(fd) \/ Drain(fd) PROVE NetworkStep
      BY <1>2, <2>3 DEF Disconnect, TakeVideo, Drain, NetworkStep
    <2>4. CASE Tick BY <1>2, <2>4 DEF Tick, sending, NetworkStep
    <2>5. QED BY <1>8, <2>1, <2>2, <2>3, <2>4 DEF Environment
  <1>9. CASE UNCHANGED vars BY <1>2, <1>9 DEF vars, NetworkStep
  <1>10. QED BY <1>3, <1>5, <1>6, <1>7, <1>8, <1>9 DEF Next, Server


-----------------------------------------------------------------------------
(* The connections *)

\* What the clients of this protocol wait for before they send.
LEMMA SendRule ==
  ASSUME NEW fd \in Fds, NEW type \in Script, MaySend(fd, type)
  PROVE  /\ type \notin said[fd] /\ GOODBYE \notin said[fd]
         /\ type \in {VOTE, DOWNLOADED, GOODBYE} => HELLO \in said[fd]
         /\ type = VOTE => MOVIES \in seen[fd]
         /\ type = DOWNLOADED => MOVIE_CONTENT \in seen[fd]
         /\ type = END_MOVIE => DOWNLOADED \in said[fd]
         /\ type \in {HELLO, VOTE, DOWNLOADED, END_MOVIE, GOODBYE}
  <1>1. type \in {1, 3, 6, 8, 9} BY ScriptAssumption
  <1>2. type \notin said[fd] /\ GOODBYE \notin said[fd] BY DEF MaySend
  <1> USE DEF MaySend, HELLO, VOTE, DOWNLOADED, END_MOVIE, GOODBYE
  <1>3. CASE type = 1 BY <1>2, <1>3
  <1>4. CASE type = 3 BY <1>2, <1>4
  <1>5. CASE type = 6 BY <1>2, <1>5
  <1>6. CASE type = 8 BY <1>2, <1>6
  <1>7. CASE type = 9 BY <1>2, <1>7
  <1>8. QED BY <1>1, <1>3, <1>4, <1>5, <1>6, <1>7

\* Nothing has been sent when the server starts.
LEMMA InitStreams == Init => Streams
  <1> SUFFICES ASSUME Init PROVE Streams OBVIOUS
  <1>1. \A fd \in Fds : inbox[fd] = <<>> /\ said[fd] = {} /\ seen[fd] = {} BY DEF Init
  <1>2. Len(<<>>) = 0 BY EmptySeq
  <1>3. QED BY <1>1, <1>2 DEF Streams, WellFormed

\* A message that may be sent leaves the connection as it should be.
LEMMA SendStreams ==
  ASSUME IInv, Streams, UNCHANGED <<peer, seen>>,
         NEW fd \in Fds, NEW type \in Script, NEW v \in Videos, Send(fd, type, v)
  PROVE  Streams'
  <1>1. /\ inbox \in [Fds -> Seq(Int)] /\ said \in [Fds -> SUBSET Script]
        /\ peer \in [Fds -> Clients \cup {NoClient}]
    BY DEF IInv, TypeOK
  <1>2. fd \in Open /\ MaySend(fd, type) /\ peer[fd] \in Clients BY <1>1 DEF Send, Open
  <1>3. /\ inbox' = [inbox EXCEPT ![fd] = inbox[fd] \o Bytes(peer[fd], type, v)]
        /\ said' = [said EXCEPT ![fd] = said[fd] \cup {type}]
        /\ Open' = Open
    BY DEF Send, Open
  <1>4. type = HELLO \/ HELLO \in said[fd]
    BY <1>2, SendRule DEF Streams
  <1>5. WellFormed(inbox'[fd], said'[fd])
    <2>1. inbox'[fd] = inbox[fd] \o Bytes(peer[fd], type, v) /\ said'[fd] = said[fd] \cup {type}
      BY <1>1, <1>3
    <2>2. type \notin said[fd] /\ GOODBYE \notin said[fd] BY <1>2, SendRule
    <2>3. WellFormed(inbox[fd], said[fd]) /\ inbox[fd] \in Seq(Int) BY <1>1 DEF Streams
    <2>4. QED BY <1>2, <1>4, <2>1, <2>2, <2>3, SendWellFormed
  <1>6. /\ HELLO \in said'[fd]
        /\ VOTE \in said'[fd] => MOVIES \in seen[fd]
        /\ DOWNLOADED \in said'[fd] => MOVIE_CONTENT \in seen[fd]
        /\ END_MOVIE \in said'[fd] => DOWNLOADED \in said'[fd]
    BY <1>1, <1>2, <1>3, <1>4, SendRule DEF Streams
  <1>7. \A g \in Fds \ {fd} : inbox'[g] = inbox[g] /\ said'[g] = said[g] BY <1>1, <1>3
  <1>8. QED BY <1>2, <1>3, <1>5, <1>6, <1>7 DEF Streams

\* Every step keeps the connections as they should be.
LEMMA StreamsNext ==
  ASSUME IInv, Streams, NetworkStep
  PROVE  Streams'
  <1>1. /\ inbox \in [Fds -> Seq(Int)] /\ said \in [Fds -> SUBSET Script]
        /\ peer \in [Fds -> Clients \cup {NoClient}] /\ seen \in [Fds -> SUBSET FromServer]
    BY DEF IInv, TypeOK
  <1>2. \A sent : WellFormed(<<>>, sent) BY EmptySeq DEF WellFormed
  <1>3. CASE UNCHANGED <<peer, seen>>
             /\ \E fd \in Fds, type \in Script, v \in Videos : Send(fd, type, v)
    BY <1>3, SendStreams
  <1>4. ASSUME NEW fd \in Fds, CloseConnection(fd) PROVE Streams'
    <2>1. /\ inbox' = [inbox EXCEPT ![fd] = <<>>] /\ said' = [said EXCEPT ![fd] = {}]
          /\ seen' = [seen EXCEPT ![fd] = {}] /\ peer' = [peer EXCEPT ![fd] = NoClient]
      BY <1>4 DEF CloseConnection
    <2>2. \A g \in Fds \ {fd} : /\ inbox'[g] = inbox[g] /\ said'[g] = said[g] /\ seen'[g] = seen[g]
                                /\ (g \in Open' <=> g \in Open)
      BY <1>1, <2>1 DEF Open
    <2>3. inbox'[fd] = <<>> /\ said'[fd] = {} /\ seen'[fd] = {} BY <1>1, <2>1
    <2>4. QED BY <1>2, <2>2, <2>3 DEF Streams
  <1>5. ASSUME UNCHANGED <<inbox, said, seen>>,
               NEW fd \in Fds \ Open, NEW c \in Clients, peer' = [peer EXCEPT ![fd] = c]
        PROVE  Streams'
    <2>1. Open \subseteq Open' BY <1>1, <1>5 DEF Open
    <2>2. QED BY <1>5, <2>1 DEF Streams
  <1>6. ASSUME UNCHANGED <<peer, said>>, SeenGrows, NEW fd \in Open, NEW rest \in Seq(Int),
               rest = <<>> \/ (inbox[fd] # <<>> /\ rest = Tail(inbox[fd])),
               inbox' = [inbox EXCEPT ![fd] = rest]
        PROVE  Streams'
    <2>1. Open' = Open /\ fd \in Fds BY <1>6 DEF Open
    <2>2. WellFormed(rest, said[fd])
      BY <1>1, <1>2, <1>6, <2>1, TailWellFormed DEF Streams
    <2>3. inbox'[fd] = rest /\ \A g \in Fds \ {fd} : inbox'[g] = inbox[g] BY <1>1, <1>6, <2>1
    <2>4. \A g \in Fds : WellFormed(inbox'[g], said'[g]) BY <1>6, <2>2, <2>3 DEF Streams
    <2>5. QED BY <1>6, <2>1, <2>3, <2>4 DEF Streams, SeenGrows
  <1>7. CASE UNCHANGED <<peer, inbox, said>> /\ SeenGrows
    BY <1>7 DEF Streams, SeenGrows, Open
  <1>8. QED BY <1>3, <1>4, <1>5, <1>6, <1>7 DEF NetworkStep


-----------------------------------------------------------------------------
(* Every DOWNLOADED is counted once *)

\* The connections with a DOWNLOADED that has not been read, and those on
\* which the step sends one.
Pending == {fd \in Open : \E i \in 1..Len(inbox[fd]) : inbox[fd][i] = DOWNLOADED}
Sending == {fd \in Fds : DOWNLOADED \in said'[fd] \ said[fd]}

\* A descriptor that is not touched stays pending, or not pending.
LEMMA PendingElsewhere ==
  ASSUME NEW fd \in Fds,
         \A g \in Fds \ {fd} : inbox'[g] = inbox[g] /\ (g \in Open' <=> g \in Open)
  PROVE  Pending' \ {fd} = Pending \ {fd}
  <1>1. Open \subseteq Fds /\ Open' \subseteq Fds BY DEF Open
  <1>2. ASSUME NEW g \in Fds, g # fd PROVE g \in Pending' <=> g \in Pending
    BY <1>2 DEF Pending
  <1>3. Pending' \subseteq Fds /\ Pending \subseteq Fds BY <1>1 DEF Pending
  <1>4. QED BY <1>2, <1>3

\* The service of a descriptor in the download loop: a DOWNLOADED leaves the
\* queue when it is counted, and only then.
LEMMA ServeDownloadCounts ==
  ASSUME IInv, Streams, NEW fd \in Fds, ServeDownload(fd), pc' = "download"
  PROVE  /\ \/ Pending' = Pending /\ downloaded' = downloaded
            \/ fd \in Pending /\ Pending' = Pending \ {fd} /\ downloaded' = downloaded + 1
         /\ \A g \in Fds : said'[g] \subseteq said[g]
  <1> DEFINE q == inbox[fd]
  <1>1. /\ inbox \in [Fds -> Seq(Int)] /\ said \in [Fds -> SUBSET Script]
        /\ peer \in [Fds -> Clients \cup {NoClient}]
    BY DEF IInv, TypeOK
  <1>2. fd \in Open /\ pc = "download" /\ q \in Seq(Int) BY <1>1, DownloadCases
  <1>3. WellFormed(q, said[fd]) BY DEF Streams
  <1>4. q # <<>> =>
          /\ Head(q) = q[1] /\ 1 \in 1..Len(q) /\ Len(Tail(q)) = Len(q) - 1 /\ Len(q) \in Nat
          /\ \A i \in 1..Len(Tail(q)) : Tail(q)[i] = q[i + 1] /\ i + 1 \in 1..Len(q)
    BY <1>2, HeadTailProperties, EmptySeq
  <1>5. Len(<<>>) = 0 BY EmptySeq
  <1> HIDE DEF q
  <1>6. ASSUME NEW rest, inbox' = [inbox EXCEPT ![fd] = rest], UNCHANGED peer
        PROVE  /\ Pending' \ {fd} = Pending \ {fd} /\ inbox'[fd] = rest
               /\ fd \in Pending' <=> \E i \in 1..Len(rest) : rest[i] = DOWNLOADED
    <2>1. Open' = Open /\ inbox'[fd] = rest /\ \A g \in Fds \ {fd} : inbox'[g] = inbox[g]
      BY <1>1, <1>6 DEF Open
    <2>2. QED BY <1>2, <2>1, PendingElsewhere DEF Pending
  <1>7. fd \in Pending <=> \E i \in 1..Len(q) : q[i] = DOWNLOADED
    BY <1>2 DEF Pending, q
  <1>8. CASE q # <<>> /\ Head(q) = DOWNLOADED /\ Count(fd, Tail(q))
    <2>1. fd \in Pending BY <1>4, <1>7, <1>8
    <2>2. \A i \in 1..Len(Tail(q)) : Tail(q)[i] # DOWNLOADED
      <3>1. ASSUME NEW i \in 1..Len(Tail(q)), Tail(q)[i] = DOWNLOADED PROVE FALSE
        <4>1. q[1] = DOWNLOADED /\ q[i + 1] = DOWNLOADED /\ i + 1 \in 1..Len(q) /\ 1 \in 1..Len(q)
          BY <1>4, <1>8, <3>1
        <4>2. i + 1 = 1 BY <1>3, <4>1 DEF WellFormed
        <4>3. QED BY <4>2
      <3>2. QED BY <3>1
    <2>3. Pending' = Pending \ {fd}
      BY <1>6, <1>8, <2>1, <2>2 DEF Count, sockets
    <2>4. QED BY <1>8, <2>1, <2>3 DEF Count
  <1>9. ASSUME q # <<>>, Head(q) # DOWNLOADED, inbox' = [inbox EXCEPT ![fd] = Tail(q)],
               UNCHANGED <<peer, downloaded, said>>
        PROVE  Pending' = Pending /\ downloaded' = downloaded /\ \A g \in Fds : said'[g] \subseteq said[g]
    <2>1. ASSUME NEW i \in 1..Len(q), q[i] = DOWNLOADED
          PROVE  i - 1 \in 1..Len(Tail(q)) /\ Tail(q)[i - 1] = DOWNLOADED
      <3>1. i # 1 BY <1>4, <1>9, <2>1
      <3>2. i - 1 \in 1..Len(Tail(q)) /\ (i - 1) + 1 = i BY <1>4, <1>9, <3>1
      <3>3. QED BY <1>4, <1>9, <2>1, <3>2
    <2>2. ASSUME NEW i \in 1..Len(Tail(q)), Tail(q)[i] = DOWNLOADED
          PROVE  i + 1 \in 1..Len(q) /\ q[i + 1] = DOWNLOADED
      BY <1>4, <1>9, <2>2
    <2>3. fd \in Pending' <=> fd \in Pending BY <1>6, <1>7, <1>9, <2>1, <2>2
    <2>4. Pending' \ {fd} = Pending \ {fd} BY <1>6, <1>9
    <2>5. Pending' = Pending BY <2>3, <2>4
    <2>6. QED BY <1>9, <2>5
  <1>10. CASE q # <<>> /\ Head(q) = HELLO
              /\ \E name \in Seq(Int) : Hello(fd, name, {MOVIE_CONTENT}, Tail(q))
    BY <1>9, <1>10 DEF Hello, sockets, HELLO, DOWNLOADED
  <1>11. CASE q # <<>> /\ Head(q) \notin {HELLO, DOWNLOADED, GOODBYE} /\ Ignore(fd, Tail(q))
    BY <1>9, <1>11 DEF Ignore, sockets
  <1>12. CASE q = <<>> /\ Ignore(fd, <<>>)
    <2>1. fd \notin Pending BY <1>5, <1>7, <1>12
    <2>2. inbox' = [inbox EXCEPT ![fd] = <<>>] /\ UNCHANGED <<peer, downloaded, said>>
      BY <1>12 DEF Ignore, sockets
    <2>3. UNCHANGED peer BY <2>2
    <2>4. /\ Pending' \ {fd} = Pending \ {fd}
          /\ fd \in Pending' <=> \E i \in 1..Len(<<>>) : <<>>[i] = DOWNLOADED
      BY <1>6, <2>2, <2>3
    <2>5. Pending' \ {fd} = Pending \ {fd} /\ fd \notin Pending' BY <1>5, <2>4
    <2>6. Pending' = Pending BY <2>1, <2>5
    <2>7. QED BY <2>2, <2>6
  <1>13. CASE q # <<>> /\ Head(q) = GOODBYE /\ Goodbye(fd)
    <2>1. CloseConnection(fd) /\ UNCHANGED downloaded BY <1>2, <1>13 DEF Goodbye
    <2>2. /\ inbox' = [inbox EXCEPT ![fd] = <<>>] /\ said' = [said EXCEPT ![fd] = {}]
          /\ peer' = [peer EXCEPT ![fd] = NoClient]
      BY <2>1 DEF CloseConnection
    <2>3. q[1] = GOODBYE /\ 1 \in 1..Len(q) BY <1>4, <1>13
    <2>4. Len(q) = 1 BY <1>3, <2>3 DEF WellFormed
    <2>5. fd \notin Pending BY <1>7, <2>3, <2>4 DEF GOODBYE, DOWNLOADED
    <2>6. fd \notin Pending' BY <1>1, <2>2 DEF Pending, Open
    <2>7. Pending' \ {fd} = Pending \ {fd}
      <3>1. \A g \in Fds \ {fd} : inbox'[g] = inbox[g] /\ (g \in Open' <=> g \in Open)
        BY <1>1, <2>2 DEF Open
      <3>2. QED BY <3>1, PendingElsewhere
    <2>8. \A g \in Fds : said'[g] \subseteq said[g] BY <1>1, <2>2
    <2>9. QED BY <2>1, <2>5, <2>6, <2>7, <2>8
  <1>14. \/ /\ q # <<>>
            /\ \/ Head(q) = DOWNLOADED /\ Count(fd, Tail(q))
               \/ /\ Head(q) = HELLO
                  /\ \E name \in Seq(Int) : Hello(fd, name, {MOVIE_CONTENT}, Tail(q))
               \/ Head(q) = GOODBYE /\ Goodbye(fd)
               \/ Head(q) \notin {HELLO, DOWNLOADED, GOODBYE} /\ Ignore(fd, Tail(q))
         \/ q = <<>> /\ Ignore(fd, <<>>)
    BY DownloadCases DEF q
  <1>15. QED
    <2>1. CASE q # <<>>
      <3>1. CASE Head(q) = DOWNLOADED /\ Count(fd, Tail(q)) BY <1>8, <2>1, <3>1
      <3>2. CASE Head(q) = HELLO
                 /\ \E name \in Seq(Int) : Hello(fd, name, {MOVIE_CONTENT}, Tail(q))
        BY <1>10, <2>1, <3>2
      <3>3. CASE Head(q) = GOODBYE /\ Goodbye(fd) BY <1>13, <2>1, <3>3
      <3>4. CASE Head(q) \notin {HELLO, DOWNLOADED, GOODBYE} /\ Ignore(fd, Tail(q))
        BY <1>11, <2>1, <3>4
      <3>5. QED BY <1>14, <2>1, <3>1, <3>2, <3>3, <3>4
    <2>2. CASE q = <<>> BY <1>12, <1>14, <2>2
    <2>3. QED BY <2>1, <2>2

\* Sending a message: DOWNLOADED makes its connection pending.
LEMMA SendCounts ==
  ASSUME IInv, Streams, NEW fd \in Fds, NEW type \in Script, NEW v \in Videos,
         Send(fd, type, v)
  PROVE  /\ type = DOWNLOADED =>
              Pending' = Pending \cup {fd} /\ fd \notin Pending /\ Sending = {fd}
         /\ type # DOWNLOADED => Pending' = Pending /\ Sending = {}
  <1> DEFINE q == inbox[fd]
             b == Bytes(peer[fd], type, v)
  <1>1. /\ inbox \in [Fds -> Seq(Int)] /\ said \in [Fds -> SUBSET Script]
        /\ peer \in [Fds -> Clients \cup {NoClient}] /\ q \in Seq(Int)
    BY DEF IInv, TypeOK
  <1>2. fd \in Open /\ peer[fd] \in Clients /\ type \notin said[fd]
    BY <1>1 DEF Send, Open, MaySend
  <1>3. /\ inbox' = [inbox EXCEPT ![fd] = q \o b]
        /\ said' = [said EXCEPT ![fd] = said[fd] \cup {type}]
        /\ Open' = Open
    BY DEF Send, Open
  <1>4. /\ b \in Seq(Int) /\ b[1] = type /\ Len(b) \in 1..2
        /\ \A i \in 1..Len(b) : b[i] \in {GOODBYE, DOWNLOADED} => type = b[i]
    BY <1>2, BytesShape
  <1>5. Sending = IF type = DOWNLOADED THEN {fd} ELSE {}
    BY <1>1, <1>2, <1>3 DEF Sending
  <1>6. \A g \in Fds \ {fd} : inbox'[g] = inbox[g] /\ (g \in Open' <=> g \in Open)
    BY <1>1, <1>3
  <1>7. Pending' \ {fd} = Pending \ {fd} BY <1>6, PendingElsewhere
  <1>8. inbox'[fd] = q \o b BY <1>1, <1>3
  <1>9. /\ fd \in Pending <=> \E i \in 1..Len(q) : q[i] = DOWNLOADED
        /\ fd \in Pending' <=> \E i \in 1..Len(q \o b) : (q \o b)[i] = DOWNLOADED
    BY <1>2, <1>3, <1>8 DEF Pending
  <1>10. WellFormed(q, said[fd]) BY DEF Streams
  <1> HIDE DEF b, q
  <1>11. /\ Len(q) \in Nat /\ Len(q \o b) = Len(q) + Len(b)
         /\ \A i \in 1..(Len(q) + Len(b)) : (q \o b)[i] = IF i <= Len(q) THEN q[i] ELSE b[i - Len(q)]
    BY <1>1, <1>4, ConcatProperties, LenProperties
  <1>12. CASE type = DOWNLOADED
    <2>1. fd \notin Pending BY <1>2, <1>9, <1>10, <1>12 DEF WellFormed
    <2>2. Len(q) + 1 \in 1..(Len(q) + Len(b)) /\ ~(Len(q) + 1 <= Len(q)) /\ (Len(q) + 1) - Len(q) = 1
      BY <1>4, <1>11
    <2>3. (q \o b)[Len(q) + 1] = DOWNLOADED BY <1>4, <1>11, <1>12, <2>2
    <2>4. fd \in Pending' BY <1>9, <1>11, <2>2, <2>3
    <2>5. QED BY <1>5, <1>7, <1>12, <2>1, <2>4
  <1>13. CASE type # DOWNLOADED
    <2>1. \A i \in 1..Len(b) : b[i] # DOWNLOADED BY <1>4, <1>13
    <2>2. ASSUME NEW i \in 1..Len(q), q[i] = DOWNLOADED
          PROVE  i \in 1..Len(q \o b) /\ (q \o b)[i] = DOWNLOADED
      <3>1. i \in 1..(Len(q) + Len(b)) /\ i <= Len(q) BY <1>4, <1>11
      <3>2. QED BY <1>11, <2>2, <3>1
    <2>3. ASSUME NEW i \in 1..Len(q \o b), (q \o b)[i] = DOWNLOADED
          PROVE  i \in 1..Len(q) /\ q[i] = DOWNLOADED
      <3>1. CASE i <= Len(q) BY <1>11, <2>3, <3>1
      <3>2. CASE ~(i <= Len(q))
        <4>1. i - Len(q) \in 1..Len(b) BY <1>4, <1>11, <3>2
        <4>2. (q \o b)[i] = b[i - Len(q)] BY <1>11, <3>2
        <4>3. QED BY <2>1, <2>3, <4>1, <4>2
      <3>3. QED BY <3>1, <3>2
    <2>4. fd \in Pending' <=> fd \in Pending BY <1>9, <2>2, <2>3
    <2>5. QED BY <1>5, <1>7, <1>13, <2>4
  <1>14. QED BY <1>12, <1>13

\* What a step in the download loop does to the counter and to what is queued.
LEMMA DownloadStep ==
  ASSUME IInv, Streams, [Next]_vars, pc = "download", pc' = "download"
  PROVE  Announced' = Announced + Cardinality(Sending)
  <1>1. IsFiniteSet(Pending) /\ Cardinality(Pending) \in Nat
    <2>1. IsFiniteSet(Fds) BY BoundAssumption, FS_Interval DEF Fds
    <2>2. Pending \in SUBSET Fds BY DEF Pending, Open
    <2>3. QED BY <2>1, <2>2, FS_Subset, FS_CardinalityType
  <1>2. downloaded \in Int BY DEF IInv, TypeOK
  <1>3. Announced = downloaded + Cardinality(Pending) BY DEF Announced, Pending
  <1>4. Announced' = downloaded' + Cardinality(Pending') BY DEF Announced, Pending
  <1>5. ASSUME Pending' = Pending, downloaded' = downloaded, Sending = {}
        PROVE  Announced' = Announced + Cardinality(Sending)
    BY <1>1, <1>2, <1>3, <1>4, <1>5, FS_EmptySet
  <1>6. ASSUME \A g \in Fds : said'[g] \subseteq said[g] PROVE Sending = {}
    BY <1>6 DEF Sending
  <1>7. ASSUME UNCHANGED <<peer, inbox, said, downloaded>>
        PROVE  Announced' = Announced + Cardinality(Sending)
    BY <1>5, <1>6, <1>7 DEF Pending, Open
  <1>8. ASSUME NEW fd \in Fds, ServeDownload(fd)
        PROVE  Announced' = Announced + Cardinality(Sending)
    <2>1. Sending = {} BY <1>6, <1>8, ServeDownloadCounts
    <2>2. CASE Pending' = Pending /\ downloaded' = downloaded BY <1>5, <2>1, <2>2
    <2>3. CASE fd \in Pending /\ Pending' = Pending \ {fd} /\ downloaded' = downloaded + 1
      <3>1. Cardinality(Pending') = Cardinality(Pending) - 1 BY <1>1, <2>3, FS_RemoveElement
      <3>2. Cardinality(Sending) = 0 BY <2>1, FS_EmptySet
      <3>3. QED BY <1>1, <1>2, <1>3, <1>4, <2>3, <3>1, <3>2
    <2>4. QED BY <1>8, <2>2, <2>3, ServeDownloadCounts
  <1>9. ASSUME NEW fd \in Fds, NEW type \in Script, NEW v \in Videos, Send(fd, type, v)
        PROVE  Announced' = Announced + Cardinality(Sending)
    <2>1. downloaded' = downloaded BY <1>9 DEF Send, serverVars
    <2>2. CASE type = DOWNLOADED
      <3>1. Pending' = Pending \cup {fd} /\ fd \notin Pending /\ Sending = {fd}
        BY <1>9, <2>2, SendCounts
      <3>2. Cardinality(Pending') = Cardinality(Pending) + 1 BY <1>1, <3>1, FS_AddElement
      <3>3. Cardinality(Sending) = 1 BY <3>1, FS_Singleton
      <3>4. QED BY <1>1, <1>2, <1>3, <1>4, <2>1, <3>2, <3>3
    <2>3. CASE type # DOWNLOADED BY <1>5, <1>9, <2>1, <2>3, SendCounts
    <2>4. QED BY <2>2, <2>3
  <1>10. CASE Accept
    <2>1. UNCHANGED <<inbox, said, downloaded>> BY <1>10 DEF Accept
    <2>2. Open \subseteq Open'
      BY <1>10, NameAssumption, HeadTailProperties DEF Accept, ConnectionPending, IInv, TypeOK, Open
    <2>3. \A fd \in Fds \ Open : inbox[fd] = <<>> BY DEF Streams
    <2>4. Pending' = Pending
      <3>1. Len(<<>>) = 0 BY EmptySeq
      <3>2. Open' \subseteq Fds BY DEF Open
      <3>3. QED BY <2>1, <2>2, <2>3, <3>1, <3>2 DEF Pending
    <2>5. QED BY <1>5, <1>6, <2>1, <2>4
  <1>11. CASE Select \/ StayInLoop BY <1>7, <1>11 DEF Select, StayInLoop, sockets
  <1>12. ASSUME NEW c \in Clients, Connect(c)
         PROVE  Announced' = Announced + Cardinality(Sending)
    BY <1>7, <1>12 DEF Connect, serverVars
  <1>13. ASSUME NEW fd \in Fds, Disconnect(fd) \/ TakeVideo(fd) \/ Drain(fd)
         PROVE  Announced' = Announced + Cardinality(Sending)
    BY <1>7, <1>13 DEF Disconnect, TakeVideo, Drain, serverVars
  <1>14. CASE UNCHANGED vars BY <1>7, <1>14 DEF vars
  <1>15. /\ ~BeginRound /\ ~EndVoting /\ ~SendSelected /\ ~SelectForContent /\ ~StartDownload
         /\ ~EndDownload /\ ~SendStart /\ ~EndPlaying /\ ~Tick
         /\ \A fd \in Fds : ~SendContent(fd) /\ ~ServeVoting(fd) /\ ~PlayRead(fd) /\ ~PlayHandle(fd)
    BY DEF BeginRound, EndVoting, EndVotingWith, SendSelected, SelectForContent, SendContent,
           StartDownload, EndDownload, SendStart, EndPlaying, Tick, ServeVoting, PlayRead,
           PlayHandle, Serving
  <1>16. QED
    BY <1>8, <1>9, <1>10, <1>11, <1>12, <1>13, <1>14, <1>15 DEF Next, Server, Environment


-----------------------------------------------------------------------------
(* The members of a round and its film *)

\* The round begins without members.
LEMMA InitMembers == Init => Members
  BY DEF Init, Members, JoinedHaveFilm, List_new

\* Only members that leave are fewer, and only those that join are more.
LEMMA JoinedFinite ==
  ASSUME IInv
  PROVE  /\ IsFiniteSet(joined) /\ Cardinality(joined) \in Nat
         /\ \A fd : /\ Cardinality(joined \cup {fd}) <= Cardinality(joined) + 1
                    /\ Cardinality(joined \ {fd}) <= Cardinality(joined)
                    /\ fd \in joined => Cardinality(joined \ {fd}) = Cardinality(joined) - 1
  <1>1. IsFiniteSet(Fds) BY BoundAssumption, FS_Interval DEF Fds
  <1>2. IsFiniteSet(joined)
    <2>1. joined \in SUBSET Fds BY DEF IInv, TypeOK
    <2>2. QED BY <1>1, <2>1, FS_Subset
  <1>3. Cardinality(joined) \in Nat BY <1>2, FS_CardinalityType
  <1>4. ASSUME NEW fd
        PROVE  /\ Cardinality(joined \cup {fd}) <= Cardinality(joined) + 1
               /\ Cardinality(joined \ {fd}) <= Cardinality(joined)
               /\ fd \in joined => Cardinality(joined \ {fd}) = Cardinality(joined) - 1
    <2>1. Cardinality(joined \cup {fd}) = IF fd \in joined THEN Cardinality(joined) ELSE Cardinality(joined) + 1
      BY <1>2, FS_AddElement
    <2>2. Cardinality(joined \ {fd}) = IF fd \in joined THEN Cardinality(joined) - 1 ELSE Cardinality(joined)
      BY <1>2, FS_RemoveElement
    <2>3. QED BY <1>3, <2>1, <2>2
  <1>5. QED BY <1>2, <1>3, <1>4

\* A step that changes neither the phase nor the members.
LEMMA MembersKept ==
  ASSUME IInv, Members, pc' = pc, UNCHANGED members,
         \A fd \in Fds : seen[fd] \subseteq seen'[fd],
         stalled' \subseteq stalled, hasFilm \subseteq hasFilm',
         pc = "film" => ready \subseteq ready',
         pc \in {"voting", "selected", "content"} =>
           \A fd \in Open' : (fd \in Open => Fresh(fd)) => Fresh(fd)'
  PROVE  Members'
  <1>1. joined \subseteq Open /\ joined \subseteq Fds BY DEF IInv, TypeOK, DescriptorsConsistent
  <1>2. joined' = joined /\ clientIDs' = clientIDs BY DEF members
  <1>3. JoinedHaveFilm' BY <1>2 DEF Members, JoinedHaveFilm
  <1>4. pc' \in {"voting", "selected", "content"} =>
          \A fd \in Open' \ joined' : List_contains_fd(clientIDs, fd) => Fresh(fd)'
    BY <1>2 DEF Members
  <1>5. QED BY <1>1, <1>2, <1>3, <1>4 DEF Members

\* HELLO: the new member has a record, and the list or the film.
LEMMA HelloMembers ==
  ASSUME IInv, Members, NEW fd \in Fds, NEW name \in Seq(Int), NEW rest, NEW types,
         Hello(fd, name, types, rest),
         (pc = "voting" /\ types = {MOVIES}) \/ (pc \in {"download", "playing"} /\ MOVIE_CONTENT \in types)
  PROVE  Members'
  <1>1. /\ pc' = pc /\ joined' = joined \cup {fd} /\ fd \notin stalled
        /\ clientIDs' = List_add(clientIDs, name, fd) /\ Open' = Open
        /\ inbox' = [inbox EXCEPT ![fd] = rest] /\ said' = said
        /\ Deliver({fd}, types)
    BY DEF Hello, sockets, Open
  <1>2. inbox \in [Fds -> Seq(Int)] /\ seen \in [Fds -> SUBSET FromServer] /\ joined \subseteq Fds
        /\ clientIDs \in Seq(Record)
    BY DEF IInv, TypeOK
  <1>3. CASE pc = "voting" /\ types = {MOVIES}
    <2>1. stalled' = stalled BY <1>1, <1>3 DEF Deliver, WriteVideo, MOVIES, MOVIE_CONTENT
    <2>2. \A g \in joined' : MOVIES \in seen'[g] BY <1>1, <1>2, <1>3 DEF Deliver, WriteVideo, Members
    <2>3. Entry_new(name, fd) \in Record BY DEF Entry_new, Record
    <2>4. /\ Len(clientIDs') = Len(clientIDs) + 1
          /\ \A g : List_contains_fd(clientIDs', g) <=> g = fd \/ List_contains_fd(clientIDs, g)
      BY <1>1, <1>2, <2>3, AddFDs
    <2>5. Cardinality(joined') <= Len(clientIDs')
      <3>1. Cardinality(joined') <= Cardinality(joined) + 1 BY <1>1, JoinedFinite
      <3>2. Cardinality(joined) <= Len(clientIDs) BY <1>3 DEF Members
      <3>3. Cardinality(joined) \in Nat /\ Cardinality(joined') \in Nat /\ Len(clientIDs) \in Nat
        <4>1. IsFiniteSet(joined') BY <1>1, JoinedFinite, FS_AddElement
        <4>2. QED BY <1>2, <4>1, JoinedFinite, FS_CardinalityType, LenProperties
      <3>4. QED BY <2>4, <3>1, <3>2, <3>3
    <2>6. ASSUME NEW g \in Open' \ joined', List_contains_fd(clientIDs', g) PROVE Fresh(g)'
      <3>1. g # fd /\ g \in Open \ joined /\ List_contains_fd(clientIDs, g) /\ g \in Fds
        BY <1>1, <2>4, <2>6 DEF Open
      <3>2. Fresh(g) BY <1>3, <3>1 DEF Members
      <3>3. inbox'[g] = inbox[g] /\ said'[g] = said[g] BY <1>1, <1>2, <3>1
      <3>4. QED BY <3>2, <3>3 DEF Fresh
    <2>7. joined' \cap stalled' = {} BY <1>1, <1>3, <2>1 DEF Members
    <2>8. QED BY <1>1, <1>3, <2>2, <2>5, <2>6, <2>7 DEF Members, JoinedHaveFilm
  <1>4. CASE pc \in {"download", "playing"} /\ MOVIE_CONTENT \in types
    <2>1. hasFilm' = hasFilm \cup {fd} BY <1>1, <1>4 DEF Deliver, WriteVideo
    <2>2. JoinedHaveFilm' BY <1>1, <1>4, <2>1 DEF Members, JoinedHaveFilm
    <2>3. QED BY <1>1, <1>4, <2>2 DEF Members
  <1>5. QED BY <1>3, <1>4

\* GOODBYE: the member goes, and with it one record at most.
LEMMA GoodbyeMembers ==
  ASSUME IInv, Streams, Members, NEW fd \in Open, pc \in Loops, Goodbye(fd),
         inbox[fd] # <<>>, Head(inbox[fd]) = GOODBYE
  PROVE  Members'
  <1>1. CASE pc' = "crashed" BY <1>1 DEF Members, JoinedHaveFilm
  <1>2. CASE /\ clientIDs = <<>> \/ List_contains_fd(clientIDs, fd)
             /\ clientIDs' = List_remove(clientIDs, List_getClientID(clientIDs, fd))
             /\ joined' = joined \ {fd}
             /\ CloseConnection(fd)
             /\ UNCHANGED <<pc, ballot, downloaded>>
    <2>1. /\ inbox \in [Fds -> Seq(Int)] /\ seen \in [Fds -> SUBSET FromServer]
          /\ joined \subseteq Fds /\ clientIDs \in Seq(Record) /\ fd \in Fds
          /\ said \in [Fds -> SUBSET Script] /\ peer \in [Fds -> Clients \cup {NoClient}]
      BY DEF IInv, TypeOK, Open
    <2>2. /\ inbox' = [inbox EXCEPT ![fd] = <<>>] /\ said' = [said EXCEPT ![fd] = {}]
          /\ seen' = [seen EXCEPT ![fd] = {}] /\ peer' = [peer EXCEPT ![fd] = NoClient]
          /\ stalled' = stalled \ {fd} /\ hasFilm' = hasFilm \ {fd} /\ pc' = pc
      BY <1>2 DEF CloseConnection
    <2>3. Open' = Open \ {fd} BY <2>1, <2>2 DEF Open
    <2>4. \A g \in Fds \ {fd} : inbox'[g] = inbox[g] /\ said'[g] = said[g] /\ seen'[g] = seen[g]
      BY <2>1, <2>2
    <2>5. JoinedHaveFilm' BY <1>2, <2>2 DEF Members, JoinedHaveFilm
    <2>6. pc = "voting" => \A g \in joined' : MOVIES \in seen'[g]
      BY <1>2, <2>1, <2>4 DEF Members
    <2>7. ASSUME pc = "voting"
          PROVE  /\ joined' \cap stalled' = {}
                 /\ Cardinality(joined') <= Len(clientIDs')
                 /\ \A g \in Open' \ joined' : List_contains_fd(clientIDs', g) => Fresh(g)'
      <3>1. joined \cap stalled = {} /\ Cardinality(joined) <= Len(clientIDs) BY <2>7 DEF Members
      <3>2. /\ Len(clientIDs') >= Len(clientIDs) - 1
            /\ \A g : List_contains_fd(clientIDs', g) => List_contains_fd(clientIDs, g)
        BY <1>2, <2>1, RemoveFDs
      <3>3. /\ Len(clientIDs) \in Nat /\ Len(clientIDs') \in Nat
            /\ Cardinality(joined) \in Nat /\ Cardinality(joined') \in Nat
        <4>1. clientIDs' \in Seq(Record) BY <1>2, <2>1, RemoveType
        <4>2. IsFiniteSet(joined') BY <1>2, JoinedFinite, FS_RemoveElement
        <4>3. QED BY <2>1, <4>1, <4>2, JoinedFinite, FS_CardinalityType, LenProperties
      <3>4. Cardinality(joined') <= Len(clientIDs')
        <4>1. CASE fd \in joined
          <5>1. Cardinality(joined') = Cardinality(joined) - 1 BY <1>2, <4>1, JoinedFinite
          <5>2. QED BY <3>1, <3>2, <3>3, <5>1
        <4>2. CASE fd \notin joined /\ clientIDs = <<>>
          <5>1. Cardinality(joined) = 0 BY <3>1, <3>3, <4>2, EmptySeq
          <5>2. Cardinality(joined') <= Cardinality(joined) BY <1>2, JoinedFinite
          <5>3. QED BY <3>3, <5>1, <5>2
        <4>3. CASE fd \notin joined /\ clientIDs # <<>>
          <5>1. Fresh(fd) BY <1>2, <2>7, <4>3 DEF Members
          <5>2. HELLO \in said[fd] BY <2>1 DEF Streams, WellFormed
          <5>3. QED BY <5>1, <5>2 DEF Fresh, HELLO, GOODBYE
        <4>4. QED BY <4>1, <4>2, <4>3
      <3>5. ASSUME NEW g \in Open' \ joined', List_contains_fd(clientIDs', g) PROVE Fresh(g)'
        <4>1. g # fd /\ g \in Open \ joined /\ g \in Fds BY <1>2, <2>3, <3>5 DEF Open
        <4>2. Fresh(g) BY <2>7, <3>2, <3>5, <4>1 DEF Members
        <4>3. QED BY <2>4, <4>1, <4>2 DEF Fresh
      <3>6. QED BY <1>2, <2>2, <3>1, <3>4, <3>5
    <2>8. pc' = pc /\ pc \notin {"round", "selected", "content", "film"} BY <2>2 DEF Loops
    <2>9. QED BY <2>5, <2>6, <2>7, <2>8 DEF Members
  <1>3. QED BY <1>1, <1>2 DEF Goodbye


\* The services of the three loops.
LEMMA ServeMembers ==
  ASSUME IInv, Streams, Members, NEW fd \in Fds,
         ServeVoting(fd) \/ ServeDownload(fd) \/ PlayRead(fd) \/ PlayHandle(fd)
  PROVE  Members'
  <1>1. /\ inbox \in [Fds -> Seq(Int)] /\ seen \in [Fds -> SUBSET FromServer]
    BY DEF IInv, TypeOK
  <1>2. ASSUME NEW rest, NEW video, Vote(fd, video, rest) \/ Count(fd, rest) \/ Ignore(fd, rest)
        PROVE  /\ pc' = pc /\ UNCHANGED members /\ stalled' \subseteq stalled
               /\ hasFilm \subseteq hasFilm' /\ Open' = Open /\ said' = said
               /\ \A g \in Fds : seen[g] \subseteq seen'[g]
               /\ inbox' = [inbox EXCEPT ![fd] = rest]
    BY <1>2 DEF Vote, Count, Ignore, sending, sockets, Open
  <1>3. CASE ServeVoting(fd)
    <2> DEFINE q == inbox[fd]
    <2>1. /\ pc = "voting" /\ fd \in Open
          /\ \/ /\ q # <<>> /\ Head(q) = HELLO
                /\ \E name \in Seq(Int) : Hello(fd, name, {MOVIES}, <<>>)
             \/ q # <<>> /\ Head(q) = GOODBYE /\ Goodbye(fd)
             \/ /\ q # <<>> => Head(q) # HELLO
                /\ (\E video : Vote(fd, video, <<>>)) \/ Ignore(fd, <<>>)
      <3>1. HELLO # VOTE BY DEF HELLO, VOTE
      <3>2. QED BY <1>3, <3>1, VotingCases
    <2>2. CASE q # <<>> /\ Head(q) = HELLO /\ \E name \in Seq(Int) : Hello(fd, name, {MOVIES}, <<>>)
      BY <2>1, <2>2, HelloMembers
    <2>3. CASE q # <<>> /\ Head(q) = GOODBYE /\ Goodbye(fd)
      BY <2>1, <2>3, GoodbyeMembers DEF Loops
    <2>4. CASE /\ q # <<>> => Head(q) # HELLO
               /\ (\E video : Vote(fd, video, <<>>)) \/ Ignore(fd, <<>>)
      <3>1. /\ pc' = pc /\ UNCHANGED members /\ stalled' \subseteq stalled
            /\ hasFilm \subseteq hasFilm' /\ Open' = Open /\ said' = said
            /\ \A g \in Fds : seen[g] \subseteq seen'[g]
            /\ inbox' = [inbox EXCEPT ![fd] = <<>>]
        BY <1>2, <2>4
      <3>2. Fresh(fd) => said[fd] = {} BY <2>4 DEF Fresh
      <3>3. \A g \in Fds \ {fd} : inbox'[g] = inbox[g] BY <1>1, <3>1
      <3>4. \A g \in Open' : (g \in Open => Fresh(g)) => Fresh(g)'
        BY <3>1, <3>2, <3>3 DEF Fresh, Open
      <3>5. QED BY <2>1, <3>1, <3>4, MembersKept
    <2>5. QED BY <2>1, <2>2, <2>3, <2>4
  <1>4. CASE ServeDownload(fd) \/ PlayRead(fd) \/ PlayHandle(fd)
    <2> DEFINE q == inbox[fd]
    <2>1. /\ pc \in {"download", "playing"} /\ fd \in Open
          /\ \/ \E name \in Seq(Int) : \E rest :
                  \/ Hello(fd, name, {MOVIE_CONTENT}, rest)
                  \/ Hello(fd, name, {MOVIE_CONTENT, START}, rest)
             \/ q # <<>> /\ Head(q) = GOODBYE /\ Goodbye(fd)
             \/ \E rest : Count(fd, rest) \/ Ignore(fd, rest)
      <3>1. CASE ServeDownload(fd) BY <3>1, DownloadCases
      <3>2. CASE PlayRead(fd) \/ PlayHandle(fd) BY <3>2, PlayingCases
      <3>3. QED BY <1>4, <3>1, <3>2
    <2>2. ASSUME NEW name \in Seq(Int), NEW rest,
                 \/ Hello(fd, name, {MOVIE_CONTENT}, rest)
                 \/ Hello(fd, name, {MOVIE_CONTENT, START}, rest)
          PROVE  Members'
      <3>1. CASE Hello(fd, name, {MOVIE_CONTENT}, rest) BY <2>1, <3>1, HelloMembers
      <3>2. CASE Hello(fd, name, {MOVIE_CONTENT, START}, rest) BY <2>1, <3>2, HelloMembers
      <3>3. QED BY <2>2, <3>1, <3>2
    <2>3. CASE q # <<>> /\ Head(q) = GOODBYE /\ Goodbye(fd)
      BY <2>1, <2>3, GoodbyeMembers DEF Loops
    <2>4. ASSUME NEW rest, Count(fd, rest) \/ Ignore(fd, rest) PROVE Members'
      <3>1. /\ pc' = pc /\ UNCHANGED members /\ stalled' \subseteq stalled
            /\ hasFilm \subseteq hasFilm' /\ \A g \in Fds : seen[g] \subseteq seen'[g]
        BY <1>2, <2>4
      <3>2. pc \notin {"voting", "selected", "content", "film"} BY <2>1
      <3>3. QED BY <3>1, <3>2, MembersKept
    <2>5. QED BY <2>1, <2>2, <2>3, <2>4
  <1>5. QED BY <1>3, <1>4

\* The steps between the loops: the broadcast of the film reaches all members.
LEMMA PhaseMembers ==
  ASSUME IInv, Members,
         \/ BeginRound \/ EndVoting \/ SendSelected \/ SelectForContent \/ StartDownload
         \/ EndDownload \/ SendStart \/ EndPlaying \/ \E fd \in Fds : SendContent(fd)
  PROVE  Members'
  <1>1. joined \subseteq Open /\ Open' = Open /\ UNCHANGED <<clientIDs, inbox, said>>
    BY DEF BeginRound, EndVoting, EndVotingWith, SendSelected, SelectForContent, SendContent,
           StartDownload, EndDownload, SendStart, EndPlaying, IInv, DescriptorsConsistent,
           sockets, members, Open
  <1>2. \A fd \in Fds : Fresh(fd) => Fresh(fd)' BY <1>1 DEF Fresh
  <1>3. CASE BeginRound
    <2>1. joined' = {} /\ clientIDs' = <<>> /\ pc' = "voting"
      BY <1>3 DEF BeginRound, Members, members
    <2>2. Len(<<>>) = 0 /\ Cardinality({}) = 0 BY EmptySeq, FS_EmptySet
    <2>3. QED BY <2>1, <2>2 DEF Members, JoinedHaveFilm, List_contains_fd
  <1>4. CASE EndVoting \/ SendSelected
    <2>1. /\ pc \in {"voting", "selected"} /\ pc' \in {"selected", "content"}
          /\ joined' = joined
      BY <1>4 DEF EndVoting, EndVotingWith, SendSelected, members
    <2>2. stalled' = stalled
      <3>1. CASE EndVoting BY <3>1 DEF EndVoting, EndVotingWith
      <3>2. CASE SendSelected
        BY <3>2 DEF SendSelected, SendToAll, Deliver, MOVIE_SELECTED, MOVIE_CONTENT
      <3>3. QED BY <1>4, <3>1, <3>2
    <2>3. \A fd \in Open' \ joined' : List_contains_fd(clientIDs', fd) => Fresh(fd)'
      BY <1>1, <1>2, <2>1 DEF Members, Open
    <2>4. QED BY <1>1, <2>1, <2>2, <2>3 DEF Members, JoinedHaveFilm
  <1>5. CASE SelectForContent
    <2>1. pc = "content" /\ pc' = "film" /\ UNCHANGED <<joined, hasFilm>>
      BY <1>5 DEF SelectForContent, members, sending
    <2>2. joined \cap stalled = {} /\ Cardinality(joined) <= Len(clientIDs)
      BY <2>1 DEF Members
    <2>3. CASE clientIDs = <<>>
      <3>1. Cardinality(joined) = 0 BY <2>2, <2>3, EmptySeq, JoinedFinite
      <3>2. joined = {} BY <3>1, JoinedFinite, FS_EmptySet
      <3>3. QED BY <2>1, <3>2 DEF Members, JoinedHaveFilm
    <2>4. CASE clientIDs # <<>>
      <3>1. ready' = Writable BY <1>5, <2>4 DEF SelectForContent
      <3>2. joined \subseteq Writable
        BY <1>1, <2>2 DEF IInv, DescriptorsConsistent, Writable, Open, Fds, ListenFd
      <3>3. QED BY <2>1, <3>1, <3>2 DEF Members, JoinedHaveFilm
    <2>5. QED BY <2>3, <2>4
  <1>6. ASSUME NEW fd \in Fds, SendContent(fd) PROVE Members'
    <2>1. /\ pc = "film" /\ pc' = "film" /\ joined' = joined /\ ready' = ready \ {fd}
          /\ hasFilm' = hasFilm \cup {fd}
      BY <1>6 DEF SendContent, members, Deliver, WriteVideo
    <2>2. QED BY <2>1 DEF Members, JoinedHaveFilm
  <1>7. CASE StartDownload
    <2>1. /\ pc = "film" /\ pc' = "download" /\ ready = {} /\ UNCHANGED <<joined, hasFilm>>
      BY <1>7 DEF StartDownload, members, sending
    <2>2. QED BY <2>1 DEF Members, JoinedHaveFilm
  <1>8. CASE EndDownload \/ SendStart
    <2>1. pc \in {"download", "start"} /\ pc' \in {"start", "playing"} /\ joined' = joined
      BY <1>8 DEF EndDownload, SendStart, members
    <2>2. hasFilm' = hasFilm
      BY <1>8 DEF EndDownload, SendStart, sending, SendToAll, Deliver, WriteVideo, START, MOVIE_CONTENT
    <2>3. QED BY <2>1, <2>2 DEF Members, JoinedHaveFilm
  <1>9. CASE EndPlaying
    <2>1. pc' = "round" /\ joined' = {} BY <1>9 DEF EndPlaying
    <2>2. Len(clientIDs) <= 0 BY <1>9 DEF EndPlaying, LoopDone, end_count
    <2>3. clientIDs = <<>>
      <3>1. clientIDs \in Seq(Record) BY DEF IInv, TypeOK
      <3>2. QED BY <2>2, <3>1, EmptySeq
    <2>4. QED BY <1>1, <2>1, <2>3 DEF Members, JoinedHaveFilm
  <1>10. QED BY <1>3, <1>4, <1>5, <1>8, <1>9, <1>6, <1>7

\* accept and select, the clients, the network and the clock.
LEMMA OtherMembers ==
  ASSUME IInv, Streams, Members,
         Accept \/ Select \/ StayInLoop \/ Environment \/ UNCHANGED vars
  PROVE  Members'
  <1>1. /\ inbox \in [Fds -> Seq(Int)] /\ said \in [Fds -> SUBSET Script]
        /\ peer \in [Fds -> Clients \cup {NoClient}]
    BY DEF IInv, TypeOK
  <1> USE DEF serverVars, control, members, sending, sockets
  <1>2. ASSUME pc' = pc, UNCHANGED <<clientIDs, joined, peer, inbox, said, seen, hasFilm>>,
               stalled' \subseteq stalled, pc = "film" => ready' = ready
        PROVE  Members'
    <2>1. \A fd \in Open' : (fd \in Open => Fresh(fd)) => Fresh(fd)' BY <1>2 DEF Open, Fresh
    <2>2. UNCHANGED members BY <1>2
    <2>3. QED BY <1>2, <2>1, <2>2, MembersKept
  <1>3. CASE Accept
    <2>1. UNCHANGED <<pc, ready, clientIDs, joined, inbox, said, seen, hasFilm, stalled>>
      BY <1>3 DEF Accept
    <2>2. \A fd \in Open' : (fd \in Open => Fresh(fd)) => Fresh(fd)'
      <3>1. \A fd \in Fds \ Open : said[fd] = {} BY DEF Streams
      <3>2. Open' \subseteq Fds BY DEF Open
      <3>3. QED BY <2>1, <3>1, <3>2 DEF Fresh
    <2>3. QED BY <2>1, <2>2, MembersKept
  <1>4. CASE Select \/ StayInLoop BY <1>2, <1>4 DEF Select, StayInLoop, Loops
  <1>5. ASSUME NEW c \in Clients, Connect(c) PROVE Members'
    BY <1>2, <1>5 DEF Connect
  <1>6. ASSUME NEW fd \in Fds, NEW type \in Script, NEW v \in Videos, Send(fd, type, v)
        PROVE  Members'
    <2> DEFINE b == Bytes(peer[fd], type, v)
    <2>1. /\ UNCHANGED <<pc, ready, clientIDs, joined, peer, seen, hasFilm, stalled>>
          /\ inbox' = [inbox EXCEPT ![fd] = inbox[fd] \o b]
          /\ said' = [said EXCEPT ![fd] = said[fd] \cup {type}]
          /\ fd \in Open /\ MaySend(fd, type) /\ peer[fd] \in Clients /\ Open' = Open
      BY <1>1, <1>6 DEF Send, Open
    <2>2. b \in Seq(Int) /\ Len(b) \in 1..2 /\ b[1] = type BY <2>1, BytesShape
    <2>3. Fresh(fd) => Fresh(fd)'
      <3> DEFINE q == inbox[fd]
      <3>1. q \in Seq(Int) /\ inbox'[fd] = q \o b BY <1>1, <2>1
      <3> HIDE DEF b, q
      <3>2. /\ Len(q) \in Nat /\ q \o b \in Seq(Int) /\ Len(q \o b) = Len(q) + Len(b)
            /\ \A i \in 1..(Len(q) + Len(b)) : (q \o b)[i] = IF i <= Len(q) THEN q[i] ELSE b[i - Len(q)]
        BY <2>2, <3>1, ConcatProperties, LenProperties
      <3>3. 1 \in 1..(Len(q) + Len(b)) /\ Len(q \o b) >= 1 BY <2>2, <3>2
      <3>4. q \o b # <<>> BY <3>2, <3>3, EmptySeq
      <3>5. Head(q \o b) = (q \o b)[1] BY <3>2, <3>4
      <3>6. CASE q # <<>> /\ Head(q) = HELLO
        <4>1. Len(q) >= 1 /\ Head(q) = q[1] BY <3>1, <3>6, EmptySeq
        <4>2. Head(q \o b) = HELLO BY <3>2, <3>3, <3>5, <3>6, <4>1
        <4>3. QED BY <3>1, <3>4, <4>2 DEF Fresh
      <3>7. CASE said[fd] = {}
        <4>1. q = <<>> BY <3>7 DEF Streams, WellFormed, q
        <4>2. type = HELLO
          <5>1. type \in {VOTE, DOWNLOADED, GOODBYE} => HELLO \in said[fd] BY <2>1, SendRule
          <5>2. type = END_MOVIE => DOWNLOADED \in said[fd] BY <2>1, SendRule
          <5>3. type \in {HELLO, VOTE, DOWNLOADED, END_MOVIE, GOODBYE} BY <2>1, SendRule
          <5>4. QED BY <3>7, <5>1, <5>2, <5>3
        <4>3. Len(q) = 0 BY <4>1, EmptySeq
        <4>4. Head(q \o b) = HELLO
          <5>1. (q \o b)[1] = b[1 - 0] BY <3>2, <3>3, <4>3
          <5>2. QED BY <2>2, <3>5, <4>2, <5>1
        <4>5. QED BY <3>1, <3>4, <4>4 DEF Fresh
      <3>8. QED BY <3>6, <3>7 DEF Fresh, q
    <2>4. \A g \in Fds \ {fd} : inbox'[g] = inbox[g] /\ said'[g] = said[g] BY <1>1, <2>1
    <2>5. \A g \in Open' : (g \in Open => Fresh(g)) => Fresh(g)'
      BY <2>1, <2>3, <2>4 DEF Fresh, Open
    <2>6. QED BY <2>1, <2>5, MembersKept
  <1>7. ASSUME NEW fd \in Fds, Disconnect(fd) \/ TakeVideo(fd) \/ Drain(fd) PROVE Members'
    BY <1>2, <1>7 DEF Disconnect, TakeVideo, Drain
  <1>8. CASE Tick BY <1>2, <1>8 DEF Tick
  <1>9. CASE UNCHANGED vars BY <1>2, <1>9 DEF vars
  <1>10. QED BY <1>3, <1>4, <1>5, <1>6, <1>7, <1>8, <1>9 DEF Environment

-----------------------------------------------------------------------------
(* The records of the registry *)

\* A client that is at the other end has one connection, and none in the backlog.
Live == Open \ gone
OneLive ==
  /\ \A i, j \in 1..Len(backlog) : backlog[i] = backlog[j] => i = j
  /\ \A fd \in Live : ~Queued(peer[fd])
  /\ \A f, g \in Live : peer[f] = peer[g] => f = g

\* A name in the queue of a connection is that of its client.  Before the server
\* has sent it the list, a byte that reads as HELLO begins a HELLO.
NamesIn(queue, name, types) ==
  \A i \in 1..Len(queue) :
    /\ queue[i] >= FirstName => queue[i] = name
    /\ queue[i] = HELLO /\ MOVIES \notin types => i = 1 /\ Len(queue) > 1 /\ queue[2] = name
Names == \A fd \in Open : NamesIn(inbox[fd], NameByte[peer[fd]], seen[fd])

\* What shares a buffer with the byte of a HELLO is no name while downloading,
\* and while playing the second read takes no HELLO.
Reading ==
  /\ pc = "download" => buffer \in {<<>>, <<Garbage, Garbage>>}
  /\ waiting # NoFd => /\ HELLO \in said[waiting]
                       /\ inbox[waiting] # <<>> => Head(inbox[waiting]) # HELLO

\* The record of a client whose name nobody else has.  What may follow it under
\* the same name is of the same connection, or of one that has been read and
\* whose client has gone, so that no GOODBYE will come over it.
Alone(fd) == \A c \in Clients : NameByte[c] = NameByte[peer[fd]] => c = peer[fd]
Idle == {fd \in Open \cap gone : inbox[fd] = <<>>}
HoldsRecord(list, name, fd, idle) ==
  \E i \in 1..Len(list) :
    /\ list[i] = Entry_new(name, fd)
    /\ \A j \in (i + 1)..Len(list) : list[j].id = name => list[j].fd \in idle \cup {fd}
Recorded ==
  \A fd \in Live :
    MOVIES \in seen[fd] /\ Alone(fd) => HoldsRecord(clientIDs, <<NameByte[peer[fd]]>>, fd, Idle)

RecordInv == OneLive /\ Names /\ Reading /\ Recorded

\* The string of a message whose data begin with a name is that name, and a
\* string that is one name byte is the first byte of the data.
LEMMA DataStringName ==
  ASSUME NEW buf \in Seq(Int)
  PROVE  /\ Len(buf) > 1 /\ buf[2] >= FirstName => DataString(buf) = <<buf[2]>>
         /\ \A n \in Int : n >= FirstName /\ DataString(buf) = <<n>> => Len(buf) > 1 /\ buf[2] = n
  <1> DEFINE End(i) == buf[i] = 0 \/ buf[i] >= FirstName
             first == {i \in 2..Len(buf) : End(i) /\ \A j \in 2..(i - 1) : ~End(j)}
             k == CHOOSE i \in first : TRUE
             last == IF first = {} THEN Len(buf) ELSE IF buf[k] = 0 THEN k - 1 ELSE k
  <1>1. DataString(buf) = SubSeq(buf, 2, last) BY DEF DataString
  <1>2. Len(buf) \in Nat BY LenProperties
  <1>3. first # {} => k \in first OBVIOUS
  <1> HIDE DEF k
  <1>4. last \in Int /\ last <= Len(buf) BY <1>2, <1>3
  <1>5. Len(buf) > 1 /\ buf[2] >= FirstName => last = 2
    <2> SUFFICES ASSUME Len(buf) > 1, buf[2] >= FirstName PROVE last = 2 OBVIOUS
    <2>1. 2 \in 2..Len(buf) /\ 2..(2 - 1) = {} BY <1>2
    <2>2. 2 \in first BY <2>1
    <2>3. k \in 2..Len(buf) /\ \A j \in 2..(k - 1) : ~End(j) BY <1>3, <2>2
    <2>4. k = 2
      <3>1. ASSUME k # 2 PROVE FALSE
        <4>1. 2 \in 2..(k - 1) BY <1>2, <2>3, <3>1
        <4>2. QED BY <2>3, <4>1
      <3>2. QED BY <3>1
    <2>5. buf[2] # 0 BY DEF FirstName
    <2>6. QED BY <2>2, <2>4, <2>5
  <1> HIDE DEF last
  <1>6. /\ Len(SubSeq(buf, 2, last)) = IF 2 <= last THEN last - 1 ELSE 0
        /\ 2 <= last => SubSeq(buf, 2, last)[1] = buf[2]
    <2>1. /\ Len(SubSeq(buf, 2, last)) = IF 2 <= last THEN last - 2 + 1 ELSE 0
          /\ \A i \in 1..(last - 2 + 1) : SubSeq(buf, 2, last)[i] = buf[2 + i - 1]
      <3>1. \A i \in 2..last : buf[i] \in Int BY <1>2, <1>4
      <3>2. QED BY <1>4, <3>1, SubSeqProperties
    <2>2. 2 <= last => 1 \in 1..(last - 2 + 1) BY <1>4
    <2>3. QED BY <1>4, <2>1, <2>2
  <1>7. SubSeq(buf, 2, last) \in Seq(Int) BY <1>1, DataStringType
  <1>8. ASSUME Len(buf) > 1, buf[2] >= FirstName PROVE DataString(buf) = <<buf[2]>>
    <2>1. Len(SubSeq(buf, 2, last)) = 1 /\ SubSeq(buf, 2, last)[1] = buf[2] BY <1>5, <1>6, <1>8
    <2> DEFINE s == SubSeq(buf, 2, last)
    <2> HIDE DEF s
    <2>2. s \in Seq(Int) /\ Len(s) = 1 /\ s[1] = buf[2] BY <1>7, <2>1 DEF s
    <2>3. s = <<buf[2]>> BY <2>2
    <2>4. QED BY <1>1, <2>3 DEF s
  <1>9. ASSUME NEW n \in Int, n >= FirstName, DataString(buf) = <<n>>
        PROVE  Len(buf) > 1 /\ buf[2] = n
    <2>1. Len(<<n>>) = 1 /\ <<n>>[1] = n BY <1>9
    <2>2. SubSeq(buf, 2, last) = <<n>> BY <1>1, <1>9
    <2>3. Len(SubSeq(buf, 2, last)) = 1 /\ SubSeq(buf, 2, last)[1] = n BY ONLY <2>1, <2>2
    <2>4. QED BY <1>2, <1>4, <1>6, <2>3
  <1>10. QED BY <1>8, <1>9

\* A list that still has the entry that list had at i, and behind it only
\* entries that were behind it.
Retains(left, list, i) ==
  \E n \in 1..Len(left) :
    /\ left[n] = list[i]
    /\ \A j \in (n + 1)..Len(left) : \E o \in (i + 1)..Len(list) : left[j] = list[o]

\* A removal takes no other entry than the first with the identifier.
LEMMA RemoveLeaves ==
  ASSUME NEW E, NEW list \in Seq(E), NEW clientID,
         NEW i \in 1..Len(list), i \notin FirstOfID(list, clientID),
         NEW left, left = List_remove(list, clientID)
  PROVE  Retains(left, list, i)
  <1> DEFINE found == FirstOfID(list, clientID)
             k == CHOOSE m \in found : TRUE
  <1>1. Len(list) \in Nat BY LenProperties
  <1>2. CASE found = {}
    <2>1. left = list BY <1>2 DEF List_remove
    <2>2. QED BY <2>1 DEF Retains
  <1>3. CASE found # {}
    <2>1. k \in found /\ k \in 1..Len(list) BY <1>3 DEF FirstOfID
    <2>2. left = RemoveAt(list, k) BY <1>3 DEF List_remove
    <2> HIDE DEF k
    <2>3. /\ Len(left) = Len(list) - 1
          /\ \A j \in 1..(Len(list) - 1) : left[j] = IF j < k THEN list[j] ELSE list[j + 1]
      BY <2>1, <2>2, RemoveAtProperties
    <2>4. k # i BY <2>1
    <2> HIDE DEF found
    <2>5. CASE k < i
      <3>1. i - 1 \in 1..Len(left) /\ left[i - 1] = list[i] BY <1>1, <2>1, <2>3, <2>5
      <3>2. ASSUME NEW j \in ((i - 1) + 1)..Len(left)
            PROVE  j + 1 \in (i + 1)..Len(list) /\ left[j] = list[j + 1]
        BY <1>1, <2>1, <2>3, <2>5
      <3>3. QED BY <3>1, <3>2 DEF Retains
    <2>6. CASE k > i
      <3>1. i \in 1..Len(left) /\ left[i] = list[i] BY <1>1, <2>1, <2>3, <2>6
      <3>2. ASSUME NEW j \in (i + 1)..Len(left)
            PROVE  \E o \in (i + 1)..Len(list) : left[j] = list[o]
        <4>1. j \in (i + 1)..Len(list) /\ j + 1 \in (i + 1)..Len(list) BY <1>1, <2>1, <2>3
        <4>2. left[j] = list[j] \/ left[j] = list[j + 1] BY <1>1, <2>1, <2>3
        <4>3. QED BY <4>1, <4>2
      <3>3. QED BY <3>1, <3>2 DEF Retains
    <2>7. QED BY <1>1, <2>1, <2>4, <2>5, <2>6
  <1>4. QED BY <1>2, <1>3

\* An entry of a descriptor implies that there is a first one.
LEMMA FirstExists ==
  ASSUME NEW E, NEW list \in Seq(E), NEW fd, List_contains_fd(list, fd)
  PROVE  \E m \in 1..Len(list) : /\ list[m].fd = fd /\ List_getClientID(list, fd) = list[m].id
  <1> DEFINE mine == {i \in 1..Len(list) : list[i].fd = fd}
  <1>1. mine \in SUBSET Nat /\ mine # {} BY LenProperties DEF List_contains_fd
  <1>2. PICK i \in mine : \A j \in mine : ~ (<<j, i>> \in OpToRel(<, Nat))
    BY <1>1, WFMin, NatLessThanWellFounded, Zenon
  <1>3. \A j \in mine : ~ (j < i) BY <1>1, <1>2 DEF OpToRel
  <1>4. i \in FirstOfFD(list, fd)
    <2>1. i \in 1..Len(list) /\ list[i].fd = fd OBVIOUS
    <2>2. ASSUME NEW j \in 1..(i - 1) PROVE list[j].fd # fd
      <3>1. j \in 1..Len(list) /\ j < i BY <2>1, LenProperties
      <3>2. QED BY <1>3, <3>1
    <2>3. QED BY <2>1, <2>2 DEF FirstOfFD
  <1> DEFINE m == CHOOSE j \in FirstOfFD(list, fd) : TRUE
  <1>5. m \in FirstOfFD(list, fd) BY <1>4
  <1>6. List_getClientID(list, fd) = list[m].id BY <1>4 DEF List_getClientID
  <1>7. QED BY <1>5, <1>6 DEF FirstOfFD

\* A step that leaves the registry, and sends the list to nobody.
LEMMA RecordKept ==
  ASSUME Recorded, UNCHANGED clientIDs, Idle \subseteq Idle',
         \A f \in Live' : MOVIES \in seen'[f] =>
           f \in Live /\ MOVIES \in seen[f] /\ peer'[f] = peer[f]
  PROVE  Recorded'
  <1> SUFFICES ASSUME NEW f \in Live', MOVIES \in seen'[f], Alone(f)'
               PROVE  HoldsRecord(clientIDs', <<NameByte[peer'[f]]>>, f, Idle')
    BY DEF Recorded
  <1>1. f \in Live /\ MOVIES \in seen[f] /\ peer'[f] = peer[f] OBVIOUS
  <1>2. Alone(f) BY <1>1 DEF Alone
  <1>3. HoldsRecord(clientIDs, <<NameByte[peer[f]]>>, f, Idle) BY <1>1, <1>2 DEF Recorded
  <1>4. QED BY <1>1, <1>3 DEF HoldsRecord

\* HELLO: the new record is the client's own, or bears no client's name, or
\* belongs to a connection whose client has gone.
LEMMA RecordHello ==
  ASSUME IInv, OneLive, Recorded, NEW fd \in Open, NEW name \in Seq(Int), NEW rest, NEW types,
         Hello(fd, name, types, rest), inbox[fd] # <<>>,
         \A n \in FirstName..(Garbage - 1) :
           name = <<n>> => rest = <<>> /\ n = NameByte[peer[fd]],
         MOVIES \in types => MOVIES \in seen[fd] \/ name = <<NameByte[peer[fd]]>>
  PROVE  Recorded'
  <1>1. /\ clientIDs' = Append(clientIDs, Entry_new(name, fd))
        /\ peer' = peer /\ gone' = gone /\ Live' = Live /\ Open' = Open
        /\ inbox' = [inbox EXCEPT ![fd] = rest]
        /\ seen' = [g \in Fds |-> IF g \in {fd} THEN seen[g] \cup types ELSE seen[g]]
    BY DEF Hello, sockets, Live, Open, List_add, Deliver
  <1>2. /\ clientIDs \in Seq(Record) /\ peer \in [Fds -> Clients \cup {NoClient}]
        /\ inbox \in [Fds -> Seq(Int)] /\ fd \in Fds
    BY DEF IInv, TypeOK, Open
  <1> DEFINE N == Len(clientIDs)
             new == Entry_new(name, fd)
             list == clientIDs'
  <1>3. new \in Record BY <1>2 DEF Entry_new, Record
  <1>4. /\ N \in Nat /\ Len(list) = N + 1
        /\ \A i \in 1..N : list[i] = clientIDs[i]
        /\ list[N + 1] = new
    BY <1>1, <1>2, <1>3, AppendProperties, LenProperties
  <1>5. new.id = name /\ new.fd = fd BY DEF Entry_new
  <1>6. Idle \subseteq Idle'
    <2> SUFFICES ASSUME NEW g \in Idle PROVE g \in Idle' OBVIOUS
    <2>1. g # fd /\ g \in Fds BY DEF Idle, Open
    <2>2. QED BY <1>1, <1>2, <2>1 DEF Idle
  <1> HIDE DEF N, new, list
  <1> SUFFICES ASSUME NEW f \in Live', MOVIES \in seen'[f], Alone(f)'
               PROVE  HoldsRecord(list, <<NameByte[peer[f]]>>, f, Idle')
    BY <1>1 DEF Recorded, list
  <1>7. f \in Live /\ f \in Fds /\ Alone(f) /\ peer[f] \in Clients
    BY <1>1, <1>2 DEF Live, Open, Alone
  <1> DEFINE own == <<NameByte[peer[f]]>>
  <1>8. CASE MOVIES \in seen[f]
    <2>1. HoldsRecord(clientIDs, own, f, Idle) BY <1>7, <1>8 DEF Recorded
    <2>2. name = own => fd = f \/ fd \in Idle'
      <3> SUFFICES ASSUME name = own, fd # f PROVE fd \in Idle' OBVIOUS
      <3>1. NameByte[peer[f]] \in FirstName..(Garbage - 1) BY <1>7, NameAssumption
      <3>2. rest = <<>> /\ NameByte[peer[f]] = NameByte[peer[fd]] BY <3>1
      <3>3. peer[fd] \in Clients BY <1>2 DEF Open
      <3>4. peer[fd] = peer[f] BY <1>7, <3>2, <3>3 DEF Alone
      <3>5. fd \in gone BY <1>7, <3>4 DEF OneLive, Live
      <3>6. QED BY <1>1, <1>2, <3>2, <3>5 DEF Idle
    <2> HIDE DEF own
    <2>3. PICK i \in 1..N :
            /\ clientIDs[i] = Entry_new(own, f)
            /\ \A j \in (i + 1)..N : clientIDs[j].id = own => clientIDs[j].fd \in Idle \cup {f}
      BY <2>1 DEF HoldsRecord, N
    <2>4. i \in 1..Len(list) /\ list[i] = Entry_new(own, f) BY <1>4, <2>3
    <2>5. ASSUME NEW j \in (i + 1)..Len(list), list[j].id = own
          PROVE  list[j].fd \in Idle' \cup {f}
      <3>1. CASE j = N + 1 BY <1>4, <1>5, <2>2, <2>5, <3>1
      <3>2. CASE j # N + 1
        <4>1. j \in 1..N /\ j \in (i + 1)..N BY <1>4, <2>3, <3>2
        <4>2. list[j] = clientIDs[j] BY <1>4, <4>1
        <4>3. QED BY <1>6, <2>3, <2>5, <4>1, <4>2
      <3>3. QED BY <3>1, <3>2
    <2>6. HoldsRecord(list, own, f, Idle') BY <2>4, <2>5 DEF HoldsRecord
    <2>7. QED BY <2>6 DEF own
  <1>9. CASE MOVIES \notin seen[f]
    <2>1. f = fd /\ name = own BY <1>1, <1>7, <1>9
    <2>2. N + 1 \in 1..Len(list) /\ ((N + 1) + 1)..Len(list) = {} BY <1>4
    <2>3. list[N + 1] = Entry_new(own, f) BY <1>4, <2>1 DEF new
    <2>4. QED BY <2>2, <2>3 DEF HoldsRecord
  <1>10. QED BY <1>8, <1>9

\* GOODBYE never takes the record that a connection needs.
LEMMA RecordGoodbye ==
  ASSUME IInv, Recorded, NEW fd \in Open, Goodbye(fd), inbox[fd] # <<>>
  PROVE  Recorded'
  <1>1. CASE UNCHANGED <<clientIDs, sockets, sending, inbox>>
    BY <1>1, RecordKept DEF sockets, sending, Live, Open, Idle
  <1>2. CASE /\ clientIDs = <<>> \/ List_contains_fd(clientIDs, fd)
             /\ clientIDs' = List_remove(clientIDs, List_getClientID(clientIDs, fd))
             /\ CloseConnection(fd)
    <2>1. /\ clientIDs \in Seq(Record) /\ peer \in [Fds -> Clients \cup {NoClient}]
          /\ inbox \in [Fds -> Seq(Int)] /\ seen \in [Fds -> SUBSET FromServer] /\ fd \in Fds
      BY DEF IInv, TypeOK, Open
    <2>2. /\ peer' = [peer EXCEPT ![fd] = NoClient] /\ gone' = gone \ {fd}
          /\ inbox' = [inbox EXCEPT ![fd] = <<>>] /\ seen' = [seen EXCEPT ![fd] = {}]
      BY <1>2 DEF CloseConnection
    <2>3. Open' = Open \ {fd} BY <2>1, <2>2 DEF Open
    <2>4. Live' = Live \ {fd} BY <2>2, <2>3 DEF Live
    <2>5. Idle \subseteq Idle'
      <3> SUFFICES ASSUME NEW g \in Idle PROVE g \in Idle' OBVIOUS
      <3>1. g # fd /\ g \in Fds BY DEF Idle, Open
      <3>2. QED BY <2>1, <2>2, <2>3, <3>1 DEF Idle
    <2> DEFINE list == clientIDs'
               id == List_getClientID(clientIDs, fd)
    <2> HIDE DEF list, id
    <2> SUFFICES ASSUME NEW f \in Live', MOVIES \in seen'[f], Alone(f)'
                 PROVE  HoldsRecord(list, <<NameByte[peer'[f]]>>, f, Idle')
      BY DEF Recorded, list
    <2>6. f \in Live /\ f # fd /\ f \in Fds BY <2>4 DEF Live, Open
    <2>7. peer'[f] = peer[f] /\ MOVIES \in seen[f] BY <2>1, <2>2, <2>6
    <2>8. Alone(f) BY <2>7 DEF Alone
    <2> DEFINE own == <<NameByte[peer[f]]>>
    <2>9. HoldsRecord(clientIDs, own, f, Idle) BY <2>6, <2>7, <2>8 DEF Recorded
    <2> HIDE DEF own
    <2>10. PICK i \in 1..Len(clientIDs) :
            /\ clientIDs[i] = Entry_new(own, f)
            /\ \A j \in (i + 1)..Len(clientIDs) :
                 clientIDs[j].id = own => clientIDs[j].fd \in Idle \cup {f}
      BY <2>9 DEF HoldsRecord
    <2>11. Len(clientIDs) \in Nat BY <2>1, LenProperties
    <2>12. clientIDs[i].id = own /\ clientIDs[i].fd = f BY <2>10 DEF Entry_new
    <2>13. List_contains_fd(clientIDs, fd)
      <3>1. clientIDs # <<>> BY <2>10, <2>11, EmptySeq
      <3>2. QED BY <1>2, <3>1
    <2>14. PICK m \in 1..Len(clientIDs) : clientIDs[m].fd = fd /\ id = clientIDs[m].id
      BY <2>1, <2>13, FirstExists DEF id
    <2>15. i \notin FirstOfID(clientIDs, id)
      <3> SUFFICES ASSUME i \in FirstOfID(clientIDs, id) PROVE FALSE OBVIOUS
      <3>1. id = own /\ \A j \in 1..(i - 1) : clientIDs[j].id # id BY <2>12 DEF FirstOfID
      <3>2. m \notin 1..(i - 1) BY <2>14, <3>1
      <3>3. m # i BY <2>6, <2>12, <2>14
      <3>4. m \in (i + 1)..Len(clientIDs) BY <2>10, <2>11, <2>14, <3>2, <3>3
      <3>5. fd \in Idle BY <2>6, <2>10, <2>14, <3>1, <3>4
      <3>6. QED BY <3>5 DEF Idle
    <2>16. list = List_remove(clientIDs, id) BY <1>2 DEF id, list
    <2>17. Retains(list, clientIDs, i)
      <3>1. clientIDs \in Seq(Record) /\ i \in 1..Len(clientIDs) BY <2>1
      <3>2. QED BY ONLY <3>1, <2>15, <2>16, RemoveLeaves
    <2>18. PICK n \in 1..Len(list) :
              /\ list[n] = clientIDs[i]
              /\ \A j \in (n + 1)..Len(list) :
                   \E o \in (i + 1)..Len(clientIDs) : list[j] = clientIDs[o]
      BY <2>17 DEF Retains
    <2>19. ASSUME NEW j \in (n + 1)..Len(list), list[j].id = own
           PROVE  list[j].fd \in Idle' \cup {f}
      <3>1. PICK o \in (i + 1)..Len(clientIDs) : list[j] = clientIDs[o] BY <2>18
      <3>2. QED BY <2>5, <2>10, <2>19, <3>1
    <2>20. HoldsRecord(list, own, f, Idle') BY <2>10, <2>18, <2>19 DEF HoldsRecord
    <2>21. QED BY <2>7, <2>20 DEF own
  <1>3. QED BY <1>1, <1>2 DEF Goodbye, members

\* Every step leaves the two ends of the connections as they are, closes a
\* connection or accepts one, or is a client that connects or leaves.
LEMMA SocketSteps ==
  ASSUME IInv, [Next]_vars
  PROVE  \/ UNCHANGED <<peer, gone, backlog>>
         \/ \E fd \in Fds : CloseConnection(fd) \/ Disconnect(fd)
         \/ Accept \/ \E c \in Clients : Connect(c)
  <1> USE DEF sockets
  <1>1. ASSUME NEW fd \in Fds,
               ServeVoting(fd) \/ ServeDownload(fd) \/ PlayRead(fd) \/ PlayHandle(fd)
        PROVE  UNCHANGED <<peer, gone, backlog>> \/ CloseConnection(fd)
    <2>1. ASSUME NEW name, NEW types, NEW rest, NEW video,
                 \/ Hello(fd, name, types, rest) \/ Vote(fd, video, rest)
                 \/ Goodbye(fd) \/ Count(fd, rest) \/ Ignore(fd, rest)
          PROVE  UNCHANGED <<peer, gone, backlog>> \/ CloseConnection(fd)
      BY <2>1 DEF Hello, Vote, Goodbye, Count, Ignore
    <2>2. CASE ServeVoting(fd) BY <2>1, <2>2, VotingCases
    <2>3. CASE ServeDownload(fd) BY <2>1, <2>3, DownloadCases
    <2>4. CASE PlayRead(fd) \/ PlayHandle(fd) BY <2>1, <2>4, PlayingCases
    <2>5. QED BY <1>1, <2>2, <2>3, <2>4
  <1>2. ASSUME \/ BeginRound \/ EndVoting \/ SendSelected \/ SelectForContent \/ StartDownload
               \/ EndDownload \/ SendStart \/ EndPlaying \/ StayInLoop \/ Select
               \/ \E fd \in Fds : SendContent(fd)
        PROVE  UNCHANGED <<peer, gone, backlog>>
    BY <1>2 DEF BeginRound, EndVoting, EndVotingWith, SendSelected, SelectForContent,
                SendContent, StartDownload, EndDownload, SendStart, EndPlaying, StayInLoop, Select
  <1>3. ASSUME \/ \E fd \in Fds, type \in Script, v \in Videos : Send(fd, type, v)
               \/ \E fd \in Fds : TakeVideo(fd) \/ Drain(fd)
               \/ Tick \/ UNCHANGED vars
        PROVE  UNCHANGED <<peer, gone, backlog>>
    BY <1>3 DEF Send, TakeVideo, Drain, Tick, vars
  <1>4. CASE Server
    <2>1. CASE \E fd \in Fds :
                 ServeVoting(fd) \/ ServeDownload(fd) \/ PlayRead(fd) \/ PlayHandle(fd)
      BY <1>1, <2>1
    <2>2. CASE Accept BY <2>2
    <2>3. CASE \/ BeginRound \/ EndVoting \/ SendSelected \/ SelectForContent \/ StartDownload
               \/ EndDownload \/ SendStart \/ EndPlaying \/ StayInLoop \/ Select
               \/ \E fd \in Fds : SendContent(fd)
      BY <1>2, <2>3
    <2>4. QED BY <1>4, <2>1, <2>2, <2>3 DEF Server
  <1>5. CASE Environment BY <1>3, <1>5 DEF Environment
  <1>6. QED BY <1>3, <1>4, <1>5 DEF Next

\* A client connects when it has no connection, and accept moves it from the
\* backlog to a descriptor.
LEMMA OneLiveNext ==
  ASSUME IInv, OneLive, [Next]_vars
  PROVE  OneLive'
  <1>1. /\ peer \in [Fds -> Clients \cup {NoClient}] /\ backlog \in Seq(Clients)
        /\ gone \subseteq Open /\ Len(backlog) \in Nat
    BY LenProperties DEF IInv, TypeOK, DescriptorsConsistent
  <1> USE DEF Live, Open, Queued
  <1>2. CASE UNCHANGED <<peer, gone, backlog>> BY <1>2 DEF OneLive
  <1>3. ASSUME NEW fd \in Fds, CloseConnection(fd) \/ Disconnect(fd) PROVE OneLive'
    <2>1. UNCHANGED backlog BY <1>3 DEF CloseConnection, Disconnect
    <2>2. \A f \in Live' : f \in Live /\ peer'[f] = peer[f]
      BY <1>1, <1>3 DEF CloseConnection, Disconnect
    <2>3. QED BY <2>1, <2>2 DEF OneLive
  <1>4. CASE Accept
    <2>1. backlog # <<>> /\ backlog' = Tail(backlog) /\ gone' = gone
      BY <1>4 DEF Accept, ConnectionPending
    <2>2. /\ Head(backlog) = backlog[1] /\ Len(backlog') = Len(backlog) - 1 /\ Len(backlog) >= 1
          /\ \A i \in 1..Len(backlog') : backlog'[i] = backlog[i + 1]
      BY <1>1, <2>1, HeadTailProperties, EmptySeq
    <2>3. \A i \in 1..Len(backlog') : i + 1 \in 1..Len(backlog) /\ i + 1 # 1
      BY <1>1, <2>2
    <2>4. 1 \in 1..Len(backlog) BY <1>1, <2>2
    <2>5. /\ \A i, j \in 1..Len(backlog') : backlog'[i] = backlog'[j] => i = j
          /\ \A i \in 1..Len(backlog') : Queued(backlog'[i]) /\ backlog'[i] # Head(backlog)
          /\ Queued(Head(backlog))
      <3>1. ASSUME NEW i \in 1..Len(backlog'), NEW j \in 1..Len(backlog'), backlog'[i] = backlog'[j]
            PROVE  i = j
        <4>1. i + 1 = j + 1 BY <2>2, <2>3, <3>1 DEF OneLive
        <4>2. QED BY <1>1, <2>2, <4>1
      <3>2. ASSUME NEW i \in 1..Len(backlog') PROVE Queued(backlog'[i]) /\ backlog'[i] # Head(backlog)
        BY <2>2, <2>3, <2>4 DEF OneLive
      <3>3. Queued(Head(backlog)) BY <2>2, <2>4
      <3>4. QED BY <3>1, <3>2, <3>3
    <2>6. CASE UNCHANGED peer
      <3>1. Live' = Live BY <2>1, <2>6
      <3>2. \A c : Queued(c)' => Queued(c) BY <2>5
      <3>3. QED BY <2>5, <2>6, <3>1, <3>2 DEF OneLive
    <2>7. ASSUME NEW fd \in Fds \ Open, peer' = [peer EXCEPT ![fd] = Head(backlog)]
          PROVE  OneLive'
      <3>1. \A f \in Live' : \/ f = fd /\ peer'[f] = Head(backlog)
                             \/ f \in Live /\ peer'[f] = peer[f]
        BY <1>1, <2>1, <2>7
      <3>2. \A c : Queued(c)' => Queued(c) /\ c # Head(backlog) BY <2>5
      <3>3. \A f \in Live' : \A i \in 1..Len(backlog') : backlog'[i] # peer'[f]
        <4> HIDE DEF Queued, Live
        <4> SUFFICES ASSUME NEW f \in Live', NEW i \in 1..Len(backlog'), backlog'[i] = peer'[f]
                     PROVE  FALSE
          OBVIOUS
        <4>1. Queued(backlog'[i]) /\ backlog'[i] # Head(backlog) BY <2>5
        <4>2. f \in Live /\ peer'[f] = peer[f] BY <3>1, <4>1
        <4>3. QED BY <4>1, <4>2 DEF OneLive
      <3>4. \A f, g \in Live' : peer'[f] = peer'[g] => f = g BY <2>5, <3>1 DEF OneLive
      <3>5. QED BY <2>5, <3>3, <3>4 DEF OneLive
    <2>8. QED BY <1>4, <2>6, <2>7 DEF Accept
  <1>5. ASSUME NEW c \in Clients, Connect(c) PROVE OneLive'
    <2>1. /\ backlog' = Append(backlog, c) /\ UNCHANGED <<peer, gone>> /\ ~Connected(c)
      BY <1>5 DEF Connect
    <2>2. /\ Len(backlog') = Len(backlog) + 1 /\ backlog'[Len(backlog) + 1] = c
          /\ \A i \in 1..Len(backlog) : backlog'[i] = backlog[i]
      BY <1>1, <2>1, AppendProperties
    <2>3. \A i \in 1..Len(backlog') : i \in 1..Len(backlog) \/ i = Len(backlog) + 1
      BY <1>1, <2>2
    <2>4. \A i \in 1..Len(backlog) : backlog[i] # c BY <2>1 DEF Connected
    <2>5. \A f \in Live : peer[f] # c BY <2>1 DEF Connected
    <2>6. \A d : Queued(d)' => Queued(d) \/ d = c BY <2>2, <2>3
    <2>7. \A i, j \in 1..Len(backlog') : backlog'[i] = backlog'[j] => i = j
      BY <2>2, <2>3, <2>4 DEF OneLive
    <2>8. QED BY <2>1, <2>5, <2>6, <2>7 DEF OneLive
  <1>6. QED BY <1>2, <1>3, <1>4, <1>5, SocketSteps

\* A name byte is no message type.
LEMMA NameRange ==
  ASSUME NEW c \in Clients
  PROVE  NameByte[c] \in Int /\ NameByte[c] >= 32
  BY NameAssumption DEF FirstName, Garbage

\* The place in a message of what has been queued behind m bytes.
LEMMA PlaceInMessage ==
  ASSUME NEW m \in Nat, NEW n \in 1..2, NEW i \in 1..(m + n), i > m
  PROVE  i - m \in 1..n /\ (i - m = 1 \/ (i - m = 2 /\ n = 2)) /\ ~(i <= m)
  OBVIOUS

\* What is sent over a connection keeps its names.
LEMMA SendNames ==
  ASSUME NEW q \in Seq(Int), NEW sent, NEW types, WellFormed(q, sent),
         NEW c \in Clients, NEW type \in Script, NEW v \in Videos,
         NamesIn(q, NameByte[c], types),
         type = HELLO => sent = {}, type = VOTE => MOVIES \in types
  PROVE  NamesIn(q \o Bytes(c, type, v), NameByte[c], types)
  <1>1. type \in {1, 3, 6, 8, 9} /\ v \in Int /\ v < 3 /\ NameByte[c] \in Int /\ NameByte[c] >= 32
    <2>1. type \in {1, 3, 6, 8, 9} BY ScriptAssumption
    <2>2. v \in Int /\ v < 3 BY VideoCountAssumption DEF Videos
    <2>3. QED BY <2>1, <2>2, NameRange
  <1> DEFINE b == Bytes(c, type, v)
             r == q \o b
             m == Len(q)
             name == NameByte[c]
  <1>2. b \in Seq(Int) /\ Len(b) \in 1..2 /\ b[1] = type BY BytesShape
  <1>3. /\ type = HELLO => Len(b) = 2 /\ b[2] = name
        /\ type = VOTE => Len(b) = 2 /\ b[2] = v
        /\ type \notin {HELLO, VOTE} => Len(b) = 1
    BY DEF Bytes, HELLO, VOTE
  <1> HIDE DEF b, name
  <1>4. /\ m \in Nat /\ r \in Seq(Int) /\ Len(r) = m + Len(b)
        /\ \A i \in 1..(m + Len(b)) : r[i] = IF i <= m THEN q[i] ELSE b[i - m]
    BY <1>2, ConcatProperties, LenProperties
  <1>5. type = HELLO => m = 0
    <2>1. q # <<>> => HELLO \in sent BY DEF WellFormed
    <2>2. QED BY <2>1, EmptySeq
  <1> HIDE DEF r
  <1> SUFFICES ASSUME NEW i \in 1..Len(r)
               PROVE  /\ r[i] >= FirstName => r[i] = name
                      /\ r[i] = HELLO /\ MOVIES \notin types => i = 1 /\ Len(r) > 1 /\ r[2] = name
    BY DEF NamesIn, r, b, name
  <1>6. CASE i <= m
    <2>1. r[i] = q[i] /\ i \in 1..m BY <1>2, <1>4, <1>6
    <2>2. q[i] >= FirstName => q[i] = name BY <2>1 DEF NamesIn, m, name
    <2>3. ASSUME q[i] = HELLO, MOVIES \notin types PROVE i = 1 /\ Len(r) > 1 /\ r[2] = name
      <3>1. i = 1 /\ m > 1 /\ q[2] = name BY <2>1, <2>3 DEF NamesIn, m, name
      <3>2. r[2] = q[2] /\ Len(r) > 1 BY <1>2, <1>4, <3>1
      <3>3. QED BY <3>1, <3>2
    <2>4. QED BY <2>1, <2>2, <2>3
  <1>7. CASE i > m
    <2> DEFINE k == i - m
    <2> HIDE DEF m
    <2>1. k \in 1..Len(b) /\ r[i] = b[k] /\ (k = 1 \/ (k = 2 /\ Len(b) = 2))
      <3>1. i \in 1..(m + Len(b)) /\ Len(b) \in 1..2 /\ m \in Nat BY <1>2, <1>4
      <3>2. i > m BY <1>7
      <3>3. k \in 1..Len(b) /\ (k = 1 \/ (k = 2 /\ Len(b) = 2)) /\ ~(i <= m)
        BY ONLY <3>1, <3>2, PlaceInMessage
      <3>4. QED BY <1>4, <3>1, <3>3
    <2>2. CASE k = 1
      <3>1. r[i] = type BY <1>2, <2>1, <2>2
      <3>2. ASSUME type = HELLO PROVE i = 1 /\ Len(r) > 1 /\ r[2] = name
        <4>1. i = 1 /\ Len(r) = 2 BY <1>3, <1>4, <1>5, <2>2, <3>2
        <4>2. 2 \in 1..(m + Len(b)) /\ ~(2 <= m) /\ 2 - m = 2
          <5>1. m = 0 /\ Len(b) = 2 BY <1>3, <1>5, <3>2
          <5>2. QED BY ONLY <5>1
        <4>3. r[2] = b[2 - m] BY <1>4, <4>2
        <4>4. QED BY <1>3, <3>2, <4>1, <4>2, <4>3
      <3>3. QED BY <1>1, <3>1, <3>2 DEF FirstName
    <2>3. CASE k = 2 /\ Len(b) = 2
      <3>1. r[i] = b[2] BY <2>1, <2>3
      <3>2. CASE type = HELLO BY <1>1, <1>3, <3>1, <3>2 DEF HELLO, name
      <3>3. CASE type = VOTE BY <1>1, <1>3, <3>1, <3>3 DEF FirstName
      <3>4. QED BY <1>3, <2>3, <3>2, <3>3
    <2>4. QED BY <2>1, <2>2, <2>3
  <1>8. QED BY <1>4, <1>6, <1>7

\* What has been read leaves the names that follow.
LEMMA TailNames ==
  ASSUME NEW q \in Seq(Int), q # <<>>, NEW name, NEW types, NamesIn(q, name, types)
  PROVE  NamesIn(Tail(q), name, types)
  <1>1. /\ Len(q) \in Nat /\ Len(Tail(q)) = Len(q) - 1
        /\ \A i \in 1..Len(Tail(q)) : Tail(q)[i] = q[i + 1]
    BY HeadTailProperties, LenProperties
  <1>2. \A i \in 1..Len(Tail(q)) : i + 1 \in 1..Len(q) /\ i + 1 # 1 BY <1>1
  <1>3. QED BY <1>1, <1>2 DEF NamesIn

\* Every step keeps the names that are in the queues.
LEMMA NamesNext ==
  ASSUME IInv, Streams, Names, NetworkStep
  PROVE  Names'
  <1>1. /\ inbox \in [Fds -> Seq(Int)] /\ said \in [Fds -> SUBSET Script]
        /\ peer \in [Fds -> Clients \cup {NoClient}] /\ seen \in [Fds -> SUBSET FromServer]
    BY DEF IInv, TypeOK
  <1>2. \A name, types : NamesIn(<<>>, name, types) BY EmptySeq DEF NamesIn
  <1>3. ASSUME UNCHANGED <<peer, seen>>,
               NEW fd \in Fds, NEW type \in Script, NEW v \in Videos, Send(fd, type, v)
        PROVE  Names'
    <2>1. /\ fd \in Open /\ MaySend(fd, type) /\ peer[fd] \in Clients /\ Open' = Open
          /\ inbox' = [inbox EXCEPT ![fd] = inbox[fd] \o Bytes(peer[fd], type, v)]
      BY <1>1, <1>3 DEF Send, Open
    <2>2. type = HELLO => said[fd] = {} BY <2>1, SendRule DEF Streams
    <2>3. type = VOTE => MOVIES \in seen[fd] BY <2>1, SendRule
    <2>4. /\ inbox[fd] \in Seq(Int) /\ WellFormed(inbox[fd], said[fd])
          /\ NamesIn(inbox[fd], NameByte[peer[fd]], seen[fd])
      BY <1>1, <2>1 DEF Streams, Names
    <2>5. NamesIn(inbox'[fd], NameByte[peer[fd]], seen[fd])
      <3>1. inbox'[fd] = inbox[fd] \o Bytes(peer[fd], type, v) BY <1>1, <2>1
      <3>2. peer[fd] \in Clients /\ type \in Script /\ v \in Videos BY <2>1
      <3>3. NamesIn(inbox[fd] \o Bytes(peer[fd], type, v), NameByte[peer[fd]], seen[fd])
        BY ONLY <2>2, <2>3, <2>4, <3>2, SendNames
      <3>4. QED BY <3>1, <3>3
    <2>6. \A g \in Fds \ {fd} : inbox'[g] = inbox[g] BY <1>1, <2>1
    <2>7. QED BY <1>3, <2>1, <2>5, <2>6 DEF Names, Open
  <1>4. ASSUME NEW fd \in Fds, CloseConnection(fd) PROVE Names'
    <2>1. \A g \in Open' : /\ g \in Open /\ inbox'[g] = inbox[g] /\ seen'[g] = seen[g]
                           /\ peer'[g] = peer[g]
      BY <1>1, <1>4 DEF CloseConnection, Open
    <2>2. QED BY <2>1 DEF Names
  <1>5. ASSUME UNCHANGED <<inbox, said, seen>>,
               NEW fd \in Fds \ Open, NEW c \in Clients, peer' = [peer EXCEPT ![fd] = c]
        PROVE  Names'
    <2>1. inbox[fd] = <<>> BY <1>5 DEF Streams
    <2>2. \A g \in Open' : g = fd \/ (g \in Open /\ peer'[g] = peer[g]) BY <1>1, <1>5 DEF Open
    <2>3. QED BY <1>2, <1>5, <2>1, <2>2 DEF Names
  <1>6. ASSUME UNCHANGED peer, SeenGrows, NEW fd \in Fds,
               \A g \in Fds \ {fd} : inbox'[g] = inbox[g],
               \/ inbox'[fd] = inbox[fd] \/ inbox'[fd] = <<>>
               \/ inbox[fd] # <<>> /\ inbox'[fd] = Tail(inbox[fd])
        PROVE  Names'
    <2> SUFFICES ASSUME NEW g \in Open
                 PROVE  NamesIn(inbox'[g], NameByte[peer[g]], seen'[g])
      BY <1>6 DEF Names, Open
    <2>1. g \in Fds /\ inbox[g] \in Seq(Int) /\ (MOVIES \in seen[g] => MOVIES \in seen'[g])
      BY <1>1, <1>6 DEF Open, SeenGrows
    <2>2. NamesIn(inbox[g], NameByte[peer[g]], seen[g]) BY DEF Names
    <2>3. NamesIn(inbox[g], NameByte[peer[g]], seen'[g]) BY <2>1, <2>2 DEF NamesIn
    <2>4. QED BY <1>2, <1>6, <2>1, <2>3, TailNames
  <1>7. ASSUME UNCHANGED <<peer, said>>, SeenGrows, NEW fd \in Open, NEW rest \in Seq(Int),
               rest = <<>> \/ (inbox[fd] # <<>> /\ rest = Tail(inbox[fd])),
               inbox' = [inbox EXCEPT ![fd] = rest]
        PROVE  Names'
    <2>1. fd \in Fds BY DEF Open
    <2>2. inbox'[fd] = rest /\ \A g \in Fds \ {fd} : inbox'[g] = inbox[g] BY <1>1, <1>7, <2>1
    <2>3. QED BY <1>6, <1>7, <2>1, <2>2
  <1>8. CASE UNCHANGED <<peer, inbox, said>> /\ SeenGrows
    <2>1. MaxFd \in Int /\ MaxFd >= 4 BY BoundAssumption DEF ListenFd
    <2>2. 4 \in Fds BY <2>1 DEF Fds
    <2>3. QED BY <1>6, <1>8, <2>2
  <1>9. QED BY <1>3, <1>4, <1>5, <1>7, <1>8 DEF NetworkStep

\* The buffer of the download loop and the byte the playing loop waits for.
LEMMA ReadingNext ==
  ASSUME IInv, Streams, Reading, [Next]_vars
  PROVE  Reading'
  <1>1. /\ inbox \in [Fds -> Seq(Int)] /\ said \in [Fds -> SUBSET Script]
        /\ peer \in [Fds -> Clients \cup {NoClient}] /\ NoFd \notin Fds
        /\ waiting # NoFd => waiting \in Fds /\ waiting \in ready /\ pc = "playing" /\ step = "serve"
        /\ ready \subseteq Open /\ Open \subseteq Fds
    BY DEF IInv, TypeOK, LoopControl, Fds, NoFd, Open
  <1>2. ASSUME pc' = "download" => pc = "download" /\ buffer' = buffer,
               waiting' = waiting, inbox' = inbox, said' = said
        PROVE  Reading'
    BY <1>2 DEF Reading
  <1>3. ASSUME NEW fd \in Fds, ServeVoting(fd) \/ ServeDownload(fd) PROVE Reading'
    <2>1. waiting' = NoFd BY <1>1, <1>3 DEF ServeVoting, ServeDownload, Serving
    <2>2. CASE ServeVoting(fd)
      <3>1. pc = "voting" BY <2>2, VotingCases
      <3>2. pc' \in {"voting", "crashed"}
        BY <2>2, <3>1, VotingCases DEF Hello, Vote, Goodbye, Ignore
      <3>3. QED BY <2>1, <3>2 DEF Reading
    <2>3. CASE ServeDownload(fd) BY <2>1, <2>3 DEF ServeDownload, Reading
    <2>4. QED BY <1>3, <2>2, <2>3
  <1>4. ASSUME NEW fd \in Fds, PlayRead(fd) PROVE Reading'
    <2>1. /\ pc' = "playing" /\ waiting = NoFd /\ said' = said
          /\ inbox' = [inbox EXCEPT ![fd] = <<>>]
          /\ waiting' = NoFd \/ (waiting' = fd /\ inbox[fd] # <<>>)
      BY <1>4 DEF PlayRead, Ignore, Serving
    <2>2. inbox[fd] # <<>> => HELLO \in said[fd] BY DEF Streams, WellFormed
    <2>3. QED BY <1>1, <2>1, <2>2 DEF Reading
  <1>5. ASSUME NEW fd \in Fds, PlayHandle(fd) PROVE Reading'
    <2>1. pc = "playing" /\ waiting' = NoFd BY <1>5 DEF PlayHandle, Serving
    <2>2. pc' \in {"playing", "crashed"}
      BY <1>5, <2>1, PlayingCases DEF Hello, Goodbye, Count, Ignore
    <2>3. QED BY <2>1, <2>2 DEF Reading
  <1>6. CASE StartDownload
    <2>1. waiting = NoFd BY <1>1, <1>6 DEF StartDownload
    <2>2. waiting' = NoFd /\ buffer' = <<Garbage, Garbage>> BY <1>6, <2>1 DEF StartDownload
    <2>3. QED BY <2>2 DEF Reading
  <1>7. ASSUME \/ BeginRound \/ EndVoting \/ SendSelected \/ SelectForContent
               \/ EndDownload \/ SendStart \/ EndPlaying \/ StayInLoop \/ Select \/ Accept
               \/ \E fd \in Fds : SendContent(fd)
        PROVE  Reading'
    <2>1. UNCHANGED <<waiting, inbox, said>>
      BY <1>7 DEF BeginRound, EndVoting, EndVotingWith, SendSelected, SelectForContent,
                  SendContent, EndDownload, SendStart, EndPlaying, StayInLoop, Select, Accept
    <2>2. pc' = "download" => pc = "download" /\ buffer' = buffer
      BY <1>7 DEF BeginRound, EndVoting, EndVotingWith, SendSelected, SelectForContent,
                  SendContent, EndDownload, SendStart, EndPlaying, StayInLoop, Select, Accept
    <2>3. QED BY <1>2, <2>1, <2>2
  <1>8. ASSUME NEW fd \in Fds, NEW type \in Script, NEW v \in Videos, Send(fd, type, v)
        PROVE  Reading'
    <2> DEFINE q == inbox[fd]
               b == Bytes(peer[fd], type, v)
    <2>1. /\ UNCHANGED <<pc, buffer, waiting>> /\ fd \in Open /\ peer[fd] \in Clients
          /\ inbox' = [inbox EXCEPT ![fd] = q \o b] /\ type \notin said[fd]
          /\ said' = [said EXCEPT ![fd] = said[fd] \cup {type}]
      BY <1>1, <1>8 DEF Send, MaySend, serverVars, control, Open
    <2>2. b \in Seq(Int) /\ b # <<>> /\ b[1] = type BY <2>1, BytesShape
    <2>3. q \in Seq(Int) /\ inbox'[fd] = q \o b BY <1>1, <2>1
    <2> HIDE DEF q, b
    <2>4. /\ Len(q) \in Nat /\ Len(b) \in Nat /\ Len(b) >= 1 /\ q \o b \in Seq(Int)
          /\ Len(q \o b) = Len(q) + Len(b)
          /\ \A i \in 1..(Len(q) + Len(b)) : (q \o b)[i] = IF i <= Len(q) THEN q[i] ELSE b[i - Len(q)]
      BY <2>2, <2>3, ConcatProperties, LenProperties, EmptySeq
    <2>5. Head(q \o b) = IF q = <<>> THEN type ELSE Head(q)
      <3>1. 1 \in 1..(Len(q) + Len(b)) /\ q \o b # <<>> BY <2>4, EmptySeq
      <3>2. Head(q \o b) = (q \o b)[1] BY <2>4, <3>1
      <3>3. CASE q = <<>>
        <4>1. Len(q) = 0 BY <3>3, EmptySeq
        <4>2. (q \o b)[1] = b[1 - 0] BY <2>4, <3>1, <4>1
        <4>3. QED BY <2>2, <3>2, <3>3, <4>2
      <3>4. CASE q # <<>>
        <4>1. Len(q) >= 1 /\ Head(q) = q[1] BY <2>3, <2>4, <3>4, EmptySeq
        <4>2. (q \o b)[1] = q[1] BY <2>4, <3>1, <4>1
        <4>3. QED BY <3>2, <3>4, <4>1, <4>2
      <3>5. QED BY <3>3, <3>4
    <2>6. ASSUME waiting = fd, waiting # NoFd
          PROVE  HELLO \in said'[fd] /\ Head(inbox'[fd]) # HELLO
      <3>1. HELLO \in said[fd] /\ (q # <<>> => Head(q) # HELLO) BY <2>6 DEF Reading, q
      <3>2. type # HELLO BY <2>1, <3>1
      <3>3. QED BY <1>1, <2>1, <2>3, <2>5, <3>1, <3>2
    <2>7. \A g \in Fds \ {fd} : inbox'[g] = inbox[g] /\ said'[g] = said[g]
      BY <1>1, <2>1
    <2>8. QED BY <1>1, <2>1, <2>6, <2>7 DEF Reading
  <1>9. ASSUME \/ \E c \in Clients : Connect(c)
               \/ \E fd \in Fds : Disconnect(fd) \/ TakeVideo(fd) \/ Drain(fd)
               \/ Tick \/ UNCHANGED vars
        PROVE  Reading'
    BY <1>2, <1>9 DEF Connect, Disconnect, TakeVideo, Drain, Tick, vars, serverVars, control
  <1>10. CASE Server BY <1>3, <1>4, <1>5, <1>6, <1>7, <1>10 DEF Server
  <1>11. CASE Environment BY <1>8, <1>9, <1>11 DEF Environment
  <1>12. QED BY <1>9, <1>10, <1>11 DEF Next

\* The byte that is read while downloading replaces the first of the buffer.
LEMMA DownloadBuffer ==
  ASSUME NEW buf \in {<<>>, <<Garbage, Garbage>>}, NEW byte \in Int
  PROVE  /\ ReadInto(buf, <<byte>>) \in Seq(Int)
         /\ Len(ReadInto(buf, <<byte>>)) > 1 => ReadInto(buf, <<byte>>)[2] = Garbage
  <1>1. buf \in Seq(Int) /\ (buf = <<>> \/ (Len(buf) = 2 /\ buf[2] = Garbage))
    <2>1. CASE buf = <<>> BY <2>1
    <2>2. CASE buf = <<Garbage, Garbage>>
      <3>1. Garbage \in Int BY DEF Garbage
      <3>2. QED BY <2>2, <3>1
    <2>3. QED BY <2>1, <2>2
  <1> DEFINE rest == SubSeq(buf, 2, Len(buf))
  <1>2. <<byte>> \in Seq(Int) /\ Len(<<byte>>) = 1 OBVIOUS
  <1>3. ReadInto(buf, <<byte>>) = <<byte>> \o rest BY <1>2 DEF ReadInto
  <1>4. \/ rest \in Seq(Int) /\ Len(rest) = 0
        \/ rest \in Seq(Int) /\ Len(rest) = 1 /\ rest[1] = Garbage
    <2>1. CASE buf = <<>>
      <3>1. Len(buf) = 0 BY <2>1, EmptySeq
      <3>2. QED BY <1>1, <3>1, SubSeqProperties
    <2>2. CASE Len(buf) = 2 /\ buf[2] = Garbage
      <3>1. /\ rest \in Seq(Int) /\ Len(rest) = 1
            /\ \A i \in 1..1 : rest[i] = buf[2 + i - 1]
        BY <1>1, <2>2, SubSeqProperties
      <3>2. rest[1] = buf[2 + 1 - 1] BY <3>1
      <3>3. QED BY <2>2, <3>1, <3>2
    <2>3. QED BY <1>1, <2>1, <2>2
  <1> HIDE DEF rest
  <1>5. /\ <<byte>> \o rest \in Seq(Int) /\ Len(<<byte>> \o rest) = 1 + Len(rest)
        /\ \A i \in 1..(1 + Len(rest)) :
             (<<byte>> \o rest)[i] = IF i <= 1 THEN <<byte>>[i] ELSE rest[i - 1]
    BY <1>2, <1>4, ConcatProperties
  <1>6. Len(rest) = 1 => (<<byte>> \o rest)[2] = rest[2 - 1] BY <1>5
  <1>7. QED BY <1>3, <1>4, <1>5, <1>6

\* The second read of the playing loop: one byte of what has arrived since.
LEMMA PlayHandleCases ==
  ASSUME IInv, NEW fd \in Fds, PlayHandle(fd), inbox[fd] # <<>> => Head(inbox[fd]) # HELLO
  PROVE  \/ inbox[fd] # <<>> /\ Goodbye(fd)
         \/ \E rest : /\ rest = <<>> \/ inbox[fd] # <<>>
                      /\ Count(fd, rest) \/ Ignore(fd, rest)
  <1>1. inbox[fd] \in Seq(Int) /\ buffer \in Seq(Int) BY DEF IInv, TypeOK
  <1>2. CASE inbox[fd] = <<>> BY <1>2 DEF PlayHandle
  <1>3. CASE inbox[fd] # <<>>
    <2> DEFINE data == ReadInto(buffer, <<Head(inbox[fd])>>)
    <2>1. Head(inbox[fd]) \in Int BY <1>1, <1>3, HeadTailProperties
    <2>2. data[1] # HELLO BY <1>1, <1>3, <2>1, TypeIsByteRead
    <2>3. handle_playing(fd, data, Tail(inbox[fd])) BY <1>3 DEF PlayHandle, Unread
    <2> HIDE DEF data
    <2>4. QED BY <1>3, <2>2, <2>3 DEF handle_playing
  <1>4. QED BY <1>2, <1>3

\* The services of the three loops keep the records.
LEMMA ServeRecorded ==
  ASSUME IInv, RecordInv, NEW fd \in Fds,
         ServeVoting(fd) \/ ServeDownload(fd) \/ PlayRead(fd) \/ PlayHandle(fd)
  PROVE  Recorded'
  <1> DEFINE q == inbox[fd]
  <1>1. /\ q \in Seq(Int) /\ buffer \in Seq(Int) /\ inbox \in [Fds -> Seq(Int)]
        /\ peer \in [Fds -> Clients \cup {NoClient}]
    BY DEF IInv, TypeOK
  <1>2. fd \in Open BY VotingCases, DownloadCases, PlayingCases
  <1>3. OneLive /\ Names /\ Reading /\ Recorded BY DEF RecordInv
  <1>4. NamesIn(q, NameByte[peer[fd]], seen[fd]) BY <1>2, <1>3 DEF Names
  <1>5. NameByte[peer[fd]] \in Int /\ NameByte[peer[fd]] >= FirstName
    BY <1>1, <1>2, NameRange DEF Open, FirstName
  <1>6. q # <<>> => Len(q) \in Nat /\ Len(q) >= 1 /\ Head(q) = q[1] BY <1>1, EmptySeq
  <1>7. ASSUME NEW rest, NEW video, Vote(fd, video, rest) \/ Count(fd, rest) \/ Ignore(fd, rest),
               rest = <<>> \/ q # <<>>
        PROVE  Recorded'
    <2>1. /\ UNCHANGED <<clientIDs, peer, gone, seen>> /\ inbox' = [inbox EXCEPT ![fd] = rest]
      BY <1>7 DEF Vote, Count, Ignore, sockets, sending, members
    <2>2. Live' = Live /\ Open' = Open BY <2>1 DEF Live, Open
    <2>3. Idle \subseteq Idle' BY <1>1, <1>2, <1>7, <2>1, <2>2 DEF Idle, Open
    <2>4. QED BY <1>3, <2>1, <2>2, <2>3, RecordKept
  <1>8. CASE ServeVoting(fd)
    <2>1. CASE q # <<>> /\ Head(q) = HELLO /\ Hello(fd, DataString(q), {MOVIES}, <<>>)
      <3>1. \A n \in FirstName..(Garbage - 1) : DataString(q) = <<n>> => n = NameByte[peer[fd]]
        <4> SUFFICES ASSUME NEW n \in FirstName..(Garbage - 1), DataString(q) = <<n>>
                     PROVE  n = NameByte[peer[fd]]
          OBVIOUS
        <4>1. n \in Int /\ n >= FirstName BY DEF FirstName, Garbage
        <4>2. Len(q) > 1 /\ q[2] = n BY <1>1, <4>1, DataStringName
        <4>3. 2 \in 1..Len(q) BY <1>1, <4>2, LenProperties
        <4>4. QED BY <1>4, <4>1, <4>2, <4>3 DEF NamesIn
      <3>2. MOVIES \notin seen[fd] => DataString(q) = <<NameByte[peer[fd]]>>
        <4> SUFFICES ASSUME MOVIES \notin seen[fd] PROVE DataString(q) = <<NameByte[peer[fd]]>>
          OBVIOUS
        <4>1. 1 \in 1..Len(q) /\ q[1] = HELLO BY <1>6, <2>1
        <4>2. Len(q) > 1 /\ q[2] = NameByte[peer[fd]] BY <1>4, <4>1 DEF NamesIn
        <4>3. QED BY <1>1, <1>5, <4>2, DataStringName
      <3>3. DataString(q) \in Seq(Int) BY <1>1, DataStringType
      <3>4. QED BY <1>2, <1>3, <2>1, <3>1, <3>2, <3>3, RecordHello
    <2>2. CASE q # <<>> /\ Goodbye(fd) BY <1>2, <1>3, <2>2, RecordGoodbye
    <2>3. \/ q # <<>> /\ Head(q) = HELLO /\ Hello(fd, DataString(q), {MOVIES}, <<>>)
          \/ q # <<>> /\ Goodbye(fd)
          \/ (\E video : Vote(fd, video, <<>>)) \/ Ignore(fd, <<>>)
      BY <1>6, <1>8 DEF ServeVoting, handle_voting
    <2>4. QED BY <1>7, <2>1, <2>2, <2>3
  <1>9. CASE ServeDownload(fd)
    <2> DEFINE data == ReadInto(buffer, <<Head(q)>>)
    <2>1. pc = "download" BY <1>9, DownloadCases
    <2>2. CASE q # <<>> /\ Hello(fd, DataString(data), {MOVIE_CONTENT}, Tail(q))
      <3>1. data \in Seq(Int) /\ (Len(data) > 1 => data[2] = Garbage)
        <4>1. Head(q) \in Int BY <1>1, <2>2, HeadTailProperties
        <4>2. buffer \in {<<>>, <<Garbage, Garbage>>} BY <1>3, <2>1 DEF Reading
        <4>3. QED BY <4>1, <4>2, DownloadBuffer
      <3> HIDE DEF data
      <3>2. \A n \in FirstName..(Garbage - 1) : DataString(data) # <<n>>
        <4> SUFFICES ASSUME NEW n \in FirstName..(Garbage - 1), DataString(data) = <<n>> PROVE FALSE
          OBVIOUS
        <4>1. n \in Int /\ n >= FirstName /\ n # Garbage BY DEF FirstName, Garbage
        <4>2. Len(data) > 1 /\ data[2] = n BY <3>1, <4>1, DataStringName
        <4>3. QED BY <3>1, <4>1, <4>2
      <3>3. DataString(data) \in Seq(Int) BY <3>1, DataStringType
      <3>4. MOVIES \notin {MOVIE_CONTENT} BY DEF MOVIES, MOVIE_CONTENT
      <3>5. QED BY <1>2, <1>3, <2>2, <3>2, <3>3, <3>4, RecordHello
    <2>3. CASE q # <<>> /\ Goodbye(fd) BY <1>2, <1>3, <2>3, RecordGoodbye
    <2>4. \/ q # <<>> /\ Hello(fd, DataString(data), {MOVIE_CONTENT}, Tail(q))
          \/ q # <<>> /\ Goodbye(fd)
          \/ \E rest : (rest = <<>> \/ q # <<>>) /\ (Count(fd, rest) \/ Ignore(fd, rest))
      BY <1>9 DEF ServeDownload, handle_download, Unread
    <2>5. QED BY <1>7, <2>2, <2>3, <2>4
  <1>10. CASE PlayRead(fd) BY <1>7, <1>10 DEF PlayRead
  <1>11. CASE PlayHandle(fd)
    <2>1. q # <<>> => Head(q) # HELLO
      BY <1>3, <1>11 DEF PlayHandle, Reading, Fds, NoFd
    <2>2. \/ inbox[fd] # <<>> /\ Goodbye(fd)
          \/ \E rest : /\ rest = <<>> \/ inbox[fd] # <<>>
                       /\ Count(fd, rest) \/ Ignore(fd, rest)
      BY <1>11, <2>1, PlayHandleCases
    <2>3. CASE inbox[fd] # <<>> /\ Goodbye(fd) BY <1>2, <1>3, <2>3, RecordGoodbye
    <2>4. CASE \E rest : /\ rest = <<>> \/ inbox[fd] # <<>>
                         /\ Count(fd, rest) \/ Ignore(fd, rest)
      <3>1. PICK rest : /\ rest = <<>> \/ inbox[fd] # <<>>
                        /\ Count(fd, rest) \/ Ignore(fd, rest)
        BY <2>4
      <3>2. QED BY <1>7, <3>1
    <2>5. QED BY <2>2, <2>3, <2>4
  <1>12. QED BY <1>8, <1>9, <1>10, <1>11

\* Every step keeps the records.
LEMMA RecordedNext ==
  ASSUME SessionInv, RecordInv, [Next]_vars
  PROVE  Recorded'
  <1>1. IInv /\ Streams /\ Members /\ Recorded BY DEF SessionInv, RecordInv
  <1>2. /\ inbox \in [Fds -> Seq(Int)] /\ peer \in [Fds -> Clients \cup {NoClient}]
        /\ seen \in [Fds -> SUBSET FromServer]
    BY <1>1 DEF IInv, TypeOK
  <1> USE DEF serverVars, members, sending, sockets
  <1>3. ASSUME UNCHANGED <<clientIDs, inbox, peer>>, gone \subseteq gone',
               \A f \in Fds : MOVIES \in seen'[f] => MOVIES \in seen[f]
        PROVE  Recorded'
    <2>1. Open' = Open /\ Live' \subseteq Live /\ Live \subseteq Fds BY <1>3 DEF Live, Open
    <2>2. Idle \subseteq Idle' BY <1>3, <2>1 DEF Idle
    <2>3. QED BY <1>1, <1>3, <2>1, <2>2, RecordKept
  <1>4. ASSUME NEW fds \in SUBSET Fds, NEW types, MOVIES \notin types, Deliver(fds, types),
               UNCHANGED <<clientIDs, inbox, peer, gone>>
        PROVE  Recorded'
    BY <1>3, <1>4 DEF Deliver
  <1>5. Writable \in SUBSET Fds BY <1>1 DEF Writable, IInv, TypeOK
  <1>6. ASSUME \/ BeginRound \/ EndVoting \/ SendSelected \/ SelectForContent \/ StartDownload
               \/ EndDownload \/ SendStart \/ EndPlaying \/ StayInLoop \/ Select
               \/ \E fd \in Fds : SendContent(fd)
        PROVE  Recorded'
    <2>1. UNCHANGED <<clientIDs, inbox, peer, gone>>
      <3>1. CASE BeginRound \/ EndVoting \/ SendSelected \/ SelectForContent \/ StartDownload
        BY <3>1 DEF BeginRound, EndVoting, EndVotingWith, SendSelected, SelectForContent, StartDownload
      <3>2. CASE \/ EndDownload \/ SendStart \/ EndPlaying \/ StayInLoop \/ Select
                 \/ \E fd \in Fds : SendContent(fd)
        BY <3>2 DEF EndDownload, SendStart, EndPlaying, StayInLoop, Select, SendContent
      <3>3. QED BY <1>6, <3>1, <3>2
    <2>2. CASE UNCHANGED seen BY <1>3, <2>1, <2>2
    <2>3. CASE SendSelected \/ SendStart \/ \E fd \in Fds : SendContent(fd)
      <3>1. \A type \in {MOVIE_SELECTED, START, MOVIE_CONTENT} : MOVIES \notin {type}
        BY DEF MOVIES, MOVIE_SELECTED, START, MOVIE_CONTENT
      <3>2. \E fds \in SUBSET Fds, type \in {MOVIE_SELECTED, START, MOVIE_CONTENT} :
              Deliver(fds, {type})
        <4>1. CASE SendSelected \/ SendStart
          BY <1>5, <4>1 DEF SendSelected, SendStart, SendToAll
        <4>2. ASSUME NEW fd \in Fds, SendContent(fd)
              PROVE  {fd} \in SUBSET Fds /\ Deliver({fd}, {MOVIE_CONTENT})
          BY <4>2 DEF SendContent
        <4>3. QED BY <2>3, <4>1, <4>2
      <3>3. QED BY <1>4, <2>1, <3>1, <3>2
    <2>4. CASE BeginRound
      <3>1. clientIDs = <<>> BY <1>1, <2>4 DEF Members, BeginRound
      <3>2. QED BY <2>2, <2>4, <3>1 DEF BeginRound
    <2>5. CASE \/ EndVoting \/ SelectForContent \/ StartDownload \/ EndDownload
               \/ EndPlaying \/ StayInLoop \/ Select
      BY <2>2, <2>5 DEF EndVoting, EndVotingWith, SelectForContent, StartDownload, EndDownload,
                        EndPlaying, StayInLoop, Select
    <2>6. QED BY <1>6, <2>3, <2>4, <2>5
  <1>7. CASE Accept
    <2>1. UNCHANGED <<clientIDs, inbox, seen, gone>> BY <1>7 DEF Accept
    <2>2. \A f \in Fds : f \in Open => f \in Open' /\ peer'[f] = peer[f]
      BY <1>2, <1>7 DEF Accept, Open
    <2>3. \A f \in Fds \ Open : seen[f] = {} BY <1>1 DEF Streams
    <2>4. Idle \subseteq Idle' /\ Live' \subseteq Fds BY <2>1, <2>2 DEF Idle, Open, Live
    <2>5. \A f \in Live' : MOVIES \in seen'[f] => f \in Live /\ MOVIES \in seen[f] /\ peer'[f] = peer[f]
      BY <2>1, <2>2, <2>3, <2>4 DEF Live
    <2>6. QED BY <1>1, <2>1, <2>4, <2>5, RecordKept
  <1>8. ASSUME NEW fd \in Fds, NEW type \in Script, NEW v \in Videos, Send(fd, type, v)
        PROVE  Recorded'
    <2>1. /\ UNCHANGED <<clientIDs, peer, seen, gone>> /\ fd \notin gone
          /\ inbox' = [inbox EXCEPT ![fd] = @ \o Bytes(peer[fd], type, v)]
      BY <1>8 DEF Send
    <2>2. Open' = Open /\ Live' = Live /\ Open \subseteq Fds BY <2>1 DEF Open, Live
    <2>3. Idle \subseteq Idle' BY <1>2, <2>1, <2>2 DEF Idle
    <2>4. QED BY <1>1, <2>1, <2>2, <2>3, RecordKept
  <1>9. ASSUME \/ \E c \in Clients : Connect(c)
               \/ \E fd \in Fds : Disconnect(fd) \/ TakeVideo(fd) \/ Drain(fd)
               \/ Tick \/ UNCHANGED vars
        PROVE  Recorded'
    <2>1. UNCHANGED <<clientIDs, inbox, peer, seen>> /\ gone \subseteq gone'
      BY <1>9 DEF Connect, Disconnect, TakeVideo, Drain, Tick, vars
    <2>2. QED BY <1>3, <2>1
  <1>10. CASE Server
    <2>1. CASE \E fd \in Fds :
                 ServeVoting(fd) \/ ServeDownload(fd) \/ PlayRead(fd) \/ PlayHandle(fd)
      BY <1>1, <2>1, ServeRecorded
    <2>2. QED BY <1>6, <1>7, <1>10, <2>1 DEF Server
  <1>11. CASE Environment BY <1>8, <1>9, <1>11 DEF Environment
  <1>12. QED BY <1>9, <1>10, <1>11 DEF Next

-----------------------------------------------------------------------------
(* The theorems *)

\* Every step keeps the invariant of the session.
LEMMA SessionNext == SessionInv /\ [Next]_vars => SessionInv'
  <1> SUFFICES ASSUME SessionInv, [Next]_vars PROVE SessionInv' OBVIOUS
  <1>1. IInv /\ Streams /\ Members BY DEF SessionInv
  <1>2. IInv' BY <1>1, NextInv
  <1>3. Streams' BY <1>1, NetworkSteps, StreamsNext
  <1>4. Members'
    <2>1. CASE \/ BeginRound \/ EndVoting \/ SendSelected \/ SelectForContent \/ StartDownload
               \/ EndDownload \/ SendStart \/ EndPlaying \/ \E fd \in Fds : SendContent(fd)
      BY <1>1, <2>1, PhaseMembers
    <2>2. CASE Accept \/ Select \/ StayInLoop \/ Environment \/ UNCHANGED vars
      BY <1>1, <2>2, OtherMembers
    <2>3. CASE \E fd \in Fds :
                 ServeVoting(fd) \/ ServeDownload(fd) \/ PlayRead(fd) \/ PlayHandle(fd)
      BY <1>1, <2>3, ServeMembers
    <2>4. QED BY <2>1, <2>2, <2>3 DEF Next, Server
  <1>5. QED BY <1>2, <1>3, <1>4 DEF SessionInv

\* The invariant of the session holds in every reachable state.
THEOREM SessionInvariance == Spec => []SessionInv
  <1>1. Init => SessionInv BY InitInv, InitStreams, InitMembers DEF SessionInv
  <1>2. QED BY <1>1, SessionNext, PTL DEF Spec

\* Whoever registered in a round was sent its film before the server waits for
\* the downloads, in whatever order people came, went and stopped reading.
THEOREM MembersHaveFilm == Spec => []JoinedHaveFilm
  <1>1. SessionInv => JoinedHaveFilm BY DEF SessionInv, Members
  <1>2. QED BY <1>1, SessionInvariance, PTL

\* Every DOWNLOADED is counted once, with whatever it shares its queue.
THEOREM DownloadsCountOnce == Spec => DownloadsAreCounted
  <1>1. SessionInv /\ [Next]_vars =>
          [pc = "download" /\ pc' = "download" =>
             Announced' = Announced
                          + Cardinality({fd \in Fds : DOWNLOADED \in said'[fd] \ said[fd]})]_vars
    BY DownloadStep DEF SessionInv, Sending
  <1>2. QED BY <1>1, SessionInvariance, PTL DEF Spec, DownloadsAreCounted

\* Whoever registered while voting, under a name of its own, stays on record
\* with its own descriptor until it leaves, for any number of clients,
\* descriptors and connections.
THEOREM MembersStay == Spec => []MembersStayOnRecord
  <1>1. Init => RecordInv
    <2> SUFFICES ASSUME Init PROVE RecordInv OBVIOUS
    <2>1. Open = {} /\ Live = {} /\ waiting = NoFd /\ pc = "round" BY DEF Init, Open, Live
    <2>2. backlog = <<>> /\ Len(backlog) = 0 BY EmptySeq DEF Init
    <2>3. QED BY <2>1, <2>2 DEF RecordInv, OneLive, Names, Reading, Recorded
  <1>2. SessionInv /\ RecordInv /\ [Next]_vars => RecordInv'
    <2> SUFFICES ASSUME SessionInv, RecordInv, [Next]_vars PROVE RecordInv' OBVIOUS
    <2>1. IInv /\ Streams /\ OneLive /\ Names /\ Reading BY DEF SessionInv, RecordInv
    <2>2. OneLive' /\ Names' /\ Reading'
      BY <2>1, OneLiveNext, NamesNext, NetworkSteps, ReadingNext
    <2>3. Recorded' BY RecordedNext
    <2>4. QED BY <2>2, <2>3 DEF RecordInv
  <1>3. RecordInv => MembersStayOnRecord
    BY DEF RecordInv, Recorded, HoldsRecord, MembersStayOnRecord, Live, Alone
  <1>4. QED BY <1>1, <1>2, <1>3, SessionInvariance, PTL DEF Spec

=============================================================================
