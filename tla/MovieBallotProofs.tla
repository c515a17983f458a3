------------------------- MODULE MovieBallotProofs -------------------------
(***************************************************************************)
(* What MovieServer guarantees about a vote: each ballot is the vote of    *)
(* one descriptor for one video, no vote that was read is lost, a vote     *)
(* that ends early has every ballot, and the rounds are those of           *)
(* WatchParty.                                                             *)
(***************************************************************************)
EXTENDS MovieSessionProofs

NoVotes == [v \in Videos |-> 0]

\* The ballots of the vote that runs; there are none while none runs.
BallotInv ==
  /\ BallotsMatchVoted
  /\ pc \notin {"voting", "crashed"} => tally = NoVotes

\* What the first round of a connection leaves in its queue while the server
\* lets it vote: nothing before its VOTE, which stays in front until it is read.
ReadVotes(fd) ==
  fd \in joined /\ MOVIE_CONTENT \notin seen[fd] =>
    /\ VOTE \in said[fd] =>
         List_contains_fd(voted, fd) \/ (inbox[fd] # <<>> /\ Head(inbox[fd]) = VOTE)
    /\ VOTE \notin said[fd] => inbox[fd] = <<>> \/ Head(inbox[fd]) = GOODBYE

\* A descriptor that got the list is of this round, or got a film before.
VotesOf(fd) ==
  /\ pc = "voting" => ReadVotes(fd)
  /\ fd \in joined => HELLO \in said[fd]
  /\ fd \in hasFilm => MOVIE_CONTENT \in seen[fd]
  /\ MOVIES \in seen[fd] => MOVIE_CONTENT \in seen[fd] \/ fd \in joined

VotesInv == \A fd \in Fds : VotesOf(fd)

-----------------------------------------------------------------------------
(* The descriptors in a list *)

\* There are as many descriptors as entries, at most.
LEMMA FdsCount ==
  ASSUME NEW E, NEW list \in Seq(E)
  PROVE  /\ IsFiniteSet(FdsOf(list)) /\ Cardinality(FdsOf(list)) <= Len(list)
         /\ Cardinality(FdsOf(list)) \in Nat
         /\ (\A i, j \in 1..Len(list) : list[i].fd = list[j].fd => i = j)
              => Cardinality(FdsOf(list)) = Len(list)
  <1> DEFINE f == [i \in 1..Len(list) |-> list[i].fd]
  <1>1. Len(list) \in Nat BY LenProperties
  <1>2. IsFiniteSet(1..Len(list)) /\ Cardinality(1..Len(list)) = Len(list)
    <2>1. Cardinality(1..Len(list)) = IF 1 > Len(list) THEN 0 ELSE Len(list) - 1 + 1
      BY <1>1, FS_Interval
    <2>2. QED BY <1>1, <2>1, FS_Interval
  <1>3. f \in Surjection(1..Len(list), FdsOf(list)) BY DEF Surjection, FdsOf
  <1>4. /\ IsFiniteSet(FdsOf(list)) /\ Cardinality(FdsOf(list)) <= Cardinality(1..Len(list))
        /\ Cardinality(FdsOf(list)) = Cardinality(1..Len(list))
             <=> f \in Injection(1..Len(list), FdsOf(list))
    BY <1>2, <1>3, FS_Surjection
  <1>5. ASSUME \A i, j \in 1..Len(list) : list[i].fd = list[j].fd => i = j
        PROVE  f \in Injection(1..Len(list), FdsOf(list))
    BY <1>3, <1>5 DEF Injection, Surjection, IsInjective
  <1>6. QED BY <1>2, <1>4, <1>5, FS_CardinalityType

-----------------------------------------------------------------------------
(* The tally *)

\* A vote adds one ballot for one video, of a descriptor that had none.
LEMMA VoteCounts ==
  ASSUME IInv, BallotsMatchVoted, NEW fd \in Fds, NEW video \in Videos, NEW rest,
         Vote(fd, video, rest)
  PROVE  BallotsMatchVoted'
  <1> DEFINE n == Len(voted)
  <1>1. voted \in Seq(Ballot) /\ tally \in [Videos -> Nat] BY DEF IInv, TypeOK
  <1>2. n \in Nat BY <1>1, LenProperties
  <1>3. /\ ~List_contains_fd(voted, fd) /\ voted' = List_add(voted, NULL, fd)
        /\ tally' = [tally EXCEPT ![video] = tally[video] + 1]
    BY DEF Vote, MayVote
  <1>4. /\ Len(voted') = n + 1 /\ voted'[n + 1].fd = fd
        /\ \A i \in 1..n : voted'[i] = voted[i]
    <2>1. Entry_new(NULL, fd) \in Ballot BY DEF Entry_new, Ballot
    <2>2. QED BY <1>1, <1>3, <2>1, AppendProperties DEF List_add, Entry_new
  <1> HIDE DEF n
  <1>5. \A i \in 1..(n + 1) : i \in 1..n \/ i = n + 1 BY <1>2
  <1>6. \A i \in 1..n : voted[i].fd # fd BY <1>3 DEF List_contains_fd, n
  <1>7. ASSUME NEW i \in 1..(n + 1), NEW j \in 1..(n + 1), voted'[i].fd = voted'[j].fd
        PROVE  i = j
    <2>1. CASE i \in 1..n /\ j \in 1..n BY <1>4, <1>7, <2>1 DEF BallotsMatchVoted, n
    <2>2. CASE i = n + 1 /\ j \in 1..n BY <1>4, <1>6, <1>7, <2>2
    <2>3. CASE i \in 1..n /\ j = n + 1 BY <1>4, <1>6, <1>7, <2>3
    <2>4. QED BY <1>5, <2>1, <2>2, <2>3
  <1>8. PICK choice \in [1..n -> Videos] :
          \A v \in Videos : tally[v] = Cardinality({i \in 1..n : choice[i] = v})
    BY DEF BallotsMatchVoted, n
  <1> DEFINE more == [i \in 1..(n + 1) |-> IF i = n + 1 THEN video ELSE choice[i]]
             For(v) == {i \in 1..n : choice[i] = v}
  <1>9. more \in [1..(n + 1) -> Videos] BY <1>5, <1>8
  <1>10. ASSUME NEW v \in Videos
         PROVE  tally'[v] = Cardinality({i \in 1..(n + 1) : more[i] = v})
    <2>1. IsFiniteSet(For(v)) /\ Cardinality(For(v)) \in Nat
      <3>1. IsFiniteSet(1..n) BY <1>2, FS_Interval
      <3>2. For(v) \in SUBSET (1..n) OBVIOUS
      <3>3. QED BY <3>1, <3>2, FS_Subset, FS_CardinalityType
    <2>2. n + 1 \in 1..(n + 1) /\ n + 1 \notin 1..n /\ \A i \in 1..n : i \in 1..(n + 1) /\ i # n + 1
      BY <1>2
    <2>3. CASE v = video
      <3>1. {i \in 1..(n + 1) : more[i] = v} = For(v) \cup {n + 1} BY <1>5, <2>2, <2>3
      <3>2. Cardinality(For(v) \cup {n + 1}) = Cardinality(For(v)) + 1
        BY <2>1, <2>2, FS_AddElement
      <3>3. QED BY <1>1, <1>3, <1>8, <2>3, <3>1, <3>2
    <2>4. CASE v # video
      <3>1. {i \in 1..(n + 1) : more[i] = v} = For(v) BY <1>5, <2>2, <2>4
      <3>2. QED BY <1>1, <1>3, <1>8, <2>4, <3>1
    <2>5. QED BY <2>3, <2>4
  <1> HIDE DEF more
  <1>11. \A i, j \in 1..Len(voted') : voted'[i].fd = voted'[j].fd => i = j BY <1>4, <1>7
  <1>12. \E c \in [1..Len(voted') -> Videos] : \A v \in Videos :
           tally'[v] = Cardinality({i \in 1..Len(voted') : c[i] = v})
    <2>1. more \in [1..Len(voted') -> Videos] BY <1>4, <1>9
    <2>2. \A v \in Videos : tally'[v] = Cardinality({i \in 1..Len(voted') : more[i] = v})
      BY <1>4, <1>10
    <2>3. QED BY <2>1, <2>2
  <1>13. QED BY <1>11, <1>12 DEF BallotsMatchVoted

\* Without ballots the tally is empty.
LEMMA NoBallotsCount ==
  \E choice \in [1..0 -> Videos] : \A v \in Videos :
    NoVotes[v] = Cardinality({i \in 1..0 : choice[i] = v})
  <1>1. 1..0 = {} OBVIOUS
  <1> DEFINE none == [i \in {} |-> 0]
  <1>2. none \in [1..0 -> Videos] BY <1>1
  <1>3. ASSUME NEW v \in Videos PROVE NoVotes[v] = Cardinality({i \in 1..0 : none[i] = v})
    <2>1. {i \in 1..0 : none[i] = v} = {} BY <1>1
    <2>2. QED BY <2>1, FS_EmptySet DEF NoVotes
  <1> HIDE DEF none
  <1>4. QED BY <1>2, <1>3

\* The ballots after a step are those before it, one more, or none.
LEMMA BallotNext ==
  ASSUME SessionInv, BallotInv, [Next]_vars
  PROVE  BallotInv'
  <1>1. IInv /\ Streams /\ Members BY DEF SessionInv
  <1>2. ASSUME NoBallots PROVE BallotInv'
    <2>1. voted' = <<>> /\ tally' = NoVotes BY <1>2 DEF NoBallots, NoVotes, List_new
    <2>2. Len(voted') = 0 /\ 1..0 = {} BY <2>1, EmptySeq
    <2>3. 1..Len(voted') = 1..0 BY <2>2
    <2>4. \E choice \in [1..Len(voted') -> Videos] : \A v \in Videos :
            tally'[v] = Cardinality({i \in 1..Len(voted') : choice[i] = v})
      BY <2>1, <2>3, NoBallotsCount, Zenon
    <2>5. \A i, j \in 1..Len(voted') : voted'[i].fd = voted'[j].fd => i = j
      BY <2>2, <2>3, Zenon
    <2>6. BallotsMatchVoted' BY <2>4, <2>5, Zenon DEF BallotsMatchVoted
    <2>7. QED BY <2>1, <2>6 DEF BallotInv, NoVotes
  <1>3. ASSUME UNCHANGED ballot, pc' = pc \/ pc' = "crashed" \/ pc \notin {"voting", "crashed"}
        PROVE  BallotInv'
    <2>1. voted' = voted /\ tally' = tally BY <1>3 DEF ballot
    <2>2. BallotsMatchVoted' BY <2>1 DEF BallotInv, BallotsMatchVoted
    <2>3. pc' \notin {"voting", "crashed"} => tally' = NoVotes BY <1>3, <2>1 DEF BallotInv
    <2>4. QED BY <2>2, <2>3 DEF BallotInv, NoVotes
  <1>4. ASSUME NEW fd \in Fds, NEW name, NEW types, NEW rest,
               \/ Hello(fd, name, types, rest) \/ Goodbye(fd) \/ Count(fd, rest) \/ Ignore(fd, rest)
        PROVE  BallotInv'
    BY <1>3, <1>4 DEF Hello, Goodbye, Count, Ignore
  <1>5. ASSUME NEW fd \in Fds, ServeVoting(fd) PROVE BallotInv'
    <2> DEFINE q == inbox[fd]
               video == IF Len(q) > 1 THEN q[2] ELSE 0
    <2>1. /\ pc = "voting" /\ fd \in Open
          /\ \/ \E name : Hello(fd, name, {MOVIES}, <<>>)
             \/ q # <<>> /\ Head(q) = VOTE /\ Vote(fd, video, <<>>)
             \/ Goodbye(fd) \/ Ignore(fd, <<>>)
      BY <1>1, <1>5, VotingCases
    <2>2. CASE q # <<>> /\ Head(q) = VOTE /\ Vote(fd, video, <<>>)
      <3>1. q \in Seq(Int) BY <1>1 DEF IInv, TypeOK
      <3>2. Len(q) >= 1 /\ Len(q) \in Nat /\ q[1] = VOTE BY <2>2, <3>1, EmptySeq
      <3>3. 1 < Len(q) /\ q[1 + 1] \in Videos BY <1>1, <3>2 DEF Streams, WellFormed
      <3>4. video \in Videos BY <3>3
      <3>5. BallotsMatchVoted' BY <1>1, <2>2, <3>4, VoteCounts DEF BallotInv
      <3>6. pc' = "voting" BY <2>1, <2>2 DEF Vote
      <3>7. QED BY <3>5, <3>6 DEF BallotInv
    <2>3. QED BY <1>4, <2>1, <2>2
  <1>6. ASSUME NEW fd \in Fds, ServeDownload(fd) PROVE BallotInv'
    <2>1. \E name, types, rest : \/ Hello(fd, name, types, rest) \/ Goodbye(fd)
                                 \/ Count(fd, rest) \/ Ignore(fd, rest)
      BY <1>1, <1>6, DownloadCases
    <2>2. QED BY <1>4, <2>1
  <1>7. ASSUME NEW fd \in Fds, PlayRead(fd) \/ PlayHandle(fd) PROVE BallotInv'
    <2>1. \E name, types, rest : \/ Hello(fd, name, types, rest) \/ Goodbye(fd)
                                 \/ Count(fd, rest) \/ Ignore(fd, rest)
      BY <1>1, <1>7, PlayingCases
    <2>2. QED BY <1>4, <2>1
  <1>8. CASE BeginRound \/ EndVoting BY <1>2, <1>8 DEF BeginRound, EndVoting, EndVotingWith
  <1>9. CASE \/ SendSelected \/ SelectForContent \/ StartDownload \/ EndDownload
             \/ SendStart \/ EndPlaying \/ \E fd \in Fds : SendContent(fd)
    BY <1>3, <1>9
    DEF SendSelected, SelectForContent, SendContent, StartDownload, EndDownload, SendStart, EndPlaying
  <1>10. CASE Accept \/ Select \/ StayInLoop BY <1>3, <1>10 DEF Accept, Select, StayInLoop
  <1>11. CASE Environment
    BY <1>3, <1>11
    DEF Environment, Connect, Send, Disconnect, TakeVideo, Drain, Tick, serverVars, control
  <1>12. CASE UNCHANGED vars BY <1>3, <1>12 DEF vars, ballot
  <1>13. QED
    BY <1>5, <1>6, <1>7, <1>8, <1>9, <1>10, <1>11, <1>12 DEF Next, Server

\* A vote that ends before its deadline with only members among the voters.
LEMMA EarlyEndStep ==
  ASSUME SessionInv, BallotInv, [Next]_vars, pc = "voting", pc' = "selected", ~expired,
         FdsOf(voted) \subseteq FdsOf(clientIDs)
  PROVE  FdsOf(voted) = FdsOf(clientIDs)
  <1>1. IInv /\ voted \in Seq(Ballot) /\ clientIDs \in Seq(Record) BY DEF SessionInv, IInv, TypeOK
  <1>2. EndVoting
    <2>1. ASSUME NEW fd \in Fds, ServeVoting(fd) PROVE FALSE
      <3>1. pc' \in {pc, "crashed"}
        BY <1>1, <2>1, VotingCases DEF Hello, Vote, Goodbye, Count, Ignore
      <3>2. QED BY <3>1
    <2>2. /\ ~BeginRound /\ ~SendSelected /\ ~SelectForContent /\ ~StartDownload /\ ~EndDownload
          /\ ~SendStart /\ ~EndPlaying /\ ~Accept /\ ~Select /\ ~StayInLoop
          /\ \A fd \in Fds :
               ~SendContent(fd) /\ ~ServeDownload(fd) /\ ~PlayRead(fd) /\ ~PlayHandle(fd)
      BY DEF BeginRound, SendSelected, SelectForContent, SendContent, StartDownload, EndDownload,
             SendStart, EndPlaying, Accept, Select, StayInLoop, ServeDownload, PlayRead,
             PlayHandle, Serving
    <2>3. ~Environment /\ ~UNCHANGED vars
      BY DEF Environment, Connect, Send, Disconnect, TakeVideo, Drain, Tick, serverVars, control,
             vars
    <2>4. QED BY <2>1, <2>2, <2>3 DEF Next, Server
  <1>3. Len(voted) = Len(clientIDs) BY <1>2 DEF EndVoting, EndVotingWith, VotingOver
  <1>4. Cardinality(FdsOf(voted)) = Len(voted)
    BY <1>1, FdsCount DEF BallotInv, BallotsMatchVoted
  <1>5. IsFiniteSet(FdsOf(clientIDs)) /\ Cardinality(FdsOf(clientIDs)) <= Len(clientIDs)
        /\ Cardinality(FdsOf(clientIDs)) \in Nat
    BY <1>1, FdsCount
  <1>6. /\ Cardinality(FdsOf(voted)) <= Cardinality(FdsOf(clientIDs))
        /\ Cardinality(FdsOf(clientIDs)) = Cardinality(FdsOf(voted))
             => FdsOf(clientIDs) = FdsOf(voted)
    BY <1>5, FS_Subset
  <1>7. Len(voted) \in Nat BY <1>1, LenProperties
  <1>8. QED BY <1>3, <1>4, <1>5, <1>6, <1>7

-----------------------------------------------------------------------------
(* The rounds are those of WatchParty *)

\* The stage of the party that PartySpec reads off pc.
Stage ==
  CASE pc = "round" -> "idle"
    [] pc = "voting" -> "voting"
    [] pc \in {"selected", "content", "film", "download", "start"} -> "loading"
    [] pc = "playing" -> "playing"
    [] pc = "crashed" -> "stopped"

\* A vote that is closed when some cell of vote_tally began with another
\* number than max_votes: the greatest sum of garbage and ballots wins.
CloseUneven ==
  \E base \in [Videos -> GarbageInts], max_votes \in GarbageInts :
    /\ \E v \in Videos : base[v] # max_votes
    /\ Stage = "voting" /\ Stage' = "loading" /\ tally' = NoVotes
    /\ movie' = Winner([v \in Videos |-> base[v] + tally[v]], max_votes)

\* With as many garbage votes in every cell as in max_votes, the winner has as
\* many ballots as any video, and more than those before it.
LEMMA WinnerElected ==
  ASSUME NEW votes \in [Videos -> Nat], NEW g \in Int
  PROVE  LET f == Winner([v \in Videos |-> g + votes[v]], g)
         IN  /\ f \in Videos
             /\ \A u \in Videos : votes[u] <= votes[f] /\ (u < f => votes[u] < votes[f])
  <1> DEFINE cells == [v \in Videos |-> g + votes[v]]
             best == {v \in Videos : /\ cells[v] > g
                                     /\ \A u \in Videos : cells[u] <= cells[v]
                                     /\ \A u \in Videos : u < v => cells[u] < cells[v]}
             f == Winner(cells, g)
  <1>1. \A v \in Videos : votes[v] \in Nat /\ cells[v] = g + votes[v] OBVIOUS
  <1>2. f \in Videos BY WinnerType
  <1>3. f = IF best = {} THEN 0 ELSE CHOOSE v \in best : TRUE BY DEF Winner
  <1> HIDE DEF cells, f
  <1>4. CASE best # {}
    <2>1. f \in best BY <1>3, <1>4
    <2>2. \A u \in Videos : cells[u] <= cells[f] /\ (u < f => cells[u] < cells[f]) BY <2>1
    <2>3. QED BY <1>1, <1>2, <2>2 DEF f, cells
  <1>5. CASE best = {}
    <2>1. f = 0 BY <1>3, <1>5
    <2>2. \A v \in Videos : ~ /\ votes[v] > 0
                              /\ \A u \in Videos : votes[u] <= votes[v]
                              /\ \A u \in Videos : u < v => votes[u] < votes[v]
      <3>1. ASSUME NEW v \in Videos, votes[v] > 0,
                   \A u \in Videos : votes[u] <= votes[v],
                   \A u \in Videos : u < v => votes[u] < votes[v]
            PROVE  FALSE
        <4>1. cells[v] > g BY <1>1, <3>1
        <4>2. \A u \in Videos : cells[u] <= cells[v] BY <1>1, <3>1
        <4>3. \A u \in Videos : u < v => cells[u] < cells[v] BY <1>1, <3>1
        <4>4. v \in best BY <4>1, <4>2, <4>3
        <4>5. QED BY <1>5, <4>4
      <3>2. QED BY <3>1
    <2>3. \A u \in Videos : votes[u] <= votes[0]
      <3>1. Videos \in {{0}, {0, 1}, {0, 1, 2}}
        <4>1. VideoCount = 1 \/ VideoCount = 2 \/ VideoCount = 3 BY VideoCountAssumption
        <4>2. QED BY <4>1 DEF Videos
      <3>2. CASE Videos = {0} BY <1>1, <3>2
      <3>3. CASE Videos = {0, 1} BY <1>1, <2>2, <3>3
      <3>4. CASE Videos = {0, 1, 2}
        <4>1. votes[0] \in Nat /\ votes[1] \in Nat /\ votes[2] \in Nat BY <1>1, <3>4
        <4>2. ~(votes[1] > 0 /\ votes[0] < votes[1] /\ votes[2] <= votes[1])
          BY <2>2, <3>4, <4>1
        <4>3. ~(votes[2] > 0 /\ votes[0] < votes[2] /\ votes[1] < votes[2])
          BY <2>2, <3>4, <4>1
        <4>4. votes[1] <= votes[0] /\ votes[2] <= votes[0] BY <4>1, <4>2, <4>3
        <4>5. QED BY <3>4, <4>1, <4>4
      <3>5. QED BY <3>1, <3>2, <3>3, <3>4
    <2>4. \A u \in Videos : ~(u < 0) BY VideoCountAssumption DEF Videos
    <2>5. QED BY <1>2, <2>1, <2>3, <2>4 DEF f, cells
  <1>6. QED BY <1>4, <1>5

\* The server goes on where it was, or stops: the party does the same.
LEMMA PartyKept ==
  ASSUME pc' = pc \/ pc' = "crashed", UNCHANGED <<tally, movie>>
  PROVE  [Party!Next]_<<Stage, tally, movie>>
  <1>1. CASE pc' = pc BY <1>1 DEF Stage
  <1>2. CASE pc' = "crashed" BY <1>2 DEF Party!Next, Party!Stop
  <1>3. QED BY <1>1, <1>2

\* Every step of the server that does not end a vote is one of the party, or
\* one that it does not see.
LEMMA PartyStep ==
  ASSUME SessionInv, BallotInv, [Next]_vars, ~EndVoting
  PROVE  [Party!Next]_<<Stage, tally, movie>>
  <1>1. IInv /\ Streams /\ Members BY DEF SessionInv
  <1>2. ASSUME NEW fd \in Fds, NEW name, NEW types, NEW rest, UNCHANGED movie,
               \/ Hello(fd, name, types, rest) \/ Goodbye(fd) \/ Count(fd, rest) \/ Ignore(fd, rest)
        PROVE  [Party!Next]_<<Stage, tally, movie>>
    BY <1>2, PartyKept DEF Hello, Goodbye, Count, Ignore, ballot
  <1>3. ASSUME NEW fd \in Fds, ServeVoting(fd) PROVE [Party!Next]_<<Stage, tally, movie>>
    <2> DEFINE q == inbox[fd]
               video == IF Len(q) > 1 THEN q[2] ELSE 0
    <2>1. /\ pc = "voting" /\ fd \in Open
          /\ \/ \E name : Hello(fd, name, {MOVIES}, <<>>)
             \/ q # <<>> /\ Head(q) = VOTE /\ Vote(fd, video, <<>>)
             \/ Goodbye(fd) \/ Ignore(fd, <<>>)
      BY <1>1, <1>3, VotingCases
    <2>2. UNCHANGED movie BY <1>3 DEF ServeVoting
    <2>3. CASE q # <<>> /\ Head(q) = VOTE /\ Vote(fd, video, <<>>)
      <3>1. q \in Seq(Int) BY <1>1 DEF IInv, TypeOK
      <3>2. Len(q) >= 1 /\ Len(q) \in Nat /\ q[1] = VOTE BY <2>3, <3>1, EmptySeq
      <3>3. 1 < Len(q) /\ q[1 + 1] \in Videos BY <1>1, <3>2 DEF Streams, WellFormed
      <3>4. video \in Videos BY <3>3
      <3>5. pc' = "voting" /\ tally' = [tally EXCEPT ![video] = @ + 1] BY <2>1, <2>3 DEF Vote
      <3> HIDE DEF video
      <3>6. Party!Cast(video) BY <2>1, <2>2, <3>5 DEF Party!Cast
      <3>7. QED BY <3>4, <3>6 DEF Party!Next
    <2>4. QED BY <1>2, <2>1, <2>2, <2>3
  <1>4. ASSUME NEW fd \in Fds, ServeDownload(fd) PROVE [Party!Next]_<<Stage, tally, movie>>
    <2>1. /\ UNCHANGED movie
          /\ \E name, types, rest : \/ Hello(fd, name, types, rest) \/ Goodbye(fd)
                                    \/ Count(fd, rest) \/ Ignore(fd, rest)
      BY <1>1, <1>4, DownloadCases DEF ServeDownload
    <2>2. QED BY <1>2, <2>1
  <1>5. ASSUME NEW fd \in Fds, PlayRead(fd) \/ PlayHandle(fd)
        PROVE  [Party!Next]_<<Stage, tally, movie>>
    <2>1. /\ UNCHANGED movie
          /\ \E name, types, rest : \/ Hello(fd, name, types, rest) \/ Goodbye(fd)
                                    \/ Count(fd, rest) \/ Ignore(fd, rest)
      BY <1>1, <1>5, PlayingCases DEF PlayRead, PlayHandle
    <2>2. QED BY <1>2, <2>1
  <1>6. CASE BeginRound
    <2>1. pc = "round" /\ pc' = "voting" /\ UNCHANGED movie /\ tally' = NoVotes
      BY <1>6 DEF BeginRound, NoBallots, NoVotes
    <2>2. tally = NoVotes BY <2>1 DEF BallotInv
    <2>3. Party!Open BY <2>1, <2>2 DEF Party!Open
    <2>4. QED BY <2>3 DEF Party!Next
  <1>7. CASE \/ SendSelected \/ SelectForContent \/ StartDownload \/ EndDownload
             \/ \E fd \in Fds : SendContent(fd)
    <2>1. /\ pc \in {"selected", "content", "film", "download"}
          /\ pc' \in {"content", "film", "download", "start"}
          /\ UNCHANGED <<tally, movie>>
      BY <1>7 DEF SendSelected, SelectForContent, SendContent, StartDownload, EndDownload, ballot
    <2>2. Stage = "loading" /\ Stage' = "loading" BY <2>1 DEF Stage
    <2>3. QED BY <2>1, <2>2
  <1>8. CASE SendStart
    <2>1. pc = "start" /\ pc' = "playing" /\ UNCHANGED <<tally, movie>>
      BY <1>8 DEF SendStart, ballot
    <2>2. QED BY <2>1 DEF Party!Next, Party!Play
  <1>9. CASE EndPlaying
    <2>1. pc = "playing" /\ pc' = "round" /\ UNCHANGED tally /\ movie' = 0
      BY <1>9 DEF EndPlaying, ballot
    <2>2. QED BY <2>1 DEF Party!Next, Party!Finish
  <1>10. CASE Accept \/ Select \/ StayInLoop
    BY <1>10, PartyKept DEF Accept, Select, StayInLoop, ballot
  <1>11. CASE Environment
    BY <1>11, PartyKept
    DEF Environment, Connect, Send, Disconnect, TakeVideo, Drain, Tick, serverVars, control,
        ballot
  <1>12. CASE UNCHANGED vars BY <1>12, PartyKept DEF vars
  <1>13. QED
    BY <1>3, <1>4, <1>5, <1>6, <1>7, <1>8, <1>9, <1>10, <1>11, <1>12 DEF Next, Server

\* The end of a vote elects a film if what is uninitialized is all the same.
LEMMA EndVotingCloses ==
  ASSUME SessionInv, EndVoting
  PROVE  Party!Close \/ CloseUneven
  <1>1. tally \in [Videos -> Nat] BY DEF SessionInv, IInv, TypeOK
  <1>2. PICK base \in [Videos -> GarbageInts], max_votes \in GarbageInts :
          EndVotingWith(base, max_votes)
    BY DEF EndVoting
  <1>3. /\ pc = "voting" /\ pc' = "selected" /\ tally' = NoVotes
        /\ movie' = Winner([v \in Videos |-> base[v] + tally[v]], max_votes)
    BY <1>2 DEF EndVotingWith, NoBallots, NoVotes
  <1>4. CASE \A v \in Videos : base[v] = max_votes
    <2>1. max_votes \in Int BY GarbageAssumption
    <2>2. [v \in Videos |-> base[v] + tally[v]] = [v \in Videos |-> max_votes + tally[v]]
      BY <1>4
    <2>3. movie' = Winner([v \in Videos |-> max_votes + tally[v]], max_votes) BY <1>3, <2>2
    <2>4. /\ movie' \in Videos
          /\ \A u \in Videos : tally[u] <= tally[movie'] /\ (u < movie' => tally[u] < tally[movie'])
      BY <1>1, <2>1, <2>3, WinnerElected
    <2>5. QED BY <1>3, <2>4 DEF Party!Close, Party!Elected, Party!NoBallots, NoVotes
  <1>5. CASE \E v \in Videos : base[v] # max_votes
    <2>1. Stage = "voting" /\ Stage' = "loading" BY <1>3 DEF Stage
    <2>2. QED BY <1>3, <1>5, <2>1 DEF CloseUneven
  <1>6. QED BY <1>4, <1>5

-----------------------------------------------------------------------------
(* No vote that is read is lost *)

\* A descriptor that the step leaves alone, or only writes to.
LEMMA VotesKept ==
  ASSUME NEW g \in Fds, VotesOf(g), pc' = "voting" => pc = "voting",
         inbox'[g] = inbox[g], said'[g] = said[g], seen[g] \subseteq seen'[g],
         MOVIES \in seen'[g] => MOVIES \in seen[g],
         g \in joined' <=> g \in joined,
         g \in hasFilm' => g \in hasFilm \/ MOVIE_CONTENT \in seen'[g],
         pc' = "voting" /\ List_contains_fd(voted, g) => List_contains_fd(voted', g)
  PROVE  VotesOf(g)'
  BY DEF VotesOf, ReadVotes

\* The branches of the handlers leave the other descriptors alone.
LEMMA VotesElsewhere ==
  ASSUME IInv, VotesInv, NEW fd \in Fds, NEW name, NEW types, NEW rest, NEW video,
         \/ Hello(fd, name, types, rest) \/ Vote(fd, video, rest)
         \/ Goodbye(fd) \/ Count(fd, rest) \/ Ignore(fd, rest),
         NEW g \in Fds, g # fd
  PROVE  VotesOf(g)'
  <1>1. /\ inbox \in [Fds -> Seq(Int)] /\ seen \in [Fds -> SUBSET FromServer]
        /\ said \in [Fds -> SUBSET Script] /\ voted \in Seq(Ballot)
    BY DEF IInv, TypeOK
  <1>2. VotesOf(g) BY DEF VotesInv
  <1>3. List_contains_fd(voted, g) => List_contains_fd(voted', g)
    <2>1. CASE voted' = voted BY <2>1
    <2>2. CASE voted' = List_add(voted, NULL, fd)
      <3>1. Entry_new(NULL, fd) \in Ballot BY DEF Entry_new, Ballot
      <3>2. QED BY <1>1, <2>2, <3>1, AddFDs
    <2>3. QED BY <2>1, <2>2 DEF Hello, Vote, Goodbye, Count, Ignore, ballot
  <1>4. /\ pc' = "voting" => pc = "voting"
        /\ inbox'[g] = inbox[g] /\ said'[g] = said[g] /\ seen'[g] = seen[g]
        /\ g \in joined' <=> g \in joined
        /\ g \in hasFilm' => g \in hasFilm
    <2>1. CASE Hello(fd, name, types, rest) BY <1>1, <2>1 DEF Hello, Deliver, WriteVideo
    <2>2. CASE Goodbye(fd)
      BY <1>1, <2>2 DEF Goodbye, CloseConnection, members, sending
    <2>3. CASE Vote(fd, video, rest) \/ Count(fd, rest) \/ Ignore(fd, rest)
      BY <1>1, <2>3 DEF Vote, Count, Ignore, members, sending
    <2>4. QED BY <2>1, <2>2, <2>3
  <1>5. QED BY <1>2, <1>3, <1>4, VotesKept

\* The descriptor that is served while voting.
LEMMA ServeVotingVotes ==
  ASSUME IInv, Streams, Members, VotesInv, NEW fd \in Fds, ServeVoting(fd)
  PROVE  VotesOf(fd)'
  <1> DEFINE q == inbox[fd]
  <1>1. /\ inbox \in [Fds -> Seq(Int)] /\ seen \in [Fds -> SUBSET FromServer]
        /\ said \in [Fds -> SUBSET Script] /\ voted \in Seq(Ballot)
    BY DEF IInv, TypeOK
  <1>2. HELLO # VOTE /\ HELLO # GOODBYE /\ VOTE # GOODBYE BY DEF HELLO, VOTE, GOODBYE
  <1>3. pc = "voting" /\ fd \in Open BY VotingCases
  <1>4. VotesOf(fd) /\ ReadVotes(fd) BY <1>3 DEF VotesInv, VotesOf
  <1>5. ASSUME NEW name, q # <<>>, Head(q) = HELLO, Hello(fd, name, {MOVIES}, <<>>)
        PROVE  VotesOf(fd)'
    <2>1. /\ said' = said /\ voted' = voted /\ hasFilm' = hasFilm /\ inbox'[fd] = <<>>
          /\ fd \in joined' /\ seen'[fd] = seen[fd] \cup {MOVIES}
      BY <1>1, <1>5 DEF Hello, Deliver, ballot, MOVIES, MOVIE_CONTENT
    <2>2. HELLO \in said[fd] BY <1>5 DEF Streams, WellFormed
    <2>3. ASSUME MOVIE_CONTENT \notin seen[fd], VOTE \in said[fd]
          PROVE  List_contains_fd(voted, fd)
      <3>1. MOVIES \in seen[fd] BY <2>3 DEF Streams
      <3>2. fd \in joined BY <1>4, <2>3, <3>1 DEF VotesOf
      <3>3. QED BY <1>2, <1>4, <1>5, <2>3, <3>2 DEF ReadVotes
    <2>4. ReadVotes(fd)' BY <2>1, <2>3 DEF ReadVotes, MOVIES, MOVIE_CONTENT
    <2>5. fd \in hasFilm' => MOVIE_CONTENT \in seen'[fd] BY <1>4, <2>1 DEF VotesOf
    <2>6. QED BY <2>1, <2>2, <2>4, <2>5 DEF VotesOf
  <1>6. ASSUME NEW video, Vote(fd, video, <<>>)
        PROVE  VotesOf(fd)'
    <2>1. /\ voted' = List_add(voted, NULL, fd) /\ inbox'[fd] = <<>> /\ pc' = pc
          /\ UNCHANGED <<said, seen, joined, hasFilm>>
      BY <1>1, <1>6 DEF Vote, members, sending
    <2>2. List_contains_fd(voted', fd)
      <3>1. Entry_new(NULL, fd) \in Ballot BY DEF Entry_new, Ballot
      <3>2. QED BY <1>1, <2>1, <3>1, AddFDs
    <2>3. QED BY <1>4, <2>1, <2>2 DEF VotesOf, ReadVotes
  <1>7. ASSUME Goodbye(fd) PROVE VotesOf(fd)'
    <2>1. CASE CloseConnection(fd) /\ joined' = joined \ {fd}
      <3>1. fd \notin joined' /\ seen'[fd] = {} /\ fd \notin hasFilm'
        BY <1>1, <2>1 DEF CloseConnection
      <3>2. QED BY <3>1 DEF VotesOf, ReadVotes
    <2>2. CASE pc' = "crashed" /\ UNCHANGED <<sending, members, said>>
      BY <1>4, <2>2 DEF VotesOf, sending, members
    <2>3. QED BY <1>7, <2>1, <2>2 DEF Goodbye
  <1>8. ASSUME Ignore(fd, <<>>), q # <<>> => Head(q) # HELLO /\ Head(q) # GOODBYE,
               q # <<>> /\ Head(q) = VOTE => ~MayVote(fd)
        PROVE  VotesOf(fd)'
    <2>1. inbox'[fd] = <<>> /\ pc' = pc /\ UNCHANGED <<said, seen, joined, hasFilm, voted>>
      BY <1>1, <1>8 DEF Ignore, members, sending, ballot
    <2>2. ASSUME fd \in joined, MOVIE_CONTENT \notin seen[fd], VOTE \in said[fd]
          PROVE  List_contains_fd(voted, fd)
      BY <1>4, <1>8, <2>2 DEF ReadVotes, MayVote
    <2>3. QED BY <1>4, <2>1, <2>2 DEF VotesOf, ReadVotes
  <1>9. QED BY <1>5, <1>6, <1>7, <1>8, VotingCases

\* The descriptor that is served while a film is downloaded or plays.
LEMMA ServeFilmVotes ==
  ASSUME IInv, Streams, VotesInv, NEW fd \in Fds,
         ServeDownload(fd) \/ PlayRead(fd) \/ PlayHandle(fd)
  PROVE  VotesOf(fd)'
  <1>1. /\ seen \in [Fds -> SUBSET FromServer] /\ said \in [Fds -> SUBSET Script]
    BY DEF IInv, TypeOK
  <1>2. /\ pc \in {"download", "playing"}
        /\ \/ /\ inbox[fd] # <<>>
              /\ \E name, types, rest : MOVIE_CONTENT \in types /\ Hello(fd, name, types, rest)
           \/ Goodbye(fd)
           \/ \E rest : Count(fd, rest) \/ Ignore(fd, rest)
    <2>1. CASE ServeDownload(fd) BY <2>1, DownloadCases
    <2>2. CASE PlayRead(fd) \/ PlayHandle(fd) BY <2>2, PlayingCases
    <2>3. QED BY <2>1, <2>2
  <1>3. VotesOf(fd) BY DEF VotesInv
  <1>4. ASSUME NEW name, NEW types, NEW rest, inbox[fd] # <<>>, MOVIE_CONTENT \in types,
               Hello(fd, name, types, rest)
        PROVE  VotesOf(fd)'
    <2>1. said' = said /\ pc' = pc /\ MOVIE_CONTENT \in seen'[fd]
      BY <1>1, <1>4 DEF Hello, Deliver
    <2>2. HELLO \in said[fd] BY <1>4 DEF Streams, WellFormed
    <2>3. QED BY <1>2, <2>1, <2>2 DEF VotesOf
  <1>5. ASSUME Goodbye(fd) PROVE VotesOf(fd)'
    <2>1. CASE CloseConnection(fd) /\ joined' = joined \ {fd}
      <3>1. fd \notin joined' /\ seen'[fd] = {} /\ fd \notin hasFilm'
        BY <1>1, <2>1 DEF CloseConnection
      <3>2. QED BY <3>1 DEF VotesOf, ReadVotes
    <2>2. CASE pc' = "crashed" /\ UNCHANGED <<sending, members, said>>
      BY <1>3, <2>2 DEF VotesOf, sending, members
    <2>3. QED BY <1>5, <2>1, <2>2 DEF Goodbye
  <1>6. ASSUME NEW rest, Count(fd, rest) \/ Ignore(fd, rest) PROVE VotesOf(fd)'
    BY <1>2, <1>3, <1>6 DEF Count, Ignore, VotesOf, sending, members
  <1>7. QED BY <1>2, <1>4, <1>5, <1>6

\* The services of the three loops.
LEMMA ServeVotes ==
  ASSUME IInv, Streams, Members, VotesInv, NEW fd \in Fds,
         ServeVoting(fd) \/ ServeDownload(fd) \/ PlayRead(fd) \/ PlayHandle(fd)
  PROVE  VotesInv'
  <1>1. VotesOf(fd)' BY ServeVotingVotes, ServeFilmVotes
  <1>2. \E name, types, rest, video :
          \/ Hello(fd, name, types, rest) \/ Vote(fd, video, rest)
          \/ Goodbye(fd) \/ Count(fd, rest) \/ Ignore(fd, rest)
    <2>1. CASE ServeVoting(fd) BY <2>1, VotingCases
    <2>2. CASE ServeDownload(fd) BY <2>2, DownloadCases
    <2>3. CASE PlayRead(fd) \/ PlayHandle(fd) BY <2>3, PlayingCases
    <2>4. QED BY <2>1, <2>2, <2>3
  <1>3. ASSUME NEW g \in Fds, g # fd PROVE VotesOf(g)' BY <1>2, <1>3, VotesElsewhere
  <1>4. QED BY <1>1, <1>3 DEF VotesInv

\* The steps between the loops.
LEMMA PhaseVotes ==
  ASSUME IInv, Members, VotesInv,
         \/ BeginRound \/ EndVoting \/ SendSelected \/ SelectForContent \/ StartDownload
         \/ EndDownload \/ SendStart \/ EndPlaying \/ \E fd \in Fds : SendContent(fd)
  PROVE  VotesInv'
  <1>1. seen \in [Fds -> SUBSET FromServer] BY DEF IInv, TypeOK
  <1>2. UNCHANGED <<inbox, said>>
    BY DEF BeginRound, EndVoting, EndVotingWith, SendSelected, SelectForContent, SendContent,
           StartDownload, EndDownload, SendStart, EndPlaying
  <1>3. CASE BeginRound
    <2>1. joined' = {} /\ joined = {} /\ UNCHANGED <<seen, hasFilm>>
      BY <1>3 DEF BeginRound, Members, members, sending
    <2>2. QED BY <1>2, <2>1 DEF VotesInv, VotesOf, ReadVotes
  <1>4. CASE EndVoting
    <2>1. joined' = joined /\ hasFilm' = {} /\ seen' = seen /\ pc' = "selected"
      BY <1>4 DEF EndVoting, EndVotingWith, members
    <2>2. QED BY <1>2, <2>1 DEF VotesInv, VotesOf
  <1>5. CASE SendSelected \/ SendStart \/ \E fd \in Fds : SendContent(fd)
    <2>1. joined' = joined /\ pc' # "voting"
      BY <1>5 DEF SendSelected, SendStart, SendContent, members
    <2>2. ASSUME NEW g \in Fds
          PROVE  /\ seen[g] \subseteq seen'[g] /\ (MOVIES \in seen'[g] => MOVIES \in seen[g])
                 /\ g \in hasFilm' => g \in hasFilm \/ MOVIE_CONTENT \in seen'[g]
      <3>1. PICK fds \in SUBSET Fds, m \in {MOVIE_SELECTED, MOVIE_CONTENT, START} :
              Deliver(fds, {m})
        <4>1. Writable \in SUBSET Fds
          BY DEF IInv, DescriptorsConsistent, Writable, Open
        <4>2. QED BY <1>5, <4>1 DEF SendSelected, SendStart, SendContent, SendToAll
      <3>2. seen'[g] \in {seen[g], seen[g] \cup {m}} BY <1>1, <3>1 DEF Deliver
      <3>3. MOVIES # m BY DEF MOVIES, MOVIE_SELECTED, MOVIE_CONTENT, START
      <3>4. g \in hasFilm' => g \in hasFilm \/ MOVIE_CONTENT \in seen'[g]
        BY <1>1, <3>1 DEF Deliver, WriteVideo
      <3>5. QED BY <3>2, <3>3, <3>4
    <2>3. QED BY <1>2, <2>1, <2>2, VotesKept DEF VotesInv
  <1>6. CASE SelectForContent \/ StartDownload \/ EndDownload
    <2>1. UNCHANGED <<joined, hasFilm, seen>> /\ pc' # "voting"
      BY <1>6 DEF SelectForContent, StartDownload, EndDownload, members, sending
    <2>2. QED BY <1>2, <2>1 DEF VotesInv, VotesOf
  <1>7. CASE EndPlaying
    <2>1. /\ joined' = {} /\ UNCHANGED <<hasFilm, seen>> /\ pc' = "round"
          /\ joined \subseteq hasFilm
      BY <1>7 DEF EndPlaying, sending, Members, JoinedHaveFilm
    <2>2. QED BY <1>2, <2>1 DEF VotesInv, VotesOf
  <1>8. QED BY <1>3, <1>4, <1>5, <1>6, <1>7

\* A message is queued behind what is there, and a vote in front of nothing.
LEMMA SendVotes ==
  ASSUME IInv, Streams, VotesInv, NEW fd \in Fds, NEW type \in Script, NEW v \in Videos,
         Send(fd, type, v)
  PROVE  VotesInv'
  <1> DEFINE b == Bytes(peer[fd], type, v)
             q == inbox[fd]
  <1>1. /\ inbox \in [Fds -> Seq(Int)] /\ said \in [Fds -> SUBSET Script]
        /\ peer \in [Fds -> Clients \cup {NoClient}] /\ q \in Seq(Int)
    BY DEF IInv, TypeOK
  <1>2. /\ UNCHANGED <<pc, joined, seen, hasFilm, voted>>
        /\ inbox' = [inbox EXCEPT ![fd] = q \o b]
        /\ said' = [said EXCEPT ![fd] = said[fd] \cup {type}]
        /\ fd \in Open /\ MaySend(fd, type) /\ peer[fd] \in Clients
    BY <1>1 DEF Send, Open, serverVars, control, members, ballot, sending
  <1>3. b \in Seq(Int) /\ Len(b) \in 1..2 /\ b[1] = type BY <1>2, BytesShape
  <1>4. inbox'[fd] = q \o b /\ said'[fd] = said[fd] \cup {type} BY <1>1, <1>2
  <1>5. ASSUME NEW g \in Fds, g # fd PROVE VotesOf(g)'
    <2>1. inbox'[g] = inbox[g] /\ said'[g] = said[g] BY <1>1, <1>2, <1>5
    <2>2. QED BY <1>2, <2>1 DEF VotesInv, VotesOf, ReadVotes
  <1>6. VotesOf(fd) /\ WellFormed(q, said[fd]) BY DEF VotesInv, Streams
  <1> HIDE DEF b
  <1>7. /\ q \o b # <<>>
        /\ q = <<>> => Head(q \o b) = type
        /\ q # <<>> => Head(q \o b) = Head(q)
    <2> HIDE DEF q
    <2>1. /\ Len(q) \in Nat /\ q \o b \in Seq(Int) /\ Len(q \o b) = Len(q) + Len(b)
          /\ \A i \in 1..(Len(q) + Len(b)) : (q \o b)[i] = IF i <= Len(q) THEN q[i] ELSE b[i - Len(q)]
      BY <1>1, <1>3, ConcatProperties, LenProperties
    <2>2. 1 \in 1..(Len(q) + Len(b)) /\ Len(q \o b) >= 1 BY <1>3, <2>1
    <2>3. q \o b # <<>> BY <2>1, <2>2, EmptySeq
    <2>4. Head(q \o b) = (q \o b)[1] BY <2>1, <2>3
    <2>5. ASSUME q # <<>> PROVE Head(q \o b) = Head(q)
      <3>1. Len(q) >= 1 /\ Head(q) = q[1] BY <1>1, <2>5, EmptySeq
      <3>2. QED BY <2>1, <2>2, <2>4, <3>1
    <2>6. ASSUME q = <<>> PROVE Head(q \o b) = type
      <3>1. Len(q) = 0 BY <2>6, EmptySeq
      <3>2. (q \o b)[1] = b[1 - 0] BY <2>1, <2>2, <3>1
      <3>3. QED BY <1>3, <2>4, <3>2
    <2>7. QED BY <2>3, <2>5, <2>6
  <1>8. ASSUME pc = "voting", fd \in joined, MOVIE_CONTENT \notin seen[fd]
        PROVE  /\ VOTE \in said'[fd] =>
                    List_contains_fd(voted, fd) \/ Head(q \o b) = VOTE
               /\ VOTE \notin said'[fd] => Head(q \o b) = GOODBYE
    <2>1. ReadVotes(fd) /\ HELLO \in said[fd] BY <1>6, <1>8 DEF VotesOf
    <2>2. type \in {VOTE, GOODBYE}
      <3>1. DOWNLOADED \notin said[fd] BY <1>8 DEF Streams
      <3>2. type # END_MOVIE /\ type # DOWNLOADED /\ type # HELLO
        BY <1>2, <1>8, <2>1, <3>1, SendRule
      <3>3. type \in {HELLO, VOTE, DOWNLOADED, END_MOVIE, GOODBYE} BY <1>2, SendRule
      <3>4. QED BY <3>2, <3>3
    <2>3. VOTE # GOODBYE BY DEF VOTE, GOODBYE
    <2>4. GOODBYE \notin said[fd] /\ type \notin said[fd] BY <1>2, SendRule
    <2>5. q # <<>> => Head(q) # GOODBYE
      <3>1. ASSUME q # <<>>, Head(q) = GOODBYE PROVE FALSE
        <4>1. 1 \in 1..Len(q) /\ q[1] = GOODBYE BY <1>1, <3>1, EmptySeq
        <4>2. GOODBYE \in said[fd] BY <1>6, <4>1 DEF WellFormed
        <4>3. QED BY <2>4, <4>2
      <3>2. QED BY <3>1
    <2>6. CASE VOTE \in said[fd]
      BY <1>4, <1>7, <1>8, <2>1, <2>6 DEF ReadVotes
    <2>7. CASE VOTE \notin said[fd]
      <3>1. q = <<>> BY <1>8, <2>1, <2>5, <2>7 DEF ReadVotes
      <3>2. Head(q \o b) = type BY <1>7, <3>1
      <3>3. CASE type = VOTE BY <1>4, <3>2, <3>3
      <3>4. CASE type = GOODBYE BY <1>4, <2>3, <2>7, <3>2, <3>4
      <3>5. QED BY <2>2, <3>3, <3>4
    <2>8. QED BY <2>6, <2>7
  <1>9. ReadVotes(fd)' \/ pc' # "voting"
    BY <1>2, <1>4, <1>7, <1>8 DEF ReadVotes
  <1>10. VotesOf(fd)' BY <1>2, <1>4, <1>6, <1>9 DEF VotesOf
  <1>11. QED BY <1>5, <1>10 DEF VotesInv

\* Every step loses no vote that is read.
LEMMA VotesNext ==
  ASSUME SessionInv, VotesInv, [Next]_vars
  PROVE  VotesInv'
  <1>1. IInv /\ Streams /\ Members BY DEF SessionInv
  <1> USE DEF serverVars, control, members, ballot, sending, sockets
  <1>2. ASSUME UNCHANGED <<pc, joined, inbox, said, seen, hasFilm, voted>> PROVE VotesInv'
    BY <1>2 DEF VotesInv, VotesOf, ReadVotes
  <1>3. CASE Accept \/ Select \/ StayInLoop BY <1>2, <1>3 DEF Accept, Select, StayInLoop
  <1>4. ASSUME NEW c \in Clients, Connect(c) PROVE VotesInv' BY <1>2, <1>4 DEF Connect
  <1>5. ASSUME NEW fd \in Fds, Disconnect(fd) \/ TakeVideo(fd) \/ Drain(fd) PROVE VotesInv'
    BY <1>2, <1>5 DEF Disconnect, TakeVideo, Drain
  <1>6. CASE Tick BY <1>2, <1>6 DEF Tick
  <1>7. CASE UNCHANGED vars BY <1>2, <1>7 DEF vars
  <1>8. CASE Environment BY <1>1, <1>4, <1>5, <1>6, <1>8, SendVotes DEF Environment
  <1>9. CASE \/ BeginRound \/ EndVoting \/ SendSelected \/ SelectForContent \/ StartDownload
             \/ EndDownload \/ SendStart \/ EndPlaying \/ \E fd \in Fds : SendContent(fd)
    BY <1>1, <1>9, PhaseVotes
  <1>10. CASE \E fd \in Fds :
                ServeVoting(fd) \/ ServeDownload(fd) \/ PlayRead(fd) \/ PlayHandle(fd)
    BY <1>1, <1>10, ServeVotes
  <1>11. QED BY <1>3, <1>7, <1>8, <1>9, <1>10 DEF Next, Server

\* While voting, the queue of a descriptor is emptied by its service only.
LEMMA QueueEmptied ==
  ASSUME IInv, Streams, [Next]_vars, pc = "voting",
         NEW fd \in Fds, inbox[fd] # <<>>, inbox'[fd] = <<>>
  PROVE  ServeVoting(fd)
  <1>1. inbox \in [Fds -> Seq(Int)] BY DEF IInv, TypeOK
  <1>2. inbox' # inbox OBVIOUS
  <1>3. ASSUME NEW g \in Fds, ServeVoting(g) PROVE g = fd
    <2>1. \A h \in Fds \ {g} : inbox'[h] = inbox[h]
      <3>1. \/ \E name : Hello(g, name, {MOVIES}, <<>>)
            \/ \E video : Vote(g, video, <<>>)
            \/ Goodbye(g) \/ Ignore(g, <<>>)
        BY <1>3, VotingCases
      <3>2. \/ inbox' = inbox \/ inbox' = [inbox EXCEPT ![g] = <<>>]
        BY <3>1 DEF Hello, Vote, Goodbye, CloseConnection, Ignore
      <3>3. QED BY <1>1, <3>2
    <2>2. QED BY <2>1
  <1>4. ASSUME NEW g \in Fds, NEW type \in Script, NEW v \in Videos, Send(g, type, v)
        PROVE  FALSE
    <2> DEFINE b == Bytes(peer[g], type, v)
    <2>1. inbox' = [inbox EXCEPT ![g] = inbox[g] \o b] /\ peer[g] \in Clients
      BY <1>4 DEF Send, Open, IInv, TypeOK
    <2>2. b \in Seq(Int) /\ Len(b) \in 1..2 BY <2>1, BytesShape
    <2> HIDE DEF b
    <2>3. g = fd /\ inbox[fd] \o b = <<>> BY <1>1, <2>1
    <2>4. Len(inbox[fd] \o b) = Len(inbox[fd]) + Len(b) /\ Len(inbox[fd]) \in Nat
      BY <1>1, <2>2, ConcatProperties, LenProperties
    <2>5. QED BY <2>2, <2>3, <2>4, EmptySeq
  <1>5. /\ ~BeginRound /\ ~EndVoting /\ ~SendSelected /\ ~SelectForContent /\ ~StartDownload
        /\ ~EndDownload /\ ~SendStart /\ ~EndPlaying /\ ~Accept /\ ~Select /\ ~StayInLoop
        /\ \A g \in Fds :
             ~SendContent(g) /\ ~ServeDownload(g) /\ ~PlayRead(g) /\ ~PlayHandle(g)
    BY <1>2 DEF BeginRound, EndVoting, EndVotingWith, SendSelected, SelectForContent, SendContent,
           StartDownload, EndDownload, SendStart, EndPlaying, Accept, Select, StayInLoop,
           ServeDownload, PlayRead, PlayHandle, Serving
  <1>6. /\ \A c \in Clients : ~Connect(c)
        /\ \A g \in Fds : ~Disconnect(g) /\ ~TakeVideo(g) /\ ~Drain(g)
        /\ ~Tick /\ ~UNCHANGED vars
    BY <1>2 DEF Connect, Disconnect, TakeVideo, Drain, Tick, vars
  <1>7. QED BY <1>3, <1>4, <1>5, <1>6 DEF Next, Server, Environment

\* The step that reads a VOTE of a first round counts it.
LEMMA VoteReadStep ==
  ASSUME SessionInv, VotesInv, [Next]_vars, NEW fd \in Fds, NEW i \in 1..Len(inbox[fd]),
         pc = "voting", MOVIE_CONTENT \notin seen[fd],
         inbox[fd][i] = VOTE, inbox'[fd] = <<>>, ~List_contains_fd(voted, fd)
  PROVE  tally' = [tally EXCEPT ![inbox[fd][i + 1]] = @ + 1]
  <1> DEFINE q == inbox[fd]
  <1>1. IInv /\ Streams /\ Members BY DEF SessionInv
  <1>2. q \in Seq(Int) /\ Len(q) \in Nat BY <1>1 DEF IInv, TypeOK
  <1>3. q # <<>> BY <1>2, EmptySeq
  <1>4. ServeVoting(fd) BY <1>1, <1>3, QueueEmptied
  <1>5. VOTE \in said[fd] BY <1>1 DEF Streams, WellFormed
  <1>6. fd \in joined BY <1>1, <1>5 DEF Streams, VotesInv, VotesOf
  <1>7. Head(q) = VOTE BY <1>5, <1>6 DEF VotesInv, VotesOf, ReadVotes
  <1>8. 1 \in 1..Len(q) /\ q[1] = VOTE BY <1>2, <1>3, <1>7, EmptySeq
  <1>9. i = 1 /\ 1 < Len(q) BY <1>1, <1>8 DEF Streams, WellFormed
  <1>10. Vote(fd, q[2], <<>>)
    <2>1. HELLO # VOTE /\ VOTE # GOODBYE BY DEF HELLO, VOTE, GOODBYE
    <2>2. MayVote(fd) BY DEF MayVote
    <2>3. QED BY <1>1, <1>3, <1>4, <1>7, <1>9, <2>1, <2>2, VotingCases
  <1>11. QED BY <1>9, <1>10 DEF Vote

-----------------------------------------------------------------------------
(* The theorems *)

VoteInv == SessionInv /\ BallotInv /\ VotesInv

\* The invariant of the vote holds in every reachable state.
THEOREM VoteInvariance == Spec => []VoteInv
  <1>1. Init => SessionInv BY InitInv, InitStreams, InitMembers DEF SessionInv
  <1>2. Init => BallotInv
    <2>1. SUFFICES ASSUME Init PROVE BallotInv OBVIOUS
    <2>2. voted = <<>> /\ tally = NoVotes BY <2>1 DEF Init, List_new, NoVotes
    <2>3. Len(voted) = 0 /\ 1..0 = {} BY <2>2, EmptySeq
    <2>4. 1..Len(voted) = 1..0 BY <2>3
    <2>5. \E choice \in [1..Len(voted) -> Videos] : \A v \in Videos :
            tally[v] = Cardinality({i \in 1..Len(voted) : choice[i] = v})
      BY <2>2, <2>4, NoBallotsCount, Zenon
    <2>6. BallotsMatchVoted BY <2>3, <2>4, <2>5 DEF BallotsMatchVoted
    <2>7. QED BY <2>2, <2>6 DEF BallotInv
  <1>3. Init => VotesInv BY DEF Init, VotesInv, VotesOf
  <1>4. VoteInv /\ [Next]_vars => VoteInv' BY SessionNext, BallotNext, VotesNext DEF VoteInv
  <1>5. Init => VoteInv BY <1>1, <1>2, <1>3 DEF VoteInv
  <1>6. QED BY <1>4, <1>5, PTL DEF Spec

\* Every ballot is the vote of one descriptor for one of the videos.
THEOREM BallotsStayMatched == Spec => []BallotsMatchVoted
  <1>1. VoteInv => BallotsMatchVoted BY DEF VoteInv, BallotInv
  <1>2. QED BY <1>1, VoteInvariance, PTL

\* A vote that is read in the first round of its connection adds a ballot to
\* the video it names, with whatever it shares the read; the one exception is
\* that its descriptor voted in this round already.
THEOREM VotesReadStayCounted == Spec => VotesReadAreCounted
  <1>1. VoteInv /\ [Next]_vars =>
          [\A fd \in Fds : \A i \in 1..Len(inbox[fd]) :
             /\ pc = "voting" /\ MOVIE_CONTENT \notin seen[fd]
             /\ inbox[fd][i] = VOTE /\ inbox'[fd] = <<>>
             /\ ~List_contains_fd(voted, fd)
             => tally' = [tally EXCEPT ![inbox[fd][i + 1]] = @ + 1]]_vars
    BY VoteReadStep DEF VoteInv
  <1>2. QED BY <1>1, VoteInvariance, PTL DEF Spec, VotesReadAreCounted

\* A vote that ends before its deadline, while no voter has left, has the
\* ballot of everybody who is registered, however many they are.
THEOREM EarlyEndsAreComplete == Spec => EarlyEndHasAllBallots
  <1>1. VoteInv /\ [Next]_vars =>
          [pc = "voting" /\ pc' = "selected" /\ ~expired /\ FdsOf(voted) \subseteq FdsOf(clientIDs)
             => FdsOf(voted) = FdsOf(clientIDs)]_vars
    BY EarlyEndStep DEF VoteInv
  <1>2. QED BY <1>1, VoteInvariance, PTL DEF Spec, EarlyEndHasAllBallots

\* The rounds of the server follow those of the party: ballots are cast in an
\* open vote only, which is closed once, and the film it settles on stays until
\* it has been loaded and played.  The film is the one that the ballots of the
\* round elect, unless the memory it is computed in held different numbers.
THEOREM RoundsFollowParty ==
  Spec => Party!Init /\ [][Party!Next \/ CloseUneven]_<<Stage, tally, movie>>
  <1>1. Init => Party!Init BY DEF Init, Party!Init, Party!NoBallots
  <1>2. VoteInv /\ [Next]_vars => [Party!Next \/ CloseUneven]_<<Stage, tally, movie>>
    <2>1. SUFFICES ASSUME VoteInv, [Next]_vars
                   PROVE  [Party!Next \/ CloseUneven]_<<Stage, tally, movie>>
      OBVIOUS
    <2>2. CASE EndVoting
      <3>1. Party!Close \/ CloseUneven BY <2>1, <2>2, EndVotingCloses DEF VoteInv
      <3>2. QED BY <3>1 DEF Party!Next
    <2>3. CASE ~EndVoting BY <2>1, <2>3, PartyStep DEF VoteInv
    <2>4. QED BY <2>2, <2>3
  <1>3. QED BY <1>1, <1>2, VoteInvariance, PTL DEF Spec

=============================================================================
