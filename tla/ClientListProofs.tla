-------------------------- MODULE ClientListProofs --------------------------
(***************************************************************************)
(* What the operations of ClientList do to the identifiers in a list, for  *)
(* lists of any length.                                                    *)
(***************************************************************************)
EXTENDS ClientList, SequenceTheorems, TLAPS

Ids(list) == {list[i].id : i \in 1..Len(list)}

\* No identifier has two entries.
NoTwice(list) == \A i, j \in 1..Len(list) : list[i].id = list[j].id => i = j

-----------------------------------------------------------------------------
\* What RemoveAt leaves of a sequence: the others, one place further up.
LEMMA RemoveAtProperties ==
  ASSUME NEW E, NEW s \in Seq(E), NEW k \in 1..Len(s)
  PROVE  /\ RemoveAt(s, k) \in Seq(E)
         /\ Len(RemoveAt(s, k)) = Len(s) - 1
         /\ \A j \in 1..(Len(s) - 1) : RemoveAt(s, k)[j] = IF j < k THEN s[j] ELSE s[j + 1]
  <1> DEFINE front == SubSeq(s, 1, k - 1)
             back == SubSeq(s, k + 1, Len(s))
             rest == RemoveAt(s, k)
  <1>1. Len(s) \in Nat /\ k \in Nat /\ 1 <= k /\ k <= Len(s) BY LenProperties
  <1>2. /\ \A i \in 1..(k - 1) : s[i] \in E
        /\ \A i \in (k + 1)..Len(s) : s[i] \in E
    BY <1>1, ElementOfSeq
  <1>3. /\ front \in Seq(E) /\ Len(front) = k - 1
        /\ \A i \in 1..(k - 1) : front[i] = s[i]
    BY <1>1, <1>2, SubSeqProperties
  <1>4. /\ back \in Seq(E) /\ Len(back) = Len(s) - k
        /\ \A i \in 1..(Len(s) - k) : back[i] = s[k + i]
    BY <1>1, <1>2, SubSeqProperties
  <1> HIDE DEF front, back
  <1>5. RemoveAt(s, k) = front \o back BY DEF RemoveAt, front, back
  <1>6. /\ rest \in Seq(E) /\ Len(rest) = Len(front) + Len(back)
        /\ \A i \in 1..(Len(front) + Len(back)) :
             rest[i] = IF i <= Len(front) THEN front[i] ELSE back[i - Len(front)]
    <2>1. front \in Seq(E) /\ back \in Seq(E) BY <1>3, <1>4
    <2>2. rest = front \o back BY <1>5
    <2> HIDE DEF rest
    <2>3. QED BY <2>1, <2>2, ConcatProperties
  <1> HIDE DEF rest
  <1>7. /\ rest \in Seq(E) /\ Len(rest) = Len(s) - 1
        /\ \A j \in 1..(Len(s) - 1) :
             rest[j] = IF j <= k - 1 THEN front[j] ELSE back[j - (k - 1)]
    BY <1>1, <1>3, <1>4, <1>6
  <1>8. ASSUME NEW j \in 1..(Len(s) - 1) PROVE rest[j] = IF j < k THEN s[j] ELSE s[j + 1]
    <2>1. CASE j < k
      <3>1. j \in 1..(k - 1) BY <1>1, <2>1
      <3>2. QED BY <1>1, <1>3, <1>7, <2>1, <3>1
    <2>2. CASE ~(j < k)
      <3>1. j - (k - 1) \in 1..(Len(s) - k) /\ k + (j - (k - 1)) = j + 1 BY <1>1, <2>2
      <3>2. QED BY <1>1, <1>4, <1>7, <2>2, <3>1
    <2>3. QED BY <2>1, <2>2
  <1>9. QED BY <1>7, <1>8 DEF rest

\* List_add adds the identifier, and keeps them distinct if it is a new one.
LEMMA AddIds ==
  ASSUME NEW E, NEW list \in Seq(E), NEW clientID, NEW fd, Entry_new(clientID, fd) \in E
  PROVE  /\ List_add(list, clientID, fd) \in Seq(E)
         /\ Ids(List_add(list, clientID, fd)) = Ids(list) \cup {clientID}
         /\ NoTwice(list) /\ clientID \notin Ids(list) => NoTwice(List_add(list, clientID, fd))
  <1> DEFINE entry == Entry_new(clientID, fd)
             longer == List_add(list, clientID, fd)
  <1>1. entry.id = clientID BY DEF Entry_new
  <1>2. Len(list) \in Nat BY LenProperties
  <1> HIDE DEF entry
  <1>3. /\ longer \in Seq(E) /\ Len(longer) = Len(list) + 1
        /\ \A i \in 1..Len(list) : longer[i] = list[i]
        /\ longer[Len(list) + 1] = entry
    BY AppendProperties DEF List_add, entry
  <1> HIDE DEF longer
  <1>4. /\ \A i \in 1..Len(list) : i \in 1..Len(longer)
        /\ Len(list) + 1 \in 1..Len(longer)
        /\ \A i \in 1..Len(longer) : i \in 1..Len(list) \/ i = Len(list) + 1
    BY <1>2, <1>3
  <1>5. Ids(longer) = Ids(list) \cup {clientID} BY <1>1, <1>3, <1>4 DEF Ids
  <1>6. NoTwice(list) /\ clientID \notin Ids(list) => NoTwice(longer)
    BY <1>1, <1>3, <1>4 DEF Ids, NoTwice
  <1>7. QED BY <1>3, <1>5, <1>6 DEF longer

\* List_remove takes out nothing else and keeps identifiers distinct; of
\* distinct ones it takes out the one it is given.
LEMMA RemoveIds ==
  ASSUME NEW E, NEW list \in Seq(E), NEW clientID, NoTwice(list)
  PROVE  /\ List_remove(list, clientID) \in Seq(E)
         /\ Ids(List_remove(list, clientID)) = Ids(list) \ {clientID}
         /\ NoTwice(List_remove(list, clientID))
  <1> DEFINE found == FirstOfID(list, clientID)
             shorter == List_remove(list, clientID)
             Old(j, k) == IF j < k THEN j ELSE j + 1
  <1>1. CASE clientID \notin Ids(list)
    <2>1. found = {} BY <1>1 DEF FirstOfID, Ids
    <2>2. shorter = list BY <2>1 DEF List_remove
    <2>3. QED BY <1>1, <2>2
  <1>2. CASE clientID \in Ids(list)
    <2>1. PICK k \in 1..Len(list) : list[k].id = clientID BY <1>2 DEF Ids
    <2>2. Len(list) \in Nat BY LenProperties
    <2>3. \A i \in 1..Len(list) : list[i].id = clientID => i = k BY <2>1 DEF NoTwice
    <2>4. found = {k}
      <3>1. \A j \in 1..(k - 1) : j \in 1..Len(list) /\ j # k BY <2>2
      <3>2. k \in found BY <2>1, <2>3, <3>1 DEF FirstOfID
      <3>3. \A i \in found : i = k BY <2>3 DEF FirstOfID
      <3>4. QED BY <3>2, <3>3
    <2>5. shorter = RemoveAt(list, k)
      <3>1. (CHOOSE i \in {k} : TRUE) = k OBVIOUS
      <3>2. QED BY <2>4, <3>1 DEF List_remove
    <2> HIDE DEF shorter
    <2>6. /\ shorter \in Seq(E) /\ Len(shorter) = Len(list) - 1
          /\ \A j \in 1..(Len(list) - 1) : shorter[j] = IF j < k THEN list[j] ELSE list[j + 1]
      BY <2>5, RemoveAtProperties
    <2>7. \A j \in 1..Len(shorter) :
            Old(j, k) \in 1..Len(list) /\ Old(j, k) # k /\ shorter[j] = list[Old(j, k)]
      BY <2>2, <2>6
    <2>8. \A i, j \in 1..Len(shorter) : Old(i, k) = Old(j, k) => i = j BY <2>2, <2>6
    <2>9. ASSUME NEW i \in 1..Len(list), i # k
          PROVE  \E j \in 1..Len(shorter) : Old(j, k) = i
      <3>1. CASE i < k
        <4>1. i \in 1..Len(shorter) /\ Old(i, k) = i BY <2>2, <2>6, <3>1
        <4>2. QED BY <4>1
      <3>2. CASE i > k
        <4>1. i - 1 \in 1..Len(shorter) /\ Old(i - 1, k) = i BY <2>2, <2>6, <3>2
        <4>2. QED BY <4>1
      <3>3. QED BY <2>2, <2>9, <3>1, <3>2
    <2> HIDE DEF Old
    <2>10. NoTwice(shorter) BY <2>7, <2>8 DEF NoTwice
    <2>11. Ids(shorter) = Ids(list) \ {clientID}
      <3>1. ASSUME NEW x \in Ids(shorter) PROVE x \in Ids(list) \ {clientID}
        <4>1. PICK j \in 1..Len(shorter) : x = shorter[j].id BY <3>1 DEF Ids
        <4>2. QED BY <2>3, <2>7, <4>1 DEF Ids
      <3>2. ASSUME NEW x \in Ids(list), x # clientID PROVE x \in Ids(shorter)
        <4>1. PICK i \in 1..Len(list) : x = list[i].id BY <3>2 DEF Ids
        <4>2. i # k BY <2>1, <3>2, <4>1
        <4>3. PICK j \in 1..Len(shorter) : Old(j, k) = i BY <2>9, <4>2
        <4>4. QED BY <2>7, <4>1, <4>3 DEF Ids
      <3>3. QED BY <3>1, <3>2
    <2>12. QED BY <2>6, <2>10, <2>11 DEF shorter
  <1>3. QED BY <1>1, <1>2

-----------------------------------------------------------------------------
(* Descriptors *)

\* An entry that is added is the only new one.
LEMMA AddFDs ==
  ASSUME NEW E, NEW list \in Seq(E), NEW clientID, NEW fd, Entry_new(clientID, fd) \in E
  PROVE  /\ Len(List_add(list, clientID, fd)) = Len(list) + 1
         /\ \A g : List_contains_fd(List_add(list, clientID, fd), g)
                     <=> g = fd \/ List_contains_fd(list, g)
  <1> DEFINE longer == List_add(list, clientID, fd)
  <1>1. Len(list) \in Nat BY LenProperties
  <1>2. /\ Len(longer) = Len(list) + 1
        /\ \A i \in 1..Len(list) : longer[i] = list[i]
        /\ longer[Len(list) + 1].fd = fd
    BY AppendProperties DEF List_add, Entry_new
  <1>3. \A i \in 1..Len(longer) : i \in 1..Len(list) \/ i = Len(list) + 1 BY <1>1, <1>2
  <1>4. Len(list) + 1 \in 1..Len(longer) /\ \A i \in 1..Len(list) : i \in 1..Len(longer)
    BY <1>1, <1>2
  <1> HIDE DEF longer
  <1>5. ASSUME NEW g
        PROVE  List_contains_fd(longer, g) <=> g = fd \/ List_contains_fd(list, g)
    BY <1>2, <1>3, <1>4 DEF List_contains_fd
  <1>6. QED BY <1>2, <1>5 DEF longer

\* A removal takes one entry at most, and adds no descriptor.
LEMMA RemoveFDs ==
  ASSUME NEW E, NEW list \in Seq(E), NEW clientID
  PROVE  /\ Len(List_remove(list, clientID)) >= Len(list) - 1
         /\ \A g : List_contains_fd(List_remove(list, clientID), g) => List_contains_fd(list, g)
  <1> DEFINE found == FirstOfID(list, clientID)
             shorter == List_remove(list, clientID)
  <1>1. Len(list) \in Nat BY LenProperties
  <1>2. CASE found = {} BY <1>1, <1>2 DEF List_remove
  <1>3. CASE found # {}
    <2>1. PICK k \in found : shorter = RemoveAt(list, k) BY <1>3 DEF List_remove
    <2>2. k \in 1..Len(list) BY <2>1 DEF FirstOfID
    <2>3. /\ Len(shorter) = Len(list) - 1
          /\ \A j \in 1..(Len(list) - 1) : shorter[j] = IF j < k THEN list[j] ELSE list[j + 1]
      BY <2>1, <2>2, RemoveAtProperties
    <2>4. \A j \in 1..(Len(list) - 1) : j \in 1..Len(list) /\ j + 1 \in 1..Len(list) BY <1>1
    <2> HIDE DEF shorter
    <2>5. ASSUME NEW g, List_contains_fd(shorter, g) PROVE List_contains_fd(list, g)
      BY <2>3, <2>4, <2>5 DEF List_contains_fd
    <2>6. QED BY <1>1, <2>3, <2>5 DEF shorter
  <1>4. QED BY <1>2, <1>3

=============================================================================
