-------------------------- MODULE ListArrayProofs --------------------------
(***************************************************************************)
(* The memory of the list of clients stays sound for any identifiers,      *)
(* descriptors and addresses, and it implements the sequence of ClientList. *)
(***************************************************************************)
EXTENDS ListArray, WellFoundedInduction, SequenceTheorems, TLAPS

MemoryInv == TypeOK /\ PointersAreLive

-----------------------------------------------------------------------------
(* The search *)

\* The loops stop at the least match (45-46, 65-67).
LEMMA FirstOfLeast ==
  ASSUME NEW matches \in SUBSET Nat, matches # {}
  PROVE  FirstOf(matches) \in matches /\ \A j \in matches : FirstOf(matches) <= j
  <1>1. PICK i \in matches : \A j \in matches : ~(<<j, i>> \in OpToRel(<, Nat))
    BY WFMin, NatLessThanWellFounded, Zenon
  <1>2. ASSUME NEW j \in matches PROVE i <= j
    <2>1. <<j, i>> \in Nat \X Nat /\ i \in Nat /\ j \in Nat OBVIOUS
    <2>2. j < i => <<j, i>> \in OpToRel(<, Nat) BY <2>1 DEF OpToRel
    <2>3. ~(j < i) BY <1>1, <2>2, Zenon
    <2>4. QED BY <2>1, <2>3
  <1>3. \E k \in matches : \A j \in matches : k <= j BY <1>2
  <1>4. QED BY <1>3 DEF FirstOf

\* What the search of List_remove finds is a pointer in use (45-54).
LEMMA FoundInUse ==
  ASSUME TypeOK, NEW clientID, HasID(clientID) # {}
  PROVE  LET index == FirstOf(HasID(clientID))
         IN /\ index \in InUse
            /\ heap[data[index]].id = clientID
            /\ \A j \in 0..(index - 1) : heap[data[j]].id # clientID
  <1> DEFINE index == FirstOf(HasID(clientID))
  <1>1. HasID(clientID) \in SUBSET Nat /\ HasID(clientID) # {}
    BY DEF HasID, InUse, TypeOK
  <1>2. index \in HasID(clientID) /\ \A j \in HasID(clientID) : index <= j BY <1>1, FirstOfLeast
  <1>3. index \in InUse /\ heap[data[index]].id = clientID BY <1>2 DEF HasID
  <1>4. ASSUME NEW j \in 0..(index - 1) PROVE heap[data[j]].id # clientID
    <2>1. j \in InUse /\ ~(index <= j) BY <1>3, <1>4 DEF InUse, TypeOK
    <2>2. QED BY <1>2, <2>1 DEF HasID
  <1>5. QED BY <1>3, <1>4

-----------------------------------------------------------------------------
(* The invariant *)

\* The list starts without a block and without entries (5-12).
LEMMA MemoryInit == Init => MemoryInv
  BY DEF Init, List_new, NoBlock, MemoryInv, TypeOK, PointersAreLive, InUse

\* A new entry gets an address of its own and the last pointer in use, in the
\* old block or in a larger one (List_add, List_expand).
LEMMA AddKeepsMemory ==
  ASSUME MemoryInv, NEW clientID \in IDs, NEW fd \in Fds, List_add(clientID, fd)
  PROVE  MemoryInv'
  <1> DEFINE full == capacity = size
             block == IF full THEN List_expand ELSE data
  <1> USE DEF MemoryInv
  <1>1. PICK a \in Addresses \ DOMAIN heap :
          /\ Entry_new(a, clientID, fd)
          /\ capacity' = IF full THEN Grown ELSE capacity
          /\ data' = [block EXCEPT ![size] = a]
          /\ size' = size + 1
    BY DEF List_add
  <1>2. /\ capacity \in Nat /\ size \in Nat /\ size <= capacity
        /\ data \in [0..(capacity - 1) -> Addresses \cup {Wild}]
    BY DEF TypeOK
  <1>3. capacity' \in Nat /\ size' \in 0..capacity' /\ size \in 0..(capacity' - 1)
    BY <1>1, <1>2 DEF Grown
  <1>4. /\ block \in [0..(capacity' - 1) -> Addresses \cup {Wild}]
        /\ \A i \in InUse : block[i] = data[i]
    BY <1>1, <1>2 DEF List_expand, Grown, InUse
  <1>5. /\ data' \in [0..(capacity' - 1) -> Addresses \cup {Wild}]
        /\ data'[size] = a
        /\ \A i \in InUse : data'[i] = data[i]
    BY <1>1, <1>2, <1>3, <1>4 DEF InUse
  <1>6. /\ DOMAIN heap' = DOMAIN heap \cup {a}
        /\ heap' \in [DOMAIN heap' -> [id : IDs, fd : Fds]]
    BY <1>1 DEF Entry_new, L!Entry_new, TypeOK
  <1>7. TypeOK' BY <1>1, <1>3, <1>5, <1>6 DEF TypeOK
  <1>8. InUse' = InUse \cup {size} BY <1>1, <1>2 DEF InUse
  <1>9. PointersAreLive' BY <1>1, <1>5, <1>6, <1>8 DEF PointersAreLive
  <1>10. QED BY <1>7, <1>9

\* The entry that goes is freed once and its pointer is overwritten, while the
\* others keep theirs, and what was read past the end is no longer in use.
LEMMA RemoveKeepsMemory ==
  ASSUME MemoryInv, NEW clientID \in IDs, List_remove(clientID)
  PROVE  MemoryInv'
  <1> DEFINE index == FirstOf(HasID(clientID))
             Old(i) == IF i < index THEN i ELSE i + 1
  <1> USE DEF MemoryInv
  <1>1. /\ index \in InUse
        /\ heap' = [x \in DOMAIN heap \ {data[index]} |-> heap[x]]
        /\ data' = Shifted(index)
        /\ size' = size - 1 /\ capacity' = capacity
    BY FoundInUse DEF List_remove, Entry_free
  <1> HIDE DEF index
  <1>2. /\ capacity \in Nat /\ size \in Nat /\ size <= capacity /\ index \in 0..(size - 1)
        /\ data \in [0..(capacity - 1) -> Addresses \cup {Wild}]
    BY <1>1 DEF TypeOK, InUse
  <1>3. data' \in [0..(capacity - 1) -> Addresses \cup {Wild}]
    BY <1>1, <1>2 DEF Shifted, Pointer
  <1>4. TypeOK' BY <1>1, <1>2, <1>3 DEF TypeOK
  <1>5. InUse = 0..(size - 1) /\ InUse' = 0..(size - 2) BY <1>1, <1>2 DEF InUse
  <1>6. \A i \in InUse' : /\ Old(i) \in InUse \ {index}
                          /\ data'[i] = data[Old(i)]
    BY <1>1, <1>2, <1>5 DEF Shifted, Pointer, InUse
  <1>7. \A i, j \in InUse' : Old(i) = Old(j) => i = j BY <1>2, <1>5
  <1>8. \A k \in InUse \ {index} : \E i \in InUse' : Old(i) = k
    <2> SUFFICES ASSUME NEW k \in InUse \ {index} PROVE \E i \in InUse' : Old(i) = k OBVIOUS
    <2>1. CASE k < index
      <3>1. k \in InUse' /\ Old(k) = k BY <1>2, <1>5, <2>1
      <3>2. QED BY <3>1
    <2>2. CASE k > index
      <3>1. k - 1 \in InUse' /\ Old(k - 1) = k BY <1>2, <1>5, <2>2
      <3>2. QED BY <3>1
    <2>3. QED BY <1>2, <1>5, <2>1, <2>2
  <1>9. DOMAIN heap' = DOMAIN heap \ {data[index]} BY <1>1
  <1> HIDE DEF Old
  <1>10. PointersAreLive'
    <2>1. ASSUME NEW i \in InUse' PROVE data'[i] \in DOMAIN heap'
      BY <1>1, <1>6, <1>9 DEF PointersAreLive
    <2>2. ASSUME NEW i \in InUse', NEW j \in InUse', data'[i] = data'[j] PROVE i = j
      BY <1>6, <1>7, <2>2 DEF PointersAreLive
    <2>3. ASSUME NEW a \in DOMAIN heap' PROVE \E i \in InUse' : data'[i] = a
      <3>1. PICK k \in InUse : data[k] = a BY <1>9 DEF PointersAreLive
      <3>2. k # index BY <1>9, <3>1
      <3>3. PICK i \in InUse' : Old(i) = k BY <1>8, <3>1, <3>2
      <3>4. data'[i] = a BY <1>6, <3>1, <3>3
      <3>5. QED BY <3>4
    <2>4. QED BY <2>1, <2>2, <2>3 DEF PointersAreLive
  <1>11. QED BY <1>4, <1>10

\* List_free frees every entry and leaves none behind (23-29).
LEMMA RenewKeepsMemory ==
  ASSUME MemoryInv, List_renew
  PROVE  MemoryInv'
  <1>1. DOMAIN heap' = {} /\ heap' \in [DOMAIN heap' -> [id : IDs, fd : Fds]]
    BY DEF List_renew, Entry_free, MemoryInv, PointersAreLive
  <1>2. capacity' = 0 /\ size' = 0 /\ data' = NoBlock BY DEF List_renew
  <1>3. TypeOK' BY <1>1, <1>2 DEF TypeOK, NoBlock
  <1>4. InUse' = {} BY <1>2 DEF InUse
  <1>5. PointersAreLive' BY <1>1, <1>4 DEF PointersAreLive
  <1>6. QED BY <1>3, <1>5 DEF MemoryInv

\* The three operations together, and the steps that change nothing.
LEMMA MemoryNext == MemoryInv /\ [Next]_vars => MemoryInv'
  <1> SUFFICES ASSUME MemoryInv, [Next]_vars PROVE MemoryInv' OBVIOUS
  <1>1. CASE Next BY <1>1, AddKeepsMemory, RemoveKeepsMemory, RenewKeepsMemory DEF Next
  <1>2. CASE UNCHANGED vars
    BY <1>2 DEF vars, MemoryInv, TypeOK, PointersAreLive, InUse
  <1>3. QED BY <1>1, <1>2

-----------------------------------------------------------------------------
(* The theorems *)

\* The invariant that the rest follows from: the types, and that pointers in use
\* and live entries are in one-to-one correspondence (a2/list.c:5-83).
THEOREM MemoryStaysSound == Spec => []MemoryInv
  <1>1. QED BY MemoryInit, MemoryNext, PTL DEF Spec

\* The block and its pointers keep their types, and the size its bound.
THEOREM ArrayTypes == Spec => []TypeOK
  <1>1. MemoryInv => TypeOK BY DEF MemoryInv
  <1>2. QED BY <1>1, MemoryStaysSound, PTL

\* No pointer in use dangles, no entry has two and none is leaked, for any
\* number of entries and expansions (List_add, List_remove, List_free).
THEOREM PointersStayLive == Spec => []PointersAreLive
  <1>1. MemoryInv => PointersAreLive BY DEF MemoryInv
  <1>2. QED BY <1>1, MemoryStaysSound, PTL

-----------------------------------------------------------------------------
(* The array implements the sequence *)

Entry == [id : IDs, fd : Fds]

\* The pointers in use lead to a sequence of entries.
LEMMA EntriesType ==
  ASSUME MemoryInv
  PROVE  /\ Entries \in Seq(Entry) /\ Len(Entries) = size /\ size \in Nat
         /\ \A i \in 1..size : i - 1 \in InUse /\ Entries[i] = heap[data[i - 1]]
  <1>1. size \in Nat BY DEF MemoryInv, TypeOK
  <1>2. \A i \in 1..size : i - 1 \in InUse BY <1>1 DEF InUse
  <1>3. \A i \in 1..size : heap[data[i - 1]] \in Entry
    BY <1>2 DEF MemoryInv, TypeOK, PointersAreLive, Entry
  <1>4. Entries \in [1..size -> Entry] BY <1>3 DEF Entries
  <1>5. Entries \in Seq(Entry) /\ Len(Entries) = size BY <1>1, <1>4, IsASeq, LenProperties
  <1>6. QED BY <1>1, <1>2, <1>5 DEF Entries

\* The same in the next state.
LEMMA EntriesNext ==
  ASSUME MemoryInv'
  PROVE  Entries' \in Seq(Entry) /\ Len(Entries') = size'
  <1>1. size' \in Nat BY DEF MemoryInv, TypeOK
  <1>2. \A i \in 1..size' : i - 1 \in InUse'
    <2>1. \A n \in Nat : \A i \in 1..n : i - 1 \in 0..(n - 1) OBVIOUS
    <2>2. InUse' = 0..(size' - 1) BY DEF InUse
    <2>3. QED BY <1>1, <2>1, <2>2, Zenon
  <1>3. \A i \in 1..size' : heap'[data'[i - 1]] \in Entry
    BY <1>2 DEF MemoryInv, TypeOK, PointersAreLive, Entry
  <1>4. Entries' \in [1..size' -> Entry] BY <1>3 DEF Entries
  <1>5. QED BY <1>1, <1>4, IsASeq, LenProperties

\* What RemoveAt leaves of a sequence.
LEMMA RemoveAtProperties ==
  ASSUME NEW E, NEW s \in Seq(E), NEW k \in 1..Len(s)
  PROVE  /\ R!RemoveAt(s, k) \in Seq(E)
         /\ Len(R!RemoveAt(s, k)) = Len(s) - 1
         /\ \A j \in 1..(Len(s) - 1) : R!RemoveAt(s, k)[j] = IF j < k THEN s[j] ELSE s[j + 1]
  <1> DEFINE front == SubSeq(s, 1, k - 1)
             back == SubSeq(s, k + 1, Len(s))
  <1>1. Len(s) \in Nat /\ k \in Nat /\ 1 <= k /\ k <= Len(s) BY LenProperties
  <1>2. /\ \A i \in 1..(k - 1) : s[i] \in E
        /\ \A i \in (k + 1)..Len(s) : s[i] \in E
    BY <1>1, ElementOfSeq
  <1>3. /\ front \in Seq(E) /\ Len(front) = k - 1
        /\ \A i \in 1..(k - 1) : front[i] = s[i]
    BY <1>1, <1>2, SubSeqProperties
  <1>4. /\ back \in Seq(E) /\ Len(back) = Len(s) - k
        /\ \A i \in 1..(Len(s) - k) : back[i] = s[k + i]
    BY <1>1, <1>2, SubSeqProperties
  <1> HIDE DEF front, back
  <1>5. R!RemoveAt(s, k) = front \o back BY DEF R!RemoveAt, front, back
  <1> DEFINE rest == R!RemoveAt(s, k)
  <1>6. /\ rest \in Seq(E) /\ Len(rest) = Len(front) + Len(back)
        /\ \A i \in 1..(Len(front) + Len(back)) :
             rest[i] = IF i <= Len(front) THEN front[i] ELSE back[i - Len(front)]
    <2>1. front \in Seq(E) /\ back \in Seq(E) BY <1>3, <1>4
    <2>2. rest = front \o back BY <1>5
    <2> HIDE DEF rest
    <2>3. QED BY <2>1, <2>2, ConcatProperties
  <1> HIDE DEF rest
  <1>7. /\ rest \in Seq(E) /\ Len(rest) = Len(s) - 1
        /\ \A j \in 1..(Len(s) - 1) :
             rest[j] = IF j <= k - 1 THEN front[j] ELSE back[j - (k - 1)]
    BY <1>1, <1>3, <1>4, <1>6
  <1>8. ASSUME NEW j \in 1..(Len(s) - 1) PROVE rest[j] = IF j < k THEN s[j] ELSE s[j + 1]
    <2>1. CASE j < k
      <3>1. j \in 1..(k - 1) BY <1>1, <2>1
      <3>2. QED BY <1>1, <1>3, <1>7, <2>1, <3>1
    <2>2. CASE ~(j < k)
      <3>1. j - (k - 1) \in 1..(Len(s) - k) /\ k + (j - (k - 1)) = j + 1 BY <1>1, <2>2
      <3>2. QED BY <1>1, <1>4, <1>7, <2>2, <3>1
    <2>3. QED BY <2>1, <2>2
  <1>9. QED BY <1>7, <1>8 DEF rest

\* The first match of a loop that counts from 0, in a sequence.
FirstIn(n, matches) ==
  {i \in 1..n : i - 1 \in matches /\ \A j \in 1..(i - 1) : j - 1 \notin matches}

\* That is one place behind the first match of the loop.
LEMMA FirstInIsFirstOf ==
  ASSUME NEW n \in Nat, NEW matches \in SUBSET (0..(n - 1)), matches # {}
  PROVE  FirstIn(n, matches) = {FirstOf(matches) + 1}
  <1> DEFINE index == FirstOf(matches)
  <1>1. matches \in SUBSET Nat OBVIOUS
  <1>2. index \in matches /\ \A j \in matches : index <= j BY <1>1, FirstOfLeast
  <1> HIDE DEF index
  <1>3. index \in 0..(n - 1) BY <1>2
  <1>4. index + 1 \in FirstIn(n, matches)
    <2>1. index + 1 \in 1..n /\ (index + 1) - 1 = index BY <1>3
    <2>2. \A j \in 1..((index + 1) - 1) : j - 1 \notin matches BY <1>2, <1>3
    <2>3. QED BY <1>2, <2>1, <2>2 DEF FirstIn
  <1>5. ASSUME NEW i \in FirstIn(n, matches) PROVE i = index + 1
    <2>1. i \in 1..n /\ i - 1 \in matches /\ \A j \in 1..(i - 1) : j - 1 \notin matches
      BY DEF FirstIn
    <2>2. index <= i - 1 BY <1>2, <2>1
    <2>3. index + 1 \in 1..(i - 1) \/ i = index + 1 BY <1>3, <2>1, <2>2
    <2>4. (index + 1) - 1 = index BY <1>3
    <2>5. QED BY <1>2, <2>1, <2>3, <2>4
  <1>6. QED BY <1>4, <1>5 DEF index

\* The matches of the search are those in the sequence, one place further on.
LEMMA SamePositions ==
  ASSUME MemoryInv, NEW clientID
  PROVE  /\ HasID(clientID) \in SUBSET (0..(size - 1))
         /\ R!FirstOfID(Entries, clientID) = FirstIn(size, HasID(clientID))
  <1>1. /\ Len(Entries) = size /\ size \in Nat
        /\ \A i \in 1..size : i - 1 \in InUse /\ Entries[i] = heap[data[i - 1]]
    BY EntriesType
  <1>2. \A i \in 1..size : \A j \in 1..(i - 1) : j \in 1..size BY <1>1
  <1>3. \A i \in 1..size : (Entries[i].id = clientID) <=> (i - 1 \in HasID(clientID))
    BY <1>1 DEF HasID
  <1>4. R!FirstOfID(Entries, clientID) = FirstIn(size, HasID(clientID))
    BY <1>1, <1>2, <1>3 DEF R!FirstOfID, FirstIn
  <1>5. QED BY <1>4 DEF HasID, InUse

\* List_add appends an entry (32-37).
LEMMA AddAppends ==
  ASSUME MemoryInv, NEW clientID \in IDs, NEW fd \in Fds, List_add(clientID, fd)
  PROVE  R!Register(clientID, fd)
  <1> DEFINE entry == [id |-> clientID, fd |-> fd]
  <1>1. MemoryInv' BY AddKeepsMemory
  <1>2. PICK a \in Addresses \ DOMAIN heap :
          /\ heap' = [x \in DOMAIN heap \cup {a} |-> IF x = a THEN entry ELSE heap[x]]
          /\ data' = [IF capacity = size THEN List_expand ELSE data EXCEPT ![size] = a]
          /\ size' = size + 1
    BY DEF List_add, Entry_new, L!Entry_new
  <1>3. /\ capacity \in Nat /\ size \in Nat /\ size <= capacity
        /\ DOMAIN data = 0..(capacity - 1)
    BY DEF MemoryInv, TypeOK
  <1>4. data'[size] = a /\ \A i \in InUse : data'[i] = data[i]
    BY <1>2, <1>3 DEF List_expand, Grown, InUse
  <1>5. \A i \in InUse : heap'[data'[i]] = heap[data[i]]
    BY <1>2, <1>4 DEF MemoryInv, PointersAreLive
  <1>6. heap'[data'[size]] = entry BY <1>2, <1>4
  <1>7. /\ Entries \in Seq(Entry) /\ Len(Entries) = size
        /\ \A i \in 1..size : i - 1 \in InUse /\ Entries[i] = heap[data[i - 1]]
    BY EntriesType
  <1>8. entry \in Entry BY DEF Entry
  <1>9. Entries' = [i \in 1..(size + 1) |-> heap'[data'[i - 1]]] BY <1>2 DEF Entries
  <1>10. Entries' \in Seq(Entry) /\ Len(Entries') = size + 1
    BY <1>1, <1>2, EntriesNext
  <1> HIDE DEF entry
  <1>11. /\ Append(Entries, entry) \in Seq(Entry) /\ Len(Append(Entries, entry)) = size + 1
         /\ \A i \in 1..size : Append(Entries, entry)[i] = Entries[i]
         /\ Append(Entries, entry)[size + 1] = entry
    BY <1>7, <1>8, AppendProperties
  <1>12. \A i \in 1..(size + 1) : Entries'[i] = Append(Entries, entry)[i]
    <2> SUFFICES ASSUME NEW i \in 1..(size + 1) PROVE Entries'[i] = Append(Entries, entry)[i]
      OBVIOUS
    <2>1. CASE i = size + 1
      BY <1>3, <1>6, <1>9, <1>11, <2>1
    <2>2. CASE i # size + 1
      <3>1. i \in 1..size BY <1>3, <2>2
      <3>2. QED BY <1>5, <1>7, <1>9, <1>11, <3>1
    <2>3. QED BY <2>1, <2>2
  <1>13. Entries' = Append(Entries, entry) BY <1>10, <1>11, <1>12, SeqEqual
  <1>14. QED BY <1>13 DEF R!Register, R!List_add, R!Entry_new, entry

\* List_remove takes out the first entry with the identifier (40-61).
LEMMA RemoveRemoves ==
  ASSUME MemoryInv, NEW clientID \in IDs, List_remove(clientID)
  PROVE  R!Unregister(clientID)
  <1> DEFINE index == FirstOf(HasID(clientID))
             removed == R!RemoveAt(Entries, index + 1)
  <1>1. MemoryInv' BY RemoveKeepsMemory
  <1>2. /\ index \in InUse /\ HasID(clientID) # {}
        /\ heap' = [x \in DOMAIN heap \ {data[index]} |-> heap[x]]
        /\ data' = Shifted(index)
        /\ size' = size - 1
    BY FoundInUse DEF List_remove, Entry_free, MemoryInv
  <1>3. R!FirstOfID(Entries, clientID) = {index + 1}
    BY <1>2, SamePositions, FirstInIsFirstOf, EntriesType
  <1>4. R!List_remove(Entries, clientID) = removed
    <2>1. (CHOOSE i \in {index + 1} : TRUE) = index + 1 OBVIOUS
    <2>2. QED BY <1>3, <2>1 DEF R!List_remove
  <1> HIDE DEF index
  <1>5. /\ capacity \in Nat /\ size \in Nat /\ size <= capacity /\ index \in 0..(size - 1)
        /\ DOMAIN data = 0..(capacity - 1)
    BY <1>2 DEF MemoryInv, TypeOK, InUse
  <1>6. /\ Entries \in Seq(Entry) /\ Len(Entries) = size
        /\ \A i \in 1..size : i - 1 \in InUse /\ Entries[i] = heap[data[i - 1]]
    BY EntriesType
  <1>7. /\ removed \in Seq(Entry) /\ Len(removed) = size - 1
        /\ \A j \in 1..(size - 1) :
             removed[j] = IF j < index + 1 THEN Entries[j] ELSE Entries[j + 1]
    <2>1. index + 1 \in 1..Len(Entries) BY <1>5, <1>6
    <2>2. QED BY <1>6, <2>1, RemoveAtProperties
  <1> HIDE DEF removed
  <1>8. Entries' = [i \in 1..(size - 1) |-> heap'[data'[i - 1]]] BY <1>2 DEF Entries
  <1>9. Entries' \in Seq(Entry) /\ Len(Entries') = size - 1 BY <1>1, <1>2, EntriesNext
  <1>10. ASSUME NEW j \in 1..(size - 1) PROVE Entries'[j] = removed[j]
    <2> DEFINE old == IF j < index + 1 THEN j - 1 ELSE j
    <2>1. data'[j - 1] = data[old]
      BY <1>2, <1>5 DEF Shifted, Pointer
    <2>2. old \in InUse /\ old # index BY <1>5 DEF InUse
    <2>3. data[old] \in DOMAIN heap \ {data[index]} BY <1>2, <2>2 DEF MemoryInv, PointersAreLive
    <2>4. Entries'[j] = heap[data[old]] BY <1>2, <1>8, <2>1, <2>3
    <2>5. removed[j] = Entries[old + 1] BY <1>5, <1>7
    <2>6. old + 1 \in 1..size /\ (old + 1) - 1 = old BY <1>5
    <2>7. QED BY <1>6, <2>4, <2>5, <2>6
  <1>11. Entries' = removed BY <1>7, <1>9, <1>10, SeqEqual
  <1>12. QED BY <1>4, <1>11 DEF R!Unregister

\* Every step of the array is one of the sequence, or does not show.
LEMMA StepsOfRegistry == MemoryInv /\ [Next]_vars => [R!Next]_Entries
  <1> SUFFICES ASSUME MemoryInv, [Next]_vars PROVE R!Next \/ Entries' = Entries OBVIOUS
  <1>1. CASE \E clientID \in IDs, fd \in Fds : List_add(clientID, fd)
    BY <1>1, AddAppends DEF R!Next
  <1>2. CASE \E clientID \in IDs : List_remove(clientID)
    BY <1>2, RemoveRemoves DEF R!Next
  <1>3. CASE List_renew
    <2>1. size' = 0 BY <1>3 DEF List_renew
    <2>2. Entries' = <<>> BY <2>1 DEF Entries
    <2>3. QED BY <2>2 DEF R!Next, R!Renew, R!List_new
  <1>4. CASE UNCHANGED vars BY <1>4 DEF vars, Entries
  <1>5. QED BY <1>1, <1>2, <1>3, <1>4 DEF Next

\* Seen through its pointers the array is the sequence that the modules of the
\* servers work with, whatever the addresses malloc hands out.
THEOREM ArrayImplementsRegistry == Spec => RegistrySpec
  <1>1. Init => R!Init
    BY DEF Init, List_new, R!Init, R!List_new, Entries
  <1>2. QED BY <1>1, MemoryStaysSound, StepsOfRegistry, PTL DEF Spec, RegistrySpec, R!Spec

=============================================================================
