------------------------------ MODULE ListArray ------------------------------
(***************************************************************************)
(* The memory behind the list of clients, a2/list.c: a block of pointers   *)
(* that grows and is never shrunk, and the entries they point to, which    *)
(* are allocated and freed one by one.  An address is an abstract value    *)
(* that malloc may hand out again once it was freed; Wild is whatever      *)
(* memory holds that the list has not written.                             *)
(***************************************************************************)
EXTENDS Integers, Sequences, FiniteSets

CONSTANTS
  IDs, Fds,     \* what the entries hold
  Addresses,    \* bound: as many entries at a time as there are addresses
  Wild

VARIABLES
  capacity,  \* pointers in the block
  size,      \* pointers in use
  data,      \* the block
  heap       \* the live entries, by address

vars == <<capacity, size, data, heap>>

L == INSTANCE ClientList

InUse == 0..(size - 1)

-----------------------------------------------------------------------------
(* The search of List_remove: a loop over the pointers in use, up to the    *)
(* first entry with the identifier                                         *)

HasID(clientID) == {i \in InUse : heap[data[i]].id = clientID}

FirstOf(matches) == CHOOSE i \in matches : \A j \in matches : i <= j

-----------------------------------------------------------------------------
(* The operations *)

NoBlock == [i \in {} |-> Wild]

Entry_new(a, clientID, fd) ==
  heap' = [x \in DOMAIN heap \cup {a} |-> IF x = a THEN L!Entry_new(clientID, fd) ELSE heap[x]]

Entry_free(addresses) == heap' = [x \in DOMAIN heap \ addresses |-> heap[x]]

\* Faulty variant: a capacity of zero stays zero.
GrownDouble == 2 * capacity
Grown == 2 * capacity + 2

\* The pointers in use are copied to a larger block.
List_expand == [i \in 0..(Grown - 1) |-> IF i < size THEN data[i] ELSE Wild]

List_add(clientID, fd) ==
  LET full == capacity = size
      block == IF full THEN List_expand ELSE data
  IN \E a \in Addresses \ DOMAIN heap :
       /\ Entry_new(a, clientID, fd)
       /\ capacity' = IF full THEN Grown ELSE capacity
       /\ data' = [block EXCEPT ![size] = a]
       /\ size' = size + 1

\* data[i]; of a full list List_remove reads one pointer past the end.
Pointer(i) == IF i < capacity THEN data[i] ELSE Wild

\* Faulty variants: nothing moves; the last pointer fills the gap.
ShiftedNot(index) == data
ShiftedLast(index) == [data EXCEPT ![index] = data[size - 1]]
\* The pointers in use behind index move up, and the one after them.
Shifted(index) ==
  [i \in DOMAIN data |-> IF i \in index..(size - 1) THEN Pointer(i + 1) ELSE data[i]]

List_remove(clientID) ==
  /\ HasID(clientID) # {}
  /\ LET index == FirstOf(HasID(clientID))
     IN Entry_free({data[index]}) /\ data' = Shifted(index)
  /\ size' = size - 1
  /\ UNCHANGED capacity

\* List_free of a list that was used for a while, and List_new for the next: the
\* list that a2's Container_discardStale makes and frees.  (The movie server's
\* list of those who voted is made anew for each vote and never freed.)
List_renew ==
  /\ Entry_free({data[i] : i \in InUse})
  /\ capacity' = 0 /\ size' = 0 /\ data' = NoBlock

-----------------------------------------------------------------------------
List_new == capacity = 0 /\ size = 0 /\ data = NoBlock

Init == List_new /\ heap = [a \in {} |-> Wild]

\* Removing an identifier that is not there changes nothing.
Next ==
  \/ \E clientID \in IDs, fd \in Fds : List_add(clientID, fd)
  \/ \E clientID \in IDs : List_remove(clientID)
  \/ List_renew

Spec == Init /\ [][Next]_vars

-----------------------------------------------------------------------------
(* Properties *)

TypeOK ==
  /\ capacity \in Nat /\ size \in 0..capacity
  /\ data \in [0..(capacity - 1) -> Addresses \cup {Wild}]
  /\ DOMAIN heap \subseteq Addresses
  /\ heap \in [DOMAIN heap -> [id : IDs, fd : Fds]]

\* The pointers in use are those of the live entries, each once: through any
\* expansions, removals from a full block (which read past its end, line 56)
\* and reuse of freed memory, no entry is used after it was freed, freed twice
\* or leaked.
PointersAreLive ==
  /\ \A i \in InUse : data[i] \in DOMAIN heap
  /\ \A i, j \in InUse : data[i] = data[j] => i = j
  /\ \A a \in DOMAIN heap : \E i \in InUse : data[i] = a

\* What the callers of the list see.
Entries == [i \in 1..size |-> heap[data[i - 1]]]

\* The array implements the sequence that the servers' modules work with.
R == INSTANCE Registry WITH list <- Entries

RegistrySpec == R!Spec

=============================================================================
