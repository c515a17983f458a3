----------------------------- MODULE ClientList -----------------------------
(***************************************************************************)
(* The list of (client identifier, descriptor) entries that both servers   *)
(* keep: server/list.c and its older twin a2/list.c.  An Entry is a record *)
(* [id, fd]; a List is a sequence of entries in insertion order.  ListArray *)
(* is about the growing array that implements it.                          *)
(***************************************************************************)
EXTENDS Integers, Sequences, SequencesExt

\* What List_getClientID returns for a descriptor without entry.
NULL == "NULL"

Entry_new(clientID, fd) == [id |-> clientID, fd |-> fd]

List_new == <<>>

\* Faulty variant: an identifier is not listed twice.
List_addOnce(list, clientID, fd) ==
  IF \E i \in 1..Len(list) : list[i].id = clientID
  THEN list ELSE Append(list, Entry_new(clientID, fd))
List_add(list, clientID, fd) == Append(list, Entry_new(clientID, fd))

\* Where the loops that look for an identifier or a descriptor stop: at the
\* first match, or nowhere.
FirstOfID(list, clientID) ==
  {i \in 1..Len(list) : list[i].id = clientID /\ \A j \in 1..(i - 1) : list[j].id # clientID}

FirstOfFD(list, fd) ==
  {i \in 1..Len(list) : list[i].fd = fd /\ \A j \in 1..(i - 1) : list[j].fd # fd}

List_contains_id(list, clientID) == \E i \in 1..Len(list) : list[i].id = clientID

List_contains_fd(list, fd) == \E i \in 1..Len(list) : list[i].fd = fd

\* The first entry whose identifier equals clientID goes; the later ones move
\* up.  Without such an entry the list is unchanged.
List_remove(list, clientID) ==
  LET found == FirstOfID(list, clientID)
  IN IF found = {} THEN list ELSE RemoveAt(list, CHOOSE i \in found : TRUE)

\* The identifier of the first entry of the descriptor, NULL if it has none.
List_getClientID(list, fd) ==
  LET found == FirstOfFD(list, fd)
  IN IF found = {} THEN NULL ELSE list[CHOOSE i \in found : TRUE].id

\* The descriptor of the first entry with the identifier, -1 if it has none.
List_getFD(list, clientID) ==
  LET found == FirstOfID(list, clientID)
  IN IF found = {} THEN -1 ELSE list[CHOOSE i \in found : TRUE].fd

=============================================================================
