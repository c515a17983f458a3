------------------------------ MODULE Registry ------------------------------
(***************************************************************************)
(* What a list of clients is to its callers: a sequence of entries, without *)
(* memory.  The servers' modules use the same operators of ClientList.     *)
(***************************************************************************)
EXTENDS ClientList

CONSTANTS IDs, Fds

VARIABLE list

Init == list = List_new

Register(clientID, fd) == list' = List_add(list, clientID, fd)
Unregister(clientID) == list' = List_remove(list, clientID)
Renew == list' = List_new

Next ==
  \/ \E clientID \in IDs, fd \in Fds : Register(clientID, fd)
  \/ \E clientID \in IDs : Unregister(clientID)
  \/ Renew

Spec == Init /\ [][Next]_list

=============================================================================
