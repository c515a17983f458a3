------------------------------ MODULE ChatRoom ------------------------------
(***************************************************************************)
(* What the chat server promises to those who talk, without sockets,       *)
(* buffers or descriptors: a name is taken by one member at a time, and a  *)
(* chat passes only between two different names that are both members at   *)
(* that moment.                                                            *)
(***************************************************************************)
CONSTANTS Names, Nothing

VARIABLES members, passed   \* passed: the chat of the last step, or Nothing

Init == members = {} /\ passed = Nothing

Join(name) ==
  /\ name \notin members
  /\ members' = members \cup {name}
  /\ passed' = Nothing

Leave(names) ==
  /\ members' = members \ names
  /\ passed' = Nothing

\* The addressee drops out if the chat cannot be written to it.
Chat(from, to) ==
  /\ {from, to} \subseteq members /\ from # to
  /\ passed' = <<from, to>>
  /\ members' \in {members, members \ {to}}

Next ==
  \/ \E name \in Names : Join(name)
  \/ \E names \in SUBSET Names : Leave(names)
  \/ \E from, to \in Names : Chat(from, to)

Spec == Init /\ [][Next]_<<members, passed>>

=============================================================================
