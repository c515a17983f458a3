---------------------------- MODULE MCChatServer ----------------------------
(* Instances of ChatServer for TLC. *)
EXTENDS ChatServer

CONSTANTS ann, bob

Message(type, source, dest, body) ==
  [type |-> type, source |-> source, dest |-> dest, body |-> body]

\* What the test clients of the repository do: register, chat with and
\* without a body, ask for the list, leave, and claim another's name.
Conversation ==
  {Message("HELLO", ann, EmptyID, FALSE), Message("HELLO", bob, EmptyID, FALSE),
   Message("CHAT", ann, bob, TRUE), Message("CHAT", bob, ann, FALSE),
   Message("EXIT", ann, EmptyID, FALSE)}

\* Messages the server answers by closing the connection.
Refusals ==
  {Message("HELLO", ann, EmptyID, FALSE), Message("HELLO", bob, EmptyID, FALSE),
   Message("HELLO", EmptyID, EmptyID, FALSE), Message("LIST_REQUEST", bob, EmptyID, FALSE),
   Message("CHAT", ann, ann, TRUE), Message("INVALID", bob, EmptyID, FALSE)}

Everything == Conversation \cup Refusals

\* Registrations and the chat that announces a body.
Greetings ==
  {Message("HELLO", ann, EmptyID, FALSE), Message("HELLO", bob, EmptyID, FALSE),
   Message("CHAT", ann, bob, TRUE)}

=============================================================================
