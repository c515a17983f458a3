-------------------------- MODULE MCMessageFraming --------------------------
(* Instances of MessageFraming for TLC. *)
EXTENDS MessageFraming

\* A chat with a body, a message without, a chat with a short body.
LongNoneShort == <<2, 0, 1>>
LongNone == <<2, 0>>
ShortNone == <<1, 0>>

=============================================================================
