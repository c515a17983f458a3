---------------------------- MODULE MCChatScripts ----------------------------
(* An instance of ChatScripts for TLC: the two clients run once each. *)
EXTENDS ChatScripts

\* What the two scripts send.
ScriptMessages ==
  UNION {{s.message : s \in {start_client[c][i] : i \in 1..Len(start_client[c])}} : c \in Clients}
    \ {Nothing}

=============================================================================
