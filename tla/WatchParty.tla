----------------------------- MODULE WatchParty -----------------------------
(***************************************************************************)
(* What a round of the movie server promises to the group that watches,    *)
(* without sockets, messages or clients: ballots are cast only while the   *)
(* vote is open, the film is settled once, by the ballots of this round    *)
(* alone and in favour of the lowest index, and it stays the same until it *)
(* has been loaded and played.  The server may stop at any time.           *)
(***************************************************************************)
EXTENDS Naturals

CONSTANT Films

VARIABLES stage, ballots, film

NoBallots == [f \in Films |-> 0]

Init == stage = "idle" /\ ballots = NoBallots /\ film = 0

Open == stage = "idle" /\ stage' = "voting" /\ UNCHANGED <<ballots, film>>

Cast(f) ==
  /\ stage = "voting"
  /\ ballots' = [ballots EXCEPT ![f] = @ + 1]
  /\ UNCHANGED <<stage, film>>

\* No film has more ballots, and those before it have fewer.
Elected(f) ==
  \A g \in Films : ballots[g] <= ballots[f] /\ (g < f => ballots[g] < ballots[f])

Close ==
  /\ stage = "voting"
  /\ film' \in {f \in Films : Elected(f)}
  /\ stage' = "loading"
  /\ ballots' = NoBallots

Play == stage = "loading" /\ stage' = "playing" /\ UNCHANGED <<ballots, film>>

Finish == stage = "playing" /\ stage' = "idle" /\ film' = 0 /\ UNCHANGED ballots

Stop == stage' = "stopped" /\ UNCHANGED <<ballots, film>>

Next == Open \/ (\E f \in Films : Cast(f)) \/ Close \/ Play \/ Finish \/ Stop

Spec == Init /\ [][Next]_<<stage, ballots, film>>

=============================================================================
