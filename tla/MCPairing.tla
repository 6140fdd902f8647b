------------------------------ MODULE MCPairing ------------------------------
(* Small instances of Pairing for TLC. *)
EXTENDS Pairing, TLC

CONSTANTS a, b, r, s

MCDevice == {a, b}

\* One secret for a pairing and another for its rotation or a second pairing.
TwoSecrets == {r, s}

\* The two commands of a pairing and one more, with one failure of an entry and these.
Incidents(kinds) ==
  [kind \in Kind |-> CASE kind = "command" -> 3
                       [] kind \in kinds \union {"loadFailure", "deleteFailure"} -> 1
                       [] OTHER -> 0]

\* The two commands of a pairing alone.
OnePairing(kinds) == [Incidents(kinds) EXCEPT !["command"] = 2]

MCLimits ==
  {Incidents({"drop", "rotation"}), Incidents({"restart", "rotation"}),
   Incidents({"restart", "saveFailure", "probeFailure"}),
   OnePairing({"drop", "cancel"}), [OnePairing({"rotation"}) EXCEPT !["drop"] = 2]}
=============================================================================
