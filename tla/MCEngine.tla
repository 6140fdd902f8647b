------------------------------- MODULE MCEngine -------------------------------
(* Small instances of Engine for TLC. *)
EXTENDS Engine, TLC

CONSTANTS a, b, r, s, lan, wan

MCDevice == {a, b}
MCSecret == {r, s}
MCIp == {lan, wan}
OneSecret == {r}

\* Two devices behind the same public address, or behind different ones.
Together == {[d \in MCDevice |-> lan]}
Apart == {a :> lan @@ b :> wan}
Either == Together \union Apart

Only(kinds) == [kind \in Kind |-> IF kind \in kinds THEN 1 ELSE 0]

RoomLimits == {Only({"drop", "trust"}), [Only({}) EXCEPT !["trust"] = 2]}
Incidents == Kind \ {"drop", "trust"}
FaultLimits ==
  {Only({k, l}) : k, l \in Incidents}
    \union {Only({"drop", k}) : k \in {"iceFailure", "dialFailure"}}
=============================================================================
