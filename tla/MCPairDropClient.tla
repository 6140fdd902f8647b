--------------------------- MODULE MCPairDropClient ---------------------------
(* Small instances of PairDropClient for TLC. *)
EXTENDS PairDropClient

CONSTANTS b, lan, pair

OneRemote == {b}
MCRoom == {lan, pair}

\* A start, and a stop or a restart.
MCLimits == [user |-> 2, networkChange |-> 1, badConfig |-> 1, drop |-> 1, move |-> 1]
=============================================================================
