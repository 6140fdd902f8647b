---------------------------- MODULE MCCommandLine ----------------------------
(* Small instances of CommandLine for TLC. *)
EXTENDS CommandLine, TLC

CONSTANTS near, lan, key

MCRoom == {lan, key}
Nothing == {}

\* A device behind the same address, which can be paired and comes twice: the second time
\* under the name --to asks for.
MCRemote == {near}
MCRoomsOf == near :> {lan, key}
MCWanted == near :> {2}
MCLives == near :> 2

\* It keeps the name --to asks for.
MCWantedAlways == near :> {1, 2}
=============================================================================
