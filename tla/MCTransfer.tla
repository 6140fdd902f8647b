----------------------------- MODULE MCTransfer -----------------------------
(* Small instances of Transfer for TLC. *)
EXTENDS Transfer

CONSTANTS a, b, f, g, empty

MCPeer == {a, b}
MCFile == {f, g, empty}
OnlyA == {a}
OnlyB == {b}
Nobody == {}

\* With a partition of two chunks, f takes three partitions and g a short one.
MCSize == [n \in MCFile |-> IF n = f THEN 5 ELSE IF n = g THEN 1 ELSE 0]

\* A batch with a file to skip, and one with nothing to send.
MCBatches == {<<f, empty, g>>, <<empty>>}
TwoBatches == {<<f>>, <<g, f>>}

\* Files of two chunks and of one, for partitions of one.
SmallSize == [n \in MCFile |-> IF n = f THEN 2 ELSE IF n = g THEN 1 ELSE 0]
OneFileBatches == {<<f>>, <<g>>}
=============================================================================
