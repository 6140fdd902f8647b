---------------------------- MODULE MCApplication ----------------------------
(* Small instances of Application for TLC. *)
EXTENDS Application

CONSTANTS phone, home, f, g

OnlyPhone == {phone}
OnlyHome == {home}
TwoFolders == {f, g}
SomeSettings == [server : {home}, folder : {f, g}] \union [server : {Empty, Unusable}, folder : {f}]

Limit(s, r, m, d) == [settings |-> s, requests |-> r, moves |-> m, drops |-> d]
Few == {Limit(0, 2, 0, 1), Limit(0, 1, 1, 1), Limit(1, 1, 0, 0), Limit(1, 0, 1, 0), Limit(1, 0, 0, 1)}
NoRequests == {Limit(1, 0, 1, 1)}
=============================================================================
