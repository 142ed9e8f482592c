---------------------------- MODULE MCAccessToken ----------------------------
(* An instance of AccessToken for TLC: two calls of one process and, in a   *)
(* larger instance, one of another.                                         *)
EXTENDS AccessToken

CONSTANTS p1, p2, elsewhere

MCHome == [c \in Client |-> IF c \in elsewhere THEN p2 ELSE p1]

\* The second token lives less than the minimum TTL.
MCLifetime == <<4, 1>>
=============================================================================
