------------------------ MODULE MCConnectionCounter ------------------------
(* Small instances of the connection counter for TLC. *)
EXTENDS ConnectionCounter

CONSTANTS c1, c2, c3

ThreeConns == {c1, c2, c3}

\* No limit, Some(0) and a limit that two handlers fill.
MixedLimits == {NoLimit, 0, 2}

=============================================================================
