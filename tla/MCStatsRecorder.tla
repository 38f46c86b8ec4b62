-------------------------- MODULE MCStatsRecorder --------------------------
(* Small instances of the stats recorder for TLC. *)
EXTENDS StatsRecorder

CONSTANTS t1, t2

TwoRecorders == {t1, t2}

SymRecorders == Permutations(TwoRecorders)

\* Broadcasts into one room, drops in the other, messages received in neither.
EachKind == {<<1, "out">>, <<2, "drop">>, <<NoRoom, "in">>}

=============================================================================
