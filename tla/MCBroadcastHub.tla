--------------------------- MODULE MCBroadcastHub ---------------------------
(* Small instances of the broadcast hub for TLC. *)
EXTENDS BroadcastHub, FiniteSetsExt

CONSTANTS c1, c2

TwoConns == {c1, c2}

\* tokio rounds the requested capacity up to a power of two.
NextPowerOfTwo(n) == Min({2^k : k \in 0..n} \ 0..(n - 1))

=============================================================================
