----------------------------- MODULE MessageLog -----------------------------
(***************************************************************************)
(* What a broadcast channel promises its readers, with no ring, slots or   *)
(* overwriting: an endless log of which each reader gets consecutive       *)
(* stretches, in order, from where it began.  The only other thing that    *)
(* can happen to a reader is that it is moved forward, and told so, past   *)
(* messages that are not among the newest Kept.                            *)
(***************************************************************************)
EXTENDS Naturals, Sequences

CONSTANTS
    Readers,
    Kept        \* the newest messages, of which none is ever passed over

VARIABLES
    sent,       \* messages in the log; they are numbered from 0
    reading,    \* who reads at present
    at,         \* per reader, the message it gets next
    got,        \* per reader, what it got, in order
    skipped     \* per reader, how many messages it was told it missed

logVars == <<sent, reading, at, got, skipped>>

Init ==
    /\ sent = 0
    /\ reading = {}
    /\ at = [r \in Readers |-> 0]
    /\ got = [r \in Readers |-> << >>]
    /\ skipped = [r \in Readers |-> 0]

\* Only a log somebody reads grows.
Publish ==
    /\ reading # {}
    /\ sent' = sent + 1
    /\ UNCHANGED <<reading, at, got, skipped>>

\* A reader begins at the end of the log.
Begin(r) ==
    /\ r \notin reading
    /\ reading' = reading \cup {r}
    /\ at' = [at EXCEPT ![r] = sent]
    /\ got' = [got EXCEPT ![r] = << >>]
    /\ skipped' = [skipped EXCEPT ![r] = 0]
    /\ UNCHANGED sent

Read(r) ==
    /\ r \in reading
    /\ at[r] < sent
    /\ got' = [got EXCEPT ![r] = Append(@, at[r])]
    /\ at' = [at EXCEPT ![r] = @ + 1]
    /\ UNCHANGED <<sent, reading, skipped>>

\* A reader that fell behind is moved to p and told how far.
Skip(r, p) ==
    /\ r \in reading
    /\ at[r] < p
    /\ p + Kept <= sent
    /\ at' = [at EXCEPT ![r] = p]
    /\ skipped' = [skipped EXCEPT ![r] = @ + (p - at[r])]
    /\ UNCHANGED <<sent, reading, got>>

Leave(r) ==
    /\ r \in reading
    /\ reading' = reading \ {r}
    /\ UNCHANGED <<sent, at, got, skipped>>

Next ==
    \/ Publish
    \/ \E r \in Readers : Begin(r) \/ Read(r) \/ Leave(r)
    \/ \E r \in Readers, p \in 0..sent : Skip(r, p)

Spec == Init /\ [][Next]_logVars

=============================================================================
