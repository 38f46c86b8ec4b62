------------------------------ MODULE RustStr ------------------------------
(***************************************************************************)
(* The few operations of Rust's str and Option that the header parsers use *)
(* (external), on sequences of whatever a text is made of.  An Option is a *)
(* sequence of at most one element.                                        *)
(***************************************************************************)
EXTENDS Naturals, FiniteSets, SequencesExt

None == << >>
Some(x) == <<x>>

\* find: the index of the first element that is c, or 0.
Find(s, c) == SelectInSeq(s, LAMBDA x : x = c)

\* split_once, and splitn(2): what is before and after the first c.
SplitOnce(s, c) ==
    LET i == Find(s, c)
    IN  IF i = 0 THEN <<s, << >>>> ELSE <<SubSeq(s, 1, i - 1), SubSeq(s, i + 1, Len(s))>>

\* split: the pieces between the c's, and before the first and after the last.
Split(s, c) ==
    LET cuts == {0, Len(s) + 1} \cup {i \in 1..Len(s) : s[i] = c}
        Cut(k) == CHOOSE i \in cuts : Cardinality({j \in cuts : j < i}) = k
    IN  [k \in 1..(Cardinality(cuts) - 1) |-> SubSeq(s, Cut(k - 1) + 1, Cut(k) - 1)]

\* trim_start_matches, trim_matches.
TrimStart(s, C) ==
    LET i == SelectInSeq(s, LAMBDA x : x \notin C)
    IN  IF i = 0 THEN << >> ELSE SubSeq(s, i, Len(s))

Trim(s, C) == Reverse(TrimStart(Reverse(TrimStart(s, C)), C))

----------------------------------------------------------------------------
(* How texts are put together, for those who write them *)

Infixes(s) == {SubSeq(s, i, j) : i \in 1..(Len(s) + 1), j \in 0..Len(s)}

\* s is t with elements of C around it, and t neither begins nor ends with one.
Padded(s, t, C) ==
    \E i \in 1..(Len(s) + 1), j \in 0..Len(s) :
        /\ t = SubSeq(s, i, j)
        /\ \A k \in 1..Len(s) : k < i \/ k > j => s[k] \in C
        /\ i <= j => s[i] \notin C /\ s[j] \notin C

\* s is the parts, which have no c, with a c between any two of them; at[k]
\* is where the k-th part begins, less one.
Joins(s, parts, c) ==
    \E at \in [1..(Len(parts) + 1) -> {0, Len(s) + 1} \cup {i \in 1..Len(s) : s[i] = c}] :
        /\ at[1] = 0 /\ at[Len(parts) + 1] = Len(s) + 1
        /\ \A j, k \in 1..(Len(parts) + 1) : j < k => at[j] < at[k]
        /\ \A k \in 1..Len(parts) :
                parts[k] = SubSeq(s, at[k] + 1, at[k + 1] - 1) /\ c \notin ToSet(parts[k])

=============================================================================
