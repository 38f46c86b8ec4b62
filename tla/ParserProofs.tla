---------------------------- MODULE ParserProofs ----------------------------
(***************************************************************************)
(* What the origin check and the token extractor compute, for every text.  *)
(***************************************************************************)
EXTENDS Origin, TokenExtractor, FiniteSetTheorems, SequenceTheorems, TLAPS

----------------------------------------------------------------------------
(* Positions in sequences *)

LEMMA LeastNumber ==
    ASSUME NEW S \in SUBSET Nat, S # {}
    PROVE  \E n \in S : \A m \in S : n <= m
<1>1. PICK n \in S : \A m \in S : ~(<<m, n>> \in OpToRel(<, Nat))
  BY WFMin, NatLessThanWellFounded
<1>2. \A m \in S : m \in Nat /\ n \in Nat /\ ~(m < n)
  BY <1>1 DEF OpToRel
<1> QED
  BY <1>2

LEMMA MinIsLeast ==
    ASSUME NEW S \in SUBSET Nat, S # {}
    PROVE  Min(S) \in S /\ \A m \in S : Min(S) <= m
<1>1. \E n \in S : \A m \in S : n =< m
  BY LeastNumber
<1> QED
  BY <1>1 DEF Min

\* A subsequence within the bounds of s.
LEMMA SubFacts ==
    ASSUME NEW S, NEW s \in Seq(S), NEW i \in 1..(Len(s) + 1), NEW j \in 0..Len(s)
    PROVE  /\ Len(s) \in Nat
           /\ SubSeq(s, i, j) \in Seq(S)
           /\ Len(SubSeq(s, i, j)) = IF i <= j THEN j - i + 1 ELSE 0
           /\ \A k \in 1..(j - i + 1) : SubSeq(s, i, j)[k] = s[i + k - 1]
<1>1. Len(s) \in Nat /\ \A k \in 1..Len(s) : s[k] \in S
  BY LenProperties, ElementOfSeq
<1>2. i \in Int /\ j \in Int /\ \A k \in i..j : s[k] \in S
  BY <1>1
<1> QED
  BY <1>1, <1>2, SubSeqProperties

LEMMA FindFacts ==
    ASSUME NEW S, NEW s \in Seq(S), NEW c
    PROVE  /\ Find(s, c) \in 0..Len(s)
           /\ Find(s, c) = 0 => \A k \in 1..Len(s) : s[k] # c
           /\ Find(s, c) # 0 => s[Find(s, c)] = c /\ \A k \in 1..(Find(s, c) - 1) : s[k] # c
<1> DEFINE I == {i \in 1..Len(s) : s[i] = c}
<1>1. Len(s) \in Nat /\ I \in SUBSET Nat
  BY LenProperties
<1>2. Find(s, c) = IF I # {} THEN Min(I) ELSE 0
  BY DEF Find, SelectInSeq
<1>3. I # {} => Min(I) \in I /\ \A m \in I : Min(I) <= m
  BY <1>1, MinIsLeast
<1>4. CASE I = {}
  BY <1>1, <1>2, <1>4
<1>5. CASE I # {}
  <2>1. Find(s, c) \in I /\ \A m \in I : Find(s, c) <= m
    BY <1>2, <1>3, <1>5
  <2>2. Find(s, c) \in 1..Len(s) /\ s[Find(s, c)] = c
    BY <2>1
  <2>3. ASSUME NEW k \in 1..(Find(s, c) - 1) PROVE s[k] # c
    <3>1. k \in 1..Len(s) /\ k < Find(s, c)
      BY <1>1, <2>2
    <3> QED
      BY <1>1, <2>1, <2>2, <3>1
  <2> QED
    BY <1>1, <2>2, <2>3
<1> QED
  BY <1>4, <1>5

\* The first place of c, by what is before it.
LEMMA FindIs ==
    ASSUME NEW S, NEW s \in Seq(S), NEW c, NEW i \in 1..Len(s),
           s[i] = c, \A k \in 1..(i - 1) : s[k] # c
    PROVE  Find(s, c) = i
<1>1. Len(s) \in Nat
  BY LenProperties
<1>2. Find(s, c) # 0 /\ Find(s, c) \in 1..Len(s) /\ s[Find(s, c)] = c
  BY <1>1, FindFacts
<1>3. ~(Find(s, c) < i)
  BY <1>1, <1>2
<1>4. ~(i < Find(s, c))
  BY <1>1, <1>2, FindFacts
<1> QED
  BY <1>1, <1>2, <1>3, <1>4

----------------------------------------------------------------------------
(* Trimming *)

LEMMA TrimStartIs ==
    ASSUME NEW S, NEW s \in Seq(S), NEW C, NEW i \in 1..(Len(s) + 1),
           \A k \in 1..(i - 1) : s[k] \in C, i <= Len(s) => s[i] \notin C
    PROVE  TrimStart(s, C) = SubSeq(s, i, Len(s))
<1> DEFINE I == {k \in 1..Len(s) : s[k] \notin C}
           m == IF I # {} THEN Min(I) ELSE 0
<1>1. Len(s) \in Nat /\ I \in SUBSET Nat
  BY LenProperties
<1>2. TrimStart(s, C) = IF m = 0 THEN << >> ELSE SubSeq(s, m, Len(s))
  BY DEF TrimStart, SelectInSeq
<1>3. CASE i <= Len(s)
  <2>1. i \in I
    BY <1>1, <1>3
  <2>2. m \in I /\ \A k \in I : m <= k
    BY <1>1, <2>1, MinIsLeast
  <2>3. m \in 1..Len(s) /\ m <= i /\ s[m] \notin C
    BY <2>1, <2>2
  <2> HIDE DEF m
  <2>4. m = i /\ m # 0
    BY <1>1, <2>3
  <2> QED
    BY <1>2, <2>4
<1>4. CASE i > Len(s)
  <2>1. I = {}
    BY <1>1, <1>4
  <2>2. SubSeq(s, i, Len(s)) = << >>
    BY <1>1, <1>4, SubSeqEmpty
  <2> QED
    BY <1>2, <2>1, <2>2
<1> QED
  BY <1>1, <1>3, <1>4

LEMMA ReverseFacts ==
    ASSUME NEW S, NEW s \in Seq(S)
    PROVE  /\ Reverse(s) \in Seq(S) /\ Len(Reverse(s)) = Len(s)
           /\ \A k \in 1..Len(s) : Reverse(s)[k] = s[Len(s) - k + 1]
<1>1. Len(s) \in Nat /\ \A k \in 1..Len(s) : s[k] \in S
  BY LenProperties, ElementOfSeq
<1>2. \A k \in 1..Len(s) : (Len(s) - k) + 1 \in 1..Len(s)
  BY <1>1
<1> QED
  BY <1>1, <1>2 DEF Reverse

\* Trimming takes off the padding.
LEMMA TrimPadded ==
    ASSUME NEW S, NEW s \in Seq(S), NEW t, NEW C, Padded(s, t, C)
    PROVE  Trim(s, C) = t /\ t \in Seq(S)
<1> DEFINE n == Len(s)
<1>1. PICK i \in 1..(n + 1), j \in 0..n :
        /\ t = SubSeq(s, i, j)
        /\ \A k \in 1..n : k < i \/ k > j => s[k] \in C
        /\ i <= j => s[i] \notin C /\ s[j] \notin C
  BY DEF Padded
<1>2. n \in Nat /\ t \in Seq(S)
  BY <1>1, SubFacts
<1> DEFINE u == TrimStart(s, C)
           v == Reverse(u)
           w == TrimStart(v, C)
<1>3. CASE i <= j
  <2>1. u = SubSeq(s, i, n)
    <3>1. \A k \in 1..(i - 1) : s[k] \in C
      BY <1>1, <1>2
    <3> QED
      BY <1>1, <1>2, <1>3, <3>1, TrimStartIs
  <2>2. /\ u \in Seq(S) /\ Len(u) = n - i + 1
        /\ \A k \in 1..(n - i + 1) : u[k] = s[i + k - 1]
    BY <1>2, <1>3, <2>1, SubFacts
  <2>3. /\ v \in Seq(S) /\ Len(v) = n - i + 1
        /\ \A k \in 1..(n - i + 1) : v[k] = s[n - k + 1]
    <3> HIDE DEF u
    <3>1. /\ v \in Seq(S) /\ Len(v) = Len(u)
          /\ \A k \in 1..Len(u) : v[k] = u[Len(u) - k + 1]
      BY <2>2, ReverseFacts
    <3>2. ASSUME NEW k \in 1..(n - i + 1) PROVE v[k] = s[n - k + 1]
      <4>1. Len(u) - k + 1 \in 1..(n - i + 1) /\ i + (Len(u) - k + 1) - 1 = n - k + 1
        BY <1>2, <2>2
      <4> QED
        BY <2>2, <3>1, <4>1
    <3> QED
      BY <2>2, <3>1, <3>2
  <2>4. w = SubSeq(v, n - j + 1, n - i + 1)
    <3> HIDE DEF v
    <3> DEFINE b == n - j + 1
    <3>1. b \in 1..(Len(v) + 1)
      BY <1>2, <1>3, <2>3
    <3>2. ASSUME NEW k \in 1..(b - 1) PROVE v[k] \in C
      <4>1. k \in 1..(n - i + 1) /\ n - k + 1 \in 1..n /\ n - k + 1 > j
        BY <1>2, <1>3
      <4> QED
        BY <1>1, <2>3, <4>1
    <3>3. v[b] \notin C
      <4>1. n - j + 1 \in 1..(n - i + 1) /\ n - (n - j + 1) + 1 = j
        BY <1>2, <1>3
      <4> QED
        BY <1>1, <1>3, <2>3, <4>1
    <3>4. Len(v) = n - i + 1 /\ v \in Seq(S)
      BY <2>3
    <3> HIDE DEF b
    <3>5. TrimStart(v, C) = SubSeq(v, b, Len(v))
      BY <3>1, <3>2, <3>3, <3>4, TrimStartIs
    <3> QED
      BY <3>4, <3>5 DEF b
  <2>5. /\ w \in Seq(S) /\ Len(w) = j - i + 1
        /\ \A k \in 1..(j - i + 1) : w[k] = s[j - k + 1]
    <3> HIDE DEF v, w
    <3>1. n - j + 1 \in 1..(Len(v) + 1) /\ n - i + 1 \in 0..Len(v)
      BY <1>2, <1>3, <2>3
    <3>2. /\ w \in Seq(S) /\ Len(w) = (n - i + 1) - (n - j + 1) + 1
          /\ \A k \in 1..((n - i + 1) - (n - j + 1) + 1) : w[k] = v[(n - j + 1) + k - 1]
      BY <1>2, <1>3, <2>3, <2>4, <3>1, SubFacts, SMTT(30)
    <3>3. ASSUME NEW k \in 1..(j - i + 1) PROVE w[k] = s[j - k + 1]
      <4> DEFINE x == (n - j + 1) + k - 1
      <4>1. x \in 1..(n - i + 1) /\ n - x + 1 = j - k + 1
        BY <1>2, <1>3
      <4>2. k \in 1..((n - i + 1) - (n - j + 1) + 1)
        BY <1>2
      <4>3. w[k] = v[x]
        BY <3>2, <4>2
      <4> HIDE DEF x
      <4>4. v[x] = s[n - x + 1]
        BY <2>3, <4>1
      <4> QED
        BY <4>1, <4>3, <4>4
    <3> QED
      BY <1>2, <3>2, <3>3
  <2>6. /\ Reverse(w) \in Seq(S) /\ Len(Reverse(w)) = j - i + 1
        /\ \A k \in 1..(j - i + 1) : Reverse(w)[k] = s[i + k - 1]
    <3> HIDE DEF w
    <3>1. /\ Reverse(w) \in Seq(S) /\ Len(Reverse(w)) = Len(w)
          /\ \A k \in 1..Len(w) : Reverse(w)[k] = w[Len(w) - k + 1]
      BY <2>5, ReverseFacts
    <3>2. ASSUME NEW k \in 1..(j - i + 1) PROVE Reverse(w)[k] = s[i + k - 1]
      <4>1. Len(w) - k + 1 \in 1..(j - i + 1) /\ j - (Len(w) - k + 1) + 1 = i + k - 1
        BY <1>2, <2>5
      <4> QED
        BY <2>5, <3>1, <4>1
    <3> QED
      BY <2>5, <3>1, <3>2
  <2>7. Len(t) = j - i + 1 /\ \A k \in 1..(j - i + 1) : t[k] = s[i + k - 1]
    BY <1>1, <1>3, SubFacts
  <2>8. Reverse(w) = t
    <3> HIDE DEF w
    <3> QED
      BY <1>2, <2>6, <2>7, SeqEqual
  <2> QED
    BY <1>2, <2>8 DEF Trim
<1>4. CASE i > j
  <2>1. t = << >>
    BY <1>1, <1>4, SubSeqEmpty
  <2>2. u = << >>
    <3> DEFINE b == n + 1
    <3>1. b \in 1..(Len(s) + 1) /\ (b <= Len(s) => s[b] \notin C)
      BY <1>2
    <3>2. \A k \in 1..(b - 1) : s[k] \in C
      BY <1>1, <1>2, <1>4
    <3> HIDE DEF b
    <3>3. u = SubSeq(s, b, Len(s))
      BY <3>1, <3>2, TrimStartIs
    <3>4. u = SubSeq(s, n + 1, n)
      BY <3>3 DEF b
    <3> QED
      BY <1>2, <3>4, SubSeqEmpty
  <2>3. Reverse(<< >>) = << >>
    BY DEF Reverse
  <2>4. TrimStart(<< >>, C) = << >>
    <3>1. {i0 \in 1..Len(<< >>) : << >>[i0] \notin C} = {}
      OBVIOUS
    <3> QED
      BY <3>1 DEF TrimStart, SelectInSeq
  <2> QED
    BY <1>2, <2>1, <2>2, <2>3, <2>4 DEF Trim
<1> QED
  BY <1>1, <1>2, <1>3, <1>4

----------------------------------------------------------------------------
(* url_decode *)

\* One step of the decoder, given what it makes of the rest.
DecodeStep(h, s, i) ==
    IF i > Len(s) THEN << >>
    ELSE IF s[i] = Percent THEN Unescape(SubSeq(s, i, Min({i + 2, Len(s)}))) \o h[i + 3]
    ELSE <<IF s[i] = Plus THEN 32 ELSE s[i]>> \o h[i + 1]

Decodes(h, s) == h = [i \in 1..(Len(s) + 3) |-> DecodeStep(h, s, i)]

LEMMA HexIsNat ==
    ASSUME NEW c \in Digit \cup LowerHex \cup UpperHex
    PROVE  hex_val(c) \in Nat
  BY DEF hex_val, Digit, LowerHex, UpperHex

\* The two characters after a '%', or what is left of them.
LEMMA EscapeFacts ==
    ASSUME NEW s \in Seq(Nat), NEW i \in 1..Len(s)
    PROVE  LET e == Min({i + 2, Len(s)}) IN
           /\ e \in i..Len(s) /\ (i + 2 <= Len(s) => e = i + 2)
           /\ Unescape(SubSeq(s, i, e)) \in Seq(Nat)
<1> DEFINE e == Min({i + 2, Len(s)})
           u == SubSeq(s, i, e)
<1>1. Len(s) \in Nat /\ {i + 2, Len(s)} \in SUBSET Nat /\ {i + 2, Len(s)} # {}
  BY LenProperties
<1>2. e \in {i + 2, Len(s)} /\ e <= i + 2 /\ e <= Len(s)
  BY <1>1, MinIsLeast
<1> HIDE DEF e
<1>3. e \in i..Len(s) /\ (i + 2 <= Len(s) => e = i + 2)
  BY <1>1, <1>2
<1>4. u \in Seq(Nat)
  BY <1>1, <1>3, SubFacts
<1> HIDE DEF u
<1>5. Unescape(u) \in Seq(Nat)
  <2> DEFINE Hex == Digit \cup LowerHex \cup UpperHex
  <2>1. CASE Len(u) = 3 /\ {u[2], u[3]} \subseteq Hex
    <3>1. Unescape(u) = <<16 * hex_val(u[2]) + hex_val(u[3])>>
      BY <2>1 DEF Unescape
    <3>2. hex_val(u[2]) \in Nat /\ hex_val(u[3]) \in Nat
      BY <2>1, HexIsNat
    <3> DEFINE a == hex_val(u[2])
               b == hex_val(u[3])
    <3> HIDE DEF a, b
    <3>3. 16 * a + b \in Nat
      BY <3>2 DEF a, b
    <3> QED
      BY <3>1, <3>3 DEF a, b
  <2>2. CASE ~(Len(u) = 3 /\ {u[2], u[3]} \subseteq Hex)
    BY <1>4, <2>2 DEF Unescape
  <2> QED
    BY <2>1, <2>2
<1> QED
  BY <1>3, <1>5 DEF e, u

LEMMA DecodeStepType ==
    ASSUME NEW s \in Seq(Nat), NEW h \in [1..(Len(s) + 3) -> Seq(Nat)],
           NEW i \in 1..(Len(s) + 3)
    PROVE  DecodeStep(h, s, i) \in Seq(Nat)
<1>1. Len(s) \in Nat
  BY LenProperties
<1>2. CASE i > Len(s)
  BY <1>1, <1>2 DEF DecodeStep
<1>3. CASE i <= Len(s) /\ s[i] = Percent
  <2>0. i \in 1..Len(s) /\ i + 3 \in 1..(Len(s) + 3) /\ ~(i > Len(s))
    BY <1>1, <1>3
  <2>1. i \in 1..Len(s) /\ h[i + 3] \in Seq(Nat)
    BY <2>0
  <2> DEFINE u == Unescape(SubSeq(s, i, Min({i + 2, Len(s)})))
  <2>2. u \in Seq(Nat)
    BY <2>1, EscapeFacts
  <2>3. DecodeStep(h, s, i) = u \o h[i + 3]
    BY <1>3, <2>0, Zenon DEF DecodeStep
  <2> HIDE DEF u
  <2> QED
    BY <2>1, <2>2, <2>3, ConcatProperties
<1>4. CASE i <= Len(s) /\ s[i] # Percent
  <2>0. i \in 1..Len(s) /\ i + 1 \in 1..(Len(s) + 3) /\ ~(i > Len(s))
    BY <1>1, <1>4
  <2>1. i \in 1..Len(s) /\ h[i + 1] \in Seq(Nat) /\ s[i] \in Nat
    BY <2>0, ElementOfSeq
  <2> DEFINE c == IF s[i] = Plus THEN 32 ELSE s[i]
  <2>2. c \in Nat
    BY <2>1
  <2>3. DecodeStep(h, s, i) = <<c>> \o h[i + 1]
    BY <1>4, <2>0 DEF DecodeStep
  <2> HIDE DEF c
  <2>4. <<c>> \in Seq(Nat)
    BY <2>2
  <2> QED
    BY <2>1, <2>3, <2>4, ConcatProperties
<1> QED
  BY <1>1, <1>2, <1>3, <1>4

\* The recursion has a solution: from the end of the text to its beginning.
LEMMA DecoderExists ==
    ASSUME NEW s \in Seq(Nat)
    PROVE  \E h \in [1..(Len(s) + 3) -> Seq(Nat)] : Decodes(h, s)
<1> DEFINE n == Len(s)
           H == [1..(n + 3) -> Seq(Nat)]
           Good(h, d) == \A i \in (n + 1 - d)..(n + 3) : h[i] = DecodeStep(h, s, i)
           Bad == {d \in 0..n : ~\E h \in H : Good(h, d)}
<1>1. n \in Nat
  BY LenProperties
<1>2. Bad = {}
  <2> SUFFICES ASSUME Bad # {} PROVE FALSE
    OBVIOUS
  <2>1. Bad \in SUBSET Nat
    BY <1>1
  <2> HIDE DEF Bad
  <2>2. PICK d \in Bad : \A m \in Bad : d <= m
    BY <2>1, LeastNumber
  <2>3. d \in 0..n /\ ~\E h \in H : Good(h, d)
    BY DEF Bad
  <2>4. d # 0
    <3> SUFFICES ASSUME d = 0 PROVE FALSE
      OBVIOUS
    <3> DEFINE h == [i \in 1..(n + 3) |-> << >>]
    <3>1. << >> \in Seq(Nat)
      OBVIOUS
    <3>2. h \in H
      BY <3>1
    <3>3. ASSUME NEW i \in (n + 1 - 0)..(n + 3) PROVE h[i] = DecodeStep(h, s, i)
      <4>1. i > Len(s) /\ h[i] = << >>
        BY <1>1
      <4> HIDE DEF h
      <4> QED
        BY <4>1 DEF DecodeStep
    <3> QED
      BY <2>3, <3>2, <3>3
  <2>5. d - 1 \in 0..n /\ d - 1 \notin Bad
    BY <1>1, <2>2, <2>3, <2>4
  <2>6. PICK h \in H : Good(h, d - 1)
    BY <2>5 DEF Bad
  <2> DEFINE p == n + 1 - d
             g == [h EXCEPT ![p] = DecodeStep(h, s, p)]
  <2>7. p \in 1..n /\ n + 1 - (d - 1) = p + 1
    BY <1>1, <2>3, <2>4
  <2>8. g \in H
    <3>1. DecodeStep(h, s, p) \in Seq(Nat)
      <4>1. p \in 1..(n + 3)
        BY <1>1, <2>7
      <4> HIDE DEF p
      <4> QED
        BY <4>1, DecodeStepType
    <3> HIDE DEF p
    <3> QED
      BY <3>1
  <2>9. ASSUME NEW i \in p..(n + 3) PROVE g[i] = DecodeStep(g, s, i)
    <3> HIDE DEF p
    <3>0. i \in Int /\ p \in Int /\ DOMAIN h = 1..(n + 3) /\ i \in DOMAIN h
      BY <1>1, <2>7
    <3>1. g[i] = IF i = p THEN DecodeStep(h, s, p) ELSE h[i]
      BY <3>0
    <3>2. i <= n => g[i + 1] = h[i + 1] /\ g[i + 3] = h[i + 3]
      BY <1>1, <2>7, <3>0
    <3>3. h[i] = DecodeStep(h, s, i) \/ i = p
      BY <1>1, <2>6, <2>7
    <3> HIDE DEF g
    <3>4. DecodeStep(g, s, i) = DecodeStep(h, s, i)
      BY <1>1, <3>0, <3>2 DEF DecodeStep
    <3> QED
      BY <3>1, <3>3, <3>4
  <2> QED
    BY <2>3, <2>8, <2>9
<1>3. n \in 0..n /\ n \notin Bad
  <2> HIDE DEF Bad
  <2> QED
    BY <1>1, <1>2
<1>4. PICK h \in H : Good(h, n)
  BY <1>3
<1>5. \A i \in 1..(n + 3) : h[i] = DecodeStep(h, s, i)
  BY <1>1, <1>4
<1>6. h = [i \in 1..(n + 3) |-> h[i]]
  OBVIOUS
<1>7. h = [i \in 1..(n + 3) |-> DecodeStep(h, s, i)]
  BY <1>5, <1>6
<1> QED
  BY <1>7 DEF Decodes

LEMMA UrlDecodeIs ==
    ASSUME NEW s \in Seq(Nat)
    PROVE  \E h : Decodes(h, s) /\ url_decode(s) = h[1]
<1> DEFINE d == CHOOSE h : Decodes(h, s)
<1>1. Decodes(d, s)
  BY DecoderExists
<1>2. url_decode(s) = d[1]
  BY DEF url_decode, Decodes, DecodeStep
<1> QED
  BY <1>1, <1>2

\* The decoder at a place where the character ch is written.
LEMMA DecodeStepChar ==
    ASSUME NEW s \in Seq(Nat), NEW h, NEW i \in 1..(Len(s) + 1), NEW next \in 1..(Len(s) + 1),
           NEW ch \in Nat, EncodesChar(s, i, next, ch)
    PROVE  i \in 1..Len(s) /\ DecodeStep(h, s, i) = <<ch>> \o h[next]
<1> DEFINE n == Len(s)
<1>1. n \in Nat
  BY LenProperties
<1>2. CASE next = i + 1 /\ s[i] = ch /\ ch \notin {Plus, Percent}
  <2>1. i \in 1..n /\ ~(i > n)
    BY <1>1, <1>2
  <2>2. DecodeStep(h, s, i) = <<ch>> \o h[i + 1]
    BY <1>2, <2>1 DEF DecodeStep
  <2> QED
    BY <1>2, <2>1, <2>2
<1>3. CASE next = i + 1 /\ s[i] = Plus /\ ch = 32
  <2>1. i \in 1..n /\ ~(i > n)
    BY <1>1, <1>3
  <2>2. DecodeStep(h, s, i) = <<ch>> \o h[i + 1]
    BY <1>3, <2>1, SMTT(30) DEF DecodeStep, Plus, Percent
  <2> QED
    BY <1>3, <2>1, <2>2
<1>4. CASE /\ next = i + 3 /\ s[i] = Percent
           /\ {s[i + 1], s[i + 2]} \subseteq Digit \cup LowerHex \cup UpperHex
           /\ ch = 16 * hex_val(s[i + 1]) + hex_val(s[i + 2])
  <2> DEFINE e == Min({i + 2, Len(s)})
             u == SubSeq(s, i, e)
  <2>1. i \in 1..n /\ ~(i > n) /\ i + 2 <= n
    BY <1>1, <1>4, SMTT(30)
  <2>2. e = i + 2
    BY <2>1, EscapeFacts
  <2>3. i \in 1..(n + 1) /\ i + 2 \in 0..n
    BY <1>1, <2>1
  <2>4. Len(u) = 3 /\ u[2] = s[i + 1] /\ u[3] = s[i + 2]
    <3> DEFINE j == i + 2
    <3>1. j \in 0..Len(s) /\ i \in 1..(Len(s) + 1)
      BY <2>3
    <3> HIDE DEF j
    <3>2. /\ Len(SubSeq(s, i, j)) = IF i <= j THEN j - i + 1 ELSE 0
          /\ \A k \in 1..(j - i + 1) : SubSeq(s, i, j)[k] = s[i + k - 1]
      BY <3>1, SubFacts
    <3>3. j = i + 2
      BY DEF j
    <3>4. i <= j /\ j - i + 1 = 3 /\ 2 \in 1..(j - i + 1) /\ 3 \in 1..(j - i + 1)
          /\ i + 2 - 1 = i + 1 /\ i + 3 - 1 = i + 2
      BY <1>1, <3>3
    <3>5. u = SubSeq(s, i, j)
      BY <2>2 DEF j
    <3> HIDE DEF u
    <3> QED
      BY <3>2, <3>4, <3>5
  <2>5. DecodeStep(h, s, i) = Unescape(u) \o h[i + 3]
    BY <1>4, <2>1, Zenon DEF DecodeStep
  <2> HIDE DEF u
  <2>6. Unescape(u) = <<ch>>
    BY <1>4, <2>4, Zenon DEF Unescape
  <2> QED
    BY <1>4, <2>1, <2>5, <2>6
<1> QED
  BY <1>2, <1>3, <1>4 DEF EncodesChar

\* Whatever characters of a text are escaped, decoding gives it back.
LEMMA DecodeEncoded ==
    ASSUME NEW s \in Seq(Nat), NEW t \in Seq(Nat), Encodes(s, t)
    PROVE  url_decode(s) = t
<1> DEFINE m == Len(t)
<1>1. PICK h : Decodes(h, s) /\ url_decode(s) = h[1]
  BY UrlDecodeIs
<1>2. PICK at \in [1..(m + 1) -> 1..(Len(s) + 1)] :
        /\ at[1] = 1 /\ at[m + 1] = Len(s) + 1
        /\ \A k \in 1..m : EncodesChar(s, at[k], at[k + 1], t[k])
  BY DEF Encodes
<1>3. m \in Nat /\ Len(s) \in Nat
  BY LenProperties
<1>4. \A i \in 1..(Len(s) + 3) : h[i] = DecodeStep(h, s, i)
  BY <1>1 DEF Decodes
<1> DEFINE Bad == {d \in 0..m : h[at[m + 1 - d]] # SubSeq(t, m + 1 - d, m)}
<1>5. Bad = {}
  <2> SUFFICES ASSUME Bad # {} PROVE FALSE
    OBVIOUS
  <2>1. Bad \in SUBSET Nat
    BY <1>3
  <2> HIDE DEF Bad
  <2>2. PICK d \in Bad : \A x \in Bad : d <= x
    BY <2>1, LeastNumber
  <2> DEFINE k == m + 1 - d
  <2>3. d \in 0..m /\ h[at[k]] # SubSeq(t, k, m)
    BY DEF Bad
  <2>4. CASE d = 0
    <3>1. k = m + 1
      BY <1>3, <2>4
    <3>2. h[at[k]] = << >>
      <4>1. Len(s) + 1 \in 1..(Len(s) + 3) /\ Len(s) + 1 > Len(s)
        BY <1>3
      <4>2. DecodeStep(h, s, Len(s) + 1) = << >>
        BY <4>1 DEF DecodeStep
      <4> QED
        BY <1>2, <1>4, <3>1, <4>1, <4>2
    <3>3. SubSeq(t, m + 1, m) = << >>
      BY <1>3, SubSeqEmpty
    <3> QED
      BY <2>3, <3>1, <3>2, <3>3
  <2>5. CASE d # 0
    <3>1. d - 1 \in 0..m /\ d - 1 \notin Bad /\ m + 1 - (d - 1) = k + 1
      BY <1>3, <2>2, <2>3, <2>5
    <3>2. h[at[k + 1]] = SubSeq(t, k + 1, m)
      BY <3>1 DEF Bad
    <3>3. k \in 1..m /\ k \in 1..(m + 1) /\ k + 1 \in 1..(m + 1)
      BY <1>3, <2>3, <2>5
    <3> HIDE DEF k
    <3>4. at[k] \in 1..(Len(s) + 1) /\ at[k + 1] \in 1..(Len(s) + 1) /\ t[k] \in Nat
      BY <3>3, ElementOfSeq
    <3>5. EncodesChar(s, at[k], at[k + 1], t[k])
      BY <1>2, <3>3
    <3>6. at[k] \in 1..Len(s) /\ DecodeStep(h, s, at[k]) = <<t[k]>> \o h[at[k + 1]]
      BY <3>4, <3>5, DecodeStepChar
    <3>7. at[k] \in 1..(Len(s) + 3)
      BY <1>3, <3>6
    <3>8. h[at[k]] = SubSeq(t, k, m)
      <4>1. m \in k..Len(t)
        BY <1>3, <3>3
      <4> QED
        BY <4>1, <1>4, <3>2, <3>3, <3>6, <3>7, SubSeqRecursiveFirst
    <3> QED
      BY <2>3, <3>8
  <2> QED
    BY <2>4, <2>5
<1>6. h[at[1]] = SubSeq(t, 1, m)
  <2>1. m \in 0..m /\ m + 1 - m = 1 /\ m \notin Bad
    <3> HIDE DEF Bad
    <3> QED
      BY <1>3, <1>5
  <2> QED
    BY <2>1
<1> QED
  BY <1>1, <1>2, <1>6, SubSeqFull

----------------------------------------------------------------------------
(* Splitting *)

\* The values of an increasing function below its k-th are k - 1.
LEMMA CountBelow ==
    ASSUME NEW n \in Nat, NEW at \in [1..n -> Nat],
           \A j, k \in 1..n : j < k => at[j] < at[k],
           NEW k \in 1..(n + 1), NEW T, T = {at[j] : j \in 1..(k - 1)}
    PROVE  Cardinality(T) = k - 1
<1> DEFINE D == 1..(k - 1)
           f == [j \in D |-> at[j]]
<1>1. D \subseteq 1..n
  OBVIOUS
<1>2. f \in [D -> T]
  BY <1>1
<1>3. \A a, b \in D : f[a] = f[b] => a = b
  <2> SUFFICES ASSUME NEW a \in D, NEW b \in D, f[a] = f[b], a # b PROVE FALSE
    OBVIOUS
  <2>1. a \in 1..n /\ b \in 1..n /\ at[a] = at[b] /\ at[a] \in Nat
    BY <1>1
  <2>2. a < b \/ b < a
    BY <2>1
  <2> QED
    BY <2>1, <2>2
<1>4. \A y \in T : \E j \in D : f[j] = y
  OBVIOUS
<1>5. f \in Bijection(D, T)
  <2> HIDE DEF f, D
  <2>1. DOMAIN f = D
    BY <1>2
  <2> QED
    BY <1>2, <1>3, <1>4, <2>1 DEF Bijection, Injection, Surjection, IsInjective
<1>6. ExistsBijection(D, T)
  BY <1>5 DEF ExistsBijection
<1> HIDE DEF f
<1>7. k - 1 \in Int /\ IsFiniteSet(D) /\ Cardinality(D) = k - 1
  <2> DEFINE b == k - 1
  <2>1. b \in Nat
    OBVIOUS
  <2> HIDE DEF b
  <2>2. IsFiniteSet(1..b) /\ Cardinality(1..b) = IF 1 > b THEN 0 ELSE b - 1 + 1
    BY <2>1, FS_Interval
  <2>3. IsFiniteSet(1..b) /\ Cardinality(1..b) = b
    BY <2>1, <2>2
  <2> QED
    BY <2>1, <2>3 DEF b
<1> HIDE DEF D
<1> QED
  BY <1>6, <1>7, FS_Bijection

LEMMA SplitJoined ==
    ASSUME NEW S, NEW s \in Seq(S), NEW parts \in Seq(Seq(S)), NEW c, Joins(s, parts, c)
    PROVE  Split(s, c) = parts
<1> DEFINE n == Len(s)
           m == Len(parts)
           cuts == {0, n + 1} \cup {i \in 1..n : s[i] = c}
           Cut(k) == CHOOSE i \in cuts : Cardinality({j \in cuts : j < i}) = k
<1>1. n \in Nat /\ m \in Nat /\ cuts \in SUBSET (0..(n + 1))
  BY LenProperties
<1>2. PICK at \in [1..(m + 1) -> cuts] :
        /\ at[1] = 0 /\ at[m + 1] = n + 1
        /\ \A j, k \in 1..(m + 1) : j < k => at[j] < at[k]
        /\ \A k \in 1..m : parts[k] = SubSeq(s, at[k] + 1, at[k + 1] - 1) /\ c \notin ToSet(parts[k])
  BY DEF Joins
<1>3. \A i \in cuts : \E k \in 1..(m + 1) : at[k] = i
  <2> SUFFICES ASSUME NEW i \in cuts, \A k \in 1..(m + 1) : at[k] # i PROVE FALSE
    OBVIOUS
  <2>1. i \in 1..n /\ s[i] = c
    <3>1. 1 \in 1..(m + 1) /\ m + 1 \in 1..(m + 1)
      BY <1>1
    <3>2. i # 0 /\ i # n + 1
      BY <1>2, <3>1
    <3> QED
      BY <3>2
  <2> DEFINE K == {k \in 1..(m + 1) : at[k] > i}
  <2>2. m + 1 \in K /\ K \in SUBSET Nat
    BY <1>1, <1>2, <2>1
  <2> HIDE DEF K
  <2>3. PICK k \in K : \A x \in K : k <= x
    BY <2>2, LeastNumber
  <2>4. k \in 1..(m + 1) /\ at[k] > i
    BY DEF K
  <2>5. k # 1
    BY <1>2, <2>1, <2>4
  <2> DEFINE p == k - 1
  <2>6. p \in 1..m /\ p \in 1..(m + 1) /\ p + 1 = k /\ p \notin K
    BY <1>1, <2>3, <2>4, <2>5
  <2> HIDE DEF p
  <2>7. at[p] \in 0..(n + 1) /\ at[k] \in 0..(n + 1) /\ at[p] # i /\ ~(at[p] > i)
    BY <1>1, <2>4, <2>6 DEF K
  <2> DEFINE a == at[p] + 1
             b == at[k] - 1
             j == i - at[p]
  <2>8. a \in 1..(n + 1) /\ b \in 0..n /\ j \in 1..(b - a + 1) /\ a + j - 1 = i /\ a <= b
    <3> DEFINE x == at[p]
               y == at[k]
    <3> HIDE DEF x, y
    <3>1. x \in 0..(n + 1) /\ y \in 0..(n + 1) /\ x # i /\ ~(x > i) /\ y > i /\ i \in 1..n
      BY <2>1, <2>4, <2>7 DEF x, y
    <3>2. /\ x + 1 \in 1..(n + 1) /\ y - 1 \in 0..n
          /\ i - x \in 1..((y - 1) - (x + 1) + 1) /\ (x + 1) + (i - x) - 1 = i /\ x + 1 <= y - 1
      BY <1>1, <3>1
    <3> QED
      BY <3>2 DEF x, y
  <2>9. parts[p] = SubSeq(s, a, b) /\ c \notin ToSet(parts[p])
    BY <1>2, <2>6
  <2> HIDE DEF a, b, j
  <2>10. parts[p] \in Seq(S) /\ Len(parts[p]) = b - a + 1 /\ parts[p][j] = s[i]
    BY <2>8, <2>9, SubFacts, SMTT(30)
  <2>11. DOMAIN parts[p] = 1..(b - a + 1)
    BY <2>10, LenProperties
  <2> QED
    BY <2>1, <2>8, <2>9, <2>10, <2>11 DEF ToSet
<1>4. at \in [1..(m + 1) -> Nat]
  BY <1>1, <1>2
<1>5. ASSUME NEW k \in 1..(m + 1) PROVE Cardinality({j \in cuts : j < at[k]}) = k - 1
  <2> HIDE DEF cuts
  <2> DEFINE T == {j \in cuts : j < at[k]}
  <2>1. T = {at[j] : j \in 1..(k - 1)}
    <3>1. ASSUME NEW x \in T PROVE x \in {at[j] : j \in 1..(k - 1)}
      <4>1. PICK j \in 1..(m + 1) : at[j] = x
        BY <1>3
      <4>2. at[j] < at[k] /\ at[j] \in Nat /\ at[k] \in Nat
        BY <1>4, <4>1
      <4>3. ~(k < j) /\ k # j
        BY <1>2, <4>2
      <4>4. j \in 1..(k - 1)
        BY <1>1, <4>3
      <4> QED
        BY <4>1, <4>4
    <3>2. ASSUME NEW j \in 1..(k - 1) PROVE at[j] \in T
      <4>1. j \in 1..(m + 1) /\ j < k
        BY <1>1
      <4> QED
        BY <1>2, <4>1
    <3> QED
      BY <3>1, <3>2
  <2> DEFINE N == m + 1
  <2>2. N \in Nat /\ at \in [1..N -> Nat] /\ k \in 1..(N + 1)
        /\ \A x, y \in 1..N : x < y => at[x] < at[y]
    BY <1>1, <1>2, <1>4
  <2> HIDE DEF T, N
  <2>3. Cardinality(T) = k - 1
    BY <2>1, <2>2, CountBelow
  <2> QED
    BY <2>3 DEF T
<1>6. Cardinality(cuts) = m + 1
  <2>1. cuts = {at[j] : j \in 1..((m + 2) - 1)}
    <3>1. (m + 2) - 1 = m + 1
      BY <1>1
    <3> HIDE DEF cuts
    <3> QED
      BY <1>2, <1>3, <3>1
  <2> DEFINE N == m + 1
             q == m + 2
  <2>2. N \in Nat /\ at \in [1..N -> Nat] /\ q \in 1..(N + 1)
        /\ \A x, y \in 1..N : x < y => at[x] < at[y]
    BY <1>1, <1>2, <1>4
  <2>3. cuts = {at[j] : j \in 1..(q - 1)}
    BY <2>1
  <2>4. q - 1 = m + 1
    BY <1>1
  <2> HIDE DEF cuts, N, q
  <2>5. Cardinality(cuts) = q - 1
    BY <2>2, <2>3, CountBelow
  <2> QED
    BY <2>4, <2>5
<1>7. ASSUME NEW k \in 0..m PROVE Cut(k) = at[k + 1]
  <2> HIDE DEF cuts
  <2>1. k + 1 \in 1..(m + 1) /\ (k + 1) - 1 = k
    BY <1>1
  <2>2. at[k + 1] \in cuts /\ Cardinality({j \in cuts : j < at[k + 1]}) = k
    BY <1>2, <1>5, <2>1
  <2>3. ASSUME NEW i \in cuts, Cardinality({j \in cuts : j < i}) = k PROVE i = at[k + 1]
    <3>1. PICK x \in 1..(m + 1) : at[x] = i
      BY <1>3
    <3>2. x - 1 = k
      BY <1>5, <2>3, <3>1
    <3>3. x = k + 1
      BY <1>1, <3>2
    <3> QED
      BY <3>1, <3>3
  <2> QED
    BY <2>2, <2>3
<1>8. Split(s, c) = [k \in 1..(Cardinality(cuts) - 1) |-> SubSeq(s, Cut(k - 1) + 1, Cut(k) - 1)]
  BY DEF Split
<1>9. Cardinality(cuts) - 1 = m
  BY <1>1, <1>6
<1> HIDE DEF Cut, cuts
<1>10. ASSUME NEW k \in 1..m PROVE SubSeq(s, Cut(k - 1) + 1, Cut(k) - 1) = parts[k]
  <2>1. k - 1 \in 0..m /\ k \in 0..m /\ (k - 1) + 1 = k
    BY <1>1
  <2>2. Cut(k - 1) = at[k] /\ Cut(k) = at[k + 1]
    BY <1>7, <2>1
  <2> QED
    BY <1>2, <2>2
<1>11. parts = [k \in 1..m |-> parts[k]]
  BY LenProperties
<1> QED
  BY <1>8, <1>9, <1>10, <1>11

----------------------------------------------------------------------------
(* Segments of a text *)

LEMMA SubSub ==
    ASSUME NEW S, NEW s \in Seq(S), NEW i \in 1..(Len(s) + 1), NEW j \in (i - 1)..Len(s),
           NEW a \in 1..(j - i + 2), NEW b \in (a - 1)..(j - i + 1)
    PROVE  SubSeq(SubSeq(s, i, j), a, b) = SubSeq(s, i + a - 1, i + b - 1)
<1> DEFINE u == SubSeq(s, i, j)
           x == i + a - 1
           y == i + b - 1
<1>0. Len(s) \in Nat /\ i \in Int /\ j \in Int /\ a \in Int /\ b \in Int
  BY LenProperties
<1>1. j \in 0..Len(s) /\ i <= j + 1 /\ x \in 1..(Len(s) + 1) /\ y \in 0..Len(s) /\ x <= y + 1
  BY <1>0
<1>2. u \in Seq(S) /\ Len(u) = j - i + 1 /\ \A k \in 1..(j - i + 1) : u[k] = s[i + k - 1]
  BY <1>0, <1>1, SubFacts
<1> HIDE DEF u
<1>3. a \in 1..(Len(u) + 1) /\ b \in 0..Len(u)
  BY <1>0, <1>2
<1>4. /\ SubSeq(u, a, b) \in Seq(S) /\ Len(SubSeq(u, a, b)) = b - a + 1
      /\ \A k \in 1..(b - a + 1) : SubSeq(u, a, b)[k] = u[a + k - 1]
  BY <1>0, <1>2, <1>3, SubFacts
<1>5. /\ SubSeq(s, x, y) \in Seq(S) /\ Len(SubSeq(s, x, y)) = b - a + 1
      /\ \A k \in 1..(b - a + 1) : SubSeq(s, x, y)[k] = s[x + k - 1]
  <2>1. y - x + 1 = b - a + 1 /\ (x <= y <=> a <= b)
    BY <1>0
  <2> HIDE DEF x, y
  <2>2. /\ SubSeq(s, x, y) \in Seq(S)
        /\ Len(SubSeq(s, x, y)) = IF x <= y THEN y - x + 1 ELSE 0
        /\ \A k \in 1..(y - x + 1) : SubSeq(s, x, y)[k] = s[x + k - 1]
    BY <1>1, SubFacts
  <2>3. Len(SubSeq(s, x, y)) = b - a + 1
    BY <1>0, <2>1, <2>2
  <2> QED
    BY <2>1, <2>2, <2>3
<1>6. ASSUME NEW k \in 1..(b - a + 1) PROVE SubSeq(u, a, b)[k] = SubSeq(s, x, y)[k]
  <2>1. a + k - 1 \in 1..(j - i + 1) /\ i + (a + k - 1) - 1 = x + k - 1
    BY <1>0
  <2>2. u[a + k - 1] = s[x + k - 1]
    BY <1>2, <2>1
  <2> QED
    BY <1>4, <1>5, <2>2
<1> HIDE DEF x, y
<1>7. SubSeq(u, a, b) = SubSeq(s, x, y)
  BY <1>4, <1>5, <1>6, SeqEqual
<1> QED
  BY <1>7 DEF u, x, y

\* Of the segment a..b of s, only i..j is left when C is trimmed off.
Pads(s, a, b, i, j, C) ==
    /\ i \in a..(b + 1) /\ j \in (a - 1)..b
    /\ \A k \in a..b : k < i \/ k > j => s[k] \in C
    /\ i <= j => s[i] \notin C /\ s[j] \notin C

LEMMA SegmentPadded ==
    ASSUME NEW S, NEW s \in Seq(S), NEW a \in 1..(Len(s) + 1), NEW b \in (a - 1)..Len(s),
           NEW t, NEW C, Padded(SubSeq(s, a, b), t, C)
    PROVE  \E i \in a..(b + 1), j \in (a - 1)..b :
                Pads(s, a, b, i, j, C) /\ t = SubSeq(s, i, j)
<1> DEFINE u == SubSeq(s, a, b)
           m == b - a + 1
<1>0. Len(s) \in Nat /\ a \in Int /\ b \in Int /\ b \in 0..Len(s) /\ m \in Nat
  BY LenProperties
<1>1. u \in Seq(S) /\ Len(u) = m /\ \A k \in 1..m : u[k] = s[a + k - 1]
  BY <1>0, SubFacts
<1>2. PICK i \in 1..(m + 1), j \in 0..m :
        /\ t = SubSeq(u, i, j)
        /\ \A k \in 1..m : k < i \/ k > j => u[k] \in C
        /\ i <= j => u[i] \notin C /\ u[j] \notin C
  <2> HIDE DEF u
  <2> QED
    BY <1>1 DEF Padded, u
<1> HIDE DEF u
<1>3. CASE i <= j
  <2> DEFINE x == a + i - 1
             y == a + j - 1
  <2>1. x \in a..(b + 1) /\ y \in (a - 1)..b
    BY <1>0
  <2>2. t = SubSeq(s, x, y)
    <3>1. i \in 1..(b - a + 2) /\ j \in (i - 1)..(b - a + 1)
      BY <1>0, <1>3
    <3> QED
      BY <1>2, <3>1, SubSub DEF u
  <2>3. ASSUME NEW k \in a..b, k < x \/ k > y PROVE s[k] \in C
    <3>1. k - a + 1 \in 1..m /\ (k - a + 1 < i \/ k - a + 1 > j) /\ a + (k - a + 1) - 1 = k
      BY <1>0, <2>3
    <3> QED
      BY <1>1, <1>2, <3>1
  <2>4. s[x] \notin C /\ s[y] \notin C
    <3>1. i \in 1..m /\ j \in 1..m
      BY <1>0, <1>3
    <3> QED
      BY <1>1, <1>2, <1>3, <3>1
  <2> HIDE DEF x, y
  <2>5. Pads(s, a, b, x, y, C)
    BY <2>1, <2>3, <2>4 DEF Pads
  <2> QED
    BY <2>1, <2>2, <2>5
<1>4. CASE i > j
  <2> DEFINE x == b + 1
             y == a - 1
  <2>1. x \in a..(b + 1) /\ y \in (a - 1)..b /\ x > y
    BY <1>0
  <2>2. t = SubSeq(s, x, y)
    <3>1. SubSeq(u, i, j) = << >>
      BY <1>4, SubSeqEmpty
    <3>2. SubSeq(s, x, y) = << >>
      BY <1>0, <2>1, SubSeqEmpty
    <3> QED
      BY <1>2, <3>1, <3>2
  <2>3. ASSUME NEW k \in a..b PROVE s[k] \in C
    <3>1. k - a + 1 \in 1..m /\ (k - a + 1 < i \/ k - a + 1 > j) /\ a + (k - a + 1) - 1 = k
      BY <1>0, <1>4
    <3> QED
      BY <1>1, <1>2, <3>1
  <2>4. ~(x <= y)
    BY <1>0
  <2> HIDE DEF x, y
  <2>5. Pads(s, a, b, x, y, C)
    BY <2>1, <2>3, <2>4 DEF Pads
  <2> QED
    BY <2>1, <2>2, <2>5
<1> QED
  BY <1>0, <1>3, <1>4

LEMMA SegmentTrimmed ==
    ASSUME NEW S, NEW s \in Seq(S), NEW a \in 1..(Len(s) + 1), NEW b \in (a - 1)..Len(s),
           NEW i \in Int, NEW j \in Int, NEW C, Pads(s, a, b, i, j, C)
    PROVE  Trim(SubSeq(s, a, b), C) = SubSeq(s, i, j)
<1> DEFINE u == SubSeq(s, a, b)
           m == b - a + 1
           x == IF i <= j THEN i - a + 1 ELSE m + 1
           y == IF i <= j THEN j - a + 1 ELSE 0
<1>0. Len(s) \in Nat /\ a \in Int /\ b \in Int /\ b \in 0..Len(s) /\ m \in Nat
  BY LenProperties
<1>1. u \in Seq(S) /\ Len(u) = m /\ \A k \in 1..m : u[k] = s[a + k - 1]
  BY <1>0, SubFacts
<1> HIDE DEF u
<1>2. /\ i \in a..(b + 1) /\ j \in (a - 1)..b
      /\ \A k \in a..b : k < i \/ k > j => s[k] \in C
      /\ i <= j => s[i] \notin C /\ s[j] \notin C
  BY DEF Pads
<1>3. x \in 1..(m + 1) /\ y \in 0..m
  BY <1>0, <1>2
<1>4. SubSeq(u, x, y) = SubSeq(s, i, j)
  <2>1. CASE i <= j
    <3>1. x \in 1..(b - a + 2) /\ y \in (x - 1)..(b - a + 1) /\ a + x - 1 = i /\ a + y - 1 = j
      BY <1>0, <1>2, <2>1
    <3> HIDE DEF x, y
    <3>2. SubSeq(SubSeq(s, a, b), x, y) = SubSeq(s, a + x - 1, a + y - 1)
      BY <3>1, SubSub
    <3> QED
      BY <3>1, <3>2 DEF u
  <2>2. CASE i > j
    <3>1. x \in Int /\ y \in Int /\ x > y
      BY <1>0, <2>2
    <3> HIDE DEF x, y
    <3>2. SubSeq(u, x, y) = << >> /\ SubSeq(s, i, j) = << >>
      BY <2>2, <3>1, SubSeqEmpty
    <3> QED
      BY <3>2
  <2> QED
    BY <2>1, <2>2
<1>5. ASSUME NEW k \in 1..m, k < x \/ k > y PROVE u[k] \in C
  <2>1. a + k - 1 \in a..b /\ (a + k - 1 < i \/ a + k - 1 > j)
    BY <1>0, <1>2, <1>5
  <2> QED
    BY <1>1, <1>2, <2>1
<1>6. x <= y => u[x] \notin C /\ u[y] \notin C
  <2> SUFFICES ASSUME x <= y PROVE u[x] \notin C /\ u[y] \notin C
    OBVIOUS
  <2>1. i <= j
    BY <1>0
  <2>2. x \in 1..m /\ y \in 1..m /\ a + x - 1 = i /\ a + y - 1 = j
    BY <1>0, <1>2, <2>1
  <2> HIDE DEF x, y
  <2> QED
    BY <1>1, <1>2, <2>1, <2>2
<1> HIDE DEF x, y
<1>7. Padded(u, SubSeq(s, i, j), C)
  BY <1>1, <1>3, <1>4, <1>5, <1>6 DEF Padded
<1>8. Trim(u, C) = SubSeq(s, i, j)
  BY <1>1, <1>7, TrimPadded
<1> QED
  BY <1>8 DEF u

----------------------------------------------------------------------------
(* Pairs *)

LEMMA InfixType ==
    ASSUME NEW S, NEW s \in Seq(S), NEW t \in Infixes(s)
    PROVE  t \in Seq(S)
<1>1. PICK i \in 1..(Len(s) + 1), j \in 0..Len(s) : t = SubSeq(s, i, j)
  BY DEF Infixes
<1> QED
  BY <1>1, SubFacts

\* A sequence around a separator.
LEMMA AroundFacts ==
    ASSUME NEW S, NEW k \in Seq(S), NEW v \in Seq(S), NEW e \in S, NEW s, s = k \o <<e>> \o v
    PROVE  LET q == Len(k) + 1 IN
           /\ s \in Seq(S) /\ Len(s) = q + Len(v) /\ q \in 1..Len(s) /\ s[q] = e
           /\ k = SubSeq(s, 1, q - 1) /\ v = SubSeq(s, q + 1, Len(s))
<1> DEFINE q == Len(k) + 1
           c == <<e>>
           a == k \o c
<1>1. Len(k) \in Nat /\ Len(v) \in Nat /\ c \in Seq(S) /\ Len(c) = 1 /\ c[1] = e
  BY LenProperties
<1> HIDE DEF c
<1>2. /\ a \in Seq(S) /\ Len(a) = Len(k) + Len(c)
      /\ \A i \in 1..(Len(k) + Len(c)) : a[i] = IF i <= Len(k) THEN k[i] ELSE c[i - Len(k)]
  BY <1>1, ConcatProperties
<1>a. a \in Seq(S)
  BY <1>2
<1> HIDE DEF a
<1>3. /\ a \o v \in Seq(S) /\ Len(a \o v) = Len(a) + Len(v)
      /\ \A i \in 1..(Len(a) + Len(v)) : (a \o v)[i] = IF i <= Len(a) THEN a[i] ELSE v[i - Len(a)]
  BY <1>a, ConcatProperties
<1>4. s = a \o v
  BY DEF a, c
<1>5. Len(a) = q /\ q \in Nat
  BY <1>1, <1>2
<1>6. s \in Seq(S) /\ Len(s) = q + Len(v) /\ q \in 1..Len(s)
  BY <1>1, <1>3, <1>4, <1>5
<1>7. \A i \in 1..Len(k) : s[i] = k[i]
  BY <1>1, <1>2, <1>3, <1>4, <1>5
<1>8. s[q] = e
  <2>1. q \in 1..(Len(k) + Len(c)) /\ ~(q <= Len(k)) /\ q - Len(k) = 1
        /\ q \in 1..(Len(a) + Len(v)) /\ q <= Len(a)
    BY <1>1, <1>5
  <2> HIDE DEF q
  <2> QED
    BY <1>1, <1>2, <1>3, <1>4, <2>1
<1>9. \A i \in 1..Len(v) : s[q + i] = v[i]
  <2> SUFFICES ASSUME NEW i \in 1..Len(v) PROVE s[q + i] = v[i]
    OBVIOUS
  <2>1. q + i \in 1..(Len(a) + Len(v)) /\ ~(q + i <= Len(a)) /\ (q + i) - Len(a) = i
    BY <1>1, <1>5
  <2> HIDE DEF q
  <2> QED
    BY <1>3, <1>4, <2>1
<1>10. k = SubSeq(s, 1, q - 1)
  <2> DEFINE r == q - 1
             w == SubSeq(s, 1, r)
  <2>1. r = Len(k) /\ r \in 0..Len(s) /\ 1 \in 1..(Len(s) + 1)
    BY <1>1, <1>6
  <2> HIDE DEF r
  <2>2. /\ w \in Seq(S) /\ Len(w) = IF 1 <= r THEN r - 1 + 1 ELSE 0
        /\ \A i \in 1..(r - 1 + 1) : w[i] = s[1 + i - 1]
    BY <1>6, <2>1, SubFacts
  <2> HIDE DEF w
  <2>3. Len(w) = Len(k) /\ \A i \in 1..Len(k) : w[i] = s[i]
    BY <1>1, <2>1, <2>2
  <2>4. k = w
    BY <1>7, <2>2, <2>3, SeqEqual
  <2> QED
    BY <2>4 DEF w, r
<1>11. v = SubSeq(s, q + 1, Len(s))
  <2> DEFINE r == q + 1
             w == SubSeq(s, r, Len(s))
  <2>1. r \in 1..(Len(s) + 1) /\ Len(s) \in 0..Len(s) /\ r = q + 1
    BY <1>1, <1>6
  <2> HIDE DEF r
  <2>2. /\ w \in Seq(S) /\ Len(w) = IF r <= Len(s) THEN Len(s) - r + 1 ELSE 0
        /\ \A i \in 1..(Len(s) - r + 1) : w[i] = s[r + i - 1]
    BY <1>6, <2>1, SubFacts
  <2> HIDE DEF w
  <2>3. Len(s) - r + 1 = Len(v) /\ Len(w) = Len(v)
    BY <1>1, <1>5, <1>6, <2>1, <2>2
  <2>4. ASSUME NEW i \in 1..Len(v) PROVE w[i] = v[i]
    <3>1. r + i - 1 = q + i
      BY <1>5, <2>1
    <3> QED
      BY <1>9, <2>2, <2>3, <3>1
  <2>5. v = w
    BY <2>2, <2>3, <2>4, SeqEqual
  <2> QED
    BY <2>5 DEF w, r
<1> QED
  BY <1>6, <1>8, <1>10, <1>11

LEMMA SplitOnceNone ==
    ASSUME NEW S, NEW s \in Seq(S), NEW c, \A i \in 1..Len(s) : s[i] # c
    PROVE  SplitOnce(s, c) = <<s, << >>>>
<1>1. Find(s, c) = 0
  <2>1. Len(s) \in Nat
    BY LenProperties
  <2> QED
    BY <2>1, FindFacts
<1> QED
  BY <1>1 DEF SplitOnce

LEMMA NotInSet ==
    ASSUME NEW S, NEW s \in Seq(S), NEW c
    PROVE  c \notin ToSet(s) <=> \A i \in 1..Len(s) : s[i] # c
<1>1. DOMAIN s = 1..Len(s)
  BY LenProperties
<1> QED
  BY <1>1 DEF ToSet

LEMMA SplitPair ==
    ASSUME NEW S, Equals \in S,
           NEW s \in Seq(S), NEW k \in Seq(S), NEW v \in Seq(S), IsPair(s, k, v)
    PROVE  SplitOnce(s, Equals) = <<k, v>>
<1>1. \A i \in 1..Len(k) : k[i] # Equals
  BY NotInSet DEF IsPair
<1>2. CASE s = k \o <<Equals>> \o v
  <2> DEFINE q == Len(k) + 1
  <2>1. Equals \in S /\ Len(k) \in Nat
    BY LenProperties
  <2>2. /\ Len(s) = q + Len(v) /\ q \in 1..Len(s) /\ s[q] = Equals
        /\ k = SubSeq(s, 1, q - 1) /\ v = SubSeq(s, q + 1, Len(s))
    BY <1>2, <2>1, AroundFacts
  <2>3. ASSUME NEW i \in 1..(q - 1) PROVE s[i] # Equals
    <3>1. i \in 1..Len(k)
      BY <2>1
    <3> DEFINE r == q - 1
    <3>2. r \in 0..Len(s) /\ 1 \in 1..(Len(s) + 1) /\ i \in 1..(r - 1 + 1) /\ 1 + i - 1 = i
      <4>1. Len(s) \in Nat /\ Len(k) + 1 \in 1..Len(s)
        BY <2>2, LenProperties
      <4> QED
        BY <2>1, <4>1
    <3> HIDE DEF r
    <3>3. SubSeq(s, 1, r)[i] = s[i]
      BY <3>2, SubFacts
    <3> QED
      BY <1>1, <2>2, <3>1, <3>3 DEF r
  <2>4. q \in 1..Len(s) /\ s[q] = Equals /\ \A i \in 1..(q - 1) : s[i] # Equals
    BY <2>2, <2>3
  <2> HIDE DEF q
  <2>5. Find(s, Equals) = q /\ q # 0
    BY <2>4, FindIs
  <2> QED
    BY <2>2, <2>5 DEF SplitOnce
<1>3. CASE s = k /\ v = << >>
  BY <1>1, <1>3, SplitOnceNone
<1> QED
  BY <1>2, <1>3 DEF IsPair

\* What extract_query_param makes of a parameter.
LEMMA ParamDecoded ==
    ASSUME NEW p \in [name : Seq(Nat), value : Seq(Nat), text : Seq(Nat)], WritesParam(p)
    PROVE  /\ url_decode(SplitOnce(p.text, Equals)[1]) = p.name
           /\ url_decode(SplitOnce(p.text, Equals)[2]) = p.value
<1>1. PICK k \in Infixes(p.text), v \in Infixes(p.text) :
        IsPair(p.text, k, v) /\ Encodes(k, p.name) /\ Encodes(v, p.value)
  BY DEF WritesParam
<1>2. p.text \in Seq(Nat) /\ p.name \in Seq(Nat) /\ p.value \in Seq(Nat)
  OBVIOUS
<1>3. k \in Seq(Nat) /\ v \in Seq(Nat)
  BY <1>2, InfixType
<1>4. SplitOnce(p.text, Equals) = <<k, v>>
  <2>1. Equals \in Nat
    BY DEF Equals
  <2> QED
    BY <1>1, <1>2, <1>3, <2>1, SplitPair, ZenonT(30)
<1>5. url_decode(k) = p.name /\ url_decode(v) = p.value
  BY <1>1, <1>2, <1>3, DecodeEncoded
<1> QED
  BY <1>4, <1>5

\* Trimming a pair before splitting it takes blanks off its ends only.
LEMMA SplitTrimmed ==
    ASSUME NEW s \in Seq(Nat), NEW k \in Seq(Nat), NEW v \in Seq(Nat), IsPair(s, k, v),
           NEW name, Padded(k, name, Space), NEW w, Padded(v, w, Space)
    PROVE  LET kv == SplitOnce(Trim(s, Space), Equals)
           IN  Trim(kv[1], Space) = name /\ Trim(kv[2], Space) = w
<1> DEFINE n == Len(s)
           kv == SplitOnce(Trim(s, Space), Equals)
<1>0. n \in Nat /\ Equals \in Nat /\ Equals \notin Space
  BY LenProperties DEF Equals, Space
<1>1. \A i \in 1..Len(k) : k[i] # Equals
  BY NotInSet DEF IsPair
<1>2. CASE s = k \o <<Equals>> \o v
  <2>1. PICK q \in 1..n :
            /\ s[q] = Equals /\ q = Len(k) + 1
            /\ k = SubSeq(s, 1, q - 1) /\ v = SubSeq(s, q + 1, n)
    <3> DEFINE r == Len(k) + 1
    <3>1. /\ r \in 1..Len(s) /\ s[r] = Equals
          /\ k = SubSeq(s, 1, r - 1) /\ v = SubSeq(s, r + 1, Len(s))
      BY <1>0, <1>2, AroundFacts
    <3>2. r = Len(k) + 1
      OBVIOUS
    <3> HIDE DEF r
    <3> QED
      BY <3>1, <3>2
  <2>2. ASSUME NEW i \in 1..(q - 1) PROVE s[i] # Equals
    <3> DEFINE r == q - 1
    <3>1. r \in 0..Len(s) /\ 1 \in 1..(Len(s) + 1) /\ i \in 1..(r - 1 + 1) /\ 1 + i - 1 = i
      BY <1>0
    <3>2. i \in 1..Len(k)
      BY <2>1, LenProperties
    <3>3. k = SubSeq(s, 1, r)
      BY <2>1
    <3> HIDE DEF r
    <3>4. SubSeq(s, 1, r)[i] = s[i]
      BY <3>1, SubFacts
    <3> QED
      BY <1>1, <3>2, <3>3, <3>4
  <2>3. PICK i1 \in 1..q, j1 \in 0..(q - 1) :
            Pads(s, 1, q - 1, i1, j1, Space) /\ name = SubSeq(s, i1, j1)
    <3> DEFINE r == q - 1
    <3>1. 1 \in 1..(n + 1) /\ r \in (1 - 1)..n /\ r + 1 = q
      BY <1>0
    <3>2. Padded(SubSeq(s, 1, r), name, Space)
      BY <2>1
    <3> HIDE DEF r
    <3>3. \E i \in 1..(r + 1), j \in (1 - 1)..r :
            Pads(s, 1, r, i, j, Space) /\ name = SubSeq(s, i, j)
      BY <3>1, <3>2, SegmentPadded
    <3> QED
      BY <3>1, <3>3 DEF r
  <2>4. PICK i2 \in (q + 1)..(n + 1), j2 \in q..n :
            Pads(s, q + 1, n, i2, j2, Space) /\ w = SubSeq(s, i2, j2)
    <3> DEFINE r == q + 1
    <3>1. r \in 1..(n + 1) /\ n \in (r - 1)..n /\ r - 1 = q
      BY <1>0
    <3>2. Padded(SubSeq(s, r, n), w, Space)
      BY <2>1
    <3> DEFINE b == n
    <3>3. r \in 1..(Len(s) + 1) /\ b \in (r - 1)..Len(s) /\ Padded(SubSeq(s, r, b), w, Space)
      BY <3>1, <3>2
    <3> HIDE DEF r, b
    <3>4. \E i \in r..(b + 1), j \in (r - 1)..b :
            Pads(s, r, b, i, j, Space) /\ w = SubSeq(s, i, j)
      BY <3>3, SegmentPadded
    <3> QED
      BY <3>1, <3>4 DEF r, b
  <2> DEFINE i == IF i1 <= j1 THEN i1 ELSE q
             j == IF i2 <= j2 THEN j2 ELSE q
             T == SubSeq(s, i, j)
  <2>5. i \in 1..q /\ j \in q..n /\ i \in Int /\ j \in Int /\ q \in Int /\ i1 \in Int /\ j1 \in Int
        /\ i2 \in Int /\ j2 \in Int
    BY <1>0
  <2>6. /\ \A x \in 1..(q - 1) : x < i1 \/ x > j1 => s[x] \in Space
        /\ i1 <= j1 => s[i1] \notin Space /\ s[j1] \notin Space
        /\ \A x \in (q + 1)..n : x < i2 \/ x > j2 => s[x] \in Space
        /\ i2 <= j2 => s[i2] \notin Space /\ s[j2] \notin Space
    BY <2>3, <2>4 DEF Pads
  <2>7. Pads(s, 1, n, i, j, Space)
    <3>1. i \in 1..(n + 1) /\ j \in (1 - 1)..n
      BY <1>0, <2>5
    <3>2. ASSUME NEW x \in 1..n, x < i \/ x > j PROVE s[x] \in Space
      <4>1. CASE x < i
        <5>1. x \in 1..(q - 1) /\ (x < i1 \/ x > j1)
          BY <1>0, <2>5, <4>1
        <5> QED
          BY <2>6, <5>1
      <4>2. CASE x > j
        <5>1. x \in (q + 1)..n /\ (x < i2 \/ x > j2)
          BY <1>0, <2>5, <4>2
        <5> QED
          BY <2>6, <5>1
      <4> QED
        BY <3>2, <4>1, <4>2
    <3>3. s[i] \notin Space /\ s[j] \notin Space
      <4>1. s[q] \notin Space
        BY <1>0, <2>1
      <4> QED
        BY <2>6, <4>1
    <3> HIDE DEF i, j
    <3> QED
      BY <3>1, <3>2, <3>3 DEF Pads
  <2> HIDE DEF i, j
  <2>8. Trim(s, Space) = T
    <3>1. SubSeq(s, 1, n) = s
      BY SubSeqFull
    <3>2. 1 \in 1..(n + 1) /\ n \in (1 - 1)..n
      BY <1>0
    <3> DEFINE a == 1
               b == n
    <3>3. a \in 1..(Len(s) + 1) /\ b \in (a - 1)..Len(s) /\ Pads(s, a, b, i, j, Space)
      BY <2>7, <3>2
    <3> HIDE DEF a, b
    <3>4. Trim(SubSeq(s, a, b), Space) = SubSeq(s, i, j)
      BY <2>5, <3>3, SegmentTrimmed
    <3> QED
      BY <3>1, <3>4 DEF a, b
  <2>9. T \in Seq(Nat) /\ Len(T) = j - i + 1 /\ \A x \in 1..(j - i + 1) : T[x] = s[i + x - 1]
    <3>1. i \in 1..(n + 1) /\ j \in 0..n /\ i <= j
      BY <1>0, <2>5
    <3> QED
      BY <3>1, SubFacts
  <2> HIDE DEF T
  <2> DEFINE f == q - i + 1
  <2>10. f \in 1..(j - i + 1) /\ f \in 1..Len(T) /\ i + f - 1 = q
    BY <1>0, <2>5, <2>9
  <2>11. Find(T, Equals) = f /\ f # 0
    <3>1. T[f] = Equals
      BY <2>1, <2>9, <2>10
    <3>2. ASSUME NEW x \in 1..(f - 1) PROVE T[x] # Equals
      <4>1. x \in 1..(j - i + 1) /\ i + x - 1 \in 1..(q - 1)
        BY <1>0, <2>5
      <4> QED
        BY <2>2, <2>9, <4>1
    <3> HIDE DEF f
    <3>3. Find(T, Equals) = f
      BY <2>9, <2>10, <3>1, <3>2, FindIs
    <3> QED
      BY <2>10, <3>3
  <2>12. kv = <<SubSeq(T, 1, f - 1), SubSeq(T, f + 1, Len(T))>>
    BY <2>8, <2>11 DEF SplitOnce
  <2>13. SubSeq(T, 1, f - 1) = SubSeq(s, i, q - 1)
    <3> DEFINE b == f - 1
    <3>1. /\ i \in 1..(n + 1) /\ j \in (i - 1)..n /\ 1 \in 1..(j - i + 2)
          /\ b \in (1 - 1)..(j - i + 1) /\ i + 1 - 1 = i /\ i + b - 1 = q - 1
      BY <1>0, <2>5
    <3> HIDE DEF b
    <3>2. SubSeq(SubSeq(s, i, j), 1, b) = SubSeq(s, i + 1 - 1, i + b - 1)
      BY <3>1, SubSub
    <3> QED
      BY <3>1, <3>2 DEF T, b
  <2>14. SubSeq(T, f + 1, Len(T)) = SubSeq(s, q + 1, j)
    <3> DEFINE a == f + 1
               b == Len(T)
    <3>1. /\ i \in 1..(n + 1) /\ j \in (i - 1)..n /\ a \in 1..(j - i + 2)
          /\ b \in (a - 1)..(j - i + 1) /\ i + a - 1 = q + 1 /\ i + b - 1 = j
      BY <1>0, <2>5, <2>9, SMTT(30)
    <3> HIDE DEF a, b
    <3>2. SubSeq(SubSeq(s, i, j), a, b) = SubSeq(s, i + a - 1, i + b - 1)
      BY <3>1, SubSub
    <3> QED
      BY <3>1, <3>2 DEF T, a, b
  <2>15. Trim(SubSeq(s, i, q - 1), Space) = name
    <3> DEFINE b == q - 1
    <3>1. i \in 1..(n + 1) /\ b \in (i - 1)..n
      BY <1>0, <2>5
    <3>2. CASE i1 <= j1
      <4>1. i = i1 /\ i1 \in i..(b + 1) /\ j1 \in (i - 1)..b
        BY <1>0, <2>5, <3>2 DEF i
      <4>2. \A x \in i..b : x < i1 \/ x > j1 => s[x] \in Space
        BY <2>5, <2>6
      <4> HIDE DEF b
      <4>3. Pads(s, i, b, i1, j1, Space)
        BY <2>6, <4>1, <4>2 DEF Pads
      <4>4. Trim(SubSeq(s, i, b), Space) = SubSeq(s, i1, j1)
        BY <2>5, <3>1, <4>3, SegmentTrimmed
      <4> QED
        BY <2>3, <4>4 DEF b
    <3>3. CASE i1 > j1
      <4>1. i = q /\ i \in i..(b + 1) /\ b \in (i - 1)..b /\ ~(i <= b) /\ b \in Int
        BY <1>0, <2>5, <3>3 DEF i
      <4>2. \A x \in i..b : x < i \/ x > b => s[x] \in Space
        BY <2>5, <4>1
      <4> HIDE DEF b
      <4>3. Pads(s, i, b, i, b, Space)
        BY <4>1, <4>2 DEF Pads
      <4>4. Trim(SubSeq(s, i, b), Space) = SubSeq(s, i, b)
        BY <2>5, <3>1, <4>1, <4>3, SegmentTrimmed
      <4>5. SubSeq(s, i, b) = << >> /\ SubSeq(s, i1, j1) = << >>
        BY <2>5, <3>3, <4>1, SubSeqEmpty
      <4> QED
        BY <2>3, <4>4, <4>5 DEF b
    <3> QED
      BY <2>5, <3>2, <3>3
  <2>16. Trim(SubSeq(s, q + 1, j), Space) = w
    <3> DEFINE a == q + 1
    <3>1. a \in 1..(n + 1) /\ j \in (a - 1)..n
      BY <1>0, <2>5
    <3>2. CASE i2 <= j2
      <4>1. j = j2 /\ i2 \in a..(j + 1) /\ j2 \in (a - 1)..j
        BY <1>0, <2>5, <3>2 DEF j
      <4>2. \A x \in a..j : x < i2 \/ x > j2 => s[x] \in Space
        BY <2>5, <2>6
      <4> HIDE DEF a
      <4>3. Pads(s, a, j, i2, j2, Space)
        BY <2>6, <4>1, <4>2 DEF Pads
      <4>4. Trim(SubSeq(s, a, j), Space) = SubSeq(s, i2, j2)
        BY <2>5, <3>1, <4>3, SegmentTrimmed
      <4> QED
        BY <2>4, <4>4 DEF a
    <3>3. CASE i2 > j2
      <4>1. j = q /\ a \in a..(j + 1) /\ j \in (a - 1)..j /\ ~(a <= j) /\ a \in Int
        BY <1>0, <2>5, <3>3 DEF j
      <4>2. \A x \in a..j : x < a \/ x > j => s[x] \in Space
        BY <2>5, <4>1
      <4> HIDE DEF a
      <4>3. Pads(s, a, j, a, j, Space)
        BY <4>1, <4>2 DEF Pads
      <4>4. Trim(SubSeq(s, a, j), Space) = SubSeq(s, a, j)
        BY <2>5, <3>1, <4>1, <4>3, SegmentTrimmed
      <4>5. SubSeq(s, a, j) = << >> /\ SubSeq(s, i2, j2) = << >>
        BY <2>5, <3>3, <4>1, SubSeqEmpty
      <4> QED
        BY <2>4, <4>4, <4>5 DEF a
    <3> QED
      BY <2>5, <3>2, <3>3
  <2>17. kv[1] = SubSeq(s, i, q - 1) /\ kv[2] = SubSeq(s, q + 1, j)
    <3> HIDE DEF kv, f
    <3> QED
      BY <2>12, <2>13, <2>14
  <2>18. Trim(kv[1], Space) = name /\ Trim(kv[2], Space) = w
    <3> HIDE DEF kv
    <3> QED
      BY <2>15, <2>16, <2>17
  <2> QED
    BY <2>18
<1>3. CASE s = k /\ v = << >>
  <2>1. Trim(s, Space) = name /\ name \in Seq(Nat)
    BY <1>3, TrimPadded
  <2>2. Trim(v, Space) = w
    BY TrimPadded
  <2>3. PICK i \in 1..(n + 1), j \in 0..n :
            name = SubSeq(s, i, j) /\ (i <= j => s[i] \notin Space /\ s[j] \notin Space)
    BY <1>3 DEF Padded
  <2>4. /\ Len(name) = IF i <= j THEN j - i + 1 ELSE 0
        /\ \A x \in 1..(j - i + 1) : name[x] = s[i + x - 1]
    BY <2>3, SubFacts
  <2>5. ASSUME NEW x \in 1..Len(name) PROVE name[x] # Equals
    <3>1. x \in 1..(j - i + 1) /\ i + x - 1 \in 1..n
      BY <1>0, <2>4
    <3> QED
      BY <1>1, <1>3, <2>4, <3>1
  <2>6. kv = <<name, << >>>>
    BY <2>1, <2>5, SplitOnceNone
  <2>7. Trim(name, Space) = name
    <3> DEFINE m == Len(name)
    <3>1. m \in Nat /\ 1 \in 1..(m + 1) /\ m \in 0..m
      BY <2>1, LenProperties
    <3>2. name = SubSeq(name, 1, m)
      BY <2>1, SubSeqFull
    <3>3. 1 <= m => name[1] \notin Space /\ name[m] \notin Space
      <4> SUFFICES ASSUME 1 <= m PROVE name[1] \notin Space /\ name[m] \notin Space
        OBVIOUS
      <4>1. i <= j /\ m = j - i + 1
        BY <1>0, <2>4, <3>1
      <4>2. 1 \in 1..(j - i + 1) /\ m \in 1..(j - i + 1) /\ i + 1 - 1 = i /\ i + m - 1 = j
        BY <1>0, <4>1
      <4> HIDE DEF m
      <4> QED
        BY <2>3, <2>4, <4>1, <4>2
    <3>4. \A x \in 1..m : ~(x < 1 \/ x > m)
      BY <3>1
    <3>5. Padded(name, name, Space)
      BY <3>1, <3>2, <3>3, <3>4 DEF Padded
    <3> QED
      BY <2>1, <3>5, TrimPadded
  <2> QED
    BY <1>3, <2>2, <2>6, <2>7
<1> QED
  BY <1>2, <1>3 DEF IsPair

\* What parse_cookie makes of a cookie.
LEMMA CookieDecoded ==
    ASSUME NEW p \in [name : Seq(Nat), value : Seq(Nat), text : Seq(Nat)], WritesCookie(p)
    PROVE  LET kv == SplitOnce(Trim(p.text, Space), Equals)
           IN  /\ Trim(kv[1], Space) = p.name
               /\ url_decode(Trim(Trim(kv[2], Space), {Quote})) = p.value
<1>1. PICK k \in Infixes(p.text), v \in Infixes(p.text) :
        /\ IsPair(p.text, k, v)
        /\ Padded(k, p.name, Space)
        /\ \E w \in Infixes(v) : \E q \in Infixes(w) :
                Padded(v, w, Space) /\ Padded(w, q, {Quote}) /\ Encodes(q, p.value)
  BY DEF WritesCookie
<1>2. p.text \in Seq(Nat) /\ p.name \in Seq(Nat) /\ p.value \in Seq(Nat)
  OBVIOUS
<1>3. k \in Seq(Nat) /\ v \in Seq(Nat)
  BY <1>2, InfixType
<1>w. PICK w \in Infixes(v) : \E q \in Infixes(w) :
        Padded(v, w, Space) /\ Padded(w, q, {Quote}) /\ Encodes(q, p.value)
  BY <1>1
<1>4. PICK q \in Infixes(w) :
        Padded(v, w, Space) /\ Padded(w, q, {Quote}) /\ Encodes(q, p.value)
  BY <1>w
<1>5. w \in Seq(Nat)
  BY <1>3, InfixType
<1>6. q \in Seq(Nat)
  BY <1>5, InfixType
<1> DEFINE kv == SplitOnce(Trim(p.text, Space), Equals)
<1>7. Trim(kv[1], Space) = p.name /\ Trim(kv[2], Space) = w
  BY <1>1, <1>2, <1>3, <1>4, SplitTrimmed
<1>8. Trim(w, {Quote}) = q
  BY <1>4, <1>5, TrimPadded
<1>9. url_decode(q) = p.value
  BY <1>2, <1>4, <1>6, DecodeEncoded
<1> QED
  BY <1>7, <1>8, <1>9

----------------------------------------------------------------------------
(* What the extractor finds in what clients write *)

LEMMA NothingFound ==
    ASSUME NEW S, NEW c \in Seq(S), \A i \in 1..Len(c) : c[i] = << >>
    PROVE  FirstFound(c) = << >>
<1>1. {i \in 1..Len(c) : c[i] # << >>} = {}
  OBVIOUS
<1> QED
  BY <1>1 DEF FirstFound, SelectInSeq

LEMMA NothingIn ==
    /\ \A c : Split(<< >>, c) = <<<< >>>>
    /\ SplitOnce(<< >>, Equals) = <<<< >>, << >>>>
    /\ url_decode(<< >>) = << >>
    /\ \A C : Trim(<< >>, C) = << >>
    /\ FirstFound(<< >>) = << >>
<1>1. ASSUME NEW c PROVE Split(<< >>, c) = <<<< >>>>
  <2> DEFINE at == <<0, 1>>
             parts == <<<< >>>>
             s == << >>
             cuts == {0, Len(s) + 1} \cup {i \in 1..Len(s) : s[i] = c}
  <2>1. Len(parts) = 1 /\ parts[1] = << >> /\ parts \in Seq(Seq(Nat)) /\ s \in Seq(Nat) /\ Len(s) = 0
    OBVIOUS
  <2>2. at \in [1..(Len(parts) + 1) -> cuts] /\ at[1] = 0 /\ at[2] = 1
    OBVIOUS
  <2>3. c \notin ToSet(<< >>)
    BY DEF ToSet
  <2>4. SubSeq(s, 1, 0) = << >>
    BY SubSeqEmpty
  <2> HIDE DEF parts, s, at
  <2>5. /\ at[1] = 0 /\ at[Len(parts) + 1] = Len(s) + 1
        /\ \A j, k \in 1..(Len(parts) + 1) : j < k => at[j] < at[k]
        /\ \A k \in 1..Len(parts) :
                parts[k] = SubSeq(s, at[k] + 1, at[k + 1] - 1) /\ c \notin ToSet(parts[k])
    <3>1. Len(parts) + 1 = 2 /\ 1..Len(parts) = {1} /\ 1..(Len(parts) + 1) = {1, 2}
      BY <2>1
    <3>2. \A j, k \in 1..(Len(parts) + 1) : j < k => at[j] < at[k]
      BY <2>2, <3>1
    <3>3. SubSeq(s, at[1] + 1, at[1 + 1] - 1) = << >>
      BY <2>2, <2>4
    <3> QED
      BY <2>1, <2>2, <2>3, <3>1, <3>2, <3>3
  <2>6. Joins(s, parts, c)
    BY <2>2, <2>5 DEF Joins
  <2>7. Split(s, c) = parts
    BY <2>1, <2>6, SplitJoined
  <2> QED
    BY <2>7 DEF s, parts
<1>2. SplitOnce(<< >>, Equals) = <<<< >>, << >>>>
  <2> DEFINE s == << >>
  <2>1. s \in Seq(Nat) /\ \A i \in 1..Len(s) : s[i] # Equals
    OBVIOUS
  <2> HIDE DEF s
  <2>2. SplitOnce(s, Equals) = <<s, << >>>>
    BY <2>1, SplitOnceNone
  <2> QED
    BY <2>2 DEF s
<1>3. url_decode(<< >>) = << >>
  <2> DEFINE s == << >>
  <2>1. s \in Seq(Nat) /\ Len(s) = 0
    OBVIOUS
  <2> HIDE DEF s
  <2>2. PICK h : Decodes(h, s) /\ url_decode(s) = h[1]
    BY <2>1, UrlDecodeIs
  <2>3. 1 \in 1..(Len(s) + 3) /\ 1 > Len(s)
    BY <2>1
  <2>4. h[1] = DecodeStep(h, s, 1)
    BY <2>2, <2>3 DEF Decodes
  <2>5. DecodeStep(h, s, 1) = << >>
    BY <2>3 DEF DecodeStep
  <2> QED
    BY <2>2, <2>4, <2>5 DEF s
<1>4. ASSUME NEW C PROVE Trim(<< >>, C) = << >>
  <2>1. Reverse(<< >>) = << >>
    BY DEF Reverse
  <2>2. {i \in 1..Len(<< >>) : << >>[i] \notin C} = {}
    OBVIOUS
  <2>3. TrimStart(<< >>, C) = << >>
    BY <2>2 DEF TrimStart, SelectInSeq
  <2> QED
    BY <2>1, <2>3 DEF Trim
<1>5. FirstFound(<< >>) = << >>
  <2> DEFINE s == << >>
  <2>1. s \in Seq(Nat) /\ \A i \in 1..Len(s) : s[i] = << >>
    OBVIOUS
  <2> HIDE DEF s
  <2>2. FirstFound(s) = << >>
    BY <2>1, NothingFound
  <2> QED
    BY <2>2 DEF s
<1> QED
  BY <1>1, <1>2, <1>3, <1>4, <1>5

Field == [name : Seq(Nat), value : Seq(Nat), text : Seq(Nat)]

\* What fields of a name give: the value of the first that has one.
FirstOf(fields, name) ==
    FirstFound([i \in DOMAIN fields |-> IF fields[i].name = name THEN fields[i].value ELSE << >>])

LEMMA TextsOf ==
    ASSUME NEW fields \in Seq(Field)
    PROVE  LET texts == [i \in 1..Len(fields) |-> fields[i].text] IN
           /\ texts \in Seq(Seq(Nat)) /\ DOMAIN texts = 1..Len(fields)
           /\ DOMAIN fields = 1..Len(fields) /\ Len(fields) \in Nat
           /\ \A i \in 1..Len(fields) : texts[i] = fields[i].text /\ fields[i] \in Field
<1>1. Len(fields) \in Nat /\ DOMAIN fields = 1..Len(fields)
  BY LenProperties
<1>2. \A i \in 1..Len(fields) : fields[i] \in Field
  BY ElementOfSeq
<1>3. \A i \in 1..Len(fields) : fields[i].text \in Seq(Nat)
  BY <1>2 DEF Field
<1> QED
  BY <1>1, <1>2, <1>3

\* A query gives, under each name, the first value that is not empty among the
\* parameters it was written for, whatever is escaped and however (extractor.rs
\* extract_query_param, url_decode).
THEOREM ParamsFound ==
    ASSUME NEW query \in Seq(Nat), NEW params \in Seq(Field), WritesQuery(query, params), NEW name
    PROVE  extract_query_param(query, name) = FirstOf(params, name)
<1> DEFINE texts == [i \in 1..Len(params) |-> params[i].text]
           Value(pair) ==
               LET kv == SplitOnce(pair, Equals)
               IN  IF url_decode(kv[1]) = name THEN url_decode(kv[2]) ELSE << >>
           pairs == Split(TrimStart(query, {Question}), Ampersand)
<1>1. PICK n \in 0..Len(query) :
        LET s == SubSeq(query, n + 1, Len(query))
        IN  /\ \A i \in 1..n : query[i] = Question
            /\ s # << >> => s[1] # Question
            /\ \/ s = << >> /\ params = << >>
               \/ Joins(s, texts, Ampersand)
            /\ \A i \in 1..Len(params) : WritesParam(params[i])
  BY DEF WritesQuery
<1> DEFINE s == SubSeq(query, n + 1, Len(query))
<1>2. Len(query) \in Nat
  BY LenProperties
<1>3. s \in Seq(Nat) /\ TrimStart(query, {Question}) = s
  <2> DEFINE i == n + 1
  <2>1. i \in 1..(Len(query) + 1) /\ Len(query) \in 0..Len(query) /\ i - 1 = n
    BY <1>2
  <2>2. s = SubSeq(query, i, Len(query))
    OBVIOUS
  <2> HIDE DEF i
  <2>3. /\ SubSeq(query, i, Len(query)) \in Seq(Nat)
        /\ Len(SubSeq(query, i, Len(query))) = IF i <= Len(query) THEN Len(query) - i + 1 ELSE 0
        /\ \A k \in 1..(Len(query) - i + 1) : SubSeq(query, i, Len(query))[k] = query[i + k - 1]
    BY <2>1, SubFacts
  <2>4. i <= Len(query) => query[i] # Question
    <3> SUFFICES ASSUME i <= Len(query) PROVE query[i] # Question
      OBVIOUS
    <3>1. 1 \in 1..(Len(query) - i + 1) /\ i + 1 - 1 = i
      BY <1>2, <2>1
    <3>2. s[1] = query[i]
      BY <2>2, <2>3, <3>1
    <3>3. Len(s) # 0
      BY <1>2, <2>1, <2>2, <2>3
    <3>4. s # << >>
      <4> HIDE DEF s
      <4> QED
        BY <3>3
    <3> QED
      BY <1>1, <3>2, <3>4
  <2>5. \A k \in 1..(i - 1) : query[k] \in {Question}
    BY <1>1, <2>1
  <2>6. TrimStart(query, {Question}) = SubSeq(query, i, Len(query))
    BY <2>1, <2>4, <2>5, TrimStartIs
  <2> QED
    BY <2>2, <2>3, <2>6
<1>4. \/ s = << >> /\ params = << >>
      \/ Joins(s, texts, Ampersand)
  BY <1>1
<1>5. \A i \in 1..Len(params) : WritesParam(params[i])
  BY <1>1
<1>6. extract_query_param(query, name) = FirstFound([i \in DOMAIN pairs |-> Value(pairs[i])])
  BY DEF extract_query_param
<1>7. CASE s = << >> /\ params = << >>
  <2>1. pairs = <<<< >>>>
    BY <1>3, <1>7, NothingIn
  <2> HIDE DEF pairs
  <2>2. Value(<< >>) = << >>
    BY NothingIn
  <2> HIDE DEF Value
  <2> DEFINE c == [i \in DOMAIN pairs |-> Value(pairs[i])]
  <2>3. DOMAIN pairs = 1..1 /\ pairs[1] = << >>
    BY <2>1
  <2>4. c = [i \in 1..1 |-> << >>]
    BY <2>2, <2>3
  <2>5. c \in Seq({<< >>}) /\ \A i \in 1..Len(c) : c[i] = << >>
    BY <2>4
  <2> HIDE DEF c
  <2>6. FirstFound(c) = << >>
    BY <2>5, NothingFound
  <2>7. FirstOf(params, name) = << >>
    <3>1. [i \in DOMAIN params |-> IF params[i].name = name THEN params[i].value ELSE << >>] = << >>
      BY <1>7
    <3> QED
      BY <3>1, NothingIn DEF FirstOf
  <2> QED
    BY <1>6, <2>6, <2>7 DEF c
<1>8. CASE Joins(s, texts, Ampersand)
  <2>1. /\ texts \in Seq(Seq(Nat)) /\ DOMAIN texts = 1..Len(params)
        /\ DOMAIN params = 1..Len(params)
        /\ \A i \in 1..Len(params) : texts[i] = params[i].text /\ params[i] \in Field
    BY TextsOf
  <2> HIDE DEF texts, s
  <2>2. pairs = texts
    BY <1>3, <1>8, <2>1, SplitJoined
  <2>3. ASSUME NEW i \in DOMAIN params
        PROVE  Value(texts[i]) = IF params[i].name = name THEN params[i].value ELSE << >>
    <3>1. texts[i] = params[i].text /\ params[i] \in Field /\ WritesParam(params[i])
      BY <1>5, <2>1, <2>3
    <3>2. /\ url_decode(SplitOnce(params[i].text, Equals)[1]) = params[i].name
          /\ url_decode(SplitOnce(params[i].text, Equals)[2]) = params[i].value
      BY <3>1, ParamDecoded DEF Field
    <3> QED
      BY <3>1, <3>2
  <2> HIDE DEF Value, pairs
  <2>4. [i \in DOMAIN pairs |-> Value(pairs[i])]
            = [i \in DOMAIN params |-> IF params[i].name = name THEN params[i].value ELSE << >>]
    BY <2>1, <2>2, <2>3
  <2> QED
    BY <1>6, <2>4 DEF FirstOf
<1> QED
  BY <1>4, <1>7, <1>8

LEMMA HeaderIsText ==
    ASSUME NEW values \in Seq(Seq(Nat))
    PROVE  HeaderStr(values) \in Seq(Nat)
<1>1. CASE values = << >> \/ ~(ToSet(values[1]) \subseteq 32..126 \cup {9})
  BY <1>1 DEF HeaderStr
<1>2. CASE values # << >> /\ ToSet(values[1]) \subseteq 32..126 \cup {9}
  <2>1. 1 \in 1..Len(values)
    BY <1>2, EmptySeq, LenProperties
  <2>2. values[1] \in Seq(Nat)
    BY <2>1, ElementOfSeq
  <2> QED
    BY <1>2, <2>2 DEF HeaderStr
<1> QED
  BY <1>1, <1>2

\* A cookie header gives, under each name, the first value that is not empty
\* among the cookies it was written for, in quotes or not and with blanks around
\* names and values (extractor.rs parse_cookie).
THEOREM CookiesFound ==
    ASSUME NEW values \in Seq(Seq(Nat)), NEW cookies \in Seq(Field), WritesCookies(values, cookies),
           NEW name
    PROVE  parse_cookie(HeaderStr(values), name) = FirstOf(cookies, name)
<1> DEFINE s == HeaderStr(values)
           texts == [i \in 1..Len(cookies) |-> cookies[i].text]
           Value(part) ==
               LET kv == SplitOnce(Trim(part, Space), Equals)
               IN  IF Trim(kv[1], Space) = name
                   THEN url_decode(Trim(Trim(kv[2], Space), {Quote})) ELSE << >>
           parts == Split(s, Semicolon)
<1>1. /\ \/ s = << >> /\ cookies = << >>
         \/ Joins(s, texts, Semicolon)
      /\ \A i \in 1..Len(cookies) : WritesCookie(cookies[i])
  BY DEF WritesCookies
<1>2. s \in Seq(Nat)
  BY HeaderIsText
<1>3. parse_cookie(s, name) = FirstFound([i \in DOMAIN parts |-> Value(parts[i])])
  BY DEF parse_cookie
<1> HIDE DEF s
<1>4. CASE s = << >> /\ cookies = << >>
  <2>1. parts = <<<< >>>>
    BY <1>4, NothingIn
  <2> HIDE DEF parts
  <2>2. Value(<< >>) = << >>
    BY NothingIn
  <2> HIDE DEF Value
  <2> DEFINE c == [i \in DOMAIN parts |-> Value(parts[i])]
  <2>3. DOMAIN parts = 1..1 /\ parts[1] = << >>
    BY <2>1
  <2>4. c = [i \in 1..1 |-> << >>]
    BY <2>2, <2>3
  <2>5. c \in Seq({<< >>}) /\ \A i \in 1..Len(c) : c[i] = << >>
    BY <2>4
  <2> HIDE DEF c
  <2>6. FirstFound(c) = << >>
    BY <2>5, NothingFound
  <2>7. FirstOf(cookies, name) = << >>
    <3>1. [i \in DOMAIN cookies |-> IF cookies[i].name = name THEN cookies[i].value ELSE << >>] = << >>
      BY <1>4
    <3> QED
      BY <3>1, NothingIn DEF FirstOf
  <2> QED
    BY <1>3, <2>6, <2>7 DEF c, s
<1>5. CASE Joins(s, texts, Semicolon)
  <2>1. /\ texts \in Seq(Seq(Nat)) /\ DOMAIN texts = 1..Len(cookies)
        /\ DOMAIN cookies = 1..Len(cookies)
        /\ \A i \in 1..Len(cookies) : texts[i] = cookies[i].text /\ cookies[i] \in Field
    BY TextsOf
  <2> HIDE DEF texts
  <2>2. parts = texts
    BY <1>2, <1>5, <2>1, SplitJoined
  <2>3. ASSUME NEW i \in DOMAIN cookies
        PROVE  Value(texts[i]) = IF cookies[i].name = name THEN cookies[i].value ELSE << >>
    <3> DEFINE kv == SplitOnce(Trim(cookies[i].text, Space), Equals)
    <3>1. texts[i] = cookies[i].text /\ cookies[i] \in Field /\ WritesCookie(cookies[i])
      BY <1>1, <2>1, <2>3
    <3>2. /\ Trim(kv[1], Space) = cookies[i].name
          /\ url_decode(Trim(Trim(kv[2], Space), {Quote})) = cookies[i].value
      BY <3>1, CookieDecoded DEF Field
    <3> QED
      BY <3>1, <3>2
  <2> HIDE DEF Value, parts
  <2>4. [i \in DOMAIN parts |-> Value(parts[i])]
            = [i \in DOMAIN cookies |-> IF cookies[i].name = name THEN cookies[i].value ELSE << >>]
    BY <2>1, <2>2, <2>3
  <2> QED
    BY <1>3, <2>4 DEF FirstOf, s
<1> QED
  BY <1>1, <1>4, <1>5

\* An ASCII letter in lower case, and a blank.
LEMMA AsciiLower ==
    ASSUME NEW x \in Nat, NEW b \in Nat, b = 32 \/ (97 <= b /\ b <= 122)
    PROVE  (IF x \in 65..90 THEN x + 32 ELSE x) = b <=> x = b \/ (x = b - 32 /\ b # 32)
<1>1. CASE x \in 65..90
  <2>1. 65 <= x /\ x <= 90 /\ (x + 32 = b <=> x = b - 32)
    BY <1>1
  <2> QED
    BY <1>1, <2>1
<1>2. CASE x \notin 65..90
  <2>1. ~(65 <= x /\ x <= 90)
    BY <1>2
  <2> QED
    BY <1>2, <2>1
<1> QED
  BY <1>1, <1>2

\* Authorization headers give the token of the Bearer scheme, in whatever case
\* that is written and with blanks around the token, and nothing under another
\* scheme (extractor.rs parse_bearer).
THEOREM BearerFound ==
    ASSUME NEW values \in Seq(Seq(Nat)), NEW token, WritesBearer(values, token)
    PROVE  parse_bearer(HeaderStr(values)) = token
<1> DEFINE s == HeaderStr(values)
           Lowered == [i \in 1..7 |-> IF s[i] \in 65..90 THEN s[i] + 32 ELSE s[i]]
<1>1. s \in Seq(Nat) /\ Len(s) \in Nat
  BY HeaderIsText, LenProperties
<1>2. IF Len(s) >= 7 /\ s[7] = 32 /\ \A i \in 1..6 : s[i] \in {BearerPrefix[i], BearerPrefix[i] - 32}
      THEN Padded(SubSeq(s, 8, Len(s)), token, Space)
      ELSE token = << >>
  BY DEF WritesBearer
<1>3. parse_bearer(s) =
        IF Len(s) >= 7 /\ Lowered = BearerPrefix THEN Trim(SubSeq(s, 8, Len(s)), Space) ELSE << >>
  BY DEF parse_bearer
<1> HIDE DEF s
<1>4. ASSUME Len(s) >= 7
      PROVE  Lowered = BearerPrefix
                <=> s[7] = 32 /\ \A i \in 1..6 : s[i] \in {BearerPrefix[i], BearerPrefix[i] - 32}
  <2>1. \A i \in 1..7 : s[i] \in Nat
    BY <1>1, <1>4, ElementOfSeq
  <2>2. /\ BearerPrefix[1] = 98 /\ BearerPrefix[2] = 101 /\ BearerPrefix[3] = 97
        /\ BearerPrefix[4] = 114 /\ BearerPrefix[5] = 101 /\ BearerPrefix[6] = 114
        /\ BearerPrefix[7] = 32
    BY DEF BearerPrefix
  <2>3. BearerPrefix = [i \in 1..7 |-> BearerPrefix[i]]
    BY DEF BearerPrefix
  <2>4. Lowered = BearerPrefix <=> \A i \in 1..7 : Lowered[i] = BearerPrefix[i]
    BY <2>3
  <2>5. ASSUME NEW i \in 1..6
        PROVE  Lowered[i] = BearerPrefix[i] <=> s[i] \in {BearerPrefix[i], BearerPrefix[i] - 32}
    <3> DEFINE b == BearerPrefix[i]
               x == s[i]
    <3>0. i \in 1..7 /\ (i = 1 \/ i = 2 \/ i = 3 \/ i = 4 \/ i = 5 \/ i = 6)
      OBVIOUS
    <3>1. b \in Nat /\ 97 <= b /\ b <= 122 /\ b # 32
      BY <2>2, <3>0
    <3>2. x \in Nat /\ Lowered[i] = IF x \in 65..90 THEN x + 32 ELSE x
      BY <2>1, <3>0
    <3> HIDE DEF b, x
    <3>3. (IF x \in 65..90 THEN x + 32 ELSE x) = b <=> x \in {b, b - 32}
      <4>1. x \in Nat /\ b \in Nat /\ (b = 32 \/ (97 <= b /\ b <= 122))
        BY <3>1, <3>2
      <4>2. (IF x \in 65..90 THEN x + 32 ELSE x) = b <=> x = b \/ (x = b - 32 /\ b # 32)
        BY <4>1, AsciiLower
      <4> QED
        BY <3>1, <4>2, Zenon
    <3>4. Lowered[i] = b <=> x \in {b, b - 32}
      <4> HIDE DEF Lowered
      <4> QED
        BY <3>2, <3>3
    <3> QED
      BY <3>4 DEF b, x
  <2>6. Lowered[7] = BearerPrefix[7] <=> s[7] = 32
    <3> DEFINE x == s[7]
    <3>1. x \in Nat /\ Lowered[7] = IF x \in 65..90 THEN x + 32 ELSE x
      BY <2>1
    <3> HIDE DEF x
    <3>2. (IF x \in 65..90 THEN x + 32 ELSE x) = 32 <=> x = 32
      BY <3>1, AsciiLower
    <3>3. Lowered[7] = 32 <=> x = 32
      <4> HIDE DEF Lowered
      <4> QED
        BY <3>1, <3>2
    <3> QED
      BY <2>2, <3>3 DEF x
  <2> HIDE DEF Lowered
  <2>7. (\A i \in 1..7 : Lowered[i] = BearerPrefix[i])
            <=> Lowered[7] = BearerPrefix[7] /\ \A i \in 1..6 : Lowered[i] = BearerPrefix[i]
    OBVIOUS
  <2> QED
    BY <2>4, <2>5, <2>6, <2>7
<1> HIDE DEF Lowered
<1>5. CASE Len(s) >= 7 /\ s[7] = 32 /\ \A i \in 1..6 : s[i] \in {BearerPrefix[i], BearerPrefix[i] - 32}
  <2> DEFINE u == SubSeq(s, 8, Len(s))
  <2>1. u \in Seq(Nat)
    <3>1. 8 \in 1..(Len(s) + 1) /\ Len(s) \in 0..Len(s)
      BY <1>1, <1>5
    <3> QED
      BY <1>1, <3>1, SubFacts
  <2> HIDE DEF u
  <2>2. Padded(u, token, Space)
    BY <1>2, <1>5 DEF u
  <2>3. Trim(u, Space) = token
    BY <2>1, <2>2, TrimPadded
  <2> QED
    BY <1>3, <1>4, <1>5, <2>3 DEF u, s
<1>6. CASE ~(Len(s) >= 7 /\ s[7] = 32
             /\ \A i \in 1..6 : s[i] \in {BearerPrefix[i], BearerPrefix[i] - 32})
  <2>1. token = << >>
    BY <1>2, <1>6
  <2>2. ~(Len(s) >= 7 /\ Lowered = BearerPrefix)
    BY <1>4, <1>6
  <2> QED
    BY <1>3, <2>1, <2>2 DEF s
<1> QED
  BY <1>5, <1>6

----------------------------------------------------------------------------
(* Where a host ends *)

LEMMA ConcatFacts ==
    ASSUME NEW S, NEW s \in Seq(S), NEW t \in Seq(S)
    PROVE  /\ s \o t \in Seq(S) /\ Len(s) \in Nat /\ Len(t) \in Nat
           /\ Len(s \o t) = Len(s) + Len(t)
           /\ \A i \in 1..Len(s) : (s \o t)[i] = s[i]
           /\ \A i \in 1..Len(t) : (s \o t)[Len(s) + i] = t[i]
<1>1. /\ s \o t \in Seq(S) /\ Len(s \o t) = Len(s) + Len(t)
      /\ \A i \in 1..(Len(s) + Len(t)) : (s \o t)[i] = IF i <= Len(s) THEN s[i] ELSE t[i - Len(s)]
  BY ConcatProperties
<1>2. Len(s) \in Nat /\ Len(t) \in Nat
  BY LenProperties
<1>3. ASSUME NEW i \in 1..Len(s) PROVE (s \o t)[i] = s[i]
  <2>1. i \in 1..(Len(s) + Len(t)) /\ i <= Len(s)
    BY <1>2
  <2> QED
    BY <1>1, <2>1
<1>4. ASSUME NEW i \in 1..Len(t) PROVE (s \o t)[Len(s) + i] = t[i]
  <2>1. Len(s) + i \in 1..(Len(s) + Len(t)) /\ ~(Len(s) + i <= Len(s)) /\ (Len(s) + i) - Len(s) = i
    BY <1>2
  <2> QED
    BY <1>1, <2>1
<1> QED
  BY <1>1, <1>2, <1>3, <1>4

\* Equal sequences cut at the same place have equal parts.
LEMMA CutEqual ==
    ASSUME NEW S, NEW s \in Seq(S), NEW t \in Seq(S), NEW u \in Seq(S), NEW v \in Seq(S),
           s \o t = u \o v, Len(s) = Len(u)
    PROVE  s = u /\ t = v
<1>0. \A a \in Seq(S), b \in Seq(S) :
        /\ a \o b \in Seq(S) /\ Len(a) \in Nat /\ Len(b) \in Nat
        /\ Len(a \o b) = Len(a) + Len(b)
        /\ \A i \in 1..Len(a) : (a \o b)[i] = a[i]
        /\ \A i \in 1..Len(b) : (a \o b)[Len(a) + i] = b[i]
  BY ConcatFacts
<1>1. /\ Len(s \o t) = Len(s) + Len(t) /\ Len(s) \in Nat /\ Len(t) \in Nat
      /\ \A i \in 1..Len(s) : (s \o t)[i] = s[i]
      /\ \A i \in 1..Len(t) : (s \o t)[Len(s) + i] = t[i]
  BY <1>0, Zenon
<1>2. /\ Len(u \o v) = Len(u) + Len(v) /\ Len(u) \in Nat /\ Len(v) \in Nat
      /\ \A i \in 1..Len(u) : (u \o v)[i] = u[i]
      /\ \A i \in 1..Len(v) : (u \o v)[Len(u) + i] = v[i]
  BY ConcatFacts
<1>3. Len(t) = Len(v)
  BY <1>1, <1>2
<1>4. \A i \in 1..Len(s) : s[i] = u[i]
  BY <1>1, <1>2
<1>5. \A i \in 1..Len(t) : t[i] = v[i]
  BY <1>1, <1>2, <1>3
<1> QED
  BY <1>3, <1>4, <1>5, SeqEqual

\* A name, or an address in brackets, by its punctuation.
HostShape(h) ==
    \/ h # << >> /\ \A k \in 1..Len(h) : h[k] # ":" /\ h[k] # "["
    \/ /\ Len(h) > 1 /\ h[1] = "[" /\ h[Len(h)] = "]"
       /\ \A k \in 2..(Len(h) - 1) : h[k] # "]"

\* What split_authority takes for the host, if x follows.
HeadShape(s, x) ==
    \/ /\ \A k \in 1..Len(s) : s[k] # ":"
       /\ s # << >> => s[1] # "["
    \/ /\ s # << >> /\ s[1] = "[" /\ s[Len(s)] = "]"
       /\ \A k \in 1..(Len(s) - 1) : s[k] # "]"
    \/ /\ s # << >> /\ s[1] = "[" /\ x = << >>
       /\ \A k \in 1..(Len(s) - 1) :
            s[k] = "]" /\ (\A i \in 1..(k - 1) : s[i] # "]") => s[k + 1] # ":"

StartsPort(x) == x # << >> => x[1] = ":"

\* There is only one way to cut an authority into a host and what follows.
LEMMA CutUnique ==
    ASSUME NEW S, NEW s \in Seq(S), NEW x \in Seq(S), NEW h \in Seq(S), NEW y \in Seq(S),
           s \o x = h \o y, HostShape(h), HeadShape(s, x), StartsPort(x), StartsPort(y)
    PROVE  s = h /\ x = y
<1> DEFINE N == s \o x
           m == Len(s)
           l == Len(h)
<1>0. \A a \in Seq(S), b \in Seq(S) :
        /\ Len(a \o b) = Len(a) + Len(b) /\ Len(a) \in Nat /\ Len(b) \in Nat
        /\ \A i \in 1..Len(a) : (a \o b)[i] = a[i]
        /\ \A i \in 1..Len(b) : (a \o b)[Len(a) + i] = b[i]
  BY ConcatFacts
<1>1. /\ Len(N) = m + Len(x) /\ m \in Nat /\ Len(x) \in Nat
      /\ \A i \in 1..m : N[i] = s[i]
      /\ \A i \in 1..Len(x) : N[m + i] = x[i]
  BY <1>0, Zenon
<1>2. /\ Len(N) = l + Len(y) /\ l \in Nat /\ Len(y) \in Nat
      /\ \A i \in 1..l : N[i] = h[i]
      /\ \A i \in 1..Len(y) : N[l + i] = y[i]
  BY ConcatFacts
<1>3. Len(N) > m => N[m + 1] = ":"
  <2> SUFFICES ASSUME Len(N) > m PROVE N[m + 1] = ":"
    OBVIOUS
  <2>1. 1 \in 1..Len(x)
    BY <1>1
  <2>2. x # << >>
    BY <2>1
  <2> QED
    BY <1>1, <2>1, <2>2 DEF StartsPort
<1>4. Len(N) > l => N[l + 1] = ":"
  <2> SUFFICES ASSUME Len(N) > l PROVE N[l + 1] = ":"
    OBVIOUS
  <2>1. 1 \in 1..Len(y)
    BY <1>2
  <2>2. y # << >>
    BY <2>1
  <2> QED
    BY <1>2, <2>1, <2>2 DEF StartsPort
<1>5. Len(N) >= m /\ Len(N) >= l
  BY <1>1, <1>2
<1>6. (s # << >> <=> m > 0) /\ (h # << >> <=> l > 0) /\ (x = << >> <=> Len(N) = m)
  <2>1. (s = << >> <=> m = 0) /\ (h = << >> <=> l = 0) /\ (x = << >> <=> Len(x) = 0)
    BY EmptySeq
  <2> QED
    BY <1>1, <1>2, <2>1
<1> HIDE DEF N, m, l
<1>7. m = l
  <2>1. CASE h # << >> /\ \A k \in 1..l : h[k] # ":" /\ h[k] # "["
    <3>0. l > 0 /\ \A k \in 1..l : N[k] # ":" /\ N[k] # "["
      BY <1>2, <1>6, <2>1
    <3>1. CASE /\ \A k \in 1..m : s[k] # ":"
               /\ s # << >> => s[1] # "["
      <4>1. \A k \in 1..m : N[k] # ":"
        BY <1>1, <3>1
      <4>2. ~(m < l)
        <5> SUFFICES ASSUME m < l PROVE FALSE
          OBVIOUS
        <5>1. Len(N) > m /\ m + 1 \in 1..l
          BY <1>1, <1>2, <1>5
        <5> QED
          BY <1>3, <3>0, <5>1
      <4>3. ~(l < m)
        <5> SUFFICES ASSUME l < m PROVE FALSE
          OBVIOUS
        <5>1. Len(N) > l /\ l + 1 \in 1..m
          BY <1>1, <1>2, <1>5
        <5> QED
          BY <1>4, <4>1, <5>1
      <4> QED
        BY <1>1, <1>2, <4>2, <4>3
    <3>2. CASE s # << >> /\ s[1] = "["
      <4>1. 1 \in 1..m /\ 1 \in 1..l
        BY <1>1, <1>2, <1>6, <3>0, <3>2
      <4>2. N[1] = "["
        BY <1>1, <3>2, <4>1
      <4> QED
        BY <3>0, <4>1, <4>2
    <3> QED
      BY <3>1, <3>2 DEF HeadShape, m
  <2>2. CASE /\ l > 1 /\ h[1] = "[" /\ h[l] = "]"
             /\ \A k \in 2..(l - 1) : h[k] # "]"
    <3>0. N[1] = "[" /\ N[l] = "]" /\ \A k \in 1..(l - 1) : N[k] # "]"
      <4>1. 1 \in 1..l /\ l \in 1..l
        BY <1>2, <2>2
      <4>2. N[1] = "[" /\ N[l] = "]"
        BY <1>2, <2>2, <4>1
      <4>3. ASSUME NEW k \in 1..(l - 1) PROVE N[k] # "]"
        <5>1. k = 1 \/ (k \in 2..(l - 1) /\ k \in 1..l)
          BY <1>2
        <5> QED
          BY <1>2, <2>2, <4>2, <5>1
      <4> QED
        BY <4>2, <4>3
    <3>1. CASE /\ \A k \in 1..m : s[k] # ":"
               /\ s # << >> => s[1] # "["
      <4>1. CASE m = 0
        <5>1. Len(N) > m /\ m + 1 = 1
          BY <1>2, <1>5, <2>2, <4>1
        <5> QED
          BY <1>3, <3>0, <5>1
      <4>2. CASE m # 0
        <5>1. 1 \in 1..m /\ s # << >>
          BY <1>1, <1>6, <4>2
        <5> QED
          BY <1>1, <3>0, <3>1, <5>1
      <4> QED
        BY <4>1, <4>2
    <3>2. CASE /\ s # << >> /\ s[m] = "]"
               /\ \A k \in 1..(m - 1) : s[k] # "]"
      <4>1. m \in 1..m
        BY <1>1, <1>6, <3>2
      <4>2. N[m] = "]"
        BY <1>1, <3>2, <4>1
      <4>3. \A k \in 1..(m - 1) : N[k] # "]"
        BY <1>1, <3>2
      <4>4. ~(l < m)
        <5> SUFFICES ASSUME l < m PROVE FALSE
          OBVIOUS
        <5>1. l \in 1..(m - 1)
          BY <1>1, <1>2, <2>2
        <5> QED
          BY <3>0, <4>3, <5>1
      <4>5. ~(m < l)
        <5> SUFFICES ASSUME m < l PROVE FALSE
          OBVIOUS
        <5>1. m \in 1..(l - 1)
          BY <1>1, <1>2, <4>1
        <5> QED
          BY <3>0, <4>2, <5>1
      <4> QED
        BY <1>1, <1>2, <4>4, <4>5
    <3>3. CASE /\ x = << >>
               /\ \A k \in 1..(m - 1) :
                    s[k] = "]" /\ (\A i \in 1..(k - 1) : s[i] # "]") => s[k + 1] # ":"
      <4>1. Len(N) = m
        BY <1>6, <3>3
      <4> SUFFICES ASSUME l < m PROVE FALSE
        BY <1>1, <1>2, <1>5, <4>1
      <4>2. l \in 1..(m - 1) /\ l \in 1..m /\ l + 1 \in 1..m
        BY <1>1, <1>2, <2>2
      <4>3. N[l + 1] = ":"
        BY <1>4, <4>1
      <4>4. s[l] = "]" /\ s[l + 1] = ":"
        BY <1>1, <3>0, <4>2, <4>3
      <4>5. ASSUME NEW i \in 1..(l - 1) PROVE s[i] # "]"
        <5>1. i \in 1..m
          BY <1>1, <1>2
        <5> QED
          BY <1>1, <3>0, <5>1
      <4> QED
        BY <3>3, <4>2, <4>4, <4>5
    <3> QED
      BY <3>1, <3>2, <3>3 DEF HeadShape, m
  <2> QED
    BY <2>1, <2>2 DEF HostShape, l
<1> QED
  BY <1>7, CutEqual DEF m, l

\* Cutting a sequence at q.
LEMMA CutAt ==
    ASSUME NEW S, NEW a \in Seq(S), NEW q \in 1..Len(a)
    PROVE  LET s == SubSeq(a, 1, q - 1)
               t == SubSeq(a, q + 1, Len(a))
           IN  /\ s \in Seq(S) /\ t \in Seq(S) /\ a = s \o (<<a[q]>> \o t)
               /\ Len(s) = q - 1 /\ \A k \in 1..(q - 1) : s[k] = a[k]
<1> DEFINE n == Len(a)
<1>0. n \in Nat
  BY LenProperties
<1> DEFINE r == q - 1
           p == q + 1
<1>1. r \in 0..n /\ 1 \in 1..(n + 1) /\ p \in 1..(n + 1) /\ n \in 0..n /\ r + 1 = q
      /\ (1 <= r <=> r # 0) /\ q \in 1..(n + 1)
  BY <1>0
<1>2. <<a[q]>> \o SubSeq(a, q + 1, n) = SubSeq(a, q, n)
  <2>1. n \in q..Len(a)
    BY <1>0
  <2> QED
    BY <2>1, SubSeqRecursiveFirst
<1> HIDE DEF p
<1>3. SubSeq(a, p, n) \in Seq(S) /\ SubSeq(a, q, n) \in Seq(S)
  BY <1>1, SubFacts
<1>4. SubSeq(a, 1, r) \o SubSeq(a, r + 1, n) = SubSeq(a, 1, n)
  <2> HIDE DEF r
  <2>1. r \in (1 - 1)..Len(a) /\ n \in r..Len(a)
    BY <1>0, <1>1
  <2> QED
    BY <1>1, <2>1, ConcatAdjacentSubSeq
<1> HIDE DEF r
<1>5. /\ SubSeq(a, 1, r) \in Seq(S)
      /\ Len(SubSeq(a, 1, r)) = IF 1 <= r THEN r - 1 + 1 ELSE 0
      /\ \A k \in 1..(r - 1 + 1) : SubSeq(a, 1, r)[k] = a[1 + k - 1]
  BY <1>1, SubFacts
<1>6. Len(SubSeq(a, 1, r)) = r /\ \A k \in 1..r : SubSeq(a, 1, r)[k] = a[k]
  BY <1>0, <1>1, <1>5
<1>7. SubSeq(a, 1, n) = a
  BY SubSeqFull
<1> QED
  BY <1>1, <1>2, <1>3, <1>4, <1>5, <1>6, <1>7 DEF r, p

\* split_authority makes s and t of an authority that is s and x.
SplitAs(a, s, t, x) ==
    /\ split_authority(a) = <<s, t>>
    /\ a = s \o x
    /\ HeadShape(s, x)
    /\ (x = << >> /\ t = << >>) \/ x = <<":">> \o t

\* split_authority cuts the authority once, and the host it takes has the
\* shape of a head.
LEMMA SplitAuthority ==
    ASSUME NEW S, NEW a \in Seq(S)
    PROVE  \E s, t, x \in Seq(S) : SplitAs(a, s, t, x)
<1> SUFFICES \E s, t, x \in Seq(S) :
                /\ split_authority(a) = <<s, t>>
                /\ a = s \o x
                /\ HeadShape(s, x)
                /\ (x = << >> /\ t = << >>) \/ x = <<":">> \o t
  BY Zenon DEF SplitAs
<1> DEFINE n == Len(a)
<1>1. n \in Nat /\ (a = << >> <=> n = 0) /\ << >> \in Seq(S) /\ a \o << >> = a
  BY LenProperties, EmptySeq, ConcatEmptySeq
\* Cutting a at a ":".
<1>2. ASSUME NEW q \in 1..n, a[q] = ":"
      PROVE  /\ SubSeq(a, 1, q - 1) \in Seq(S) /\ SubSeq(a, q + 1, n) \in Seq(S)
             /\ <<":">> \o SubSeq(a, q + 1, n) \in Seq(S)
             /\ a = SubSeq(a, 1, q - 1) \o (<<":">> \o SubSeq(a, q + 1, n))
             /\ Len(SubSeq(a, 1, q - 1)) = q - 1
             /\ \A k \in 1..(q - 1) : SubSeq(a, 1, q - 1)[k] = a[k]
  <2> DEFINE s == SubSeq(a, 1, q - 1)
             t == SubSeq(a, q + 1, n)
  <2>1. /\ s \in Seq(S) /\ t \in Seq(S) /\ a = s \o (<<a[q]>> \o t)
        /\ Len(s) = q - 1 /\ \A k \in 1..(q - 1) : s[k] = a[k]
    BY CutAt
  <2>2. a[q] \in S
    BY ElementOfSeq
  <2> HIDE DEF s, t
  <2>3. <<a[q]>> \o t \in Seq(S)
    BY <2>1, <2>2
  <2> QED
    BY <1>2, <2>1, <2>3, Zenon DEF s, t
<1>3. CASE a = << >> \/ Head(a) # "["
  <2>1. split_authority(a) = SplitOnce(a, ":")
    BY <1>3 DEF split_authority
  <2>2. a # << >> => a[1] # "["
    BY <1>3
  <2>3. CASE Find(a, ":") = 0
    <3>1. split_authority(a) = <<a, << >>>>
      BY <2>1, <2>3 DEF SplitOnce
    <3>2. \A k \in 1..n : a[k] # ":"
      BY <2>3, FindFacts
    <3>3. HeadShape(a, << >>)
      BY <2>2, <3>2 DEF HeadShape
    <3> QED
      BY <1>1, <3>1, <3>3
  <2>4. CASE Find(a, ":") # 0
    <3> DEFINE q == Find(a, ":")
               s == SubSeq(a, 1, q - 1)
               t == SubSeq(a, q + 1, n)
    <3>1. q \in 1..n /\ a[q] = ":" /\ \A k \in 1..(q - 1) : a[k] # ":"
      BY <1>1, <2>4, FindFacts
    <3>2. split_authority(a) = <<s, t>>
      BY <2>1, <2>4 DEF SplitOnce
    <3> HIDE DEF q
    <3>3. /\ s \in Seq(S) /\ t \in Seq(S) /\ <<":">> \o t \in Seq(S)
          /\ a = s \o (<<":">> \o t)
          /\ Len(s) = q - 1 /\ \A k \in 1..(q - 1) : s[k] = a[k]
      BY <1>2, <3>1
    <3> HIDE DEF s, t
    <3>4. HeadShape(s, <<":">> \o t)
      <4>1. \A k \in 1..Len(s) : s[k] # ":"
        BY <3>1, <3>3
      <4>2. s # << >> => s[1] # "["
        <5>1. s # << >> => 1 \in 1..(q - 1)
          BY <3>1, <3>3, EmptySeq
        <5>2. a # << >>
          BY <1>1, <3>1
        <5> QED
          BY <2>2, <3>3, <5>1, <5>2
      <4> QED
        BY <4>1, <4>2 DEF HeadShape
    <3> QED
      BY <3>2, <3>3, <3>4
  <2> QED
    BY <2>3, <2>4
<1>4. CASE a # << >> /\ Head(a) = "["
  <2> DEFINE c == Find(a, "]")
             s == SubSeq(a, 1, c)
             t == SubSeq(a, c + 2, n)
  <2>0. a[1] = "[" /\ 1 \in 1..n
    BY <1>1, <1>4
  <2>1. split_authority(a) =
            IF c \in 1..(Len(a) - 1) /\ a[c + 1] = ":" THEN <<s, t>> ELSE <<a, << >>>>
    BY <1>4 DEF split_authority
  <2>2. /\ c \in 0..n /\ (c = 0 => \A k \in 1..n : a[k] # "]")
        /\ c # 0 => a[c] = "]" /\ \A k \in 1..(c - 1) : a[k] # "]"
    BY FindFacts
  <2> HIDE DEF c
  <2>3. CASE c \in 1..(n - 1) /\ a[c + 1] = ":"
    <3> DEFINE q == c + 1
    <3>1. q \in 1..n /\ a[q] = ":" /\ q - 1 = c /\ q + 1 = c + 2 /\ c \in 1..c
      BY <1>1, <2>2, <2>3
    <3> HIDE DEF q
    <3>2. /\ SubSeq(a, 1, q - 1) \in Seq(S) /\ SubSeq(a, q + 1, n) \in Seq(S)
          /\ <<":">> \o SubSeq(a, q + 1, n) \in Seq(S)
          /\ a = SubSeq(a, 1, q - 1) \o (<<":">> \o SubSeq(a, q + 1, n))
          /\ Len(SubSeq(a, 1, q - 1)) = q - 1
          /\ \A k \in 1..(q - 1) : SubSeq(a, 1, q - 1)[k] = a[k]
      BY <1>2, <3>1
    <3>3. /\ s \in Seq(S) /\ t \in Seq(S) /\ <<":">> \o t \in Seq(S)
          /\ a = s \o (<<":">> \o t)
          /\ Len(s) = c /\ \A k \in 1..c : s[k] = a[k]
      BY <3>1, <3>2
    <3>4. split_authority(a) = <<s, t>>
      BY <2>1, <2>3
    <3> HIDE DEF s, t
    <3>5. HeadShape(s, <<":">> \o t)
      <4>1. s # << >> /\ 1 \in 1..c
        BY <2>2, <3>1, <3>3, EmptySeq
      <4>2. s[1] = "[" /\ s[c] = "]"
        BY <2>0, <2>2, <2>3, <3>1, <3>3, <4>1
      <4>3. \A k \in 1..(c - 1) : s[k] # "]"
        BY <2>2, <2>3, <3>3
      <4> QED
        BY <3>3, <4>1, <4>2, <4>3 DEF HeadShape
    <3> QED
      BY <3>3, <3>4, <3>5
  <2>4. CASE ~(c \in 1..(n - 1) /\ a[c + 1] = ":")
    <3>1. split_authority(a) = <<a, << >>>>
      BY <2>1, <2>4
    <3>2. ASSUME NEW k \in 1..(n - 1), a[k] = "]", \A i \in 1..(k - 1) : a[i] # "]"
          PROVE  a[k + 1] # ":"
      <4>1. k \in 1..n
        BY <1>1
      <4>2. c # 0
        BY <2>2, <3>2, <4>1
      <4>3. ~(c < k)
        BY <2>2, <3>2, <4>2
      <4>4. ~(k < c)
        BY <2>2, <3>2, <4>2
      <4>5. c = k
        BY <2>2, <4>3, <4>4
      <4> QED
        BY <2>4, <4>5
    <3>3. HeadShape(a, << >>)
      BY <1>4, <2>0, <3>2 DEF HeadShape
    <3> QED
      BY <1>1, <3>1, <3>3
  <2> QED
    BY <2>3, <2>4
<1> QED
  BY <1>3, <1>4

----------------------------------------------------------------------------
(* Lower case *)

\* Lexemes whose punctuation has no case and no number and is visible; the
\* lower case of a lexeme is visible if it is.
LexemesOK(L) ==
    /\ Punctuation \subseteq L \ Invisible
    /\ \A x \in L :
        /\ \A p \in Punctuation : Lower(x) = p <=> x = p
        /\ x \in Punctuation => ParseU16(x) = NaN
        /\ Lower(x) \in Invisible <=> x \in Invisible

\* The lexemes of normal forms.
Lowered(L) == L \cup Punctuation \cup {Lower(x) : x \in L}

LEMMA LowerFacts ==
    ASSUME NEW L, NEW s \in Seq(L)
    PROVE  /\ LowerAll(s) \in Seq(Lowered(L)) /\ Len(LowerAll(s)) = Len(s)
           /\ \A k \in 1..Len(s) : LowerAll(s)[k] = Lower(s[k]) /\ s[k] \in L
<1>1. Len(s) \in Nat /\ DOMAIN s = 1..Len(s) /\ \A k \in 1..Len(s) : s[k] \in L
  BY LenProperties, ElementOfSeq
<1>2. LowerAll(s) = [k \in 1..Len(s) |-> Lower(s[k])]
  BY <1>1 DEF LowerAll
<1>3. \A k \in 1..Len(s) : Lower(s[k]) \in Lowered(L)
  BY <1>1 DEF Lowered
<1> QED
  BY <1>1, <1>2, <1>3

LEMMA WiderSeq ==
    ASSUME NEW L, NEW s \in Seq(L)
    PROVE  s \in Seq(Lowered(L))
<1>1. L \subseteq Lowered(L)
  BY DEF Lowered
<1> QED
  BY <1>1, SeqMonotonic

\* Shapes are the same in lower case.
LEMMA LowerShapes ==
    ASSUME NEW L, LexemesOK(L), NEW s \in Seq(L), NEW x
    PROVE  /\ HostShape(s) => HostShape(LowerAll(s))
           /\ HeadShape(s, x) => HeadShape(LowerAll(s), x)
<1> DEFINE u == LowerAll(s)
           n == Len(s)
<1>1. u \in Seq(Lowered(L)) /\ Len(u) = n /\ n \in Nat
      /\ \A k \in 1..n : u[k] = Lower(s[k]) /\ s[k] \in L
  BY LowerFacts, LenProperties
<1>2. (u = << >> <=> n = 0) /\ (s = << >> <=> n = 0)
  <2> HIDE DEF u
  <2> QED
    BY <1>1, EmptySeq
<1> HIDE DEF u
<1>3. \A k \in 1..n : /\ u[k] = ":" <=> s[k] = ":"
                      /\ u[k] = "[" <=> s[k] = "["
                      /\ u[k] = "]" <=> s[k] = "]"
  <2>1. \A y \in L, p \in Punctuation : Lower(y) = p <=> y = p
    BY Zenon DEF LexemesOK
  <2>2. {":", "[", "]"} \subseteq Punctuation
    BY DEF Punctuation
  <2>3. \A y \in L : /\ Lower(y) = ":" <=> y = ":"
                     /\ Lower(y) = "[" <=> y = "["
                     /\ Lower(y) = "]" <=> y = "]"
    BY <2>1, <2>2
  <2> QED
    BY <1>1, <2>3
<1>4. s # << >> => 1 \in 1..n /\ n \in 1..n
  BY <1>1, <1>2
<1>5. \A k \in 1..(n - 1) : k \in 1..n /\ k + 1 \in 1..n
  BY <1>1
<1>6. HostShape(s) => HostShape(u)
  <2>1. CASE s # << >> /\ \A k \in 1..n : s[k] # ":" /\ s[k] # "["
    BY <1>1, <1>2, <1>3, <2>1 DEF HostShape
  <2>2. CASE /\ n > 1 /\ s[1] = "[" /\ s[n] = "]"
             /\ \A k \in 2..(n - 1) : s[k] # "]"
    <3>1. 1 \in 1..n /\ n \in 1..n /\ \A k \in 2..(n - 1) : k \in 1..n
      BY <1>1, <2>2
    <3> QED
      BY <1>1, <1>3, <2>2, <3>1 DEF HostShape
  <2> QED
    BY <2>1, <2>2 DEF HostShape
<1>7. HeadShape(s, x) => HeadShape(u, x)
  <2>1. CASE /\ \A k \in 1..n : s[k] # ":"
             /\ s # << >> => s[1] # "["
    BY <1>1, <1>2, <1>3, <1>4, <2>1 DEF HeadShape
  <2>2. CASE /\ s # << >> /\ s[1] = "[" /\ s[n] = "]"
             /\ \A k \in 1..(n - 1) : s[k] # "]"
    <3>1. \A k \in 1..(n - 1) : u[k] # "]"
      BY <1>3, <1>5, <2>2
    <3> QED
      BY <1>1, <1>2, <1>3, <1>4, <2>2, <3>1 DEF HeadShape
  <2>3. CASE /\ s # << >> /\ s[1] = "[" /\ x = << >>
             /\ \A k \in 1..(n - 1) :
                    s[k] = "]" /\ (\A i \in 1..(k - 1) : s[i] # "]") => s[k + 1] # ":"
    <3>1. ASSUME NEW k \in 1..(n - 1), u[k] = "]", \A i \in 1..(k - 1) : u[i] # "]"
          PROVE  u[k + 1] # ":"
      <4>1. k \in 1..n /\ k + 1 \in 1..n /\ \A i \in 1..(k - 1) : i \in 1..n
        BY <1>1
      <4>2. s[k] = "]" /\ \A i \in 1..(k - 1) : s[i] # "]"
        BY <1>3, <3>1, <4>1
      <4>3. s[k + 1] # ":"
        BY <2>3, <4>2
      <4> QED
        BY <1>3, <4>1, <4>3
    <3>2. u # << >> /\ u[1] = "["
      BY <1>2, <1>3, <1>4, <2>3
    <3> QED
      BY <1>1, <2>3, <3>1, <3>2 DEF HeadShape
  <2> QED
    BY <2>1, <2>2, <2>3 DEF HeadShape
<1> QED
  BY <1>6, <1>7 DEF u

----------------------------------------------------------------------------
(* Normal forms *)

LEMMA PunctuationKept ==
    ASSUME NEW L, LexemesOK(L), NEW y \in L, NEW p \in Punctuation
    PROVE  Lower(y) = p <=> y = p
  BY Zenon DEF LexemesOK

LEMMA SchemeMark == "://" \in Punctuation /\ ":" \in Punctuation /\ " " \in Punctuation
  BY DEF Punctuation

\* Before and after the first c of a sequence.
BeforeFirst(s, c) == SubSeq(s, 1, Find(s, c) - 1)
AfterFirst(s, c) == SubSeq(s, Find(s, c) + 1, Len(s))

\* a and b around a c.
Around(a, c, b) == a \o <<c>> \o b

LEMMA FirstCut ==
    ASSUME NEW S, NEW a \in Seq(S), NEW b \in Seq(S), NEW c \in S, \A k \in 1..Len(a) : a[k] # c
    PROVE  /\ Around(a, c, b) \in Seq(S)
           /\ Find(Around(a, c, b), c) \in 1..Len(Around(a, c, b))
           /\ BeforeFirst(Around(a, c, b), c) = a
           /\ AfterFirst(Around(a, c, b), c) = b
<1> DEFINE s == a \o <<c>> \o b
           q == Len(a) + 1
<1>1. /\ s \in Seq(S) /\ q \in 1..Len(s) /\ s[q] = c
      /\ a = SubSeq(s, 1, q - 1) /\ b = SubSeq(s, q + 1, Len(s))
  BY AroundFacts
<1>2. q - 1 = Len(a) /\ Len(a) \in Nat
  BY LenProperties
<1> HIDE DEF s
<1>3. ASSUME NEW k \in 1..(q - 1) PROVE s[k] # c
  <2> DEFINE r == q - 1
  <2>1. r \in 0..Len(s) /\ 1 \in 1..(Len(s) + 1) /\ k \in 1..(r - 1 + 1) /\ 1 + k - 1 = k
    <3>1. Len(s) \in Nat /\ q \in 1..Len(s)
      BY <1>1, LenProperties
    <3> HIDE DEF q
    <3> QED
      BY <3>1
  <2>2. k \in 1..Len(a) /\ a = SubSeq(s, 1, r)
    BY <1>1, <1>2
  <2> HIDE DEF r
  <2>3. SubSeq(s, 1, r)[k] = s[k]
    BY <1>1, <2>1, SubFacts
  <2> QED
    BY <2>2, <2>3
<1> HIDE DEF q
<1>4. Find(s, c) = q
  <2>1. s \in Seq(S) /\ q \in 1..Len(s) /\ s[q] = c /\ \A k \in 1..(q - 1) : s[k] # c
    BY <1>1, <1>3
  <2> QED
    BY <2>1, FindIs
<1>5. /\ s \in Seq(S) /\ Find(s, c) \in 1..Len(s)
      /\ a = SubSeq(s, 1, Find(s, c) - 1) /\ b = SubSeq(s, Find(s, c) + 1, Len(s))
  BY <1>1, <1>4
<1> QED
  BY <1>5, Zenon DEF s, BeforeFirst, AfterFirst, Around

\* s has no c.
Clear(s, c) == \A k \in 1..Len(s) : s[k] # c

LEMMA ClearCut ==
    ASSUME NEW S, NEW a \in Seq(S), NEW b \in Seq(S), NEW c \in S, Clear(a, c)
    PROVE  BeforeFirst(Around(a, c, b), c) = a /\ AfterFirst(Around(a, c, b), c) = b
  BY FirstCut DEF Clear

LEMMA FirstCutUnique ==
    ASSUME NEW S, NEW a \in Seq(S), NEW b \in Seq(S), NEW d \in Seq(S), NEW e \in Seq(S),
           NEW c \in S, \A k \in 1..Len(a) : a[k] # c, \A k \in 1..Len(d) : d[k] # c
    PROVE  Around(a, c, b) = Around(d, c, e) => a = d /\ b = e
<1> DEFINE u == Around(a, c, b)
           v == Around(d, c, e)
<1>0. Clear(a, c) /\ Clear(d, c)
  BY DEF Clear
<1>1. BeforeFirst(u, c) = a /\ AfterFirst(u, c) = b
  BY <1>0, ClearCut, Zenon
<1>2. BeforeFirst(v, c) = d /\ AfterFirst(v, c) = e
  BY <1>0, ClearCut, Zenon
<1> HIDE DEF u, v
<1>3. u = v => a = d /\ b = e
  BY <1>1, <1>2, Zenon
<1> QED
  BY <1>3, Zenon DEF u, v

\* The port in a normal form, after the host.
Kept(scheme, port) ==
    IF port = << >> \/ is_default_port(scheme, port) THEN << >> ELSE <<":">> \o port

LEMMA FindNone ==
    ASSUME NEW S, NEW s \in Seq(S), NEW c, \A k \in 1..Len(s) : s[k] # c
    PROVE  Find(s, c) = 0
<1>1. Find(s, c) \in 0..Len(s) /\ Len(s) \in Nat
  BY FindFacts, LenProperties
<1>2. Find(s, c) # 0 => s[Find(s, c)] = c
  BY FindFacts
<1> QED
  BY <1>1, <1>2

LEMMA NormalPlain ==
    ASSUME NEW L, NEW text, Trim(text, {" "}) \in Seq(L),
           \A k \in 1..Len(Trim(text, {" "})) : Trim(text, {" "})[k] # "://"
    PROVE  normalize_origin(text) = LowerAll(Trim(text, {" "}))
<1>1. Find(Trim(text, {" "}), "://") = 0
  BY FindNone
<1> QED
  BY <1>1, Zenon DEF normalize_origin

LEMMA KeptType ==
    ASSUME NEW L, NEW t \in Seq(L), NEW scheme
    PROVE  Kept(scheme, t) \in Seq(Lowered(L))
<1> DEFINE V == Lowered(L)
<1>1. ":" \in V /\ t \in Seq(V)
  BY SchemeMark, WiderSeq DEF Lowered
<1> HIDE DEF V
<1> DEFINE c == <<":">>
<1>2. c \in Seq(V)
  BY <1>1
<1> HIDE DEF c
<1>3. c \o t \in Seq(V)
  BY <1>1, <1>2, ConcatProperties
<1>4. << >> \in Seq(V)
  OBVIOUS
<1>5. Kept(scheme, t) = << >> \/ Kept(scheme, t) = c \o t
  BY DEF Kept, c
<1>6. Kept(scheme, t) \in Seq(V)
  BY <1>3, <1>4, <1>5
<1> QED
  BY <1>6 DEF V

\* A "://" between a lower-case scheme, a host and a port.
LEMMA FormAssociates ==
    ASSUME NEW V, NEW a \in Seq(V), NEW h \in Seq(V), NEW k \in Seq(V), "://" \in V
    PROVE  /\ a \o <<"://">> \o h \o k = a \o <<"://">> \o (h \o k)
           /\ h \o k \in Seq(V)
<1> DEFINE c == <<"://">>
           b == a \o c
<1>1. c \in Seq(V)
  OBVIOUS
<1> HIDE DEF c
<1>2. b \in Seq(V) /\ h \o k \in Seq(V)
  BY <1>1, ConcatProperties
<1> HIDE DEF b
<1>3. (b \o h) \o k = b \o (h \o k)
  BY <1>2, ConcatAssociative, SMTT(30)
<1> QED
  BY <1>2, <1>3 DEF b, c

\* What normalize_origin makes of the two sides of the first "://".
Rebuilt(a, d) ==
    LET split == split_authority(d)
    IN  LowerAll(a) \o <<"://">> \o LowerAll(split[1]) \o Kept(LowerAll(a), split[2])

\* The normal form of a text that is a and d around "://".
NormalFrom(text, a, d) ==
    Trim(text, {" "}) = Around(a, "://", d) => normalize_origin(text) = Rebuilt(a, d)

LEMMA NormalCut ==
    ASSUME NEW L, NEW a \in Seq(L), NEW d \in Seq(L), NEW text, "://" \in L,
           \A k \in 1..Len(a) : a[k] # "://"
    PROVE  NormalFrom(text, a, d)
<1> DEFINE core == Around(a, "://", d)
           q == Find(core, "://")
<1>1. /\ core \in Seq(L) /\ q \in 1..Len(core)
      /\ BeforeFirst(core, "://") = a /\ AfterFirst(core, "://") = d
  <2>1. ASSUME NEW c \in L, \A k \in 1..Len(a) : a[k] # c
        PROVE  /\ Around(a, c, d) \in Seq(L)
               /\ Find(Around(a, c, d), c) \in 1..Len(Around(a, c, d))
               /\ BeforeFirst(Around(a, c, d), c) = a
               /\ AfterFirst(Around(a, c, d), c) = d
    BY <2>1, FirstCut
  <2> QED
    BY <2>1, Zenon
<1> HIDE DEF core
<1>3. Len(core) \in Nat
  BY <1>1, LenProperties
<1>4. q # 0
  <2> HIDE DEF q
  <2> QED
    BY <1>1, <1>3
<1> SUFFICES ASSUME Trim(text, {" "}) = core PROVE normalize_origin(text) = Rebuilt(a, d)
  BY Zenon DEF core, NormalFrom
<1>2. Trim(text, {" "}) = core
  OBVIOUS
<1>5. normalize_origin(text) =
            LET i == Find(core, "://")
                scheme == LowerAll(SubSeq(core, 1, i - 1))
                split == split_authority(SubSeq(core, i + 1, Len(core)))
            IN  IF i = 0 THEN LowerAll(core)
                ELSE scheme \o <<"://">> \o LowerAll(split[1])
                        \o (IF split[2] = << >> \/ is_default_port(scheme, split[2])
                            THEN << >> ELSE <<":">> \o split[2])
  BY <1>2, Zenon DEF normalize_origin
<1>6. normalize_origin(text) =
            LET scheme == LowerAll(SubSeq(core, 1, q - 1))
                split == split_authority(SubSeq(core, q + 1, Len(core)))
            IN  scheme \o <<"://">> \o LowerAll(split[1]) \o Kept(scheme, split[2])
  BY <1>4, <1>5, Zenon DEF Kept
<1> QED
  BY <1>1, <1>6, Zenon DEF Rebuilt, BeforeFirst, AfterFirst, q

\* It is built from a host s and a port t.
RebuiltFrom(a, d, s, t, x) ==
    /\ d = s \o x
    /\ HeadShape(s, x)
    /\ (x = << >> /\ t = << >>) \/ x = <<":">> \o t
    /\ Rebuilt(a, d) = LowerAll(a) \o <<"://">> \o (LowerAll(s) \o Kept(LowerAll(a), t))

LEMMA RebuiltForm ==
    ASSUME NEW L, NEW a \in Seq(L), NEW d \in Seq(L)
    PROVE  \E s, t, x \in Seq(L) : RebuiltFrom(a, d, s, t, x)
<1>0. PICK s \in Seq(L), t \in Seq(L), x \in Seq(L) : SplitAs(d, s, t, x)
  BY SplitAuthority
<1>1. /\ split_authority(d) = <<s, t>>
      /\ d = s \o x
      /\ HeadShape(s, x)
      /\ (x = << >> /\ t = << >>) \/ x = <<":">> \o t
  BY <1>0, Zenon DEF SplitAs
<1> DEFINE A == LowerAll(a)
           H == LowerAll(s)
           K == Kept(A, t)
<1>2. Rebuilt(a, d) = A \o <<"://">> \o H \o K
  <2>1. split_authority(d)[1] = s /\ split_authority(d)[2] = t
    <3>1. <<s, t>>[1] = s /\ <<s, t>>[2] = t
      OBVIOUS
    <3> QED
      BY <1>1, <3>1, Zenon
  <2> QED
    BY <2>1, Zenon DEF Rebuilt
<1>3. A \in Seq(Lowered(L)) /\ H \in Seq(Lowered(L)) /\ K \in Seq(Lowered(L))
  <2>1. \A w \in Seq(L) : LowerAll(w) \in Seq(Lowered(L))
    BY LowerFacts
  <2>2. \A z : \A w \in Seq(L) : Kept(z, w) \in Seq(Lowered(L))
    BY KeptType
  <2> QED
    BY <2>1, <2>2, Zenon
<1>4. "://" \in Lowered(L)
  BY SchemeMark DEF Lowered
<1>5. \A y, h, k \in Seq(Lowered(L)) :
        y \o <<"://">> \o h \o k = y \o <<"://">> \o (h \o k)
  BY <1>4, FormAssociates, SMTT(30)
<1>6. A \o <<"://">> \o H \o K = A \o <<"://">> \o (H \o K)
  BY <1>3, <1>5, Zenon
<1> HIDE DEF A, H, K
<1>7. Rebuilt(a, d) = A \o <<"://">> \o (H \o K)
  BY <1>2, <1>6, Zenon
<1> QED
  BY <1>1, <1>7, Zenon DEF A, H, K, RebuiltFrom


----------------------------------------------------------------------------
(* What an origin spells *)

LEMMA HostIsHead ==
    ASSUME NEW S, NEW h \in Seq(S), HostShape(h), NEW x
    PROVE  HeadShape(h, x)
<1>1. Len(h) \in Nat
  BY LenProperties
<1>2. CASE h # << >> /\ \A k \in 1..Len(h) : h[k] # ":" /\ h[k] # "["
  <2>1. 1 \in 1..Len(h)
    BY <1>1, <1>2, EmptySeq
  <2> QED
    BY <1>2, <2>1 DEF HeadShape
<1>3. CASE /\ Len(h) > 1 /\ h[1] = "[" /\ h[Len(h)] = "]"
           /\ \A k \in 2..(Len(h) - 1) : h[k] # "]"
  <2>1. \A k \in 1..(Len(h) - 1) : k = 1 \/ k \in 2..(Len(h) - 1)
    BY <1>1
  <2>2. \A k \in 1..(Len(h) - 1) : h[k] # "]"
    BY <1>3, <2>1
  <2>3. h # << >>
    BY <1>1, <1>3, EmptySeq
  <2> QED
    BY <1>3, <2>2, <2>3 DEF HeadShape
<1> QED
  BY <1>2, <1>3 DEF HostShape

LEMMA HostIsShaped ==
    ASSUME NEW host, IsHost(host)
    PROVE  HostShape(host)
<1>1. {":", "[", "]"} \subseteq Punctuation
  BY DEF Punctuation
<1>2. \A x : IsWord(x) => x # ":" /\ x # "[" /\ x # "]"
  BY <1>1 DEF IsWord
<1>3. CASE \A i \in 1..Len(host) : IsWord(host[i])
  BY <1>2, <1>3 DEF IsHost, HostShape
<1>4. CASE /\ Len(host) > 1 /\ host[1] = "[" /\ host[Len(host)] = "]"
           /\ \A i \in 2..(Len(host) - 1) : IsWord(host[i]) \/ host[i] = ":"
  <2>1. \A i \in 2..(Len(host) - 1) : host[i] # "]"
    BY <1>2, <1>4
  <2> QED
    BY <1>4, <2>1 DEF HostShape
<1> QED
  BY <1>3, <1>4 DEF IsHost

\* A colon in front.
LEMMA ColonFacts ==
    ASSUME NEW S, NEW t \in Seq(S)
    PROVE  /\ Len(t) \in Nat /\ (t = << >> <=> Len(t) = 0)
           /\ Len(<<":">> \o t) = Len(t) + 1 /\ (<<":">> \o t)[1] = ":"
           /\ \A k \in 1..Len(t) : (<<":">> \o t)[k + 1] = t[k]
  BY EmptySeq

LEMMA PortStarts ==
    ASSUME NEW port, IsPort(port)
    PROVE  StartsPort(port)
<1>1. <<":">>[1] = ":"
  OBVIOUS
<1> QED
  BY <1>1 DEF IsPort, StartsPort

LEMMA CutOnce ==
    ASSUME NEW S, NEW s \in Seq(S), NEW x \in Seq(S), NEW h \in Seq(S), NEW y \in Seq(S),
           HostShape(h), HeadShape(s, x), StartsPort(x), StartsPort(y)
    PROVE  s \o x = h \o y => s = h /\ x = y
  BY CutUnique

\* The port that normalize_origin writes.
Written(low, port) == IF PortNumber(low, port) = DefaultPort(low) THEN << >> ELSE port

LEMMA DefaultPortIs ==
    ASSUME NEW low, NEW q, ParseU16(q) # NaN
    PROVE  is_default_port(<<low>>, <<q>>) <=> ParseU16(q) = DefaultPort(low)
<1>1. Len(<<q>>) = 1 /\ <<q>>[1] = q
  OBVIOUS
<1>2. is_default_port(<<low>>, <<q>>) <=>
        \/ low \in {"http", "ws"} /\ ParseU16(q) = 80
        \/ low \in {"https", "wss"} /\ ParseU16(q) = 443
  BY <1>1 DEF is_default_port
<1>3. CASE low \in {"http", "ws"}
  BY <1>2, <1>3 DEF DefaultPort
<1>4. CASE low \in {"https", "wss"}
  BY <1>2, <1>4 DEF DefaultPort
<1>5. CASE low \notin {"http", "ws", "https", "wss"}
  BY <1>2, <1>5 DEF DefaultPort
<1> QED
  BY <1>3, <1>4, <1>5

LEMMA KeptIsWritten ==
    ASSUME NEW S, NEW low, NEW port, IsPort(port), NEW t \in Seq(S),
           (port = << >> /\ t = << >>) \/ port = <<":">> \o t
    PROVE  Kept(<<low>>, t) = Written(low, port)
<1>1. /\ Len(t) \in Nat /\ (t = << >> <=> Len(t) = 0)
      /\ Len(<<":">> \o t) = Len(t) + 1
      /\ \A k \in 1..Len(t) : (<<":">> \o t)[k + 1] = t[k]
  BY ColonFacts
<1>2. Len(<< >>) = 0 /\ Len(<<":">>) = 1
  OBVIOUS
<1>3. CASE port = << >> \/ port = <<":">>
  <2>1. t = << >>
    BY <1>1, <1>2, <1>3
  <2>2. PortNumber(low, port) = DefaultPort(low)
    BY <1>2, <1>3 DEF PortNumber
  <2> QED
    BY <2>1, <2>2 DEF Kept, Written
<1>4. CASE /\ Len(port) = 2 /\ port[1] = ":"
           /\ IsWord(port[2]) /\ ParseU16(port[2]) # NaN
  <2>1. port = <<":">> \o t /\ Len(t) = 1 /\ t # << >>
    <3>1. Len(port) # 0
      BY <1>4
    <3>2. port = <<":">> \o t
      BY <1>2, <3>1, Zenon
    <3>3. Len(port) = Len(t) + 1
      BY <1>1, <3>2, Zenon
    <3> QED
      BY <1>1, <1>4, <3>2, <3>3
  <2>2. t[1] = port[2]
    <3>1. 1 \in 1..Len(t) /\ 1 + 1 = 2
      BY <2>1
    <3> QED
      BY <1>1, <2>1, <3>1
  <2>3. t = <<port[2]>>
    BY <2>1, <2>2
  <2>4. PortNumber(low, port) = ParseU16(port[2])
    BY <1>4 DEF PortNumber
  <2>5. is_default_port(<<low>>, t) <=> ParseU16(port[2]) = DefaultPort(low)
    BY <1>4, <2>3, DefaultPortIs
  <2> QED
    BY <2>1, <2>4, <2>5, Zenon DEF Kept, Written
<1> QED
  BY <1>3, <1>4 DEF IsPort

\* The text of an origin, without blanks.
SpelledForm(low, h, w) == Around(<<low>>, "://", h \o w)

LEMMA SpelledCore ==
    ASSUME NEW L, LexemesOK(L), NEW text \in Seq(L), NEW scheme \in L,
           NEW host \in Seq(L), NEW port \in Seq(L), Spells(text, scheme, host, port)
    PROVE  Trim(text, {" "}) = SpelledForm(scheme, host, port)
<1>1. "://" \in L
  BY SchemeMark, Zenon DEF LexemesOK
<1>2. Padded(text, <<scheme, "://">> \o host \o port, {" "})
  BY Zenon DEF Spells
<1>3. Trim(text, {" "}) = <<scheme, "://">> \o host \o port
  BY <1>2, TrimPadded
<1>4. <<scheme, "://">> = <<scheme>> \o <<"://">>
  OBVIOUS
<1>5. <<scheme>> \in Seq(L)
  OBVIOUS
<1>6. <<scheme>> \o <<"://">> \o host \o port = <<scheme>> \o <<"://">> \o (host \o port)
  BY <1>1, <1>5, FormAssociates
<1> QED
  BY <1>3, <1>4, <1>6, Zenon DEF SpelledForm, Around

LEMMA LowerOne ==
    ASSUME NEW x
    PROVE  LowerAll(<<x>>) = <<Lower(x)>>
  BY DEF LowerAll

LEMMA SpelledNormal ==
    ASSUME NEW L, LexemesOK(L), NEW text \in Seq(L), NEW scheme \in L,
           NEW host \in Seq(L), NEW port \in Seq(L), Spells(text, scheme, host, port)
    PROVE  normalize_origin(text)
                = SpelledForm(Lower(scheme), LowerAll(host), Written(Lower(scheme), port))
<1> DEFINE a == <<scheme>>
           d == host \o port
           low == Lower(scheme)
<1>1. "://" \in L /\ IsWord(scheme) /\ IsHost(host) /\ IsPort(port)
  BY SchemeMark, Zenon DEF LexemesOK, Spells
<1>2. a \in Seq(L) /\ \A k \in 1..Len(a) : a[k] # "://"
  <2>1. scheme # "://"
    BY <1>1, SchemeMark DEF IsWord
  <2> QED
    BY <2>1
<1>3. d \in Seq(L)
  BY ConcatFacts
<1>4. Trim(text, {" "}) = Around(a, "://", d)
  <2>1. Trim(text, {" "}) = SpelledForm(scheme, host, port)
    BY SpelledCore
  <2> QED
    BY <2>1, Zenon DEF SpelledForm, Around
<1>5. LowerAll(a) = <<low>>
  BY LowerOne
<1> HIDE DEF a, d
<1>6. NormalFrom(text, a, d)
  BY <1>1, <1>2, <1>3, NormalCut
<1>7. normalize_origin(text) = Rebuilt(a, d)
  BY <1>4, <1>6, Zenon DEF NormalFrom
<1>8. PICK s \in Seq(L), t \in Seq(L), x \in Seq(L) : RebuiltFrom(a, d, s, t, x)
  BY <1>2, <1>3, RebuiltForm
<1>9. /\ d = s \o x
      /\ HeadShape(s, x)
      /\ (x = << >> /\ t = << >>) \/ x = <<":">> \o t
      /\ Rebuilt(a, d) = LowerAll(a) \o <<"://">> \o (LowerAll(s) \o Kept(LowerAll(a), t))
  BY <1>8, Zenon DEF RebuiltFrom
<1>10. HeadShape(s, x) /\ HostShape(host) /\ StartsPort(x) /\ StartsPort(port)
  <2>1. StartsPort(x)
    <3>1. (<<":">> \o t)[1] = ":"
      BY ColonFacts
    <3> QED
      BY <1>9, <3>1, Zenon DEF StartsPort
  <2> QED
    BY <1>1, <1>9, <2>1, HostIsShaped, PortStarts
<1>11. s = host /\ x = port
  <2>1. s \o x = host \o port => s = host /\ x = port
    <3> HIDE <1>9
    <3> QED
      BY <1>10, CutOnce
  <2> QED
    BY <1>9, <2>1, Zenon DEF d
<1>12. Kept(<<low>>, t) = Written(low, port)
  <2>1. (port = << >> /\ t = << >>) \/ port = <<":">> \o t
    BY <1>9, <1>11, Zenon
  <2> QED
    BY <1>1, <2>1, KeptIsWritten
<1> QED
  BY <1>5, <1>7, <1>9, <1>11, <1>12, Zenon DEF SpelledForm, Around

\* No two plainly written ports are the same number.
PlainPortsOK == \A p, q \in PlainPorts : ParseU16(p) = ParseU16(q) => p = q

\* Of one scheme, the ports that are written are those that are meant.
LEMMA WrittenMeant ==
    ASSUME NEW low, NEW p, NEW q, IsPort(p), IsPort(q)
    PROVE  Written(low, p) = Written(low, q) => PortNumber(low, p) = PortNumber(low, q)
<1>1. \A r : Written(low, r) = << >> => PortNumber(low, r) = DefaultPort(low)
  <2> SUFFICES ASSUME NEW r, Written(low, r) = << >>, PortNumber(low, r) # DefaultPort(low)
               PROVE  FALSE
    OBVIOUS
  <2>1. r = << >>
    BY Zenon DEF Written
  <2>2. Len(r) # 2
    BY <2>1
  <2> QED
    BY <2>2 DEF PortNumber
<1>2. \A r : Written(low, r) = << >> \/ (Written(low, r) = r /\ PortNumber(low, r) # DefaultPort(low))
  BY Zenon DEF Written
<1>3. CASE Written(low, p) = << >>
  BY <1>1, <1>3, Zenon
<1>4. CASE Written(low, p) # << >>
  <2> SUFFICES ASSUME Written(low, p) = Written(low, q)
               PROVE  PortNumber(low, p) = PortNumber(low, q)
    OBVIOUS
  <2>1. Written(low, p) = p /\ Written(low, q) = q
    BY <1>2, <1>4, Zenon
  <2>2. p = q
    BY <2>1, Zenon
  <2> QED
    BY <2>2, Zenon
<1> QED
  BY <1>3, <1>4

LEMMA MeantWritten ==
    ASSUME PlainPortsOK, NEW S, NEW x, NEW y, Lower(x) = Lower(y),
           NEW p \in Seq(S), NEW q \in Seq(S), IsPort(p), IsPort(q),
           PlainlySpelled(x, p), PlainlySpelled(y, q),
           PortNumber(Lower(x), p) = PortNumber(Lower(y), q)
    PROVE  Written(Lower(x), p) = Written(Lower(y), q)
<1> DEFINE low == Lower(x)
<1>0. /\ Lower(y) = low /\ PortNumber(low, p) = PortNumber(low, q)
      /\ \/ Len(p) < 2
         \/ ParseU16(p[2]) = DefaultPort(low)
         \/ p[2] \in PlainPorts
      /\ \/ Len(q) < 2
         \/ ParseU16(q[2]) = DefaultPort(low)
         \/ q[2] \in PlainPorts
  BY DEF PlainlySpelled
<1> HIDE DEF low
<1>1. CASE PortNumber(low, p) = DefaultPort(low)
  <2>1. Written(low, p) = << >> /\ Written(low, q) = << >>
    BY <1>0, <1>1, Zenon DEF Written
  <2> QED
    BY <1>0, <2>1 DEF low
<1>2. CASE PortNumber(low, p) # DefaultPort(low)
  <2>1. Len(p) = 2 /\ Len(q) = 2
    BY <1>0, <1>2 DEF PortNumber
  <2>2. ~(Len(p) < 2) /\ ~(Len(q) < 2)
    BY <2>1
  <2>3. ParseU16(p[2]) = ParseU16(q[2]) /\ ParseU16(p[2]) # DefaultPort(low)
    BY <1>0, <1>2, <2>1 DEF PortNumber
  <2>4. p[2] \in PlainPorts /\ q[2] \in PlainPorts
    BY <1>0, <2>2, <2>3
  <2>5. p[2] = q[2]
    BY <2>3, <2>4 DEF PlainPortsOK
  <2>6. p = <<":", p[2]>> /\ q = <<":", q[2]>>
    <3>1. \A r \in Seq(S) : IsPort(r) /\ Len(r) = 2 => r = <<":", r[2]>>
      <4> SUFFICES ASSUME NEW r \in Seq(S), IsPort(r), Len(r) = 2 PROVE r = <<":", r[2]>>
        OBVIOUS
      <4>1. r # << >> /\ r # <<":">>
        <5>1. Len(<< >>) # 2 /\ Len(<<":">>) # 2
          OBVIOUS
        <5> QED
          BY <5>1, Zenon
      <4>2. r[1] = ":"
        BY <4>1 DEF IsPort
      <4> QED
        BY <4>2
    <3> QED
      BY <2>1, <3>1
  <2>7. p = q
    BY <2>5, <2>6
  <2> QED
    BY <1>0, <2>7, Zenon DEF low
<1> QED
  BY <1>1, <1>2

\* A form of a scheme, a host and a port is of no others.
FormIs(a, h, w, low, g, v) ==
    Around(a, "://", h \o w) = SpelledForm(low, g, v) => a = <<low>> /\ h = g /\ w = v

LEMMA FormUnique ==
    ASSUME NEW S, "://" \in S,
           NEW a \in Seq(S), \A k \in 1..Len(a) : a[k] # "://", NEW h \in Seq(S), NEW w \in Seq(S),
           NEW low \in S, low # "://", NEW g \in Seq(S), NEW v \in Seq(S),
           HeadShape(h, w), StartsPort(w), HostShape(g), StartsPort(v)
    PROVE  FormIs(a, h, w, low, g, v)
<1> DEFINE b == h \o w
           d == <<low>>
           e == g \o v
<1>1. b \in Seq(S) /\ e \in Seq(S)
  BY ConcatFacts
<1>2. d \in Seq(S) /\ \A k \in 1..Len(d) : d[k] # "://"
  OBVIOUS
<1>3. b = e => h = g /\ w = v
  BY CutOnce
<1> HIDE DEF b, d, e
<1>4. Around(a, "://", b) = Around(d, "://", e) => a = d /\ b = e
  BY <1>1, <1>2, FirstCutUnique, SMTT(30)
<1> QED
  BY <1>3, <1>4, Zenon DEF b, d, e, SpelledForm, FormIs

LEMMA FormsEqual ==
    ASSUME NEW S, "://" \in S,
           NEW low \in S, low # "://", NEW h \in Seq(S), NEW w \in Seq(S),
           NEW lov \in S, lov # "://", NEW g \in Seq(S), NEW v \in Seq(S),
           HeadShape(h, w), StartsPort(w), HostShape(g), StartsPort(v)
    PROVE  SpelledForm(low, h, w) = SpelledForm(lov, g, v) => low = lov /\ h = g /\ w = v
<1>1. \A a \in Seq(S) : (\A k \in 1..Len(a) : a[k] # "://") => FormIs(a, h, w, lov, g, v)
  BY FormUnique
<1>2. <<low>> \in Seq(S) /\ \A k \in 1..Len(<<low>>) : <<low>>[k] # "://"
  OBVIOUS
<1>3. <<low>> = <<lov>> => low = lov
  OBVIOUS
<1> QED
  BY <1>1, <1>2, <1>3, Zenon DEF SpelledForm, FormIs

\* A scheme, a host and a port in a normal form.
LEMMA SpelledShapes ==
    ASSUME NEW L, LexemesOK(L), NEW scheme \in L, NEW host \in Seq(L), NEW port \in Seq(L),
           IsWord(scheme), IsHost(host), IsPort(port)
    PROVE  LET low == Lower(scheme)
               h == LowerAll(host)
               w == Written(low, port)
           IN  /\ low \in Lowered(L) /\ low \notin Punctuation /\ "://" \in Lowered(L)
               /\ h \in Seq(Lowered(L)) /\ w \in Seq(Lowered(L))
               /\ HostShape(h) /\ StartsPort(w) /\ \A x : HeadShape(h, x)
<1> DEFINE low == Lower(scheme)
           h == LowerAll(host)
           w == Written(low, port)
<1>1. low \in Lowered(L) /\ "://" \in Lowered(L)
  BY SchemeMark DEF Lowered
<1>2. low \notin Punctuation
  <2>1. scheme \notin Punctuation
    BY DEF IsWord
  <2> QED
    BY <2>1, PunctuationKept
<1>3. h \in Seq(Lowered(L)) /\ HostShape(h)
  <2>1. HostShape(host)
    BY HostIsShaped
  <2> QED
    BY <2>1, LowerFacts, LowerShapes
<1>4. \A x : HeadShape(h, x)
  <2> HIDE DEF h
  <2> QED
    BY <1>3, HostIsHead
<1>5. w \in Seq(Lowered(L)) /\ StartsPort(w)
  <2>1. w = << >> \/ w = port
    BY Zenon DEF Written
  <2>2. << >> \in Seq(Lowered(L)) /\ port \in Seq(Lowered(L))
    BY WiderSeq
  <2>3. StartsPort(<< >>) /\ StartsPort(port)
    BY PortStarts DEF StartsPort
  <2> QED
    BY <2>1, <2>2, <2>3, Zenon
<1> QED
  BY <1>1, <1>2, <1>3, <1>4, <1>5

LEMMA MeansEqual ==
    ASSUME NEW x, NEW h, NEW p, NEW y, NEW g, NEW q
    PROVE  Means(x, h, p) = Means(y, g, q) <=>
                /\ Lower(x) = Lower(y) /\ LowerAll(h) = LowerAll(g)
                /\ PortNumber(Lower(x), p) = PortNumber(Lower(y), q)
  BY DEF Means

\* Two origins have the same normal form only if they mean the same, and if
\* they do and their ports are plainly written (origin.rs normalize_origin).
LEMMA SameNormalForm ==
    ASSUME NEW L, LexemesOK(L), PlainPortsOK,
           NEW text \in Seq(L), NEW x \in L, NEW h \in Seq(L), NEW p \in Seq(L), Spells(text, x, h, p),
           NEW other \in Seq(L), NEW y \in L, NEW g \in Seq(L), NEW q \in Seq(L), Spells(other, y, g, q)
    PROVE  LET same == normalize_origin(text) = normalize_origin(other)
           IN  /\ same => Means(x, h, p) = Means(y, g, q)
               /\ (/\ PlainlySpelled(x, p) /\ PlainlySpelled(y, q)
                   /\ Means(x, h, p) = Means(y, g, q)) => same
<1> DEFINE low == Lower(x)
           H == LowerAll(h)
           W == Written(low, p)
           low2 == Lower(y)
           G == LowerAll(g)
           V == Written(low2, q)
<1>1. normalize_origin(text) = SpelledForm(low, H, W)
  BY SpelledNormal
<1>2. normalize_origin(other) = SpelledForm(low2, G, V)
  BY SpelledNormal
<1>3. /\ IsWord(x) /\ IsHost(h) /\ IsPort(p)
      /\ IsWord(y) /\ IsHost(g) /\ IsPort(q)
  BY Zenon DEF Spells
<1>4. /\ low \in Lowered(L) /\ low \notin Punctuation /\ "://" \in Lowered(L)
      /\ H \in Seq(Lowered(L)) /\ W \in Seq(Lowered(L))
      /\ StartsPort(W) /\ \A z : HeadShape(H, z)
  BY <1>3, SpelledShapes
<1>5. /\ low2 \in Lowered(L) /\ low2 \notin Punctuation
      /\ G \in Seq(Lowered(L)) /\ V \in Seq(Lowered(L))
      /\ HostShape(G) /\ StartsPort(V)
  BY <1>3, SpelledShapes
<1>6. low = low2 /\ W = V => PortNumber(low, p) = PortNumber(low2, q)
  BY <1>3, WrittenMeant, Zenon
<1>7. PlainlySpelled(x, p) /\ PlainlySpelled(y, q) /\ low = low2
      /\ PortNumber(low, p) = PortNumber(low2, q) => W = V
  BY <1>3, MeantWritten
<1> HIDE DEF low, H, W, low2, G, V
<1>8. SpelledForm(low, H, W) = SpelledForm(low2, G, V) => low = low2 /\ H = G /\ W = V
  <2>1. /\ low # "://" /\ low2 # "://"
        /\ HeadShape(H, W)
    BY <1>4, <1>5, SchemeMark
  <2> QED
    BY <1>4, <1>5, <2>1, FormsEqual
<1>9. Means(x, h, p) = Means(y, g, q) <=>
        low = low2 /\ H = G /\ PortNumber(low, p) = PortNumber(low2, q)
  BY MeansEqual DEF low, low2, H, G
<1> QED
  BY <1>1, <1>2, <1>6, <1>7, <1>8, <1>9, Zenon

----------------------------------------------------------------------------
(* What a normal form was made of *)

LEMMA PaddedExists ==
    ASSUME NEW S, NEW s \in Seq(S), NEW C
    PROVE  \E core \in Infixes(s) : Padded(s, core, C)
<1> DEFINE n == Len(s)
           J == {k \in 1..n : s[k] \notin C}
<1>1. n \in Nat
  BY LenProperties
<1> SUFFICES \E i \in 1..(n + 1), j \in 0..n :
                /\ \A k \in 1..n : k < i \/ k > j => s[k] \in C
                /\ i <= j => s[i] \notin C /\ s[j] \notin C
  <2>1. PICK i \in 1..(n + 1), j \in 0..n :
            /\ \A k \in 1..n : k < i \/ k > j => s[k] \in C
            /\ i <= j => s[i] \notin C /\ s[j] \notin C
    OBVIOUS
  <2>2. SubSeq(s, i, j) \in Infixes(s) /\ Padded(s, SubSeq(s, i, j), C)
    BY <2>1 DEF Infixes, Padded
  <2> QED
    BY <2>2
<1>2. CASE J = {}
  <2>1. 1 \in 1..(n + 1) /\ 0 \in 0..n
    BY <1>1
  <2>2. \A k \in 1..n : s[k] \in C
    BY <1>2
  <2> QED
    BY <2>1, <2>2
<1>3. CASE J # {}
  <2> DEFINE R == {n - k : k \in J}
  <2>0. J \in SUBSET Nat /\ J # {}
    BY <1>1, <1>3
  <2>1. PICK i \in J : \A k \in J : i <= k
    <3> HIDE DEF J
    <3> QED
      BY <2>0, LeastNumber
  <2>2. R \in SUBSET Nat /\ R # {}
    BY <1>1, <1>3
  <2>3. PICK r \in R : \A m \in R : r <= m
    <3> HIDE DEF R
    <3> QED
      BY <2>2, LeastNumber
  <2>4. PICK j \in J : r = n - j
    BY <2>3
  <2>5. ASSUME NEW k \in J PROVE k <= j
    <3>1. n - k \in R
      OBVIOUS
    <3>2. n - j <= n - k
      BY <2>3, <2>4, <3>1
    <3>3. k \in Nat /\ j \in Nat
      BY <2>0
    <3> QED
      BY <1>1, <3>2, <3>3
  <2>6. i \in 1..(n + 1) /\ j \in 0..n /\ s[i] \notin C /\ s[j] \notin C
    BY <1>1, <2>1, <2>4
  <2>7. ASSUME NEW k \in 1..n, k < i \/ k > j PROVE s[k] \in C
    <3>1. k \notin J
      BY <1>1, <2>1, <2>5, <2>7
    <3> QED
      BY <3>1
  <2> QED
    BY <2>6, <2>7
<1> QED
  BY <1>2, <1>3

LEMMA IsInfix ==
    ASSUME NEW s, NEW i \in 1..(Len(s) + 1), NEW j \in 0..Len(s)
    PROVE  SubSeq(s, i, j) \in Infixes(s)
  BY DEF Infixes

LEMMA ConcatInfixes ==
    ASSUME NEW S, NEW s \in Seq(S), NEW t \in Seq(S)
    PROVE  s \in Infixes(s \o t) /\ t \in Infixes(s \o t)
<1> DEFINE u == s \o t
           m == Len(s)
           n == Len(t)
<1>1. /\ u \in Seq(S) /\ m \in Nat /\ n \in Nat /\ Len(u) = m + n
      /\ \A i \in 1..m : u[i] = s[i]
      /\ \A i \in 1..n : u[m + i] = t[i]
  BY ConcatFacts
<1> HIDE DEF u, m, n
<1>2. /\ 1 \in 1..(Len(u) + 1) /\ m \in 0..Len(u)
      /\ m + 1 \in 1..(Len(u) + 1) /\ Len(u) \in 0..Len(u)
  BY <1>1
<1>3. /\ SubSeq(u, 1, m) \in Seq(S)
      /\ Len(SubSeq(u, 1, m)) = IF 1 <= m THEN m - 1 + 1 ELSE 0
      /\ \A k \in 1..(m - 1 + 1) : SubSeq(u, 1, m)[k] = u[1 + k - 1]
  BY <1>1, <1>2, SubFacts
<1>4. SubSeq(u, 1, m) = s
  <2>1. Len(SubSeq(u, 1, m)) = m /\ Len(s) = m
    BY <1>1, <1>3 DEF m
  <2>2. \A k \in 1..m : SubSeq(u, 1, m)[k] = s[k]
    BY <1>1, <1>3
  <2> QED
    BY <1>3, <2>1, <2>2, SeqEqual
<1> DEFINE a == m + 1
           z == Len(u)
<1>5. /\ SubSeq(u, a, z) \in Seq(S)
      /\ Len(SubSeq(u, a, z)) = IF a <= z THEN z - a + 1 ELSE 0
      /\ \A k \in 1..(z - a + 1) : SubSeq(u, a, z)[k] = u[a + k - 1]
  <2> HIDE DEF a, z
  <2>1. a \in 1..(Len(u) + 1) /\ z \in 0..Len(u)
    BY <1>2 DEF a, z
  <2> QED
    BY <1>1, <2>1, SubFacts
<1>6. SubSeq(u, a, z) = t
  <2>1. Len(SubSeq(u, a, z)) = n /\ Len(t) = n
    BY <1>1, <1>5 DEF n
  <2>2. \A k \in 1..n : k \in 1..(z - a + 1) /\ a + k - 1 = m + k
    BY <1>1
  <2>3. \A k \in 1..n : SubSeq(u, a, z)[k] = t[k]
    BY <1>1, <1>5, <2>2
  <2> QED
    BY <1>5, <2>1, <2>3, SeqEqual
<1>7. SubSeq(u, 1, m) \in Infixes(u) /\ SubSeq(u, a, z) \in Infixes(u)
  <2> HIDE DEF a, z
  <2>1. a \in 1..(Len(u) + 1) /\ z \in 0..Len(u)
    BY <1>2 DEF a, z
  <2> QED
    BY <1>2, <2>1, IsInfix
<1> QED
  BY <1>4, <1>6, <1>7, Zenon DEF u

LEMMA InfixOfInfix ==
    ASSUME NEW S, NEW s \in Seq(S), NEW t \in Infixes(s), NEW u \in Infixes(t)
    PROVE  u \in Infixes(s)
<1>1. PICK i \in 1..(Len(s) + 1), j \in 0..Len(s) : t = SubSeq(s, i, j)
  BY DEF Infixes
<1>2. PICK a \in 1..(Len(t) + 1), b \in 0..Len(t) : u = SubSeq(t, a, b)
  BY DEF Infixes
<1>3. /\ Len(s) \in Nat /\ SubSeq(s, i, j) \in Seq(S)
      /\ Len(SubSeq(s, i, j)) = IF i <= j THEN j - i + 1 ELSE 0
  BY SubFacts
<1>4. t \in Seq(S) /\ Len(t) = IF i <= j THEN j - i + 1 ELSE 0
  BY <1>1, <1>3, Zenon
<1>5. << >> \in Infixes(s)
  <2>1. 1 \in 1..(Len(s) + 1) /\ 0 \in 0..Len(s)
    BY <1>3
  <2>2. /\ SubSeq(s, 1, 0) \in Seq(S) /\ Len(SubSeq(s, 1, 0)) = IF 1 <= 0 THEN 0 - 1 + 1 ELSE 0
    BY <2>1, SubFacts
  <2>3. SubSeq(s, 1, 0) = << >>
    BY <2>2, EmptySeq
  <2>4. SubSeq(s, 1, 0) \in Infixes(s)
    BY <2>1, IsInfix
  <2> QED
    BY <2>3, <2>4, Zenon
<1>6. CASE b < a
  <2>1. /\ SubSeq(t, a, b) \in Seq(S) /\ Len(SubSeq(t, a, b)) = IF a <= b THEN b - a + 1 ELSE 0
    BY <1>4, SubFacts
  <2>2. ~(a <= b)
    BY <1>4, <1>6
  <2>3. Len(SubSeq(t, a, b)) = 0
    BY <2>1, <2>2
  <2>4. SubSeq(t, a, b) = << >>
    BY <2>1, <2>3, EmptySeq
  <2> QED
    BY <1>2, <1>5, <2>4, Zenon
<1>7. CASE a <= b
  <2>1. i <= j /\ Len(t) = j - i + 1
    BY <1>3, <1>4, <1>7
  <2>2. /\ j \in (i - 1)..Len(s)
        /\ a \in 1..(j - i + 2) /\ b \in (a - 1)..(j - i + 1)
    BY <1>3, <1>7, <2>1
  <2>3. SubSeq(SubSeq(s, i, j), a, b) = SubSeq(s, i + a - 1, i + b - 1)
    BY <2>2, SubSub
  <2>4. i + a - 1 \in 1..(Len(s) + 1) /\ i + b - 1 \in 0..Len(s)
    BY <1>3, <1>7, <2>1, <2>2
  <2>5. SubSeq(s, i + a - 1, i + b - 1) \in Infixes(s)
    <3> DEFINE c == i + a - 1
               d == i + b - 1
    <3>1. c \in 1..(Len(s) + 1) /\ d \in 0..Len(s)
      BY <2>4
    <3> HIDE DEF c, d
    <3>2. SubSeq(s, c, d) \in Infixes(s)
      BY <3>1, IsInfix
    <3> QED
      BY <3>2 DEF c, d
  <2> QED
    BY <1>1, <1>2, <2>3, <2>5, Zenon
<1> QED
  BY <1>3, <1>4, <1>6, <1>7

\* Around the first c.
LEMMA AroundFirst ==
    ASSUME NEW S, NEW s \in Seq(S), NEW c, Find(s, c) # 0
    PROVE  \E a, b \in Seq(S) : s = Around(a, c, b) /\ \A k \in 1..Len(a) : a[k] # c
<1> DEFINE n == Len(s)
           q == Find(s, c)
           a == SubSeq(s, 1, q - 1)
           b == SubSeq(s, q + 1, n)
<1>1. n \in Nat /\ q \in 1..n /\ s[q] = c /\ \A k \in 1..(q - 1) : s[k] # c
  <2>1. q \in 0..n /\ (q # 0 => s[q] = c /\ \A k \in 1..(q - 1) : s[k] # c)
    BY FindFacts
  <2>2. n \in Nat
    BY LenProperties
  <2> QED
    BY <2>1, <2>2
<1> HIDE DEF q
<1>2. /\ a \in Seq(S) /\ b \in Seq(S) /\ s = Around(a, c, b)
      /\ \A k \in 1..Len(a) : a[k] = s[k] /\ k \in 1..(q - 1)
  <2>1. /\ a \in Seq(S) /\ b \in Seq(S) /\ s = a \o (<<s[q]>> \o b)
        /\ Len(a) = q - 1 /\ \A k \in 1..(q - 1) : a[k] = s[k]
    BY <1>1, CutAt
  <2>2. s[q] \in S
    BY <1>1, ElementOfSeq
  <2> HIDE DEF a, b
  <2>3. <<s[q]>> \in Seq(S)
    BY <2>2
  <2>4. (a \o <<s[q]>>) \o b = a \o (<<s[q]>> \o b)
    <3> DEFINE z == <<s[q]>>
    <3>1. z \in Seq(S) /\ a \in Seq(S) /\ b \in Seq(S)
      BY <2>1, <2>3
    <3> HIDE DEF z
    <3>2. (a \o z) \o b = a \o (z \o b)
      BY <3>1, ConcatAssociative, SMTT(30)
    <3> QED
      BY <3>2 DEF z
  <2>5. s = Around(a, c, b)
    BY <1>1, <2>1, <2>4, Zenon DEF Around
  <2> QED
    BY <2>1, <2>5
<1> HIDE DEF a, b
<1> QED
  BY <1>1, <1>2

\* Words and punctuation that are visible and the same in lower case.
LEMMA HostKept ==
    ASSUME NEW L, LexemesOK(L), NEW s \in Seq(L), \A k \in 1..Len(s) : s[k] \notin Invisible,
           NEW host \in Seq(L), IsHost(host)
    PROVE  LowerAll(s) = LowerAll(host) => IsHost(s)
<1> DEFINE n == Len(s)
<1>1. /\ Len(LowerAll(s)) = n /\ \A k \in 1..n : LowerAll(s)[k] = Lower(s[k]) /\ s[k] \in L
  BY LowerFacts
<1>2. /\ Len(LowerAll(host)) = Len(host)
      /\ \A k \in 1..Len(host) : LowerAll(host)[k] = Lower(host[k]) /\ host[k] \in L
  BY LowerFacts
<1>3. n \in Nat /\ (s = << >> <=> n = 0) /\ Len(host) \in Nat /\ (host = << >> <=> Len(host) = 0)
  BY LenProperties, EmptySeq
<1> SUFFICES ASSUME LowerAll(s) = LowerAll(host) PROVE IsHost(s)
  OBVIOUS
<1>4. Len(host) = n
  BY <1>1, <1>2, Zenon
<1>5. \A k \in 1..n : Lower(s[k]) = Lower(host[k])
  BY <1>1, <1>2, <1>4, Zenon
<1>6. ASSUME NEW k \in 1..n
      PROVE  /\ IsWord(host[k]) => IsWord(s[k])
             /\ \A p \in Punctuation : host[k] = p => s[k] = p
  <2>1. s[k] \in L /\ host[k] \in L /\ Lower(s[k]) = Lower(host[k])
    BY <1>1, <1>2, <1>4, <1>5
  <2>2. \A p \in Punctuation : Lower(s[k]) = p <=> s[k] = p
    BY <2>1, PunctuationKept
  <2>3. \A p \in Punctuation : Lower(host[k]) = p <=> host[k] = p
    BY <2>1, PunctuationKept
  <2>4. \A p \in Punctuation : host[k] = p <=> s[k] = p
    BY <2>1, <2>2, <2>3
  <2> QED
    BY <2>4 DEF IsWord
<1>7. {"[", "]", ":"} \subseteq Punctuation
  BY DEF Punctuation
<1>8. \A k \in 1..n : /\ host[k] = "[" => s[k] = "["
                      /\ host[k] = "]" => s[k] = "]"
                      /\ host[k] = ":" => s[k] = ":"
  BY <1>6, <1>7
<1>9. s # << >>
  BY <1>3, <1>4 DEF IsHost
<1>10. CASE \A i \in 1..Len(host) : IsWord(host[i])
  <2>1. \A i \in 1..n : IsWord(s[i])
    BY <1>4, <1>6, <1>10
  <2> QED
    BY <1>9, <2>1 DEF IsHost
<1>11. CASE /\ Len(host) > 1 /\ host[1] = "[" /\ host[Len(host)] = "]"
            /\ \A i \in 2..(Len(host) - 1) : IsWord(host[i]) \/ host[i] = ":"
  <2>1. n > 1 /\ 1 \in 1..n /\ n \in 1..n /\ \A i \in 2..(n - 1) : i \in 1..n
    BY <1>3, <1>4, <1>11
  <2>2. s[1] = "[" /\ s[n] = "]"
    BY <1>4, <1>8, <1>11, <2>1
  <2>3. \A i \in 2..(n - 1) : IsWord(s[i]) \/ s[i] = ":"
    BY <1>4, <1>6, <1>8, <1>11, <2>1
  <2> QED
    BY <1>9, <2>1, <2>2, <2>3 DEF IsHost
<1> QED
  BY <1>10, <1>11 DEF IsHost

LEMMA PortKept ==
    ASSUME NEW L, LexemesOK(L), NEW t \in Seq(L), \A k \in 1..Len(t) : t[k] \notin Invisible,
           NEW x, (x = << >> /\ t = << >>) \/ x = <<":">> \o t,
           NEW low, NEW port, IsPort(port)
    PROVE  Kept(<<low>>, t) = Written(low, port) => IsPort(x)
<1> SUFFICES ASSUME Kept(<<low>>, t) = Written(low, port) PROVE IsPort(x)
  OBVIOUS
<1>1. /\ Len(t) \in Nat /\ (t = << >> <=> Len(t) = 0)
      /\ Len(<<":">> \o t) = Len(t) + 1 /\ (<<":">> \o t)[1] = ":"
      /\ \A k \in 1..Len(t) : (<<":">> \o t)[k + 1] = t[k]
  BY ColonFacts
<1>2. CASE t = << >>
  <2>1. <<":">> \o << >> = <<":">>
    OBVIOUS
  <2>2. x = << >> \/ x = <<":">>
    BY <1>2, <2>1, Zenon
  <2> QED
    BY <2>2 DEF IsPort
<1>3. CASE t # << >> /\ is_default_port(<<low>>, t)
  <2>1. x = <<":">> \o t
    BY <1>3, Zenon
  <2>2. Len(t) = 1 /\ ParseU16(t[1]) # NaN /\ 1 \in 1..Len(t) /\ 1 + 1 = 2
    BY <1>3 DEF is_default_port, NaN
  <2>3. t[1] \in L
    BY <2>2, ElementOfSeq
  <2>4. IsWord(t[1])
    <3>1. t[1] \notin Punctuation
      BY <2>2, <2>3, Zenon DEF LexemesOK
    <3> QED
      BY <2>2, <3>1 DEF IsWord
  <2>5. /\ Len(<<":">> \o t) = 2 /\ (<<":">> \o t)[1] = ":"
        /\ (<<":">> \o t)[2] = t[1]
    BY <1>1, <2>2
  <2>6. Len(x) = 2 /\ x[1] = ":" /\ x[2] = t[1]
    BY <2>1, <2>5, Zenon
  <2> QED
    BY <2>2, <2>4, <2>6 DEF IsPort
<1>4. CASE t # << >> /\ ~is_default_port(<<low>>, t)
  <2>1. x = <<":">> \o t
    BY <1>4, Zenon
  <2>2. Kept(<<low>>, t) = x
    BY <1>4, <2>1, Zenon DEF Kept
  <2>3. x # << >>
    <3>1. Len(<<":">> \o t) # 0
      BY <1>1
    <3>2. Len(<< >>) = 0
      OBVIOUS
    <3> QED
      BY <2>1, <3>1, <3>2, Zenon
  <2>4. Written(low, port) = port
    BY <2>2, <2>3, Zenon DEF Written
  <2>5. x = port
    BY <2>2, <2>4, Zenon
  <2> QED
    BY <2>5, Zenon
<1> QED
  BY <1>2, <1>3, <1>4

\* u is cut by a "://".
IsMarked(L, u) ==
    \E a, b \in Seq(Lowered(L)) : u = Around(a, "://", b) /\ \A k \in 1..Len(a) : a[k] # "://"

\* A normal form without "://" is that of no origin.
LEMMA PlainUnmarked ==
    ASSUME NEW L, LexemesOK(L), NEW core \in Seq(L), \A k \in 1..Len(core) : core[k] # "://"
    PROVE  ~IsMarked(L, LowerAll(core))
<1> DEFINE M == Lowered(L)
           u == LowerAll(core)
<1>1. u \in Seq(M) /\ \A k \in 1..Len(u) : u[k] # "://"
  <2>1. /\ u \in Seq(M) /\ Len(u) = Len(core)
        /\ \A k \in 1..Len(core) : u[k] = Lower(core[k]) /\ core[k] \in L
    BY LowerFacts
  <2>2. \A y \in L : Lower(y) = "://" <=> y = "://"
    BY PunctuationKept, SchemeMark
  <2> HIDE DEF u
  <2> QED
    BY <2>1, <2>2
<1>2. "://" \in M
  BY SchemeMark DEF Lowered
<1> HIDE DEF M, u
<1>3. Find(u, "://") = 0
  BY <1>1, FindNone
<1>4. ASSUME NEW a \in Seq(M), NEW b \in Seq(M), \A k \in 1..Len(a) : a[k] # "://"
      PROVE  u # Around(a, "://", b)
  <2> DEFINE v == Around(a, "://", b)
  <2>1. Find(v, "://") \in 1..Len(v) /\ v \in Seq(M)
    BY <1>2, <1>4, FirstCut
  <2> HIDE DEF v
  <2>2. Find(v, "://") # 0
    BY <2>1, LenProperties
  <2>3. u # v
    BY <1>3, <2>2, Zenon
  <2> QED
    BY <2>3, Zenon DEF v
<1> QED
  BY <1>4, Zenon DEF IsMarked, M, u

\* The normal form of an origin has the mark.
LEMMA FormMarked ==
    ASSUME NEW L, NEW low \in Lowered(L), low # "://",
           NEW h \in Seq(Lowered(L)), NEW w \in Seq(Lowered(L))
    PROVE  IsMarked(L, SpelledForm(low, h, w))
<1> DEFINE M == Lowered(L)
           a == <<low>>
           b == h \o w
<1>1. a \in Seq(M) /\ (\A k \in 1..Len(a) : a[k] # "://") /\ b \in Seq(M)
  BY ConcatFacts
<1>2. SpelledForm(low, h, w) = Around(a, "://", b)
  BY Zenon DEF SpelledForm
<1> HIDE DEF a, b
<1> QED
  BY <1>1, <1>2, Zenon DEF IsMarked

LEMMA PlainForm ==
    ASSUME NEW L, LexemesOK(L), NEW core \in Seq(L), \A k \in 1..Len(core) : core[k] # "://",
           NEW low \in Lowered(L), low # "://", NEW h \in Seq(Lowered(L)), NEW w \in Seq(Lowered(L))
    PROVE  LowerAll(core) # SpelledForm(low, h, w)
<1>1. ~IsMarked(L, LowerAll(core))
  BY PlainUnmarked
<1>2. IsMarked(L, SpelledForm(low, h, w))
  BY FormMarked
<1> QED
  BY <1>1, <1>2, Zenon

\* A scheme y, and a host s and a port x.
SpelledAs(a, b, y, s, x) == a = <<y>> /\ b = s \o x /\ IsWord(y) /\ IsHost(s) /\ IsPort(x)

\* What comes before "://" and after it, in the text of an origin's normal
\* form, is a scheme and an authority.
LEMMA CutSpells ==
    ASSUME NEW L, LexemesOK(L), NEW T \in SUBSET L, T \cap Invisible = {},
           NEW a \in Seq(T), \A k \in 1..Len(a) : a[k] # "://", NEW b \in Seq(T),
           NEW scheme \in L, NEW host \in Seq(L), NEW port \in Seq(L),
           IsWord(scheme), IsHost(host), IsPort(port)
    PROVE  Rebuilt(a, b) = SpelledForm(Lower(scheme), LowerAll(host), Written(Lower(scheme), port))
            => \E y \in T, s, x \in Seq(T) : SpelledAs(a, b, y, s, x)
<1> DEFINE low == Lower(scheme)
           g == LowerAll(host)
           v == Written(low, port)
           M == Lowered(L)
<1>1. Seq(T) \subseteq Seq(L)
  BY SeqMonotonic
<1>2. /\ low \in M /\ low \notin Punctuation /\ "://" \in M
      /\ g \in Seq(M) /\ v \in Seq(M) /\ HostShape(g) /\ StartsPort(v)
  BY SpelledShapes
<1>3. PICK s \in Seq(T), t \in Seq(T), x \in Seq(T) : RebuiltFrom(a, b, s, t, x)
  BY RebuiltForm
<1>4. /\ b = s \o x
      /\ HeadShape(s, x)
      /\ (x = << >> /\ t = << >>) \/ x = <<":">> \o t
      /\ Rebuilt(a, b) = LowerAll(a) \o <<"://">> \o (LowerAll(s) \o Kept(LowerAll(a), t))
  BY <1>3, Zenon DEF RebuiltFrom
<1> DEFINE A == LowerAll(a)
           h == LowerAll(s)
           w == Kept(A, t)
<1>5. A \in Seq(M) /\ \A k \in 1..Len(A) : A[k] # "://"
  <2>1. /\ A \in Seq(M) /\ Len(A) = Len(a)
        /\ \A k \in 1..Len(a) : A[k] = Lower(a[k]) /\ a[k] \in L
    BY <1>1, LowerFacts
  <2>2. \A y \in L : Lower(y) = "://" <=> y = "://"
    BY PunctuationKept, SchemeMark
  <2> HIDE DEF A
  <2> QED
    BY <2>1, <2>2
<1>6. h \in Seq(M) /\ HeadShape(h, x)
  BY <1>1, <1>4, LowerFacts, LowerShapes
<1>7. w \in Seq(M)
  BY <1>1, KeptType
<1>8. StartsPort(w)
  <2>1. (<<":">> \o t)[1] = ":"
    BY ColonFacts
  <2>2. w = << >> \/ w = <<":">> \o t
    BY Zenon DEF Kept
  <2> QED
    BY <2>1, <2>2, Zenon DEF StartsPort
<1>9. HeadShape(h, w)
  <2>1. x = << >> => t = << >>
    <3>1. Len(<<":">> \o t) # 0 /\ Len(<< >>) = 0
      BY ColonFacts
    <3> QED
      BY <1>4, <3>1, Zenon
  <2>2. x = << >> => w = << >>
    BY <2>1, Zenon DEF Kept
  <2> QED
    BY <1>6, <2>2, Zenon DEF HeadShape
<1>10. low # "://"
  BY <1>2, SchemeMark
<1>0. Around(A, "://", h \o w) = SpelledForm(low, g, v) => A = <<low>> /\ h = g /\ w = v
  <2> HIDE DEF A, h, w, g, v, low, M
  <2>1. FormIs(A, h, w, low, g, v)
    BY <1>2, <1>5, <1>6, <1>7, <1>8, <1>9, <1>10, FormUnique
  <2> QED
    BY <2>1, Zenon DEF FormIs
<1> SUFFICES ASSUME Rebuilt(a, b) = SpelledForm(low, g, v)
             PROVE  \E y \in T, z, r \in Seq(T) : SpelledAs(a, b, y, z, r)
  OBVIOUS
<1>11. Around(A, "://", h \o w) = SpelledForm(low, g, v)
  BY <1>4, Zenon DEF Around
<1>12. A = <<low>> /\ h = g /\ w = v
  BY <1>0, <1>11, Zenon
<1>13. PICK y \in T : a = <<y>> /\ IsWord(y)
  <2>1. /\ Len(A) = Len(a) /\ \A k \in 1..Len(a) : A[k] = Lower(a[k]) /\ a[k] \in L
    BY <1>1, LowerFacts
  <2>2. Len(<<low>>) = 1 /\ <<low>>[1] = low
    OBVIOUS
  <2>3. Len(a) = 1
    BY <1>12, <2>1, <2>2, Zenon
  <2>4. 1 \in 1..Len(a)
    BY <2>3
  <2>5. A[1] = low
    BY <1>12, <2>2, Zenon
  <2>6. a[1] \in L /\ Lower(a[1]) = low /\ a[1] \in T
    BY <2>1, <2>4, <2>5, ElementOfSeq
  <2>7. a[1] \notin Punctuation
    <3>1. \A p \in Punctuation : Lower(a[1]) = p <=> a[1] = p
      BY <2>6, PunctuationKept
    <3> QED
      BY <1>2, <2>6, <3>1, Zenon
  <2>8. IsWord(a[1])
    BY <2>6, <2>7 DEF IsWord
  <2>9. a = <<a[1]>>
    BY <2>3
  <2> QED
    BY <2>6, <2>8, <2>9
<1>14. \A z \in Seq(T), k \in Nat : k \in 1..Len(z) => z[k] \notin Invisible
  BY ElementOfSeq
<1>15. \A z \in Seq(T) : \A k \in 1..Len(z) : z[k] \notin Invisible
  BY <1>14
<1>16. IsHost(s)
  <2>1. LowerAll(s) = LowerAll(host) => IsHost(s)
    BY <1>1, <1>15, HostKept
  <2> QED
    BY <1>12, <2>1, Zenon
<1>17. IsPort(x)
  <2>1. Kept(<<low>>, t) = Written(low, port) => IsPort(x)
    <3> HIDE DEF low
    <3> QED
      BY <1>1, <1>4, <1>15, PortKept
  <2> QED
    BY <1>12, <2>1, Zenon
<1> QED
  BY <1>4, <1>13, <1>16, <1>17, Zenon DEF SpelledAs

LEMMA CoreOf ==
    ASSUME NEW S, NEW text \in Seq(S)
    PROVE  \E core \in Seq(S) :
                core \in Infixes(text) /\ Padded(text, core, {" "}) /\ core = Trim(text, {" "})
<1>1. PICK core \in Infixes(text) : Padded(text, core, {" "})
  BY PaddedExists
<1>2. Trim(text, {" "}) = core /\ core \in Seq(S)
  BY <1>1, TrimPadded
<1> QED
  BY <1>1, <1>2

\* Parts of a text that are put together are parts of it.
LEMMA TwoOf ==
    ASSUME NEW y, NEW z
    PROVE  <<y>> \o <<z>> = <<y, z>>
<1> DEFINE S == {y, z}
           u == <<y>> \o <<z>>
<1>1. <<y>> \in Seq(S) /\ <<z>> \in Seq(S)
  OBVIOUS
<1>2. Len(u) = 2 /\ u[1] = y /\ u[2] = z
  OBVIOUS
<1>3. u \in Seq(S)
  <2> DEFINE a == <<y>>
             b == <<z>>
  <2>1. a \in Seq(S) /\ b \in Seq(S)
    BY <1>1
  <2> HIDE DEF a, b, S
  <2>2. a \o b \in Seq(S)
    BY <2>1, ConcatProperties
  <2> QED
    BY <2>2 DEF a, b
<1> HIDE DEF u, S
<1>4. u = <<u[1], u[2]>>
  BY <1>2, <1>3
<1> QED
  BY <1>2, <1>4, Zenon DEF u

LEMMA SchemeHead ==
    ASSUME NEW S, NEW y \in S, "://" \in S
    PROVE  <<y>> \in Seq(S) /\ <<"://">> \in Seq(S) /\ <<y>> \o <<"://">> = <<y, "://">>
<1>1. <<y>> \in Seq(S) /\ <<"://">> \in Seq(S)
  OBVIOUS
<1>2. <<y>> \o <<"://">> = <<y, "://">>
  BY TwoOf
<1> QED
  BY <1>1, <1>2

PartsAre(text, y, b, s, x) ==
    /\ y \in ToSet(text) /\ s \in Infixes(text) /\ x \in Infixes(text)
    /\ Around(<<y>>, "://", b) = <<y, "://">> \o s \o x

LEMMA PartsOf ==
    ASSUME NEW S, NEW text \in Seq(S), NEW y \in S, NEW b \in Seq(S), NEW s \in Seq(S), NEW x \in Seq(S),
           Around(<<y>>, "://", b) \in Infixes(text), "://" \in S
    PROVE  b = s \o x => PartsAre(text, y, b, s, x)
<1> DEFINE a == <<y>>
           c == <<"://">>
           d == a \o c
           core == d \o b
<1>0. a \in Seq(S) /\ c \in Seq(S) /\ d = <<y, "://">>
  BY SchemeHead, Zenon
<1>1. a \in Seq(S) /\ c \in Seq(S) /\ d \in Seq(S) /\ d = <<y, "://">>
  <2> HIDE DEF a, c
  <2>1. a \o c \in Seq(S)
    BY <1>0, ConcatProperties
  <2> QED
    BY <1>0, <2>1
<1>2. core \in Infixes(text)
  BY Zenon DEF Around
<1> HIDE DEF core, d, c, a
<1>3. d \in Infixes(core) /\ b \in Infixes(core)
  BY <1>1, ConcatInfixes DEF core
<1>4. d \in Infixes(text) /\ b \in Infixes(text)
  BY <1>2, <1>3, InfixOfInfix
<1>5. a \in Infixes(d)
  BY <1>1, ConcatInfixes DEF d
<1>6. a \in Infixes(text)
  BY <1>4, <1>5, InfixOfInfix
<1>7. y \in ToSet(text)
  <2>1. text \in Seq(ToSet(text))
    <3>1. DOMAIN text = 1..Len(text) /\ Len(text) \in Nat
      BY LenProperties
    <3>2. \A k \in DOMAIN text : text[k] \in ToSet(text)
      BY DEF ToSet
    <3>3. text = [k \in 1..Len(text) |-> text[k]]
      BY <3>1
    <3> QED
      BY <3>1, <3>2, <3>3
  <2>2. a \in Seq(ToSet(text))
    BY <1>6, <2>1, InfixType
  <2> QED
    BY <2>2 DEF a
<1>8. s \in Infixes(s \o x) /\ x \in Infixes(s \o x)
  BY ConcatInfixes
<1>9. (d \o s) \o x = d \o (s \o x)
  BY <1>1, ConcatAssociative, SMTT(30)
<1> SUFFICES ASSUME b = s \o x
             PROVE  /\ s \in Infixes(text) /\ x \in Infixes(text)
                    /\ core = d \o s \o x
  BY <1>1, <1>7, Zenon DEF core, d, a, c, Around, PartsAre
<1>10. s \in Infixes(b) /\ x \in Infixes(b)
  BY <1>8, Zenon
<1>11. core = d \o s \o x
  BY <1>9, Zenon DEF core
<1>12. \A u \in Infixes(b) : u \in Infixes(text)
  BY <1>4, InfixOfInfix
<1> QED
  BY <1>10, <1>11, <1>12, Zenon

\* A visible text with the normal form of an origin spells an origin.
LEMMA NormalSpells ==
    ASSUME NEW L, LexemesOK(L), NEW text \in Seq(L), ToSet(text) \cap Invisible = {},
           NEW scheme \in L, NEW host \in Seq(L), NEW port \in Seq(L),
           IsWord(scheme), IsHost(host), IsPort(port)
    PROVE  normalize_origin(text)
                = SpelledForm(Lower(scheme), LowerAll(host), Written(Lower(scheme), port))
            => \E y \in ToSet(text), s, x \in Infixes(text) : Spells(text, y, s, x)
<1> DEFINE T == L \ Invisible
           form == SpelledForm(Lower(scheme), LowerAll(host), Written(Lower(scheme), port))
<1>1. T \in SUBSET L /\ T \cap Invisible = {} /\ Seq(T) \subseteq Seq(L) /\ "://" \in T
  <2>1. T \subseteq L /\ T \cap Invisible = {}
    OBVIOUS
  <2>2. "://" \in T
    BY SchemeMark DEF LexemesOK
  <2> HIDE DEF T
  <2> QED
    BY <2>1, <2>2, SeqMonotonic
<1>2. text \in Seq(T)
  <2>1. \A k \in 1..Len(text) : text[k] \in L /\ text[k] \in ToSet(text)
    BY ElementOfSeq DEF ToSet
  <2>2. \A k \in 1..Len(text) : text[k] \in T
    BY <2>1
  <2> HIDE DEF T
  <2>3. Len(text) \in Nat /\ text = [k \in 1..Len(text) |-> text[k]]
    BY LenProperties
  <2> QED
    BY <2>2, <2>3
<1> HIDE DEF T
<1>3. PICK core \in Seq(T) :
        core \in Infixes(text) /\ Padded(text, core, {" "}) /\ core = Trim(text, {" "})
  BY <1>2, CoreOf
<1>4. CASE Find(core, "://") = 0
  <2>1. core \in Seq(L) /\ \A k \in 1..Len(core) : core[k] # "://"
    BY <1>1, <1>4, FindFacts
  <2>2. /\ Trim(text, {" "}) \in Seq(L)
        /\ \A k \in 1..Len(Trim(text, {" "})) : Trim(text, {" "})[k] # "://"
    BY <1>3, <2>1, Zenon
  <2>3. normalize_origin(text) = LowerAll(Trim(text, {" "}))
    BY <2>2, NormalPlain
  <2>4. LowerAll(core) # form
    <3> DEFINE low == Lower(scheme)
               h == LowerAll(host)
               w == Written(low, port)
    <3>0. /\ low \in Lowered(L) /\ low \notin Punctuation
          /\ h \in Seq(Lowered(L)) /\ w \in Seq(Lowered(L))
      <4> HIDE <1>3
      <4> QED
        BY SpelledShapes
    <3>1. /\ low \in Lowered(L) /\ low # "://"
          /\ h \in Seq(Lowered(L)) /\ w \in Seq(Lowered(L))
      BY <3>0, SchemeMark
    <3> HIDE DEF low, h, w
    <3>2. LowerAll(core) # SpelledForm(low, h, w)
      <4> HIDE <1>3
      <4> QED
        BY <2>1, <3>1, PlainForm
    <3> QED
      BY <3>2 DEF low, h, w
  <2> QED
    BY <1>3, <2>3, <2>4, Zenon
<1>5. CASE Find(core, "://") # 0
  <2>1. PICK a \in Seq(T), b \in Seq(T) : core = Around(a, "://", b) /\ \A k \in 1..Len(a) : a[k] # "://"
    BY <1>5, AroundFirst
  <2>0. /\ a \in Seq(L) /\ b \in Seq(L) /\ "://" \in L
        /\ \A k \in 1..Len(a) : a[k] # "://"
    BY <1>1, <2>1, Zenon
  <2>2. NormalFrom(text, a, b)
    BY <1>1, <2>0, NormalCut
  <2>3. normalize_origin(text) = Rebuilt(a, b)
    BY <1>3, <2>1, <2>2, Zenon DEF NormalFrom
  <2>4. Rebuilt(a, b) = form =>
            \E y \in T, s, x \in Seq(T) : SpelledAs(a, b, y, s, x)
    BY <1>1, <2>0, CutSpells
  <2> SUFFICES ASSUME normalize_origin(text) = form
               PROVE  \E y \in ToSet(text), s, x \in Infixes(text) : Spells(text, y, s, x)
    OBVIOUS
  <2>5. PICK y \in T, s \in Seq(T), x \in Seq(T) :
            a = <<y>> /\ b = s \o x /\ IsWord(y) /\ IsHost(s) /\ IsPort(x)
    BY <2>3, <2>4, Zenon DEF SpelledAs
  <2>6. /\ y \in ToSet(text) /\ s \in Infixes(text) /\ x \in Infixes(text)
        /\ Around(<<y>>, "://", b) = <<y, "://">> \o s \o x
    <3>1. Around(<<y>>, "://", b) \in Infixes(text)
      BY <1>3, <2>1, <2>5, Zenon
    <3>2. b = s \o x => PartsAre(text, y, b, s, x)
      <4> DEFINE c == Around(<<y>>, "://", b)
      <4>1. c \in Infixes(text) => (b = s \o x => PartsAre(text, y, b, s, x))
        BY <1>1, <1>2, PartsOf
      <4> QED
        BY <3>1, <4>1, Zenon
    <3> QED
      BY <2>5, <3>2, Zenon DEF PartsAre
  <2>7. Padded(text, <<y, "://">> \o s \o x, {" "})
    BY <1>3, <2>1, <2>5, <2>6, Zenon
  <2>8. Spells(text, y, s, x)
    BY <2>5, <2>7, Zenon DEF Spells
  <2> QED
    BY <2>6, <2>8, Zenon
<1> QED
  BY <1>4, <1>5

----------------------------------------------------------------------------
(* The same normal form, the same meaning *)

LEMMA VisibleSeq ==
    ASSUME NEW L, NEW s \in Seq(L), \A k \in 1..Len(s) : s[k] \notin Invisible
    PROVE  s \in Seq(L \ Invisible)
<1> DEFINE T == L \ Invisible
<1>1. \A k \in 1..Len(s) : s[k] \in T
  BY ElementOfSeq
<1> HIDE DEF T
<1>2. Len(s) \in Nat /\ s = [k \in 1..Len(s) |-> s[k]]
  BY LenProperties
<1>3. s \in Seq(T)
  BY <1>1, <1>2
<1> QED
  BY <1>3 DEF T

LEMMA RangeOfCut ==
    \A n \in Nat : \A i \in 1..(n + 1), j \in 0..n, k \in 1..n :
        \/ k < i \/ k > j
        \/ /\ (k - i + 1) \in 1..(j - i + 1)
           /\ i + (k - i + 1) - 1 = k /\ i <= j
  OBVIOUS

\* What is around a visible text is visible.
LEMMA PaddedVisible ==
    ASSUME NEW L, LexemesOK(L), NEW text \in Seq(L), NEW T, T \cap Invisible = {},
           NEW core \in Seq(T), Padded(text, core, {" "})
    PROVE  ToSet(text) \cap Invisible = {}
<1>1. PICK i \in 1..(Len(text) + 1), j \in 0..Len(text) :
        /\ core = SubSeq(text, i, j)
        /\ \A k \in 1..Len(text) : k < i \/ k > j => text[k] \in {" "}
  BY DEF Padded
<1>2. " " \notin Invisible
  BY SchemeMark DEF LexemesOK
<1>3. /\ Len(text) \in Nat
      /\ Len(SubSeq(text, i, j)) = IF i <= j THEN j - i + 1 ELSE 0
      /\ \A k \in 1..(j - i + 1) : SubSeq(text, i, j)[k] = text[i + k - 1]
  BY SubFacts
<1>4. /\ Len(core) = IF i <= j THEN j - i + 1 ELSE 0
      /\ \A k \in 1..(j - i + 1) : core[k] = text[i + k - 1]
  BY <1>1, <1>3, Zenon
<1>5. \A k \in 1..Len(core) : core[k] \notin Invisible
  <2>2. \A k \in 1..Len(core) : core[k] \in T
    BY ElementOfSeq
  <2> QED
    BY <2>2
<1>8. Len(text) \in Nat
  BY LenProperties
<1>6. ASSUME NEW k \in 1..Len(text) PROVE text[k] \notin Invisible
  <2>1. \/ k < i \/ k > j
        \/ /\ (k - i + 1) \in 1..(j - i + 1)
           /\ i + (k - i + 1) - 1 = k /\ i <= j
    BY <1>8, RangeOfCut
  <2>2. CASE k < i \/ k > j
    <3>1. text[k] = " "
      BY <1>1, <2>2
    <3> QED
      BY <1>2, <3>1
  <2>3. CASE (k - i + 1) \in 1..(j - i + 1) /\ i + (k - i + 1) - 1 = k /\ i <= j
    <3> DEFINE r == k - i + 1
    <3>1. r \in 1..(j - i + 1) /\ i + r - 1 = k /\ i <= j
      BY <2>3
    <3> HIDE DEF r
    <3>2. Len(core) = j - i + 1
      BY <1>4, <3>1, Zenon
    <3>3. r \in 1..Len(core)
      BY <3>1, <3>2, Zenon
    <3> QED
      BY <1>4, <1>5, <3>1, <3>3, Zenon
  <2> QED
    BY <2>1, <2>2, <2>3, Zenon
<1>7. ToSet(text) = {text[k] : k \in 1..Len(text)}
  <2>1. DOMAIN text = 1..Len(text)
    BY LenProperties
  <2> QED
    BY <2>1 DEF ToSet
<1> QED
  BY <1>6, <1>7

LEMMA SpelledVisible ==
    ASSUME NEW L, LexemesOK(L), NEW text \in Seq(L), NEW scheme \in L,
           NEW host \in Seq(L), NEW port \in Seq(L), Spells(text, scheme, host, port)
    PROVE  ToSet(text) \cap Invisible = {}
<1> DEFINE T == L \ Invisible
           a == <<scheme, "://">>
<1>1. /\ Padded(text, a \o host \o port, {" "})
      /\ IsWord(scheme) /\ IsHost(host) /\ IsPort(port)
  BY Zenon DEF Spells
<1>2. {"://", ":", "[", "]"} \subseteq Punctuation
  BY DEF Punctuation
<1>3. \A y \in {"://", ":", "[", "]"} : y \in T
  BY <1>2 DEF LexemesOK
<1>4. \A y : IsWord(y) => y \notin Invisible
  BY DEF IsWord
<1>5. a \in Seq(T)
  <2>1. scheme \in T /\ "://" \in T
    BY <1>1, <1>3, <1>4
  <2> HIDE DEF T
  <2> QED
    BY <2>1
<1>6. host \in Seq(T)
  <2>1. \A y \in {":", "[", "]"} : y \notin Invisible
    BY <1>3
  <2>2. CASE \A i \in 1..Len(host) : IsWord(host[i])
    BY <1>4, <2>2, VisibleSeq
  <2>3. CASE /\ Len(host) > 1 /\ host[1] = "[" /\ host[Len(host)] = "]"
             /\ \A i \in 2..(Len(host) - 1) : IsWord(host[i]) \/ host[i] = ":"
    <3>1. \A k \in 1..Len(host) : k = 1 \/ k = Len(host) \/ k \in 2..(Len(host) - 1)
      BY LenProperties
    <3>2. \A k \in 1..Len(host) : host[k] \notin Invisible
      BY <1>4, <2>1, <2>3, <3>1
    <3> QED
      BY <3>2, VisibleSeq
  <2> QED
    BY <1>1, <2>2, <2>3 DEF IsHost
<1>7. port \in Seq(T)
  <2>1. \A k \in 1..Len(port) : port[k] \notin Invisible
    <3>1. CASE port = << >> \/ port = <<":">>
      <4>1. \A k \in 1..Len(<< >>) : << >>[k] \notin Invisible
        OBVIOUS
      <4>2. \A k \in 1..Len(<<":">>) : <<":">>[k] \notin Invisible
        BY <1>3
      <4> QED
        BY <3>1, <4>1, <4>2, Zenon
    <3>2. CASE Len(port) = 2 /\ port[1] = ":" /\ IsWord(port[2])
      <4>1. port[1] \notin Invisible /\ port[2] \notin Invisible
        BY <1>3, <1>4, <3>2
      <4>2. \A k \in 1..Len(port) : k = 1 \/ k = 2
        BY <3>2
      <4> QED
        BY <4>1, <4>2
    <3> QED
      BY <1>1, <3>1, <3>2 DEF IsPort
  <2> QED
    BY <2>1, VisibleSeq
<1> HIDE DEF T, a
<1>8. a \o host \in Seq(T)
  BY <1>5, <1>6, ConcatProperties
<1>9. (a \o host) \o port \in Seq(T)
  <2> DEFINE b == a \o host
  <2>1. b \in Seq(T)
    BY <1>8
  <2> HIDE DEF b
  <2>2. b \o port \in Seq(T)
    BY <1>7, <2>1, ConcatProperties
  <2> QED
    BY <2>2 DEF b
<1> DEFINE core == a \o host \o port
<1>10. core \in Seq(T) /\ Padded(text, core, {" "})
  BY <1>1, <1>9
<1>11. T \cap Invisible = {}
  BY DEF T
<1> HIDE DEF core
<1> QED
  BY <1>10, <1>11, PaddedVisible

\* The parts that an origin spells.
LEMMA OriginParts ==
    ASSUME NEW L, LexemesOK(L), NEW o, o.text \in Seq(L), IsOrigin(o)
    PROVE  \E x \in L, h \in Seq(L), p \in Seq(L) :
                /\ Spells(o.text, x, h, p)
                /\ o.means = Means(x, h, p)
                /\ o.plain => PlainlySpelled(x, p)
<1>1. PICK x \in ToSet(o.text), h \in Infixes(o.text), p \in Infixes(o.text) :
                /\ Spells(o.text, x, h, p)
                /\ o.means = Means(x, h, p)
                /\ o.plain => PlainlySpelled(x, p)
  BY DEF IsOrigin
<1>2. h \in Seq(L) /\ p \in Seq(L)
  BY InfixType
<1>3. x \in L
  <2>1. \A k \in DOMAIN o.text : o.text[k] \in L
    BY LenProperties, ElementOfSeq
  <2> QED
    BY <2>1 DEF ToSet
<1> QED
  BY <1>1, <1>2, <1>3, Zenon

LEMMA NoOriginParts ==
    ASSUME NEW L, NEW o, o.text \in Seq(L), IsNoOrigin(o)
    PROVE  \E core \in Seq(L) :
                /\ Padded(o.text, core, {" "}) /\ Trim(o.text, {" "}) = core
                /\ o.means = <<LowerAll(core)>>
<1>1. PICK core \in Infixes(o.text) : Padded(o.text, core, {" "}) /\ o.means = <<LowerAll(core)>>
  BY DEF IsNoOrigin
<1>2. Trim(o.text, {" "}) = core /\ core \in Seq(L)
  BY <1>1, TrimPadded
<1> QED
  BY <1>1, <1>2, Zenon

LEMMA MeaningsDiffer ==
    ASSUME NEW x, NEW h, NEW p, NEW u
    PROVE  Means(x, h, p) # <<u>>
<1>1. Len(Means(x, h, p)) = 3 /\ Len(<<u>>) = 1
  BY DEF Means
<1>2. 3 # 1
  OBVIOUS
<1> QED
  BY <1>1, <1>2, Zenon

LEMMA SingleEqual ==
    ASSUME NEW u, NEW v
    PROVE  <<u>> = <<v>> <=> u = v
  OBVIOUS

\* The normal form of a text with the mark has the mark.
LEMMA NormalMarked ==
    ASSUME NEW L, LexemesOK(L), NEW text, Trim(text, {" "}) \in Seq(L),
           Find(Trim(text, {" "}), "://") # 0
    PROVE  IsMarked(L, normalize_origin(text))
<1> DEFINE M == Lowered(L)
           core == Trim(text, {" "})
<1>0. core \in Seq(L) /\ Find(core, "://") # 0
  OBVIOUS
<1> HIDE DEF core
<1>1. PICK a \in Seq(L), b \in Seq(L) : core = Around(a, "://", b) /\ \A k \in 1..Len(a) : a[k] # "://"
  BY <1>0, AroundFirst, ZenonT(30)
<1>2. NormalFrom(text, a, b)
  <2>1. "://" \in L
    BY SchemeMark DEF LexemesOK
  <2> QED
    BY <1>1, <2>1, NormalCut
<1>3. normalize_origin(text) = Rebuilt(a, b)
  BY <1>1, <1>2, Zenon DEF NormalFrom, core
<1>4. PICK s \in Seq(L), t \in Seq(L), x \in Seq(L) : RebuiltFrom(a, b, s, t, x)
  BY RebuiltForm
<1> DEFINE low == LowerAll(a)
           tail == LowerAll(s) \o Kept(LowerAll(a), t)
<1>5. Rebuilt(a, b) = Around(low, "://", tail)
  BY <1>4, Zenon DEF RebuiltFrom, Around
<1>6. low \in Seq(M) /\ \A k \in 1..Len(low) : low[k] # "://"
  <2>1. /\ low \in Seq(M) /\ Len(low) = Len(a)
        /\ \A k \in 1..Len(a) : low[k] = Lower(a[k]) /\ a[k] \in L
    BY LowerFacts
  <2>2. \A y \in L : Lower(y) = "://" <=> y = "://"
    BY PunctuationKept, SchemeMark
  <2>3. \A k \in 1..Len(a) : a[k] # "://"
    BY <1>1
  <2> HIDE DEF low
  <2> QED
    BY <2>1, <2>2, <2>3
<1>7. tail \in Seq(M)
  <2> DEFINE h == LowerAll(s)
             w == Kept(LowerAll(a), t)
  <2>1. h \in Seq(M)
    BY LowerFacts
  <2>2. w \in Seq(M)
    BY KeptType
  <2> HIDE DEF h, w, M
  <2>3. h \o w \in Seq(M)
    BY <2>1, <2>2, ConcatProperties
  <2> QED
    BY <2>3 DEF h, w
<1> HIDE DEF low, tail
<1> QED
  BY <1>3, <1>5, <1>6, <1>7, Zenon DEF IsMarked

\* A text without the mark and one with it are different in lower case.
LEMMA MarkTells ==
    ASSUME NEW L, LexemesOK(L), NEW s \in Seq(L), Find(s, "://") = 0,
           NEW t \in Seq(L), Find(t, "://") # 0
    PROVE  LowerAll(s) # LowerAll(t)
<1>1. /\ Len(LowerAll(s)) = Len(s) /\ Len(LowerAll(t)) = Len(t)
      /\ \A k \in 1..Len(s) : LowerAll(s)[k] = Lower(s[k]) /\ s[k] \in L
      /\ \A k \in 1..Len(t) : LowerAll(t)[k] = Lower(t[k]) /\ t[k] \in L
  BY LowerFacts
<1>2. \A y \in L : Lower(y) = "://" <=> y = "://"
  BY PunctuationKept, SchemeMark
<1>3. \A k \in 1..Len(s) : s[k] # "://"
  BY FindFacts
<1>4. PICK i \in 1..Len(t) : t[i] = "://"
  BY FindFacts
<1> SUFFICES ASSUME LowerAll(s) = LowerAll(t) PROVE FALSE
  OBVIOUS
<1>5. Len(s) = Len(t) /\ LowerAll(s)[i] = LowerAll(t)[i]
  BY <1>1, Zenon
<1>6. Lower(s[i]) = "://" /\ s[i] \in L
  BY <1>1, <1>2, <1>4, <1>5
<1> QED
  BY <1>2, <1>3, <1>4, <1>5, <1>6

\* What is visible in lower case is visible.
LEMMA LowerVisible ==
    ASSUME NEW L, LexemesOK(L), NEW s \in Seq(L), NEW t \in Seq(L),
           LowerAll(s) = LowerAll(t), \A k \in 1..Len(s) : s[k] \notin Invisible
    PROVE  t \in Seq(L \ Invisible)
<1>1. /\ Len(LowerAll(s)) = Len(s) /\ Len(LowerAll(t)) = Len(t)
      /\ \A k \in 1..Len(s) : LowerAll(s)[k] = Lower(s[k]) /\ s[k] \in L
      /\ \A k \in 1..Len(t) : LowerAll(t)[k] = Lower(t[k]) /\ t[k] \in L
  BY LowerFacts
<1>2. Len(s) = Len(t)
  BY <1>1, Zenon
<1>3. \A k \in 1..Len(t) : Lower(t[k]) = Lower(s[k]) /\ s[k] \in L /\ t[k] \in L
  BY <1>1, <1>2, Zenon
<1>4. \A k \in 1..Len(t) : t[k] \notin Invisible
  BY <1>2, <1>3 DEF LexemesOK
<1> HIDE <1>1
<1> QED
  BY <1>4, VisibleSeq

\* An origin's text is visible, and its normal form has the mark.
LEMMA OriginForm ==
    ASSUME NEW L, LexemesOK(L), NEW o, o.text \in Seq(L), IsOrigin(o)
    PROVE  ToSet(o.text) \cap Invisible = {} /\ IsMarked(L, normalize_origin(o.text))
<1>1. PICK x \in L, h \in Seq(L), p \in Seq(L) : Spells(o.text, x, h, p)
  BY OriginParts
<1> DEFINE text == o.text
<1>2. text \in Seq(L) /\ Spells(text, x, h, p)
  BY <1>1
<1> HIDE DEF text
<1> DEFINE low == Lower(x)
           g == LowerAll(h)
           w == Written(low, p)
<1>3. normalize_origin(text) = SpelledForm(low, g, w)
  BY <1>2, SpelledNormal
<1>4. IsWord(x) /\ IsHost(h) /\ IsPort(p)
  BY <1>2, Zenon DEF Spells
<1>5. low \in Lowered(L) /\ low \notin Punctuation /\ g \in Seq(Lowered(L)) /\ w \in Seq(Lowered(L))
  <2> HIDE <1>3
  <2> QED
    BY <1>4, SpelledShapes
<1> HIDE DEF low, g, w
<1>6. low # "://"
  BY <1>5, SchemeMark
<1>7. IsMarked(L, SpelledForm(low, g, w))
  BY <1>5, <1>6, FormMarked
<1>8. ToSet(text) \cap Invisible = {}
  BY <1>2, SpelledVisible
<1> QED
  BY <1>3, <1>7, <1>8, Zenon DEF text

LEMMA BothOrigins ==
    ASSUME NEW L, LexemesOK(L), PlainPortsOK,
           NEW e, e.text \in Seq(L), IsOrigin(e), e.plain,
           NEW o, o.text \in Seq(L), IsOrigin(o)
    PROVE  LET same == normalize_origin(e.text) = normalize_origin(o.text)
           IN  /\ same => e.means = o.means
               /\ e.means = o.means /\ o.plain => same
<1>1. PICK x \in L, h \in Seq(L), p \in Seq(L) :
        Spells(e.text, x, h, p) /\ e.means = Means(x, h, p) /\ PlainlySpelled(x, p)
  BY OriginParts
<1>2. PICK y \in L, g \in Seq(L), q \in Seq(L) :
        Spells(o.text, y, g, q) /\ o.means = Means(y, g, q) /\ (o.plain => PlainlySpelled(y, q))
  BY OriginParts
<1> DEFINE text == e.text
           other == o.text
<1>3. text \in Seq(L) /\ other \in Seq(L) /\ Spells(text, x, h, p) /\ Spells(other, y, g, q)
  BY <1>1, <1>2, Zenon
<1> HIDE DEF text, other
<1> DEFINE same == normalize_origin(text) = normalize_origin(other)
<1>4. /\ same => Means(x, h, p) = Means(y, g, q)
      /\ (/\ PlainlySpelled(x, p) /\ PlainlySpelled(y, q)
          /\ Means(x, h, p) = Means(y, g, q)) => same
  <2> HIDE <1>1, <1>2
  <2> QED
    BY <1>3, SameNormalForm
<1> QED
  BY <1>1, <1>2, <1>4, Zenon DEF text, other

LEMMA OriginAndNone ==
    ASSUME NEW L, LexemesOK(L),
           NEW e, e.text \in Seq(L), IsOrigin(e),
           NEW o, o.text \in Seq(L), IsNoOrigin(o), ToSet(o.text) \cap Invisible = {}
    PROVE  normalize_origin(e.text) # normalize_origin(o.text)
<1>1. PICK x \in L, h \in Seq(L), p \in Seq(L) : Spells(e.text, x, h, p)
  BY OriginParts
<1> DEFINE text == e.text
           other == o.text
<1>2. /\ text \in Seq(L) /\ other \in Seq(L) /\ Spells(text, x, h, p)
      /\ ToSet(other) \cap Invisible = {}
  BY <1>1, Zenon
<1>3. ~\E y \in ToSet(other), s, z \in Infixes(other) : Spells(other, y, s, z)
  BY Zenon DEF IsNoOrigin
<1> HIDE DEF text, other
<1> DEFINE form == SpelledForm(Lower(x), LowerAll(h), Written(Lower(x), p))
<1>4. normalize_origin(text) = form
  BY <1>2, SpelledNormal
<1>5. IsWord(x) /\ IsHost(h) /\ IsPort(p)
  BY <1>2, Zenon DEF Spells
<1>6. normalize_origin(other) = form => \E y \in ToSet(other), s, z \in Infixes(other) : Spells(other, y, s, z)
  <2> HIDE <1>4
  <2> QED
    BY <1>2, <1>5, NormalSpells
<1> QED
  BY <1>3, <1>4, <1>6, Zenon DEF text, other

\* What an operator lists without a scheme: a visible text without "://".
LEMMA NoSchemeForm ==
    ASSUME NEW L, LexemesOK(L), NEW e, e.text \in Seq(L), IsNoOrigin(e),
           ToSet(e.text) \cap (Invisible \cup {"://"}) = {}
    PROVE  \E core \in Seq(L) :
                /\ e.means = <<LowerAll(core)>> /\ normalize_origin(e.text) = LowerAll(core)
                /\ Find(core, "://") = 0 /\ \A k \in 1..Len(core) : core[k] \notin Invisible \cup {"://"}
<1> DEFINE text == e.text
           T == ToSet(text)
<1>1. text \in Seq(T)
  <2>1. \A k \in 1..Len(text) : text[k] \in T
    BY ElementOfSeq, LenProperties DEF ToSet
  <2>2. Len(text) \in Nat /\ text = [k \in 1..Len(text) |-> text[k]]
    BY LenProperties
  <2> HIDE DEF T, text
  <2> QED
    BY <2>1, <2>2
<1>2. T \subseteq L
  <2>1. DOMAIN text = 1..Len(text) /\ \A k \in 1..Len(text) : text[k] \in L
    BY LenProperties, ElementOfSeq
  <2> QED
    BY <2>1 DEF ToSet
<1>3. PICK core \in Seq(T) : /\ Padded(text, core, {" "}) /\ Trim(text, {" "}) = core
                             /\ e.means = <<LowerAll(core)>>
  BY <1>1, NoOriginParts
<1>4. T \cap (Invisible \cup {"://"}) = {}
  OBVIOUS
<1> HIDE DEF text, T
<1>5. \A k \in 1..Len(core) : core[k] \notin Invisible \cup {"://"}
  <2>1. \A k \in 1..Len(core) : core[k] \in T
    BY ElementOfSeq
  <2> QED
    BY <1>4, <2>1
<1>6. core \in Seq(L) /\ \A k \in 1..Len(core) : core[k] # "://"
  BY <1>2, <1>5, SeqMonotonic
<1>7. Find(core, "://") = 0
  BY <1>6, FindNone
<1>8. normalize_origin(text) = LowerAll(core)
  <2>1. /\ Trim(text, {" "}) \in Seq(L)
        /\ \A k \in 1..Len(Trim(text, {" "})) : Trim(text, {" "})[k] # "://"
    BY <1>3, <1>6, Zenon
  <2>2. normalize_origin(text) = LowerAll(Trim(text, {" "}))
    BY <2>1, NormalPlain
  <2> QED
    BY <1>3, <2>2, Zenon
<1> QED
  BY <1>3, <1>5, <1>6, <1>7, <1>8, Zenon DEF text

LEMMA NoSchemeAndNone ==
    ASSUME NEW L, LexemesOK(L),
           NEW e, e.text \in Seq(L), IsNoOrigin(e), ToSet(e.text) \cap (Invisible \cup {"://"}) = {},
           NEW o, o.text \in Seq(L), IsNoOrigin(o)
    PROVE  LET visible == ToSet(o.text) \cap Invisible = {}
               same == normalize_origin(e.text) = normalize_origin(o.text)
           IN  /\ same => e.means = o.means
               /\ e.means = o.means => visible /\ same
<1>1. PICK c \in Seq(L) :
        /\ e.means = <<LowerAll(c)>> /\ normalize_origin(e.text) = LowerAll(c)
        /\ Find(c, "://") = 0 /\ \A k \in 1..Len(c) : c[k] \notin Invisible \cup {"://"}
  BY NoSchemeForm
<1>2. PICK d \in Seq(L) :
        Padded(o.text, d, {" "}) /\ Trim(o.text, {" "}) = d /\ o.means = <<LowerAll(d)>>
  BY NoOriginParts
<1>3. e.means = o.means <=> LowerAll(c) = LowerAll(d)
  BY <1>1, <1>2, SingleEqual, Zenon
<1> DEFINE text == o.text
<1>4. text \in Seq(L) /\ Padded(text, d, {" "}) /\ Trim(text, {" "}) = d
  BY <1>2, Zenon
<1> HIDE DEF text
<1>5. CASE Find(d, "://") # 0
  <2>1. IsMarked(L, normalize_origin(text))
    <3>1. Trim(text, {" "}) \in Seq(L) /\ Find(Trim(text, {" "}), "://") # 0
      BY <1>4, <1>5, Zenon
    <3> QED
      BY <3>1, NormalMarked
  <2>2. ~IsMarked(L, LowerAll(c))
    <3>1. \A k \in 1..Len(c) : c[k] # "://"
      BY <1>1
    <3> QED
      BY <3>1, PlainUnmarked
  <2>3. LowerAll(c) # LowerAll(d)
    <3>1. Find(c, "://") = 0
      BY <1>1, Zenon
    <3> QED
      BY <1>5, <3>1, MarkTells
  <2> QED
    BY <1>1, <1>3, <2>1, <2>2, <2>3, Zenon DEF text
<1>6. CASE Find(d, "://") = 0
  <2>1. normalize_origin(text) = LowerAll(d)
    <3>1. \A k \in 1..Len(d) : d[k] # "://"
      BY <1>6, FindFacts
    <3>2. /\ Trim(text, {" "}) \in Seq(L)
          /\ \A k \in 1..Len(Trim(text, {" "})) : Trim(text, {" "})[k] # "://"
      BY <1>4, <3>1, Zenon
    <3>3. normalize_origin(text) = LowerAll(Trim(text, {" "}))
      BY <3>2, NormalPlain
    <3> QED
      BY <1>4, <3>3, Zenon
  <2>2. LowerAll(c) = LowerAll(d) => ToSet(text) \cap Invisible = {}
    <3>1. \A k \in 1..Len(c) : c[k] \notin Invisible
      BY <1>1
    <3>2. LowerAll(c) = LowerAll(d) => d \in Seq(L \ Invisible)
      <4> HIDE <1>1, <1>2
      <4> QED
        BY <3>1, LowerVisible
    <3>3. d \in Seq(L \ Invisible) => ToSet(text) \cap Invisible = {}
      <4>1. (L \ Invisible) \cap Invisible = {}
        OBVIOUS
      <4>2. text \in Seq(L) /\ Padded(text, d, {" "})
        BY <1>4, Zenon
      <4> HIDE <1>2, <1>4
      <4> QED
        BY <4>1, <4>2, PaddedVisible
    <3> QED
      BY <3>2, <3>3, Zenon
  <2> QED
    BY <1>1, <1>3, <2>1, <2>2, Zenon DEF text
<1> QED
  BY <1>5, <1>6, Zenon

LEMMA NoSchemeAndOrigin ==
    ASSUME NEW L, LexemesOK(L),
           NEW e, e.text \in Seq(L), IsNoOrigin(e), ToSet(e.text) \cap (Invisible \cup {"://"}) = {},
           NEW o, o.text \in Seq(L), IsOrigin(o)
    PROVE  normalize_origin(e.text) # normalize_origin(o.text) /\ e.means # o.means
<1>1. PICK c \in Seq(L) :
        /\ e.means = <<LowerAll(c)>> /\ normalize_origin(e.text) = LowerAll(c)
        /\ Find(c, "://") = 0 /\ \A k \in 1..Len(c) : c[k] \notin Invisible \cup {"://"}
  BY NoSchemeForm
<1>2. ~IsMarked(L, LowerAll(c))
  <2>1. \A k \in 1..Len(c) : c[k] # "://"
    BY <1>1
  <2> QED
    BY <2>1, PlainUnmarked
<1>3. IsMarked(L, normalize_origin(o.text))
  BY OriginForm
<1>4. e.means # o.means
  <2>1. PICK x \in L, h \in Seq(L), p \in Seq(L) : o.means = Means(x, h, p)
    BY OriginParts
  <2> QED
    BY <1>1, <2>1, MeaningsDiffer, Zenon
<1> QED
  BY <1>1, <1>2, <1>3, <1>4, Zenon

\* The check compares normal forms, and a request's origin that is not visible
\* text as if there was none (origin.rs normalize_origin,
\* origin_allowed_in_parts).  An entry and an origin it compares as the same
\* are the same: scheme, host and port number, or the same lower-case text
\* that is no origin.  If they are the same it finds them so, unless the
\* request writes the port in some other way than browsers do: the port is
\* compared as text.
THEOREM NormalFormsMean ==
    ASSUME NEW L, LexemesOK(L), PlainPortsOK,
           NEW e, e.text \in Seq(L), e.plain,
           \/ IsOrigin(e)
           \/ IsNoOrigin(e) /\ ToSet(e.text) \cap (Invisible \cup {"://"}) = {},
           NEW o, o.text \in Seq(L), IsOrigin(o) \/ IsNoOrigin(o)
    PROVE  LET visible == ToSet(o.text) \cap Invisible = {}
               same == normalize_origin(e.text) = normalize_origin(o.text)
           IN  /\ visible /\ same => e.means = o.means
               /\ e.means = o.means /\ o.plain => visible /\ same
<1> DEFINE visible == ToSet(o.text) \cap Invisible = {}
           same == normalize_origin(e.text) = normalize_origin(o.text)
           decides == /\ visible /\ same => e.means = o.means
                      /\ e.means = o.means /\ o.plain => visible /\ same
<1>1. CASE IsOrigin(e) /\ IsOrigin(o)
  <2>1. (same => e.means = o.means) /\ (e.means = o.means /\ o.plain => same)
    BY <1>1, BothOrigins
  <2>2. visible
    BY <1>1, OriginForm
  <2> QED
    BY <2>1, <2>2, Zenon
<1>2. CASE IsOrigin(e) /\ IsNoOrigin(o)
  <2>1. ~(visible /\ same)
    <3>1. visible => ~same
      BY <1>2, OriginAndNone
    <3> QED
      BY <3>1, Zenon
  <2>2. e.means # o.means
    <3>1. PICK x \in L, h \in Seq(L), p \in Seq(L) : e.means = Means(x, h, p)
      BY <1>2, OriginParts
    <3>2. PICK d \in Seq(L) : o.means = <<LowerAll(d)>>
      BY <1>2, NoOriginParts
    <3> QED
      BY <3>1, <3>2, MeaningsDiffer, Zenon
  <2> QED
    BY <2>1, <2>2, Zenon
<1>3. CASE /\ IsNoOrigin(e) /\ ToSet(e.text) \cap (Invisible \cup {"://"}) = {}
           /\ IsOrigin(o)
  <2>1. ~same /\ e.means # o.means
    BY <1>3, NoSchemeAndOrigin
  <2> QED
    BY <2>1, Zenon
<1>4. CASE /\ IsNoOrigin(e) /\ ToSet(e.text) \cap (Invisible \cup {"://"}) = {}
           /\ IsNoOrigin(o)
  <2>1. (same => e.means = o.means) /\ (e.means = o.means => visible /\ same)
    BY <1>4, NoSchemeAndNone
  <2> QED
    BY <2>1, Zenon
<1> QED
  BY <1>1, <1>2, <1>3, <1>4, Zenon

=============================================================================
