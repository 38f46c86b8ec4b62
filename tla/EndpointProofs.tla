--------------------------- MODULE EndpointProofs ---------------------------
(***************************************************************************)
(* Proofs about a connection: its frames come out as they went in, for any *)
(* DEFLATE that can be undone and any settings of the two sides; its       *)
(* origin is let in, and its token found, as they are meant, for any texts *)
(* that spell them and any calls that built the configuration.             *)
(***************************************************************************)
EXTENDS Endpoint, ParserProofs

----------------------------------------------------------------------------
(* Bytes and flags *)

\* A flag byte in front of some bytes.
LEMMA Prefixed ==
    ASSUME NEW x \in Byte, NEW s \in Seq(Byte)
    PROVE  /\ <<x>> \o s \in Seq(Byte)
           /\ <<x>> \o s # << >>
           /\ Head(<<x>> \o s) = x
           /\ Tail(<<x>> \o s) = s
           /\ Len(<<x>> \o s) = Len(s) + 1
  BY DEF Byte

LEMMA FlagFacts ==
    /\ HasFlag(1, FLAG_COMPRESSED) /\ ~HasFlag(0, FLAG_COMPRESSED)
    /\ HasFlag(2, FLAG_TEXT) /\ ~HasFlag(0, FLAG_TEXT)
    /\ {0, 1, 2} \subseteq Byte
    /\ FLAG_COMPRESSED = 1 /\ FLAG_TEXT = 2 /\ FLAG_KNOWN = 3
  BY DEF HasFlag, FLAG_COMPRESSED, FLAG_TEXT, FLAG_KNOWN, Byte

LEMMA MinOfTwo ==
    ASSUME NEW a \in Nat, NEW b \in Nat
    PROVE  Min({a, b}) = IF a <= b THEN a ELSE b
<1>1. PICK m \in {a, b} : m = IF a <= b THEN a ELSE b
  OBVIOUS
<1>2. \A y \in {a, b} : m <= y
  BY <1>1
<1>3. \A x \in {a, b} : (\A y \in {a, b} : x <= y) => x = m
  BY <1>1
<1> QED
  BY <1>1, <1>2, <1>3 DEF Min

\* One more than max_size, except where the addition wraps.
LEMMA LimitFacts ==
    ASSUME NEW r \in Configs
    PROVE  /\ r.max_size \in 0..MaxUsize
           /\ r.max_size = MaxUsize => TakeLimit(r) = 0
           /\ r.max_size # MaxUsize => TakeLimit(r) = r.max_size + 1
<1>1. r.max_size \in 0..MaxUsize
  BY ConfigsAssumption
<1>2. \A k \in Nat : k < MaxUsize => (k + 1) % (MaxUsize + 1) = k + 1
  BY MaxUsizeAssumption
<1>3. (MaxUsize + 1) % (MaxUsize + 1) = 0
  BY MaxUsizeAssumption
<1> QED
  BY <1>1, <1>2, <1>3, MaxUsizeAssumption DEF TakeLimit

----------------------------------------------------------------------------
(* Envelopes *)

\* An envelope is a stored payload, or a DEFLATE stream that is shorter.
LEMMA CompressShape ==
    ASSUME NEW s \in Configs, NEW f \in Frames
    PROVE  \/ compress(s, f.bytes) = <<0>> \o f.bytes
           \/ /\ compress(s, f.bytes) = <<1>> \o Deflate(s.level, f.bytes)
              /\ Len(Deflate(s.level, f.bytes)) < Len(f.bytes)
  BY DEF compress, FLAG_COMPRESSED

LEMMA DecompressStored ==
    ASSUME NEW r \in Configs, NEW data \in Seq(Byte)
    PROVE  decompress(r, <<0>> \o data)
            = IF Len(data) > r.max_size THEN Err("PayloadTooLarge") ELSE Ok(data)
<1> DEFINE e == <<0>> \o data
<1>1. e # << >> /\ Head(e) = 0 /\ Tail(e) = data
  BY Prefixed, FlagFacts
<1>2. KnownFlags(e) /\ ~HasFlag(Head(e), FLAG_COMPRESSED)
  BY <1>1, FlagFacts DEF KnownFlags
<1>3. Len(data) \in Nat /\ Min({Len(data), Len(data)}) = Len(data)
  BY MinOfTwo, LenProperties
<1>4. SubSeq(data, 1, Len(data)) = data
  OBVIOUS
<1> HIDE DEF e
<1>5. decompress(r, e)
        = IF Len(data) > r.max_size THEN Err("PayloadTooLarge") ELSE Ok(data)
  BY <1>1, <1>2, <1>3, <1>4 DEF decompress, TooLarge
<1> QED
  BY <1>5 DEF e

LEMMA DecompressDeflated ==
    ASSUME NEW r \in Configs, NEW stream \in Seq(Byte), NEW data \in Seq(Byte),
           Inflate(stream) = [out |-> data, ok |-> TRUE], r.max_size < MaxUsize
    PROVE  decompress(r, <<1>> \o stream)
            = IF Len(data) > r.max_size THEN Err("PayloadTooLarge") ELSE Ok(data)
<1> DEFINE e == <<1>> \o stream
           out == SubSeq(data, 1, Min({TakeLimit(r), Len(data)}))
<1>1. e # << >> /\ Head(e) = 1 /\ Tail(e) = stream
  BY Prefixed, FlagFacts
<1>2. KnownFlags(e) /\ HasFlag(Head(e), FLAG_COMPRESSED)
  BY <1>1, FlagFacts DEF KnownFlags
<1> HIDE DEF e, out
<1>3. Len(data) \in Nat /\ r.max_size \in Nat /\ TakeLimit(r) = r.max_size + 1
  BY LenProperties, LimitFacts, MaxUsizeAssumption
<1>4. decompress(r, e) = IF Len(out) > r.max_size THEN Err("PayloadTooLarge") ELSE Ok(out)
  <2>1. Inflate(Tail(e)) = [out |-> data, ok |-> TRUE]
    BY <1>1
  <2>2. Inflate(Tail(e)).out = data /\ Inflate(Tail(e)).ok = TRUE
    BY <2>1
  <2>3. decompress(r, e) = IF TooLarge(r, out) THEN Err("PayloadTooLarge") ELSE Ok(out)
    BY <1>2, <2>2, Zenon DEF decompress, out
  <2> QED
    BY <2>3 DEF TooLarge
<1>5. CASE Len(data) > r.max_size
  <2>1. Min({TakeLimit(r), Len(data)}) = r.max_size + 1
    BY <1>3, <1>5, MinOfTwo
  <2>2. Len(out) = r.max_size + 1
    <3>1. \A n \in 0..Len(data) : Len(SubSeq(data, 1, n)) = n
      OBVIOUS
    <3> QED
      BY <2>1, <3>1, <1>3, <1>5 DEF out
  <2> QED
    BY <1>3, <1>4, <1>5, <2>2 DEF e
<1>6. CASE ~(Len(data) > r.max_size)
  <2>1. Min({TakeLimit(r), Len(data)}) = Len(data)
    BY <1>3, <1>6, MinOfTwo
  <2>2. out = data
    BY <2>1, SubSeqFull DEF out
  <2> QED
    BY <1>3, <1>4, <1>6, <2>2 DEF e
<1> QED
  BY <1>5, <1>6

----------------------------------------------------------------------------
(* Frames *)

LEMMA FrameFacts ==
    ASSUME NEW f \in Frames
    PROVE  /\ f = [kind |-> f.kind, bytes |-> f.bytes]
           /\ f.kind \in {"text", "binary"}
           /\ f.bytes \in Seq(Byte)
           /\ Len(f.bytes) \in Nat /\ Len(f.bytes) <= MaxUsize
           /\ f.kind = "text" => Utf8(f.bytes)
<1>1. /\ f \in [kind : {"text", "binary"}, bytes : Seq(Byte)]
      /\ Len(f.bytes) <= MaxUsize
      /\ f.kind = "text" => Utf8(f.bytes)
  BY FramesAssumption DEF is_text
<1> QED
  BY <1>1, LenProperties

\* The flag byte that tells the kind.
KindFlag(f) == IF is_text(f) THEN FLAG_TEXT ELSE 0

\* What a payload becomes again with its kind.
LEMMA Restored ==
    ASSUME NEW r \in Configs, NEW f \in Frames, NEW e \in Seq(Byte),
           decompress(r, e) = Ok(f.bytes)
    PROVE  decompress_frame(r, Binary(<<KindFlag(f)>> \o e)) = Ok(f)
<1> DEFINE data == f.bytes
           w == <<KindFlag(f)>> \o e
<1>1. KindFlag(f) \in {0, 2} /\ KindFlag(f) \in Byte
  BY FlagFacts DEF KindFlag
<1>2. w # << >> /\ Head(w) = KindFlag(f) /\ Tail(w) = e
  BY <1>1, Prefixed
<1>3. KnownFlags(w) /\ (HasFlag(Head(w), FLAG_TEXT) <=> is_text(f))
  BY <1>1, <1>2, FlagFacts DEF KnownFlags, KindFlag
<1>4. is_text(f) => Utf8(data)
  BY FrameFacts DEF is_text
<1>5. f = IF is_text(f) THEN Text(data) ELSE Binary(data)
  BY FrameFacts DEF is_text, Text, Binary
<1>6. decompress(r, Tail(w)) = Ok(data) /\ IsOk(Ok(data)) /\ Ok(data).ok = data
  BY <1>2 DEF IsOk, Ok
<1> HIDE DEF w
<1>7. into_bytes(Binary(w)) = w
  BY DEF into_bytes, Binary
<1>8. decompress_frame(r, Binary(w)) = Ok(IF is_text(f) THEN Text(data) ELSE Binary(data))
  BY <1>3, <1>4, <1>6, <1>7 DEF decompress_frame
<1> QED
  BY <1>5, <1>8 DEF w

\* A payload that is refused is refused with its reason.
LEMMA RefusedWhole ==
    ASSUME NEW r \in Configs, NEW f \in Frames, NEW e \in Seq(Byte),
           decompress(r, e) = Err("PayloadTooLarge")
    PROVE  decompress_frame(r, Binary(<<KindFlag(f)>> \o e)) = Err("PayloadTooLarge")
<1> DEFINE w == <<KindFlag(f)>> \o e
<1>1. KindFlag(f) \in {0, 2} /\ KindFlag(f) \in Byte
  BY FlagFacts DEF KindFlag
<1>2. w # << >> /\ Head(w) = KindFlag(f) /\ Tail(w) = e
  BY <1>1, Prefixed
<1>3. KnownFlags(w)
  BY <1>1, <1>2, FlagFacts DEF KnownFlags
<1>4. decompress(r, Tail(w)) = Err("PayloadTooLarge") /\ ~IsOk(Err("PayloadTooLarge"))
  BY <1>2 DEF IsOk, Err
<1> HIDE DEF w
<1>5. into_bytes(Binary(w)) = w
  BY DEF into_bytes, Binary
<1>6. decompress_frame(r, Binary(w)) = Err("PayloadTooLarge")
  BY <1>3, <1>4, <1>5 DEF decompress_frame
<1> QED
  BY <1>6 DEF w

\* What arrives of a frame.
Arrives(r, f) == IF Len(f.bytes) > r.max_size THEN Err("PayloadTooLarge") ELSE Ok(f)

LEMMA FrameRoundTrip ==
    ASSUME NEW s \in Configs, NEW r \in Configs, NEW f \in Frames
    PROVE  LET w == compress_frame(s, f)
           IN  /\ r.max_size < MaxUsize => decompress_frame(r, w) = Arrives(r, f)
               /\ Len(w.bytes) <= Len(f.bytes) + 2
<1> DEFINE e == compress(s, f.bytes)
           w == Binary(<<KindFlag(f)>> \o e)
<1>1. compress_frame(s, f) = w
  BY DEF compress_frame, KindFlag, into_bytes
<1>2. w.bytes = <<KindFlag(f)>> \o e
  BY DEF Binary
<1>3. KindFlag(f) \in Byte
  BY FlagFacts DEF KindFlag
<1>4. f.bytes \in Seq(Byte) /\ Len(f.bytes) \in Nat /\ Len(f.bytes) <= MaxUsize
  BY FrameFacts
<1>5. r.max_size \in Nat
  BY LimitFacts, MaxUsizeAssumption
<1>6. CASE e = <<0>> \o f.bytes
  <2>1. e \in Seq(Byte) /\ Len(e) = Len(f.bytes) + 1
    BY <1>4, <1>6, Prefixed, FlagFacts
  <2>2. Len(w.bytes) <= Len(f.bytes) + 2
    BY <1>2, <1>3, <1>4, <2>1, Prefixed
  <2>3. decompress(r, e) = IF Len(f.bytes) > r.max_size THEN Err("PayloadTooLarge") ELSE Ok(f.bytes)
    BY <1>4, <1>6, DecompressStored
  <2> HIDE DEF e
  <2>4. decompress_frame(r, w) = Arrives(r, f)
    BY <2>1, <2>3, RefusedWhole, Restored DEF Arrives
  <2> QED
    BY <1>1, <2>2, <2>4
<1>7. CASE /\ e = <<1>> \o Deflate(s.level, f.bytes)
           /\ Len(Deflate(s.level, f.bytes)) < Len(f.bytes)
  <2> DEFINE stream == Deflate(s.level, f.bytes)
  <2>1. stream \in Seq(Byte) /\ Inflate(stream) = [out |-> f.bytes, ok |-> TRUE]
    BY DeflateAssumption
  <2> HIDE DEF stream
  <2>2. e \in Seq(Byte) /\ Len(e) = Len(stream) + 1 /\ Len(stream) < Len(f.bytes)
    BY <1>7, <2>1, Prefixed, FlagFacts DEF stream
  <2>3. Len(w.bytes) <= Len(f.bytes) + 2
    BY <1>2, <1>3, <1>4, <2>1, <2>2, Prefixed, LenProperties
  <2>4. ASSUME r.max_size < MaxUsize
        PROVE  decompress_frame(r, w) = Arrives(r, f)
    <3>1. decompress(r, e) = IF Len(f.bytes) > r.max_size THEN Err("PayloadTooLarge") ELSE Ok(f.bytes)
      BY <1>4, <1>7, <2>1, <2>4, DecompressDeflated DEF stream
    <3> HIDE DEF e
    <3> QED
      BY <2>2, <3>1, RefusedWhole, Restored DEF Arrives
  <2> QED
    BY <1>1, <2>3, <2>4
<1> QED
  BY <1>6, <1>7, CompressShape

----------------------------------------------------------------------------
(* Frames from outside *)

\* A prefix of some bytes is no longer than it is cut, or than they are.
LEMMA Cut ==
    ASSUME NEW s \in Seq(Byte), NEW limit \in Nat
    PROVE  /\ SubSeq(s, 1, Min({limit, Len(s)})) \in Seq(Byte)
           /\ Len(SubSeq(s, 1, Min({limit, Len(s)}))) = IF limit <= Len(s) THEN limit ELSE Len(s)
<1> DEFINE n == IF limit <= Len(s) THEN limit ELSE Len(s)
<1>1. n \in 0..Len(s) /\ Min({limit, Len(s)}) = n
  BY LenProperties, MinOfTwo
<1>2. \A k \in 0..Len(s) : SubSeq(s, 1, k) \in Seq(Byte) /\ Len(SubSeq(s, 1, k)) = k
  OBVIOUS
<1> HIDE DEF n
<1>3. SubSeq(s, 1, n) \in Seq(Byte) /\ Len(SubSeq(s, 1, n)) = n
  BY <1>1, <1>2
<1> QED
  BY <1>1, <1>3 DEF n

\* decompress hands on at most max_size bytes, and a stream that inflates
\* beyond a max_size that does not wrap is too large, whatever follows in it.
LEMMA DecompressChecked ==
    ASSUME NEW r \in Configs, NEW e \in Seq(Byte),
           e # << >> => Inflate(Tail(e)) \in [out : Seq(Byte), ok : BOOLEAN]
    PROVE  /\ \/ decompress(r, e) = Err("Compression")
              \/ decompress(r, e) = Err("PayloadTooLarge")
              \/ \E b \in Seq(Byte) : decompress(r, e) = Ok(b) /\ Len(b) <= r.max_size
           /\ (/\ KnownFlags(e) /\ HasFlag(Head(e), FLAG_COMPRESSED)
               /\ r.max_size < MaxUsize /\ Len(Inflate(Tail(e)).out) > r.max_size)
              => decompress(r, e) = Err("PayloadTooLarge")
<1>1. CASE ~KnownFlags(e)
  BY <1>1 DEF decompress
<1>2. CASE KnownFlags(e)
  <2>1. e # << >> /\ Tail(e) \in Seq(Byte) /\ r.max_size \in Nat /\ TakeLimit(r) \in Nat
    BY <1>2, LimitFacts, MaxUsizeAssumption DEF KnownFlags
  <2>2. CASE ~HasFlag(Head(e), FLAG_COMPRESSED)
    <3> DEFINE body == Tail(e)
    <3>1. Len(body) \in Nat /\ Min({Len(body), Len(body)}) = Len(body) /\ ~(Len(body) < Len(body))
      BY <2>1, MinOfTwo, LenProperties
    <3>2. SubSeq(body, 1, Len(body)) = body
      BY <2>1
    <3> HIDE DEF body
    <3>3. decompress(r, e) = IF Len(body) > r.max_size THEN Err("PayloadTooLarge") ELSE Ok(body)
      BY <1>2, <2>2, <3>1, <3>2 DEF decompress, TooLarge, body
    <3>4. body \in Seq(Byte) /\ (~(Len(body) > r.max_size) => Len(body) <= r.max_size)
      BY <2>1, <3>1 DEF body
    <3> QED
      BY <2>2, <3>3, <3>4
  <2>3. CASE HasFlag(Head(e), FLAG_COMPRESSED)
    <3> DEFINE stream == Inflate(Tail(e))
               out == SubSeq(stream.out, 1, Min({TakeLimit(r), Len(stream.out)}))
    <3>1. stream.out \in Seq(Byte)
      BY <2>1
    <3>2. /\ Len(stream.out) \in Nat
          /\ out \in Seq(Byte)
          /\ Len(out) = IF TakeLimit(r) <= Len(stream.out) THEN TakeLimit(r) ELSE Len(stream.out)
      BY <2>1, <3>1, Cut, LenProperties
    <3>3. decompress(r, e) = IF ~stream.ok /\ Len(out) < TakeLimit(r) THEN Err("Compression")
                             ELSE IF TooLarge(r, out) THEN Err("PayloadTooLarge") ELSE Ok(out)
      BY <1>2, <2>3, Zenon DEF decompress
    <3> HIDE DEF stream, out
    <3>4. TooLarge(r, out) <=> Len(out) > r.max_size
      BY DEF TooLarge
    <3>5. /\ \/ decompress(r, e) = Err("Compression")
             \/ decompress(r, e) = Err("PayloadTooLarge")
             \/ decompress(r, e) = Ok(out) /\ Len(out) <= r.max_size
      BY <2>1, <3>2, <3>3, <3>4
    <3>6. ASSUME r.max_size < MaxUsize, Len(stream.out) > r.max_size
          PROVE  decompress(r, e) = Err("PayloadTooLarge")
      <4>1. TakeLimit(r) = r.max_size + 1
        BY <3>6, <2>1, LimitFacts, MaxUsizeAssumption
      <4>2. Len(out) = r.max_size + 1
        BY <2>1, <3>2, <3>6, <4>1
      <4> QED
        BY <2>1, <3>3, <3>4, <4>1, <4>2
    <3> QED
      BY <3>2, <3>5, <3>6 DEF stream
  <2> QED
    BY <2>2, <2>3
<1> QED
  BY <1>1, <1>2

\* decompress_frame hands on at most max_size bytes, text only as UTF-8, and
\* refuses an overlong stream as decompress does.
LEMMA ForeignFrame ==
    ASSUME NEW r \in Configs, NEW w \in Wires
    PROVE  LET got1 == decompress_frame(r, w)
           IN  /\ IsOk(got1) =>
                    /\ Len(got1.ok.bytes) <= r.max_size
                    /\ is_text(got1.ok) => Utf8(got1.ok.bytes)
               /\ (/\ KnownFlags(w.bytes) /\ KnownFlags(Tail(w.bytes))
                   /\ HasFlag(w.bytes[2], FLAG_COMPRESSED)
                   /\ r.max_size < MaxUsize
                   /\ Len(Inflate(SubSeq(w.bytes, 3, Len(w.bytes))).out) > r.max_size)
                  => got1 = Err("PayloadTooLarge")
<1> DEFINE bytes == w.bytes
           e == Tail(bytes)
           payload == decompress(r, e)
<1>1. bytes \in Seq(Byte)
  BY WiresAssumption
<1>2. \A x : ~IsOk(Err(x)) /\ IsOk(Ok(x)) /\ Ok(x).ok = x
  BY DEF IsOk, Err, Ok
<1>3. \A b : Text(b).bytes = b /\ Binary(b).bytes = b /\ ~is_text(Binary(b))
  BY DEF Text, Binary, is_text
<1>4. CASE ~KnownFlags(bytes)
  <2>1. decompress_frame(r, w) = Err("Compression")
    BY <1>4 DEF decompress_frame, into_bytes
  <2> QED
    BY <1>2, <1>4, <2>1
<1>5. CASE KnownFlags(bytes)
  <2>1. e \in Seq(Byte) /\ bytes # << >>
    BY <1>1, <1>5 DEF KnownFlags
  <2>2. e # << >> => Len(bytes) >= 2
    BY <1>1, <2>1
  <2>3. e # << >> => Inflate(Tail(e)) \in [out : Seq(Byte), ok : BOOLEAN]
    BY <2>2, WiresAssumption
  <2>4. e # << >> => Head(e) = bytes[2] /\ Tail(e) = SubSeq(bytes, 3, Len(bytes))
    BY <1>1, <2>1, <2>2
  <2>5. decompress_frame(r, w) =
            IF ~IsOk(payload) THEN payload
            ELSE IF ~HasFlag(Head(bytes), FLAG_TEXT) THEN Ok(Binary(payload.ok))
            ELSE IF Utf8(payload.ok) THEN Ok(Text(payload.ok))
            ELSE Err("Compression")
    BY <1>5 DEF decompress_frame, into_bytes
  <2>6. KnownFlags(e) => e # << >>
    BY DEF KnownFlags
  <2> HIDE DEF bytes, e, payload
  <2>7. \/ payload = Err("Compression")
        \/ payload = Err("PayloadTooLarge")
        \/ \E b \in Seq(Byte) : payload = Ok(b) /\ Len(b) <= r.max_size
    BY <2>1, <2>3, DecompressChecked DEF payload
  <2>8. (/\ KnownFlags(e) /\ HasFlag(bytes[2], FLAG_COMPRESSED)
         /\ r.max_size < MaxUsize /\ Len(Inflate(SubSeq(bytes, 3, Len(bytes))).out) > r.max_size)
        => payload = Err("PayloadTooLarge")
    <3>1. (/\ KnownFlags(e) /\ HasFlag(Head(e), FLAG_COMPRESSED)
           /\ r.max_size < MaxUsize /\ Len(Inflate(Tail(e)).out) > r.max_size)
          => payload = Err("PayloadTooLarge")
      BY <2>1, <2>3, DecompressChecked DEF payload
    <3> QED
      BY <2>4, <2>6, <3>1
  <2>9. ASSUME IsOk(decompress_frame(r, w))
        PROVE  /\ Len(decompress_frame(r, w).ok.bytes) <= r.max_size
               /\ is_text(decompress_frame(r, w).ok) => Utf8(decompress_frame(r, w).ok.bytes)
    <3>1. IsOk(payload)
      BY <2>5, <2>9
    <3>2. PICK b \in Seq(Byte) : payload = Ok(b) /\ Len(b) <= r.max_size
      BY <1>2, <2>7, <3>1
    <3>3. payload.ok = b
      BY <1>2, <3>2
    <3>4. \/ decompress_frame(r, w) = Ok(Binary(b))
          \/ decompress_frame(r, w) = Ok(Text(b)) /\ Utf8(b)
      BY <1>2, <2>5, <2>9, <3>1, <3>3
    <3> QED
      BY <1>2, <1>3, <3>2, <3>4
  <2>10. payload = Err("PayloadTooLarge") => decompress_frame(r, w) = Err("PayloadTooLarge")
    BY <1>2, <2>5
  <2> QED
    BY <2>8, <2>9, <2>10 DEF bytes, e
<1> QED
  BY <1>4, <1>5

----------------------------------------------------------------------------
(* The connection *)

\* What goes on the wire for f, and what comes of it at the other end.
OnWire(l, f) == IF l.offered THEN compress_frame(l.sender, f) ELSE f
AtReceiver(l, w) == IF l.accepted THEN decompress_frame(l.receiver, w) ELSE Ok(w)

\* Frames travel on an open connection, whose two sides were set up as
\* OnUpgrade sets them up and do not change under a frame.
LinkInv ==
    /\ phase \in {"building", "serving", "origin_checked", "origin_passed",
                  "token_checked", "authenticated"}
        => link = None /\ sent = None /\ wire = None
    /\ link # None =>
        \E s \in Configs, r \in Configs, header \in Capabilities :
            link = Some([sender |-> s, receiver |-> r, offered |-> header.offers,
                         accepted |-> extension_accepted(header.text)])

\* The frame on the wire is the one that was sent, and what was received is
\* that frame's.
FrameInv ==
    /\ sent # None =>
        /\ link # None
        /\ \E f \in Frames : sent = Some(f) /\ wire = Some(OnWire(link[1], f))
    /\ got # None => wire # None /\ got = Some(AtReceiver(link[1], wire[1]))

PhaseInv ==
    phase \in {"building", "serving", "origin_checked", "origin_passed",
               "token_checked", "authenticated", "open"}

\* Open connections have a link.
OpenInv == phase = "open" => link # None

IInv == PhaseInv /\ OpenInv /\ LinkInv /\ FrameInv

LEMMA InitInv == Init => IInv
  BY DEF Init, IInv, PhaseInv, OpenInv, LinkInv, FrameInv, None

\* A step that leaves the frames alone and stays on its side of the upgrade.
LEMMA OtherSteps ==
    ASSUME IInv, UNCHANGED frameVars, PhaseInv',
           phase = "open" <=> phase' = "open"
    PROVE  IInv'
<1>1. link' = link /\ sent' = sent /\ wire' = wire /\ got' = got
  BY DEF frameVars
<1>2. OpenInv'
  BY <1>1 DEF IInv, OpenInv
<1>3. LinkInv'
  BY <1>1 DEF IInv, LinkInv, PhaseInv
<1>4. FrameInv'
  BY <1>1 DEF IInv, FrameInv
<1> QED
  BY <1>2, <1>3, <1>4 DEF IInv

LEMMA StepInv ==
    ASSUME IInv, [Next]_vars
    PROVE  IInv'
<1>1. CASE \E option \in Settings : SetOption(option)
  BY <1>1, OtherSteps DEF SetOption, Building, IInv, PhaseInv
<1>2. CASE \E e \in Entries : AllowOrigin(e) \/ AllowedOrigins(<<e>>)
  BY <1>2, OtherSteps DEF AllowOrigin, AllowedOrigins, Building, IInv, PhaseInv
<1>3. CASE AllowedOrigins(<< >>)
  BY <1>3, OtherSteps DEF AllowedOrigins, Building, IInv, PhaseInv
<1>4. CASE Build
  BY <1>4, OtherSteps DEF Build, PhaseInv
<1>5. CASE \E o \in Origins : CheckOrigin(o)
  BY <1>5, OtherSteps DEF CheckOrigin, PhaseInv
<1>6. CASE OriginPasses
  BY <1>6, OtherSteps DEF OriginPasses, PhaseInv
<1>7. CASE \E r \in Requests, list \in SourceLists : RequireToken(r, list)
  BY <1>7, OtherSteps DEF RequireToken, PhaseInv
<1>8. CASE TokenPasses
  BY <1>8, OtherSteps DEF TokenPasses, PhaseInv
<1>9. CASE \E s, r \in Configs, header \in Capabilities : OnUpgrade(s, r, header)
  <2>1. PICK s \in Configs, r \in Configs, header \in Capabilities : OnUpgrade(s, r, header)
    BY <1>9
  <2>2. /\ phase = "authenticated" /\ phase' = "open"
        /\ link' = Some([sender |-> s, receiver |-> r, offered |-> header.offers,
                         accepted |-> extension_accepted(header.text)])
        /\ sent' = sent /\ wire' = wire /\ got' = got
    BY <2>1 DEF OnUpgrade
  <2>3. sent = None /\ wire = None /\ got = None
    BY <2>2 DEF IInv, LinkInv, FrameInv
  <2>4. link' # None
    BY <2>2 DEF Some, None
  <2> QED
    BY <2>2, <2>3, <2>4 DEF IInv, PhaseInv, OpenInv, LinkInv, FrameInv
<1>10. CASE Refused
  BY <1>10, OtherSteps DEF Refused, vars, frameVars, IInv, PhaseInv
<1>11. CASE \E f \in Frames : Send(f)
  <2>1. PICK f \in Frames : Send(f)
    BY <1>11
  <2>2. /\ phase = "open" /\ phase' = phase /\ wire = None
        /\ sent' = Some(f) /\ wire' = Some(OnWire(link[1], f))
        /\ link' = link /\ got' = got
    BY <2>1 DEF Send, OnWire
  <2>3. got = None /\ link # None
    BY <2>2 DEF IInv, OpenInv, FrameInv
  <2>4. FrameInv'
    BY <2>2, <2>3 DEF FrameInv
  <2> QED
    BY <2>2, <2>4 DEF IInv, PhaseInv, OpenInv, LinkInv
<1>12. CASE \E w \in Wires : SendForeign(w)
  <2>1. /\ phase = "open" /\ phase' = phase /\ wire = None
        /\ sent' = None /\ link' = link /\ got' = got
    BY <1>12 DEF SendForeign
  <2>2. got = None
    BY <2>1 DEF IInv, FrameInv
  <2> QED
    BY <2>1, <2>2 DEF IInv, PhaseInv, OpenInv, LinkInv, FrameInv
<1>13. CASE Receive
  <2>1. /\ wire # None /\ got' = Some(AtReceiver(link[1], wire[1]))
        /\ phase' = phase /\ link' = link /\ sent' = sent /\ wire' = wire
    BY <1>13 DEF Receive, AtReceiver
  <2>2. FrameInv'
    BY <2>1 DEF IInv, FrameInv
  <2> QED
    BY <2>1, <2>2 DEF IInv, PhaseInv, OpenInv, LinkInv
<1>14. CASE Handled
  <2>1. phase' = phase /\ link' = link /\ sent' = None /\ wire' = None /\ got' = None
    BY <1>14 DEF Handled
  <2> QED
    BY <2>1 DEF IInv, PhaseInv, OpenInv, LinkInv, FrameInv
<1>15. CASE UNCHANGED vars
  BY <1>15, OtherSteps DEF vars, frameVars, IInv, PhaseInv
<1> QED
  BY <1>1, <1>2, <1>3, <1>4, <1>5, <1>6, <1>7, <1>8, <1>9, <1>10, <1>11, <1>12,
     <1>13, <1>14, <1>15 DEF Next

LEMMA InvHolds == Spec => []IInv
  BY InitInv, StepInv, PTL DEF Spec

\* The frame under way with the settings it travels between.
LEMMA Travelling ==
    ASSUME IInv, sent # None
    PROVE  \E s \in Configs, r \in Configs, header \in Capabilities, f \in Frames :
            /\ link[1] = [sender |-> s, receiver |-> r, offered |-> header.offers,
                          accepted |-> extension_accepted(header.text)]
            /\ sent[1] = f
            /\ wire[1] = OnWire(link[1], f)
            /\ got # None => got = Some(AtReceiver(link[1], wire[1]))
<1>1. PICK s \in Configs, r \in Configs, header \in Capabilities :
        link = Some([sender |-> s, receiver |-> r, offered |-> header.offers,
                     accepted |-> extension_accepted(header.text)])
  BY DEF IInv, FrameInv, LinkInv
<1>2. PICK f \in Frames : sent = Some(f) /\ wire = Some(OnWire(link[1], f))
  BY DEF IInv, FrameInv
<1>3. \A x : Some(x)[1] = x
  BY DEF Some
<1>4. link[1] = [sender |-> s, receiver |-> r, offered |-> header.offers,
                 accepted |-> extension_accepted(header.text)]
  BY <1>1, <1>3
<1>5. sent[1] = f /\ wire[1] = OnWire(link[1], f)
  BY <1>2, <1>3
<1>6. got # None => got = Some(AtReceiver(link[1], wire[1]))
  BY DEF IInv, FrameInv
<1> QED
  BY <1>4, <1>5, <1>6

\* Whatever the settings of the two sides and however the negotiation went,
\* the bytes on the wire are at most two more than the application sent
\* (compression.rs compress, compress_frame).
THEOREM OverheadIsBounded == Spec => []WireOverhead
<1>1. ASSUME IInv PROVE WireOverhead
  <2> SUFFICES ASSUME sent # None
               PROVE  Len(wire[1].bytes) <= Len(sent[1].bytes) + 2
    BY DEF WireOverhead
  <2>1. PICK s \in Configs, r \in Configs, header \in Capabilities, f \in Frames :
            /\ link[1] = [sender |-> s, receiver |-> r, offered |-> header.offers,
                          accepted |-> extension_accepted(header.text)]
            /\ sent[1] = f
            /\ wire[1] = OnWire(link[1], f)
    BY <1>1, Travelling
  <2>2. Len(compress_frame(s, f).bytes) <= Len(f.bytes) + 2
    BY FrameRoundTrip
  <2>3. Len(f.bytes) <= Len(f.bytes) + 2
    BY FrameFacts
  <2> QED
    BY <2>1, <2>2, <2>3 DEF OnWire
<1> QED
  BY <1>1, InvHolds, PTL

\* No receiver has the largest usize as its max_size.
Limited == \A c \in Configs : c.max_size < MaxUsize

\* Where the two sides agree on whether frames are compressed and no receiver's
\* limit wraps, every frame arrives as it was sent or is refused for its size,
\* for any DEFLATE that can be undone, any width of usize and any other
\* settings (compression.rs compress_frame, decompress_frame).
THEOREM FramesArrive ==
    ASSUME Limited, \A header \in Capabilities : extension_accepted(header.text) = header.offers
    PROVE  Spec => []RoundTrip
<1>1. ASSUME IInv PROVE RoundTrip
  <2> SUFFICES ASSUME sent # None, got # None
               PROVE  RoundTrip
    BY DEF RoundTrip
  <2>1. PICK s \in Configs, r \in Configs, header \in Capabilities, f \in Frames :
            /\ link[1] = [sender |-> s, receiver |-> r, offered |-> header.offers,
                          accepted |-> extension_accepted(header.text)]
            /\ sent[1] = f
            /\ wire[1] = OnWire(link[1], f)
            /\ got = Some(AtReceiver(link[1], wire[1]))
    BY <1>1, Travelling
  <2>2. /\ link[1].sender = s /\ link[1].receiver = r
        /\ link[1].offered = header.offers /\ link[1].accepted = header.offers
    BY <2>1
  <2>3. into_text(f) = IF is_text(f) THEN Ok(f.bytes) ELSE Err("InvalidMessage")
    BY DEF into_text
  <2>4. \A x : Some(x)[1] = x /\ Ok(x).ok = x
    BY DEF Some, Ok
  <2>5. CASE ~header.offers
    <3>1. got = Some(Ok(f)) /\ ~link[1].offered
      BY <2>1, <2>2, <2>5 DEF OnWire, AtReceiver
    <3> QED
      BY <2>1, <2>3, <2>4, <3>1 DEF RoundTrip
  <2>6. CASE header.offers
    <3>1. got = Some(decompress_frame(r, compress_frame(s, f))) /\ link[1].offered
      BY <2>1, <2>2, <2>6 DEF OnWire, AtReceiver
    <3>2. got = Some(Arrives(r, f))
      BY <3>1, FrameRoundTrip DEF Limited
    <3>3. CASE Len(f.bytes) > r.max_size
      BY <2>1, <2>2, <3>1, <3>2, <3>3 DEF RoundTrip, Arrives
    <3>4. CASE ~(Len(f.bytes) > r.max_size)
      <4>1. got = Some(Ok(f))
        BY <3>2, <3>4 DEF Arrives
      <4>2. into_text(got[1].ok) = IF is_text(f) THEN Ok(f.bytes) ELSE Err("InvalidMessage")
        BY <2>3, <2>4, <4>1
      <4> QED
        BY <2>1, <2>2, <3>4, <4>1, <4>2 DEF RoundTrip
    <3> QED
      BY <3>3, <3>4
  <2> QED
    BY <2>5, <2>6
<1> QED
  BY <1>1, InvHolds, PTL

\* A frame that no application sent is one from outside, on a connection that
\* accepted compression.
ForeignInv ==
    sent = None /\ wire # None =>
        link # None /\ link[1].accepted /\ \E w \in Wires : wire = Some(w)

LEMMA ForeignStep ==
    ASSUME IInv, ForeignInv, [Next]_vars
    PROVE  ForeignInv'
<1>1. \A x : Some(x) # None
  BY DEF Some, None
<1>2. CASE UNCHANGED frameVars
  BY <1>2 DEF ForeignInv, frameVars
<1>3. CASE \E s, r \in Configs, header \in Capabilities : OnUpgrade(s, r, header)
  <2>1. wire' = wire /\ phase = "authenticated"
    BY <1>3 DEF OnUpgrade
  <2>2. wire' = None
    BY <2>1 DEF IInv, LinkInv
  <2> QED
    BY <2>2 DEF ForeignInv
<1>4. CASE \E f \in Frames : Send(f)
  BY <1>1, <1>4 DEF Send, ForeignInv
<1>5. CASE \E w \in Wires : SendForeign(w)
  BY <1>5 DEF SendForeign, ForeignInv, IInv, OpenInv
<1>6. CASE Receive
  BY <1>6 DEF Receive, ForeignInv
<1>7. CASE Handled
  BY <1>7 DEF Handled, ForeignInv
<1>8. \/ UNCHANGED frameVars
      \/ \E s, r \in Configs, header \in Capabilities : OnUpgrade(s, r, header)
      \/ \E f \in Frames : Send(f)
      \/ \E w \in Wires : SendForeign(w)
      \/ Receive
      \/ Handled
  BY DEF Next, vars, frameVars, SetOption, AllowOrigin, AllowedOrigins, Building, Build,
         CheckOrigin, OriginPasses, RequireToken, TokenPasses, Refused
<1> QED
  BY <1>2, <1>3, <1>4, <1>5, <1>6, <1>7, <1>8

\* Whatever arrives from somebody who is no ws-kit peer, whatever the decoder
\* makes of it and whatever the settings, the application sees at most
\* max_size bytes, text only as UTF-8, and a stream that inflates beyond
\* max_size is refused there (compression.rs decompress, decompress_frame).
THEOREM ForeignFramesGuarded == Spec => []ForeignFramesChecked
<1>1. Init => ForeignInv
  BY DEF Init, ForeignInv
<1>2. ASSUME IInv, ForeignInv PROVE ForeignFramesChecked
  <2> SUFFICES ASSUME phase = "open", sent = None, got # None
               PROVE  ForeignFramesChecked
    BY DEF ForeignFramesChecked
  <2>1. wire # None /\ got = Some(AtReceiver(link[1], wire[1]))
    BY <1>2 DEF IInv, FrameInv
  <2>2. PICK w \in Wires : wire = Some(w)
    BY <1>2, <2>1 DEF ForeignInv
  <2>3. PICK s \in Configs, r \in Configs, header \in Capabilities :
        link = Some([sender |-> s, receiver |-> r, offered |-> header.offers,
                     accepted |-> extension_accepted(header.text)])
    BY <1>2 DEF IInv, OpenInv, LinkInv
  <2>4. \A x : Some(x)[1] = x
    BY DEF Some
  <2>5. wire[1] = w /\ link[1].receiver = r /\ link[1].accepted
    BY <1>2, <2>1, <2>2, <2>3, <2>4 DEF ForeignInv
  <2>6. got = Some(decompress_frame(r, w)) /\ got[1] = decompress_frame(r, w)
    BY <2>1, <2>4, <2>5 DEF AtReceiver
  <2> QED
    BY <2>5, <2>6, ForeignFrame DEF ForeignFramesChecked
<1> QED
  BY <1>1, <1>2, ForeignStep, InvHolds, PTL DEF Spec

----------------------------------------------------------------------------
(* The configuration and the upgrade *)

Texts == {e.text : e \in Entries}

BuilderType ==
    [heartbeat_interval : {"default", "set"}, broadcast_capacity : {"default", "set"},
     max_connections : {"default", "set"}, allowed_origins : Seq(Texts)]

\* The list holds the text of an entry that is meant for each of its items,
\* and for each origin that is meant an item.
ListInv ==
    /\ builder \in BuilderType
    /\ builds \in 0..MaxBuilds
    /\ promised \subseteq {e.means : e \in Entries}
    /\ \A i \in 1..Len(builder.allowed_origins) :
        \E e \in Entries : e.text = builder.allowed_origins[i] /\ e.means \in promised
    /\ \A m \in promised : \E e \in Entries, i \in 1..Len(builder.allowed_origins) :
        e.means = m /\ e.text = builder.allowed_origins[i]

\* What the upgrade looks at; a verdict is that of the list as it stands.
UpgradeInv ==
    /\ origin = None \/ origin \in Origins
    /\ request = NoRequest \/ request \in Requests
    /\ sources = DefaultSources \/ sources \in SourceLists
    /\ Len(verdict) <= 1
    /\ phase = "origin_checked" =>
        verdict = Some(origin_allowed_in_parts(IF origin = None THEN None ELSE Some(origin[1].text),
                                               builder.allowed_origins))

\* At most one frame is under way.
OptionsInv == Len(sent) <= 1 /\ Len(wire) <= 1 /\ Len(got) <= 1

LEMMA SettingNames ==
    /\ Settings = {"heartbeat_interval", "broadcast_capacity", "max_connections"}
    /\ DOMAIN DefaultConfig
        = {"heartbeat_interval", "broadcast_capacity", "max_connections", "allowed_origins"}
  BY DEF Settings, DefaultConfig

LEMMA DefaultList ==
    ASSUME builder' = DefaultConfig, builds' = 0, promised' = {}
    PROVE  ListInv'
<1>1. << >> \in Seq(Texts) /\ Len(<< >>) = 0
  OBVIOUS
<1>2. DefaultConfig \in BuilderType /\ DefaultConfig.allowed_origins = << >>
  BY <1>1 DEF DefaultConfig, BuilderType
<1> QED
  BY <1>1, <1>2, BuildsAssumption DEF ListInv

LEMMA OptionLengths ==
    ASSUME NEW opt, opt = None \/ \E x : opt = Some(x)
    PROVE  Len(opt) <= 1
<1>1. CASE opt = << >>
  BY <1>1
<1>2. ASSUME NEW x, opt = <<x>> PROVE Len(opt) <= 1
  <2>1. Len(<<x>>) = 1
    OBVIOUS
  <2> QED
    BY <1>2, <2>1
<1> QED
  BY <1>1, <1>2 DEF None, Some

LEMMA InitList == Init => ListInv /\ UpgradeInv /\ OptionsInv
<1> SUFFICES ASSUME Init PROVE ListInv /\ UpgradeInv /\ OptionsInv
  OBVIOUS
<1>1. << >> \in Seq(Texts) /\ Len(<< >>) = 0
  OBVIOUS
<1>2. DefaultConfig \in BuilderType /\ DefaultConfig.allowed_origins = << >>
  BY <1>1 DEF DefaultConfig, BuilderType
<1>3. ListInv
  BY <1>1, <1>2, BuildsAssumption DEF Init, ListInv
<1>4. UpgradeInv /\ OptionsInv
  BY OptionLengths DEF Init, UpgradeInv, OptionsInv
<1> QED
  BY <1>3, <1>4

\* The builder's calls keep the list and what is meant in step.
LEMMA ListStep ==
    ASSUME ListInv, [Next]_vars
    PROVE  ListInv'
<1> DEFINE list == builder.allowed_origins
<1>1. CASE UNCHANGED configVars
  BY <1>1 DEF configVars, ListInv
<1>2. CASE OriginPasses
  BY <1>2, DefaultList DEF OriginPasses
<1>3. CASE \E option \in Settings : SetOption(option)
  <2>1. PICK option \in Settings : SetOption(option)
    BY <1>3
  <2>2. /\ builds < MaxBuilds /\ builds' = builds + 1 /\ promised' = promised
        /\ builder' = [builder EXCEPT ![option] = "set"]
    BY <2>1 DEF SetOption, Building
  <2>3. builder' \in BuilderType /\ builder'.allowed_origins = builder.allowed_origins
    BY <2>2, SettingNames DEF ListInv, BuilderType
  <2>4. builds' \in 0..MaxBuilds
    BY <2>2, BuildsAssumption DEF ListInv
  <2> QED
    BY <2>2, <2>3, <2>4 DEF ListInv
<1>4. CASE \E e \in Entries : AllowOrigin(e)
  <2>1. PICK e \in Entries : AllowOrigin(e)
    BY <1>4
  <2>2. /\ builds < MaxBuilds /\ builds' = builds + 1 /\ promised' = promised \cup {e.means}
        /\ builder' = [builder EXCEPT !.allowed_origins = Append(list, e.text)]
    BY <2>1 DEF AllowOrigin, Building
  <2>3. list \in Seq(Texts) /\ e.text \in Texts
    BY DEF ListInv, BuilderType, Texts
  <2>4. /\ Append(list, e.text) \in Seq(Texts)
        /\ Len(Append(list, e.text)) = Len(list) + 1
        /\ Len(list) \in Nat
        /\ \A i \in 1..Len(list) : Append(list, e.text)[i] = list[i]
        /\ Append(list, e.text)[Len(list) + 1] = e.text
    BY <2>3
  <2> HIDE DEF list
  <2>5. builder' \in BuilderType /\ builder'.allowed_origins = Append(list, e.text)
    BY <2>2, <2>4 DEF ListInv, BuilderType
  <2>6. builds' \in 0..MaxBuilds
    BY <2>2, BuildsAssumption DEF ListInv
  <2>7. \A i \in 1..Len(builder'.allowed_origins) :
            \E x \in Entries : x.text = builder'.allowed_origins[i] /\ x.means \in promised'
    <3> SUFFICES ASSUME NEW i \in 1..(Len(list) + 1)
                 PROVE  \E x \in Entries : x.text = Append(list, e.text)[i] /\ x.means \in promised'
      BY <2>4, <2>5
    <3>1. CASE i = Len(list) + 1
      BY <2>2, <2>4, <3>1
    <3>2. CASE i # Len(list) + 1
      <4>1. i \in 1..Len(list)
        BY <2>4, <3>2
      <4> QED
        BY <2>2, <2>4, <4>1 DEF ListInv, list
    <3> QED
      BY <3>1, <3>2
  <2>8. \A m \in promised' : \E x \in Entries, i \in 1..Len(builder'.allowed_origins) :
            x.means = m /\ x.text = builder'.allowed_origins[i]
    <3> SUFFICES ASSUME NEW m \in promised'
                 PROVE  \E x \in Entries, i \in 1..(Len(list) + 1) :
                            x.means = m /\ x.text = Append(list, e.text)[i]
      BY <2>4, <2>5
    <3>1. CASE m = e.means
      <4>1. Len(list) + 1 \in 1..(Len(list) + 1)
        BY <2>4
      <4> QED
        BY <2>4, <3>1, <4>1
    <3>2. CASE m \in promised
      <4>1. PICK x \in Entries, i \in 1..Len(list) : x.means = m /\ x.text = list[i]
        BY <3>2 DEF ListInv, list
      <4>2. i \in 1..(Len(list) + 1) /\ x.text = Append(list, e.text)[i]
        BY <2>4, <4>1
      <4> QED
        BY <4>1, <4>2
    <3> QED
      BY <2>2, <3>1, <3>2
  <2>9. promised' \subseteq {x.means : x \in Entries}
    BY <2>2 DEF ListInv
  <2> QED
    BY <2>5, <2>6, <2>7, <2>8, <2>9 DEF ListInv
<1>5. ASSUME NEW entries \in Seq(Entries), Len(entries) <= 1, AllowedOrigins(entries)
      PROVE  ListInv'
  <2> DEFINE texts == [i \in DOMAIN entries |-> entries[i].text]
  <2>1. /\ builds < MaxBuilds /\ builds' = builds + 1
        /\ promised' = {e.means : e \in ToSet(entries)}
        /\ builder' = [builder EXCEPT !.allowed_origins = texts]
    BY <1>5 DEF AllowedOrigins, Building
  <2>2. ToSet(entries) = {entries[i] : i \in 1..Len(entries)}
    BY DEF ToSet
  <2>3. /\ Len(entries) \in Nat /\ DOMAIN entries = 1..Len(entries)
        /\ \A i \in 1..Len(entries) : entries[i] \in Entries
    OBVIOUS
  <2>4. texts \in Seq(Texts) /\ Len(texts) = Len(entries)
    BY <2>3 DEF Texts
  <2>5. \A i \in 1..Len(entries) : texts[i] = entries[i].text
    BY <2>3
  <2> HIDE DEF texts
  <2>6. builder' \in BuilderType /\ builder'.allowed_origins = texts
    BY <2>1, <2>4 DEF ListInv, BuilderType
  <2>7. builds' \in 0..MaxBuilds
    BY <2>1, BuildsAssumption DEF ListInv
  <2>8. \A i \in 1..Len(builder'.allowed_origins) :
            \E x \in Entries : x.text = builder'.allowed_origins[i] /\ x.means \in promised'
    BY <2>1, <2>2, <2>3, <2>4, <2>5, <2>6
  <2>9. \A m \in promised' : \E x \in Entries, i \in 1..Len(builder'.allowed_origins) :
            x.means = m /\ x.text = builder'.allowed_origins[i]
    BY <2>1, <2>2, <2>3, <2>4, <2>5, <2>6
  <2>10. promised' \subseteq {x.means : x \in Entries}
    BY <2>1, <2>2, <2>3
  <2> QED
    BY <2>6, <2>7, <2>8, <2>9, <2>10 DEF ListInv
<1>6. CASE (\E e \in Entries : AllowedOrigins(<<e>>)) \/ AllowedOrigins(<< >>)
  <2>1. << >> \in Seq(Entries) /\ Len(<< >>) <= 1
    OBVIOUS
  <2>2. \A e \in Entries : <<e>> \in Seq(Entries) /\ Len(<<e>>) <= 1
    OBVIOUS
  <2> QED
    BY <1>5, <1>6, <2>1, <2>2
<1>7. \/ UNCHANGED configVars
      \/ OriginPasses
      \/ \E option \in Settings : SetOption(option)
      \/ \E e \in Entries : AllowOrigin(e)
      \/ \E e \in Entries : AllowedOrigins(<<e>>)
      \/ AllowedOrigins(<< >>)
  BY DEF Next, vars, configVars, Build, CheckOrigin, RequireToken, TokenPasses, OnUpgrade,
         Refused, Send, SendForeign, Receive, Handled
<1> QED
  BY <1>1, <1>2, <1>3, <1>4, <1>6, <1>7

LEMMA UpgradeStep ==
    ASSUME IInv, UpgradeInv, [Next]_vars
    PROVE  UpgradeInv'
<1>1. CASE UNCHANGED upgradeVars /\ phase' = phase /\ (phase = "origin_checked" => UNCHANGED builder)
  BY <1>1 DEF UpgradeInv, upgradeVars
<1>2. CASE UNCHANGED upgradeVars /\ phase' # "origin_checked"
  BY <1>2 DEF UpgradeInv, upgradeVars
<1>3. CASE \E o \in Origins : CheckOrigin(o)
  <2>1. PICK o \in Origins : CheckOrigin(o)
    BY <1>3
  <2>2. /\ origin' = o /\ builder' = builder /\ request' = request /\ sources' = sources
        /\ verdict' = Some(origin_allowed_in_parts(IF o = None THEN None ELSE Some(o[1].text),
                                                   builder.allowed_origins))
    BY <2>1 DEF CheckOrigin, configVars
  <2>3. Len(verdict') <= 1
    BY <2>2, OptionLengths
  <2> QED
    BY <2>2, <2>3 DEF UpgradeInv
<1>4. CASE OriginPasses
  BY <1>4, OptionLengths DEF OriginPasses, UpgradeInv
<1>5. CASE \E r \in Requests, list \in SourceLists : RequireToken(r, list)
  <2>1. Len(verdict') <= 1
    BY <1>5, OptionLengths DEF RequireToken
  <2> QED
    BY <1>5, <2>1 DEF RequireToken, UpgradeInv
<1>6. CASE TokenPasses
  BY <1>6, OptionLengths DEF TokenPasses, UpgradeInv
<1>7. CASE \E option \in Settings : SetOption(option)
  BY <1>1, <1>7 DEF SetOption, Building
<1>8. CASE \E e \in Entries : AllowOrigin(e) \/ AllowedOrigins(<<e>>)
  BY <1>1, <1>8 DEF AllowOrigin, AllowedOrigins, Building
<1>9. CASE AllowedOrigins(<< >>)
  BY <1>1, <1>9 DEF AllowedOrigins, Building
<1>10. CASE Build \/ \E s, r \in Configs, header \in Capabilities : OnUpgrade(s, r, header)
  BY <1>2, <1>10 DEF Build, OnUpgrade
<1>11. CASE Refused \/ UNCHANGED vars
  BY <1>1, <1>11 DEF Refused, vars, upgradeVars
<1>12. CASE (\E f \in Frames : Send(f)) \/ (\E w \in Wires : SendForeign(w)) \/ Receive \/ Handled
  BY <1>1, <1>12 DEF Send, SendForeign, Receive, Handled, configVars
<1> QED
  BY <1>3, <1>4, <1>5, <1>6, <1>7, <1>8, <1>9, <1>10, <1>11, <1>12 DEF Next

LEMMA OptionsStep ==
    ASSUME OptionsInv, [Next]_vars
    PROVE  OptionsInv'
<1>1. /\ sent' = sent \/ sent' = None \/ \E x : sent' = Some(x)
      /\ wire' = wire \/ wire' = None \/ \E x : wire' = Some(x)
      /\ got' = got \/ got' = None \/ \E x : got' = Some(x)
  BY DEF Next, vars, frameVars, SetOption, AllowOrigin, AllowedOrigins, Building, Build,
         CheckOrigin, OriginPasses, RequireToken, TokenPasses, Refused, OnUpgrade,
         Send, SendForeign, Receive, Handled
<1> QED
  BY <1>1, OptionLengths DEF OptionsInv

LEMMA SetupHolds == Spec => [](ListInv /\ UpgradeInv /\ OptionsInv)
  BY InitList, ListStep, UpgradeStep, OptionsStep, InvHolds, PTL DEF Spec

\* Every variable keeps its type in every phase, and the list holds the
\* operator's entries word for word (config.rs).
THEOREM EndpointTypeCorrect == Spec => []TypeOK
<1>1. ASSUME IInv, ListInv, UpgradeInv, OptionsInv PROVE TypeOK
  <2>1. DOMAIN builder = DOMAIN DefaultConfig
    BY <1>1, SettingNames DEF ListInv, BuilderType
  <2>2. \A option \in Settings : builder[option] \in {"default", "set"}
    BY <1>1, SettingNames DEF ListInv, BuilderType
  <2>3. builder.allowed_origins \in Seq(Texts)
    BY <1>1 DEF ListInv, BuilderType
  <2>4. DOMAIN builder.allowed_origins = 1..Len(builder.allowed_origins)
    BY <2>3
  <2>5. \A i \in DOMAIN builder.allowed_origins :
            \E e \in Entries : e.text = builder.allowed_origins[i]
    BY <1>1, <2>4 DEF ListInv
  <2>6. phase = "open" <=> link # None
    BY <1>1 DEF IInv, PhaseInv, OpenInv, LinkInv
  <2> QED
    BY <1>1, <2>1, <2>2, <2>5, <2>6 DEF TypeOK, IInv, PhaseInv, ListInv, UpgradeInv, OptionsInv
<1> QED
  BY <1>1, InvHolds, SetupHolds, PTL

LEMMA TextsAreLexemes ==
    /\ \A e \in Entries : e.text \in Seq(Lexemes)
    /\ \A x \in Origins : x # None => x[1].text \in Seq(Lexemes)
<1>1. ASSUME NEW s, s \in Seq(STRING), ToSet(s) \subseteq Lexemes
      PROVE  s \in Seq(Lexemes)
  <2>1. Len(s) \in Nat /\ s = [k \in 1..Len(s) |-> s[k]] /\ DOMAIN s = 1..Len(s)
    BY <1>1
  <2>2. \A k \in 1..Len(s) : s[k] \in Lexemes
    BY <1>1, <2>1 DEF ToSet
  <2> QED
    BY <2>1, <2>2
<1>2. ASSUME NEW e \in Entries PROVE e.text \in Seq(Lexemes)
  <2>1. ToSet(e.text) \subseteq Lexemes
    BY DEF Lexemes
  <2> QED
    BY <1>1, <2>1, OriginsAssumption
<1>3. ASSUME NEW x \in Origins, x # None PROVE x[1].text \in Seq(Lexemes)
  <2>1. ToSet(x[1].text) \subseteq Lexemes
    BY <1>3 DEF Lexemes
  <2> QED
    BY <1>1, <1>3, <2>1, OriginsAssumption
<1> QED
  BY <1>2, <1>3

\* normalize_origin maps an entry and a request's origin to the same text
\* only if they are the same origin, and if they are it does so wherever the
\* port is plainly written.
LEMMA NormalizesByMeaning ==
    ASSUME NEW e \in Entries, NEW x \in Origins, x # None
    PROVE  LET visible == ToSet(x[1].text) \cap Invisible = {}
               same == normalize_origin(e.text) = normalize_origin(x[1].text)
           IN  /\ visible /\ same => e.means = x[1].means
               /\ e.means = x[1].means /\ x[1].plain => visible /\ same
<1> DEFINE o == x[1]
<1>1. LexemesOK(Lexemes) /\ PlainPortsOK
  <2>1. Punctuation \subseteq Lexemes
    BY DEF Lexemes
  <2> QED
    BY <2>1, LexemesAssumption DEF LexemesOK, PlainPortsOK
<1>2. e.text \in Seq(Lexemes) /\ o.text \in Seq(Lexemes)
  BY TextsAreLexemes
<1>3. /\ e.plain
      /\ \/ IsOrigin(e)
         \/ IsNoOrigin(e) /\ ToSet(e.text) \cap (Invisible \cup {"://"}) = {}
      /\ IsOrigin(o) \/ IsNoOrigin(o)
  BY OriginsAssumption
<1> HIDE DEF o
<1> DEFINE visible == ToSet(o.text) \cap Invisible = {}
           same == normalize_origin(e.text) = normalize_origin(o.text)
<1>4. /\ visible /\ same => e.means = o.means
      /\ e.means = o.means /\ o.plain => visible /\ same
  BY <1>1, <1>2, <1>3, NormalFormsMean
<1> QED
  BY <1>4, Zenon DEF o

\* The check lets in the origins the operator means and no others, by whatever
\* and however many builder calls the list came about (config.rs allow_origin,
\* allowed_origins; origin.rs origin_allowed, origin_allowed_in_parts).
THEOREM OriginsDecided == Spec => []OriginDecision
<1>1. ASSUME ListInv, UpgradeInv PROVE OriginDecision
  <2> SUFFICES ASSUME phase = "origin_checked" PROVE OriginDecision
    BY DEF OriginDecision
  <2> DEFINE list == builder.allowed_origins
             header == IF origin = None THEN None ELSE Some(origin[1].text)
             allowed == origin_allowed_in_parts(header, list)
             meant == promised = {} \/ (origin # None /\ origin[1].means \in promised)
  <2>1. verdict = Some(allowed) /\ (origin = None \/ origin \in Origins)
    BY <1>1 DEF UpgradeInv
  <2>2. list \in Seq(Texts)
    BY <1>1 DEF ListInv, BuilderType
  <2>3. ToSet(list) = {list[i] : i \in 1..Len(list)} /\ Len(list) \in Nat
    BY <2>2 DEF ToSet
  <2>4. list = << >> <=> promised = {}
    <3>1. list = << >> <=> Len(list) = 0
      BY <2>2
    <3>2. Len(list) # 0 => 1 \in 1..Len(list)
      BY <2>3
    <3>3. Len(list) = 0 => 1..Len(list) = {}
      BY <2>3
    <3> QED
      BY <1>1, <3>1, <3>2, <3>3 DEF ListInv
  <2>5. \A x \in ToSet(list) : \E e \in Entries : e.text = x /\ e.means \in promised
    BY <1>1, <2>3 DEF ListInv
  <2>6. \A m \in promised : \E e \in Entries : e.means = m /\ e.text \in ToSet(list)
    BY <1>1, <2>3 DEF ListInv
  <2> HIDE DEF list
  <2>7. \A x : Some(x) # None /\ Some(x)[1] = x
    BY DEF Some, None
  <2>8. CASE origin = None
    <3>1. allowed <=> promised = {}
      BY <2>4, <2>8 DEF origin_allowed_in_parts, origin_allowed
    <3> QED
      BY <2>1, <2>7, <2>8, <3>1 DEF OriginDecision
  <2>9. CASE origin # None
    <3> DEFINE visible == ToSet(origin[1].text) \cap Invisible = {}
               Same(x) == normalize_origin(x) = normalize_origin(origin[1].text)
    <3>1. header = Some(origin[1].text) /\ header # None /\ header[1] = origin[1].text
      BY <2>7, <2>9
    <3> HIDE DEF header
    <3>2. allowed <=> list = << >> \/ (visible /\ \E x \in ToSet(list) : Same(x))
      BY <3>1 DEF origin_allowed_in_parts, origin_allowed
    <3>3. ASSUME NEW e \in Entries
          PROVE  /\ visible /\ Same(e.text) => e.means = origin[1].means
                 /\ e.means = origin[1].means /\ origin[1].plain => visible /\ Same(e.text)
      BY <2>1, <2>9, NormalizesByMeaning
    <3> HIDE DEF visible, Same, allowed
    <3>4. allowed => meant
      <4>1. CASE list = << >>
        BY <2>4, <4>1
      <4>2. ASSUME NEW x \in ToSet(list), visible, Same(x) PROVE meant
        <5>1. PICK e \in Entries : e.text = x /\ e.means \in promised
          BY <2>5
        <5>2. Same(e.text)
          BY <4>2, <5>1 DEF Same
        <5>3. e.means = origin[1].means
          BY <3>3, <4>2, <5>2
        <5> QED
          BY <2>9, <5>1, <5>3
      <4> QED
        BY <3>2, <4>1, <4>2
    <3>5. meant /\ origin[1].plain => allowed
      BY <2>4, <2>6, <3>2, <3>3
    <3>6. allowed \in BOOLEAN
      BY DEF allowed, origin_allowed_in_parts, origin_allowed
    <3> QED
      BY <2>1, <2>7, <2>9, <3>4, <3>5, <3>6 DEF OriginDecision
  <2> QED
    BY <2>8, <2>9
<1> QED
  BY <1>1, SetupHolds, PTL

----------------------------------------------------------------------------
(* The token *)

\* The verdict is that of the sources as they stand on the request's headers.
TokenInv ==
    phase = "token_checked" =>
        /\ request \in Requests /\ sources \in SourceLists
        /\ verdict = Some(require_token(sources, request.parts, request.query))

LEMMA TokenStep ==
    ASSUME TokenInv, [Next]_vars
    PROVE  TokenInv'
<1>1. CASE UNCHANGED upgradeVars /\ phase' = phase
  BY <1>1 DEF TokenInv, upgradeVars
<1>2. CASE phase' # "token_checked"
  BY <1>2 DEF TokenInv
<1>3. CASE \E r \in Requests, list \in SourceLists : RequireToken(r, list)
  <2>1. PICK r \in Requests, list \in SourceLists : RequireToken(r, list)
    BY <1>3
  <2> QED
    BY <2>1 DEF RequireToken, TokenInv
<1>4. CASE \E option \in Settings : SetOption(option)
  BY <1>1, <1>4 DEF SetOption, Building
<1>5. CASE \E e \in Entries : AllowOrigin(e) \/ AllowedOrigins(<<e>>)
  BY <1>1, <1>5 DEF AllowOrigin, AllowedOrigins, Building
<1>6. CASE AllowedOrigins(<< >>)
  BY <1>1, <1>6 DEF AllowedOrigins, Building
<1>7. CASE \/ Build \/ OriginPasses \/ TokenPasses
           \/ \E o \in Origins : CheckOrigin(o)
           \/ \E s, r \in Configs, header \in Capabilities : OnUpgrade(s, r, header)
  BY <1>2, <1>7 DEF Build, OriginPasses, TokenPasses, CheckOrigin, OnUpgrade
<1>8. CASE Refused \/ UNCHANGED vars
  BY <1>1, <1>8 DEF Refused, vars, upgradeVars
<1>9. CASE (\E f \in Frames : Send(f)) \/ (\E w \in Wires : SendForeign(w)) \/ Receive \/ Handled
  BY <1>1, <1>9 DEF Send, SendForeign, Receive, Handled
<1> QED
  BY <1>3, <1>4, <1>5, <1>6, <1>7, <1>8, <1>9 DEF Next

\* A request as it was written.
LEMMA RequestWritten ==
    ASSUME NEW r \in Requests
    PROVE  /\ r.parts.authorization \in Seq(Seq(Nat)) /\ r.parts.cookie \in Seq(Seq(Nat))
           /\ r.query \in Seq(Nat)
           /\ r.params \in Seq(Field) /\ r.cookies \in Seq(Field)
           /\ WritesBearer(r.parts.authorization, r.bearer)
           /\ WritesQuery(r.query, r.params)
           /\ WritesCookies(r.parts.cookie, r.cookies)
<1>1. /\ r.parts.authorization \in Seq(Seq(Nat)) /\ r.parts.cookie \in Seq(Seq(Nat))
      /\ r.query \in Seq(Nat)
      /\ r.params \in Seq(Field) /\ r.cookies \in Seq(Field)
  BY RequestsAssumption DEF Field
<1>2. WritesBearer(r.parts.authorization, r.bearer)
  <2> DEFINE w == <<r.parts.authorization, r.bearer>>
  <2>1. WritesBearer(w[1], w[2])
    BY RequestsAssumption
  <2> QED
    BY <2>1
<1>3. WritesQuery(r.query, r.params)
  <2> DEFINE w == <<r.query, r.params>>
  <2>1. WritesQuery(w[1], w[2])
    BY RequestsAssumption
  <2> QED
    BY <2>1
<1>4. WritesCookies(r.parts.cookie, r.cookies)
  <2> DEFINE w == <<r.parts.cookie, r.cookies>>
  <2>1. WritesCookies(w[1], w[2])
    BY RequestsAssumption
  <2> QED
    BY <2>1
<1> QED
  BY <1>1, <1>2, <1>3, <1>4

\* What extract_from_parts finds in a source.
Found(source, r) ==
    CASE source.kind = "header" -> parse_bearer(HeaderStr(r.parts.authorization))
      [] source.kind = "query" -> extract_query_param(r.query, source.name)
      [] source.kind = "cookie" -> parse_cookie(HeaderStr(r.parts.cookie), source.name)

LEMMA FoundIsGiven ==
    ASSUME request \in Requests, NEW source \in [kind : {"header", "query", "cookie"}, name : Seq(Nat)]
    PROVE  Found(source, request) = Given(source)
<1>1. /\ request.parts.authorization \in Seq(Seq(Nat)) /\ request.parts.cookie \in Seq(Seq(Nat))
      /\ request.query \in Seq(Nat)
      /\ request.params \in Seq(Field) /\ request.cookies \in Seq(Field)
      /\ WritesBearer(request.parts.authorization, request.bearer)
      /\ WritesQuery(request.query, request.params)
      /\ WritesCookies(request.parts.cookie, request.cookies)
  BY RequestWritten
<1>2. parse_bearer(HeaderStr(request.parts.authorization)) = request.bearer
  BY <1>1, BearerFound
<1>3. extract_query_param(request.query, source.name) = FirstOf(request.params, source.name)
  BY <1>1, ParamsFound
<1>4. parse_cookie(HeaderStr(request.parts.cookie), source.name)
        = FirstOf(request.cookies, source.name)
  BY <1>1, CookiesFound
<1>5. Given(source) =
        CASE source.kind = "header" -> request.bearer
          [] source.kind = "query" -> FirstOf(request.params, source.name)
          [] source.kind = "cookie" -> FirstOf(request.cookies, source.name)
  BY DEF Given, FirstOf
<1> QED
  BY <1>2, <1>3, <1>4, <1>5 DEF Found

\* The token handed on is the one the client gave in the first configured
\* source it gave one in, whatever escapes, quotes, blanks and other fields
\* are around it, and Missing means that it gave none (extractor.rs
\* extract_token, extract_query_param, parse_cookie, parse_bearer, url_decode).
THEOREM TokensDecided == Spec => []TokenDecision
<1>1. ASSUME TokenInv PROVE TokenDecision
  <2> SUFFICES ASSUME phase = "token_checked" PROVE TokenDecision
    BY DEF TokenDecision
  <2>1. /\ request \in Requests /\ sources \in SourceLists
        /\ verdict = Some(require_token(sources, request.parts, request.query))
    BY <1>1 DEF TokenInv
  <2>2. /\ sources \in Seq([kind : {"header", "query", "cookie"}, name : Seq(Nat)])
        /\ DOMAIN sources = 1..Len(sources)
    BY <2>1, SourcesAssumption
  <2>3. \A i \in DOMAIN sources : Found(sources[i], request) = Given(sources[i])
    <3> DEFINE S == [kind : {"header", "query", "cookie"}, name : Seq(Nat)]
    <3> HIDE DEF S
    <3>2. sources \in Seq(S) /\ DOMAIN sources = 1..Len(sources)
      BY <2>2 DEF S
    <3>3. \A i \in DOMAIN sources : sources[i] \in S
      BY <3>2, ElementOfSeq
    <3>1. \A i \in DOMAIN sources :
            sources[i] \in [kind : {"header", "query", "cookie"}, name : Seq(Nat)]
      BY <3>3 DEF S
    <3> QED
      BY <2>1, <3>1, FoundIsGiven
  <2>4. [i \in DOMAIN sources |-> Found(sources[i], request)]
            = [i \in DOMAIN sources |-> Given(sources[i])]
    BY <2>3
  <2>5. extract_token(sources, request.parts, request.query)
            = FirstFound([i \in DOMAIN sources |-> Found(sources[i], request)])
    BY DEF extract_token, extract_from_parts, Found
  <2>6. extract_token(sources, request.parts, request.query)
            = FirstFound([i \in DOMAIN sources |-> Given(sources[i])])
    BY <2>4, <2>5, Zenon
  <2> QED
    BY <2>1, <2>6, Zenon DEF TokenDecision, require_token, Err, Ok
<1>2. Init => TokenInv
  BY DEF Init, TokenInv
<1> QED
  BY <1>1, <1>2, TokenStep, PTL DEF Spec

=============================================================================
