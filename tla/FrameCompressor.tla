-------------------------- MODULE FrameCompressor --------------------------
(***************************************************************************)
(* Frames (src/codec.rs) and their compressed envelopes                    *)
(* (src/compression.rs).  Bytes are numbers.  DEFLATE and UTF-8 validation *)
(* are external; a decoder is described by the bytes it hands out for a    *)
(* stream and by whether it then ends or fails (on bad bytes further on it *)
(* may fail early, so what it hands out can be less than what it decoded). *)
(***************************************************************************)
EXTENDS RustStr

CONSTANTS
    Deflate(_, _),  \* external: DEFLATE stream of some bytes, at a level
    Inflate(_),     \* external: [out, ok] of a stream
    Utf8(_),        \* external: String::from_utf8 accepts the bytes
    Normalized(_),  \* external: a capability token trimmed, in lower case
    MaxUsize        \* the largest usize and u64, 2^64 - 1

ASSUME MaxUsizeAssumption == MaxUsize \in Nat

Byte == 0..255

----------------------------------------------------------------------------
(* codec.rs *)

Ok(v) == [ok |-> v]
Err(e) == [err |-> e]
IsOk(result) == "ok" \in DOMAIN result

\* Frame::from and Frame::binary; text can only be made of valid UTF-8.
Text(s) == [kind |-> "text", bytes |-> s]
Binary(b) == [kind |-> "binary", bytes |-> b]

is_text(frame) == frame.kind = "text"

\* as_bytes and into_bytes.
into_bytes(frame) == frame.bytes

into_text(frame) == IF is_text(frame) THEN Ok(frame.bytes) ELSE Err("InvalidMessage")

----------------------------------------------------------------------------
(* compression.rs; config is [level, min_size, max_size] *)

EXTENSION_NAME == "x-ws-kit-deflate"
FLAG_COMPRESSED == 1
FLAG_TEXT == 2
FLAG_KNOWN == 3

HasFlag(flags, bit) == (flags \div bit) % 2 = 1

\* flags & !FLAG_KNOWN = 0, for flags that lead some bytes.
KnownFlags(bytes) == bytes # << >> /\ Head(bytes) <= FLAG_KNOWN

\* Mutation of compress: whatever reaches min_size is deflated.
compress_always(config, data) ==
    IF Len(data) >= config.min_size
    THEN <<FLAG_COMPRESSED>> \o Deflate(config.level, data)
    ELSE <<0>> \o data

compress(config, data) ==
    IF Len(data) >= config.min_size /\ Len(Deflate(config.level, data)) < Len(data)
    THEN <<FLAG_COMPRESSED>> \o Deflate(config.level, data)
    ELSE <<0>> \o data

\* Mutation of TakeLimit: max_size itself.
TakeLimitExact(config) == config.max_size

\* What read_to_end collects: the decoder is not asked for more than one
\* byte beyond max_size.  The addition is a u64's and wraps.
TakeLimit(config) == (config.max_size + 1) % (MaxUsize + 1)

\* Mutation of TooLarge: max_size itself is too large.
TooLargeAtLimit(config, data) == Len(data) >= config.max_size

TooLarge(config, data) == Len(data) > config.max_size

\* An error of the decoder shows unless the limit is reached before it.
decompress(config, enveloped) ==
    LET body == Tail(enveloped)
        identity == ~HasFlag(Head(enveloped), FLAG_COMPRESSED)
        stream == IF identity THEN [out |-> body, ok |-> TRUE] ELSE Inflate(body)
        limit == IF identity THEN Len(body) ELSE TakeLimit(config)
        out == SubSeq(stream.out, 1, Min({limit, Len(stream.out)}))
    IN  IF ~KnownFlags(enveloped) THEN Err("Compression")
        ELSE IF ~stream.ok /\ Len(out) < limit THEN Err("Compression")
        ELSE IF TooLarge(config, out) THEN Err("PayloadTooLarge")
        ELSE Ok(out)

\* The kind goes in a second flag byte, before the envelope's own.
compress_frame(config, frame) ==
    Binary(<<IF is_text(frame) THEN FLAG_TEXT ELSE 0>> \o compress(config, into_bytes(frame)))

decompress_frame(config, frame) ==
    LET bytes == into_bytes(frame)
        payload == decompress(config, Tail(bytes))
    IN  IF ~KnownFlags(bytes) THEN Err("Compression")
        ELSE IF ~IsOk(payload) THEN payload
        ELSE IF ~HasFlag(Head(bytes), FLAG_TEXT) THEN Ok(Binary(payload.ok))
        ELSE IF Utf8(payload.ok) THEN Ok(Text(payload.ok))
        ELSE Err("Compression")

\* The capability header, an Option of the tokens between its commas.
extension_accepted(header) ==
    header # None /\ \E token \in ToSet(header[1]) : Normalized(token) = EXTENSION_NAME

=============================================================================
