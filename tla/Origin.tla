------------------------------- MODULE Origin -------------------------------
(***************************************************************************)
(* The Origin check of an upgrade request (src/origin.rs).  An origin is a *)
(* sequence of lexemes: "://", ":", "[", "]", a blank, and words.          *)
(***************************************************************************)
EXTENDS RustStr

CONSTANTS
    Lower(_),       \* external: to_ascii_lowercase of a lexeme
    ParseU16(_),    \* external: str::parse::<u16>, NaN if it fails
    Invisible,      \* external: lexemes that HeaderValue::to_str refuses
    PlainPorts      \* port numbers as browsers write them, without leading zeros

NaN == 65536

LowerAll(s) == [i \in DOMAIN s |-> Lower(s[i])]

\* Host and port; a missing port and an empty one are the same to the caller.
split_authority(authority) ==
    IF authority = << >> \/ Head(authority) # "["
    THEN SplitOnce(authority, ":")
    ELSE LET close == Find(authority, "]")
         IN  IF close \in 1..(Len(authority) - 1) /\ authority[close + 1] = ":"
             THEN <<SubSeq(authority, 1, close), SubSeq(authority, close + 2, Len(authority))>>
             ELSE <<authority, << >>>>

\* Mutation of is_default_port: 80 and 443 are default ports of any scheme.
is_default_port_any(scheme, port) == Len(port) = 1 /\ ParseU16(port[1]) \in {80, 443}

is_default_port(scheme, port) ==
    /\ Len(port) = 1
    /\ <<scheme, ParseU16(port[1])>> \in
            {<<<<"http">>, 80>>, <<<<"ws">>, 80>>, <<<<"https">>, 443>>, <<<<"wss">>, 443>>}

normalize_origin(value) ==
    LET origin == Trim(value, {" "})
        i == Find(origin, "://")
        scheme == LowerAll(SubSeq(origin, 1, i - 1))
        split == split_authority(SubSeq(origin, i + 1, Len(origin)))
        port == split[2]
    IN  IF i = 0 THEN LowerAll(origin)
        ELSE scheme \o <<"://">> \o LowerAll(split[1])
                \o (IF port = << >> \/ is_default_port(scheme, port) THEN << >> ELSE <<":">> \o port)

origin_allowed(origin, allowed_origins) ==
    \/ allowed_origins = << >>
    \/ /\ origin # None
       /\ \E entry \in ToSet(allowed_origins) :
            normalize_origin(entry) = normalize_origin(origin[1])

\* The header as text, if it is visible ASCII.
origin_allowed_in_parts(header, allowed_origins) ==
    origin_allowed(IF header # None /\ ToSet(header[1]) \cap Invisible # {} THEN None ELSE header,
                   allowed_origins)

----------------------------------------------------------------------------
(* What an origin means *)

Punctuation == {"://", ":", "/", "[", "]", " "}

IsWord(x) == x \notin Punctuation \cup Invisible

\* A name, or an address in brackets.
IsHost(host) ==
    /\ host # << >>
    /\ \/ \A i \in 1..Len(host) : IsWord(host[i])
       \/ /\ Len(host) > 1 /\ host[1] = "[" /\ host[Len(host)] = "]"
          /\ \A i \in 2..(Len(host) - 1) : IsWord(host[i]) \/ host[i] = ":"

\* No port, an empty one, or a number.
IsPort(port) ==
    \/ port \in {<< >>, <<":">>}
    \/ /\ Len(port) = 2 /\ port[1] = ":"
       /\ IsWord(port[2]) /\ ParseU16(port[2]) # NaN

DefaultPort(scheme) ==
    CASE scheme \in {"http", "ws"} -> 80 [] scheme \in {"https", "wss"} -> 443 [] OTHER -> NaN

PortNumber(scheme, port) == IF Len(port) = 2 THEN ParseU16(port[2]) ELSE DefaultPort(scheme)

\* The text, without the blanks around it, is a scheme, a host and a port.
Spells(text, scheme, host, port) ==
    /\ Padded(text, <<scheme, "://">> \o host \o port, {" "})
    /\ IsWord(scheme) /\ IsHost(host) /\ IsPort(port)

Means(scheme, host, port) ==
    <<Lower(scheme), LowerAll(host), PortNumber(Lower(scheme), port)>>

\* The port is left out, the scheme's default, or written plainly.
PlainlySpelled(scheme, port) ==
    \/ Len(port) < 2
    \/ ParseU16(port[2]) = DefaultPort(Lower(scheme))
    \/ port[2] \in PlainPorts

\* o means what it spells, and is plain only if it is plainly spelled; what
\* spells no origin means just its own lower-case text.
IsOrigin(o) ==
    \E x \in ToSet(o.text), host, port \in Infixes(o.text) :
        /\ Spells(o.text, x, host, port)
        /\ o.means = Means(x, host, port)
        /\ o.plain => PlainlySpelled(x, port)

IsNoOrigin(o) ==
    /\ ~\E x \in ToSet(o.text), host, port \in Infixes(o.text) : Spells(o.text, x, host, port)
    /\ \E core \in Infixes(o.text) : Padded(o.text, core, {" "}) /\ o.means = <<LowerAll(core)>>

=============================================================================
