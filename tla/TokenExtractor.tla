--------------------------- MODULE TokenExtractor ---------------------------
(***************************************************************************)
(* Finding the bearer token of an upgrade request (src/extractor.rs).      *)
(* Texts are sequences of code points.  The extracted token is never       *)
(* empty, so an empty one stands for the code's None.                      *)
(***************************************************************************)
EXTENDS RustStr

CONSTANTS
    TokenParam,         \* the query parameter "token"
    AccessTokenParam    \* the query parameter "access_token"

Space == {9, 32}        \* what trim() removes
Quote == 34
Percent == 37
Ampersand == 38
Plus == 43
Semicolon == 59
Equals == 61
Question == 63
BearerPrefix == <<98, 101, 97, 114, 101, 114, 32>>

\* TokenSourceKind
AuthorizationHeader == [kind |-> "header", name |-> << >>]
QueryParam(name) == [kind |-> "query", name |-> name]
Cookie(name) == [kind |-> "cookie", name |-> name]

\* TokenExtractor::default and bearer_only
DefaultSources == <<AuthorizationHeader, QueryParam(TokenParam), QueryParam(AccessTokenParam)>>
BearerOnly == <<AuthorizationHeader>>

Digit == 48..57
LowerHex == 97..102
UpperHex == 65..70

hex_val(c) == IF c \in Digit THEN c - 48 ELSE IF c \in LowerHex THEN c - 87 ELSE c - 55

\* The character an escape stands for, or the escape as it is: one that is
\* cut short or not hexadecimal stays, with the two characters after it.
Unescape(escape) ==
    IF Len(escape) = 3 /\ {escape[2], escape[3]} \subseteq Digit \cup LowerHex \cup UpperHex
    THEN <<16 * hex_val(escape[2]) + hex_val(escape[3])>>
    ELSE escape

\* '+' is a blank, %XX the character of that number.
url_decode(s) ==
    LET decode[i \in 1..(Len(s) + 3)] ==
            IF i > Len(s) THEN << >>
            ELSE IF s[i] = Percent THEN Unescape(SubSeq(s, i, Min({i + 2, Len(s)}))) \o decode[i + 3]
            ELSE <<IF s[i] = Plus THEN 32 ELSE s[i]>> \o decode[i + 1]
    IN  decode[1]

parse_bearer(s) ==
    LET Lowered == [i \in 1..7 |-> IF s[i] \in 65..90 THEN s[i] + 32 ELSE s[i]]
    IN  IF Len(s) >= 7 /\ Lowered = BearerPrefix THEN Trim(SubSeq(s, 8, Len(s)), Space) ELSE << >>

\* The first of several candidates that is there.
FirstFound(candidates) ==
    LET i == SelectInSeq(candidates, LAMBDA v : v # << >>)
    IN  IF i = 0 THEN << >> ELSE candidates[i]

\* Mutation of extract_query_param: the name's first occurrence decides.
extract_query_param_once(query, name) ==
    LET pairs == Split(TrimStart(query, {Question}), Ampersand)
        i == SelectInSeq(pairs, LAMBDA p : url_decode(SplitOnce(p, Equals)[1]) = name)
    IN  IF i = 0 THEN << >> ELSE url_decode(SplitOnce(pairs[i], Equals)[2])

extract_query_param(query, name) ==
    LET pairs == Split(TrimStart(query, {Question}), Ampersand)
        Value(pair) ==
            LET kv == SplitOnce(pair, Equals)
            IN  IF url_decode(kv[1]) = name THEN url_decode(kv[2]) ELSE << >>
    IN  FirstFound([i \in DOMAIN pairs |-> Value(pairs[i])])

parse_cookie(header, name) ==
    LET parts == Split(header, Semicolon)
        Value(part) ==
            LET kv == SplitOnce(Trim(part, Space), Equals)
            IN  IF Trim(kv[1], Space) = name
                THEN url_decode(Trim(Trim(kv[2], Space), {Quote})) ELSE << >>
    IN  FirstFound([i \in DOMAIN parts |-> Value(parts[i])])

\* The sources in their order; the first that has a token.
extract_from_parts(sources, auth_header, cookie_header, query) ==
    LET Look(src) ==
            CASE src.kind = "header" -> parse_bearer(auth_header)
              [] src.kind = "query" -> extract_query_param(query, src.name)
              [] src.kind = "cookie" -> parse_cookie(cookie_header, src.name)
    IN  FirstFound([i \in DOMAIN sources |-> Look(sources[i])])

\* The first header of a name, if it is visible ASCII.
HeaderStr(values) ==
    IF values = << >> \/ ~(ToSet(values[1]) \subseteq 32..126 \cup {9}) THEN << >> ELSE values[1]

\* The same loop over a request's headers.
extract_token(sources, parts, query) ==
    extract_from_parts(sources, HeaderStr(parts.authorization), HeaderStr(parts.cookie), query)

\* Ok(token), or Missing.
require_token(sources, parts, query) ==
    LET token == extract_token(sources, parts, query)
    IN  IF token = << >> THEN [err |-> "Missing"] ELSE [ok |-> token]

----------------------------------------------------------------------------
(* How clients write tokens *)

\* From i up to next, s has the character ch, as it is or escaped.
EncodesChar(s, i, next, ch) ==
    \/ next = i + 1 /\ s[i] = ch /\ ch \notin {Plus, Percent}
    \/ next = i + 1 /\ s[i] = Plus /\ ch = 32
    \/ /\ next = i + 3 /\ s[i] = Percent
       /\ {s[i + 1], s[i + 2]} \subseteq Digit \cup LowerHex \cup UpperHex
       /\ ch = 16 * hex_val(s[i + 1]) + hex_val(s[i + 2])

\* s is an encoding of t whose k-th character is written at at[k].
Encodes(s, t) ==
    \E at \in [1..(Len(t) + 1) -> 1..(Len(s) + 1)] :
        /\ at[1] = 1 /\ at[Len(t) + 1] = Len(s) + 1
        /\ \A k \in 1..Len(t) : EncodesChar(s, at[k], at[k + 1], t[k])

\* s is k and v with a '=' between them, or k alone; k has no '='.
IsPair(s, k, v) ==
    /\ Equals \notin ToSet(k)
    /\ \/ s = k \o <<Equals>> \o v
       \/ s = k /\ v = << >>

\* A parameter of a query: name and value are both encoded.
WritesParam(p) ==
    \E k, v \in Infixes(p.text) :
        IsPair(p.text, k, v) /\ Encodes(k, p.name) /\ Encodes(v, p.value)

\* A cookie: blanks around name and value, the value in quotes or not.
WritesCookie(p) ==
    \E k, v \in Infixes(p.text) :
        /\ IsPair(p.text, k, v)
        /\ Padded(k, p.name, Space)
        /\ \E w \in Infixes(v) : \E q \in Infixes(w) :
                Padded(v, w, Space) /\ Padded(w, q, {Quote}) /\ Encodes(q, p.value)

\* The Authorization headers, if they give the token (none: the empty one).
WritesBearer(values, token) ==
    LET s == HeaderStr(values)
    IN  IF Len(s) >= 7 /\ s[7] = 32 /\ \A i \in 1..6 : s[i] \in {BearerPrefix[i], BearerPrefix[i] - 32}
        THEN Padded(SubSeq(s, 8, Len(s)), token, Space)
        ELSE token = << >>

\* Question marks, and the parameters in their order.
WritesQuery(query, params) ==
    \E n \in 0..Len(query) :
        LET s == SubSeq(query, n + 1, Len(query))
        IN  /\ \A i \in 1..n : query[i] = Question
            /\ s # << >> => s[1] # Question
            /\ \/ s = << >> /\ params = << >>
               \/ Joins(s, [i \in 1..Len(params) |-> params[i].text], Ampersand)
            /\ \A i \in 1..Len(params) : WritesParam(params[i])

WritesCookies(values, cookies) ==
    LET s == HeaderStr(values)
    IN  /\ \/ s = << >> /\ cookies = << >>
           \/ Joins(s, [i \in 1..Len(cookies) |-> cookies[i].text], Semicolon)
        /\ \A i \in 1..Len(cookies) : WritesCookie(cookies[i])

=============================================================================
