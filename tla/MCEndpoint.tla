----------------------------- MODULE MCEndpoint -----------------------------
(* A small instance of the endpoint for TLC. *)
EXTENDS Endpoint

----------------------------------------------------------------------------
(* Origins: every spelling of a few origins, and what is no origin at all *)

LowerCase(x) ==
    CASE x = "HTTPS" -> "https" [] x = "A.com" -> "a.com" [] x = "FE" -> "fe" [] OTHER -> x

PortValue(x) ==
    CASE x = "443" -> 443 [] x = "0443" -> 443 [] x = "80" -> 80 [] x = "8443" -> 8443 [] OTHER -> NaN

Latin1 == {"e-acute"}

Unpadded == {"80", "443", "8443"}

Schemes == {"https", "HTTPS", "http"}
Six == <<"[", "FE", ":", ":", "1", "]">>
Hosts == {<<"a.com">>, <<"A.com">>, <<"evil-a.com">>, Six}
Ports == {<< >>, <<":">>, <<":", "443">>, <<":", "0443">>, <<":", "80">>, <<":", "8443">>}

Spelled(scheme, host, port, pad) ==
    LET low == LowerCase(scheme)
    IN  [text |-> pad \o <<scheme, "://">> \o host \o port \o pad,
         means |-> <<low, [i \in DOMAIN host |-> LowerCase(host[i])],
                     IF Len(port) = 2 THEN PortValue(port[2]) ELSE IF low = "http" THEN 80 ELSE 443>>,
         plain |-> low = "https" \/ port # <<":", "0443">>]

WellFormed == {Spelled(s, h, p, << >>) : s \in Schemes, h \in Hosts, p \in Ports}

MalformedTexts ==
    {<< >>, <<"a.com">>, <<"https", ":", "a.com">>, <<"://", "a.com">>,
     <<"https", "://", "https", "://", "a.com">>,
     <<"https", "://", "a.com", ":", "443", ":", "443">>,
     <<"https", "://", "a.com", "/">>, <<"https", "://", "a.com", ":", "443", "/">>,
     <<"https", "://", "[", "fe", ":", ":", "1">>,
     <<"https", "://", "[", "fe", ":", ":", "1", "]", "evil-a.com">>,
     <<"https", "://", "a.com", "e-acute">>}

Malformed == {[text |-> t, means |-> <<LowerAll(t)>>, plain |-> TRUE] : t \in MalformedTexts}

AllOrigins == {None} \cup {Some(o) : o \in WellFormed \cup Malformed}

\* What operators write, a forgotten scheme included.
Listed ==
    {Spelled("https", <<"A.com">>, <<":", "443">>, <<" ">>), Spelled("http", <<"a.com">>, <<":", "443">>, << >>),
     Spelled("HTTPS", Six, <<":", "443">>, << >>), CHOOSE m \in Malformed : m.text = <<"a.com">>}

----------------------------------------------------------------------------
(* Authentication: what a client gives, and how client libraries write it *)

Tok == <<116>>              \* the parameter t, for token
AccessTok == <<97, 116>>    \* at, for access_token
Session == <<115>>          \* the cookie s

\* "a", "a=", "+%", "%41" and " e-acute".
PlainTokens == {<<97>>, <<97, 61>>, <<43, 37>>, <<37, 52, 49>>}
AnyTokens == PlainTokens \cup {<<32, 233>>}

HexDigit(n, letters) == IF n < 10 THEN 48 + n ELSE letters + n - 10

\* Reserved characters escaped, with upper or lower case digits; blanks as '+'.
Escaped(s, letters) ==
    FlattenSeq([i \in DOMAIN s |->
        IF s[i] = 32 THEN <<Plus>>
        ELSE IF s[i] \in 97..122 \cup {Equals} THEN <<s[i]>>
        ELSE <<Percent, HexDigit(s[i] \div 16, letters), HexDigit(s[i] % 16, letters)>>])

Param(name, token, letters) == Escaped(name, letters) \o <<Equals>> \o Escaped(token, letters)

\* Authorization headers: none, another scheme, the Bearer scheme.
Bearers ==
    {[header |-> << >>, token |-> << >>],
     [header |-> <<<<66, 97, 115, 105, 99, 32, 97, 98>>>>, token |-> << >>],
     [header |-> <<<<66, 101, 97, 114, 101, 114, 32, 32>>>>, token |-> << >>]}
    \cup {[header |-> <<<<66, 69, 97, 114, 101, 114, 32>> \o t \o <<32>>>>, token |-> t] : t \in PlainTokens}

Queries ==
    LET Names == {Tok, AccessTok, <<120>>}
        Pair(n, t, letters) == [name |-> n, value |-> t, text |-> Param(n, t, letters)]
        Nothing == [name |-> << >>, value |-> << >>, text |-> << >>]
    IN  {[query |-> << >>, params |-> << >>]}
        \cup {[query |-> <<Question>> \o p.text, params |-> <<p>>] :
               p \in {Pair(n, t, 65) : n \in Names, t \in AnyTokens \cup {<< >>}}}
        \cup {[query |-> p.text \o <<Ampersand, Ampersand>> \o q.text, params |-> <<p, Nothing, q>>] :
               p \in {Pair(n, t, 97) : n \in Names, t \in {<< >>, <<43, 37>>}},
               q \in {Pair(n, t, 65) : n \in Names, t \in {<< >>, <<43, 37>>}}}

Cookies ==
    LET Other == [name |-> <<120>>, value |-> <<121>>, text |-> <<120, Equals, 121>>]
        Quoted(t) == [name |-> Session, value |-> t,
                      text |-> <<32, 115, Equals, Quote>> \o Escaped(t, 65) \o <<Quote>>]
    IN  {[header |-> << >>, cookies |-> << >>]}
        \cup {[header |-> <<Other.text \o <<Semicolon>> \o c.text>>, cookies |-> <<Other, c>>] :
               c \in {Quoted(t) : t \in AnyTokens \cup {<< >>}}}

AllRequests ==
    {[parts |-> [authorization |-> b.header, cookie |-> c.header], query |-> q.query,
      bearer |-> b.token, params |-> q.params, cookies |-> c.cookies] :
        b \in Bearers, c \in Cookies, q \in Queries}

AllSourceLists ==
    {DefaultSources, BearerOnly, <<Cookie(Session), QueryParam(AccessTok), AuthorizationHeader>>}

----------------------------------------------------------------------------
(* Frames: run lengths for DEFLATE *)

\* <<n, b>> stands for n times b; 0 introduces bytes that are stored.
RunLengths(s) ==
    FlattenSeq(SelectSeq([i \in DOMAIN s |->
        IF i > 1 /\ s[i] = s[i - 1] THEN << >>
        ELSE LET run == {n \in 1..(Len(s) - i + 1) : \A j \in 0..(n - 1) : s[i + j] = s[i]}
             IN  <<Max(run), s[i]>>], LAMBDA r : r # << >>))

RunDeflate(level, s) == IF level = 0 THEN <<0>> \o s ELSE RunLengths(s)

\* Byte 255 in the place of a run's length is an error.
RunInflate(s) ==
    LET rest[i \in 1..(Len(s) + 2)] ==
            IF i > Len(s) THEN [out |-> << >>, ok |-> TRUE]
            ELSE IF s[i] = 0 THEN [out |-> SubSeq(s, i + 1, Len(s)), ok |-> TRUE]
            ELSE IF s[i] = 255 THEN [out |-> << >>, ok |-> FALSE]
            ELSE IF i = Len(s) THEN [out |-> << >>, ok |-> TRUE]
            ELSE [rest[i + 2] EXCEPT !.out = [j \in 1..s[i] |-> s[i + 1]] \o @]
    IN  rest[1]

NoHighByte(s) == \A i \in DOMAIN s : s[i] < 128

Payloads == BoundedSeq({2, 97}, 4) \cup {<<255>>, <<255, 255, 255>>}
AllFrames == {Text(s) : s \in {p \in Payloads : NoHighByte(p)}} \cup {Binary(s) : s \in Payloads}

\* Levels, thresholds and caps mixed; the payloads are 4 bytes long at most.
AllConfigs ==
    {[level |-> c[1], min_size |-> c[2], max_size |-> c[3]] :
        c \in {<<6, 0, 2>>, <<6, 0, 3>>, <<6, 4, 6>>, <<0, 0, 4>>, <<0, 4, 0>>}}

\* A receiver that sets no limit.
AndUnlimited == AllConfigs \cup {[level |-> 6, min_size |-> 0, max_size |-> MaxUsize]}

\* Flag bytes, runs and errors in any order.
ForeignBytes == {0, 1, 2, 4, 255}
AllWires ==
    {Binary(w) : w \in BoundedSeq(ForeignBytes, 4)}
    \cup {Text(w) : w \in {v \in BoundedSeq(ForeignBytes, 3) : NoHighByte(v)}}
    \cup {Binary(<<k, 1, 4, 97, 255>>) : k \in {0, 2}}

TokenName(x) ==
    CASE x = " X-WS-Kit-Deflate " -> EXTENSION_NAME [] x = " permessage-deflate" -> "permessage-deflate" [] OTHER -> x

AllCapabilities ==
    {[text |-> None, offers |-> FALSE],
     [text |-> Some(<<"x-ws-kit-deflate2", " permessage-deflate">>), offers |-> FALSE],
     [text |-> Some(<<" permessage-deflate", " X-WS-Kit-Deflate ">>), offers |-> TRUE]}

----------------------------------------------------------------------------
(* One client that is let in, for the runs about frames alone *)

NoOrigin == {None}
OneRequest == {CHOOSE r \in AllRequests : r.query = <<Question>> \o Param(Tok, <<97>>, 65)}
OneSource == {DefaultSources}

=============================================================================
