------------------------------ MODULE Endpoint ------------------------------
(***************************************************************************)
(* The life of one connection, from the server's configuration to its      *)
(* frames: WsConfig is built (src/config.rs), an upgrade request is held   *)
(* against its allow-list, its token is looked for, and the frames of the  *)
(* opened connection travel in compressed envelopes.  The order is that of *)
(* the handler in the repository's README, which integrators write.  A     *)
(* step that is done with a value forgets it, so that the phases do not    *)
(* multiply each other's states.                                           *)
(***************************************************************************)
EXTENDS Origin, TokenExtractor, FrameCompressor

CONSTANTS
    Entries,        \* origins an operator lists: [text, means, plain]
    Origins,        \* Options of origins a request comes with
    Requests,       \* what clients send for authentication: [parts, query], and
                    \* what they mean by it: [bearer, params, cookies]
    SourceLists,    \* the extractor's sources
    Configs,        \* compression settings of either side
    Frames,         \* frames applications send
    Wires,          \* frames from somebody who is no ws-kit peer
    Capabilities,   \* capability headers of clients
    MaxBuilds       \* bound: builder calls

ASSUME BuildsAssumption == MaxBuilds \in Nat

\* What origins and entries are written in, and the punctuation of origins.
Lexemes == Punctuation \cup UNION {ToSet(o.text) : o \in Entries \cup {x[1] : x \in Origins \ {None}}}

\* to_ascii_lowercase changes letters only.
ASSUME LexemesAssumption ==
    /\ Punctuation \cap Invisible = {}
    /\ \A x \in Lexemes :
        /\ \A p \in Punctuation : Lower(x) = p <=> x = p
        /\ x \in Punctuation => ParseU16(x) = NaN
        /\ Lower(x) \in Invisible <=> x \in Invisible
    /\ \A p, q \in PlainPorts : ParseU16(p) = ParseU16(q) => p = q

\* A request has any text as its Origin.  Operators list origins, whose ports
\* they may leave out or write plainly, and visible texts without the scheme.
ASSUME OriginsAssumption ==
    /\ \A e \in Entries :
        /\ e.text \in Seq(STRING) /\ e.plain
        /\ \/ IsOrigin(e)
           \/ IsNoOrigin(e) /\ ToSet(e.text) \cap (Invisible \cup {"://"}) = {}
    /\ \A x \in Origins : x # None =>
            x[1].text \in Seq(STRING) /\ (IsOrigin(x[1]) \/ IsNoOrigin(x[1]))
ASSUME RequestsAssumption ==
    /\ \A r \in Requests :
        /\ r.parts.authorization \in Seq(Seq(Nat)) /\ r.parts.cookie \in Seq(Seq(Nat))
        /\ r.query \in Seq(Nat)
        /\ r.bearer \in Seq(Nat)
        /\ {r.params, r.cookies} \subseteq Seq([name : Seq(Nat), value : Seq(Nat), text : Seq(Nat)])
    /\ \A w \in {<<r.parts.authorization, r.bearer>> : r \in Requests} : WritesBearer(w[1], w[2])
    /\ \A w \in {<<r.query, r.params>> : r \in Requests} : WritesQuery(w[1], w[2])
    /\ \A w \in {<<r.parts.cookie, r.cookies>> : r \in Requests} : WritesCookies(w[1], w[2])
ASSUME SourcesAssumption ==
    \A list \in SourceLists : list \in Seq([kind : {"header", "query", "cookie"}, name : Seq(Nat)])
ASSUME ConfigsAssumption ==
    Configs \subseteq [level : 0..9, min_size : 0..MaxUsize, max_size : 0..MaxUsize]
ASSUME FramesAssumption ==
    \A f \in Frames :
        /\ f \in [kind : {"text", "binary"}, bytes : Seq(Byte)]
        /\ Len(f.bytes) <= MaxUsize
        /\ is_text(f) => Utf8(f.bytes)
ASSUME WiresAssumption ==
    \A w \in Wires :
        /\ w \in [kind : {"text", "binary"}, bytes : Seq(Byte)]
        /\ Len(w.bytes) >= 2 => Inflate(Tail(Tail(w.bytes))) \in [out : Seq(Byte), ok : BOOLEAN]
ASSUME DeflateAssumption ==
    \A c \in Configs, f \in Frames :
        /\ Deflate(c.level, f.bytes) \in Seq(Byte)
        /\ Inflate(Deflate(c.level, f.bytes)) = [out |-> f.bytes, ok |-> TRUE]

VARIABLES
    phase,      \* where the connection stands
    builder,    \* the WsConfigBuilder, then the WsConfig
    builds,     \* builder calls made
    promised,   \* history: the origins the operator means to let in
    origin,     \* the request's Origin header
    verdict,    \* the answer of the check under way
    request,    \* the request's authentication
    sources,    \* TokenExtractor.sources
    link,       \* [sender, receiver, offered, accepted]
    sent,       \* Option of the frame the peer's application sent
    wire,       \* the frame on the wire
    got         \* what decompress_frame, or the transport, handed on

vars == <<phase, builder, builds, promised, origin, verdict, request, sources,
          link, sent, wire, got>>
configVars == <<builder, builds, promised>>
upgradeVars == <<origin, verdict, request, sources>>
frameVars == <<link, sent, wire, got>>

\* WsConfig::default; the durations and sizes are told apart only by whether
\* they were set.
DefaultConfig ==
    [heartbeat_interval |-> "default", broadcast_capacity |-> "default",
     max_connections |-> "default", allowed_origins |-> << >>]

Settings == DOMAIN DefaultConfig \ {"allowed_origins"}

NoRequest == [parts |-> [authorization |-> << >>, cookie |-> << >>], query |-> << >>,
              bearer |-> << >>, params |-> << >>, cookies |-> << >>]

Init ==
    /\ phase = "building"
    /\ builder = DefaultConfig
    /\ builds = 0
    /\ promised = {}
    /\ origin = None
    /\ verdict = None
    /\ request = NoRequest
    /\ sources = DefaultSources
    /\ link = None
    /\ sent = None
    /\ wire = None
    /\ got = None

----------------------------------------------------------------------------
(* config.rs: the builder *)

Building ==
    /\ phase = "building"
    /\ builds < MaxBuilds
    /\ builds' = builds + 1
    /\ UNCHANGED <<phase, upgradeVars, frameVars>>

\* heartbeat_interval, broadcast_capacity, max_connections.
SetOption(option) ==
    /\ Building
    /\ builder' = [builder EXCEPT ![option] = "set"]
    /\ UNCHANGED promised

\* allowed_origins: the list is replaced, by an empty one too.
AllowedOrigins(entries) ==
    /\ Building
    /\ builder' = [builder EXCEPT !.allowed_origins = [i \in DOMAIN entries |-> entries[i].text]]
    /\ promised' = {e.means : e \in ToSet(entries)}

\* Mutation of AllowOrigin: the entry is normalised when it is added.
AllowOriginNormalized(entry) ==
    /\ Building
    /\ builder' = [builder EXCEPT !.allowed_origins = Append(@, normalize_origin(entry.text))]
    /\ promised' = promised \cup {entry.means}

\* allow_origin: one more entry.
AllowOrigin(entry) ==
    /\ Building
    /\ builder' = [builder EXCEPT !.allowed_origins = Append(@, entry.text)]
    /\ promised' = promised \cup {entry.means}

Build ==
    /\ phase = "building"
    /\ phase' = "serving"
    /\ UNCHANGED <<configVars, upgradeVars, frameVars>>

----------------------------------------------------------------------------
(* The upgrade handler: origin, then token *)

CheckOrigin(o) ==
    /\ phase = "serving"
    /\ phase' = "origin_checked"
    /\ origin' = o
    /\ verdict' = Some(origin_allowed_in_parts(IF o = None THEN None ELSE Some(o[1].text),
                                               builder.allowed_origins))
    /\ UNCHANGED <<configVars, request, sources, frameVars>>

\* The origin passed; the allow-list has done its work.
OriginPasses ==
    /\ phase = "origin_checked"
    /\ verdict = Some(TRUE)
    /\ phase' = "origin_passed"
    /\ builder' = DefaultConfig
    /\ builds' = 0
    /\ promised' = {}
    /\ origin' = None
    /\ verdict' = None
    /\ UNCHANGED <<request, sources, frameVars>>

RequireToken(r, list) ==
    /\ phase = "origin_passed"
    /\ phase' = "token_checked"
    /\ request' = r
    /\ sources' = list
    /\ verdict' = Some(require_token(list, r.parts, r.query))
    /\ UNCHANGED <<configVars, origin, frameVars>>

\* The token was found and handed to the application.
TokenPasses ==
    /\ phase = "token_checked"
    /\ IsOk(verdict[1])
    /\ phase' = "authenticated"
    /\ request' = NoRequest
    /\ sources' = DefaultSources
    /\ verdict' = None
    /\ UNCHANGED <<configVars, origin, frameVars>>

\* on_upgrade: the two sides have their settings, and the client may have
\* offered to compress.
OnUpgrade(sender, receiver, header) ==
    /\ phase = "authenticated"
    /\ phase' = "open"
    /\ link' = Some([sender |-> sender, receiver |-> receiver, offered |-> header.offers,
                     accepted |-> extension_accepted(header.text)])
    /\ UNCHANGED <<configVars, upgradeVars, sent, wire, got>>

\* 403 or 401: nothing more happens to this connection.
Refused ==
    /\ \/ phase = "origin_checked" /\ verdict = Some(FALSE)
       \/ phase = "token_checked" /\ ~IsOk(verdict[1])
    /\ UNCHANGED vars

----------------------------------------------------------------------------
(* Frames *)

\* The peer's application sends f, in an envelope if the peer offered to.
Send(f) ==
    /\ phase = "open"
    /\ wire = None
    /\ sent' = Some(f)
    /\ wire' = Some(IF link[1].offered THEN compress_frame(link[1].sender, f) ELSE f)
    /\ UNCHANGED <<phase, configVars, upgradeVars, link, got>>

\* A frame that no compressor made.
SendForeign(w) ==
    /\ phase = "open"
    /\ link[1].accepted
    /\ wire = None
    /\ sent' = None
    /\ wire' = Some(w)
    /\ UNCHANGED <<phase, configVars, upgradeVars, link, got>>

Receive ==
    /\ wire # None
    /\ got = None
    /\ got' = Some(IF link[1].accepted THEN decompress_frame(link[1].receiver, wire[1])
                   ELSE Ok(wire[1]))
    /\ UNCHANGED <<phase, configVars, upgradeVars, link, sent, wire>>

\* The application has seen the frame or the error.
Handled ==
    /\ got # None
    /\ sent' = None
    /\ wire' = None
    /\ got' = None
    /\ UNCHANGED <<phase, configVars, upgradeVars, link>>

----------------------------------------------------------------------------

Next ==
    \/ \E option \in Settings : SetOption(option)
    \/ \E e \in Entries : AllowOrigin(e) \/ AllowedOrigins(<<e>>)
    \/ AllowedOrigins(<< >>)
    \/ Build
    \/ \E o \in Origins : CheckOrigin(o)
    \/ OriginPasses
    \/ \E r \in Requests, list \in SourceLists : RequireToken(r, list)
    \/ TokenPasses
    \/ \E s, r \in Configs, header \in Capabilities : OnUpgrade(s, r, header)
    \/ Refused
    \/ \E f \in Frames : Send(f)
    \/ \E w \in Wires : SendForeign(w)
    \/ Receive
    \/ Handled

Spec == Init /\ [][Next]_vars

----------------------------------------------------------------------------
(* Properties *)

\* The phases hold values of their own; the list holds the operator's entries
\* word for word.
TypeOK ==
    /\ phase \in {"building", "serving", "origin_checked", "origin_passed",
                  "token_checked", "authenticated", "open"}
    /\ DOMAIN builder = DOMAIN DefaultConfig
    /\ \A option \in Settings : builder[option] \in {"default", "set"}
    /\ \A i \in DOMAIN builder.allowed_origins :
            \E e \in Entries : e.text = builder.allowed_origins[i]
    /\ builds \in 0..MaxBuilds
    /\ promised \subseteq {e.means : e \in Entries}
    /\ origin = None \/ origin \in Origins
    /\ request = NoRequest \/ request \in Requests
    /\ sources = DefaultSources \/ sources \in SourceLists
    /\ phase = "open" <=> link # None
    /\ Len(verdict) <= 1 /\ Len(sent) <= 1 /\ Len(wire) <= 1 /\ Len(got) <= 1

\* A request passes only if nothing was listed or it comes from an origin the
\* operator means, by whatever builder calls the list came about, and then it
\* does pass, in whatever case, padding and default port either of them wrote
\* it (other ports without leading zeros, as browsers send them); one without
\* Origin, or with a malformed one, passes no list (origin.rs
\* normalize_origin, origin_allowed; config.rs allow_origin, allowed_origins).
OriginDecision ==
    phase = "origin_checked" =>
        LET meant == promised = {} \/ (origin # None /\ origin[1].means \in promised)
        IN  /\ verdict = Some(TRUE) => meant
            /\ meant /\ (origin # None => origin[1].plain) => verdict = Some(TRUE)

\* What the client gave in a source: of several parameters or cookies of one
\* name, the first that has a value.
Given(source) ==
    LET First(fields) ==
            FirstFound([i \in DOMAIN fields |->
                IF fields[i].name = source.name THEN fields[i].value ELSE << >>])
    IN  CASE source.kind = "header" -> request.bearer
          [] source.kind = "query" -> First(request.params)
          [] source.kind = "cookie" -> First(request.cookies)

\* The token handed on is the one the client gave in the first configured
\* source it gave one in, whatever escapes, quotes, blanks and other
\* parameters are around it; Missing means that it gave none (extractor.rs
\* extract_token, url_decode, parse_bearer, parse_cookie).
TokenDecision ==
    phase = "token_checked" =>
        LET token == FirstFound([i \in DOMAIN sources |-> Given(sources[i])])
        IN  verdict = Some(IF token = << >> THEN Err("Missing") ELSE Ok(token))

\* Whatever settings the two sides have, a frame arrives as it was sent, text
\* as text and binary as nothing but binary, or is refused for its size
\* against the receiver's max_size alone (compression.rs compress_frame,
\* decompress_frame, "returning the original payload bytes").
RoundTrip ==
    sent # None /\ got # None =>
        LET f == sent[1]
        IN  IF link[1].offered /\ Len(f.bytes) > link[1].receiver.max_size
            THEN got = Some(Err("PayloadTooLarge"))
            ELSE /\ got = Some(Ok(f))
                 /\ into_text(got[1].ok) = IF is_text(f) THEN Ok(f.bytes) ELSE Err("InvalidMessage")

\* No frame from outside, however it is put together, gives the application
\* more than max_size bytes or a text that is not UTF-8, and a stream that
\* inflates beyond max_size is refused there, before what follows is decoded
\* (compression.rs decompress, "Enforces the decompression-bomb guard during
\* inflation").
ForeignFramesChecked ==
    phase = "open" /\ sent = None /\ got # None =>
        LET bytes == wire[1].bytes
            max_size == link[1].receiver.max_size
        IN  /\ IsOk(got[1]) =>
                /\ Len(got[1].ok.bytes) <= max_size
                /\ is_text(got[1].ok) => Utf8(got[1].ok.bytes)
            /\ (/\ KnownFlags(bytes) /\ KnownFlags(Tail(bytes))
                /\ HasFlag(bytes[2], FLAG_COMPRESSED)
                /\ max_size < MaxUsize
                /\ Len(Inflate(SubSeq(bytes, 3, Len(bytes))).out) > max_size)
               => got = Some(Err("PayloadTooLarge"))

\* Compression costs two bytes at most, on payloads it cannot shrink
\* (compression.rs compress, "incompressible input would otherwise grow on
\* the wire").
WireOverhead ==
    sent # None => Len(wire[1].bytes) <= Len(sent[1].bytes) + 2

=============================================================================
