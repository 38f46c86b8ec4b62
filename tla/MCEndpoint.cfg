SPECIFICATION Spec
CONSTANTS
    Lower <- LowerCase
    ParseU16 <- PortValue
    Invisible <- Latin1
    PlainPorts <- Unpadded
    TokenParam <- Tok
    AccessTokenParam <- AccessTok
    Deflate <- RunDeflate
    Inflate <- RunInflate
    Utf8 <- NoHighByte
    Normalized <- TokenName
    MaxUsize = 7
    Entries <- Listed
    Origins <- AllOrigins
    Requests <- AllRequests
    SourceLists <- AllSourceLists
    Configs <- AllConfigs
    Frames <- AllFrames
    Wires <- AllWires
    Capabilities <- AllCapabilities
    MaxBuilds = 3
INVARIANTS
    TypeOK
    OriginDecision
    TokenDecision
    RoundTrip
    ForeignFramesChecked
    WireOverhead
