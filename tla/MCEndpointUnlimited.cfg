SPECIFICATION Spec
CONSTANTS
    Lower <- LowerCase
    ParseU16 <- PortValue
    Invisible <- Latin1
    PlainPorts <- Unpadded
    TokenParam <- Tok
    AccessTokenParam <- AccessTok
    Deflate <- RunDeflate
    Inflate <- RunInflate
    Utf8 <- NoHighByte
    Normalized <- TokenName
    MaxUsize = 7
    Entries = {}
    Origins <- NoOrigin
    Requests <- OneRequest
    SourceLists <- OneSource
    Configs <- AndUnlimited
    Frames <- AllFrames
    Wires = {}
    Capabilities <- AllCapabilities
    MaxBuilds = 0
INVARIANT
    RoundTrip
