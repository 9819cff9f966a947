SPECIFICATION RxSpec
CONSTANTS
    Chunks = 2
    Channels <- MCChannels
    Ssid <- MCSsid
    Pwd <- MCPwd
    Reip <- MCReip
    Noise <- MCNoise
INVARIANTS
    RxTypeOK
    AcceptedAsSent
    CompleteIsAccepted
    DecodedIsTold
PROPERTIES
    ServiceSpec
