SPECIFICATION RxSpec
CONSTANTS
    Chunks = 2
    Channels <- MCChannels
    Ssid <- MCSsid
    Pwd <- MCPwdFull
    Reip <- MCReip
    Noise <- MCNoise
INVARIANTS
    AcceptedAsSent
