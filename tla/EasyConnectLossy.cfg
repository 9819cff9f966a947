SPECIFICATION FairSystemSpec
CONSTANTS
    Chunks = 3
    HdrPairs = 1
    LastChannel = 2
    Channels <- MCChannels
    Ssid <- MCSsid
    Pwd <- MCPwd
    Reip <- MCReip
    Noise <- MCNoise
    Garbage <- MCGarbage
    APs <- MCHomeAP
    AlwaysSeen <- MCHomeAP
    MaxRestarts = 0
    Audible <- OneChannel
    MaxLosses = 2
    Timed = TRUE
PROPERTIES
    GetsThrough
