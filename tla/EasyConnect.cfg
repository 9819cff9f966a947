SPECIFICATION SystemSpec
CONSTANTS
    Chunks = 3
    HdrPairs = 1
    LastChannel = 2
    Channels <- MCChannels
    Ssid <- MCSsid
    Pwd <- MCPwd
    Reip <- MCReip
    Noise <- MCNoise
    Garbage <- MCGarbage
    APs <- MCAPs
    AlwaysSeen <- MCNone
    MaxRestarts = 1
    Audible <- OneChannel
    MaxLosses = 0
    Timed = FALSE
INVARIANTS
    SystemTypeOK
    DialsSender
    TriedIsSent
    StationUnlessStringsFirst
PROPERTIES
    StaysJoined
