SPECIFICATION FairSpec
CONSTANTS
    KeepAlive <- MCKeepAlive
    SocketTimeout <- MCSocketTimeout
    MaxGap <- MCMaxGap
    Latency <- MCLatency
    Backlog <- MCBacklog
    IdSpace <- MCIdSpace
INVARIANTS
    TypeOK
    PingAccounting
    BrokerNotStarved
    DetectionBound
PROPERTIES
    NoFalseAlarm
    LostSessionNoticed
    MonitorSpec
