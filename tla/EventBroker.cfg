SPECIFICATION BrokerSpec
CHECK_DEADLOCK FALSE
CONSTANTS
    m = m
    host = host
    service = service
    hostchecks = hostchecks
    opathchecks = opathchecks
    Modules = {m}
    Types = {host, service}
    Priorities = {0, 1}
    Channels <- MCChannels
    TypesOf <- MCTypesOf
    MaxSd = 2
    MaxEntries = 3
    MaxTurns = 5
    MaxConnections = 2
    MaxSubscriptions = 1
INVARIANTS
    UnloadedAreSilent
PROPERTIES
    ChannelsCalledUntilLost
