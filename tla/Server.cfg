SPECIFICATION FairSpec
CONSTANTS
    json = json
    bson = bson
    cbor = cbor
    noRepo = noRepo
    c1 = c1
    c2 = c2
    c3 = c3
    Servers <- MCServers
    Unusable <- MCUnusable
    Endpoint <- MCEndpoint
    ThreadCount = 2
    Connections <- MCConnections
    Descriptors = 2
INVARIANTS
    TypeOK
    AcceptChain
    SocketOwned
    ThreadsServe
PROPERTIES
    Served
    Ends
