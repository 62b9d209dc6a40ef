SPECIFICATION EndlessSpec
CONSTANTS
    Limit = 2
    MaxRequests = 5
    Requests <- MCAllRequests
PROPERTIES
    Ends
    Answered
