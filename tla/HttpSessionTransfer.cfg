SPECIFICATION Spec
CONSTANTS
    Limit = 2
    MaxRequests = 3
    Requests <- MCRequests
INVARIANT SocketTransferred
