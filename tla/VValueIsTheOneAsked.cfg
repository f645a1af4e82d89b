SPECIFICATION Spec
CONSTANTS
    MaxSockets = 1
    MaxRequests = 5
INVARIANT ValueIsTheOneAsked
