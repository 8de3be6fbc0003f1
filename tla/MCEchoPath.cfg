\* Two stacks and a standard host, two frames in flight.
SPECIFICATION EchoSpec
CONSTANTS
    B = 16
    Host = {"a", "b"}
    Ids = {1, 35}
    Payloads <- Sample
    Standard = TRUE
    MaxFrames = 2
INVARIANTS OwnRequestsAnswered RepliesAnswerRequests
