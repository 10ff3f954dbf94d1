SPECIFICATION LoopSpec
CONSTANTS
    n1 = n1
    n2 = n2
    Users = {u1}
    None = None
    MaxRound = 3
    MaxFaults = 2
    Windows = {"refundGap", "lateAnswer", "openRound", "drainCollision", "lateCashOut", "lateRunning", "staleSettle", "staleQueue", "reorder"}
PROPERTY GameGoesOn
