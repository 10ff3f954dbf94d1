SPECIFICATION Spec
CONSTANTS
    Nodes = {n1}
    Users = {u1, u2}
    None = None
    MaxRound = 2
    Stake = 1
    Funds = 2
    MaxFaults = 0
    Elected = FALSE
    Queueing = TRUE
    Windows = {"drainCollision"}
INVARIANTS BetConserved
