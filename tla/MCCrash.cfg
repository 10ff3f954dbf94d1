SPECIFICATION CrashSpec
CONSTANTS
    n1 = n1
    n2 = n2
    Users = {u1}
    None = None
    MaxRound = 2
    MaxFaults = 2
    Windows = {}
SYMMETRY TwoReplicasAlike
INVARIANTS  RidersHaveRows ScheduledStakesOnce
