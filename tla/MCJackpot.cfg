CONSTANTS
  Users = {u1, u2}
  Funds = 3
  Entry = 2
  MinPlayers = 2
  Attempts = 2
  MaxRound = 2
  MaxFaults = 2
  WindowSets = {{}, {"lateEntry", "lostNotice"}}
SPECIFICATION FairSpec
INVARIANTS PotConserved 
PROPERTY EntrySettles
