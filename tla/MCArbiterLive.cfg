SPECIFICATION FairSpec
CONSTANTS
  Device = {1}
  Self = 2
  Name = {n1}
  NoName = NoName
  MaxPosts = 3
INVARIANTS CommandInHand
PROPERTIES DiscoveredSettles CommandLeaves
