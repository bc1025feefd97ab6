SPECIFICATION Spec
CONSTANTS
  Device = {1, 2}
  Self = 1
  Name = {}
  NoName = NoName
  MaxPosts = 2
INVARIANTS TypeOK ServicePhasesOwned StateInHand PromptNextStep CommandNotSleptOver
PROPERTIES OnwardsUntilCommand OnlyRacedCommandsLost ImplementsLifecycle ImplementsOrder
