SPECIFICATION Spec
CONSTANTS
  Device = {1, 2}
  Self = 1
  Name = {n1}
  NoName = NoName
  MaxPosts = 2
PROPERTIES StartedCommandIsTakenUp
