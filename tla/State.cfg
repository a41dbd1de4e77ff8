SPECIFICATION StateSpec
CONSTANTS
    Phases = {"bnk", "testing"}
    Order <- MCOrder
    Trial = "bnk"
    Source = "embedded"
    MaxApplies = 2
INVARIANTS
  OwnState
  WholeTree
PROPERTIES
  NothingForgotten
