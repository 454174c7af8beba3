SPECIFICATION FairSpec
CONSTANTS
  Nodes = {n1, n2, n3}
  Blocks = {b1, b2, b3}
INVARIANTS PausedWhileOpen HeldOrLeftover OneStragglerPerWindow
PROPERTIES HeldBlockQuietsAll
