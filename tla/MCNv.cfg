CONSTANTS
  Lists = {l1, l2, l3}
  Handles = {h1, h2, h3, h4, h5}
  Nil = Nil
  KeepDefaults = TRUE
SYMMETRY Symmetry
SPECIFICATION NvSpec
INVARIANTS NvTypeOK OneOwner KeptAlive
CHECK_DEADLOCK FALSE
