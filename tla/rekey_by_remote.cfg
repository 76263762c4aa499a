SPECIFICATION Spec
CONSTANTS
  Hands = {"peer"}
  Initiators = {"peer"}
  MaxRekeys = 1
  MaxData = 1
  Pfs = {TRUE, FALSE}
CHECK_DEADLOCK FALSE
INVARIANT SurvivesRekey
