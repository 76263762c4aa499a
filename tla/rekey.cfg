SPECIFICATION FairSpec
CONSTANTS
  Hands = {"peer"}
  Initiators = {"client"}
  MaxRekeys = 3
  MaxData = 2
  Pfs = {TRUE, FALSE}
CHECK_DEADLOCK FALSE
INVARIANTS TypeOK InStep SurvivesRekey
PROPERTY RekeyEnds
