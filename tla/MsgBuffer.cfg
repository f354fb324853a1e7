CONSTANTS
  Producer = {"p1", "p2"}
  Consumer = {"c1", "c2"}
  Msg <- MCMsg
  MSG_SIZE = 3
SPECIFICATION FairSpec
INVARIANTS
  TypeOK
  NoOverwrite
  NoEmptyGet
PROPERTIES
  ImplementsFifo
  HeadIsTaken
