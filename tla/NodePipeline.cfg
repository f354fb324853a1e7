SPECIFICATION FairSpec
CONSTANTS
  Receiver <- MCReceiver
  Face = {0}
  Capacity = 2
  MaxOut = 2
  MaxIn = 4
INVARIANTS
  SenderLives
  PausedStops
PROPERTIES
  AllHandled
  CheckerGoesOn
