CONSTANTS
  Callbacks = {up1, up2}
  MinDelay = 3
  MaxDelay = 10
SPECIFICATION Spec
INVARIANTS BackoffExact PortOwned StatusAccurate 
PROPERTY StopEnds
