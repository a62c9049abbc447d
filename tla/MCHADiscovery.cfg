CONSTANTS
  Sensors = {"s1"}
  EntitiesOf <- MCEntitiesOf
  Buttons = {"btn_0"}
  Switches = {}
  Loop = loop
  Callbacks = {up}
  Clearers = {http}
  MaxVersion = 2
SPECIFICATION Spec
INVARIANT MarkedIsAnnounced
PROPERTY SensorsAnnounced
