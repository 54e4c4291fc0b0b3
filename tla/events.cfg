SPECIFICATION FairSpec
CONSTANTS
  Global = Global
  Processes = {p1}
  Sessions = {s1}
  Sockets = {w1}
  MaxEvents = 3
  MaxDrops = 1
INVARIANTS
  InOrder
  NoHoles
  EndIsKnown
PROPERTIES
  EventsArrive
  CallbacksGo
