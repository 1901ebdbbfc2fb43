\* Rings of four entries and their link wrap in the second request; the event
\* ring is smaller than the events of two ports.  The tables are one entry
\* short for one of the machines.
SPECIFICATION Spec
CONSTANTS
  Wants = {1, 2}
  MaxTransfers = 2
  RING_SIZE = 5
  EVENTS = 3
  MAX_SLOTS = 3
  Sockets <- SocketsDef
  MaxLate = 1
  MaxErrors = 1
  Machines <- MachinesDef
  MAX_DEVICES = 4
  MAX_ADDRESS = 127
  MAX_CONTROLLERS = 2
  MaxFaults = 2
INVARIANTS TransfersAreExact RequestsArrive KnownDevicesAreReal
PROPERTY TransfersReturn
CHECK_DEADLOCK FALSE
