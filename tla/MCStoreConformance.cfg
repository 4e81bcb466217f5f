CONSTANTS
  Ports <- MCPorts
  MaxDefects = 13
SPECIFICATION Spec
CHECK_DEADLOCK FALSE
INVARIANTS ConformingStoresPass FaultsAreReported
