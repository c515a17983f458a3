SPECIFICATION Spec
CHECK_DEADLOCK FALSE
CONSTANTS
  ann = ann
  bob = bob
  a1 = a1
  a2 = a2
  a3 = a3
  a4 = a4
  a5 = a5
  IDs = {ann, bob}
  Fds = {4, 5}
  Addresses = {a1, a2, a3, a4, a5}
  Wild = Wild
INVARIANTS
  TypeOK
  PointersAreLive
PROPERTY RegistrySpec
