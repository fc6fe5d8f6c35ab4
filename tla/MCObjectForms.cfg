SPECIFICATION FormSpec
CONSTANTS
  Services = {service}
  Nodes = {node}
  Pods = {}
  Forms = {f1, f2, f3}
  NoVersion = NoVersion
  MaxRevision = 3
INVARIANTS NoLostEdit LostToStaleForm
SYMMETRY AnyForm
CHECK_DEADLOCK FALSE
