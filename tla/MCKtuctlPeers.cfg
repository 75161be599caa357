SPECIFICATION Spec
CONSTANTS
  Procs = {p1, p2}
  Addrs = {a}
  Ports = {x, y}
  Uids = {u, v}
  Keys = {k, l}
  Ifaces = {eth}
  Absent = Absent
SYMMETRY Symmetry
INVARIANTS
  TypeOK
  EgressBacked
  
PROPERTY
  DeleteIsComplete
