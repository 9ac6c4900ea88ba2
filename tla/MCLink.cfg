CONSTANTS
  Kernel = kernel  User = user  Nothing = nothing
  k1 = k1  k2 = k2  u = u
  net = net  proc = proc  ui = ui  qNet = qNet  qDaemon = qDaemon
  Threads = {k1, k2, u}
  Providers = {net, proc, ui}
  Queries = {qNet, qDaemon}
  Permanent = {proc, ui}
  LayerOf <- MCLayerOf
  OwnerOf <- MCOwnerOf
  NodeOf <- MCNodeOf
  Slots = 1  Capacity = 2  MaxRestarts = 1
  Continued = {qNet}  MayLackAfter = {}
  StaysAfter = {"unregistered", "early", "refused", "partial", "memory"}
SPECIFICATION Spec
CHECK_DEADLOCK FALSE
INVARIANTS
  IInv
  LayersAgree
  
PROPERTIES
  BusyWaitEnds
