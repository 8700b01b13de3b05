CONSTANTS
  Threads = {1, 2, 3}
  Starter = 0
  NoKey = None
  NoDictionary = NoDictionary
  Invocations <- InvocationsDef
  Types <- TypesDef
  Parties <- PartiesDef
  NWorkers = 2
  None = None
  Order = Order
  Admin = Admin
  Us = Us
  Them = Them
SPECIFICATION PromisedSpec
INVARIANTS
  TypeOK
  OneDictionary
  HonestEnd
  DefaultsComeFirst
PROPERTIES
  ImplementsFileOutput
  Finishes
CHECK_DEADLOCK FALSE
