SPECIFICATION Spec
CONSTANTS
  Objs <- EthObjs
  Rules <- EthRules
  Addrs = {a1, a2, a3, a4}
  Handles = {h1}
  MaxVal = 2
  Inputs <- EthInputs
  HostOrder <- ThreeNumbers
  Clears = TRUE
  NULL = NULL
INVARIANTS ReloadUpToDate
