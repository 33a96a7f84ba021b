SPECIFICATION Spec
CONSTANTS
  Objs <- MixedObjs
  Rules <- MixedRules
  Addrs = {a1, a2, a3, a4}
  Handles = {h1}
  MaxVal = 2
  Inputs <- MixedInputs
  HostOrder <- ThreeNumbers
  Clears = TRUE
  NULL = NULL
SYMMETRY AddrSymmetry
INVARIANTS NoUseAfterFree BlocksOwned NothingForgotten PlainExact
