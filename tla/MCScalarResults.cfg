SPECIFICATION Spec
CONSTANTS
  Half = 8
  ParameterTypes = {"i32"}
  ReturnTypes = {"i32", "u32", "f64"}
  MaxArguments = 1
  Words = {4, 61}
  Top = 48
INVARIANTS
  ResultsAreNumbers
