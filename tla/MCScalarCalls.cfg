SPECIFICATION Spec
CONSTANTS
  Half = 8
  ParameterTypes = {"i32", "f32", "i64"}
  ReturnTypes = {"i32", "u32", "f64"}
  MaxArguments = 6
  Words = {4, 61}
  Top = 48
INVARIANTS
  ArgumentsArrive
  StackIsAligned
  SavedRegistersAreKept
  ParametersArrive
  ResultsArrive
