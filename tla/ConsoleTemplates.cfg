SPECIFICATION Spec
CONSTANTS
  Templates <- SomeTemplates
  Inputs <- SomeInputs
INVARIANTS
  CompiledRenders
  DepthsBound
  StackBalanced
