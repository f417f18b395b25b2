SPECIFICATION Spec
CONSTANT MaxSteps = 5
INVARIANTS AgreesWithSteps WholeWalk
