\* Every program up to a depth limit of five.
CONSTANT MaxDepth = 5
SPECIFICATION Spec
INVARIANTS IInv DepthIsNesting FramesAreScopes
PROPERTY ImplementsPlainEvaluation
