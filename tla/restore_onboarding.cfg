SPECIFICATION Spec
CONSTANT MaxTrees = 3
INVARIANT DisarmedStaysDown
