SPECIFICATION Spec
CONSTANT MaxTime = 3
PROPERTY TransitionMovesTheTime
