\* Every point of two cells at most, and every answer it may be given.
SPECIFICATION PlanSpec
CONSTANT CellSets <- MCCellSets
INVARIANT NothingIsDropped
