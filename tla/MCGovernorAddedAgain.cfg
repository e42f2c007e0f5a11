SPECIFICATION Spec
CONSTANTS
    Governors = {g1, g2}
    AddedWhileScheduled = TRUE
INVARIANT ChildrenDriven
