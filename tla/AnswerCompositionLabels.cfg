SPECIFICATION Spec
CONSTANTS
    Evidence = {e1, e2}
    TaskCount = 2
    MaxLabels = 3
    MaxText = 2
    MaxModelCalls = 2
INVARIANTS
    LabelsMatchRows
CHECK_DEADLOCK FALSE
