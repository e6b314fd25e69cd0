CONSTANT Docs <- MCDocs
SPECIFICATION Spec
INVARIANT WellFormedDocsScan
CHECK_DEADLOCK FALSE
