CONSTANT Docs <- MCDocs
SPECIFICATION Spec
INVARIANT EmitsFollowRules
CHECK_DEADLOCK FALSE
