CONSTANT Docs <- MCDocs
SPECIFICATION Spec
INVARIANTS
  ExtractFollowsRules
  NestedARNsFound
CHECK_DEADLOCK FALSE
