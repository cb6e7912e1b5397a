SPECIFICATION Spec
CONSTANTS
  Sources = {1, 2, 3}
  Names = {1, 2, 3}
  Texts = {"a", "b", "c"}
  Statements = {"p", "q"}
  Scopes = {"project", "session"}
  Callers = {"owner", "other"}
  ScopeOf <- Scope
  SeesScope <- Sees
  Extractions <- Answers
  MAX_GRAPH_EVIDENCE = 2
  MaxDepth = 2
  MaxFanout = 1
  MaxVersion = 2
  MaxSteps = 6
INVARIANTS TypeOK NoTraceOfErased  ReadsAgree
 
CHECK_DEADLOCK FALSE
