CONSTANTS
  Callers = {mqtt, http}
  HTTPCallers = {http}
  Payloads = {"10;X;ON", "20;Y;OFF;", "hello"}
  Commands = {"10;X;ON;", "20;Y;OFF;"}
  Normal <- MCNormal
  ReadOnly = FALSE
  Bad = Bad
  Whitelist = {"10;X;ON;"}
  Limit = 2
  K = 2
  MaxTime = 3
SPECIFICATION Spec
INVARIANTS WrittenBound ResultsTruthful
PROPERTIES ImplementsBucket CallsReturn
