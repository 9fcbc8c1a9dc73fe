SPECIFICATION Spec
CONSTANT H = 3
VIEW View
INVARIANTS
  QuotientCorrect
  DivisionLoop
