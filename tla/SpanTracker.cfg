SPECIFICATION FairSpec
CONSTANTS
  r1 = r1
  r2 = r2
  Reader <- TwoReaders
  SpanCount = 2
  Threshold = 2
  SkipAfter = 2
  ProbeInterval = 2
  Failing = {2}
INVARIANTS TypeOK LevelsAgree NoSpanForgotten
PROPERTIES FullRecovery SpansRecover
