SPECIFICATION Spec
CONSTANTS
  Texts = {t}
  t = t
  NoText = NoText
  NoEditor = NoEditor
  NoJob = NoJob
  MaxPage = 2
  MaxVersion = 3
  MaxLoads = 2
INVARIANT
  FailureMeansUnchanged
CHECK_DEADLOCK FALSE
