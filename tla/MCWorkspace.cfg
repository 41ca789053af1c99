SPECIFICATION FairSpec
CONSTANTS
  Texts = {t}
  t = t
  NoText = NoText
  NoEditor = NoEditor
  NoJob = NoJob
  MaxPage = 2
  MaxVersion = 3
  MaxLoads = 2
INVARIANTS
  TypeOK
  RowsAreOfQuery
  SuccessIsShown
  NoLostEdit
PROPERTY
  WaitsEnd
CHECK_DEADLOCK FALSE
