SPECIFICATION FairSpec
CONSTANTS
  Threads = {t1, t2}
  SlotsPerPage = 1
  MaxFilePages = 2
  MaxPage = 4
  Addresses = {a1}
  Datas <- MCDatas
  Receiver = a1
  NULL = NULL
  CODE = CODE
  NoThread = NoThread
  StoresOrdered = TRUE
INVARIANTS
  ClosureIntact
  SlotConservation
  QueriesAgree
PROPERTIES
  GrowOnlyWhenFull
  LockReleased
  CallReturns
