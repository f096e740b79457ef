SPECIFICATION Spec
CONSTANTS
  Threads = {t1, t2}
  SlotsPerPage = 2
  MaxFilePages = 1
  MaxPage = 2
  Addresses = {a1, a2}
  Datas <- MCDatas
  Receiver = a1
  NULL = NULL
  CODE = CODE
  NoThread = NoThread
  StoresOrdered = TRUE
SYMMETRY Symmetry
INVARIANTS
  TypeOK
  ClosureIntact
  SlotConservation
  RightFile
  CallbacksAgree
PROPERTIES
  ImplementsAPI
