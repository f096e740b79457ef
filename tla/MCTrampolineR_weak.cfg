SPECIFICATION Spec
CONSTANTS
  Threads = {t1, t2}
  SlotsPerPage = 1
  MaxFilePages = 1
  MaxPage = 2
  Addresses = {a1}
  Datas <- MCDatas
  Receiver = a1
  NULL = NULL
  CODE = CODE
  NoThread = NoThread
  StoresOrdered = FALSE
INVARIANT RightFile
