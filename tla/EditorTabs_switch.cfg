CONSTANTS
  Places = {A, B}
  Documents = {f, n}
  Notebooks = {n}
  Nowhere = Nowhere
  MaxMounts = 2
SPECIFICATION TabsSpec
INVARIANT PathsStayHome
