SPECIFICATION FairSpec
CONSTANTS
  c1 = c1
  c2 = c2
  c3 = c3
  Container = {c1, c2, c3}
  Server = {c1, c2, c3}
  Files <- MCFiles
  DjangoSteps = 2
  Configured = {c1, c2}
  MaxFaults = 1
  NoTable = NoTable
  Made = Made
  Visitor = {"ada", "bea"}
  Email = {"e"}
  Nobody = Nobody
INVARIANTS
  TypeOK
  AccountsTrue
  MigratedOnceInOrder
PROPERTY
  ContainersServe
