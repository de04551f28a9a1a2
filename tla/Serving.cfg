SPECIFICATION FairSpec
CONSTANTS
  Port = {p1, p2}
  Name = {n1, n2}
  Pass = {w1}
  None = None
  Budget <- BudgetAll
INVARIANTS TypeOK Consistent AdvertsOwned
PROPERTIES HandoffWorks 
