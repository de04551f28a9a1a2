SPECIFICATION FairSpec
CONSTANTS
  Proc = {p1, p2, p3, p4}
  Session = {s1, s2}
  None = None
  Budget <- BudgetOneSlow
PROPERTY FollowsDesktop
