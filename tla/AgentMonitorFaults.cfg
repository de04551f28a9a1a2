SPECIFICATION Spec
CONSTANTS
  Proc = {p1, p2, p3, p4}
  Session = {s1, s2}
  None = None
  Budget <- BudgetFaults
SYMMETRY Symmetry
INVARIANTS TypeOK PairedConn WritersMatchAgents WritersInSession NoStrayAgent
PROPERTY DefaultSurvives
