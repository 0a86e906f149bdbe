\* Two calls: two penalties and two appeals, or one content, two rules on one pattern and two reports.
CONSTANTS
  Users = {ann}
  PenaltyIds = {p1, p2}
  AppealIds = {a1, a2}
  ReportIds = {r1, r2}
  RuleIds = {f1, f2}
  ContentIds = {i1}
  Patterns = {x}
  RulePriorities = {"medium", "urgent"}
  Calls = {c1, c2}
  None = None
  MaxFailures = 1
  MaxRuleChanges = 1
SPECIFICATION Spec
SYMMETRY Symmetry
CONSTRAINT OneHalf
INVARIANTS ApprovedMeansRevoked RestrictedWhileInForce StoredIsReported
