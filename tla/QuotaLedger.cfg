SPECIFICATION Spec
CONSTANTS
  Organization = org
  Users = {u1}
  Keys = {k1}
  NoKey = nokey
  SessionIds = {s1, s2}
  Callers = {c1, c2}
  Amounts = {1, 2, 3, 4}
  Credits = {4, 8}
  Grain = 4
  NoAccount = noaccount
  NoSession = nosession
  CreditBound = 8
SYMMETRY Symmetry
INVARIANTS Conservation NoOverdraft AnswersAgree UsedIsOutstanding
CHECK_DEADLOCK FALSE
