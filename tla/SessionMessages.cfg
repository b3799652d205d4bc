CONSTANTS
  t1 = t1
  t2 = t2
  t3 = t3
  Reader = Reader
  Transport = "polling"
  Threads = {t1, t2, t3}
  Args <- EventArgs
  MaxUp = 2
  ServerAnswers <- Answers
SPECIFICATION Spec
INVARIANTS
  TypeOK
  AckMatches
  DownIntact
  EachArrives
CHECK_DEADLOCK FALSE
