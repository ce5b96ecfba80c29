SPECIFICATION Spec
CONSTANTS
  m1 = m1
  m2 = m2
  r1 = r1
  e1 = e1
  e2 = e2
  k1 = k1
  k2 = k2
  Anon = Anon
  Members = {m1, m2}
  Raws = {r1}
  Events = {e1, e2}
  Keys = {k1, k2}
  AuthorOf <- MCAuthorOf
  MaxSubs = 1
  MaxBuckets = 2
  MaxFrames = 2
  Crowds <- MCCrowds
INVARIANTS
  AnsweredOnce
  StrangersApart
  BooksAgree
CHECK_DEADLOCK FALSE
