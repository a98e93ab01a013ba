SPECIFICATION Spec
CONSTANTS
  t1 = t1  t2 = t2
  s1 = s1  s2 = s2  s3 = s3
  m1 = m1  m2 = m2
  b1 = b1  b2 = b2  b3 = b3
  NoThread = NoThread  NoCandidate = NoCandidate
  Commands <- MCCommands
  Threads = {t1, t2}
  Buckets = {b1, b2, b3}
  Signals = {s1, s2, s3}
  Text <- MCText
  Heard <- MCHeard
  Found <- MCFound
  Whole <- MCWhole
INVARIANTS DecodedIsReported Bracketed SubtractOnce
PROPERTIES FollowsLog DecodeEnds
