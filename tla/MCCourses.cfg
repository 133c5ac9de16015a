\* Every call ends, and then nothing is left to do.
CHECK_DEADLOCK FALSE
SPECIFICATION FairSpec
CONSTANTS
  c1 = c1
  c2 = c2
  t1 = t1
  t2 = t2
  t3 = t3
  s1 = s1
  s2 = s2
  s3 = s3
  l1 = l1
  l2 = l2
  CourseIds = {c1, c2}
  Topics = {t1, t2, t3}
  Subtopics = {s1, s2, s3}
  Links = {l1, l2}
  Parent <- MCParent
  Faults = {"plan", "insert", "remote", "link"}
INVARIANTS TypeOK NoOrphans AnsweredWhole
PROPERTIES Answered OnlyRemoteStalls LinksLand
