\* Every request ends or waits for a silent remote, and the clock stops.
CHECK_DEADLOCK FALSE
SPECIFICATION FairSpec
CONSTANTS
  Posts = {p1, p2}
  Orders = {o1}
  ChatIds = {c1, c2}
  NoChat = NoChat
  NoRow = NoRow
  NoPlan = NoPlan
  Seeded = {c1}
  MaxSecond = 1
  Faults = {"db", "remote", "crash"}
INVARIANTS TypeOK FrontToBack HistoryComplete CausalOrder NewestPlanKept CoursesFromShownPlans
PROPERTIES QuestionLands Answered
