--------------------------- MODULE Courses_proof ---------------------------
(***************************************************************************)
(* Proofs about Courses, for any plans, any number of calls and any        *)
(* failures among them.                                                    *)
(***************************************************************************)
EXTENDS Courses, FiniteSetTheorems, TLAPS

USE DEF Calls, Rows, Running, Ended, Children, LinksOf, Inserting

(* A call has started only below a call that has made its calls, whose row *)
(* is stored.                                                              *)
StartedBelow ==
  \A n \in Topics \cup Subtopics : stage[n] # "idle" =>
    Parent[n] \in rows /\ stage[Parent[n]] \in {"wait"} \cup Ended

(* A call is past its insert only with its row stored.                     *)
StoredFirst == \A n \in Calls : stage[n] \in {"ask", "wait", "done"} => n \in rows

(* A call is done only after the calls it made.                            *)
DoneBelow ==
  \A n \in Topics \cup Subtopics : stage[Parent[n]] = "done" => stage[n] = "done"

(* Only links of stored subtopics that have ended are handed over, and     *)
(* every given link of those done.                                         *)
HandedOver ==
  /\ \A l \in Links \cap (rows \cup pending \cup lost) :
       Parent[l] \in rows /\ stage[Parent[l]] \in {"done", "failed"}
  /\ \A l \in given : stage[Parent[l]] = "done" => l \in rows \cup pending \cup lost

RowsHaveParents == \A n \in rows \ CourseIds : Parent[n] \in rows

(* The inductive invariant.                                                *)
IInv ==
  /\ TypeOK
  /\ StartedBelow
  /\ StoredFirst
  /\ DoneBelow
  /\ HandedOver
  /\ RowsHaveParents

(* What the plans are: the levels are disjoint and every row but a         *)
(* course's has a parent on the level above.                               *)
LEMMA Levels ==
  /\ \A t \in Topics : Parent[t] \in CourseIds
  /\ \A s \in Subtopics : Parent[s] \in Topics
  /\ \A l \in Links : Parent[l] \in Subtopics
  /\ CourseIds \cap (Topics \cup Subtopics \cup Links) = {}
  /\ Topics \cap (Subtopics \cup Links) = {}
  /\ Subtopics \cap Links = {}
  BY ParentAssumption, LevelsAssumption

LEMMA InitIInv == Init => IInv
  BY Levels DEF Init, IInv, TypeOK, StartedBelow, StoredFirst, DoneBelow,
     HandedOver, RowsHaveParents

(* A step in which one call below which nothing is running gives up, or    *)
(* goes on with its row stored, keeps the invariant.                       *)
LEMMA GotoStep ==
  ASSUME IInv, NEW n \in Calls, NEW s \in {"ask", "wait", "done", "failed"}, Goto(n, s),
         stage[n] \in Running,
         s \in {"ask", "wait", "done"} => n \in rows',
         s = "ask" => stage[n] = "insert" /\ n \in Topics,
         s = "wait" => n \notin Subtopics,
         s = "done" => \A m \in Children(n) : stage[m] = "done",
         s = "done" => \A l \in given : Parent[l] = n => l \in rows' \cup pending' \cup lost',
         n \in rows' => n \in CourseIds \/ Parent[n] \in rows,
         rows' \in {rows, rows \cup {n}},
         pending' \in {pending, pending \cup (given \cap LinksOf({n}))},
         pending' # pending => n \in Subtopics /\ n \in rows' /\ s \in {"done", "failed"},
         UNCHANGED <<given, spoiled, lost>>
  PROVE  IInv'
  <1>1. /\ \A m \in Calls : stage'[m] = IF m = n THEN s ELSE stage[m]
        /\ stage' \in [Calls -> {"idle"} \cup Running \cup Ended]
    BY DEF Goto, IInv, TypeOK
  <1>2. TypeOK'
    BY <1>1, Levels DEF IInv, TypeOK, HandedOver
  <1>3. StartedBelow'
    BY <1>1, Levels DEF IInv, StartedBelow
  <1>4. StoredFirst'
    BY <1>1 DEF IInv, StoredFirst
  <1>5. DoneBelow'
    BY <1>1, Levels DEF IInv, DoneBelow, StartedBelow
  <1>6. HandedOver'
    BY <1>1, Levels DEF IInv, HandedOver, TypeOK
  <1>7. RowsHaveParents'
    BY <1>1, Levels DEF IInv, RowsHaveParents
  <1> QED
    BY <1>2, <1>3, <1>4, <1>5, <1>6, <1>7 DEF IInv

(* A step in which the call of n makes its calls keeps the invariant:      *)
(* links come only for calls that had not started.                         *)
LEMMA SpawnStep ==
  ASSUME IInv, NEW n \in CourseIds \cup Topics, Spawn(n, "wait"),
         stage[n] \in {"insert", "ask"}, n \in rows', rows' = rows \cup {n},
         n \in Topics => n \in rows,
         spoiled' \subseteq Subtopics, given \subseteq given',
         given' \subseteq given \cup LinksOf(Children(n)),
         n \in CourseIds => given' = given,
         UNCHANGED <<pending, lost>>
  PROVE  IInv'
  <1>1. /\ \A m \in Calls : stage'[m] = IF m = n THEN "wait"
                                       ELSE IF m \in Children(n) THEN "insert"
                                       ELSE stage[m]
        /\ stage' \in [Calls -> {"idle"} \cup Running \cup Ended]
    BY DEF Spawn, IInv, TypeOK
  <1>2. \A m \in Children(n) : stage[m] = "idle"
    BY Levels DEF IInv, StartedBelow
  <1>3. TypeOK'
    BY <1>1, Levels DEF IInv, TypeOK
  <1>4. StartedBelow'
    BY <1>1, Levels DEF IInv, StartedBelow
  <1>5. StoredFirst'
    BY <1>1 DEF IInv, StoredFirst
  <1>6. DoneBelow'
    BY <1>1, <1>2, Levels DEF IInv, DoneBelow
  <1>7. HandedOver'
    BY <1>1, <1>2, Levels DEF IInv, HandedOver, TypeOK
  <1>8. RowsHaveParents'
    BY <1>1, Levels DEF IInv, RowsHaveParents, StartedBelow
  <1> QED
    BY <1>3, <1>4, <1>5, <1>6, <1>7, <1>8 DEF IInv

(* IInv is inductive: one step per action.                                 *)
LEMMA NextIInv == IInv /\ [Next]_vars => IInv'
  <1> SUFFICES ASSUME IInv, [Next]_vars PROVE IInv'
    OBVIOUS
  <1>1. ASSUME NEW c \in CourseIds, CreateCourse(c) PROVE IInv'
    <2>1. /\ \A m \in Calls : stage'[m] = IF m = c THEN "insert" ELSE stage[m]
          /\ stage' \in [Calls -> {"idle"} \cup Running \cup Ended]
          /\ stage[c] = "idle" /\ UNCHANGED <<rows, given, spoiled, pending, lost>>
      BY <1>1 DEF CreateCourse, Goto, IInv, TypeOK
    <2> QED
      BY <2>1, Levels DEF IInv, TypeOK, StartedBelow, StoredFirst, DoneBelow,
         HandedOver, RowsHaveParents
  <1>2. ASSUME NEW c \in CourseIds, CourseInserted(c) PROVE IInv'
    <2>1. CASE Spawn(c, "wait")
      BY <1>2, <2>1, SpawnStep, Levels DEF CourseInserted, IInv, TypeOK
    <2>2. CASE Goto(c, "failed")
      BY <1>2, <2>2, GotoStep DEF CourseInserted
    <2> QED
      BY <1>2, <2>1, <2>2 DEF CourseInserted
  <1>3. ASSUME NEW t \in Topics, TopicInserted(t) PROVE IInv'
    <2>1. Parent[t] \in rows
      BY <1>3 DEF TopicInserted, IInv, StartedBelow
    <2> QED
      BY <1>3, <2>1, GotoStep DEF TopicInserted
  <1>4. ASSUME NEW t \in Topics, LinksGenerated(t) PROVE IInv'
    <2>1. t \in rows /\ t \notin CourseIds
      BY <1>4, Levels DEF LinksGenerated, IInv, StoredFirst
    <2>2. spoiled' \subseteq Subtopics
      BY <1>4, Levels DEF LinksGenerated, IInv, TypeOK
    <2>3. given \subseteq given' /\ given' \subseteq given \cup LinksOf(Children(t))
      BY <1>4 DEF LinksGenerated
    <2> QED
      BY <1>4, <2>1, <2>2, <2>3, SpawnStep DEF LinksGenerated
  <1>5. ASSUME NEW s \in Subtopics, SubtopicInserted(s) PROVE IInv'
    <2>1. Parent[s] \in rows /\ Children(s) = {}
      BY <1>5, Levels DEF SubtopicInserted, IInv, StartedBelow
    <2>2. CASE s \in spoiled
      BY <1>5, <2>1, <2>2, GotoStep DEF SubtopicInserted, IInv, TypeOK
    <2>3. CASE s \notin spoiled
      BY <1>5, <2>1, <2>3, GotoStep DEF SubtopicInserted, IInv, TypeOK
    <2> QED
      BY <2>2, <2>3
  <1>6. ASSUME NEW n \in Calls, Throw(n) PROVE IInv'
    BY <1>6, GotoStep DEF Throw, IInv, RowsHaveParents
  <1>7. ASSUME NEW n \in CourseIds \cup Topics, Settle(n) PROVE IInv'
    <2>1. n \in rows /\ (n \in CourseIds \/ Parent[n] \in rows)
      BY <1>7 DEF Settle, IInv, StoredFirst, RowsHaveParents
    <2>2. \A l \in given : Parent[l] # n
      BY Levels DEF IInv, TypeOK
    <2> QED
      BY <1>7, <2>1, <2>2, GotoStep DEF Settle
  <1>8. ASSUME NEW l \in Links, LinkInserted(l) PROVE IInv'
    BY <1>8, Levels DEF LinkInserted, IInv, TypeOK, StartedBelow, StoredFirst,
       DoneBelow, HandedOver, RowsHaveParents
  <1>9. ASSUME NEW l \in Links, LinkFails(l) PROVE IInv'
    <2> PICK left \in SUBSET ((pending \ {l}) \cup Inserting) :
          rows' = rows \cup left /\ lost' = lost \cup (pending \ left)
      BY <1>9 DEF LinkFails
    <2>1. /\ \A n \in Calls :
               stage'[n] = IF stage[n] \in Running THEN "killed" ELSE stage[n]
          /\ stage' \in [Calls -> {"idle"} \cup Running \cup Ended]
          /\ pending' = {} /\ UNCHANGED <<given, spoiled>>
      BY <1>9 DEF LinkFails, IInv, TypeOK
    <2>2. TypeOK'
      BY <2>1, Levels DEF IInv, TypeOK
    <2>3. StartedBelow' /\ StoredFirst'
      BY <2>1, Levels DEF IInv, StartedBelow, StoredFirst
    <2>4. DoneBelow'
      BY <2>1, Levels DEF IInv, DoneBelow
    <2>5. HandedOver'
      BY <2>1, Levels DEF IInv, HandedOver, TypeOK
    <2>6. RowsHaveParents'
      BY <2>1, Levels DEF IInv, RowsHaveParents, HandedOver, StartedBelow,
         StoredFirst, TypeOK
    <2> QED
      BY <2>2, <2>3, <2>4, <2>5, <2>6 DEF IInv
  <1>10. CASE UNCHANGED vars
    BY <1>10 DEF vars, IInv, TypeOK, StartedBelow, StoredFirst, DoneBelow,
       HandedOver, RowsHaveParents
  <1> QED
    BY <1>1, <1>2, <1>3, <1>4, <1>5, <1>6, <1>7, <1>8, <1>9, <1>10 DEF Next, Proceed, Respond

(* The inductive invariant holds in every reachable state.                 *)
THEOREM Invariance == Spec => []IInv
  BY InitIInv, NextIInv, PTL DEF Spec

(* Type correctness of createCourse.                                       *)
THEOREM TypeCorrect == Spec => []TypeOK
  <1>1. IInv => TypeOK
    BY DEF IInv
  <1> QED
    BY <1>1, Invariance, PTL

(* No row is stored, and no insert under way, without its parent's row,    *)
(* for any plan and any failures.                                          *)
THEOREM Orphanless == Spec => []NoOrphans
  <1>1. IInv => NoOrphans
    BY Levels DEF IInv, NoOrphans, RowsHaveParents, StartedBelow, HandedOver,
       StoredFirst, TypeOK
  <1> QED
    BY <1>1, Invariance, PTL

(* A course that is answered has every topic, subtopic and link of its     *)
(* plan stored or handed over, however its calls overlapped.               *)
THEOREM Whole == Spec => []AnsweredWhole
  <1>1. IInv => AnsweredWhole
    BY Levels DEF IInv, AnsweredWhole, Under, DoneBelow, StoredFirst, HandedOver,
       TypeOK
  <1> QED
    BY <1>1, Invariance, PTL

-----------------------------------------------------------------------------
(***************************************************************************)
(* Why createCourse ends: nothing waits for what cannot come, and every    *)
(* step leaves less to do.                                                 *)
(***************************************************************************)
(* Call n can go on: its insert or the remote's response may come, or the  *)
(* calls it waits for have given Promise.all its answer.  These are the    *)
(* guards of the steps of Proceed and Respond.                             *)
Ready(n) ==
  \/ stage[n] = "insert"
  \/ n \in Topics /\ stage[n] = "ask"
  \/ /\ n \in CourseIds \cup Topics
     /\ stage[n] = "wait"
     /\ \/ \A m \in Children(n) : stage[m] = "done"
        \/ \E m \in Children(n) : stage[m] = "failed"

(* Below a course that has no answer yet, or the course itself, some call  *)
(* can go on: Promise.all never waits for calls that were not made, or     *)
(* that are gone.                                                          *)
Unblocked ==
  \A c \in CourseIds : stage[c] \in Running =>
    \E n \in {c} \cup Under(c) : Ready(n)

(* The inductive strengthening: only topics ask and only subtopics never   *)
(* wait; whatever a call waits for was made and is not gone.               *)
StagesFit ==
  /\ \A n \in Calls : stage[n] = "ask" => n \in Topics
  /\ \A n \in Subtopics : stage[n] # "wait"

AwaitedExist ==
  \A n \in Topics \cup Subtopics :
    stage[Parent[n]] = "wait" => stage[n] \notin {"idle", "killed"}

WaitInv == IInv /\ StagesFit /\ AwaitedExist

(* A call that ends or goes on without making calls leaves the others'     *)
(* waiting sound.                                                          *)
LEMMA GotoWaits ==
  ASSUME WaitInv, NEW n \in Calls,
         NEW s \in {"insert", "ask", "done", "failed"}, Goto(n, s),
         s = "ask" => n \in Topics
  PROVE  (StagesFit /\ AwaitedExist)'
  <1>1. \A m \in Calls : stage'[m] = IF m = n THEN s ELSE stage[m]
    BY DEF Goto, WaitInv, IInv, TypeOK
  <1> QED
    BY <1>1, Levels DEF WaitInv, StagesFit, AwaitedExist

(* Promise.all is called with calls that have been made.                   *)
LEMMA SpawnWaits ==
  ASSUME WaitInv, NEW n \in CourseIds \cup Topics, Spawn(n, "wait")
  PROVE  (StagesFit /\ AwaitedExist)'
  <1>1. \A m \in Calls : stage'[m] = IF m = n THEN "wait"
                                     ELSE IF m \in Children(n) THEN "insert"
                                     ELSE stage[m]
    BY DEF Spawn
  <1> QED
    BY <1>1, Levels DEF WaitInv, StagesFit, AwaitedExist

LEMMA NextWaitInv == WaitInv /\ [Next]_vars => WaitInv'
  <1> SUFFICES ASSUME WaitInv, [Next]_vars
               PROVE  (StagesFit /\ AwaitedExist)'
    BY NextIInv DEF WaitInv
  <1>1. ASSUME NEW c \in CourseIds, CreateCourse(c) \/ CourseInserted(c)
        PROVE  (StagesFit /\ AwaitedExist)'
    BY <1>1, GotoWaits, SpawnWaits DEF CreateCourse, CourseInserted
  <1>2. ASSUME NEW t \in Topics, TopicInserted(t) \/ LinksGenerated(t)
        PROVE  (StagesFit /\ AwaitedExist)'
    BY <1>2, GotoWaits, SpawnWaits DEF TopicInserted, LinksGenerated
  <1>3. ASSUME NEW s \in Subtopics, SubtopicInserted(s)
        PROVE  (StagesFit /\ AwaitedExist)'
    BY <1>3, GotoWaits DEF SubtopicInserted
  <1>4. ASSUME NEW n \in Calls, Throw(n)
        PROVE  (StagesFit /\ AwaitedExist)'
    BY <1>4, GotoWaits DEF Throw
  <1>5. ASSUME NEW n \in CourseIds \cup Topics, Settle(n)
        PROVE  (StagesFit /\ AwaitedExist)'
    BY <1>5, GotoWaits DEF Settle
  <1>6. ASSUME NEW l \in Links, LinkFails(l)
        PROVE  (StagesFit /\ AwaitedExist)'
    <2>1. \A n \in Calls :
            stage'[n] = IF stage[n] \in Running THEN "killed" ELSE stage[n]
      BY <1>6 DEF LinkFails
    <2> QED
      BY <2>1, Levels DEF WaitInv, StagesFit, AwaitedExist
  <1>7. ASSUME UNCHANGED stage PROVE (StagesFit /\ AwaitedExist)'
    BY <1>7 DEF WaitInv, StagesFit, AwaitedExist
  <1>8. ASSUME NEW l \in Links, LinkInserted(l)
        PROVE  (StagesFit /\ AwaitedExist)'
    BY <1>7, <1>8 DEF LinkInserted
  <1>9. CASE UNCHANGED vars
    BY <1>7, <1>9 DEF vars
  <1> QED
    BY <1>1, <1>2, <1>3, <1>4, <1>5, <1>6, <1>8, <1>9 DEF Next, Proceed, Respond

(* In every reachable state some awaited thing of an unanswered course can *)
(* come: no set of calls waits in a ring or for calls that are gone.  With *)
(* what FairSpec assumes, this is why nothing but a remote that stays      *)
(* silent (OnlyRemoteStalls) keeps a course of any size from its answer.   *)
THEOREM NoneWaitForEver == Spec => []Unblocked
  <1>1. Init => WaitInv
    BY InitIInv, Levels DEF Init, WaitInv, StagesFit, AwaitedExist
  <1>2. WaitInv => Unblocked
    <2> SUFFICES ASSUME WaitInv, NEW c \in CourseIds, stage[c] \in Running,
                        \A n \in {c} \cup Under(c) : ~Ready(n)
                 PROVE  FALSE
      BY DEF Unblocked
    <2>1. stage \in [Calls -> {"idle"} \cup Running \cup Ended]
      BY DEF WaitInv, IInv, TypeOK
    <2>2. stage[c] = "wait" /\ ~Ready(c)
      BY Levels DEF Ready, WaitInv, StagesFit
    <2>3. PICK t \in Children(c) : stage[t] \in Running
      BY <2>1, <2>2, Levels DEF Ready, WaitInv, AwaitedExist
    <2>4. t \in Topics /\ t \in Under(c)
      BY Levels DEF Under
    <2>5. stage[t] = "wait" /\ ~Ready(t)
      BY <2>3, <2>4 DEF Ready
    <2>6. PICK s \in Children(t) : stage[s] \in Running
      BY <2>1, <2>4, <2>5, Levels DEF Ready, WaitInv, AwaitedExist
    <2>7. s \in Subtopics /\ s \in Under(c)
      BY <2>4, Levels DEF Under
    <2> QED
      BY <2>6, <2>7, Levels DEF Ready, WaitInv, StagesFit
  <1> QED
    BY <1>1, <1>2, NextWaitInv, PTL DEF Spec

(* What is left to do: the stages a call has before it, and the links that *)
(* are neither stored nor lost.                                            *)
StagesLeft(s) ==
  CASE s = "idle"   -> Running \cup {"end"}
    [] s = "insert" -> {"ask", "wait", "end"}
    [] s = "ask"    -> {"wait", "end"}
    [] s = "wait"   -> {"end"}
    [] OTHER        -> {}

CallsLeft == {w \in Calls \X (Running \cup {"end"}) : w[2] \in StagesLeft(stage[w[1]])}
LinksLeft == (Links \ (rows \cup lost)) \X {"row"}
Remaining == CallsLeft \cup LinksLeft

(* Each stage leaves less than the stages before it.                       *)
LEMMA StagesShrink ==
  /\ \A s \in {"insert", "ask", "wait"} \cup Ended :
       StagesLeft(s) \subseteq StagesLeft("idle") \ {"insert"}
  /\ \A s \in {"ask", "wait"} \cup Ended :
       StagesLeft(s) \subseteq StagesLeft("insert") \ {"ask"}
  /\ \A s \in {"wait"} \cup Ended : StagesLeft(s) \subseteq StagesLeft("ask") \ {"wait"}
  /\ \A s \in Ended : StagesLeft(s) \subseteq StagesLeft("wait") \ {"end"}
  /\ "insert" \in StagesLeft("idle") /\ "ask" \in StagesLeft("insert")
  /\ "wait" \in StagesLeft("ask") /\ "end" \in StagesLeft("wait")
  BY DEF StagesLeft

(* A call that goes from one stage to a later one, while no other call     *)
(* goes back, leaves less to do.                                           *)
Onward == [idle |-> {"insert"}, insert |-> {"ask", "wait"} \cup Ended,
           ask |-> {"wait"} \cup Ended, wait |-> Ended]

LEMMA CallMoves ==
  ASSUME NEW n \in Calls, stage[n] \in DOMAIN Onward, stage'[n] \in Onward[stage[n]],
         \A m \in Calls : StagesLeft(stage'[m]) \subseteq StagesLeft(stage[m]),
         LinksLeft' \subseteq LinksLeft
  PROVE  Remaining' \subseteq Remaining /\ Remaining' # Remaining
  <1>1. CallsLeft' \subseteq CallsLeft
    BY DEF CallsLeft
  <1>2. PICK k \in Running \cup {"end"} :
          k \in StagesLeft(stage[n]) /\ k \notin StagesLeft(stage'[n])
    BY StagesShrink DEF Onward
  <1>3. <<n, k>> \in CallsLeft /\ <<n, k>> \notin CallsLeft'
    BY <1>2 DEF CallsLeft
  <1>4. <<n, k>> \notin LinksLeft'
    BY DEF LinksLeft
  <1> QED
    BY <1>1, <1>3, <1>4 DEF Remaining

(* Every step leaves less to do than there was.                            *)
LEMMA LessToDo ==
  WaitInv /\ Next => Remaining' \subseteq Remaining /\ Remaining' # Remaining
  <1> DEFINE Less == Remaining' \subseteq Remaining /\ Remaining' # Remaining
  <1> SUFFICES ASSUME WaitInv, Next PROVE Less
    OBVIOUS
  <1> HIDE DEF Less
  <1>0. stage \in [Calls -> {"idle"} \cup Running \cup Ended]
    BY DEF WaitInv, IInv, TypeOK
  <1>1. ASSUME NEW n \in Calls, NEW s \in Running \cup Ended, Goto(n, s),
               stage[n] \in DOMAIN Onward, s \in Onward[stage[n]],
               rows \subseteq rows', lost' = lost
        PROVE  Less
    <2>1. /\ \A m \in Calls : stage'[m] = IF m = n THEN s ELSE stage[m]
          /\ LinksLeft' \subseteq LinksLeft
      BY <1>0, <1>1 DEF Goto, LinksLeft
    <2>2. StagesLeft(s) \subseteq StagesLeft(stage[n])
      BY <1>1, StagesShrink DEF Onward
    <2> QED
      BY <1>1, <2>1, <2>2, CallMoves DEF Less
  <1>2. ASSUME NEW n \in CourseIds \cup Topics, Spawn(n, "wait"),
               stage[n] \in {"insert", "ask"}, rows \subseteq rows', lost' = lost
        PROVE  Less
    <2>1. /\ \A m \in Calls : stage'[m] = IF m = n THEN "wait"
                                         ELSE IF m \in Children(n) THEN "insert"
                                         ELSE stage[m]
          /\ LinksLeft' \subseteq LinksLeft
      BY <1>2 DEF Spawn, LinksLeft
    <2>2. \A m \in Children(n) : stage[m] = "idle"
      BY <1>2, Levels DEF WaitInv, IInv, StartedBelow
    <2>3. \A m \in Calls : StagesLeft(stage'[m]) \subseteq StagesLeft(stage[m])
      BY <1>2, <2>1, <2>2, StagesShrink
    <2> QED
      BY <1>2, <2>1, <2>3, CallMoves DEF Less, Onward
  <1>3. ASSUME NEW c \in CourseIds, CreateCourse(c) \/ CourseInserted(c) PROVE Less
    BY <1>1, <1>2, <1>3 DEF CreateCourse, CourseInserted, Onward
  <1>4. ASSUME NEW t \in Topics, TopicInserted(t) \/ LinksGenerated(t) PROVE Less
    BY <1>1, <1>2, <1>4 DEF TopicInserted, LinksGenerated, Onward
  <1>5. ASSUME NEW s \in Subtopics, SubtopicInserted(s) PROVE Less
    BY <1>1, <1>5 DEF SubtopicInserted, Onward
  <1>6. ASSUME NEW n \in Calls, Throw(n) PROVE Less
    BY <1>1, <1>6 DEF Throw, Onward
  <1>7. ASSUME NEW n \in CourseIds \cup Topics, Settle(n) PROVE Less
    BY <1>1, <1>7 DEF Settle, Onward
  <1>8. ASSUME NEW l \in Links, l \in pending, l \in rows' \cup lost',
               rows \cup lost \subseteq rows' \cup lost',
               \A m \in Calls : StagesLeft(stage'[m]) \subseteq StagesLeft(stage[m])
        PROVE  Less
    <2>1. CallsLeft' \subseteq CallsLeft /\ LinksLeft' \subseteq LinksLeft
      BY <1>8 DEF CallsLeft, LinksLeft
    <2>2. <<l, "row">> \in LinksLeft /\ <<l, "row">> \notin LinksLeft'
      BY <1>8 DEF LinksLeft, WaitInv, IInv, TypeOK
    <2>3. <<l, "row">> \notin CallsLeft'
      BY DEF CallsLeft
    <2> QED
      BY <2>1, <2>2, <2>3 DEF Less, Remaining
  <1>9. ASSUME NEW l \in Links, LinkInserted(l) PROVE Less
    BY <1>8, <1>9 DEF LinkInserted
  <1>10. ASSUME NEW l \in Links, LinkFails(l) PROVE Less
    <2>1. /\ l \in pending /\ l \in lost' /\ rows \cup lost \subseteq rows' \cup lost'
          /\ \A m \in Calls :
               stage'[m] = IF stage[m] \in Running THEN "killed" ELSE stage[m]
      BY <1>10, Levels DEF LinkFails
    <2>2. \A m \in Calls : StagesLeft(stage'[m]) \subseteq StagesLeft(stage[m])
      BY <2>1, StagesShrink
    <2> QED
      BY <1>8, <2>1, <2>2
  <1> QED
    BY <1>3, <1>4, <1>5, <1>6, <1>7, <1>9, <1>10 DEF Next, Proceed, Respond

(* What is left to do is finite when the plans are.                        *)
LEMMA RemainingFinite == IsFiniteSet(Rows) => IsFiniteSet(Remaining)
  <1> SUFFICES ASSUME IsFiniteSet(Rows) PROVE IsFiniteSet(Remaining)
    OBVIOUS
  <1> DEFINE K == {"insert", "ask", "wait", "end", "row"}
  <1>1. IsFiniteSet(K)
    <2>1. /\ IsFiniteSet({"insert"}) /\ IsFiniteSet({"ask"}) /\ IsFiniteSet({"wait"})
          /\ IsFiniteSet({"end"}) /\ IsFiniteSet({"row"})
      BY FS_Singleton
    <2>2. IsFiniteSet({"insert"} \cup {"ask"})
      BY <2>1, FS_Union
    <2>3. IsFiniteSet({"wait"} \cup {"end"})
      BY <2>1, FS_Union
    <2>4. IsFiniteSet(({"insert"} \cup {"ask"}) \cup ({"wait"} \cup {"end"}))
      BY <2>2, <2>3, FS_Union
    <2>5. IsFiniteSet((({"insert"} \cup {"ask"}) \cup ({"wait"} \cup {"end"})) \cup {"row"})
      BY <2>1, <2>4, FS_Union
    <2>6. K = (({"insert"} \cup {"ask"}) \cup ({"wait"} \cup {"end"})) \cup {"row"}
      OBVIOUS
    <2> QED
      BY <2>5, <2>6
  <1>2. IsFiniteSet(Rows \X K)
    BY <1>1, FS_Product
  <1>3. Remaining \subseteq Rows \X K
    BY DEF Remaining, CallsLeft, LinksLeft
  <1> QED
    BY <1>2, <1>3, FS_Subset

(* However the calls overlap and fail, every step of createCourse leaves   *)
(* strictly fewer steps to come, so that an endless run of Promise.all     *)
(* upon Promise.all is impossible: finite plans end after finitely many.   *)
THEOREM StepsRunOut ==
  ASSUME IsFiniteSet(Rows)
  PROVE  Spec => /\ [](Cardinality(Remaining) \in Nat)
                 /\ [][Cardinality(Remaining') < Cardinality(Remaining)]_vars
  <1>1. Cardinality(Remaining) \in Nat
    BY RemainingFinite, FS_CardinalityType
  <1>2. WaitInv /\ [Next]_vars => [Cardinality(Remaining') < Cardinality(Remaining)]_vars
    <2> SUFFICES ASSUME WaitInv, Next
                 PROVE  Cardinality(Remaining') < Cardinality(Remaining)
      OBVIOUS
    <2>1. Remaining' \subseteq Remaining /\ Remaining' # Remaining
      BY LessToDo
    <2>2. IsFiniteSet(Remaining)
      BY RemainingFinite
    <2>3. Cardinality(Remaining') <= Cardinality(Remaining)
      BY <2>1, <2>2, FS_Subset
    <2>4. Cardinality(Remaining') # Cardinality(Remaining)
      BY <2>1, <2>2, FS_Subset
    <2>5. /\ Cardinality(Remaining) \in Nat
          /\ Cardinality(Remaining') \in Nat
      BY <2>1, <2>2, FS_Subset, FS_CardinalityType
    <2> QED
      BY <2>3, <2>4, <2>5
  <1>3. Init => WaitInv
    BY InitIInv, Levels DEF Init, WaitInv, StagesFit, AwaitedExist
  <1> QED
    BY <1>1, <1>2, <1>3, NextWaitInv, PTL DEF Spec
=============================================================================
