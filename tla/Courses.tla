------------------------------- MODULE Courses -------------------------------
(***************************************************************************)
(* CourseService.createCourse: a plan becomes a course row, its topics,    *)
(* their subtopics and the links the remote service gives for them.        *)
(*                                                                         *)
(* Every row of one level is created concurrently (Promise.all over calls  *)
(* that await).  A call that throws makes its parent throw at once, but    *)
(* the siblings it leaves behind run on.  The links are not awaited.       *)
(* The tables have no foreign keys: only the order of the awaits keeps a   *)
(* row from being stored without its parent.                               *)
(***************************************************************************)
EXTENDS FiniteSets

CONSTANTS CourseIds,  \* calls of createCourse, each with a plan of its own
          Topics,     \* the topics of all plans
          Subtopics,  \* their subtopics
          Links,      \* links the remote may give
          Parent,     \* Parent[n]: what topic, subtopic or link n belongs to
          Faults      \* which of "plan", "insert", "remote", "link" may fail

Calls == CourseIds \cup Topics \cup Subtopics
Rows  == Calls \cup Links

ASSUME ParentAssumption ==
  /\ Parent \in [Topics \cup Subtopics \cup Links -> Calls]
  /\ \A t \in Topics : Parent[t] \in CourseIds
  /\ \A s \in Subtopics : Parent[s] \in Topics
  /\ \A l \in Links : Parent[l] \in Subtopics
ASSUME LevelsAssumption ==
  /\ CourseIds \cap (Topics \cup Subtopics \cup Links) = {}
  /\ Topics \cap (Subtopics \cup Links) = {}
  /\ Subtopics \cap Links = {}
ASSUME FaultsAssumption == Faults \subseteq {"plan", "insert", "remote", "link"}

VARIABLES stage,   \* stage[n]: where the call that creates row n is
          rows,    \* the rows stored
          given,   \* the links the remote gave, as far as they can be read
          spoiled, \* the subtopics its response left out, or gave a list
                   \* for that ends in a malformed entry
          pending, \* link inserts handed over and not settled
          lost     \* link inserts that died with the process (history)

vars == <<stage, rows, given, spoiled, pending, lost>>

(* A call awaits its insert, the remote's response, or the calls it made.  *)
Running == {"insert", "ask", "wait"}
Ended   == {"done", "failed", "killed"}

Children(n) == {m \in Topics \cup Subtopics : Parent[m] = n}
LinksOf(S)  == {l \in Links : Parent[l] \in S}

(* Call n goes to stage s, and the calls it makes start with their insert. *)
Spawn(n, s) ==
  stage' = [m \in Calls |-> IF m = n THEN s
                            ELSE IF m \in Children(n) THEN "insert" ELSE stage[m]]

Inserting == {n \in Calls : stage[n] = "insert"}

Goto(n, s) == stage' = [stage EXCEPT ![n] = s]

-----------------------------------------------------------------------------
(* generateCourse calls createCourse.                                      *)
CreateCourse(c) ==
  /\ stage[c] = "idle"
  /\ Goto(c, "insert")
  /\ UNCHANGED <<rows, given, spoiled, pending, lost>>

(* The course row is stored: createTopic for every key of the plan.  A     *)
(* plan row without topics throws here, after the insert.                  *)
CourseInserted(c) ==
  /\ stage[c] = "insert"
  /\ rows' = rows \cup {c}
  /\ \/ Spawn(c, "wait")
     \/ "plan" \in Faults /\ Goto(c, "failed")
  /\ UNCHANGED <<given, spoiled, pending, lost>>

(* Mutant of TopicInserted: the insert is handed over, not awaited.        *)
TopicUnawaited(t) ==
  /\ stage[t] = "insert"
  /\ Goto(t, "ask")
  /\ UNCHANGED <<rows, given, spoiled, pending, lost>>

(* createTopic asks the remote for links once the row is stored.           *)
TopicInserted(t) ==
  /\ stage[t] = "insert"
  /\ rows' = rows \cup {t}
  /\ Goto(t, "ask")
  /\ UNCHANGED <<given, spoiled, pending, lost>>

(* The remote's response: links, well-formed for some of the subtopics     *)
(* asked for.                                                              *)
LinksGenerated(t) ==
  /\ stage[t] = "ask"
  /\ \E bad \in SUBSET Children(t) :
       /\ bad # {} => "remote" \in Faults
       /\ spoiled' = spoiled \cup bad
  /\ \E L \in SUBSET LinksOf(Children(t)) : given' = given \cup L
  /\ Spawn(t, "wait")
  /\ UNCHANGED <<rows, pending, lost>>

(* Mutant of SubtopicInserted: the links are not handed over.              *)
SubtopicUnlinked(s) ==
  /\ stage[s] = "insert"
  /\ rows' = rows \cup {s}
  /\ Goto(s, IF s \in spoiled THEN "failed" ELSE "done")
  /\ UNCHANGED <<given, spoiled, pending, lost>>

(* createSubtopic: with the row stored, the links are handed over one by   *)
(* one and not awaited; without a list, or at a malformed entry of it, the *)
(* call throws.                                                            *)
SubtopicInserted(s) ==
  /\ stage[s] = "insert"
  /\ rows' = rows \cup {s}
  /\ pending' = pending \cup (given \cap LinksOf({s}))
  /\ Goto(s, IF s \in spoiled THEN "failed" ELSE "done")
  /\ UNCHANGED <<given, spoiled, lost>>

(* An awaited insert or request is rejected, or the response has no body.  *)
Throw(n) ==
  /\ \/ stage[n] = "insert" /\ "insert" \in Faults
     \/ stage[n] = "ask" /\ "remote" \in Faults
  /\ Goto(n, "failed")
  /\ UNCHANGED <<rows, given, spoiled, pending, lost>>

(* Mutant of Settle: the call goes on when its first call returns.         *)
SettleFirst(n) ==
  /\ stage[n] = "wait"
  /\ Children(n) = {} \/ \E m \in Children(n) : stage[m] \in {"done", "failed"}
  /\ Goto(n, "done")
  /\ UNCHANGED <<rows, given, spoiled, pending, lost>>

(* Mutant of Settle: a call that throws is not noticed.                    *)
SettleDeaf(n) ==
  /\ stage[n] = "wait"
  /\ \A m \in Children(n) : stage[m] = "done"
  /\ Goto(n, "done")
  /\ UNCHANGED <<rows, given, spoiled, pending, lost>>

(* Promise.all: done with the last of the calls, failed with the first.    *)
Settle(n) ==
  /\ stage[n] = "wait"
  /\ \/ /\ \A m \in Children(n) : stage[m] = "done"
        /\ Goto(n, "done")
     \/ /\ \E m \in Children(n) : stage[m] = "failed"
        /\ Goto(n, "failed")
  /\ UNCHANGED <<rows, given, spoiled, pending, lost>>

-----------------------------------------------------------------------------
(* Mutant of LinkInserted: the insert is sent again.                       *)
LinkResent(l) ==
  /\ l \in pending
  /\ rows' = rows \cup {l}
  /\ UNCHANGED <<stage, given, spoiled, pending, lost>>

(* createSubtopicLink's insert.                                            *)
LinkInserted(l) ==
  /\ l \in pending
  /\ pending' = pending \ {l}
  /\ rows' = rows \cup {l}
  /\ UNCHANGED <<stage, given, spoiled, lost>>

(* Its rejection is nobody's and ends the process: every call in flight is *)
(* gone, and the other inserts have reached MySQL or not.                  *)
LinkFails(l) ==
  /\ "link" \in Faults
  /\ l \in pending
  /\ \E left \in SUBSET ((pending \ {l}) \cup Inserting) :
       /\ rows' = rows \cup left
       /\ lost' = lost \cup (pending \ left)
  /\ pending' = {}
  /\ stage' = [n \in Calls |-> IF stage[n] \in Running THEN "killed" ELSE stage[n]]
  /\ UNCHANGED <<given, spoiled>>

Init ==
  /\ stage = [n \in Calls |-> "idle"]
  /\ rows = {}
  /\ given = {}
  /\ spoiled = {}
  /\ pending = {}
  /\ lost = {}

(* The database answers, and Promise.all its caller.                       *)
Proceed ==
  \/ \E c \in CourseIds : CourseInserted(c)
  \/ \E t \in Topics : TopicInserted(t)
  \/ \E s \in Subtopics : SubtopicInserted(s)
  \/ \E n \in CourseIds \cup Topics : Settle(n)
  \/ \E l \in Links : LinkInserted(l)

(* The remote answers.                                                     *)
Respond == \E t \in Topics : LinksGenerated(t)

Next ==
  \/ \E c \in CourseIds : CreateCourse(c)
  \/ Proceed
  \/ Respond
  \/ \E n \in Calls : Throw(n)
  \/ \E l \in Links : LinkFails(l)

Spec == Init /\ [][Next]_vars

(* MySQL executes every statement and the event loop runs every            *)
(* continuation.  No call is made twice, so that one condition for all of  *)
(* them lets none wait for ever.  Of the remote nothing is assumed: no     *)
(* timeout is set on its HTTP client, and it may stay silent for ever.     *)
FairSpec == Spec /\ WF_vars(Proceed)

-----------------------------------------------------------------------------
(* Every variable keeps its type, and a link given is handed over at most  *)
(* once: it waits, is stored or is lost.                                   *)
TypeOK ==
  /\ stage \in [Calls -> {"idle"} \cup Running \cup Ended]
  /\ rows \subseteq Rows
  /\ given \subseteq Links
  /\ spoiled \subseteq Subtopics
  /\ pending \subseteq given \ (rows \cup lost)
  /\ lost \subseteq given \ rows

(* No orphans: whatever fails, whichever sibling runs on after its parent  *)
(* has thrown, a stored row has its parent stored, and so has an insert.   *)
NoOrphans ==
  \A n \in Rows \ CourseIds :
    n \in rows \cup pending \cup Inserting => Parent[n] \in rows

Under(c) == {n \in Topics : Parent[n] = c}
              \cup {n \in Subtopics : Parent[Parent[n]] = c}

(* A course that is answered is whole: every topic and subtopic of its     *)
(* plan is stored, and every link given for them is at least handed over.  *)
AnsweredWhole ==
  \A c \in CourseIds : stage[c] = "done" =>
    /\ Under(c) \subseteq rows
    /\ given \cap LinksOf(Under(c)) \subseteq rows \cup pending \cup lost

(* As long as the remote answers or breaks every exchange, every request   *)
(* for a course is answered, or its process has ended, whichever calls     *)
(* below it throw.                                                         *)
Answered ==
  WF_vars(Respond) =>
    \A c \in CourseIds : stage[c] \in Running ~> stage[c] \in Ended

(* Whatever the remote does, only its silence keeps a course from being    *)
(* answered: from some time on each course is ended, or one of its topics  *)
(* is waiting for the remote, whatever failed below the others.            *)
OnlyRemoteStalls ==
  \A c \in CourseIds :
    <>[](stage[c] \in Running => \E t \in Children(c) : stage[t] = "ask")

(* The links of an answered course are stored in the end, although nobody  *)
(* awaits them, unless the process ended before.                           *)
LinksLand ==
  \A c \in CourseIds, l \in Links :
    stage[c] = "done" /\ l \in given /\ Parent[Parent[Parent[l]]] = c
      ~> l \in rows \cup lost
=============================================================================
