-------------------------------- MODULE Chat --------------------------------
(***************************************************************************)
(* ChatService: a post stores a question, asks the remote mentor with the  *)
(* chat's history and stores its answer; an answer with a summary goes on  *)
(* to a plan, and from the plan of a chat a course can be ordered.         *)
(*                                                                         *)
(* Posts of one chat interleave at every await.  A message's createdAt, to *)
(* the second, is taken when its insert is handed over, and a history is   *)
(* read ordered by it: messages of one second come in any order.  The      *)
(* server asks neither whether a chat exists nor whose it is.              *)
(***************************************************************************)
EXTENDS Naturals

CONSTANTS Posts,     \* posts of a message, each made once
          Orders,    \* orders of a course (POST /chat/generate/:id)
          ChatIds,   \* ids of chats
          NoChat,    \* the chat of a request not made yet
          NoRow,     \* the absence of a Plan row
          NoPlan,    \* the plan of a row that has none yet
          Seeded,    \* chats given a Plan row from outside: no code here does
          MaxSecond, \* bound on the clock
          Faults     \* which of "db", "remote", "crash" may happen

Requests == Posts \cup Orders

ASSUME RequestsAssumption == Posts \cap Orders = {}
ASSUME NullAssumption ==
  /\ NoChat \notin ChatIds
  /\ {NoRow, NoPlan} \cap Posts = {}
  /\ NoRow # NoPlan
ASSUME ClockAssumption == MaxSecond \in Nat
ASSUME FaultsAssumption == Faults \subseteq {"db", "remote", "crash"}

(* A message is the post that stored it and what it is; questions and,     *)
(* oddly, plans are stored as the user's, answers as the bot's.            *)
Kinds    == {"question", "answer", "plan"}
Messages == Posts \X Kinds

VARIABLES stage,   \* stage[r]: what request r awaits, or how it ended
          chat,    \* chat[r]: the chat it concerns
          stored,  \* the rows of table Message
          at,      \* at[m]: createdAt of message m
          plan,    \* plan[c]: the post whose plan chat c's Plan row holds
          from,    \* from[o]: the plan order o has read
          courses, \* the orders whose course row is stored
          hist,    \* hist[p]: the messages post p has read as its history
          now,     \* the second it is
          earlier  \* earlier[r]: posts answered in its chat before r was
                   \* made (history)

vars == <<stage, chat, stored, at, plan, from, courses, hist, now, earlier>>
tables == <<stored, at, plan, courses>>

Asking    == {"mentor", "outline"}
(* A post storing a message; "summary" is an answer that came with one.    *)
Storing   == {"question", "answer", "summary", "plan"}
Writing   == Storing \cup {"create", "update", "course"}
(* "topics": an order whose course row is stored waits for what is below.  *)
Running   == {"findAll", "findPlan", "findOne", "topics"} \cup Asking \cup Writing
(* Answered; answered 201 with an error for an answer; a 500, or no answer *)
(* because the process ended.                                              *)
Ended     == {"answered", "excused", "failed"}

Kind(s) == IF s = "summary" THEN "answer" ELSE s

Goto(r, s) == stage' = [stage EXCEPT ![r] = s]

(* create() is called: the message gets its time and its insert is handed  *)
(* over.                                                                   *)
HandOver(p, s) ==
  /\ Goto(p, s)
  /\ at' = [at EXCEPT ![<<p, Kind(s)>>] = now]

Store(p) == stored' = stored \cup {<<p, Kind(stage[p])>>}

(* Mutant of InChat: the where clause is lost.                             *)
AnyChat(c) == stored

InChat(c) == {m \in stored : chat[m[1]] = c}

AnsweredIn(c) == {q \in Posts : stage[q] = "answered" /\ chat[q] = c}

-----------------------------------------------------------------------------
(* POST /chat: a chat row is made for the message.  Its uuid is a new one; *)
(* nothing here ever reads the row.                                        *)
InitChat(p) ==
  /\ stage[p] = "idle"
  /\ \E c \in ChatIds :
       /\ \A r \in Requests : chat[r] # c
       /\ chat' = [chat EXCEPT ![p] = c]
  /\ Goto(p, "create")
  /\ UNCHANGED <<tables, from, hist, now, earlier>>

(* POST /chat/:id, with any id.                                            *)
Talk(p, c) ==
  /\ stage[p] = "idle"
  /\ chat' = [chat EXCEPT ![p] = c]
  /\ Goto(p, "findAll")
  /\ earlier' = [earlier EXCEPT ![p] = AnsweredIn(c)]
  /\ UNCHANGED <<tables, from, hist, now>>

ChatCreated(p) ==
  /\ stage[p] = "create"
  /\ HandOver(p, "question")
  /\ UNCHANGED <<chat, stored, plan, from, courses, hist, now, earlier>>

(* Mutant of FindAll: the message was built before the history is read.    *)
FindAllStampedBefore(p) ==
  /\ stage[p] = "findAll"
  /\ hist' = [hist EXCEPT ![p] = InChat(chat[p])]
  /\ Goto(p, "question")
  /\ UNCHANGED <<chat, tables, from, now, earlier>>

(* Mutant of FindAll: the remote is asked before the question is stored.   *)
FindAllAsks(p) ==
  /\ stage[p] = "findAll"
  /\ hist' = [hist EXCEPT ![p] = InChat(chat[p])]
  /\ Goto(p, "mentor")
  /\ UNCHANGED <<chat, tables, from, now, earlier>>

(* The history is read, then the question's insert is handed over: another *)
(* post's question that is being stored meanwhile is missed.               *)
FindAll(p) ==
  /\ stage[p] = "findAll"
  /\ hist' = [hist EXCEPT ![p] = InChat(chat[p])]
  /\ HandOver(p, "question")
  /\ UNCHANGED <<chat, stored, plan, from, courses, now, earlier>>

(* Mutant of QuestionStored: the insert is not awaited, and is lost.       *)
QuestionUnawaited(p) ==
  /\ stage[p] = "question"
  /\ Goto(p, "mentor")
  /\ UNCHANGED <<chat, tables, from, hist, now, earlier>>

QuestionStored(p) ==
  /\ stage[p] = "question"
  /\ Store(p)
  /\ Goto(p, "mentor")
  /\ UNCHANGED <<chat, at, plan, from, courses, hist, now, earlier>>

(* The remote answers POST /chat/mentor/, with a summary or without.       *)
Mentor(p) ==
  /\ stage[p] = "mentor"
  /\ \E s \in {"answer", "summary"} : HandOver(p, s)
  /\ UNCHANGED <<chat, stored, plan, from, courses, hist, now, earlier>>

(* Mutant of AnswerStored: the client is answered before the insert.       *)
AnswerUnawaited(p) ==
  /\ stage[p] \in {"answer", "summary"}
  /\ Goto(p, IF stage[p] = "answer" THEN "answered" ELSE "findPlan")
  /\ UNCHANGED <<chat, tables, from, hist, now, earlier>>

AnswerStored(p) ==
  /\ stage[p] \in {"answer", "summary"}
  /\ Store(p)
  /\ Goto(p, IF stage[p] = "answer" THEN "answered" ELSE "findPlan")
  /\ UNCHANGED <<chat, at, plan, from, courses, hist, now, earlier>>

-----------------------------------------------------------------------------
(* generatePlan: a history is read again, and not used.                    *)
PlanHistory(p) ==
  /\ stage[p] = "findPlan"
  /\ Goto(p, "outline")
  /\ UNCHANGED <<chat, tables, from, hist, now, earlier>>

(* The remote answers POST /chat/generate_plan/.                           *)
Outline(p) ==
  /\ stage[p] = "outline"
  /\ HandOver(p, "plan")
  /\ UNCHANGED <<chat, stored, plan, from, courses, hist, now, earlier>>

PlanStored(p) ==
  /\ stage[p] = "plan"
  /\ Store(p)
  /\ Goto(p, "update")
  /\ UNCHANGED <<chat, at, plan, from, courses, hist, now, earlier>>

(* Mutant of PlanUpdated: a row that has a plan keeps it.                  *)
PlanUpdatedOnce(p) ==
  /\ stage[p] = "update"
  /\ plan' = IF plan[chat[p]] # NoPlan THEN plan
             ELSE [plan EXCEPT ![chat[p]] = p]
  /\ Goto(p, "answered")
  /\ UNCHANGED <<chat, stored, at, from, courses, hist, now, earlier>>

(* The update of a row that is not there does nothing.                     *)
PlanUpdated(p) ==
  /\ stage[p] = "update"
  /\ plan' = IF plan[chat[p]] = NoRow THEN plan
             ELSE [plan EXCEPT ![chat[p]] = p]
  /\ Goto(p, "answered")
  /\ UNCHANGED <<chat, stored, at, from, courses, hist, now, earlier>>

-----------------------------------------------------------------------------
(* generateCourse, for any chat.                                           *)
GenerateCourse(o, c) ==
  /\ stage[o] = "idle"
  /\ chat' = [chat EXCEPT ![o] = c]
  /\ Goto(o, "findOne")
  /\ earlier' = [earlier EXCEPT ![o] = AnsweredIn(c)]
  /\ UNCHANGED <<tables, from, hist, now>>

(* Mutant of PlanFound: the order waits for a plan.                        *)
PlanAwaited(o) ==
  /\ stage[o] = "findOne"
  /\ plan[chat[o]] # NoRow
  /\ Goto(o, "course")
  /\ from' = [from EXCEPT ![o] = plan[chat[o]]]
  /\ UNCHANGED <<chat, tables, hist, now, earlier>>

(* Without a row the destructuring of null throws.                         *)
PlanFound(o) ==
  /\ stage[o] = "findOne"
  /\ IF plan[chat[o]] = NoRow
     THEN Goto(o, "failed") /\ UNCHANGED from
     ELSE Goto(o, "course") /\ from' = [from EXCEPT ![o] = plan[chat[o]]]
  /\ UNCHANGED <<chat, tables, hist, now, earlier>>

(* createCourse stores the course row before it looks at the plan, and     *)
(* throws if there is none.                                                *)
CourseStored(o) ==
  /\ stage[o] = "course"
  /\ courses' = courses \cup {o}
  /\ Goto(o, IF from[o] = NoPlan THEN "failed" ELSE "topics")
  /\ UNCHANGED <<chat, stored, at, plan, from, hist, now, earlier>>

(* The rest of createCourse, which asks the remote for links: it is module *)
(* Courses, and ends if the remote answers.                                *)
TopicsMade(o) ==
  /\ stage[o] = "topics"
  /\ Goto(o, "answered")
  /\ UNCHANGED <<chat, tables, from, hist, now, earlier>>

-----------------------------------------------------------------------------
(* An awaited statement or exchange is rejected.  Inside the try blocks    *)
(* the error is returned as the answer, with status 201; outside it is a   *)
(* 500.                                                                    *)
Throw(r) ==
  /\ \/ /\ stage[r] \in Asking /\ "remote" \in Faults
        /\ Goto(r, "excused")
     \/ /\ stage[r] \in {"answer", "summary", "plan", "update"} /\ "db" \in Faults
        /\ Goto(r, "excused")
     \/ /\ \/ "db" \in Faults /\ stage[r] \in
                {"create", "findAll", "question", "findPlan", "findOne", "course"}
           \/ Faults \cap {"db", "remote"} # {} /\ stage[r] = "topics"
        /\ Goto(r, "failed")
  /\ UNCHANGED <<chat, tables, from, hist, now, earlier>>

At(s) == {r \in Requests : stage[r] = s}

(* The process ends (a failing write of another module does that): each    *)
(* statement under way has reached MySQL or not.                           *)
Crash ==
  /\ "crash" \in Faults
  /\ \E r \in Requests : stage[r] \in Running
  /\ \E left \in SUBSET {r \in Requests : stage[r] \in Writing} :
       /\ stored' = stored \cup {<<p, Kind(stage[p])>> :
                      p \in {q \in left : stage[q] \in Storing}}
       /\ courses' = courses \cup (left \cap At("course"))
       /\ plan' \in [ChatIds -> Posts \cup {NoPlan, NoRow}]
       /\ \A c \in ChatIds :
            LET updates == {p \in left \cap At("update") : chat[p] = c}
            IN  plan'[c] \in IF plan[c] = NoRow \/ updates = {}
                             THEN {plan[c]} ELSE updates
  /\ stage' = [r \in Requests |-> IF stage[r] \in Running THEN "failed" ELSE stage[r]]
  /\ UNCHANGED <<chat, at, from, hist, now, earlier>>

Tick ==
  /\ now < MaxSecond
  /\ now' = now + 1
  /\ UNCHANGED <<stage, chat, tables, from, hist, earlier>>

Init ==
  /\ stage = [r \in Requests |-> "idle"]
  /\ chat = [r \in Requests |-> NoChat]
  /\ stored = {}
  /\ at = [m \in Messages |-> 0]
  /\ plan = [c \in ChatIds |-> IF c \in Seeded THEN NoPlan ELSE NoRow]
  /\ from = [o \in Orders |-> NoPlan]
  /\ courses = {}
  /\ hist = [p \in Posts |-> {}]
  /\ now = 0
  /\ earlier = [r \in Requests |-> {}]

(* The database settles the statement a request awaits.                    *)
Settle(r) ==
  \/ /\ r \in Posts
     /\ \/ ChatCreated(r)
        \/ FindAll(r)
        \/ QuestionStored(r)
        \/ AnswerStored(r)
        \/ PlanHistory(r)
        \/ PlanStored(r)
        \/ PlanUpdated(r)
  \/ r \in Orders /\ (PlanFound(r) \/ CourseStored(r))

(* The remote answers what request r asks.                                 *)
Respond(r) ==
  \/ r \in Posts /\ (Mentor(r) \/ Outline(r))
  \/ r \in Orders /\ TopicsMade(r)

Next ==
  \/ \E p \in Posts : InitChat(p)
  \/ \E p \in Posts, c \in ChatIds : Talk(p, c)
  \/ \E o \in Orders, c \in ChatIds : GenerateCourse(o, c)
  \/ \E r \in Requests : Settle(r) \/ Respond(r) \/ Throw(r)
  \/ Crash
  \/ Tick

Spec == Init /\ [][Next]_vars

(* The database settles every statement; no request is made twice, so that *)
(* one condition lets none wait for ever.  The remote owes nothing, to a   *)
(* post or to an order: the HTTP client sets no timeout.                   *)
FairSpec == Spec /\ WF_vars(\E r \in Requests : Settle(r))

-----------------------------------------------------------------------------
(* Every variable keeps its type, and only messages of the same chat are   *)
(* read as a post's history, before it stores its own.                     *)
TypeOK ==
  /\ stage \in [Requests -> {"idle"} \cup Running \cup Ended]
  /\ chat \in [Requests -> ChatIds \cup {NoChat}]
  /\ stored \subseteq Messages
  /\ now \in 0..MaxSecond
  /\ at \in [Messages -> 0..now]
  /\ plan \in [ChatIds -> Posts \cup {NoPlan, NoRow}]
  /\ from \in [Orders -> Posts \cup {NoPlan}]
  /\ courses \subseteq Orders
  /\ hist \in [Posts -> SUBSET stored]
  /\ \A p \in Posts, m \in Messages :
       m \in hist[p] => m[1] # p /\ chat[m[1]] = chat[p]
  /\ earlier \in [Requests -> SUBSET Posts]

(* Whatever fails and whenever the process ends, an exchange is stored     *)
(* front to back: the remote is asked only about a stored question, an     *)
(* answer never stands without its question nor a plan without its answer, *)
(* and a client is answered only with what the chat holds.                 *)
FrontToBack ==
  \A p \in Posts :
    /\ stage[p] \in Asking => <<p, "question">> \in stored
    /\ <<p, "answer">> \in stored => <<p, "question">> \in stored
    /\ <<p, "plan">> \in stored => <<p, "answer">> \in stored
    /\ stage[p] = "answered" => <<p, "answer">> \in stored

(* Only overlapping posts miss each other: what the remote is given with a *)
(* post holds all messages of every exchange that was answered in the chat *)
(* before the post was made.                                               *)
HistoryComplete ==
  \A p \in Posts : stage[p] \notin {"idle", "findAll", "failed"} =>
    \A q \in earlier[p] :
      /\ {<<q, "question">>, <<q, "answer">>} \subseteq hist[p]
      /\ \A k \in Kinds : <<q, k>> \in stored => <<q, k>> \in hist[p]

(* Ordering by createdAt never puts a message before one it was written in *)
(* knowledge of, in its own exchange or in the history read for it: within *)
(* one second the order is open, but it is never reversed.                 *)
CausalOrder ==
  \A p \in Posts, k \in Kinds : <<p, k>> \in stored =>
    /\ \A m \in hist[p] : at[m] <= at[<<p, k>>]
    /\ at[<<p, "question">>] <= at[<<p, k>>]
    /\ k = "plan" => at[<<p, "answer">>] <= at[<<p, k>>]

(* A plan does not give way to an older one: where there is a Plan row,    *)
(* the plan a client got stays until a post that had not been answered     *)
(* when that client's post was made replaces it.                           *)
NewestPlanKept ==
  \A p \in Posts :
    /\ stage[p] = "answered"
    /\ <<p, "plan">> \in stored
    /\ plan[chat[p]] # NoRow
    => plan[chat[p]] \in Posts \ earlier[p]

(* A course is made only of a plan that its own chat has shown, or fails   *)
(* for lack of one; and where clients already got plans in that chat       *)
(* before the course was ordered, it is made neither of none nor of one    *)
(* that had given way to theirs, whatever posts overlap the order.         *)
CoursesFromShownPlans ==
  \A o \in courses :
    /\ IF from[o] = NoPlan
       THEN stage[o] \notin {"topics", "answered"}
       ELSE <<from[o], "plan">> \in stored /\ chat[from[o]] = chat[o]
    /\ \A q \in earlier[o] :
         <<q, "plan">> \in stored => from[o] \in Posts \ earlier[q]

(* A question is stored in the end, or its client learns that it was not,  *)
(* even if the remote never answers anybody.                               *)
QuestionLands ==
  \A p \in Posts : stage[p] \in Running ~>
    <<p, "question">> \in stored \/ stage[p] = "failed"

(* If the remote answers whatever it is asked, so does the server, whether *)
(* to a post or to an order, and whatever else fails.                      *)
Answered ==
  WF_vars(\E r \in Requests : Respond(r)) =>
    \A r \in Requests : stage[r] \in Running ~> stage[r] \in Ended
=============================================================================
