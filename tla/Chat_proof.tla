----------------------------- MODULE Chat_proof -----------------------------
(***************************************************************************)
(* Proofs about Chat, for any number of posts, orders and chats, any clock *)
(* and any faults.                                                         *)
(***************************************************************************)
EXTENDS Chat, TLAPS

PostStages  == {"idle", "findAll", "findPlan", "create", "update"} \cup Asking
                 \cup Storing \cup Ended
OrderStages == {"idle", "findOne", "course", "topics"} \cup Ended

USE DEF Requests, Messages, Kinds, Asking, Storing, Writing, Running, Ended,
        PostStages, OrderStages

(* Which messages of a post are stored when.                               *)
StoredSoFar(p) ==
  /\ stage[p] \in {"idle", "create", "findAll", "question"} =>
       \A k \in Kinds : <<p, k>> \notin stored
  /\ stage[p] \in {"mentor", "answer", "summary"} => <<p, "answer">> \notin stored
  /\ stage[p] \in {"mentor", "answer", "summary", "findPlan", "outline", "plan"} =>
       <<p, "plan">> \notin stored
  /\ stage[p] \in {"mentor", "answer", "summary", "findPlan", "outline", "plan",
                   "update", "answered"} => <<p, "question">> \in stored
  /\ stage[p] \in {"findPlan", "outline", "plan", "update", "answered"} =>
       <<p, "answer">> \in stored
  /\ stage[p] = "update" => <<p, "plan">> \in stored
  /\ <<p, "answer">> \in stored => <<p, "question">> \in stored
  /\ <<p, "plan">> \in stored => <<p, "answer">> \in stored

(* What a post knows of its chat: an exchange that was answered before it  *)
(* was made stays as it is.                                                *)
Informed(p) ==
  /\ stage[p] # "idle" => chat[p] \in ChatIds
  /\ stage[p] \in {"idle", "create", "findAll"} => hist[p] = {}
  /\ stage[p] \in {"idle", "create"} => earlier[p] = {}
  /\ \A q \in earlier[p] : stage[q] = "answered" /\ chat[q] = chat[p]

(* A message that is stored or being stored has its time.                  *)
Handed(p, k) ==
  \/ <<p, k>> \in stored
  \/ stage[p] \in Storing /\ Kind(stage[p]) = k

Timed(p) ==
  \A k \in Kinds : Handed(p, k) =>
    /\ \A m \in hist[p] : at[m] <= at[<<p, k>>]
    /\ at[<<p, "question">>] <= at[<<p, k>>]
    /\ k = "plan" => at[<<p, "answer">>] <= at[<<p, k>>]

(* The plan of a row was shown in its chat.                                *)
Shown(q, c) == <<q, "plan">> \in stored /\ chat[q] = c

PlansShown == \A c \in ChatIds : plan[c] \in Posts => Shown(plan[c], c)

OrderOK(o) ==
  /\ stage[o] # "idle" => chat[o] \in ChatIds
  /\ stage[o] \in {"idle", "findOne"} => from[o] = NoPlan
  /\ from[o] \in Posts => Shown(from[o], chat[o])
  /\ o \in courses => stage[o] \in Ended \cup {"topics"}
  /\ stage[o] \in {"topics", "answered"} => from[o] # NoPlan

(* Once an order has read its plan, it has one that no client who got a    *)
(* plan before the order was made had seen give way.                       *)
UpToDate(o) ==
  /\ \A q \in earlier[o] : stage[q] = "answered" /\ chat[q] = chat[o]
  /\ stage[o] \in {"course", "topics"} \/ o \in courses =>
       \A q \in earlier[o] :
         <<q, "plan">> \in stored => from[o] \in Posts \ earlier[q]

Stages ==
  /\ \A p \in Posts : stage[p] \in PostStages
  /\ \A o \in Orders : stage[o] \in OrderStages

(* The inductive invariant.                                                *)
IInv ==
  /\ TypeOK
  /\ Stages
  /\ \A p \in Posts : StoredSoFar(p)
  /\ \A p \in Posts : Informed(p)
  /\ \A p \in Posts : Timed(p)
  /\ HistoryComplete
  /\ NewestPlanKept
  /\ PlansShown
  /\ \A o \in Orders : OrderOK(o)
  /\ \A o \in Orders : UpToDate(o)

LEMMA InitIInv == Init => IInv
  BY NullAssumption, RequestsAssumption, ClockAssumption DEF Init, IInv, TypeOK, Stages, StoredSoFar,
     Informed, Timed, Handed, HistoryComplete, NewestPlanKept, PlansShown, OrderOK, UpToDate

(* What an order relies on is settled: nothing it has seen answered, and   *)
(* none of their plans, changes any more.                                  *)
LEMMA KeptUpToDate ==
  ASSUME IInv, NEW o \in Orders,
         \A q \in Posts : stage[q] = "answered" =>
           /\ stage'[q] = "answered" /\ chat'[q] = chat[q] /\ earlier'[q] = earlier[q]
           /\ <<q, "plan">> \in stored' => <<q, "plan">> \in stored,
         stage'[o] \in {"course", "topics"} =>
           stage[o] \in {"course", "topics"},
         o \in courses' => o \in courses \/ stage[o] = "course",
         chat'[o] = chat[o], from'[o] = from[o], earlier'[o] = earlier[o]
  PROVE  UpToDate(o)'
  <1>1. UpToDate(o) /\ earlier[o] \subseteq Posts
    BY DEF IInv, TypeOK
  <1> QED
    BY <1>1 DEF UpToDate

(* A post is made: it knows the exchanges of its chat that were answered.  *)
LEMMA BeginStep ==
  ASSUME IInv, NEW p \in Posts, NEW c \in ChatIds, stage[p] = "idle",
         chat' = [chat EXCEPT ![p] = c],
         \/ Goto(p, "create") /\ earlier' = earlier
         \/ /\ Goto(p, "findAll")
            /\ earlier' = [earlier EXCEPT ![p] = AnsweredIn(c)],
         UNCHANGED <<tables, from, hist, now>>
  PROVE  IInv'
  <1>1. /\ stage' \in [Requests -> {"idle"} \cup Running \cup Ended]
        /\ \A r \in Requests : r # p => stage'[r] = stage[r]
        /\ stage'[p] \in {"create", "findAll"}
    BY DEF Goto, IInv, TypeOK
  <1>2. /\ chat' \in [Requests -> ChatIds \cup {NoChat}]
        /\ \A r \in Requests : r # p => chat'[r] = chat[r]
        /\ chat'[p] = c
    BY DEF IInv, TypeOK
  <1>3. /\ earlier' \in [Requests -> SUBSET Posts]
        /\ \A q \in Requests : q # p => earlier'[q] = earlier[q]
        /\ \A q \in earlier'[p] : stage[q] = "answered" /\ chat[q] = c
        /\ stage'[p] = "create" => earlier'[p] = {}
    BY DEF IInv, TypeOK, Goto, Informed, AnsweredIn
  <1>4. /\ \A k \in Kinds : <<p, k>> \notin stored
        /\ hist[p] = {}
    BY DEF IInv, StoredSoFar, Informed
  <1>5. \A q \in Posts, m \in Messages :
          m \in hist[q] => m[1] # q /\ chat'[m[1]] = chat'[q]
    <2> SUFFICES ASSUME NEW q \in Posts, NEW k \in Kinds, NEW r \in Posts,
                        <<r, k>> \in hist[q]
                 PROVE  r # q /\ chat'[r] = chat'[q]
      OBVIOUS
    <2>1. <<r, k>> \in stored /\ r # q /\ chat[r] = chat[q]
      BY DEF IInv, TypeOK
    <2> QED
      BY <2>1, <1>2, <1>4
  <1>6. TypeOK'
    BY <1>1, <1>2, <1>3, <1>5 DEF IInv, TypeOK, tables
  <1>7. Stages'
    BY <1>1, RequestsAssumption DEF IInv, Stages
  <1>8. \A q \in Posts : StoredSoFar(q)'
    BY <1>1, <1>4 DEF IInv, StoredSoFar, tables
  <1>9. \A q \in Posts : Informed(q)'
    BY <1>1, <1>2, <1>3, <1>4 DEF IInv, Informed
  <1>10. \A q \in Posts : Timed(q)'
    BY <1>1, <1>4 DEF IInv, Timed, Handed, tables
  <1>11. HistoryComplete'
    <2> SUFFICES ASSUME NEW q \in Posts,
                        stage'[q] \notin {"idle", "findAll", "failed"},
                        NEW r \in earlier'[q]
                 PROVE  /\ {<<r, "question">>, <<r, "answer">>} \subseteq hist[q]
                        /\ \A k \in Kinds : <<r, k>> \in stored => <<r, k>> \in hist[q]
      BY DEF HistoryComplete, tables
    <2>1. q # p
      BY <1>1, <1>3
    <2> QED
      BY <2>1, <1>1, <1>3 DEF IInv, HistoryComplete
  <1>12. NewestPlanKept'
    BY <1>1, <1>2, <1>3 DEF IInv, NewestPlanKept, tables
  <1>13. PlansShown'
    BY <1>1, <1>2, <1>4 DEF IInv, PlansShown, Shown, tables
  <1>14. \A o \in Orders : OrderOK(o)'
    BY <1>1, <1>2, <1>4, RequestsAssumption DEF IInv, OrderOK, Shown, tables, TypeOK
  <1>15. \A o \in Orders : UpToDate(o)'
    BY <1>1, <1>2, <1>3, RequestsAssumption, KeptUpToDate DEF tables
  <1> QED
    BY <1>6, <1>7, <1>8, <1>9, <1>10, <1>11, <1>12, <1>13, <1>14, <1>15 DEF IInv

(* A post goes on without storing anything, or ends without an answer.     *)
LEMMA MoveStep ==
  ASSUME IInv, NEW p \in Posts, NEW s \in {"outline", "excused", "failed"}, Goto(p, s),
         stage[p] \in Running,
         s = "outline" => stage[p] = "findPlan",
         s = "excused" => stage[p] \in Asking \cup {"answer", "summary", "plan", "update"},
         s = "failed" => stage[p] \in {"create", "findAll", "question", "findPlan"},
         UNCHANGED <<chat, tables, from, hist, now, earlier>>
  PROVE  IInv'
  <1>1. /\ stage' \in [Requests -> {"idle"} \cup Running \cup Ended]
        /\ \A r \in Requests : r # p => stage'[r] = stage[r]
        /\ stage'[p] = s
    BY DEF Goto, IInv, TypeOK
  <1>2. TypeOK'
    BY <1>1 DEF IInv, TypeOK, tables
  <1>3. Stages'
    BY <1>1, RequestsAssumption DEF IInv, Stages
  <1>4. \A q \in Posts : StoredSoFar(q)'
    BY <1>1 DEF IInv, StoredSoFar, tables
  <1>5. \A q \in Posts : Informed(q)'
    <2>1. \A q \in Posts : earlier[q] \subseteq Posts
      BY DEF IInv, TypeOK
    <2> QED
      BY <1>1, <2>1 DEF IInv, Informed
  <1>6. \A q \in Posts : Timed(q)'
    BY <1>1 DEF IInv, Timed, Handed, tables
  <1>7. HistoryComplete'
    BY <1>1 DEF IInv, HistoryComplete, tables
  <1>8. NewestPlanKept'
    BY <1>1 DEF IInv, NewestPlanKept, tables
  <1>9. PlansShown'
    BY <1>1 DEF IInv, PlansShown, Shown, tables
  <1>10. \A o \in Orders : OrderOK(o)'
    BY <1>1, RequestsAssumption DEF IInv, OrderOK, Shown, tables
  <1>11. \A o \in Orders : UpToDate(o)'
    BY <1>1, RequestsAssumption, KeptUpToDate DEF tables
  <1> QED
    BY <1>2, <1>3, <1>4, <1>5, <1>6, <1>7, <1>8, <1>9, <1>10, <1>11 DEF IInv

(* A message is handed over: its time is the newest.                       *)
LEMMA HandStep ==
  ASSUME IInv, NEW p \in Posts, NEW s \in Storing, HandOver(p, s),
         \/ stage[p] = "create" /\ s = "question" /\ hist' = hist
         \/ /\ stage[p] = "findAll" /\ s = "question"
            /\ hist' = [hist EXCEPT ![p] = InChat(chat[p])]
         \/ stage[p] = "mentor" /\ s \in {"answer", "summary"} /\ hist' = hist
         \/ stage[p] = "outline" /\ s = "plan" /\ hist' = hist,
         UNCHANGED <<chat, stored, plan, from, courses, now, earlier>>
  PROVE  IInv'
  <1>1. /\ stage' \in [Requests -> {"idle"} \cup Running \cup Ended]
        /\ \A r \in Requests : r # p => stage'[r] = stage[r]
        /\ stage'[p] = s
    BY DEF HandOver, Goto, IInv, TypeOK
  <1>2. Kind(s) \in Kinds /\ <<p, Kind(s)>> \notin stored
    BY DEF IInv, StoredSoFar, Kind
  <1>3. /\ at' \in [Messages -> 0..now]
        /\ at'[<<p, Kind(s)>>] = now
        /\ \A m \in Messages : m # <<p, Kind(s)>> => at'[m] = at[m]
    BY <1>2 DEF HandOver, IInv, TypeOK
  <1>4. /\ hist' \in [Posts -> SUBSET stored]
        /\ \A q \in Posts : q # p => hist'[q] = hist[q]
        /\ hist'[p] = IF stage[p] = "findAll" THEN InChat(chat[p]) ELSE hist[p]
    BY DEF IInv, TypeOK, InChat
  <1>5. \A q \in Posts, m \in Messages :
          m \in hist'[q] => m[1] # q /\ chat[m[1]] = chat[q]
    <2> SUFFICES ASSUME NEW q \in Posts, NEW k \in Kinds, NEW r \in Posts,
                        <<r, k>> \in hist'[q]
                 PROVE  r # q /\ chat[r] = chat[q]
      OBVIOUS
    <2>1. CASE q = p /\ stage[p] = "findAll"
      <3>1. <<r, k>> \in stored /\ chat[r] = chat[p]
        BY <2>1, <1>4 DEF InChat
      <3> QED
        BY <2>1, <3>1 DEF IInv, StoredSoFar
    <2>2. CASE ~(q = p /\ stage[p] = "findAll")
      BY <2>2, <1>4 DEF IInv, TypeOK
    <2> QED
      BY <2>1, <2>2
  <1>6. TypeOK'
    BY <1>1, <1>3, <1>4, <1>5 DEF IInv, TypeOK
  <1>7. Stages'
    BY <1>1, RequestsAssumption DEF IInv, Stages
  <1>8. \A q \in Posts : StoredSoFar(q)'
    BY <1>1 DEF IInv, StoredSoFar
  <1>9. \A q \in Posts : Informed(q)'
    <2>1. \A q \in Posts : earlier[q] \subseteq Posts
      BY DEF IInv, TypeOK
    <2> QED
      BY <1>1, <1>4, <2>1 DEF IInv, Informed
  <1>10. \A q \in Posts : Timed(q)'
    <2> SUFFICES ASSUME NEW q \in Posts, NEW k \in Kinds, Handed(q, k)'
                 PROVE  /\ \A m \in hist'[q] : at'[m] <= at'[<<q, k>>]
                        /\ at'[<<q, "question">>] <= at'[<<q, k>>]
                        /\ k = "plan" => at'[<<q, "answer">>] <= at'[<<q, k>>]
      BY DEF Timed
    <2>1. \A m \in Messages : at'[m] \in Nat /\ at'[m] <= now
      BY <1>3, ClockAssumption DEF IInv, TypeOK
    <2>2. \A m \in hist'[q] : m \in stored /\ m \in Messages
      BY <1>4 DEF IInv, TypeOK
    <2>3. CASE q = p /\ k = Kind(s)
      BY <2>1, <2>2, <2>3, <1>3
    <2>4. CASE ~(q = p /\ k = Kind(s))
      <3>1. Handed(q, k) /\ (q = p => <<p, k>> \in stored)
        BY <2>4, <1>1 DEF Handed
      <3>2. hist'[q] = hist[q]
        BY <3>1, <1>4 DEF IInv, StoredSoFar
      <3>3. /\ \A m \in hist[q] : at[m] <= at[<<q, k>>]
            /\ at[<<q, "question">>] <= at[<<q, k>>]
            /\ k = "plan" => at[<<q, "answer">>] <= at[<<q, k>>]
        BY <3>1 DEF IInv, Timed
      <3>4. /\ \A m \in stored : m \in Messages /\ at'[m] = at[m]
            /\ \A j \in Kinds : <<q, j>> # <<p, Kind(s)>> => at'[<<q, j>>] = at[<<q, j>>]
        BY <1>2, <1>3 DEF IInv, TypeOK
      <3>5. <<q, k>> # <<p, Kind(s)>>
        BY <2>4
      <3>6. q = p => Kind(s) # "question" /\ (k = "plan" => Kind(s) # "answer")
        BY <3>1, <1>2 DEF IInv, StoredSoFar
      <3> QED
        BY <3>2, <3>3, <3>4, <3>5, <3>6, <2>2
    <2> QED
      BY <2>3, <2>4
  <1>11. HistoryComplete'
    <2> SUFFICES ASSUME NEW q \in Posts,
                        stage'[q] \notin {"idle", "findAll", "failed"},
                        NEW r \in earlier[q]
                 PROVE  /\ {<<r, "question">>, <<r, "answer">>} \subseteq hist'[q]
                        /\ \A k \in Kinds : <<r, k>> \in stored => <<r, k>> \in hist'[q]
      BY DEF HistoryComplete
    <2>1. r \in Posts /\ stage[r] = "answered" /\ chat[r] = chat[q]
      BY DEF IInv, TypeOK, Informed
    <2>2. CASE q = p /\ stage[p] = "findAll"
      BY <2>1, <2>2, <1>4 DEF InChat, IInv, StoredSoFar
    <2>3. CASE ~(q = p /\ stage[p] = "findAll")
      BY <2>3, <1>1, <1>4 DEF IInv, HistoryComplete
    <2> QED
      BY <2>2, <2>3
  <1>12. NewestPlanKept'
    BY <1>1 DEF IInv, NewestPlanKept
  <1>13. PlansShown'
    BY <1>1 DEF IInv, PlansShown, Shown
  <1>14. \A o \in Orders : OrderOK(o)'
    BY <1>1, RequestsAssumption DEF IInv, OrderOK, Shown
  <1>15. \A o \in Orders : UpToDate(o)'
    BY <1>1, RequestsAssumption, KeptUpToDate
  <1> QED
    BY <1>6, <1>7, <1>8, <1>9, <1>10, <1>11, <1>12, <1>13, <1>14, <1>15 DEF IInv

(* A message is stored.                                                    *)
LEMMA StoreStep ==
  ASSUME IInv, NEW p \in Posts, NEW s \in {"mentor", "answered", "findPlan", "update"},
         Goto(p, s), Store(p),
         \/ stage[p] = "question" /\ s = "mentor"
         \/ stage[p] = "answer" /\ s = "answered"
         \/ stage[p] = "summary" /\ s = "findPlan"
         \/ stage[p] = "plan" /\ s = "update",
         UNCHANGED <<chat, at, plan, from, courses, hist, now, earlier>>
  PROVE  IInv'
  <1> DEFINE k == Kind(stage[p])
  <1>1. /\ stage' \in [Requests -> {"idle"} \cup Running \cup Ended]
        /\ \A r \in Requests : r # p => stage'[r] = stage[r]
        /\ stage'[p] = s
    BY DEF Goto, IInv, TypeOK
  <1>2. /\ stage[p] = "question" => k = "question"
        /\ stage[p] \in {"answer", "summary"} => k = "answer"
        /\ stage[p] = "plan" => k = "plan"
    BY DEF Kind
  <1>3. stored' = stored \cup {<<p, k>>} /\ k \in Kinds
    BY <1>2 DEF Store
  <1> HIDE DEF k
  <1>4. TypeOK'
    BY <1>1, <1>3 DEF IInv, TypeOK
  <1>5. Stages'
    BY <1>1, RequestsAssumption DEF IInv, Stages
  <1>6. \A q \in Posts : StoredSoFar(q)'
    <2> TAKE q \in Posts
    <2>1. CASE q = p
      BY <2>1, <1>1, <1>2, <1>3 DEF IInv, StoredSoFar
    <2>2. CASE q # p
      BY <2>2, <1>1, <1>3 DEF IInv, StoredSoFar
    <2> QED
      BY <2>1, <2>2
  <1>7. \A q \in Posts : Informed(q)'
    <2>1. \A q \in Posts : earlier[q] \subseteq Posts
      BY DEF IInv, TypeOK
    <2> QED
      BY <1>1, <2>1 DEF IInv, Informed
  <1>8. \A q \in Posts : Timed(q)'
    <2>1. \A q \in Posts, j \in Kinds : Handed(q, j)' => Handed(q, j)
      BY <1>1, <1>3 DEF Handed, k
    <2> QED
      BY <2>1 DEF IInv, Timed
  <1>9. HistoryComplete'
    <2> SUFFICES ASSUME NEW q \in Posts,
                        stage'[q] \notin {"idle", "findAll", "failed"},
                        NEW r \in earlier[q]
                 PROVE  /\ {<<r, "question">>, <<r, "answer">>} \subseteq hist[q]
                        /\ \A j \in Kinds : <<r, j>> \in stored' => <<r, j>> \in hist[q]
      BY DEF HistoryComplete
    <2>1. r # p
      BY DEF IInv, TypeOK, Informed
    <2>2. stage[q] \notin {"idle", "findAll", "failed"}
      BY <1>1
    <2> QED
      BY <2>1, <2>2, <1>3 DEF IInv, HistoryComplete
  <1>10. NewestPlanKept'
    <2> SUFFICES ASSUME NEW q \in Posts, stage'[q] = "answered",
                        <<q, "plan">> \in stored', plan[chat[q]] # NoRow
                 PROVE  plan[chat[q]] \in Posts \ earlier[q]
      BY DEF NewestPlanKept
    <2>1. q # p
      BY <1>1, <1>2, <1>3 DEF IInv, StoredSoFar
    <2> QED
      BY <2>1, <1>1, <1>3 DEF IInv, NewestPlanKept
  <1>11. PlansShown'
    BY <1>3 DEF IInv, PlansShown, Shown
  <1>12. \A o \in Orders : OrderOK(o)'
    BY <1>1, <1>3, RequestsAssumption DEF IInv, OrderOK, Shown
  <1>13. \A o \in Orders : UpToDate(o)'
    BY <1>1, <1>3, RequestsAssumption, KeptUpToDate
  <1> QED
    BY <1>4, <1>5, <1>6, <1>7, <1>8, <1>9, <1>10, <1>11, <1>12, <1>13 DEF IInv

(* A plan is written into the row of its chat, if there is one.            *)
LEMMA UpdateStep ==
  ASSUME IInv, NEW p \in Posts, PlanUpdated(p)
  PROVE  IInv'
  <1>1. /\ stage[p] = "update"
        /\ stage' \in [Requests -> {"idle"} \cup Running \cup Ended]
        /\ \A r \in Requests : r # p => stage'[r] = stage[r]
        /\ stage'[p] = "answered"
    BY DEF PlanUpdated, Goto, IInv, TypeOK
  <1>2. /\ plan' \in [ChatIds -> Posts \cup {NoPlan, NoRow}]
        /\ \A c \in ChatIds :
             plan'[c] = IF c = chat[p] /\ plan[c] # NoRow THEN p ELSE plan[c]
        /\ chat[p] \in ChatIds
    <2>1. chat[p] \in ChatIds
      BY <1>1 DEF IInv, Informed
    <2> QED
      BY <2>1 DEF PlanUpdated, IInv, TypeOK
  <1> USE DEF PlanUpdated
  <1>3. TypeOK'
    BY <1>1, <1>2 DEF IInv, TypeOK
  <1>4. Stages'
    BY <1>1, RequestsAssumption DEF IInv, Stages
  <1>5. \A q \in Posts : StoredSoFar(q)'
    BY <1>1 DEF IInv, StoredSoFar
  <1>6. \A q \in Posts : Informed(q)'
    <2>1. \A q \in Posts : earlier[q] \subseteq Posts
      BY DEF IInv, TypeOK
    <2> QED
      BY <1>1, <2>1 DEF IInv, Informed
  <1>7. \A q \in Posts : Timed(q)'
    BY <1>1 DEF IInv, Timed, Handed
  <1>8. HistoryComplete'
    BY <1>1 DEF IInv, HistoryComplete
  <1>9. NewestPlanKept'
    <2> SUFFICES ASSUME NEW q \in Posts, stage'[q] = "answered",
                        <<q, "plan">> \in stored, plan'[chat[q]] # NoRow
                 PROVE  plan'[chat[q]] \in Posts \ earlier[q]
      BY DEF NewestPlanKept
    <2>1. p \notin earlier[q]
      BY <1>1 DEF IInv, Informed
    <2>2. chat[q] \in ChatIds
      BY <1>1 DEF IInv, Informed
    <2> QED
      BY <2>1, <2>2, <1>1, <1>2 DEF IInv, NewestPlanKept
  <1>10. PlansShown'
    <2>1. Shown(p, chat[p])
      BY <1>1 DEF IInv, StoredSoFar, Shown
    <2>2. \A c \in ChatIds : plan[c] \in Posts => Shown(plan[c], c)
      BY DEF IInv, PlansShown
    <2>3. \A c \in ChatIds : plan'[c] \in Posts => Shown(plan'[c], c)
      BY <1>2, <2>1, <2>2
    <2> QED
      BY <2>3 DEF PlansShown, Shown
  <1>11. \A o \in Orders : OrderOK(o)'
    BY <1>1, RequestsAssumption DEF IInv, OrderOK, Shown
  <1>12. \A o \in Orders : UpToDate(o)'
    BY <1>1, RequestsAssumption, KeptUpToDate
  <1> QED
    BY <1>3, <1>4, <1>5, <1>6, <1>7, <1>8, <1>9, <1>10, <1>11, <1>12 DEF IInv

(* An order goes on.                                                       *)
LEMMA OrderStep ==
  ASSUME IInv, NEW o \in Orders, NEW s \in OrderStages \ {"idle"}, Goto(o, s),
         NEW c \in ChatIds, chat' = [chat EXCEPT ![o] = c],
         stage[o] # "idle" => c = chat[o],
         \/ /\ stage[o] = "idle" /\ s = "findOne"
            /\ earlier' = [earlier EXCEPT ![o] = AnsweredIn(c)]
            /\ UNCHANGED <<from, courses>>
         \/ /\ stage[o] = "findOne" /\ s = "course"
            /\ plan[c] # NoRow /\ from' = [from EXCEPT ![o] = plan[c]]
            /\ UNCHANGED <<earlier, courses>>
         \/ /\ stage[o] = "course" /\ s \in {"topics", "failed"}
            /\ s = "topics" => from[o] # NoPlan
            /\ courses' = courses \cup {o}
            /\ UNCHANGED <<earlier, from>>
         \/ /\ \/ stage[o] \in {"findOne", "course", "topics"} /\ s = "failed"
               \/ stage[o] = "topics" /\ s = "answered"
            /\ UNCHANGED <<earlier, from, courses>>,
         UNCHANGED <<stored, at, plan, hist, now>>
  PROVE  IInv'
  <1>1. /\ stage' \in [Requests -> {"idle"} \cup Running \cup Ended]
        /\ \A r \in Requests : r # o => stage'[r] = stage[r]
        /\ stage'[o] = s
    BY DEF Goto, IInv, TypeOK
  <1>2. /\ chat' \in [Requests -> ChatIds \cup {NoChat}]
        /\ \A r \in Requests : r # o => chat'[r] = chat[r]
        /\ chat'[o] = c
    BY DEF IInv, TypeOK
  <1>3. o \notin Posts /\ \A p \in Posts : stage'[p] = stage[p] /\ chat'[p] = chat[p]
    BY <1>1, <1>2, RequestsAssumption
  <1>4. /\ from' \in [Orders -> Posts \cup {NoPlan}]
        /\ \A q \in Orders : q # o => from'[q] = from[q]
        /\ earlier' \in [Requests -> SUBSET Posts]
        /\ \A r \in Requests : r # o => earlier'[r] = earlier[r]
        /\ courses' \subseteq Orders
        /\ \A q \in Orders : q # o => (q \in courses' <=> q \in courses)
    BY DEF IInv, TypeOK, AnsweredIn
  <1>a. \A p \in Posts : earlier'[p] = earlier[p]
    BY <1>3, <1>4
  <1>5. \A p \in Posts, m \in Messages :
          m \in hist[p] => m[1] # p /\ chat'[m[1]] = chat'[p]
    BY <1>3 DEF IInv, TypeOK
  <1>6. TypeOK'
    BY <1>1, <1>2, <1>4, <1>5 DEF IInv, TypeOK
  <1>7. Stages'
    BY <1>1, <1>3 DEF IInv, Stages
  <1>8. \A p \in Posts : StoredSoFar(p)'
    BY <1>3 DEF IInv, StoredSoFar
  <1>9. \A p \in Posts : Informed(p)'
    <2>1. \A p \in Posts : earlier[p] \subseteq Posts
      BY DEF IInv, TypeOK
    <2> QED
      BY <1>3, <1>a, <2>1 DEF IInv, Informed
  <1>10. \A p \in Posts : Timed(p)'
    BY <1>3 DEF IInv, Timed, Handed
  <1>11. HistoryComplete'
    BY <1>3, <1>a DEF IInv, HistoryComplete
  <1>12. NewestPlanKept'
    BY <1>3, <1>a DEF IInv, NewestPlanKept
  <1>13. PlansShown'
    <2>1. \A d \in ChatIds : plan[d] \in Posts => Shown(plan[d], d)
      BY DEF IInv, PlansShown
    <2> QED
      BY <2>1, <1>3 DEF PlansShown, Shown
  <1>14. \A q \in Orders : OrderOK(q)'
    <2> TAKE q \in Orders
    <2>1. OrderOK(q)
      BY DEF IInv
    <2>2. CASE q # o
      BY <2>1, <2>2, <1>1, <1>2, <1>3, <1>4 DEF OrderOK, Shown
    <2>3. CASE q = o
      <3>1. from'[o] \in Posts => <<from'[o], "plan">> \in stored /\ chat[from'[o]] = c
        <4>1. CASE from' = from
          BY <2>1, <2>3, <4>1, NullAssumption DEF OrderOK, Shown
        <4>2. CASE stage[o] = "findOne" /\ from' = [from EXCEPT ![o] = plan[c]]
          BY <4>2 DEF IInv, TypeOK, PlansShown, Shown
        <4> QED
          BY <4>1, <4>2
      <3>2. s = "findOne" => from'[o] = NoPlan
        BY <2>1, <2>3 DEF OrderOK
      <3>3. /\ o \in courses' => s \in Ended \cup {"topics"}
            /\ s \in {"topics", "answered"} => from'[o] # NoPlan
        BY <2>1, <2>3 DEF OrderOK
      <3>4. /\ stage'[o] = s /\ chat'[o] = c /\ s # "idle"
            /\ from'[o] \in Posts => chat'[from'[o]] = chat[from'[o]]
        BY <1>1, <1>2, <1>3
      <3> QED
        BY <2>3, <3>1, <3>2, <3>3, <3>4 DEF OrderOK, Shown
    <2> QED
      BY <2>2, <2>3
  <1>15. \A q \in Orders : UpToDate(q)'
    <2> TAKE q \in Orders
    <2>1. UpToDate(o) /\ OrderOK(o) /\ earlier[o] \subseteq Posts
      BY DEF IInv, TypeOK
    <2>2. CASE q # o
      BY <2>2, <1>1, <1>2, <1>3, <1>4, <1>a, KeptUpToDate
    <2>3. CASE q = o /\ stage[o] = "idle"
      <3>1. \A r \in earlier'[o] : r \in Posts /\ stage[r] = "answered" /\ chat[r] = c
        BY <2>3 DEF IInv, TypeOK, AnsweredIn
      <3>2. o \notin courses' /\ stage'[o] = "findOne" /\ chat'[o] = c
        BY <2>1, <2>3, <1>1, <1>2 DEF OrderOK
      <3> QED
        BY <2>3, <3>1, <3>2, <1>3 DEF UpToDate
    <2>4. CASE q = o /\ stage[o] = "findOne" /\ s = "course"
      <3>1. c = chat[o] /\ c \in ChatIds /\ from'[o] = plan[c] /\ plan[c] # NoRow
        BY <2>4 DEF IInv, TypeOK
      <3>2. \A r \in earlier[o] : r \in Posts /\ stage[r] = "answered" /\ chat[r] = c
        BY <2>1, <3>1 DEF UpToDate
      <3>3. \A r \in earlier[o] :
              <<r, "plan">> \in stored => plan[c] \in Posts \ earlier[r]
        BY <3>1, <3>2 DEF IInv, NewestPlanKept
      <3>4. earlier'[o] = earlier[o] /\ chat'[o] = c
        BY <2>4, <1>2
      <3> QED
        BY <2>4, <3>1, <3>2, <3>3, <3>4, <1>3, <1>a DEF UpToDate
    <2>5. CASE q = o /\ stage[o] \in {"course", "topics"}
      <3>1. chat'[o] = chat[o] /\ from'[o] = from[o] /\ earlier'[o] = earlier[o]
        BY <2>5, <1>2
      <3> QED
        BY <2>5, <3>1, <1>3, <1>a, KeptUpToDate
    <2>6. CASE q = o /\ stage[o] = "findOne" /\ s = "failed"
      <3>1. /\ chat'[o] = chat[o] /\ from'[o] = from[o] /\ earlier'[o] = earlier[o]
            /\ stage'[o] = "failed" /\ courses' = courses
        BY <2>6, <1>1, <1>2
      <3> QED
        BY <2>6, <3>1, <1>3, <1>a, KeptUpToDate
    <2> QED
      BY <2>2, <2>3, <2>4, <2>5, <2>6
  <1> QED
    BY <1>6, <1>7, <1>8, <1>9, <1>10, <1>11, <1>12, <1>13, <1>14, <1>15 DEF IInv

(* The end of the process: statements under way are done or not.           *)
LEMMA CrashStep ==
  ASSUME IInv, Crash
  PROVE  IInv'
  <1>1. PICK left \in SUBSET {r \in Requests : stage[r] \in Writing} :
          /\ stored' = stored \cup {<<p, Kind(stage[p])>> :
                          p \in {q \in left : stage[q] \in Storing}}
          /\ courses' = courses \cup (left \cap At("course"))
          /\ plan' \in [ChatIds -> Posts \cup {NoPlan, NoRow}]
          /\ \A c \in ChatIds :
               LET updates == {p \in left \cap At("update") : chat[p] = c}
               IN  plan'[c] \in IF plan[c] = NoRow \/ updates = {}
                                THEN {plan[c]} ELSE updates
    BY DEF Crash
  <1>2. /\ stage' \in [Requests -> {"idle"} \cup Running \cup Ended]
        /\ \A r \in Requests :
             stage'[r] = IF stage[r] \in Running THEN "failed" ELSE stage[r]
        /\ UNCHANGED <<chat, at, from, hist, now, earlier>>
    BY DEF Crash, IInv, TypeOK
  <1>3. \A p \in left : stage[p] \in Storing => p \in Posts /\ Kind(stage[p]) \in Kinds
    BY RequestsAssumption DEF IInv, Stages, Kind
  <1>4. \A p \in Posts, k \in Kinds : <<p, k>> \in stored' =>
          \/ <<p, k>> \in stored
          \/ stage[p] \in Storing /\ Kind(stage[p]) = k
    BY <1>1
  <1>5. stored \subseteq stored' /\ stored' \subseteq Messages
    BY <1>1, <1>3 DEF IInv, TypeOK
  <1>6. /\ courses \subseteq courses' /\ courses' \subseteq Orders
        /\ \A o \in courses' : o \in courses \/ stage[o] = "course"
    BY <1>1 DEF At, IInv, TypeOK, Stages
  <1>7. \A c \in ChatIds :
          \/ plan'[c] = plan[c]
          \/ /\ plan[c] # NoRow /\ plan'[c] \in Posts
             /\ stage[plan'[c]] = "update" /\ chat[plan'[c]] = c
    <2> TAKE c \in ChatIds
    <2> DEFINE updates == {p \in left \cap At("update") : chat[p] = c}
    <2>1. plan'[c] = plan[c] \/ (plan[c] # NoRow /\ plan'[c] \in updates)
      BY <1>1
    <2>2. \A p \in updates : p \in Posts /\ stage[p] = "update" /\ chat[p] = c
      BY DEF At, IInv, Stages
    <2> QED
      BY <2>1, <2>2
  <1>8. plan' \in [ChatIds -> Posts \cup {NoPlan, NoRow}]
    BY <1>1
  <1>9. TypeOK'
    BY <1>2, <1>5, <1>6, <1>8 DEF IInv, TypeOK
  <1>10. Stages'
    BY <1>2 DEF IInv, Stages
  <1>11. \A p \in Posts : StoredSoFar(p)'
    <2> TAKE p \in Posts
    <2>1. StoredSoFar(p) /\ stage[p] \in PostStages
      BY DEF IInv, Stages
    <2>2. /\ <<p, "answer">> \in stored' => <<p, "question">> \in stored'
          /\ <<p, "plan">> \in stored' => <<p, "answer">> \in stored'
      BY <2>1, <1>4, <1>5 DEF StoredSoFar, Kind
    <2>3. stage'[p] \in {"idle"} \cup Ended /\ (stage'[p] # "failed" => stage'[p] = stage[p])
      BY <2>1, <1>2
    <2>4. stage'[p] = "idle" => \A k \in Kinds : <<p, k>> \notin stored'
      BY <2>1, <2>3, <1>4 DEF StoredSoFar
    <2>5. stage'[p] = "answered" => {<<p, "question">>, <<p, "answer">>} \subseteq stored'
      BY <2>1, <2>3, <1>5 DEF StoredSoFar
    <2> QED
      BY <2>2, <2>3, <2>4, <2>5 DEF StoredSoFar
  <1>12. \A p \in Posts : Informed(p)'
    <2>1. \A p \in Posts : earlier[p] \subseteq Posts
      BY DEF IInv, TypeOK
    <2> QED
      BY <1>2, <2>1 DEF IInv, Informed
  <1>13. \A p \in Posts : Timed(p)'
    <2>1. \A p \in Posts, k \in Kinds : Handed(p, k)' => Handed(p, k)
      BY <1>2, <1>4 DEF Handed
    <2> QED
      BY <2>1, <1>2 DEF IInv, Timed
  <1>14. HistoryComplete'
    <2> SUFFICES ASSUME NEW p \in Posts,
                        stage'[p] \notin {"idle", "findAll", "failed"},
                        NEW q \in earlier[p]
                 PROVE  /\ {<<q, "question">>, <<q, "answer">>} \subseteq hist[p]
                        /\ \A k \in Kinds : <<q, k>> \in stored' => <<q, k>> \in hist[p]
      BY <1>2 DEF HistoryComplete
    <2>1. q \in Posts /\ stage[q] = "answered"
      BY DEF IInv, TypeOK, Informed
    <2>2. stage[p] \notin {"idle", "findAll", "failed"}
      BY <1>2
    <2>3. \A k \in Kinds : <<q, k>> \in stored' => <<q, k>> \in stored
      BY <2>1, <1>4
    <2> QED
      BY <2>2, <2>3 DEF IInv, HistoryComplete
  <1>15. NewestPlanKept'
    <2> SUFFICES ASSUME NEW p \in Posts, stage'[p] = "answered",
                        <<p, "plan">> \in stored', plan'[chat[p]] # NoRow
                 PROVE  plan'[chat[p]] \in Posts \ earlier[p]
      BY <1>2 DEF NewestPlanKept
    <2>1. stage[p] = "answered" /\ <<p, "plan">> \in stored /\ chat[p] \in ChatIds
      BY <1>2, <1>4 DEF IInv, Informed
    <2>2. \A q \in earlier[p] : stage[q] = "answered"
      BY DEF IInv, Informed
    <2> QED
      BY <2>1, <2>2, <1>7 DEF IInv, NewestPlanKept
  <1>16. PlansShown'
    <2> SUFFICES ASSUME NEW c \in ChatIds, plan'[c] \in Posts
                 PROVE  <<plan'[c], "plan">> \in stored' /\ chat[plan'[c]] = c
      BY <1>2 DEF PlansShown, Shown
    <2>1. CASE plan'[c] = plan[c]
      BY <2>1, <1>5 DEF IInv, PlansShown, Shown
    <2>2. CASE plan'[c] # plan[c]
      <3>1. stage[plan'[c]] = "update" /\ chat[plan'[c]] = c
        BY <2>2, <1>7
      <3> QED
        BY <3>1, <1>5 DEF IInv, StoredSoFar
    <2> QED
      BY <2>1, <2>2
  <1>17. \A o \in Orders : OrderOK(o)'
    <2> TAKE o \in Orders
    <2>1. OrderOK(o) /\ stage[o] \in OrderStages
      BY DEF IInv, Stages
    <2> QED
      BY <2>1, <1>2, <1>5, <1>6 DEF OrderOK, Shown
  <1>18. \A o \in Orders : UpToDate(o)'
    <2>1. \A q \in Posts : stage[q] = "answered" =>
            /\ stage'[q] = "answered"
            /\ <<q, "plan">> \in stored' => <<q, "plan">> \in stored
      BY <1>2, <1>4
    <2> QED
      BY <2>1, <1>2, <1>6, KeptUpToDate
  <1> QED
    BY <1>9, <1>10, <1>11, <1>12, <1>13, <1>14, <1>15, <1>16, <1>17, <1>18 DEF IInv

(* An awaited statement or exchange of a post is rejected, or of an order. *)
LEMMA ThrowStep ==
  ASSUME IInv, NEW r \in Requests, Throw(r)
  PROVE  IInv'
  <1>1. CASE r \in Posts
    <2>1. stage[r] \in PostStages
      BY <1>1 DEF IInv, Stages
    <2>2. PICK s \in {"excused", "failed"} :
            /\ Goto(r, s)
            /\ s = "excused" => stage[r] \in Asking \cup {"answer", "summary", "plan", "update"}
            /\ s = "failed" => stage[r] \in {"create", "findAll", "question", "findPlan"}
            /\ UNCHANGED <<chat, tables, from, hist, now, earlier>>
      BY <2>1 DEF Throw, tables
    <2>3. stage[r] \in Running
      BY <2>2
    <2> QED
      BY <1>1, <2>2, <2>3, MoveStep
  <1>2. CASE r \in Orders
    <2>1. OrderOK(r) /\ stage[r] \in OrderStages
      BY <1>2 DEF IInv, Stages
    <2>2. PICK s \in {"failed"} :
          /\ Goto(r, s) /\ stage[r] \in {"findOne", "course", "topics"}
          /\ UNCHANGED <<chat, tables, from, hist, now, earlier>>
      BY <2>1 DEF Throw
    <2>3. chat[r] \in ChatIds /\ chat' = [chat EXCEPT ![r] = chat[r]]
      BY <2>1, <2>2 DEF OrderOK, IInv, TypeOK
    <2> QED
      BY <1>2, <2>2, <2>3, OrderStep DEF tables
  <1> QED
    BY <1>1, <1>2

(* An order is made, its statements are settled and the remote answers it. *)
LEMMA OrderSteps ==
  ASSUME IInv, NEW o \in Orders, NEW c \in ChatIds,
         GenerateCourse(o, c) \/ PlanFound(o) \/ CourseStored(o) \/ TopicsMade(o)
  PROVE  IInv'
  <1>1. OrderOK(o)
    BY DEF IInv
  <1>2. CASE GenerateCourse(o, c)
    <2>1. PICK s \in {"findOne"} : Goto(o, s)
      BY <1>2 DEF GenerateCourse
    <2> QED
      BY <1>2, <2>1, OrderStep DEF GenerateCourse, tables
  <1>3. CASE PlanFound(o)
    <2>1. /\ stage[o] = "findOne" /\ chat[o] \in ChatIds
          /\ chat' = [chat EXCEPT ![o] = chat[o]]
      BY <1>1, <1>3 DEF OrderOK, PlanFound, IInv, TypeOK
    <2> UNCHANGED <<stored, at, plan, courses, hist, now, earlier>>
      BY <1>3 DEF PlanFound, tables
    <2>2. CASE plan[chat[o]] = NoRow
      <3>1. PICK s \in {"failed"} : Goto(o, s) /\ from' = from
        BY <1>3, <2>2 DEF PlanFound
      <3> QED
        BY <2>1, <3>1, OrderStep
    <2>3. CASE plan[chat[o]] # NoRow
      <3>1. PICK s \in {"course"} : Goto(o, s) /\ from' = [from EXCEPT ![o] = plan[chat[o]]]
        BY <1>3, <2>3 DEF PlanFound
      <3> QED
        BY <2>1, <2>3, <3>1, OrderStep
    <2> QED
      BY <2>2, <2>3
  <1>4. CASE CourseStored(o)
    <2>1. /\ stage[o] = "course" /\ chat[o] \in ChatIds
          /\ chat' = [chat EXCEPT ![o] = chat[o]]
      BY <1>1, <1>4 DEF OrderOK, CourseStored, IInv, TypeOK
    <2>2. PICK s \in {"topics", "failed"} : Goto(o, s) /\ (s = "topics" => from[o] # NoPlan)
      BY <1>4 DEF CourseStored
    <2> QED
      BY <1>4, <2>1, <2>2, OrderStep DEF CourseStored
  <1>5. CASE TopicsMade(o)
    <2>1. /\ stage[o] = "topics" /\ chat[o] \in ChatIds
          /\ chat' = [chat EXCEPT ![o] = chat[o]]
      BY <1>1, <1>5 DEF OrderOK, TopicsMade, IInv, TypeOK
    <2>2. PICK s \in {"answered"} : Goto(o, s)
      BY <1>5 DEF TopicsMade
    <2> QED
      BY <1>5, <2>1, <2>2, OrderStep DEF TopicsMade, tables
  <1> QED
    BY <1>2, <1>3, <1>4, <1>5

(* A clock tick changes nothing else.                                      *)
LEMMA TickStep ==
  ASSUME IInv, Tick
  PROVE  IInv'
  <1> USE DEF Tick, tables
  <1>1. TypeOK'
    BY ClockAssumption DEF IInv, TypeOK
  <1>2. Stages' /\ HistoryComplete' /\ NewestPlanKept' /\ PlansShown'
    BY DEF IInv, Stages, HistoryComplete, NewestPlanKept, PlansShown, Shown
  <1>3. \A p \in Posts : StoredSoFar(p)' /\ Informed(p)' /\ Timed(p)'
    BY DEF IInv, StoredSoFar, Informed, Timed, Handed
  <1>4. \A o \in Orders : OrderOK(o)' /\ UpToDate(o)'
    BY DEF IInv, OrderOK, UpToDate, Shown
  <1> QED
    BY <1>1, <1>2, <1>3, <1>4 DEF IInv

(* The steps of a post.                                                    *)
LEMMA PostSteps ==
  ASSUME IInv, NEW p \in Posts,
         InitChat(p) \/ Respond(p) \/ (\E c \in ChatIds : Talk(p, c)) \/ Settle(p)
  PROVE  IInv'
  <1> p \notin Orders
    BY RequestsAssumption
  <1>1. CASE InitChat(p)
    BY <1>1, BeginStep DEF InitChat
  <1>2. ASSUME NEW c \in ChatIds, Talk(p, c)
        PROVE  IInv'
    BY <1>2, BeginStep DEF Talk
  <1>3. CASE ChatCreated(p)
    BY <1>3, HandStep DEF ChatCreated
  <1>4. CASE FindAll(p)
    BY <1>4, HandStep DEF FindAll
  <1>5. CASE Mentor(p)
    BY <1>5, HandStep DEF Mentor
  <1>6. CASE Outline(p)
    BY <1>6, HandStep DEF Outline
  <1>7. CASE QuestionStored(p)
    BY <1>7, StoreStep DEF QuestionStored
  <1>8. CASE AnswerStored(p)
    <2>1. CASE stage[p] = "answer"
      BY <1>8, <2>1, StoreStep DEF AnswerStored
    <2>2. CASE stage[p] = "summary"
      BY <1>8, <2>2, StoreStep DEF AnswerStored
    <2> QED
      BY <1>8, <2>1, <2>2 DEF AnswerStored
  <1>9. CASE PlanStored(p)
    BY <1>9, StoreStep DEF PlanStored
  <1>10. CASE PlanHistory(p)
    BY <1>10, MoveStep DEF PlanHistory
  <1>11. CASE PlanUpdated(p)
    BY <1>11, UpdateStep
  <1> QED
    BY <1>1, <1>2, <1>3, <1>4, <1>5, <1>6, <1>7, <1>8, <1>9, <1>10, <1>11
    DEF Settle, Respond

LEMMA NextIInv ==
  ASSUME IInv, [Next]_vars
  PROVE  IInv'
  <1>1. ASSUME NEW p \in Posts, InitChat(p)
        PROVE  IInv'
    BY <1>1, PostSteps
  <1>2. ASSUME NEW p \in Posts, NEW c \in ChatIds, Talk(p, c)
        PROVE  IInv'
    BY <1>2, PostSteps
  <1>3. ASSUME NEW o \in Orders, NEW c \in ChatIds, GenerateCourse(o, c)
        PROVE  IInv'
    BY <1>3, OrderSteps
  <1>4. ASSUME NEW r \in Requests, Settle(r) \/ Respond(r)
        PROVE  IInv'
    <2>1. CASE r \in Posts
      BY <1>4, <2>1, PostSteps
    <2>2. CASE r \in Orders
      <3>1. r \notin Posts /\ (PlanFound(r) \/ CourseStored(r) \/ TopicsMade(r))
        BY <1>4, <2>2, RequestsAssumption DEF Settle, Respond
      <3>2. OrderOK(r) /\ stage[r] # "idle"
        BY <2>2, <3>1 DEF IInv, PlanFound, CourseStored, TopicsMade
      <3>3. chat[r] \in ChatIds
        BY <3>2 DEF OrderOK
      <3> QED
        BY <2>2, <3>1, <3>3, OrderSteps
    <2> QED
      BY <2>1, <2>2
  <1>5. ASSUME NEW r \in Requests, Throw(r)
        PROVE  IInv'
    BY <1>5, ThrowStep
  <1>6. CASE UNCHANGED vars
    <2> USE <1>6 DEF vars, tables
    <2>1. TypeOK' /\ Stages' /\ HistoryComplete' /\ NewestPlanKept' /\ PlansShown'
      BY DEF IInv, TypeOK, Stages, HistoryComplete, NewestPlanKept, PlansShown, Shown
    <2>2. \A p \in Posts : StoredSoFar(p)' /\ Informed(p)' /\ Timed(p)'
      BY DEF IInv, StoredSoFar, Informed, Timed, Handed
    <2>3. \A o \in Orders : OrderOK(o)' /\ UpToDate(o)'
      BY DEF IInv, OrderOK, UpToDate, Shown
    <2> QED
      BY <2>1, <2>2, <2>3 DEF IInv
  <1> QED
    BY <1>1, <1>2, <1>3, <1>4, <1>5, <1>6, CrashStep, TickStep DEF Next

(* The inductive invariant holds in every reachable state.                 *)
THEOREM Invariance == Spec => []IInv
  <1>1. Init => IInv
    BY InitIInv
  <1>2. IInv /\ [Next]_vars => IInv'
    BY NextIInv
  <1> QED
    BY <1>1, <1>2, PTL DEF Spec

(* Every variable keeps its type, for any number of posts, orders and      *)
(* chats: the first conjunct of the inductive invariant.                   *)
THEOREM TypeCorrect == Spec => []TypeOK
  <1>1. IInv => TypeOK
    BY DEF IInv
  <1> QED
    BY <1>1, Invariance, PTL

(* However posts interleave and whatever fails, an exchange is stored      *)
(* question first, then answer, then plan, and answered only when stored.  *)
THEOREM StoredFrontToBack == Spec => []FrontToBack
  <1>1. IInv => FrontToBack
    <2> SUFFICES ASSUME IInv, NEW p \in Posts
                 PROVE  /\ stage[p] \in Asking => <<p, "question">> \in stored
                        /\ <<p, "answer">> \in stored => <<p, "question">> \in stored
                        /\ <<p, "plan">> \in stored => <<p, "answer">> \in stored
                        /\ stage[p] = "answered" => <<p, "answer">> \in stored
      BY DEF FrontToBack
    <2>1. StoredSoFar(p)
      BY DEF IInv
    <2> QED
      BY <2>1 DEF StoredSoFar
  <1> QED
    BY <1>1, Invariance, PTL

(* What the remote is given with a post holds every exchange that had been *)
(* answered in the chat when the post was made.                            *)
THEOREM HistoriesComplete == Spec => []HistoryComplete
  <1>1. IInv => HistoryComplete
    BY DEF IInv
  <1> QED
    BY <1>1, Invariance, PTL

(* The order by createdAt never reverses what was written in knowledge of  *)
(* something else, however coarse the clock.                               *)
THEOREM CausallyOrdered == Spec => []CausalOrder
  <1>1. IInv => CausalOrder
    <2> SUFFICES ASSUME IInv, NEW p \in Posts, NEW k \in Kinds, <<p, k>> \in stored
                 PROVE  /\ \A m \in hist[p] : at[m] <= at[<<p, k>>]
                        /\ at[<<p, "question">>] <= at[<<p, k>>]
                        /\ k = "plan" => at[<<p, "answer">>] <= at[<<p, k>>]
      BY DEF CausalOrder
    <2> QED
      BY DEF IInv, Timed, Handed
  <1> QED
    BY <1>1, Invariance, PTL

(* The plan a client got is replaced only by that of a post that had not   *)
(* been answered when the client's post was made.                          *)
THEOREM PlansKept == Spec => []NewestPlanKept
  <1>1. IInv => NewestPlanKept
    BY DEF IInv
  <1> QED
    BY <1>1, Invariance, PTL

(* No course is made of a plan its chat has not shown, nor of one that had *)
(* given way to what a client was shown before the course was ordered.     *)
THEOREM PlansBehindCourses == Spec => []CoursesFromShownPlans
  <1>1. IInv => CoursesFromShownPlans
    <2> SUFFICES ASSUME IInv, NEW o \in courses
                 PROVE  /\ IF from[o] = NoPlan
                           THEN stage[o] \notin {"topics", "answered"}
                           ELSE <<from[o], "plan">> \in stored /\ chat[from[o]] = chat[o]
                        /\ \A q \in earlier[o] :
                             <<q, "plan">> \in stored => from[o] \in Posts \ earlier[q]
      BY DEF CoursesFromShownPlans
    <2>1. o \in Orders /\ OrderOK(o) /\ UpToDate(o) /\ from[o] \in Posts \cup {NoPlan}
      BY DEF IInv, TypeOK
    <2> QED
      BY <2>1 DEF OrderOK, UpToDate, Shown
  <1> QED
    BY <1>1, Invariance, PTL

-----------------------------------------------------------------------------
(***************************************************************************)
(* What a step of Chat may do: add to what is stored, and bring a request  *)
(* nearer to its answer.                                                   *)
(***************************************************************************)
(* No message, no createdAt and no course row is ever changed or removed,  *)
(* a request keeps its chat, and what a post read as its history, or an    *)
(* order as its plan, is read once.                                        *)
LogKept ==
  /\ \A m \in stored : m \in stored' /\ at'[m] = at[m]
  /\ courses \subseteq courses'
  /\ \A r \in Requests : stage[r] # "idle" => chat'[r] = chat[r]
  /\ \A p \in Posts : stage[p] # "findAll" => hist'[p] = hist[p]
  /\ \A o \in Orders : stage[o] # "findOne" => from'[o] = from[o]

(* A message that gets its time is not stored yet.                         *)
LEMMA HandOverKeeps ==
  ASSUME IInv, NEW p \in Posts, NEW s \in Storing, HandOver(p, s),
         <<p, Kind(s)>> \notin stored
  PROVE  \A m \in stored : at'[m] = at[m]
  <1>1. stored \subseteq Messages /\ at \in [Messages -> 0..now]
    BY DEF IInv, TypeOK
  <1> QED
    BY <1>1 DEF HandOver

LEMMA PostKeepsLog ==
  ASSUME IInv, NEW p \in Posts,
         InitChat(p) \/ Respond(p) \/ (\E c \in ChatIds : Talk(p, c))
           \/ (p \in Posts /\ Settle(p))
  PROVE  LogKept
  <1> p \notin Orders
    BY RequestsAssumption
  <1>a. /\ StoredSoFar(p)
        /\ stored \subseteq Messages /\ at \in [Messages -> 0..now]
        /\ chat \in [Requests -> ChatIds \cup {NoChat}]
        /\ hist \in [Posts -> SUBSET stored]
    BY DEF IInv, TypeOK
  <1> USE DEF LogKept, tables
  <1>1. CASE InitChat(p)
    BY <1>a, <1>1 DEF InitChat
  <1>2. ASSUME NEW c \in ChatIds, Talk(p, c) PROVE LogKept
    BY <1>a, <1>2 DEF Talk
  <1>3. CASE ChatCreated(p)
    <2>1. <<p, Kind("question")>> \notin stored
      BY <1>a, <1>3 DEF ChatCreated, StoredSoFar, Kind
    <2> QED
      BY <1>3, <2>1, HandOverKeeps DEF ChatCreated
  <1>4. CASE FindAll(p)
    <2>1. <<p, Kind("question")>> \notin stored
      BY <1>a, <1>4 DEF FindAll, StoredSoFar, Kind
    <2> QED
      BY <1>a, <1>4, <2>1, HandOverKeeps DEF FindAll
  <1>5. CASE Mentor(p)
    <2>1. \A s \in {"answer", "summary"} : <<p, Kind(s)>> \notin stored
      BY <1>a, <1>5 DEF Mentor, StoredSoFar, Kind
    <2> QED
      BY <1>5, <2>1, HandOverKeeps DEF Mentor
  <1>6. CASE Outline(p)
    <2>1. <<p, Kind("plan")>> \notin stored
      BY <1>a, <1>6 DEF Outline, StoredSoFar, Kind
    <2> QED
      BY <1>6, <2>1, HandOverKeeps DEF Outline
  <1>7. CASE QuestionStored(p) \/ AnswerStored(p) \/ PlanStored(p)
    BY <1>7 DEF QuestionStored, AnswerStored, PlanStored, Store
  <1>8. CASE PlanHistory(p) \/ PlanUpdated(p)
    BY <1>8 DEF PlanHistory, PlanUpdated
  <1> QED
    BY <1>1, <1>2, <1>3, <1>4, <1>5, <1>6, <1>7, <1>8 DEF Respond, Settle

LEMMA StepKeepsLog == IInv /\ [Next]_vars => LogKept
  <1> SUFFICES ASSUME IInv, [Next]_vars PROVE LogKept
    OBVIOUS
  <1>a. /\ chat \in [Requests -> ChatIds \cup {NoChat}]
        /\ from \in [Orders -> Posts \cup {NoPlan}]
    BY DEF IInv, TypeOK
  <1>1. ASSUME NEW o \in Orders, NEW c \in ChatIds, GenerateCourse(o, c)
        PROVE  LogKept
    BY <1>a, <1>1 DEF LogKept, GenerateCourse, tables
  <1>2. ASSUME NEW o \in Orders, PlanFound(o) PROVE LogKept
    <2>1. \A q \in Orders : stage[q] # "findOne" => from'[q] = from[q]
      BY <1>a, <1>2 DEF PlanFound
    <2> QED
      BY <1>2, <2>1 DEF LogKept, PlanFound, tables
  <1>3. ASSUME NEW o \in Orders, CourseStored(o) \/ TopicsMade(o) PROVE LogKept
    BY <1>3 DEF LogKept, CourseStored, TopicsMade, tables
  <1>4. ASSUME NEW r \in Requests, Settle(r) \/ Respond(r) PROVE LogKept
    BY <1>2, <1>3, <1>4, PostKeepsLog DEF Settle, Respond
  <1>5. ASSUME NEW r \in Requests, Throw(r) PROVE LogKept
    BY <1>5 DEF LogKept, Throw, tables
  <1>6. CASE Crash
    BY <1>6 DEF LogKept, Crash
  <1>7. CASE Tick
    BY <1>7 DEF LogKept, Tick, tables
  <1>8. CASE UNCHANGED vars
    BY <1>8 DEF LogKept, vars, tables
  <1> QED
    BY <1>1, <1>4, <1>5, <1>6, <1>7, <1>8, PostKeepsLog DEF Next

(* The log of a chat is append-only, whatever interleaves or crashes: a    *)
(* history read later holds what a history read earlier held, as it was.   *)
THEOREM LogAppendOnly == Spec => [][LogKept]_vars
  <1>1. IInv /\ [Next]_vars => [LogKept]_vars
    BY StepKeepsLog
  <1> QED
    BY <1>1, Invariance, PTL DEF Spec

(* The steps a request may still take, at most.                            *)
StepsFrom ==
  [idle |-> 10, create |-> 9, findAll |-> 9, question |-> 8, mentor |-> 7,
   answer |-> 6, summary |-> 6, findPlan |-> 5, outline |-> 4, plan |-> 3,
   update |-> 2, findOne |-> 9, course |-> 8, topics |-> 7,
   answered |-> 0, excused |-> 0, failed |-> 0]

(* A step is a tick of the clock, or brings a request forward and none     *)
(* back.                                                                   *)
Forward ==
  /\ \A r \in Requests :
       stage'[r] = stage[r] \/ StepsFrom[stage'[r]] < StepsFrom[stage[r]]
  /\ now' = now + 1 \/ \E r \in Requests : stage'[r] # stage[r]

LEMMA GoesForward ==
  ASSUME TypeOK, NEW r \in Requests, NEW s \in Running \cup Ended, Goto(r, s),
         StepsFrom[s] < StepsFrom[stage[r]]
  PROVE  Forward
  <1>1. \A q \in Requests : stage'[q] = IF q = r THEN s ELSE stage[q]
    BY DEF Goto, TypeOK
  <1>2. StepsFrom[s] # StepsFrom[stage[r]]
    BY DEF StepsFrom, TypeOK
  <1>3. s # stage[r]
    BY <1>2
  <1> QED
    BY <1>1, <1>3 DEF Forward

LEMMA StepForward == IInv /\ Next => Forward
  <1> SUFFICES ASSUME IInv, Next PROVE Forward
    OBVIOUS
  <1>a. TypeOK
    BY DEF IInv
  <1>b. ASSUME NEW r \in Requests, NEW s \in Running \cup Ended, Goto(r, s),
               StepsFrom[s] < StepsFrom[stage[r]]
        PROVE  Forward
    BY <1>a, <1>b, GoesForward
  <1>c. ASSUME NEW r \in Requests, NEW s \in Ended, Goto(r, s), stage[r] \in Running
        PROVE  Forward
    BY <1>b, <1>c DEF StepsFrom
  <1>1. ASSUME NEW p \in Posts, InitChat(p) PROVE Forward
    BY <1>b, <1>1 DEF InitChat, StepsFrom
  <1>2. ASSUME NEW p \in Posts, NEW c \in ChatIds, Talk(p, c) PROVE Forward
    BY <1>b, <1>2 DEF Talk, StepsFrom
  <1>3. ASSUME NEW p \in Posts, ChatCreated(p) \/ FindAll(p) PROVE Forward
    BY <1>b, <1>3 DEF ChatCreated, FindAll, HandOver, StepsFrom
  <1>4. ASSUME NEW p \in Posts, Mentor(p) \/ Outline(p) PROVE Forward
    BY <1>b, <1>4 DEF Mentor, Outline, HandOver, StepsFrom
  <1>5. ASSUME NEW p \in Posts, QuestionStored(p) PROVE Forward
    BY <1>b, <1>5 DEF QuestionStored, StepsFrom
  <1>6. ASSUME NEW p \in Posts, AnswerStored(p) PROVE Forward
    BY <1>b, <1>c, <1>6 DEF AnswerStored, StepsFrom
  <1>7. ASSUME NEW p \in Posts, PlanStored(p) PROVE Forward
    BY <1>b, <1>7 DEF PlanStored, StepsFrom
  <1>8. ASSUME NEW p \in Posts, PlanHistory(p) PROVE Forward
    BY <1>b, <1>8 DEF PlanHistory, StepsFrom
  <1>9. ASSUME NEW p \in Posts, PlanUpdated(p) PROVE Forward
    BY <1>c, <1>9 DEF PlanUpdated
  <1>10. ASSUME NEW o \in Orders, NEW c \in ChatIds, GenerateCourse(o, c)
         PROVE  Forward
    BY <1>b, <1>10 DEF GenerateCourse, StepsFrom
  <1>11. ASSUME NEW o \in Orders, PlanFound(o) PROVE Forward
    BY <1>b, <1>c, <1>11 DEF PlanFound, StepsFrom
  <1>12. ASSUME NEW o \in Orders, CourseStored(o) PROVE Forward
    BY <1>b, <1>c, <1>12 DEF CourseStored, StepsFrom
  <1>13. ASSUME NEW r \in Requests, Throw(r) PROVE Forward
    BY <1>c, <1>13 DEF Throw
  <1>14. CASE Crash
    <2>1. \A r \in Requests :
            stage'[r] = IF stage[r] \in Running THEN "failed" ELSE stage[r]
      BY <1>14 DEF Crash
    <2>2. \E r \in Requests : stage[r] \in Running
      BY <1>14 DEF Crash
    <2>3. \A s \in Running : StepsFrom["failed"] < StepsFrom[s]
      BY DEF StepsFrom
    <2> QED
      BY <2>1, <2>2, <2>3 DEF Forward
  <1>15. CASE Tick
    BY <1>15 DEF Tick, Forward
  <1>16. ASSUME NEW r \in Requests, Respond(r) PROVE Forward
    <2>1. ASSUME NEW o \in Orders, TopicsMade(o) PROVE Forward
      BY <1>c, <2>1 DEF TopicsMade
    <2> QED
      BY <1>4, <1>16, <2>1 DEF Respond
  <1>17. ASSUME NEW r \in Requests, Settle(r) PROVE Forward
    BY <1>3, <1>5, <1>6, <1>7, <1>8, <1>9, <1>11, <1>12, <1>17 DEF Settle
  <1> QED
    BY <1>1, <1>2, <1>10, <1>13, <1>14, <1>15, <1>16, <1>17 DEF Next

(* A request takes at most ten steps to its answer, and nothing the others *)
(* do adds one: with the fairness of the database and the remote's answers *)
(* this is why every client is answered.                                   *)
THEOREM StepsRunOut == Spec => [][Forward]_vars
  <1>1. IInv /\ [Next]_vars => [Forward]_vars
    BY StepForward
  <1> QED
    BY <1>1, Invariance, PTL DEF Spec
=============================================================================
