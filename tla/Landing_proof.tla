--------------------------- MODULE Landing_proof ---------------------------
(***************************************************************************)
(* Proofs about Landing, for any requests, browsers, ids and addresses and *)
(* any bound on the writes under way.                                      *)
(***************************************************************************)
EXTENDS Landing, TLAPS

(* The ids the handlers know were drawn.                                   *)
KnownDrawn == \A r \in Requests : h[r].id \in drawn \cup {NoId}

(* An id not drawn has no document, and no write is under way for it.      *)
UndrawnUnused ==
  /\ \A i \in Ids \ drawn : docs[i] = NoDoc
  /\ \A x \in Writes : pending[x] > 0 => x.id \in drawn

(* At most one insert is under way for an id.                              *)
InsertedOnce ==
  \A x, y \in Inserts :
    x.id = y.id /\ pending[x] > 0 => pending[x] = 1 /\ (pending[y] > 0 => y = x)

(* The inductive invariant.                                                *)
IInv ==
  /\ TypeOK
  /\ SavesFindDocuments
  /\ KnownDrawn
  /\ UndrawnUnused
  /\ InsertedOnce

(* What the operations are told apart by.                                  *)
LEMMA OpFacts ==
  /\ \A x \in Inserts : x.op = "insert" /\ x.id \in Ids /\ x.country \in Countries
  /\ \A x \in Updates : x.op = "flag" /\ x.id \in Ids /\ x.flag \in Flags
  /\ \A x \in Saves : /\ x.op = "push" /\ x.id \in Ids
                      /\ x.email \in Emails /\ x.country \in Countries
  /\ Inserts \subseteq Writes /\ Updates \subseteq Writes /\ Saves \subseteq Writes
  /\ \A x \in Writes : /\ x.op = "insert" => x \in Inserts
                       /\ x.op = "flag" => x \in Updates
                       /\ x.op = "push" => x \in Saves
                       /\ x.op \in {"insert", "flag", "push"}
  BY DEF Writes, Inserts, Updates, Saves, Countries

LEMMA InitIInv == Init => IInv
  BY NullAssumption DEF Init, IInv, TypeOK, SavesFindDocuments, KnownDrawn,
     UndrawnUnused, InsertedOnce, Writes, Inserts, Updates, Saves, Idle, Pcs,
     Handlers

(* A new document is one.                                                  *)
LEMMA NewDocType ==
  ASSUME NEW k \in Countries
  PROVE  NewDoc(k) \in Doc /\ NewDoc(k) # NoDoc
  BY NoDocAssumption DEF NewDoc, Doc

(* A write makes a document of a document, and only an insert makes one.   *)
LEMMA AppliedType ==
  ASSUME NEW x \in Writes, NEW d \in Doc \cup {NoDoc}
  PROVE  /\ Applied(x, d) \in Doc \cup {NoDoc}
         /\ d # NoDoc \/ x \in Inserts => Applied(x, d) \in Doc
         /\ d = NoDoc /\ x \notin Inserts => Applied(x, d) = NoDoc
  <1>1. CASE x \in Inserts
    BY <1>1, OpFacts, NewDocType DEF Applied
  <1>2. CASE x \notin Inserts /\ d = NoDoc
    BY <1>2, OpFacts, NoDocAssumption DEF Applied
  <1>3. CASE x \in Updates /\ d # NoDoc
    BY <1>3, OpFacts DEF Applied, Doc
  <1>4. CASE x \in Saves /\ d # NoDoc
    <2> DEFINE em == [d.emails EXCEPT ![x.email] = @ + 1]
               co == IF x.country = "none" THEN d.country ELSE x.country
    <2>1. d \in Doc /\ em \in [Emails -> Nat] /\ co \in Countries
      BY <1>4, OpFacts DEF Doc
    <2>2. Applied(x, d) = [d EXCEPT !.emails = em, !.country = co]
      BY <1>4, OpFacts DEF Applied
    <2> HIDE DEF em, co
    <2>3. Applied(x, d) \in Doc
      BY <2>1, <2>2 DEF Doc
    <2> QED
      BY <1>4, <2>3, OpFacts
  <1> QED
    BY <1>1, <1>2, <1>3, <1>4, OpFacts DEF Writes

(* What is under way once writes S are handed over.                        *)
LEMMA HandOverFacts ==
  ASSUME TypeOK, NEW S, HandOver(S)
  PROVE  /\ pending' \in [Writes -> Nat]
         /\ \A x \in Writes :
              pending'[x] = pending[x] + (IF x \in S THEN 1 ELSE 0)
  BY DEF TypeOK, HandOver

(* A request that creates its visitor's document if there is none, and     *)
(* clicks F for it, keeps the invariant.                                   *)
LEMMA IdentifyStep ==
  ASSUME IInv, NEW r \in Requests, NEW i \in Ids, NEW new \in BOOLEAN,
         Identify(r, i, new), NEW F \in SUBSET Updates, \A x \in F : x.id = i,
         HandOver(Created(r, i, new) \cup F), UNCHANGED docs,
         h' \in [Requests -> Handlers],
         \A q \in Requests : h'[q].id \in drawn \cup {i, NoId},
         \A q \in Requests : h'[q].pc = "findById" => h'[q].id \in drawn \cup {i},
         cookie' \in [Visitors -> drawn \cup {i, NoId}]
  PROVE  IInv'
  <1> DEFINE S == Created(r, i, new) \cup F
  <1>1. /\ pending' \in [Writes -> Nat] /\ pending \in [Writes -> Nat]
        /\ \A x \in Writes :
             pending'[x] = pending[x] + (IF x \in S THEN 1 ELSE 0)
    BY HandOverFacts DEF IInv, TypeOK
  <1>2. drawn' = drawn \cup {i} /\ drawn \subseteq Ids
    BY DEF Identify, IInv, TypeOK
  <1>3. /\ \A x \in S : x.id = i /\ x.op # "push"
        /\ \A x, y \in S : x.op = "insert" /\ y.op = "insert" => x = y
        /\ \A x \in S : x.op = "insert" => i \notin drawn
    <2>1. \A x \in F : x.id = i /\ x.op = "flag"
      BY OpFacts
    <2>2. \A x \in Created(r, i, new) : x.id = i /\ x.op = "insert" /\ new
      BY DEF Created
    <2>3. \A x, y \in Created(r, i, new) : x = y
      BY DEF Created
    <2>4. new => i \notin drawn
      BY DEF Identify
    <2> QED
      BY <2>1, <2>2, <2>3, <2>4
  <1> HIDE DEF S
  <1>4. TypeOK'
    BY <1>1, <1>2 DEF IInv, TypeOK
  <1>5. SavesFindDocuments'
    BY <1>1, <1>3, OpFacts DEF IInv, SavesFindDocuments, UndrawnUnused
  <1>6. KnownDrawn'
    BY <1>2 DEF KnownDrawn
  <1>7. UndrawnUnused'
    BY <1>1, <1>2, <1>3 DEF IInv, UndrawnUnused
  <1>8. InsertedOnce'
    BY <1>1, <1>3, OpFacts DEF IInv, InsertedOnce, UndrawnUnused
  <1> QED
    BY <1>4, <1>5, <1>6, <1>7, <1>8 DEF IInv

(* An answer leaves the handlers and the cookies with ids drawn or i.      *)
LEMMA AnswerFacts ==
  ASSUME IInv, NEW r \in Requests, NEW i \in Ids, NEW new \in BOOLEAN,
         Answer(r, i, new)
  PROVE  /\ h' \in [Requests -> Handlers]
         /\ \A q \in Requests : h'[q].id \in drawn \cup {i, NoId}
         /\ \A q \in Requests : h'[q].pc = "findById" => h'[q].id \in drawn \cup {i}
         /\ cookie' \in [Visitors -> drawn \cup {i, NoId}]
  <1>1. Idle \in Handlers /\ Idle.id = NoId /\ Idle.pc # "findById"
    BY DEF Idle, Handlers, Pcs
  <1> QED
    BY <1>1 DEF Answer, IInv, TypeOK, KnownDrawn

(* IInv is inductive: one step per action.                                 *)
LEMMA NextIInv == IInv /\ [Next]_vars => IInv'
  <1> SUFFICES ASSUME IInv, [Next]_vars PROVE IInv'
    OBVIOUS
  <1>a. /\ docs \in [Ids -> Doc \cup {NoDoc}] /\ drawn \subseteq Ids
        /\ pending \in [Writes -> Nat] /\ h \in [Requests -> Handlers]
        /\ cookie \in [Visitors -> drawn \cup {NoId}]
    BY DEF IInv, TypeOK
  <1>1. ASSUME NEW r \in Requests, NEW v \in Visitors, NEW located \in Lookups,
               NEW pc \in {"visit", "saveEmail"} \cup Flags,
               NEW e \in Emails \cup {Empty}, Send(r, v, pc, e, located)
        PROVE  IInv'
    <2> DEFINE x == [pc |-> pc, visitor |-> v, id |-> cookie[v], email |-> e,
                     located |-> located, new |-> FALSE]
    <2>1. x \in Handlers /\ x.id \in drawn \cup {NoId} /\ x.pc # "findById"
      BY <1>a, LookupsAssumption, FlagsAssumption DEF Handlers, Pcs
    <2>2. h' = [h EXCEPT ![r] = x] /\ UNCHANGED <<docs, drawn, pending, cookie>>
      BY <1>1 DEF Send
    <2> HIDE DEF x
    <2>3. TypeOK' /\ KnownDrawn'
      BY <2>1, <2>2 DEF IInv, TypeOK, KnownDrawn
    <2> QED
      BY <2>2, <2>3 DEF IInv, SavesFindDocuments, UndrawnUnused, InsertedOnce
  <1>2. ASSUME NEW r \in Requests, Visit(r) PROVE IInv'
    <2> PICK i \in Ids, new \in BOOLEAN :
          /\ Identify(r, i, new) /\ HandOver(Created(r, i, new))
          /\ Answer(r, i, new) /\ UNCHANGED docs
      BY <1>2 DEF Visit
    <2> DEFINE F == {}
    <2>1. /\ F \in SUBSET Updates /\ \A x \in F : x.id = i
          /\ HandOver(Created(r, i, new) \cup F)
      OBVIOUS
    <2> HIDE DEF F
    <2>2. /\ h' \in [Requests -> Handlers]
          /\ \A q \in Requests : h'[q].id \in drawn \cup {i, NoId}
          /\ \A q \in Requests : h'[q].pc = "findById" => h'[q].id \in drawn \cup {i}
          /\ cookie' \in [Visitors -> drawn \cup {i, NoId}]
      BY AnswerFacts
    <2> QED
      BY <2>1, <2>2, IdentifyStep
  <1>3. ASSUME NEW r \in Requests, Click(r) PROVE IInv'
    <2> PICK i \in Ids, new \in BOOLEAN :
          /\ Identify(r, i, new) /\ Answer(r, i, new) /\ UNCHANGED docs
          /\ HandOver(Created(r, i, new)
                        \cup {[op |-> "flag", id |-> i, flag |-> h[r].pc]})
      BY <1>3 DEF Click
    <2> DEFINE F == {[op |-> "flag", id |-> i, flag |-> h[r].pc]}
    <2>1. /\ F \in SUBSET Updates /\ \A x \in F : x.id = i
          /\ HandOver(Created(r, i, new) \cup F)
      BY <1>3 DEF Click, Updates
    <2> HIDE DEF F
    <2>2. /\ h' \in [Requests -> Handlers]
          /\ \A q \in Requests : h'[q].id \in drawn \cup {i, NoId}
          /\ \A q \in Requests : h'[q].pc = "findById" => h'[q].id \in drawn \cup {i}
          /\ cookie' \in [Visitors -> drawn \cup {i, NoId}]
      BY AnswerFacts
    <2> QED
      BY <2>1, <2>2, IdentifyStep
  <1>4. ASSUME NEW r \in Requests, FindEmails(r) PROVE IInv'
    <2> DEFINE F == {}
               GoesOn(i, new) ==
                 /\ h' = [h EXCEPT ![r].pc = "findById", ![r].id = i, ![r].new = new]
                 /\ UNCHANGED cookie
    <2> PICK i \in Ids, new \in BOOLEAN :
          /\ Identify(r, i, new) /\ HandOver(Created(r, i, new)) /\ UNCHANGED docs
          /\ Answer(r, i, new) \/ GoesOn(i, new)
      BY <1>4 DEF FindEmails
    <2>1. /\ F \in SUBSET Updates /\ \A x \in F : x.id = i
          /\ HandOver(Created(r, i, new) \cup F)
      OBVIOUS
    <2> HIDE DEF F, GoesOn
    <2>2. CASE Answer(r, i, new)
      <3>1. /\ h' \in [Requests -> Handlers]
            /\ \A q \in Requests : h'[q].id \in drawn \cup {i, NoId}
            /\ \A q \in Requests : h'[q].pc = "findById" => h'[q].id \in drawn \cup {i}
            /\ cookie' \in [Visitors -> drawn \cup {i, NoId}]
        BY <2>2, AnswerFacts
      <3> QED
        BY <2>1, <3>1, IdentifyStep
    <2>3. CASE GoesOn(i, new)
      <3> DEFINE x == [h[r] EXCEPT !.pc = "findById", !.id = i, !.new = new]
      <3>1. x \in Handlers /\ x.id = i /\ x.pc = "findById"
        <4>1. h[r] \in Handlers /\ "findById" \in Pcs
          BY <1>a DEF Pcs
        <4> QED
          BY <4>1 DEF Handlers
      <3>2. h' = [h EXCEPT ![r] = x]
        BY <2>3 DEF GoesOn
      <3> HIDE DEF x
      <3>3. /\ h' \in [Requests -> Handlers]
            /\ \A q \in Requests : h'[q].id \in drawn \cup {i, NoId}
            /\ \A q \in Requests : h'[q].pc = "findById" => h'[q].id \in drawn \cup {i}
        BY <3>1, <3>2 DEF IInv, TypeOK, KnownDrawn
      <3>4. cookie' \in [Visitors -> drawn \cup {i, NoId}]
        BY <1>a, <2>3 DEF GoesOn
      <3> QED
        BY <2>1, <3>3, <3>4, IdentifyStep
    <2> QED
      BY <2>2, <2>3
  <1>5. ASSUME NEW r \in Requests, FindById(r) PROVE IInv'
    <2> DEFINE i == h[r].id
               x == [op |-> "push", id |-> i, email |-> h[r].email,
                     country |-> Located(r, docs[i])]
    <2>1. i \in drawn /\ i \in Ids /\ h[r].new \in BOOLEAN
      BY <1>5, <1>a DEF FindById, IInv, TypeOK, Handlers
    <2>2. /\ h' \in [Requests -> Handlers]
          /\ \A q \in Requests : h'[q].id \in drawn \cup {NoId}
          /\ \A q \in Requests : h'[q].pc = "findById" => h'[q].id \in drawn
          /\ cookie' \in [Visitors -> drawn \cup {NoId}]
      <3>1. Answer(r, i, h[r].new)
        BY <1>5 DEF FindById
      <3> QED
        BY <2>1, <3>1, AnswerFacts
    <2>3. UNCHANGED <<docs, drawn>>
      BY <1>5 DEF FindById
    <2>4. CASE UNCHANGED pending
      BY <2>2, <2>3, <2>4 DEF IInv, TypeOK, SavesFindDocuments, KnownDrawn,
         UndrawnUnused, InsertedOnce
    <2>5. CASE docs[i] # NoDoc /\ HandOver({x})
      <3>1. /\ pending' \in [Writes -> Nat]
            /\ \A y \in Writes : pending'[y] = pending[y] + (IF y = x THEN 1 ELSE 0)
        BY <2>5, HandOverFacts DEF IInv
      <3>2. x.op = "push" /\ x.id = i
        OBVIOUS
      <3> HIDE DEF x
      <3>3. TypeOK' /\ KnownDrawn'
        BY <2>2, <2>3, <3>1 DEF IInv, TypeOK, KnownDrawn
      <3>4. SavesFindDocuments'
        BY <1>a, <2>3, <2>5, <3>1, <3>2, OpFacts DEF IInv, SavesFindDocuments
      <3>5. UndrawnUnused'
        BY <1>a, <2>1, <2>3, <3>1, <3>2 DEF IInv, UndrawnUnused
      <3>6. InsertedOnce'
        BY <1>a, <3>1, <3>2, OpFacts DEF IInv, InsertedOnce
      <3> QED
        BY <3>3, <3>4, <3>5, <3>6 DEF IInv
    <2> QED
      BY <1>5, <2>4, <2>5 DEF FindById
  <1>6. ASSUME NEW x \in Writes, Apply(x) PROVE IInv'
    <2>1. /\ pending[x] > 0 /\ pending' \in [Writes -> Nat]
          /\ \A y \in Writes : pending'[y] = IF y = x THEN pending[y] - 1 ELSE pending[y]
      BY <1>6, <1>a DEF Apply
    <2>2. /\ docs' = [docs EXCEPT ![x.id] = Applied(x, docs[x.id])]
          /\ UNCHANGED <<drawn, cookie, h>> /\ x.id \in drawn
      BY <1>6, <2>1 DEF Apply, IInv, UndrawnUnused
    <2>3. /\ Applied(x, docs[x.id]) \in Doc \cup {NoDoc}
          /\ docs[x.id] # NoDoc \/ x \in Inserts => Applied(x, docs[x.id]) # NoDoc
          /\ docs[x.id] = NoDoc /\ x \notin Inserts => Applied(x, docs[x.id]) = NoDoc
      BY <1>a, <2>2, AppliedType, NoDocAssumption
    <2>4. TypeOK' /\ KnownDrawn'
      BY <1>a, <2>1, <2>2, <2>3 DEF IInv, TypeOK, KnownDrawn
    <2>5. SavesFindDocuments'
      BY <1>a, <2>1, <2>2, <2>3, OpFacts DEF IInv, SavesFindDocuments, InsertedOnce
    <2>6. UndrawnUnused'
      BY <1>a, <2>1, <2>2 DEF IInv, UndrawnUnused
    <2>7. InsertedOnce'
      BY <1>a, <2>1, OpFacts DEF IInv, InsertedOnce
    <2> QED
      BY <2>4, <2>5, <2>6, <2>7 DEF IInv
  <1>7. ASSUME NEW x \in Writes, WriteFails(x) PROVE IInv'
    <2> PICK left \in [Outstanding -> 0..MaxWrites] :
          /\ \A y \in Outstanding : left[y] <= pending[y]
          /\ pending' = [y \in Writes |-> IF y \in Outstanding THEN left[y] ELSE 0]
      BY <1>7 DEF WriteFails
    <2>1. /\ pending' \in [Writes -> Nat]
          /\ \A y \in Writes : pending'[y] <= pending[y]
      BY <1>a, MaxWritesAssumption DEF Outstanding
    <2>2. h' = [r \in Requests |-> Idle] /\ UNCHANGED <<docs, drawn, cookie>>
      BY <1>7 DEF WriteFails
    <2>3. Idle \in Handlers /\ Idle.id = NoId /\ Idle.pc # "findById"
      BY DEF Idle, Handlers, Pcs
    <2>4. TypeOK' /\ KnownDrawn'
      BY <2>1, <2>2, <2>3 DEF IInv, TypeOK, KnownDrawn
    <2>5. SavesFindDocuments'
      BY <1>a, <2>1, <2>2, OpFacts DEF IInv, SavesFindDocuments
    <2>6. UndrawnUnused'
      BY <1>a, <2>1, <2>2 DEF IInv, UndrawnUnused
    <2>7. InsertedOnce'
      BY <1>a, <2>1, OpFacts DEF IInv, InsertedOnce
    <2> QED
      BY <2>4, <2>5, <2>6, <2>7 DEF IInv
  <1>8. CASE UNCHANGED vars
    BY <1>8 DEF vars, IInv, TypeOK, SavesFindDocuments, KnownDrawn, UndrawnUnused,
       InsertedOnce
  <1> QED
    BY <1>1, <1>2, <1>3, <1>4, <1>5, <1>6, <1>7, <1>8 DEF Next, Handle

(* The inductive invariant holds in every reachable state.                 *)
THEOREM Invariance == Spec => []IInv
  BY InitIInv, NextIInv, PTL DEF Spec

(* Type correctness of the landing page's service.                         *)
THEOREM TypeCorrect == Spec => []TypeOK
  <1>1. IInv => TypeOK
    BY DEF IInv
  <1> QED
    BY <1>1, Invariance, PTL

(* A save finds its document and an insert replaces none, for any number   *)
(* of requests, whatever was lost in crashes.                              *)
THEOREM SavesFind == Spec => []SavesFindDocuments
  <1>1. IInv => SavesFindDocuments
    BY DEF IInv
  <1> QED
    BY <1>1, Invariance, PTL

-----------------------------------------------------------------------------
(* Only Apply changes a document, and only a document lookup hands over a  *)
(* save.                                                                   *)
LEMMA DocsUnchanged ==
  ASSUME [Next]_vars, \A x \in Writes : ~Apply(x)
  PROVE  UNCHANGED docs
  BY DEF Next, Handle, Send, Visit, Click, FindEmails, FindById, WriteFails, vars

LEMMA SavesHandedOver ==
  ASSUME IInv, [Next]_vars, \A r \in Requests : ~FindById(r),
         NEW x \in Saves
  PROVE  pending'[x] > 0 => pending[x] > 0
  <1>1. x \in Writes /\ x.op = "push" /\ TypeOK /\ pending \in [Writes -> Nat]
    BY OpFacts DEF IInv, TypeOK
  <1>2. ASSUME NEW r \in Requests, NEW i \in Ids, NEW new \in BOOLEAN,
               NEW F, \A y \in F : y.op = "flag",
               HandOver(Created(r, i, new) \cup F)
        PROVE  pending'[x] = pending[x]
    <2>1. x \notin Created(r, i, new) \cup F
      BY <1>1, <1>2 DEF Created
    <2> QED
      BY <1>1, <1>2, <2>1, HandOverFacts
  <1>3. ASSUME NEW r \in Requests, Visit(r) \/ FindEmails(r)
        PROVE  pending'[x] = pending[x]
    <2> DEFINE F == {}
    <2>1. \A y \in F : y.op = "flag"
      OBVIOUS
    <2> PICK i \in Ids, new \in BOOLEAN : HandOver(Created(r, i, new) \cup F)
      BY <1>3 DEF Visit, FindEmails
    <2> HIDE DEF F
    <2> QED
      BY <1>2, <2>1
  <1>4. ASSUME NEW r \in Requests, Click(r)
        PROVE  pending'[x] = pending[x]
    <2> DEFINE F(i) == {[op |-> "flag", id |-> i, flag |-> h[r].pc]}
    <2> PICK i \in Ids, new \in BOOLEAN : HandOver(Created(r, i, new) \cup F(i))
      BY <1>4 DEF Click
    <2>1. \A y \in F(i) : y.op = "flag"
      OBVIOUS
    <2> HIDE DEF F
    <2> QED
      BY <1>2, <2>1
  <1>5. ASSUME NEW y \in Writes, Apply(y) \/ WriteFails(y)
        PROVE  pending'[x] > 0 => pending[x] > 0
    <2>1. CASE Apply(y)
      BY <1>1, <2>1 DEF Apply
    <2>2. CASE WriteFails(y)
      BY <1>1, <2>2, MaxWritesAssumption DEF WriteFails, Outstanding
    <2> QED
      BY <1>5, <2>1, <2>2
  <1> QED
    BY <1>3, <1>4, <1>5 DEF Next, Handle, Send, vars

(* A write applied takes nothing from a document that is there.            *)
LEMMA AppliedKeeps ==
  ASSUME NEW x \in Writes, NEW d \in Doc, x \notin Inserts
  PROVE  /\ d.flags \subseteq Applied(x, d).flags
         /\ \A e \in Emails : d.emails[e] <= Applied(x, d).emails[e]
         /\ \A e \in Emails :
              Applied(x, d).emails[e] # d.emails[e] => x \in Saves /\ x.email = e
         /\ Applied(x, d).country # d.country => x \in Saves /\ x.country # "none"
  <1>a. d # NoDoc
    BY NoDocAssumption
  <1>1. CASE x \in Updates
    <2>1. Applied(x, d) = [d EXCEPT !.flags = @ \cup {x.flag}]
      BY <1>a, <1>1, OpFacts DEF Applied
    <2> QED
      BY <2>1 DEF Doc
  <1>2. CASE x \in Saves
    <2> DEFINE em == [d.emails EXCEPT ![x.email] = @ + 1]
               co == IF x.country = "none" THEN d.country ELSE x.country
    <2>1. \A e \in Emails :
            em[e] = IF e = x.email THEN d.emails[e] + 1 ELSE d.emails[e]
      BY <1>2, OpFacts DEF Doc
    <2>2. Applied(x, d) = [d EXCEPT !.emails = em, !.country = co]
      BY <1>a, <1>2, OpFacts DEF Applied
    <2>3. co # d.country => x.country # "none"
      OBVIOUS
    <2> HIDE DEF em, co
    <2> QED
      BY <1>2, <2>1, <2>2, <2>3 DEF Doc
  <1> QED
    BY <1>1, <1>2 DEF Writes

(* A write applied to a document that is there inserts none.               *)
LEMMA ApplyFacts ==
  ASSUME IInv, NEW x \in Writes, Apply(x)
  PROVE  /\ x.id \in Ids /\ pending[x] > 0
         /\ docs[x.id] # NoDoc => docs[x.id] \in Doc /\ x \notin Inserts
         /\ docs' = [docs EXCEPT ![x.id] = Applied(x, docs[x.id])]
         /\ docs \in [Ids -> Doc \cup {NoDoc}]
         /\ \A y \in Writes : pending'[y] = IF y = x THEN pending[y] - 1 ELSE pending[y]
  BY OpFacts DEF Apply, IInv, TypeOK, SavesFindDocuments, Writes

(* No document, click or address is ever lost, in whatever order the       *)
(* writes of any number of handlers are applied.                           *)
THEOREM Lossless == Spec => NothingLost
  <1> DEFINE Kept == \A i \in Ids : docs[i] # NoDoc =>
                       /\ docs'[i] # NoDoc
                       /\ docs[i].flags \subseteq docs'[i].flags
                       /\ \A e \in Emails : docs[i].emails[e] <= docs'[i].emails[e]
  <1>1. IInv /\ [Next]_vars => Kept
    <2> SUFFICES ASSUME IInv, [Next]_vars, NEW i \in Ids, docs[i] # NoDoc
                 PROVE  /\ docs'[i] # NoDoc
                        /\ docs[i].flags \subseteq docs'[i].flags
                        /\ \A e \in Emails : docs[i].emails[e] <= docs'[i].emails[e]
      OBVIOUS
    <2>1. CASE docs'[i] = docs[i]
      BY <2>1 DEF IInv, TypeOK, Doc
    <2>2. ASSUME NEW x \in Writes, Apply(x), x.id = i
          PROVE  docs'[i] = Applied(x, docs[i]) /\ docs[i] \in Doc /\ x \notin Inserts
      BY <2>2, ApplyFacts
    <2>3. ASSUME NEW x \in Writes, Apply(x), x.id # i
          PROVE  docs'[i] = docs[i]
      BY <2>3, ApplyFacts
    <2> QED
      BY <2>1, <2>2, <2>3, DocsUnchanged, AppliedKeeps, AppliedType, NoDocAssumption
  <1>2. IInv /\ [Next]_vars => [Kept]_vars
    BY <1>1
  <1> QED
    BY <1>2, Invariance, PTL DEF NothingLost, Spec

(* Once an address is stored and no submission of it is under way, no copy *)
(* is ever added: only overlapping submissions duplicate.                  *)
THEOREM LateOnesRefused == Spec => NoLateDuplicate
  <1> DEFINE Refuses == \A e \in Emails : Settled(e) =>
                          /\ Settled(e)'
                          /\ \A i \in Ids : docs[i] # NoDoc =>
                               docs'[i].emails[e] = docs[i].emails[e]
  <1>1. IInv /\ [Next]_vars => Refuses
    <2> SUFFICES ASSUME IInv, [Next]_vars, NEW e \in Emails, Settled(e)
                 PROVE  /\ Settled(e)'
                        /\ \A i \in Ids : docs[i] # NoDoc =>
                             docs'[i].emails[e] = docs[i].emails[e]
      OBVIOUS
    <2>a. /\ \A r \in Requests : h[r].pc = "findById" => h[r].email # e
          /\ \A x \in Saves : x.email = e => ~(pending[x] > 0)
          /\ h \in [Requests -> Handlers] /\ docs \in [Ids -> Doc \cup {NoDoc}]
      BY DEF Settled, Underway, IInv, TypeOK
    <2>1. ASSUME NEW i \in Ids, docs[i] # NoDoc
          PROVE  docs'[i] # NoDoc /\ docs'[i].emails[e] = docs[i].emails[e]
      <3>1. CASE docs'[i] = docs[i]
        BY <2>1, <3>1
      <3>2. ASSUME NEW x \in Writes, Apply(x), x.id = i
            PROVE  docs'[i] # NoDoc /\ docs'[i].emails[e] = docs[i].emails[e]
        <4>1. /\ docs'[i] = Applied(x, docs[i]) /\ docs[i] \in Doc
              /\ x \notin Inserts /\ pending[x] > 0
          BY <2>1, <3>2, ApplyFacts
        <4>2. ~(x \in Saves /\ x.email = e)
          BY <2>a, <4>1
        <4> QED
          BY <2>1, <4>1, <4>2, AppliedKeeps, AppliedType, NoDocAssumption
      <3>3. ASSUME NEW x \in Writes, Apply(x), x.id # i
            PROVE  docs'[i] = docs[i]
        BY <3>3, ApplyFacts
      <3> QED
        BY <3>1, <3>2, <3>3, DocsUnchanged
    <2>2. Stored(e)'
      BY <2>1 DEF Settled, Stored
    <2>3. \A x \in Saves : x.email = e => ~(pending'[x] > 0)
      <3>1. ASSUME NEW r \in Requests, FindById(r), NEW x \in Saves, x.email = e
            PROVE  ~(pending'[x] > 0)
        <4> DEFINE y == [op |-> "push", id |-> h[r].id, email |-> h[r].email,
                         country |-> Located(r, docs[h[r].id])]
        <4>1. y.email # e
          BY <2>a, <3>1 DEF FindById
        <4>2. pending' = pending \/ HandOver({y})
          BY <3>1 DEF FindById
        <4> HIDE DEF y
        <4>3. CASE HandOver({y})
          <5>1. x \in Writes /\ x \notin {y}
            BY <3>1, <4>1 DEF Writes
          <5>2. pending'[x] = pending[x] + 0 /\ pending[x] \in Nat
            BY <4>3, <5>1, HandOverFacts DEF IInv, TypeOK
          <5> QED
            BY <2>a, <3>1, <5>2
        <4> QED
          BY <2>a, <3>1, <4>2, <4>3
      <3> QED
        BY <2>a, <3>1, SavesHandedOver
    <2>4. \A r \in Requests : h'[r].pc = "findById" => h'[r].email # e
      <3>1. ASSUME NEW r \in Requests, FindEmails(r),
                   NEW q \in Requests, h'[q].pc = "findById"
            PROVE  h'[q].email # e
        <4>1. Refused(e)
          BY DEF Refused, Settled
        <4>2. CASE \E i \in Ids, new \in BOOLEAN : Answer(r, i, new)
          BY <2>a, <3>1, <4>2 DEF Answer, Idle
        <4>3. ASSUME NEW i \in Ids, NEW new \in BOOLEAN, ~Refused(h[r].email),
                     h' = [h EXCEPT ![r].pc = "findById", ![r].id = i, ![r].new = new]
              PROVE  h'[q].email # e
          <5>1. h'[q].email = h[q].email
            BY <2>a, <4>3 DEF Handlers
          <5>2. q # r => h'[q] = h[q]
            BY <2>a, <4>3
          <5> QED
            BY <2>a, <3>1, <4>1, <4>3, <5>1, <5>2
        <4> QED
          BY <3>1, <4>2, <4>3 DEF FindEmails
      <3>2. ASSUME NEW r \in Requests, \E i, new : Answer(r, i, new),
                   NEW q \in Requests, h'[q].pc = "findById"
            PROVE  h'[q].email # e
        BY <2>a, <3>2 DEF Answer, Idle
      <3>3. ASSUME NEW x \in Writes, WriteFails(x)
            PROVE  \A q \in Requests : h'[q].pc # "findById"
        BY <3>3 DEF WriteFails, Idle
      <3>4. ASSUME NEW r \in Requests, NEW v \in Visitors, NEW l \in Lookups,
                   NEW pc \in {"visit", "saveEmail"} \cup Flags,
                   NEW f \in Emails \cup {Empty}, Send(r, v, pc, f, l),
                   NEW q \in Requests, h'[q].pc = "findById"
            PROVE  h'[q].email # e
        BY <2>a, <3>4, FlagsAssumption DEF Send
      <3>5. ASSUME UNCHANGED h, NEW q \in Requests, h'[q].pc = "findById"
            PROVE  h'[q].email # e
        BY <2>a, <3>5
      <3> QED
        BY <3>1, <3>2, <3>3, <3>4, <3>5
           DEF Next, Handle, Visit, Click, FindById, Apply, vars
    <2> QED
      BY <2>1, <2>2, <2>3, <2>4 DEF Settled, Underway
  <1>2. IInv /\ [Next]_vars => [Refuses]_vars
    BY <1>1
  <1> QED
    BY <1>2, Invariance, PTL DEF NoLateDuplicate, Spec

(* A located country is kept unless a submission that loaded the document  *)
(* before is still being saved.                                            *)
THEOREM CountryStays == Spec => CountryKept
  <1> DEFINE Stays ==
               \A i \in Ids :
                 docs[i] # NoDoc /\ docs[i].country = "known" /\ ~Rewriting(i) =>
                   docs'[i].country = "known" /\ ~Rewriting(i)'
  <1>1. IInv /\ [Next]_vars => Stays
    <2> SUFFICES ASSUME IInv, [Next]_vars, NEW i \in Ids, docs[i] # NoDoc,
                        docs[i].country = "known", ~Rewriting(i)
                 PROVE  docs'[i].country = "known" /\ ~Rewriting(i)'
      OBVIOUS
    <2>1. docs'[i].country = "known"
      <3>1. ASSUME NEW x \in Writes, Apply(x), x.id = i
            PROVE  docs'[i].country = "known"
        <4>1. /\ docs'[i] = Applied(x, docs[i]) /\ docs[i] \in Doc
              /\ x \notin Inserts /\ pending[x] > 0
          BY <3>1, ApplyFacts
        <4>2. ~(x \in Saves /\ x.country # "none")
          BY <3>1, <4>1 DEF Rewriting
        <4> QED
          BY <4>1, <4>2, AppliedKeeps
      <3>2. ASSUME NEW x \in Writes, Apply(x), x.id # i
            PROVE  docs'[i] = docs[i]
        BY <3>2, ApplyFacts
      <3> QED
        BY <3>1, <3>2, DocsUnchanged
    <2>2. ASSUME NEW x \in Saves, x.id = i, x.country # "none"
          PROVE  ~(pending'[x] > 0)
      <3>1. ~(pending[x] > 0) /\ x \in Writes /\ pending[x] \in Nat
        BY <2>2 DEF Rewriting, Writes, IInv, TypeOK
      <3>2. ASSUME NEW r \in Requests, FindById(r)
            PROVE  ~(pending'[x] > 0)
        <4> DEFINE y == [op |-> "push", id |-> h[r].id, email |-> h[r].email,
                         country |-> Located(r, docs[h[r].id])]
        <4>1. y.id = i => y.country = "none"
          BY DEF Located
        <4>2. pending' = pending \/ HandOver({y})
          BY <3>2 DEF FindById
        <4> HIDE DEF y
        <4>3. CASE HandOver({y})
          <5>1. x \notin {y}
            BY <2>2, <4>1
          <5>2. pending'[x] = pending[x] + 0
            BY <3>1, <4>3, <5>1, HandOverFacts DEF IInv
          <5> QED
            BY <3>1, <5>2
        <4> QED
          BY <3>1, <4>2, <4>3
      <3> QED
        BY <3>1, <3>2, SavesHandedOver
    <2> QED
      BY <2>1, <2>2 DEF Rewriting
  <1>2. IInv /\ [Next]_vars => [Stays]_vars
    BY <1>1
  <1> QED
    BY <1>2, Invariance, PTL DEF CountryKept, Spec

-----------------------------------------------------------------------------
(***************************************************************************)
(* Why DocumentLands, AddressLands and ClickLands hold, short of fairness: *)
(* while no write fails, nothing that was answered first is dropped later. *)
(***************************************************************************)
(* An id that a browser or a handler knows has its document, or the insert *)
(* of it is under way.                                                     *)
Coming(i) ==
  docs[i] # NoDoc \/ \E x \in Inserts : x.id = i /\ pending[x] > 0

DocumentsComing == \A i \in drawn : Coming(i)

(* The only steps that take a write from the driver are its application    *)
(* and its failure.                                                        *)
NoneTaken == UNCHANGED docs /\ \A x \in Writes : pending'[x] >= pending[x]

LEMMA HandOverTakesNone ==
  ASSUME TypeOK, NEW S, HandOver(S)
  PROVE  \A x \in Writes : pending'[x] >= pending[x]
  <1> SUFFICES ASSUME NEW x \in Writes PROVE pending'[x] >= pending[x]
    OBVIOUS
  <1>1. pending[x] \in Nat /\ pending'[x] = pending[x] + (IF x \in S THEN 1 ELSE 0)
    BY HandOverFacts DEF TypeOK
  <1> QED
    BY <1>1

LEMMA TakenByApply ==
  ASSUME IInv, [Next]_vars, \A x \in Writes : ~WriteFails(x)
  PROVE  NoneTaken \/ \E x \in Writes : Apply(x)
  <1>a. TypeOK /\ pending \in [Writes -> Nat]
    BY DEF IInv, TypeOK
  <1>b. UNCHANGED <<docs, pending>> => NoneTaken
    BY <1>a DEF NoneTaken
  <1>1. ASSUME NEW r \in Requests, Handle(r) PROVE NoneTaken
    <2>1. UNCHANGED docs
      BY <1>1 DEF Handle, Visit, Click, FindEmails, FindById
    <2>2. UNCHANGED pending \/ \E S : HandOver(S)
      BY <1>1 DEF Handle, Visit, Click, FindEmails, FindById
    <2> QED
      BY <1>a, <1>b, <2>1, <2>2, HandOverTakesNone DEF NoneTaken
  <1> QED
    BY <1>b, <1>1 DEF Next, Send, vars

(* A drawn id is one whose insert is handed over in the same step.         *)
LEMMA DrawnComes ==
  ASSUME IInv, NEW r \in Requests, NEW i \in Ids, NEW new \in BOOLEAN,
         Identify(r, i, new), NEW F, HandOver(Created(r, i, new) \cup F),
         i \notin drawn
  PROVE  Coming(i)'
  <1> DEFINE x == [op |-> "insert", id |-> i,
                   country |-> IF h[r].located THEN "known" ELSE "none"]
  <1>1. new
    BY DEF Identify, IInv, KnownDrawn
  <1>2. x \in Inserts /\ x \in Writes /\ x.id = i /\ x \in Created(r, i, new)
    BY <1>1 DEF Created, Inserts, Writes
  <1> HIDE DEF x
  <1>3. pending'[x] = pending[x] + 1 /\ pending[x] \in Nat
    BY <1>2, HandOverFacts DEF IInv, TypeOK
  <1> QED
    BY <1>2, <1>3 DEF Coming

(* While no write fails, every document that a cookie or a handler refers  *)
(* to is stored or on its way.                                             *)
THEOREM DocumentsOnTheirWay ==
  ASSUME "write" \notin Faults
  PROVE  Spec => []DocumentsComing
  <1> DEFINE J == IInv /\ DocumentsComing
  <1>1. Init => J
    BY InitIInv DEF Init, DocumentsComing
  <1>2. J /\ [Next]_vars => J'
    <2> SUFFICES ASSUME IInv, DocumentsComing, [Next]_vars, NEW i \in drawn'
                 PROVE  Coming(i)'
      BY NextIInv DEF DocumentsComing
    <2>a. pending \in [Writes -> Nat] /\ drawn \subseteq Ids /\ TypeOK
      BY DEF IInv, TypeOK
    <2>1. CASE i \in drawn
      <3>1. Coming(i) /\ i \in Ids
        BY <2>a, <2>1 DEF DocumentsComing
      <3>2. CASE NoneTaken
        <4>1. ASSUME NEW x \in Inserts, x.id = i, pending[x] > 0 PROVE pending'[x] > 0
          <5>1. x \in Writes /\ pending[x] \in Nat /\ pending'[x] >= pending[x]
            BY <2>a, <3>2, OpFacts DEF NoneTaken
          <5>2. pending' \in [Writes -> Nat]
            BY NextIInv DEF IInv, TypeOK
          <5> QED
            BY <4>1, <5>1, <5>2
        <4> QED
          BY <3>1, <3>2, <4>1 DEF Coming, NoneTaken
      <3>3. ASSUME NEW y \in Writes, Apply(y) PROVE Coming(i)'
        <4>a. /\ y.id \in Ids
              /\ docs' = [docs EXCEPT ![y.id] = Applied(y, docs[y.id])]
              /\ docs \in [Ids -> Doc \cup {NoDoc}]
              /\ \A x \in Writes :
                   pending'[x] = IF x = y THEN pending[x] - 1 ELSE pending[x]
          BY <3>3, ApplyFacts
        <4>1. CASE docs[i] # NoDoc
          <5>1. docs'[i] # NoDoc
            BY <3>1, <4>1, <4>a, AppliedType, NoDocAssumption
          <5> QED
            BY <5>1 DEF Coming
        <4>2. ASSUME NEW x \in Inserts, x.id = i, pending[x] > 0, x # y
              PROVE  Coming(i)'
          BY <4>2, <4>a, OpFacts DEF Coming
        <4>3. CASE y \in Inserts /\ y.id = i
          <5>1. docs'[i] # NoDoc
            BY <3>1, <4>3, <4>a, AppliedType, NoDocAssumption
          <5> QED
            BY <5>1 DEF Coming
        <4> QED
          BY <3>1, <4>1, <4>2, <4>3 DEF Coming
      <3> QED
        BY <3>2, <3>3, TakenByApply DEF WriteFails
    <2>2. CASE i \notin drawn
      <3>1. ASSUME NEW r \in Requests, NEW j \in Ids, NEW new \in BOOLEAN,
                   Identify(r, j, new), NEW F, HandOver(Created(r, j, new) \cup F)
            PROVE  Coming(i)'
        <4>1. i = j
          BY <2>2, <3>1 DEF Identify
        <4> QED
          BY <2>2, <3>1, <4>1, DrawnComes
      <3>2. ASSUME NEW r \in Requests, Visit(r) \/ FindEmails(r) PROVE Coming(i)'
        <4> DEFINE F == {}
        <4>1. PICK j \in Ids, new \in BOOLEAN :
                Identify(r, j, new) /\ HandOver(Created(r, j, new))
          BY <3>2 DEF Visit, FindEmails
        <4>2. HandOver(Created(r, j, new) \cup F)
          BY <4>1
        <4> HIDE DEF F
        <4> QED
          BY <3>1, <4>1, <4>2
      <3>3. ASSUME NEW r \in Requests, Click(r) PROVE Coming(i)'
        BY <3>1, <3>3 DEF Click
      <3>4. ASSUME UNCHANGED drawn PROVE Coming(i)'
        BY <2>2, <3>4
      <3> QED
        BY <3>2, <3>3, <3>4 DEF Next, Handle, FindById, Send, Apply, WriteFails, vars
    <2> QED
      BY <2>1, <2>2
  <1> QED
    BY <1>1, <1>2, PTL DEF Spec

(* What leaves the driver has its effect, once: an insert makes the        *)
(* document, a save adds its address, a click sets its flag in a document  *)
(* that is there.                                                          *)
TakesEffect ==
  \A x \in Writes : pending'[x] < pending[x] =>
    /\ pending'[x] = pending[x] - 1
    /\ x \in Inserts => docs'[x.id] = NewDoc(x.country)
    /\ x \in Saves =>
         docs'[x.id].emails[x.email] = docs[x.id].emails[x.email] + 1
    /\ x \in Updates /\ docs[x.id] # NoDoc => x.flag \in docs'[x.id].flags

(* Together with DocumentsOnTheirWay and the driver's fairness this is why *)
(* what visitors were told, before any write was applied, becomes true.    *)
THEOREM AnswersKept ==
  ASSUME "write" \notin Faults
  PROVE  Spec => [][TakesEffect]_vars
  <1>1. IInv /\ [Next]_vars => [TakesEffect]_vars
    <2> SUFFICES ASSUME IInv, [Next]_vars, NEW x \in Writes, pending'[x] < pending[x]
                 PROVE  /\ pending'[x] = pending[x] - 1
                        /\ x \in Inserts => docs'[x.id] = NewDoc(x.country)
                        /\ x \in Saves =>
                             docs'[x.id].emails[x.email] = docs[x.id].emails[x.email] + 1
                        /\ x \in Updates /\ docs[x.id] # NoDoc =>
                             x.flag \in docs'[x.id].flags
      BY DEF TakesEffect
    <2>a. pending[x] \in Nat /\ pending'[x] \in Nat
      BY NextIInv DEF IInv, TypeOK
    <2>1. ~NoneTaken
      BY <2>a DEF NoneTaken
    <2>2. PICK y \in Writes : Apply(y)
      BY <2>1, TakenByApply DEF WriteFails
    <2>3. /\ y.id \in Ids /\ pending[y] > 0
          /\ docs[y.id] # NoDoc => docs[y.id] \in Doc
          /\ docs' = [docs EXCEPT ![y.id] = Applied(y, docs[y.id])]
          /\ docs \in [Ids -> Doc \cup {NoDoc}]
          /\ \A z \in Writes :
               pending'[z] = IF z = y THEN pending[z] - 1 ELSE pending[z]
      BY <2>2, ApplyFacts
    <2>4. x = y
      BY <2>3, <2>a
    <2>5. pending'[x] = pending[x] - 1 /\ docs'[x.id] = Applied(x, docs[x.id])
      BY <2>3, <2>4
    <2>6. CASE x \in Inserts
      BY <2>5, <2>6, OpFacts DEF Applied
    <2>7. CASE x \in Saves
      <3>1. docs[x.id] # NoDoc /\ docs[x.id] \in Doc
        BY <2>3, <2>4, <2>7 DEF IInv, SavesFindDocuments
      <3> DEFINE d == docs[x.id]
                 em == [d.emails EXCEPT ![x.email] = @ + 1]
                 co == IF x.country = "none" THEN d.country ELSE x.country
      <3>2. em[x.email] = d.emails[x.email] + 1
        BY <2>7, <3>1, OpFacts DEF Doc
      <3>3. Applied(x, d) = [d EXCEPT !.emails = em, !.country = co]
        BY <2>7, <3>1, OpFacts DEF Applied
      <3> HIDE DEF d, em, co
      <3>4. d \in Doc /\ d = docs[x.id]
        BY <3>1 DEF d
      <3>5. Applied(x, d).emails = em
        BY <3>3, <3>4 DEF Doc
      <3> QED
        BY <2>5, <2>7, <3>2, <3>4, <3>5, OpFacts
    <2>8. CASE x \in Updates
      <3>1. docs[x.id] # NoDoc =>
              docs'[x.id] = [docs[x.id] EXCEPT !.flags = @ \cup {x.flag}]
        BY <2>5, <2>8, OpFacts DEF Applied
      <3>2. docs[x.id] # NoDoc => docs[x.id] \in Doc
        BY <2>3, <2>4
      <3> QED
        BY <2>5, <2>8, <3>1, <3>2, OpFacts DEF Doc
    <2> QED
      BY <2>6, <2>7, <2>8 DEF Writes
  <1> QED
    BY <1>1, InitIInv, NextIInv, PTL DEF Spec
=============================================================================
