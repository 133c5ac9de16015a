------------------------------- MODULE Landing -------------------------------
(***************************************************************************)
(* LandingService and LandingController: visits, clicks and addresses of   *)
(* the landing page, kept as documents of the collection "statistics".     *)
(*                                                                         *)
(* A visitor is known by the document id in a cookie, which an answer      *)
(* sets.  The service does not await its writes: a handler hands them to   *)
(* the MongoDB driver, whose pooled connections apply them in any order,   *)
(* before or after the answer.  The queries it does await are one step     *)
(* each.  A save sends only what changed: the address pushed, the country. *)
(***************************************************************************)
EXTENDS Naturals, FiniteSets, Functions

CONSTANTS Requests,  \* handlers that may be in flight together
          Visitors,  \* browsers
          Ids,       \* uuids a new document can draw (bound on documents)
          Emails,    \* addresses
          Empty,     \* the empty address
          NoId,      \* no cookie
          NoDoc,     \* the absence of a document
          Flags,     \* the clicks that happen, by the flag they set
          Lookups,   \* whether geoip locates an ip: the cases that happen
          MaxWrites, \* bound: writes handed over and not yet applied
          Faults     \* which of "query" and "write" may fail

ASSUME NullAssumption == Empty \notin Emails /\ NoId \notin Ids
ASSUME FlagsAssumption == Flags \subseteq {"isGetDemo", "isLearnMore"}
ASSUME LookupsAssumption == Lookups \subseteq BOOLEAN
ASSUME MaxWritesAssumption == MaxWrites \in Nat
ASSUME FaultsAssumption == Faults \subseteq {"query", "write"}

(* "none": not located when the document was created; "unknown": not by    *)
(* saveEmail either.                                                       *)
Countries == {"none", "unknown", "known"}

(* emails[e]: how many times the array holds e.                            *)
Doc == [country : Countries, emails : [Emails -> Nat], flags : SUBSET Flags]
ASSUME NoDocAssumption == NoDoc \notin Doc

(* A save whose country is "none" leaves the country alone.                *)
Inserts == [op : {"insert"}, id : Ids, country : {"none", "known"}]
Updates == [op : {"flag"}, id : Ids, flag : Flags]
Saves   == [op : {"push"}, id : Ids, email : Emails, country : Countries]
Writes  == Inserts \cup Updates \cup Saves

VARIABLES docs,    \* docs[i]: the document with _id i
          drawn,   \* the uuids drawn
          pending, \* pending[x]: how often write x is handed over, not applied
          cookie,  \* cookie[v]: the id in the cookie of v
          h        \* h[r]: the handler of request r

vars == <<docs, drawn, pending, cookie, h>>

Pcs  == {"idle", "visit", "saveEmail", "findById"} \cup Flags
Idle == [pc |-> "idle", visitor |-> NoId, id |-> NoId, email |-> Empty,
         located |-> FALSE, new |-> FALSE]

Outstanding == {x \in Writes : pending[x] > 0}
Unapplied   == SumFunction(pending)

(* Writes S are handed to the driver.                                      *)
HandOver(S) ==
  /\ Unapplied + Cardinality(S) <= MaxWrites
  /\ pending' = [x \in Writes |-> pending[x] + (IF x \in S THEN 1 ELSE 0)]

(* The answer: it sets the cookie of a visitor that came without one.      *)
Answer(r, i, new) ==
  /\ h' = [h EXCEPT ![r] = Idle]
  /\ cookie' = IF new THEN [cookie EXCEPT ![h[r].visitor] = i] ELSE cookie

-----------------------------------------------------------------------------
(* Room bounds the requests without a cookie by the ids left to draw.      *)
Unidentified == {r \in Requests : h[r] # Idle /\ h[r].id = NoId}
Room         == Cardinality(Unidentified) < Cardinality(Ids \ drawn)

(* A browser sends a request, with the cookie it has by now.               *)
Send(r, v, pc, e, located) ==
  /\ h[r] = Idle
  /\ cookie[v] = NoId => Room
  /\ h' = [h EXCEPT ![r] = [pc |-> pc, visitor |-> v, id |-> cookie[v],
                            email |-> e, located |-> located, new |-> FALSE]]
  /\ UNCHANGED <<docs, drawn, pending, cookie>>

(* Every handler of a request without a cookie first calls createRecord,   *)
(* which draws an id; i is the id it goes on with, new if it was drawn.    *)
Identify(r, i, new) ==
  /\ new <=> h[r].id = NoId
  /\ IF new THEN i \in Ids \ drawn ELSE i = h[r].id
  /\ drawn' = drawn \cup {i}

(* Mutant of Created: the document is not saved.                           *)
CreatedUnsaved(r, i, new) == {}

(* createRecord's write, not awaited.                                      *)
Created(r, i, new) ==
  IF new
  THEN {[op |-> "insert", id |-> i,
         country |-> IF h[r].located THEN "known" ELSE "none"]}
  ELSE {}

Visit(r) ==
  /\ h[r].pc = "visit"
  /\ \E i \in Ids, new \in BOOLEAN :
       /\ Identify(r, i, new)
       /\ HandOver(Created(r, i, new))
       /\ Answer(r, i, new)
  /\ UNCHANGED docs

(* Mutant of Click: the update is built but not executed (no exec()).      *)
ClickUnexecuted(r) ==
  /\ h[r].pc \in Flags
  /\ \E i \in Ids, new \in BOOLEAN :
       /\ Identify(r, i, new)
       /\ HandOver(Created(r, i, new))
       /\ Answer(r, i, new)
  /\ UNCHANGED docs

(* getDemoClick and learnMoreClick: the update is not awaited either.      *)
Click(r) ==
  /\ h[r].pc \in Flags
  /\ \E i \in Ids, new \in BOOLEAN :
       /\ Identify(r, i, new)
       /\ HandOver(Created(r, i, new)
                     \cup {[op |-> "flag", id |-> i, flag |-> h[r].pc]})
       /\ Answer(r, i, new)
  /\ UNCHANGED docs

(***************************************************************************)
(* saveEmail: two queries, then a save that is not awaited.                *)
(***************************************************************************)
Stored(e) == \E i \in Ids : docs[i] # NoDoc /\ docs[i].emails[e] > 0

(* Mutant of Refused: the collection is not searched.                      *)
RefusedEmptyOnly(e) == e = Empty

(* 400 for the empty address, 409 for one in the collection; or 500 when   *)
(* the query fails.                                                        *)
Refused(e) == e # Empty => Stored(e)

(* Mutant of FindEmails: createRecord is not called.                       *)
FindEmailsUnidentified(r) ==
  /\ h[r].pc = "saveEmail"
  /\ \/ Refused(h[r].email) /\ Answer(r, h[r].id, FALSE)
     \/ /\ ~Refused(h[r].email)
        /\ h' = [h EXCEPT ![r].pc = "findById"]
        /\ UNCHANGED cookie
  /\ UNCHANGED <<docs, drawn, pending>>

FindEmails(r) ==
  /\ h[r].pc = "saveEmail"
  /\ \E i \in Ids, new \in BOOLEAN :
       /\ Identify(r, i, new)
       /\ HandOver(Created(r, i, new))
       /\ \/ /\ Refused(h[r].email) \/ "query" \in Faults
             /\ Answer(r, i, new)
          \/ /\ ~Refused(h[r].email)
             /\ h' = [h EXCEPT ![r].pc = "findById", ![r].id = i, ![r].new = new]
             /\ UNCHANGED cookie
  /\ UNCHANGED docs

(* Mutant of Located: the country of every document is located again.      *)
LocatedAgain(r, d) == IF h[r].located THEN "known" ELSE "unknown"

(* The country a save of document d sets: only if d has none yet, and only *)
(* if that changes it (mongoose sends no attribute that kept its value).   *)
Located(r, d) ==
  LET found == IF h[r].located THEN "known" ELSE "unknown"
  IN  IF d.country \in {"known", found} THEN "none" ELSE found

(* Mutant of FindById: a document not found is not an error.               *)
FindByIdUnchecked(r) ==
  /\ h[r].pc = "findById"
  /\ HandOver({[op |-> "push", id |-> h[r].id, email |-> h[r].email,
                country |-> "none"]})
  /\ Answer(r, h[r].id, h[r].new)
  /\ UNCHANGED <<docs, drawn>>

(* A document not found (its insert may still be pending) is answered 500; *)
(* so is a failed query.  Otherwise 200, before the save is applied.       *)
FindById(r) ==
  /\ h[r].pc = "findById"
  /\ LET d == docs[h[r].id]
     IN  \/ (d = NoDoc \/ "query" \in Faults) /\ UNCHANGED pending
         \/ /\ d # NoDoc
            /\ HandOver({[op |-> "push", id |-> h[r].id, email |-> h[r].email,
                          country |-> Located(r, d)]})
  /\ Answer(r, h[r].id, h[r].new)
  /\ UNCHANGED <<docs, drawn>>

-----------------------------------------------------------------------------
(* MongoDB.                                                                *)
NewDoc(country) ==
  [country |-> country, emails |-> [e \in Emails |-> 0], flags |-> {}]

(* Mutant of Applied: a save replaces the document.                        *)
AppliedWhole(x, d) ==
  CASE x.op = "insert" -> NewDoc(x.country)
    [] x.op # "insert" /\ d = NoDoc -> NoDoc
    [] x.op = "flag" /\ d # NoDoc   -> [d EXCEPT !.flags = @ \cup {x.flag}]
    [] OTHER -> [NewDoc(x.country) EXCEPT
                   !.emails = [d.emails EXCEPT ![x.email] = @ + 1]]

(* What write x makes of document d. An update without a document does     *)
(* nothing.                                                                *)
Applied(x, d) ==
  CASE x.op = "insert" -> NewDoc(x.country)
    [] x.op # "insert" /\ d = NoDoc -> NoDoc
    [] x.op = "flag" /\ d # NoDoc   -> [d EXCEPT !.flags = @ \cup {x.flag}]
    [] OTHER -> [d EXCEPT !.emails[x.email] = @ + 1,
                          !.country = IF x.country = "none" THEN @ ELSE x.country]

Apply(x) ==
  /\ pending[x] > 0
  /\ pending' = [pending EXCEPT ![x] = @ - 1]
  /\ docs' = [docs EXCEPT ![x.id] = Applied(x, @)]
  /\ UNCHANGED <<drawn, cookie, h>>

(* A write fails. Its promise is nobody's: the rejection ends the process, *)
(* with every handler; what was handed over has reached MongoDB, or not.   *)
WriteFails(x) ==
  /\ "write" \in Faults
  /\ pending[x] > 0
  /\ \E left \in [Outstanding -> 0..MaxWrites] :
       /\ \A y \in Outstanding : left[y] <= pending[y]
       /\ left[x] < pending[x]
       /\ pending' = [y \in Writes |-> IF y \in Outstanding THEN left[y] ELSE 0]
  /\ h' = [r \in Requests |-> Idle]
  /\ UNCHANGED <<docs, drawn, cookie>>

Init ==
  /\ docs = [i \in Ids |-> NoDoc]
  /\ drawn = {}
  /\ pending = [x \in Writes |-> 0]
  /\ cookie = [v \in Visitors |-> NoId]
  /\ h = [r \in Requests |-> Idle]

Handle(r) == Visit(r) \/ Click(r) \/ FindEmails(r) \/ FindById(r)

Next ==
  \/ \E r \in Requests, v \in Visitors, located \in Lookups :
       \/ \E pc \in {"visit"} \cup Flags : Send(r, v, pc, Empty, located)
       \/ \E e \in Emails \cup {Empty} : Send(r, v, "saveEmail", e, located)
  \/ \E r \in Requests : Handle(r)
  \/ \E x \in Writes : Apply(x) \/ WriteFails(x)

Spec == Init /\ [][Next]_vars

(* The event loop runs every handler (SF, since the bound MaxWrites may    *)
(* hold a handler back, which the driver's queue never does); MongoDB      *)
(* applies what it was handed.                                             *)
FairSpec ==
  /\ Spec
  /\ \A r \in Requests : SF_vars(Handle(r))
  /\ \A x \in Writes : WF_vars(Apply(x))

-----------------------------------------------------------------------------
Handlers == [pc : Pcs, visitor : Visitors \cup {NoId}, id : Ids \cup {NoId},
             email : Emails \cup {Empty}, located : BOOLEAN, new : BOOLEAN]

(* Every variable keeps its type; an id is drawn before a browser gets it  *)
(* or a document is looked up by it.                                       *)
TypeOK ==
  /\ docs \in [Ids -> Doc \cup {NoDoc}]
  /\ drawn \subseteq Ids
  /\ pending \in [Writes -> Nat]
  /\ cookie \in [Visitors -> drawn \cup {NoId}]
  /\ h \in [Requests -> Handlers]
  /\ \A r \in Requests : h[r].pc = "findById" => h[r].id \in drawn

(* The id of every save and the id of every document was drawn once: a     *)
(* save finds its document, although it is loaded by the id of a cookie    *)
(* that may be older than the document, and an insert never replaces one.  *)
SavesFindDocuments ==
  /\ \A x \in Saves : pending[x] > 0 => docs[x.id] # NoDoc
  /\ \A x \in Inserts : pending[x] > 0 => docs[x.id] = NoDoc

(* Nothing recorded is lost: a document stays, its addresses and its       *)
(* clicks stay, in whatever order overlapping handlers' writes are applied.*)
NothingLost ==
  [][\A i \in Ids : docs[i] # NoDoc =>
       /\ docs'[i] # NoDoc
       /\ docs[i].flags \subseteq docs'[i].flags
       /\ \A e \in Emails : docs[i].emails[e] <= docs'[i].emails[e]]_vars

(* A submission of e that has passed the search.                           *)
Underway(e) ==
  \/ \E r \in Requests : h[r].pc = "findById" /\ h[r].email = e
  \/ \E x \in Saves : x.email = e /\ pending[x] > 0

Settled(e) == Stored(e) /\ ~Underway(e)

(* Only submissions that overlap store an address twice: once it is stored *)
(* and no earlier submission is under way, no copy is ever added.          *)
NoLateDuplicate ==
  [][\A e \in Emails : Settled(e) =>
       /\ Settled(e)'
       /\ \A i \in Ids : docs[i] # NoDoc =>
            docs'[i].emails[e] = docs[i].emails[e]]_vars

Rewriting(i) ==
  \E x \in Saves : x.id = i /\ x.country # "none" /\ pending[x] > 0

(* A located country is kept, unless a submission that loaded the document *)
(* before it was located is still being saved.                             *)
CountryKept ==
  [][\A i \in Ids :
       docs[i] # NoDoc /\ docs[i].country = "known" /\ ~Rewriting(i) =>
         docs'[i].country = "known" /\ ~Rewriting(i)']_vars

(* If no write fails, the document of a cookie is there in the end, though *)
(* the cookie is answered first.                                           *)
DocumentLands ==
  \A v \in Visitors, i \in Ids : cookie[v] = i ~> docs[i] # NoDoc

(* If no write fails, an address that was accepted is stored in the end.   *)
AddressLands ==
  \A i \in Ids, e \in Emails :
    (\E x \in Saves : x.id = i /\ x.email = e /\ pending[x] > 0)
      ~> (docs[i] # NoDoc /\ docs[i].emails[e] > 0)

(* If no write fails, a click of a browser whose document is stored by now *)
(* is recorded in that document: only a click that overtakes the insert is *)
(* dropped.                                                                *)
ClickLands ==
  \A i \in Ids, f \in Flags :
    (docs[i] # NoDoc /\ \E r \in Requests : h[r].pc = f /\ h[r].id = i)
      ~> (docs[i] # NoDoc /\ f \in docs[i].flags)

(* landing.controller.ts says "Email saved" of an address it accepts, and *)
(* landing.service.ts means to answer 500 when the database fails: with    *)
(* failing writes too, an address that was accepted is stored in the end.  *)
EmailSaved == AddressLands

(* landing.service.ts refuses an address that other records already use    *)
(* ("Email already in database"): it is stored once.                       *)
AddressUnique ==
  \A e \in Emails, i, j \in Ids :
    docs[i] # NoDoc /\ docs[i].emails[e] > 0 =>
      /\ docs[i].emails[e] = 1
      /\ i # j /\ docs[j] # NoDoc => docs[j].emails[e] = 0
=============================================================================
