--------------------------- MODULE ResolverProofs ---------------------------
(***************************************************************************)
(* Proofs about Resolver, for every number of servers and rounds, every    *)
(* search list, request and zone: its type invariant, that one good server *)
(* is enough, and that it implements LookupService.                        *)
(***************************************************************************)
EXTENDS Resolver, FiniteSetTheorems, WellFoundedInduction, TLAPS

(* A query never leaves its candidate, and looks for something over TCP    *)
(* only while it has a type to ask for; nothing is replied before the end. *)
Querying ==
  /\ pc \in {"query", "tcp"} => position <= Len(request.order)
  /\ pc = "tcp" => pending # {} /\ asked < Servers * Attempts
  /\ pc # "replied" => reply = NoReply

(* Every server the current query has turned to failed an exchange.        *)
Tried == \A k \in 0..asked - 1 : (k % Servers) + 1 \in unsteady

QueryInv == TypeOK /\ Querying /\ Tried /\ OneGoodServerSuffices

(* What is remembered after the candidates before n: the first that exists.*)
FirstExisting(n) ==
  {request.order[i] : i \in
     {j \in 1..n - 1 : request.order[j] \in zone.exists
                       /\ \A k \in 1..j - 1 : request.order[k] \notin zone.exists}}

(* No candidate already passed has addresses.                              *)
Passed ==
  /\ \A i \in 1..position - 1 : i \notin Service!WithAddresses(request, zone)
  /\ nodata = FirstExisting(position)

(* What the queries for the candidate under way have learnt.               *)
Learnt ==
  pc \in {"query", "tcp"} =>
    /\ pending # request.types => exists = (Current \in zone.exists)
    /\ pending = request.types => exists = FALSE
    /\ addresses = IF Current \in zone.exists
                     THEN zone.has[Current] \cap (request.types \ pending) ELSE {}

(* A lookup that goes on has not replied.                                  *)
LookupInv == pc # "replied" => reply = NoReply /\ Passed /\ Learnt

IInv == QueryInv /\ LookupInv /\ request.types # {}
-----------------------------------------------------------------------------
LEMMA DomainCount ==
  Cardinality(Domain) \in Nat \ {0} /\ Domain = 0..Cardinality(Domain) - 1
<1>1. Cardinality(Domain) \in Nat /\ Cardinality(Domain) # 0
  BY DomainAssumption, FS_CardinalityType, FS_EmptySet
<1> QED BY <1>1, DomainAssumption

(* The candidates are search domains, or none.                             *)
LEMMA OrderIsSeq ==
  ASSUME NEW absolute \in BOOLEAN, NEW dotted \in BOOLEAN
  PROVE  CandidateOrder(absolute, dotted) \in Seq(Domain)
<1>1. Expanded \in Seq(Domain)
  BY DomainCount DEF Expanded
<1>2. <<0>> \in Seq(Domain)
  BY DomainCount
<1> QED BY <1>1, <1>2 DEF CandidateOrder

(* A server a round has reached: the rounds visit all of them.             *)
LEMMA RoundsVisitAll ==
  ASSUME NEW s \in 1..Servers
  PROVE  s - 1 \in 0..Servers * Attempts - 1 /\ ((s - 1) % Servers) + 1 = s
<1>1. Servers * Attempts >= Servers BY CountsAssumption
<1> QED BY <1>1, CountsAssumption

(* The least number of a set: initial segments of the numbers are finite   *)
(* sets, and strict inclusion of those is well founded.                    *)
LEMMA LeastNatural ==
  ASSUME NEW S, S \subseteq Nat, S # {}
  PROVE  \E t \in S : \A u \in S : t <= u
<1> DEFINE Segments == {0..t : t \in S}
<1>1. \A t \in Nat : IsFiniteSet(0..t)
  BY FS_Interval
<1>2. Segments \subseteq FiniteSubsetsOf(Nat) /\ Segments # {}
  <2>1. \A t \in S : 0..t \subseteq Nat /\ IsFiniteSet(0..t)
    BY <1>1
  <2>2. \A x \in Segments : x \in FiniteSubsetsOf(Nat)
    BY <2>1, Zenon DEF FiniteSubsetsOf
  <2> QED BY <2>2
<1>3. PICK x \in Segments : \A y \in Segments : <<y, x>> \notin StrictSubsetOrdering(Nat)
  BY <1>2, FS_StrictSubsetOrderingWellFounded, WFMin
<1>4. PICK t \in S : x = 0..t
  OBVIOUS
<1>5. ASSUME NEW u \in S, u < t
      PROVE  FALSE
  <2>1. 0..u \subseteq 0..t /\ t \in 0..t /\ t \notin 0..u
    BY <1>5
  <2>2. <<0..u, 0..t>> \in StrictSubsetOrdering(Nat)
    BY <2>1 DEF StrictSubsetOrdering
  <2> QED BY <1>3, <1>4, <2>2
<1> QED BY <1>5

(* A query with types left asks for one of them.                           *)
LEMMA NextTypeIsPending ==
  ASSUME TypeOK, pending # {}
  PROVE  NextType \in pending
<1>1. pending \subseteq Nat
  BY CountsAssumption DEF TypeOK, Service!Request
<1>2. \E t \in pending : \A u \in pending : t <= u
  BY <1>1, LeastNatural
<1> QED BY <1>2 DEF NextType

LEMMA InitIInv == Init => IInv
<1> SUFFICES ASSUME Init PROVE IInv
  OBVIOUS
<1>1. PICK absolute \in BOOLEAN, dotted \in BOOLEAN, u \in Unencodable, f \in Families :
         request = [order |-> CandidateOrder(absolute, dotted), unencodable |-> u, types |-> f]
  BY DEF Init
<1>2. /\ request.order \in Seq(Domain) /\ request.types \in (SUBSET Type) \ {{}}
      /\ request.unencodable \subseteq Domain
  BY <1>1, OrderIsSeq, FamiliesAssumption DEF Unencodable
<1>3. request \in Service!Request
  BY <1>1, <1>2 DEF Service!Request, Service!Candidate
<1>4. TypeOK
  <2>1. position \in 1..Len(request.order) + 1
    BY <1>2 DEF Init
  <2>2. asked \in 0..Servers * Attempts
    BY CountsAssumption DEF Init
  <2> QED BY <1>3, <2>1, <2>2 DEF Init, TypeOK
<1>5. Querying /\ Tried /\ OneGoodServerSuffices
  <2>1. Tried
    BY DEF Init, Tried
  <2> QED BY <2>1, ReplyAssumption DEF Init, Querying, OneGoodServerSuffices
<1>6. FirstExisting(1) = {}
  BY DEF FirstExisting
<1>7. LookupInv
  BY <1>6 DEF Init, LookupInv, Passed, Learnt
<1> QED BY <1>2, <1>4, <1>5, <1>7 DEF QueryInv, IInv
-----------------------------------------------------------------------------
LEMMA Requests ==
  ASSUME TypeOK
  PROVE  /\ request.order \in Seq(Domain) /\ request.types \subseteq Type
         /\ position \in 1..Len(request.order) => Current \in Domain
BY DEF TypeOK, Service!Request, Service!Candidate, Current

LEMMA ServerInRange ==
  ASSUME TypeOK
  PROVE  Server \in 1..Servers
<1>1. asked \in Nat /\ Servers \in Nat \ {0}
  BY CountsAssumption DEF TypeOK
<1> QED BY <1>1 DEF Server

(* A usable answer keeps the types, whichever way it came.                 *)
LEMMA UseQueryInv ==
  ASSUME QueryInv, pc \in {"query", "tcp"}, pending # {}, Use(NextType)
  PROVE  QueryInv'
<1>1. NextType \in request.types
  BY NextTypeIsPending DEF QueryInv, TypeOK
<1>2. pending' \subseteq request.types /\ addresses' \subseteq request.types /\ exists' \in BOOLEAN
  BY <1>1 DEF Use, QueryInv, TypeOK
<1>3. asked' \in 0..Servers * Attempts
  BY CountsAssumption DEF Use
<1>4. TypeOK'
  BY <1>2, <1>3 DEF Use, QueryInv, TypeOK
<1>5. Tried'
  BY DEF Use, Tried
<1>6. Querying' /\ OneGoodServerSuffices'
  BY ReplyAssumption DEF Use, QueryInv, Querying, OneGoodServerSuffices
<1> QED BY <1>4, <1>5, <1>6 DEF QueryInv

(* An unusable one adds its server to those tried.                         *)
LEMMA UnusableQueryInv ==
  ASSUME QueryInv, Unusable
  PROVE  QueryInv'
<1>1. asked \in 0..Servers * Attempts /\ asked < Servers * Attempts
  BY DEF QueryInv, TypeOK, Querying, Unusable, Asking
<1>2. asked' = asked + 1 /\ asked' \in 0..Servers * Attempts
  BY <1>1, CountsAssumption DEF Unusable
<1>3. Server \in 1..Servers /\ Server \notin steady
  BY ServerInRange DEF QueryInv, Unusable
<1>4. TypeOK'
  BY <1>2, <1>3 DEF QueryInv, TypeOK, Unusable
<1>5. Tried'
  <2> SUFFICES ASSUME NEW k \in 0..asked' - 1 PROVE (k % Servers) + 1 \in unsteady'
    BY <1>2 DEF Tried, Unusable
  <2>1. CASE k = asked
    BY <2>1 DEF Unusable, Server
  <2>2. CASE k \in 0..asked - 1
    BY <2>2 DEF Unusable, QueryInv, Tried
  <2> QED BY <1>1, <1>2, <2>1, <2>2
<1>6. Querying'
  BY DEF QueryInv, Querying, Unusable, Asking
<1>7. OneGoodServerSuffices'
  BY ReplyAssumption DEF QueryInv, Querying, OneGoodServerSuffices, Unusable, Asking
<1> QED BY <1>4, <1>5, <1>6, <1>7 DEF QueryInv

LEMMA NextQueryInv == QueryInv /\ [Next]_vars => QueryInv'
<1> SUFFICES ASSUME QueryInv, [Next]_vars PROVE QueryInv'
  OBVIOUS
<1>1. CASE NextCandidate
  <2>0. asked' \in 0..Servers * Attempts
    BY <1>1, CountsAssumption DEF NextCandidate
  <2>1. TypeOK'
    BY <1>1, <2>0 DEF NextCandidate, QueryInv, TypeOK
  <2>2. Tried'
    BY <1>1 DEF NextCandidate, Tried
  <2> QED BY <1>1, <2>1, <2>2, ReplyAssumption DEF NextCandidate, QueryInv, Querying,
                                                   OneGoodServerSuffices
<1>2. CASE CandidateDone
  <2>1. Current \in Domain /\ position + 1 \in 1..Len(request.order) + 1
    BY <1>2, Requests DEF CandidateDone, QueryInv, TypeOK, Querying
  <2>2. TypeOK'
    BY <1>2, <2>1 DEF CandidateDone, QueryInv, TypeOK, Reply
  <2>3. reply' \notin {Service!Unavailable, Service!Refused}
    BY <1>2, ReplyAssumption DEF CandidateDone, QueryInv, Querying, Reply, Service!Found,
                                 Service!Unavailable, Service!Refused
  <2>4. Querying' /\ Tried'
    BY <1>2 DEF CandidateDone, QueryInv, Querying, Tried, Reply
  <2> QED BY <2>2, <2>3, <2>4 DEF QueryInv, OneGoodServerSuffices
<1>3. CASE NoMoreCandidates
  <2>1. TypeOK'
    BY <1>3 DEF NoMoreCandidates, lookup, Reply, QueryInv, TypeOK
  <2>2. reply' \notin {Service!Unavailable, Service!Refused}
    BY <1>3 DEF NoMoreCandidates, Reply, Service!Found, Service!NotFound, Service!Unavailable,
                Service!Refused
  <2> QED BY <1>3, <2>1, <2>2 DEF NoMoreCandidates, lookup, Reply, QueryInv, Querying, Tried,
                                  OneGoodServerSuffices
<1>4. CASE AnswerUdp
  BY <1>4, UseQueryInv DEF AnswerUdp, Asking
<1>5. CASE Truncated
  BY <1>5, ReplyAssumption DEF Truncated, Asking, lookup, QueryInv, TypeOK, Querying, Tried,
                               OneGoodServerSuffices
<1>6. CASE AnswerTcp
  BY <1>6, UseQueryInv DEF AnswerTcp, QueryInv, Querying
<1>7. CASE Unusable
  BY <1>7, UnusableQueryInv
<1>8. CASE GiveUp
  <2>1. \A s \in 1..Servers : s \in unsteady
    <3> SUFFICES ASSUME NEW s \in 1..Servers PROVE s \in unsteady
      OBVIOUS
    <3>1. s - 1 \in 0..asked - 1
      BY <1>8, RoundsVisitAll, CountsAssumption DEF GiveUp, QueryInv, TypeOK
    <3> QED BY <3>1, RoundsVisitAll DEF QueryInv, Tried
  <2>2. unsteady = 1..Servers
    BY <2>1 DEF QueryInv, TypeOK
  <2>3. reply' # Service!Refused
    BY <1>8 DEF GiveUp, Reply, Service!Unavailable, Service!Refused
  <2> QED BY <1>8, <2>2, <2>3 DEF GiveUp, lookup, Reply, QueryInv, TypeOK, Querying, Tried,
                                  OneGoodServerSuffices
<1>9. CASE BadLabel
  <2>1. reply' # Service!Unavailable /\ Current' = Current
    BY <1>9 DEF BadLabel, lookup, Reply, Current, Service!Unavailable, Service!Refused
  <2> QED BY <1>9, <2>1 DEF BadLabel, lookup, Reply, QueryInv, TypeOK, Querying, Tried,
                            OneGoodServerSuffices
<1>10. CASE MalformedAlias
  <2>1. Server \in unsteady' /\ reply' # Service!Unavailable
    BY <1>10 DEF MalformedAlias, Reply, Service!Unavailable, Service!Refused
  <2>2. unsteady' \subseteq (1..Servers) \ steady /\ unsteady \subseteq unsteady'
    BY <1>10, ServerInRange DEF MalformedAlias, QueryInv, TypeOK
  <2> QED BY <1>10, <2>1, <2>2 DEF MalformedAlias, lookup, Reply, QueryInv, TypeOK, Querying,
                                   Tried, OneGoodServerSuffices
<1>11. CASE UNCHANGED vars
  BY <1>11 DEF vars, lookup, QueryInv, TypeOK, Querying, Tried, OneGoodServerSuffices, Current
<1> QED BY <1>1, <1>2, <1>3, <1>4, <1>5, <1>6, <1>7, <1>8, <1>9, <1>10, <1>11 DEF Next

(* The type invariant, for every number of servers and rounds.             *)
THEOREM TypeCorrect == Spec => []TypeOK
<1>1. Init => QueryInv
  BY InitIInv DEF IInv
<1>2. QueryInv => TypeOK
  BY DEF QueryInv
<1> QED BY <1>1, <1>2, NextQueryInv, PTL DEF Spec

(* "Unavailable" means that every configured nameserver failed at least    *)
(* once: query's rounds leave none out.  An error means that some server   *)
(* failed, or that the candidate under way has no encoding.                *)
THEOREM OneGoodServer == Spec => []OneGoodServerSuffices
<1>1. Init => QueryInv
  BY InitIInv DEF IInv
<1>2. QueryInv => OneGoodServerSuffices
  BY DEF QueryInv
<1> QED BY <1>1, <1>2, NextQueryInv, PTL DEF Spec
-----------------------------------------------------------------------------
(* Something is remembered exactly when a candidate before n exists.       *)
LEMMA ExistingRemembered ==
  ASSUME TypeOK, NEW n \in 1..Len(request.order) + 1
  PROVE  FirstExisting(n) = {} <=> \A j \in 1..n - 1 : request.order[j] \notin zone.exists
<1> DEFINE E == {j \in 1..n - 1 : request.order[j] \in zone.exists}
<1>1. CASE E = {}
  BY <1>1 DEF FirstExisting
<1>2. CASE E # {}
  <2>1. E \subseteq Nat /\ Len(request.order) \in Nat
    BY Requests
  <2>2. PICK j \in E : \A i \in E : j <= i
    BY <1>2, <2>1, LeastNatural
  <2>3. \A k \in 1..j - 1 : request.order[k] \notin zone.exists
    BY <2>1, <2>2
  <2>4. request.order[j] \in FirstExisting(n)
    BY <2>2, <2>3 DEF FirstExisting
  <2> QED BY <1>2, <2>4
<1> QED BY <1>1, <1>2

(* Passing candidate n keeps what is remembered, or remembers n.           *)
LEMMA RememberNext ==
  ASSUME TypeOK, NEW n \in 1..Len(request.order)
  PROVE  FirstExisting(n + 1) = IF request.order[n] \in zone.exists /\ FirstExisting(n) = {}
                                  THEN {request.order[n]} ELSE FirstExisting(n)
<1> DEFINE I(m) == {j \in 1..m - 1 : request.order[j] \in zone.exists
                                     /\ \A k \in 1..j - 1 : request.order[k] \notin zone.exists}
<1>1. n \in Nat \ {0} /\ Len(request.order) \in Nat
  BY Requests
<1>2. FirstExisting(n) = {} <=> \A j \in 1..n - 1 : request.order[j] \notin zone.exists
  BY <1>1, ExistingRemembered
<1>3. CASE request.order[n] \in zone.exists /\ FirstExisting(n) = {}
  <2>1. I(n + 1) = {n}
    BY <1>1, <1>2, <1>3
  <2> QED BY <1>3, <2>1 DEF FirstExisting
<1>4. CASE ~(request.order[n] \in zone.exists /\ FirstExisting(n) = {})
  <2>1. I(n + 1) = I(n)
    BY <1>1, <1>2, <1>4
  <2> QED BY <1>4, <2>1 DEF FirstExisting
<1> QED BY <1>3, <1>4

(* The first candidate with addresses is the service's answer.             *)
LEMMA FoundIsAnswer ==
  ASSUME TypeOK, Passed, position \in 1..Len(request.order),
         position \in Service!WithAddresses(request, zone)
  PROVE  Service!Answer(request, zone)
           = Service!Found(Current, zone.has[Current] \cap request.types)
<1> DEFINE W == Service!WithAddresses(request, zone)
<1>1. Len(request.order) \in Nat /\ W \subseteq 1..Len(request.order)
  BY Requests DEF Service!WithAddresses
<1>2. \A j \in W : position <= j
  BY <1>1 DEF Passed
<1>3. Service!First(W) = position
  BY <1>1, <1>2 DEF Service!First
<1> QED BY <1>3 DEF Service!Answer, Current

(* Once all candidates are passed, what is remembered tells the answer.    *)
LEMMA RestIsAnswer ==
  ASSUME TypeOK, Passed, position = Len(request.order) + 1
  PROVE  Service!Answer(request, zone)
           = IF nodata = {} THEN Service!NotFound
             ELSE Service!Found(CHOOSE c \in nodata : TRUE, {})
<1> DEFINE E == Service!Existing(request, zone)
<1>1. Len(request.order) \in Nat /\ DOMAIN request.order = 1..Len(request.order)
  BY Requests
<1>2. Service!WithAddresses(request, zone) = {}
  BY <1>1 DEF Passed, Service!WithAddresses
<1>3. nodata = {} <=> E = {}
  BY <1>1, ExistingRemembered DEF Passed, Service!Existing
<1>4. CASE E = {}
  BY <1>2, <1>3, <1>4 DEF Service!Answer
<1>5. CASE E # {}
  <2>1. E \subseteq Nat
    BY <1>1 DEF Service!Existing
  <2>2. PICK j \in E : \A i \in E : j <= i
    BY <1>5, <2>1, LeastNatural
  <2>3. Service!First(E) = j
    BY <2>1, <2>2 DEF Service!First
  <2>4. nodata = {request.order[j]}
    BY <1>1, <2>2 DEF Passed, FirstExisting, Service!Existing
  <2> QED BY <1>2, <1>5, <2>3, <2>4 DEF Service!Answer
<1> QED BY <1>4, <1>5
-----------------------------------------------------------------------------
(* A usable answer teaches what the zone holds of one more type.           *)
LEMMA UseLearns ==
  ASSUME IInv, pc \in {"query", "tcp"}, pending # {}, Use(NextType)
  PROVE  LookupInv'
<1>1. NextType \in pending /\ pending \subseteq request.types
  BY NextTypeIsPending DEF IInv, QueryInv, TypeOK
<1>2. Current' = Current /\ exists' = (Current \in zone.exists)
  <2>1. Current' = Current
    BY DEF Use, Current
  <2>2. exists \in BOOLEAN /\ (exists = FALSE \/ exists = (Current \in zone.exists))
    BY DEF IInv, QueryInv, TypeOK, LookupInv, Learnt
  <2>3. exists' = (exists \/ Current \in zone.exists)
    BY DEF Use
  <2> QED BY <2>1, <2>2, <2>3
<1>3. pending' = pending \ {NextType} /\ pending' # request.types
  BY <1>1 DEF Use
<1>4. addresses' = IF Current \in zone.exists
                     THEN zone.has[Current] \cap (request.types \ pending') ELSE {}
  BY <1>1, <1>3 DEF Use, IInv, LookupInv, Learnt
<1>5. Learnt'
  BY <1>2, <1>3, <1>4 DEF Use, Learnt
<1>6. Passed'
  BY DEF Use, IInv, LookupInv, Passed, FirstExisting
<1> QED BY <1>5, <1>6 DEF Use, IInv, LookupInv

(* The end of a candidate: its addresses are the answer, or it is passed.  *)
LEMMA CandidateDoneStep ==
  ASSUME IInv, CandidateDone
  PROVE  /\ LookupInv'
         /\ Service!Reply \/ UNCHANGED <<request, zone, reply>>
<1>1. /\ TypeOK /\ pc = "query" /\ pending = {} /\ pending # request.types
      /\ Passed /\ Learnt /\ reply = NoReply
  BY DEF IInv, QueryInv, LookupInv, CandidateDone
<1>2. position \in 1..Len(request.order) /\ Len(request.order) \in Nat
  BY <1>1, Requests DEF TypeOK, IInv, QueryInv, Querying
<1>3. /\ exists = (Current \in zone.exists)
      /\ addresses = IF Current \in zone.exists THEN zone.has[Current] \cap request.types ELSE {}
  BY <1>1 DEF Learnt
<1>4. position \in Service!WithAddresses(request, zone) <=> addresses # {}
  BY <1>1, <1>2, <1>3, Requests DEF Service!WithAddresses, Current
<1>5. CASE addresses # {}
  <2>1. Service!Answer(request, zone) = Service!Found(Current, addresses)
    BY <1>1, <1>2, <1>3, <1>4, <1>5, FoundIsAnswer
  <2> QED BY <1>1, <1>5, <2>1 DEF CandidateDone, Reply, Service!Reply, LookupInv
<1>6. CASE addresses = {}
  <2>1. position' = position + 1 /\ pc' = "candidate" /\ UNCHANGED <<request, zone, reply>>
    BY <1>6 DEF CandidateDone
  <2>2. \A i \in 1..position' - 1 : i \notin Service!WithAddresses(request, zone)
    BY <1>1, <1>2, <1>4, <1>6, <2>1 DEF Passed
  <2>3. nodata' = FirstExisting(position + 1)
    BY <1>1, <1>2, <1>3, <1>6, RememberNext DEF CandidateDone, Passed, Current
  <2>4. FirstExisting(position + 1) = FirstExisting(position)'
    BY <2>1 DEF FirstExisting
  <2>5. Passed'
    BY <2>1, <2>2, <2>3, <2>4 DEF Passed
  <2> QED BY <1>1, <2>1, <2>5 DEF LookupInv, Learnt
<1> QED BY <1>5, <1>6

(* Every step keeps IInv and is a reply of the service or nothing to it.   *)
LEMMA StepRefines ==
  ASSUME IInv, [Next]_vars
  PROVE  IInv' /\ [Service!Reply]_<<request, zone, reply>>
<1>1. QueryInv'
  BY NextQueryInv DEF IInv
<1>2. request' = request /\ zone' = zone
  BY DEF Next, vars, NextCandidate, CandidateDone, NoMoreCandidates, AnswerUdp, Truncated,
         AnswerTcp, Use, Unusable, BadLabel, MalformedAlias, GiveUp
<1>3. CASE NextCandidate
  <2>1. Passed'
    BY <1>3 DEF NextCandidate, IInv, LookupInv, Passed, FirstExisting
  <2>2. Learnt' /\ reply' = reply
    BY <1>3 DEF NextCandidate, Learnt, Current, IInv
  <2> QED BY <1>1, <1>2, <1>3, <2>1, <2>2 DEF NextCandidate, IInv, LookupInv
<1>4. CASE CandidateDone
  BY <1>1, <1>2, <1>4, CandidateDoneStep DEF IInv
<1>5. CASE NoMoreCandidates
  <2>1. TypeOK /\ Passed /\ reply = NoReply /\ position = Len(request.order) + 1
    BY <1>5, Requests DEF NoMoreCandidates, IInv, QueryInv, TypeOK, LookupInv
  <2>2. reply' = Service!Answer(request, zone) /\ pc' = "replied"
    BY <1>5, <2>1, RestIsAnswer DEF NoMoreCandidates, Reply
  <2> QED BY <1>1, <1>2, <2>1, <2>2 DEF IInv, LookupInv, Service!Reply
<1>6. CASE AnswerUdp \/ AnswerTcp
  <2>1. pc \in {"query", "tcp"} /\ pending # {} /\ Use(NextType)
    BY <1>6 DEF AnswerUdp, AnswerTcp, Asking, IInv, QueryInv, Querying
  <2> QED BY <1>1, <1>2, <2>1, UseLearns DEF IInv, Use
<1>7. CASE Truncated \/ Unusable
  <2>1. /\ pc' \in {"query", "tcp"} /\ pc \in {"query", "tcp"}
        /\ UNCHANGED <<request, zone, position, pending, addresses, exists, nodata, reply>>
    BY <1>7 DEF Truncated, Unusable, Asking, lookup
  <2>2. LookupInv'
    BY <2>1 DEF IInv, LookupInv, Passed, FirstExisting, Learnt, Current
  <2> QED BY <1>1, <1>2, <2>1, <2>2 DEF IInv
<1>8. CASE GiveUp \/ BadLabel \/ MalformedAlias
  BY <1>1, <1>2, <1>8 DEF GiveUp, BadLabel, MalformedAlias, Asking, Reply, IInv, LookupInv,
                          Service!Reply
<1>9. CASE UNCHANGED vars
  BY <1>1, <1>9 DEF vars, lookup, IInv, LookupInv, Passed, FirstExisting, Learnt, Current
<1> QED BY <1>3, <1>4, <1>5, <1>6, <1>7, <1>8, <1>9 DEF Next

(* The lookup implements its service: the reply is the DNS's answer for    *)
(* the first candidate that has one, an honest "unavailable" or an error.  *)
THEOREM Refinement == Spec => Implements
<1>1. Init => Service!Init
  BY DEF Init, Service!Init
<1>2. IInv /\ [Next]_vars => IInv' /\ [Service!Reply]_<<request, zone, reply>>
  BY StepRefines
<1> QED BY <1>1, <1>2, InitIInv, PTL DEF Spec, Implements, Service!Spec
=============================================================================
