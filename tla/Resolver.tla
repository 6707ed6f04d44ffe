------------------------------ MODULE Resolver ------------------------------
(***************************************************************************)
(* buildroot-resolver.py: one lookup, from the request to the reply.  The  *)
(* candidates of the name are tried in order, one DNS query per record     *)
(* type; a query goes round the configured servers up to Attempts times,   *)
(* over UDP and, when the answer is truncated, again over TCP.  Every      *)
(* connection has a thread of its own and threads share only the           *)
(* configuration, so one of them is modelled.  Servers and network are     *)
(* external: an exchange may time out or bring something unusable.  An     *)
(* alias that does not parse is not among those: it ends the lookup.       *)
(***************************************************************************)
EXTENDS Naturals, Sequences, FiniteSets, SequencesExt

CONSTANTS
  Type, Domain, NoReply,   \* see LookupService
  Servers,                 \* number of nameservers
  Attempts,                \* ATTEMPTS
  Families                 \* the sets of types a family asks for

ASSUME CountsAssumption == Servers \in Nat \ {0} /\ Attempts \in Nat \ {0} /\ Type \subseteq Nat
ASSUME DomainAssumption ==
  IsFiniteSet(Domain) /\ Domain # {} /\ Domain = 0..Cardinality(Domain) - 1
ASSUME FamiliesAssumption == Families \subseteq (SUBSET Type) \ {{}}

VARIABLES
  request,   \* [order, unencodable, types]
  zone,      \* what the DNS holds
  steady,    \* servers that answer every exchange usably
  pc,
  position,  \* candidate under way
  pending,   \* types of it still to query
  asked,     \* exchanges of the current query
  addresses, \* types the candidate has records of
  exists,    \* a query for the candidate said NOERROR
  nodata,    \* {c}: the first candidate that exists without addresses
  reply,
  unsteady   \* history: servers that failed an exchange

lookup == <<position, pending, asked, addresses, exists, nodata>>
vars   == <<request, zone, steady, pc, lookup, reply, unsteady>>

Service == INSTANCE LookupService

ASSUME ReplyAssumption == NoReply \notin {Service!Unavailable, Service!Refused}

(* candidates(): an absolute name is not expanded; otherwise a name with   *)
(* enough dots is tried first as it is, one with fewer last.               *)
Expanded == [i \in 1..Cardinality(Domain) - 1 |-> i]

CandidateOrder(absolute, dotted) ==
  IF absolute \/ Expanded = <<>> THEN <<0>>
  ELSE IF dotted THEN <<0>> \o Expanded ELSE Expanded \o <<0>>

(* A label of the request's own name is in all of its candidates.          *)
Unencodable == {u \in SUBSET Domain : 0 \in u => u = Domain}

Init ==
  /\ \E absolute, dotted \in BOOLEAN, u \in Unencodable, f \in Families :
       request = [order |-> CandidateOrder(absolute, dotted), unencodable |-> u, types |-> f]
  /\ zone \in {z \in Service!Zone : z.exists \cap request.unencodable = {}}
  /\ steady \in SUBSET (1..Servers)
  /\ pc = "candidate" /\ position = 1 /\ pending = {}
  /\ asked = 0 /\ addresses = {} /\ exists = FALSE /\ nodata = {}
  /\ reply = NoReply /\ unsteady = {}

Current == request.order[position]

Server == (asked % Servers) + 1

Reply(r) == pc' = "replied" /\ reply' = r

NextCandidate ==
  /\ pc = "candidate" /\ position <= Len(request.order)
  /\ pc' = "query"
  /\ pending' = request.types /\ addresses' = {} /\ exists' = FALSE /\ asked' = 0
  /\ UNCHANGED <<request, zone, steady, position, nodata, reply, unsteady>>

(* A candidate that exists without addresses ends the search. *)
CandidateDoneAtNodata ==
  /\ pc = "query" /\ pending = {}
  /\ IF addresses # {} \/ exists
       THEN Reply(Service!Found(Current, addresses)) /\ UNCHANGED <<position, nodata>>
       ELSE /\ pc' = "candidate" /\ position' = position + 1
            /\ UNCHANGED <<reply, nodata>>
  /\ UNCHANGED <<request, zone, steady, pending, asked, addresses, exists, unsteady>>

(* Addresses end the lookup; a name without any is remembered.             *)
CandidateDone ==
  /\ pc = "query" /\ pending = {}
  /\ IF addresses # {} THEN Reply(Service!Found(Current, addresses)) /\ UNCHANGED <<position, nodata>>
     ELSE /\ pc' = "candidate" /\ position' = position + 1
          /\ nodata' = IF exists /\ nodata = {} THEN {Current} ELSE nodata
          /\ UNCHANGED reply
  /\ UNCHANGED <<request, zone, steady, pending, asked, addresses, exists, unsteady>>

NoMoreCandidates ==
  /\ pc = "candidate" /\ position > Len(request.order)
  /\ Reply(IF nodata = {} THEN Service!NotFound
           ELSE Service!Found(CHOOSE c \in nodata : TRUE, {}))
  /\ UNCHANGED <<request, zone, steady, lookup, unsteady>>

(* A usable answer, NOERROR or NXDOMAIN, for the record types in turn.     *)
Use(t) ==
  /\ pc' = "query"
  /\ pending' = pending \ {t}
  /\ asked' = 0
  /\ exists' = (exists \/ Current \in zone.exists)
  /\ addresses' = IF Current \in zone.exists THEN addresses \cup ({t} \cap zone.has[Current])
                                             ELSE addresses
  /\ UNCHANGED <<request, zone, steady, position, nodata, reply, unsteady>>

(* The types of a family in the order A, AAAA.                             *)
NextType == CHOOSE t \in pending : \A u \in pending : t <= u

(* One round too many. *)
AskingOnceMore ==
  /\ pc = "query" /\ pending # {} /\ asked <= Servers * Attempts
  /\ Current \notin request.unencodable

Asking ==
  /\ pc = "query" /\ pending # {} /\ asked < Servers * Attempts
  /\ Current \notin request.unencodable

(* encode_name raises before anything is sent: no other candidate is tried.*)
BadLabel ==
  /\ pc = "query" /\ pending # {} /\ asked < Servers * Attempts
  /\ Current \in request.unencodable
  /\ Reply(Service!Refused)
  /\ UNCHANGED <<request, zone, steady, lookup, unsteady>>

AnswerUdp == Asking /\ Use(NextType)

(* The answer came truncated: the same question over TCP.                  *)
Truncated ==
  /\ Asking
  /\ pc' = "tcp"
  /\ UNCHANGED <<request, zone, steady, lookup, reply, unsteady>>

AnswerTcp == pc = "tcp" /\ Use(NextType)

(* The first failure gives the query up. *)
UnusableSkipping ==
  /\ Asking \/ pc = "tcp"
  /\ Server \notin steady
  /\ pc' = "query"
  /\ asked' = Servers * Attempts
  /\ unsteady' = unsteady \cup {Server}
  /\ UNCHANGED <<request, zone, steady, position, pending, addresses, exists, nodata, reply>>

(* The same server is asked until it answers. *)
UnusableRetried ==
  /\ Asking \/ pc = "tcp"
  /\ Server \notin steady
  /\ pc' = "query"
  /\ unsteady' = unsteady \cup {Server}
  /\ UNCHANGED <<request, zone, steady, position, pending, asked, addresses, exists, nodata, reply>>

(* A timeout or an OSError, too short, another ident, no response bit, an  *)
(* rcode that is neither NOERROR nor NXDOMAIN, a question or record that   *)
(* query cannot walk past: on to the next server.                          *)
Unusable ==
  /\ Asking \/ pc = "tcp"
  /\ Server \notin steady
  /\ pc' = "query"
  /\ asked' = asked + 1
  /\ unsteady' = unsteady \cup {Server}
  /\ UNCHANGED <<request, zone, steady, position, pending, addresses, exists, nodata, reply>>

(* An alias of the candidate whose target does not parse: chase meets it   *)
(* after query has returned, and its ValueError is replied to the client.  *)
(* No other server is asked.                                               *)
MalformedAlias ==
  /\ Asking \/ pc = "tcp"
  /\ Server \notin steady
  /\ Reply(Service!Refused)
  /\ unsteady' = unsteady \cup {Server}
  /\ UNCHANGED <<request, zone, steady, lookup>>

(* The query has gone round: Unavailable ends the whole lookup.            *)
GiveUp ==
  /\ pc = "query" /\ pending # {} /\ asked >= Servers * Attempts
  /\ Reply(Service!Unavailable)
  /\ UNCHANGED <<request, zone, steady, lookup, unsteady>>

Next == NextCandidate \/ CandidateDone \/ NoMoreCandidates \/ AnswerUdp \/ Truncated
          \/ AnswerTcp \/ Unusable \/ BadLabel \/ MalformedAlias \/ GiveUp

Spec     == Init /\ [][Next]_vars
FairSpec == Spec /\ WF_vars(Next)
-----------------------------------------------------------------------------
(* Every variable keeps its type; a query never makes more exchanges than  *)
(* its rounds allow.                                                       *)
TypeOK ==
  /\ request \in Service!Request /\ zone \in Service!Zone
  /\ steady \subseteq 1..Servers
  /\ pc \in {"candidate", "query", "tcp", "replied"}
  /\ position \in 1..Len(request.order) + 1
  /\ pending \subseteq request.types /\ addresses \subseteq request.types
  /\ asked \in 0..Servers * Attempts
  /\ exists \in BOOLEAN /\ nodata \subseteq Domain
  /\ unsteady \subseteq (1..Servers) \ steady

(* Every behaviour is one of LookupService: the reply is what the DNS      *)
(* holds, unavailable or an error.                                         *)
Implements == Service!Spec

(* One nameserver that always answers is enough not to be unavailable:     *)
(* every configured server has failed then.  It is not enough not to be    *)
(* refused: for that one answer with a bad alias, or a candidate that has  *)
(* no encoding, will do.                                                   *)
OneGoodServerSuffices ==
  /\ reply = Service!Unavailable => unsteady = 1..Servers
  /\ reply = Service!Refused => unsteady # {} \/ Current \in request.unencodable

(* Every lookup is replied to, whatever the servers do.                    *)
EveryLookupReplies == <>(pc = "replied")
=============================================================================
