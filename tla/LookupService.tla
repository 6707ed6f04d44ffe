--------------------------- MODULE LookupService ---------------------------
(***************************************************************************)
(* What a client of the build root's resolver may count on: one reply,     *)
(* which is what the DNS holds for its request, an honest "unavailable", or*)
(* an error.  Nothing is made up and nothing the DNS does not say is       *)
(* reported as absent.                                                     *)
(***************************************************************************)
EXTENDS Naturals, Sequences

CONSTANTS
  Type,     \* record types a lookup may ask for
  Domain,   \* search domains, by position; 0 stands for none
  NoReply   \* the client has no reply yet

(* Which name is asked: the request's own, or it in a search domain.       *)
Candidate == Domain

(* A request: its candidates in the order glibc would try them, those      *)
(* whose labels no DNS message can carry, and its family's record types.   *)
Request == [order : Seq(Candidate), unencodable : SUBSET Candidate, types : SUBSET Type]

(* What the DNS holds: names that exist, and the types with records.       *)
Zone == [exists : SUBSET Candidate, has : [Candidate -> SUBSET Type]]

VARIABLES request, zone, reply

Unavailable == [outcome |-> "unavailable", name |-> 0, found |-> {}]

(* {'ok': False, 'error': ...}. *)
Refused == [outcome |-> "error", name |-> 0, found |-> {}]

NotFound == [outcome |-> "notfound", name |-> 0, found |-> {}]

Found(c, types) == [outcome |-> "found", name |-> c, found |-> types]

(* The candidates, by position, that have addresses and that exist.        *)
WithAddresses(r, z) ==
  {i \in DOMAIN r.order : r.order[i] \in z.exists /\ z.has[r.order[i]] \cap r.types # {}}

Existing(r, z) == {i \in DOMAIN r.order : r.order[i] \in z.exists}

First(S) == CHOOSE i \in S : \A j \in S : i <= j

(* The first candidate with addresses; else the first that exists, with    *)
(* none; else nothing.                                                     *)
Answer(r, z) ==
  IF WithAddresses(r, z) # {}
    THEN LET c == r.order[First(WithAddresses(r, z))] IN Found(c, z.has[c] \cap r.types)
  ELSE IF Existing(r, z) # {} THEN Found(r.order[First(Existing(r, z))], {})
  ELSE NotFound

Init == reply = NoReply

Reply ==
  /\ reply = NoReply
  /\ reply' \in {Answer(request, zone), Unavailable, Refused}
  /\ UNCHANGED <<request, zone>>

Spec == Init /\ [][Reply]_<<request, zone, reply>>
=============================================================================
