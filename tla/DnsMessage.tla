----------------------------- MODULE DnsMessage -----------------------------
(***************************************************************************)
(* buildroot-resolver.py: a DNS response octet by octet, as the resolver   *)
(* reads it (decode_name, the record walk of query) and as it uses it      *)
(* (chase for addresses, reverse for names).  A name is a sequence of      *)
(* labels, a label a sequence of octets; offsets count from 0.  What the   *)
(* server writes is external: any message that states its records, with    *)
(* names written out or compressed as RFC 1035 permits.                    *)
(***************************************************************************)
EXTENDS Integers, SequencesExt

A == 1
CNAME == 5
PTR == 12
POINTER == 192             \* 0xc0: the two high bits of a length octet
MAX_JUMPS == 32
MAX_ALIASES == 16

NoEnd == -1
Octet(msg, pos) == msg[pos + 1]
U16(msg, pos) == 256 * Octet(msg, pos) + Octet(msg, pos + 1)
Part(msg, pos, length) == SubSeq(msg, pos + 1, pos + length)   \* a Python slice: short at the end

lower(name) ==
    [i \in DOMAIN name |-> [k \in DOMAIN name[i] |->
        IF name[i][k] \in 65..90 THEN name[i][k] + 32 ELSE name[i][k]]]

encode_name(name) ==
    [ok |-> \A i \in DOMAIN name : Len(name[i]) \in 1..63,
     octets |-> FlattenSeq([i \in DOMAIN name |-> <<Len(name[i])>> \o name[i]]) \o <<0>>]

-----------------------------------------------------------------------------
(* decode_name: labels and pointers until the empty label.  The name ends  *)
(* in the message where its first pointer does.                            *)

Labels(s, msg, n) ==
    [s EXCEPT !.name = Append(@, Part(msg, s.pos + 1, n)), !.pos = @ + 1 + n]

\* The name is said to end where its last pointer does.
JumpEndingLast(s, msg) ==
    [s EXCEPT !.jumps = @ + 1, !.end = s.pos + 2,
              !.pos = 256 * (Octet(msg, s.pos) - POINTER) + Octet(msg, s.pos + 1)]

Jump(s, msg) ==
    [s EXCEPT !.jumps = @ + 1, !.end = IF @ = NoEnd THEN s.pos + 2 ELSE @,
              !.pos = 256 * (Octet(msg, s.pos) - POINTER) + Octet(msg, s.pos + 1)]

RECURSIVE Decode(_, _)
Decode(s, msg) ==
    LET n == Octet(msg, s.pos)
    IN CASE s.pos >= Len(msg) -> [ok |-> FALSE]
         [] s.pos < Len(msg) /\ n >= POINTER ->
              IF s.pos + 1 >= Len(msg) \/ s.jumps > MAX_JUMPS THEN [ok |-> FALSE]
              ELSE Decode(Jump(s, msg), msg)
         [] s.pos < Len(msg) /\ n = 0 ->
              [ok |-> TRUE, name |-> s.name, next |-> IF s.end = NoEnd THEN s.pos + 1 ELSE s.end]
         [] OTHER -> Decode(Labels(s, msg, n), msg)

decode_name(msg, pos) == Decode([pos |-> pos, name |-> <<>>, jumps |-> 0, end |-> NoEnd], msg)

-----------------------------------------------------------------------------
(* query's walk: the questions are skipped, the answers collected; a       *)
(* message in which a name or a record's fixed part does not fit is        *)
(* unusable.                                                               *)

Question(s, msg) ==
    LET name == decode_name(msg, s.pos)
    IN IF s.ok /\ name.ok THEN [s EXCEPT !.pos = name.next + 4] ELSE [s EXCEPT !.ok = FALSE]

Record(s, msg) ==
    LET owner == decode_name(msg, s.pos)
        fixed == owner.next
        length == U16(msg, fixed + 8)
    IN IF ~(s.ok /\ owner.ok) THEN [s EXCEPT !.ok = FALSE]
       ELSE IF fixed + 10 > Len(msg) THEN [s EXCEPT !.ok = FALSE]
       ELSE [s EXCEPT !.pos = fixed + 10 + length,
                      !.records = Append(@, [owner |-> owner.name, typ |-> U16(msg, fixed),
                                             data |-> Part(msg, fixed + 10, length),
                                             off |-> fixed + 10])]

records(msg) ==
    LET Times(n) == [i \in 1..n |-> msg]
        skipped == FoldLeft(Question, [ok |-> TRUE, pos |-> 12, records |-> <<>>],
                            Times(U16(msg, 4)))
    IN FoldLeft(Record, skipped, Times(U16(msg, 6)))

\* chase: each alias in turn, from the first CNAME record its name owns.
Target(msg, name) ==
    LET all == records(msg).records
        of == SelectSeq(all, LAMBDA r : r.typ = CNAME /\ lower(r.owner) = name)
    IN IF of = <<>> THEN name ELSE lower(decode_name(msg, of[1].off).name)

chase(msg, name, rtype) ==
    LET canonical == FoldLeft(LAMBDA c, i : Target(msg, c), lower(name),
                              [i \in 1..MAX_ALIASES |-> i])
    IN [canonical |-> canonical,
        found |-> {r.data : r \in {q \in Range(records(msg).records) :
                       q.typ = rtype /\ lower(q.owner) = canonical /\ Len(q.data) \in {4, 16}}}]

\* reverse: every PTR record's target, encoded anew without compression.
reverse(msg) ==
    LET of == SelectSeq(records(msg).records, LAMBDA r : r.typ = PTR)
    IN [i \in DOMAIN of |-> [name |-> of[i].owner,
                             data |-> encode_name(decode_name(msg, of[i].off).name).octets]]

-----------------------------------------------------------------------------
(* The server.  A draft is the message so far, the records it states and   *)
(* where each name (or end of one) already written in full begins.         *)

Header(answers) == <<0, 0, 128, 0, 0, 1, 0, answers, 0, 0, 0, 0>>
Bytes16(n) == <<n \div 256, n % 256>>

\* A name at the end of the draft: its first labels in full, then the rest
\* as a pointer to where the rest has been written, or to its end.
Name(draft, name, full) ==
    LET rest == SubSeq(name, full + 1, Len(name))
        head == encode_name(SubSeq(name, 1, full)).octets
    IN IF rest = <<>> THEN head
       ELSE Front(head) \o <<POINTER + draft.at[rest] \div 256, draft.at[rest] % 256>>

\* How many labels that leaves in full, if the name is compressed at all.
Shortest(draft, name, compressed) ==
    LET known == {k \in 0..(Len(name) - 1) : SubSeq(name, k + 1, Len(name)) \in DOMAIN draft.at}
    IN IF compressed /\ known # {} THEN Min(known) ELSE Len(name)

\* Where the ends of a name written at pos are found from now on.
Placed(draft, name, full, pos) ==
    LET Start(k) == pos + k + SumFunction([i \in 1..k |-> Len(name[i])])
    IN draft.at @@ [rest \in {SubSeq(name, k + 1, Len(name)) : k \in 0..full - 1} |->
                       Start(Len(name) - Len(rest))]

Asked(name) ==
    LET pos == 12
        empty == [octets |-> Header(0), stated |-> <<>>, at |-> <<>>, name |-> name]
    IN [empty EXCEPT !.octets = @ \o encode_name(name).octets \o <<0, 1, 0, 1>>,
                     !.at = Placed(empty, name, Len(name), pos)]

\* One more answer: its owner's and its target's first labels in full.
Answer(draft, record, ownerFull, targetFull) ==
    LET pos == Len(draft.octets)
        owner == Name(draft, record.owner, ownerFull)
        known == [draft EXCEPT !.at = Placed(draft, record.owner, ownerFull, pos)]
        names == record.typ \in {CNAME, PTR}
        at == pos + Len(owner) + 10
        data == IF names THEN Name(known, record.data, targetFull) ELSE record.data
    IN [octets |-> Header(Len(draft.stated) + 1)
                     \o SubSeq(draft.octets, 13, pos) \o owner \o Bytes16(record.typ)
                     \o <<0, 1, 0, 0, 0, 60>> \o Bytes16(Len(data)) \o data,
        stated |-> Append(draft.stated, record), name |-> draft.name,
        at |-> IF names THEN Placed(known, record.data, targetFull, at) ELSE known.at]

-----------------------------------------------------------------------------
\* The ends of a name's alias chain among the records a server states, where
\* the chain is one: no name with two aliases, none that comes back.
RECURSIVE Alias(_, _, _)
Alias(stated, name, seen) ==
    LET to == {lower(r.data) : r \in {q \in Range(stated) : q.typ = CNAME /\ lower(q.owner) = name}}
    IN IF to = {} THEN {name}
       ELSE IF name \in seen \/ Cardinality(to) > 1 THEN {}
       ELSE Alias(stated, CHOOSE t \in to : TRUE, seen \cup {name})

\* However a server compresses its names, the resolver reads the records it
\* wrote; and it returns exactly the addresses of the name the aliases lead
\* to, wherever in the message the links of the chain stand.
\* (decode_name's account of where a compressed name ends; chase, reverse)
ReadsWhatWasWritten(draft) ==
    LET read == records(draft.octets)
        all == read.records
        stated == draft.stated
        ends == Alias(stated, lower(draft.name), {})
        result == chase(draft.octets, draft.name, A)
    IN /\ read.ok /\ read.pos = Len(draft.octets) /\ Len(all) = Len(stated)
       /\ \A i \in DOMAIN stated :
            /\ all[i].owner = stated[i].owner /\ all[i].typ = stated[i].typ
            /\ stated[i].typ = A => all[i].data = stated[i].data
       /\ \A canonical \in ends :
            /\ result.canonical = canonical
            /\ result.found = {r.data : r \in {q \in Range(stated) :
                                   q.typ = A /\ lower(q.owner) = canonical}}
       /\ reverse(draft.octets)
            = [i \in DOMAIN SelectSeq(stated, LAMBDA r : r.typ = PTR) |->
                 LET r == SelectSeq(stated, LAMBDA q : q.typ = PTR)[i]
                 IN [name |-> r.owner, data |-> encode_name(r.data).octets]]
=============================================================================
