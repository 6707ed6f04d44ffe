---------------------------- MODULE MessagePack ----------------------------
(***************************************************************************)
(* buildroot-resolver.py: resolvd's socket protocol.  A frame is a length, *)
(* least octet first, and a MessagePack value; the handler reads one,      *)
(* answers it with one and closes.  A value is [is, v]:                    *)
(*   "nil", "bool" (v a boolean), "int" (v its octets without leading      *)
(*   zeros), "neg" (v the octet), "str" and "bin" (v their octets),        *)
(*   "list" (v a sequence of values), "map" (v a sequence of <<key,        *)
(*   value>>).                                                             *)
(***************************************************************************)
EXTENDS Naturals, SequencesExt

CONSTANTS
    MAX_MESSAGE,     \* the longest request that is read
    Found(_),        \* what lookup finds of a name: [ok, outcome, canonical,
                     \* addresses]; not ok of one it raises a ValueError for
    Pointers(_)      \* what reverse finds: [ok, outcome, records]; not ok of what
                     \* ip_address refuses

Nil == [is |-> "nil"]
Str(octets) == [is |-> "str", v |-> octets]
Entry(map, key) ==
    LET of == {i \in DOMAIN map.v : map.v[i][1] = key}
    IN IF of = {} THEN Nil ELSE map.v[CHOOSE i \in of : TRUE][2]

\* Octets of a number, most significant first, and back.  No datum is longer
\* than three octets can count.
Octets(n) == <<n \div 65536, (n \div 256) % 256, n % 256>>
Padded(octets, width) == [i \in 1..(width - Len(octets)) |-> 0] \o octets
Stripped(octets) == SubSeq(octets, 1 + Cardinality({i \in DOMAIN octets :
                                       \A j \in 1..i : octets[j] = 0}), Len(octets))
BeyondAnyData == 16777216
Number(octets) ==
    LET o == Padded(Stripped(octets), 3)
    IN IF Len(Stripped(octets)) > 3 THEN BeyondAnyData ELSE o[1] * 65536 + o[2] * 256 + o[3]

-----------------------------------------------------------------------------
\* A length or count in the octets of its own type, for types of 1, 2 and 4.
Counted(n, width) == Padded(Stripped(Octets(n)), width)

PackInt(v) ==
    CASE v = <<>>                      -> <<0>>
      [] Len(v) = 1 /\ v[1] < 128      -> v
      [] Len(v) = 1 /\ v[1] >= 128     -> <<204>> \o v
      [] Len(v) = 2                    -> <<205>> \o v
      [] Len(v) \in 3..4               -> <<206>> \o Padded(v, 4)
      [] Len(v) \in 5..8               -> <<207>> \o Padded(v, 8)

\* The one-octet header is taken for 32 octets too.
PackStrOneTooMany(v) ==
    LET n == Len(v)
    IN (CASE n <= 32                   -> <<160 + n>>
          [] n \in 33..255             -> <<217, n>>
          [] n \in 256..65535          -> <<218>> \o Counted(n, 2)) \o v

PackStr(v) ==
    LET n == Len(v)
    IN (CASE n < 32                    -> <<160 + n>>
          [] n \in 32..255             -> <<217, n>>
          [] n \in 256..65535          -> <<218>> \o Counted(n, 2)
          [] OTHER                     -> <<219>> \o Counted(n, 4)) \o v

PackBin(v) ==
    LET n == Len(v)
    IN (CASE n <= 255                  -> <<196, n>>
          [] n \in 256..65535          -> <<197>> \o Counted(n, 2)
          [] OTHER                     -> <<198>> \o Counted(n, 4)) \o v

Head16(n, small, large) == IF n < 16 THEN <<small + n>> ELSE <<large>> \o Counted(n, 2)

RECURSIVE pack(_)
pack(value) ==
    CASE value.is = "nil"  -> <<192>>
      [] value.is = "bool" -> <<IF value.v THEN 195 ELSE 194>>
      [] value.is = "int"  -> PackInt(value.v)
      [] value.is = "str"  -> PackStr(value.v)
      [] value.is = "bin"  -> PackBin(value.v)
      [] value.is = "list" ->
           Head16(Len(value.v), 144, 220) \o FlattenSeq([i \in DOMAIN value.v |-> pack(value.v[i])])
      [] value.is = "map"  ->
           Head16(Len(value.v), 128, 222)
             \o FlattenSeq([i \in DOMAIN value.v |-> pack(value.v[i][1]) \o pack(value.v[i][2])])

-----------------------------------------------------------------------------
(* unpack: the value that begins at an offset and the offset after it, or  *)
(* not ok, which stands for every ValueError.                              *)

Bad == [ok |-> FALSE]
Take(data, pos, n) ==
    IF pos + n > Len(data) THEN Bad
    ELSE [ok |-> TRUE, value |-> SubSeq(data, pos + 1, pos + n), pos |-> pos + n]

Tagged(is, taken) ==
    IF taken.ok THEN [taken EXCEPT !.value = [is |-> is, v |-> IF is = "int" THEN Stripped(@) ELSE @]]
    ELSE Bad

\* The count in b's own low bits, or in the octets that follow it.
CountOf(data, pos, b, fixed, mask, widths) ==
    IF b \in fixed THEN [ok |-> TRUE, value |-> b % mask, pos |-> pos]
    ELSE LET taken == Take(data, pos, widths[b])
         IN IF taken.ok THEN [taken EXCEPT !.value = Number(@)] ELSE Bad

RECURSIVE unpack(_, _), Items(_, _, _, _), Pairs(_, _, _, _)
Items(data, pos, n, items) ==
    LET item == unpack(data, pos)
    IN IF n = 0 THEN [ok |-> TRUE, value |-> [is |-> "list", v |-> items], pos |-> pos]
       ELSE IF ~item.ok THEN Bad
       ELSE Items(data, item.pos, n - 1, Append(items, item.value))

Pairs(data, pos, n, pairs) ==
    LET key == unpack(data, pos)
        item == unpack(data, key.pos)
    IN IF n = 0 THEN [ok |-> TRUE, value |-> [is |-> "map", v |-> pairs], pos |-> pos]
       ELSE IF ~key.ok THEN Bad
       ELSE IF key.value.is # "str" \/ \E p \in Range(pairs) : p[1] = key.value THEN Bad
       ELSE IF ~item.ok THEN Bad
       ELSE Pairs(data, item.pos, n - 1, Append(pairs, <<key.value, item.value>>))

unpack(data, start) ==
    LET b == data[start + 1]
        pos == start + 1
        maps == CountOf(data, pos, b, 128..143, 16, (222 :> 2) @@ (223 :> 4))
        lists == CountOf(data, pos, b, 144..159, 16, (220 :> 2) @@ (221 :> 4))
        strs == CountOf(data, pos, b, 160..191, 32, (217 :> 1) @@ (218 :> 2) @@ (219 :> 4))
        bins == CountOf(data, pos, b, {}, 1, (196 :> 1) @@ (197 :> 2) @@ (198 :> 4))
    IN CASE start >= Len(data) -> Bad
         [] start < Len(data) /\ b < 128 ->
              [ok |-> TRUE, value |-> [is |-> "int", v |-> Stripped(<<b>>)], pos |-> pos]
         [] start < Len(data) /\ b >= 224 ->
              [ok |-> TRUE, value |-> [is |-> "neg", v |-> b], pos |-> pos]
         [] start < Len(data) /\ b \in 128..143 \cup {222, 223} ->
              IF maps.ok THEN Pairs(data, maps.pos, maps.value, <<>>) ELSE Bad
         [] start < Len(data) /\ b \in 144..159 \cup {220, 221} ->
              IF lists.ok THEN Items(data, lists.pos, lists.value, <<>>) ELSE Bad
         [] start < Len(data) /\ b \in 160..191 \cup {217, 218, 219} ->
              IF strs.ok THEN Tagged("str", Take(data, strs.pos, strs.value)) ELSE Bad
         [] start < Len(data) /\ b \in {196, 197, 198} ->
              IF bins.ok THEN Tagged("bin", Take(data, bins.pos, bins.value)) ELSE Bad
         [] start < Len(data) /\ b = 192 -> [ok |-> TRUE, value |-> Nil, pos |-> pos]
         [] start < Len(data) /\ b \in {194, 195} ->
              [ok |-> TRUE, value |-> [is |-> "bool", v |-> b = 195], pos |-> pos]
         [] start < Len(data) /\ b \in 204..207 ->
              Tagged("int", Take(data, pos, <<1, 2, 4, 8>>[b - 203]))
         [] OTHER -> Bad
-----------------------------------------------------------------------------
(* The handler.  Keys and words of the protocol are one octet each.        *)

Word == [query |-> Str(<<1>>), name |-> Str(<<2>>), family |-> Str(<<3>>),
         lookup |-> Str(<<4>>), reverse |-> Str(<<5>>), address |-> Str(<<6>>),
         inet |-> Str(<<7>>), inet6 |-> Str(<<8>>), any |-> Str(<<9>>),
         ok |-> Str(<<10>>), error |-> Str(<<11>>), outcome |-> Str(<<12>>),
         canonical |-> Str(<<13>>), addresses |-> Str(<<14>>), ttl |-> Str(<<15>>),
         found |-> Str(<<16>>), localhost |-> Str(<<17>>), records |-> Str(<<18>>),
         type |-> Str(<<19>>), data |-> Str(<<20>>), text |-> Str(<<21>>),
         server |-> Str(<<22>>), interface |-> Str(<<23>>), rcode |-> Str(<<24>>),
         source |-> Str(<<25>>), validation |-> Str(<<26>>), kind |-> Str(<<27>>),
         notfound |-> Str(<<28>>), unavailable |-> Str(<<29>>)]
Map(pairs) == [is |-> "map", v |-> pairs]
Whole(octets) == [is |-> "int", v |-> octets]
Bool(b) == [is |-> "bool", v |-> b]
List(values) == [is |-> "list", v |-> values]
Error == Map(<<<<Word.ok, Bool(FALSE)>>, <<Word.error, Word.error>>>>)

\* A field that always reads the same (kind, source, validation) holds its own name.
Same(word) == <<word, word>>

Addresses(outcome, canonical, addresses) ==
    LET One(a) == Map(<<<<Word.address, Str(a.address)>>, <<Word.ttl, Whole(a.ttl)>>>>)
    IN Map(<<<<Word.ok, Bool(TRUE)>>, Same(Word.kind), <<Word.outcome, outcome>>,
             <<Word.canonical, canonical>>,
             <<Word.addresses, List([i \in DOMAIN addresses |-> One(addresses[i])])>>,
             Same(Word.source), Same(Word.validation)>>)

Records(outcome, records) ==
    LET One(r) == Map(<<<<Word.name, Str(r.name)>>, <<Word.type, Whole(<<12>>)>>, <<Word.ttl, Whole(r.ttl)>>,
                        <<Word.data, [is |-> "bin", v |-> r.data]>>, <<Word.text, Str(r.text)>>>>)
    IN Map(<<<<Word.ok, Bool(TRUE)>>, Same(Word.kind), <<Word.outcome, outcome>>,
             <<Word.records, List([i \in DOMAIN records |-> One(records[i])])>>,
             Same(Word.source), <<Word.server, Nil>>, <<Word.interface, Nil>>, Same(Word.validation),
             <<Word.rcode, Whole(IF outcome = Word.notfound THEN <<3>> ELSE <<>>)>>>>)

\* The two addresses of localhost and the families they are of.
Synthetic(family) ==
    SelectSeq(<<[address |-> <<127>>, ttl |-> <<>>, of |-> Word.inet],
                [address |-> <<1>>, ttl |-> <<>>, of |-> Word.inet6]>>,
              LAMBDA a : family \in {Word.any, a.of})

Falsy == {Nil, Bool(FALSE), Whole(<<>>), Str(<<>>), [is |-> "bin", v |-> <<>>], List(<<>>), Map(<<>>)}

Family(request) ==
    LET asked == Entry(request, Word.family)
    IN IF asked \in Falsy THEN Word.any ELSE asked

\* lookup looks the family up in a dictionary: a TypeError that nothing catches.
Raises(request) ==
    LET name == Entry(request, Word.name)
    IN /\ Entry(request, Word.query) = Word.lookup
       /\ name.is = "str" /\ name.v # <<>> /\ name # Word.localhost
       /\ Family(request).is \in {"list", "map"}

reply(request) ==
    LET query == Entry(request, Word.query)
        name == Entry(request, Word.name)
        found == Found(name.v)
        pointers == Pointers(Entry(request, Word.address))
    IN CASE query = Word.lookup /\ (name.is # "str" \/ name.v = <<>>) -> Error
         [] query = Word.lookup /\ name = Word.localhost ->
              Addresses(Word.found, Word.localhost, Synthetic(Family(request)))
         [] query = Word.lookup /\ name.is = "str" /\ name.v # <<>> /\ name # Word.localhost ->
              IF found.ok THEN Addresses(found.outcome, Str(found.canonical), found.addresses)
              ELSE Error
         [] query = Word.reverse /\ pointers.ok -> Records(pointers.outcome, pointers.records)
         [] OTHER -> Error

LittleEndian(n) == Reverse(Counted(n, 4))
Frame(body) == LittleEndian(Len(body)) \o body

\* Handler.handle: what the client of a connection reads for what it sent
\* before it stopped; nothing when the connection is closed without an answer.
handle(sent) ==
    LET length == Number(Reverse(SubSeq(sent, 1, 4)))
        request == unpack(SubSeq(sent, 5, 4 + length), 0)
    IN IF Len(sent) < 4 \/ length > MAX_MESSAGE \/ Len(sent) < 4 + length THEN <<>>
       ELSE IF request.ok /\ request.pos = length /\ request.value.is = "map"
            THEN IF Raises(request.value) THEN <<>> ELSE Frame(pack(reply(request.value)))
            ELSE Frame(pack(Error))

-----------------------------------------------------------------------------
\* A client that sends a request reads one frame, which holds one value, to
\* its last octet, and that value is the reply, whatever the lengths of the
\* names and the number of addresses in it; of a request that was cut short
\* nothing is answered, and one whose frame states a shorter length is refused
\* rather than read as another request.  A lookup whose family is a list or map
\* is not answered.  (pack, unpack, Handler.handle)
AnsweredInFull(request) ==
    LET body == pack(request)
        answer == handle(Frame(body))
        read == unpack(SubSeq(answer, 5, Len(answer)), 0)
    IN IF Len(body) > MAX_MESSAGE \/ Raises(request) THEN answer = <<>>
       ELSE /\ read = [ok |-> TRUE, value |-> reply(request), pos |-> Len(answer) - 4]
            /\ SubSeq(answer, 1, 4) = LittleEndian(Len(answer) - 4)
            /\ \A k \in 0..(Len(body) - 1) :
                 /\ handle(SubSeq(Frame(body), 1, 4 + k)) = <<>>
                 /\ handle(Frame(SubSeq(body, 1, k))) = Frame(pack(Error))
=============================================================================
