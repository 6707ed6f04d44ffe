------------------------------ MODULE CertData ------------------------------
(***************************************************************************)
(* certdata-to-pem.py: Mozilla's certdata.txt read into the bundle of root *)
(* certificates trusted for ServerAuth.  A text is a sequence of lines, a  *)
(* line one of the shapes the parser tells apart:                          *)
(*   [is |-> "begin" | "end" | "blank" | "comment" | "garbled"]            *)
(*   [is |-> "bytes", bytes |-> <<...>>]       a row of \ooo escapes       *)
(*   [is |-> "attribute", name, kind, value]   value = <<>> when absent    *)
(* Values are sequences of tokens; the token Malformed stands for a UTF8   *)
(* literal that does not parse and for a row that is not octal.            *)
(***************************************************************************)
EXTENDS Naturals, SequencesExt

CERTIFICATE == <<"CKO_CERTIFICATE">>
TRUST == <<"CKO_NSS_TRUST">>
ROOT_LIST == <<"CKO_NSS_BUILTIN_ROOT_LIST">>
TRUSTED_DELEGATOR == <<"CKT_NSS_TRUSTED_DELEGATOR">>
NOT_TRUSTED == <<"CKT_NSS_NOT_TRUSTED">>
MUST_VERIFY == <<"CKT_NSS_MUST_VERIFY_TRUST">>
SERVER_AUTH_VALUES == {TRUSTED_DELEGATOR, NOT_TRUSTED, MUST_VERIFY}
Malformed == "malformed"
NoBlock == "no block"

EXPECTED_KINDS ==
    [CKA_CLASS |-> {"CK_OBJECT_CLASS"}, CKA_LABEL |-> {"UTF8"},
     CKA_ISSUER |-> {"MULTILINE_OCTAL"}, CKA_SERIAL_NUMBER |-> {"MULTILINE_OCTAL"},
     CKA_VALUE |-> {"MULTILINE_OCTAL"}, CKA_TRUST_SERVER_AUTH |-> {"CK_TRUST"},
     CKA_NSS_SERVER_DISTRUST_AFTER |-> {"CK_BBOOL", "MULTILINE_OCTAL"}]

Get(obj, name) == IF name \in DOMAIN obj THEN obj[name] ELSE <<>>
With(obj, name, value) ==
    [n \in DOMAIN obj \cup {name} |-> IF n = name THEN value ELSE obj[n]]
HasToken(value, token) == \E i \in DOMAIN value : value[i] = token

-----------------------------------------------------------------------------
(* parse_objects: one pass, a state for the open object and the open block *)

Fresh == [ok |-> TRUE, begun |-> FALSE, objects |-> <<>>, current |-> <<>>,
          pending |-> NoBlock, octal |-> <<>>]

parse_octal(rows) == [ok |-> rows # <<>> /\ ~HasToken(rows, Malformed), value |-> rows]

Row(line) == CASE line.is = "bytes" -> line.bytes
               [] line.is = "blank" -> <<>>
               [] OTHER             -> <<Malformed>>

InBlock(s, line) ==
    IF line.is # "end" THEN [s EXCEPT !.octal = @ \o Row(line)]
    ELSE LET block == parse_octal(s.octal)
         IN [s EXCEPT !.ok = block.ok, !.current = With(@, s.pending, block.value),
                      !.pending = NoBlock, !.octal = <<>>]

\* What an object says again is ignored.
AttributeKeepingFirst(s, line) ==
    LET next  == line.name = "CKA_CLASS" /\ s.current # <<>>
        open  == IF next THEN <<>> ELSE s.current
        octal == line.kind = "MULTILINE_OCTAL"
    IN [s EXCEPT
          !.objects = IF next THEN Append(@, s.current) ELSE @,
          !.current = IF octal \/ line.name \in DOMAIN open THEN open
                      ELSE With(open, line.name, line.value),
          !.pending = IF octal THEN line.name ELSE NoBlock]

Attribute(s, line) ==
    LET next  == line.name = "CKA_CLASS" /\ s.current # <<>>
        open  == IF next THEN <<>> ELSE s.current
        octal == line.kind = "MULTILINE_OCTAL"
    IN [s EXCEPT
          !.ok = /\ line.name \in DOMAIN EXPECTED_KINDS
                        => line.kind \in EXPECTED_KINDS[line.name]
                 /\ line.name \notin DOMAIN open
                 /\ octal <=> line.value = <<>>
                 /\ line.kind = "UTF8" => ~HasToken(line.value, Malformed),
          !.objects = IF next THEN Append(@, s.current) ELSE @,
          !.current = IF octal THEN open ELSE With(open, line.name, line.value),
          !.pending = IF octal THEN line.name ELSE NoBlock]

ReadLine(s, line) ==
    CASE ~s.ok                               -> s
      [] s.ok /\ s.pending # NoBlock         -> InBlock(s, line)
      [] s.ok /\ s.pending = NoBlock /\ line.is \in {"blank", "comment"} -> s
      [] s.ok /\ s.pending = NoBlock /\ line.is = "begin" ->
            [s EXCEPT !.begun = TRUE,
                      !.ok = ~s.begun /\ s.current = <<>> /\ s.objects = <<>>]
      [] s.ok /\ s.pending = NoBlock /\ line.is = "attribute" /\ s.begun ->
            Attribute(s, line)
      [] OTHER                               -> [s EXCEPT !.ok = FALSE]

parse_objects(text) ==
    LET end == FoldLeft(ReadLine, Fresh, text)
    IN [ok |-> end.ok /\ end.begun /\ end.pending = NoBlock,
        objects |-> IF end.current = <<>> THEN end.objects
                    ELSE Append(end.objects, end.current)]

-----------------------------------------------------------------------------
label_of(obj) == IF "CKA_LABEL" \in DOMAIN obj THEN obj.CKA_LABEL ELSE <<"(unnamed)">>
object_key(obj) == <<Get(obj, "CKA_ISSUER"), Get(obj, "CKA_SERIAL_NUMBER")>>
HasIdentity(obj) == <<>> \notin Range(object_key(obj))

convert(text) ==
    LET parsed == parse_objects(text)
        objects == parsed.objects
        OfClass(c) == {k \in DOMAIN objects : Get(objects[k], "CKA_CLASS") = c}
        certificates == OfClass(CERTIFICATE)
        trust == OfClass(TRUST)
        Key(k) == object_key(objects[k])
        Der(k) == Get(objects[k], "CKA_VALUE")
        Auth(k) == Get(objects[k], "CKA_TRUST_SERVER_AUTH")
        Record(c) == CHOOSE t \in trust : Key(t) = Key(c)
        Counted(value) == {c \in certificates : Auth(Record(c)) = value}
        ok == /\ parsed.ok
              /\ \A k \in DOMAIN objects :
                    /\ Get(objects[k], "CKA_CLASS") \in {ROOT_LIST, CERTIFICATE, TRUST}
                    /\ k \in certificates \cup trust => HasIdentity(objects[k])
              /\ \A c \in certificates : Der(c) # <<>>
              /\ IsInjective([c \in certificates |-> Key(c)])
              /\ IsInjective([t \in trust |-> Key(t)])
              /\ Cardinality(OfClass(ROOT_LIST)) = 1
              /\ {Key(c) : c \in certificates} = {Key(t) : t \in trust}
              /\ IsInjective([c \in certificates |-> Der(c)])
              /\ \A t \in trust : Auth(t) \in SERVER_AUTH_VALUES
    IN IF ~ok THEN [ok |-> FALSE]
       ELSE [ok |-> TRUE,
             entries |-> {[label |-> label_of(objects[c]), der |-> Der(c)] :
                             c \in Counted(TRUSTED_DELEGATOR)},
             counts |-> [trusted |-> Cardinality(Counted(TRUSTED_DELEGATOR)),
                         distrusted |-> Cardinality(Counted(NOT_TRUSTED)),
                         other_purpose |-> Cardinality(Counted(MUST_VERIFY)),
                         distrust_after |->
                             Cardinality({c \in Counted(TRUSTED_DELEGATOR) :
                                 Get(objects[Record(c)], "CKA_NSS_SERVER_DISTRUST_AFTER")
                                     \notin {<<>>, <<"CK_FALSE">>}})]]

\* main: the bundle, or nothing at all when the text is refused or too poor.
main(text, floor) ==
    LET outcome == convert(text)
    IN IF outcome.ok /\ Cardinality(outcome.entries) >= floor THEN outcome.entries ELSE {}

-----------------------------------------------------------------------------
(* The text read by position instead of line by line: an object is the     *)
(* stretch from one CKA_CLASS line to the next.                            *)

IsHead(line) == line.is = "attribute" /\ line.name = "CKA_CLASS"
Heads(text) == {i \in DOMAIN text : IsHead(text[i])}
Stretch(text, h) == {i \in h..Len(text) : \A g \in Heads(text) : ~(h < g /\ g <= i)}
ValueAt(text, i) ==
    IF text[i].kind # "MULTILINE_OCTAL" THEN text[i].value
    ELSE LET last == CHOOSE e \in i..Len(text) :
                        text[e].is = "end" /\ \A d \in i..(e - 1) : text[d].is # "end"
         IN FlattenSeq([k \in 1..(last - i - 1) |-> Row(text[i + k])])
Says(text, h, name) ==
    {ValueAt(text, i) : i \in {j \in Stretch(text, h) :
                                  text[j].is = "attribute" /\ text[j].name = name}}

\* The conversion fails closed: whatever happened to the text, the bundle is
\* refused or holds exactly the certificates whose own and only trust object
\* delegates them, every certificate and trust object of the text being of
\* such a pair.  (convert and its docstring: nothing malformed, duplicate or
\* orphaned may silently alter the store.)
BundleIsTheStore(text) ==
    convert(text).ok =>
        LET Are(class) == {h \in Heads(text) : Says(text, h, "CKA_CLASS") = {class}}
            Same(a, b) == \A n \in {"CKA_ISSUER", "CKA_SERIAL_NUMBER"} :
                              Says(text, a, n) = Says(text, b, n)
            Delegates(t) == Says(text, t, "CKA_TRUST_SERVER_AUTH") = {TRUSTED_DELEGATOR}
        IN /\ Cardinality(Heads(text)) = Cardinality(Are(CERTIFICATE)) + Cardinality(Are(TRUST)) + 1
           /\ \A c \in Are(CERTIFICATE) : Cardinality({t \in Are(TRUST) : Same(c, t)}) = 1
           /\ \A t \in Are(TRUST) : Cardinality({c \in Are(CERTIFICATE) : Same(c, t)}) = 1
           /\ {{e.der} : e \in convert(text).entries}
                = {Says(text, c, "CKA_VALUE") :
                      c \in {d \in Are(CERTIFICATE) :
                                \E t \in Are(TRUST) : Same(d, t) /\ Delegates(t)}}
=============================================================================
