------------------------------- MODULE MCTools -------------------------------
(***************************************************************************)
(* The tools that work on one document, and three short protocols, each    *)
(* explored on its own: a behaviour has one subject.  Of a document tool   *)
(* the sample is a valid document and every step an edit of it (damage, or *)
(* one more entry); the tool's property is checked of every sample.  Of a  *)
(* protocol the steps are its module's and the sample stays empty.         *)
(***************************************************************************)
EXTENDS Subjects, Integers, SequencesExt

CONSTANTS t1, t2, r1, r2

VARIABLE edits     \* edits left

document == <<subject, sample, edits>>
snapshotVars == <<source, publishing, snapshot, pc, copy, runs, answers>>
serviceVars == <<key, child, script, step, at, status, scripts>>
stage0Vars == <<release, place, next, stage0, retained, identities, inputs, begun>>
vars == <<document, snapshotVars, serviceVars, stage0Vars>>

-----------------------------------------------------------------------------
Line(name, kind, value) == [is |-> "attribute", name |-> name, kind |-> kind, value |-> value]
Rows(name, rows) ==
  <<Line(name, "MULTILINE_OCTAL", <<>>)>> \o [i \in DOMAIN rows |-> [is |-> "bytes", bytes |-> rows[i]]]
    \o <<[is |-> "end"]>>
Class(c) == Line("CKA_CLASS", "CK_OBJECT_CLASS", c)
Identity(serial) == Rows("CKA_ISSUER", <<<<"ca">>>>) \o Rows("CKA_SERIAL_NUMBER", serial)
Certificate(serial, der) ==
  <<Class(Cert!CERTIFICATE), Line("CKA_LABEL", "UTF8", <<der>>)>>
    \o Identity(serial) \o Rows("CKA_VALUE", <<<<der>>>>)
Trust(serial, value) ==
  <<Class(Cert!TRUST)>> \o Identity(serial) \o <<Line("CKA_TRUST_SERVER_AUTH", "CK_TRUST", value)>>
Start == <<[is |-> "comment"], [is |-> "begin"], [is |-> "blank"], Class(Cert!ROOT_LIST)>>

CertTexts ==
  {<<Start \o Certificate(<<<<"1">>>>, "A") \o Trust(<<<<"1">>>>, Cert!TRUSTED_DELEGATOR)
      \o Certificate(<<<<"2">>>>, "B") \o Trust(<<<<"2">>>>, Cert!NOT_TRUSTED), 2>>,
   <<Start \o Trust(<<<<"2">>, <<"1">>>>, Cert!MUST_VERIFY)
      \o Certificate(<<<<"1">>, <<"2">>>>, "A") \o Certificate(<<<<"2">>, <<"1">>>>, "B")
      \o Trust(<<<<"1">>, <<"2">>>>, Cert!TRUSTED_DELEGATOR)
      \o Rows("CKA_NSS_SERVER_DISTRUST_AFTER", <<<<"0">>, <<"1">>>>), 1>>}

Damaged(text) ==
  {RemoveAt(text, i) : i \in DOMAIN text}
    \cup {InsertAt(text, i, text[i]) : i \in DOMAIN text}
    \cup {[text EXCEPT ![i] = text[i + 1], ![i + 1] = text[i]] : i \in 1..(Len(text) - 1)}

-----------------------------------------------------------------------------
\* Every u32 that is read, with the sizes about each limit; every section cut
\* about its end; one more section.
Rewritten(data) ==
  {SubSeq(data, 1, o) \o Word(n) \o SubSeq(data, o + 5, Len(data)) :
     o \in {i \in {0, 4, 8, 28, 32, 40, 52, 56} : i + 4 <= Len(data)},
     n \in {0, 1, 16, 63, 64, 65, 72, 255}}
    \cup {SubSeq(data, 1, n) : n \in {0, 3, 11, 12, 27, 28, 29, 35, 36, 99, 101, 107} \cap 0..Len(data)}
    \cup {data \o Container, data \o MicrocodePatch, Append(data, 0)}

-----------------------------------------------------------------------------
Clause == [op : {"=", ">=", "<"}, version : {2}] \cup [op : {">", "<="}, version : {1}]
ClauseSets == {{}, {[op |-> "~", version |-> 1]}} \cup {{c} : c \in Clause} \cup {{[op |-> "<", version |-> 3], [op |-> ">", version |-> 1]}}
LinesOf(names, clauses) == SeqOf([name : names, clauses : clauses], 2)
Names == {"gcc", "rustc", "zlib1g-dev"} \cup ReverseDns
Families ==
  {<<"dev.peios.kernel", "build-kernel">>, <<"dev.peios.kernel", "build-headers">>,
   <<"dev.peios.kernel", "build-other">>, <<"dev.peios.resolvd", "build-main">>, <<"other", "build-main">>}
World(archive, base) ==
  LET all == Names \cup Apt!RUNTIME_APT
  IN [archive |-> [n \in all |-> IF n = "gcc" THEN archive ELSE {1, 2}],
      base |-> [n \in all |-> IF n = "gcc" THEN base ELSE 0]]

Ask(lines, family, index) ==
  [lines |-> lines, family |-> family[1], target |-> family[2], index |-> index]

AptSamples ==
  [ask : {Ask(l, f, {"dev.peios.ukify"}) :
            l \in LinesOf(Names, {{}, {[op |-> ">=", version |-> 2]}}), f \in Families},
   world : {World({1, 2}, 0)}]
    \cup [ask : {Ask(l, f, {}) :
                   l \in LinesOf({"gcc"}, ClauseSets),
                   f \in {<<"dev.peios.kernel", "build-kernel">>, <<"other", "build-main">>}},
          world : {World(a, b) : a \in SUBSET {1, 2, 3}, b \in 0..3}]

-----------------------------------------------------------------------------
MCSubtrees == [headers |-> {<<"usr", "include", "linux">>}]
MCToolchains == [rust |-> [path |-> <<"usr", "bin", "rustc">>, version |-> "1.83"]]

File(path, body) == [path |-> path, node |-> [kind |-> "file", body |-> body]]
Link(path, to) == [path |-> path, node |-> [kind |-> "link", to |-> to]]
Directory(path) == [path |-> path, node |-> [kind |-> "dir"]]
Pc == Overlay!PkgConfig

Entries ==
  {File(<<"usr", "lib", "x">>, "one"), File(<<"usr", "lib", "x">>, "two"), Directory(<<"usr", "lib">>),
   File(<<"usr", "bin", "rustc">>, "other"), File(<<"etc", "x">>, "one"),
   File(<<"usr", "include", "linux", "a.h">>, "one"), File(<<"usr", "include", "b.h">>, "one"),
   Link(<<"usr", "lib">>, <<"lib64">>), Link(<<"usr", "lib", "y">>, <<"..", "lib", "x">>),
   Link(<<"usr", "lib", "y">>, <<"..", "..", "etc", "x">>), Link(<<"usr", "y">>, <<"/", "etc">>),
   File(Append(Pc, "p.pc"), "one"), File(Append(Pc, "x"), "one"), File(<<"usr", "lib", "pkgconfig", "p.pc">>, "one"),
   [path |-> <<"usr", "lib", "z">>, node |-> [kind |-> "special"]]}
DebianNodes ==
  {Directory(<<"usr", "lib">>), File(<<"usr", "lib", "x">>, "debian"), Link(<<"usr", "lib">>, <<"lib64">>),
   File(<<"usr", "lib64", "x">>, "debian"), Link(<<"usr", "bin">>, <<"/", "bin">>),
   File(<<"usr", "include">>, "debian"), File(Overlay!ldso, "debian"), File(Overlay!ldcache, "debian")}

OverlayAsks ==
  {[staged |-> IF toolchain = "none" THEN <<>>
               ELSE (<<"usr">> :> Overlay!Dir) @@ (<<"usr", "bin">> :> Overlay!Dir)
                      @@ (<<"usr", "bin", "rustc">> :> [kind |-> "file", body |-> "1.83"]),
    toolchain |-> toolchain,
    packages |-> <<[name |-> "library", files |-> <<Directory(<<"usr">>), File(<<"usr", "lib", "a">>, "a")>>],
                   [name |-> "headers", files |-> <<File(<<"usr", "include", "linux", "h.h">>, "h")>>]>>,
    debian |-> (<<"usr">> :> Overlay!Dir), lost |-> {}] : toolchain \in {"none", "rust"}}

Extended(ask) ==
  {[ask EXCEPT !.packages[i].files = Append(@, e)] : i \in DOMAIN ask.packages, e \in Entries}
    \cup {[ask EXCEPT !.debian = (n.path :> n.node) @@ @] : n \in DebianNodes}
    \cup {[ask EXCEPT !.lost = @ \cup {p}] : p \in {<<"usr", "lib", "a">>, <<"usr", "lib", "y">>}}

-----------------------------------------------------------------------------
Dns == INSTANCE DnsMessage

Host == <<<<119>>, <<98, 97>>>>             \* w.ba, in the case it was asked in
DnsNames == {Host, <<<<87>>, <<98, 97>>>>, <<<<120>>, <<119>>, <<98, 97>>>>}
Stated == [owner : DnsNames, typ : {Dns!A}, data : {<<192, 0, 2, 1>>}]
            \cup [owner : DnsNames, typ : {Dns!CNAME}, data : DnsNames]
            \cup [owner : {Host}, typ : {Dns!PTR}, data : DnsNames]

\* An answer with its names in full, or as short as the draft lets them be.
Written(draft) ==
  {Dns!Answer(draft, r,
              Dns!Shortest(draft, r.owner, compressed),
              IF r.typ = Dns!A THEN 0 ELSE Dns!Shortest(draft, r.data, compressed)) :
     r \in Stated, compressed \in BOOLEAN}

\* The resolver reads the records a server wrote, however it compressed their
\* names.  (buildroot-resolver.py: decode_name, query, chase, reverse)
ReadsWhatWasWritten == subject = "dns" => Dns!ReadsWhatWasWritten(sample)

-----------------------------------------------------------------------------
\* The lookup finds as many addresses as the name is long, up to one more than
\* fit a short list, with lifetimes of every width.
Ok == [is |-> "str", v |-> <<16>>]
Missing == [is |-> "str", v |-> <<28>>]
Unserved == [is |-> "str", v |-> <<29>>]
Lifetimes ==
  <<<<>>, <<127>>, <<128>>, <<255>>, <<1, 0>>, <<255, 255>>, <<1, 0, 0>>, <<127, 255, 255, 255>>,
    <<255, 255, 255, 255>>>>
MCFound(name) ==
  CASE name = <<100>> -> [ok |-> FALSE]
    [] name = <<101>> -> [ok |-> TRUE, outcome |-> Unserved, canonical |-> name, addresses |-> <<>>]
    [] name = <<102>> -> [ok |-> TRUE, outcome |-> Missing, canonical |-> name, addresses |-> <<>>]
    [] OTHER ->
         [ok |-> TRUE, outcome |-> Ok, canonical |-> name,
          addresses |-> [i \in 1..(Len(name) % 18) |-> [address |-> name, ttl |-> Lifetimes[(i % 9) + 1]]]]

\* ip_address takes some texts, numbers, and four or sixteen octets; the name
\* found for one is as long as the text.
MCPointers(value) ==
  CASE value.is = "str" /\ Len(value.v) \in 15..256 ->
         [ok |-> TRUE, outcome |-> Ok,
          records |-> [i \in 1..(Len(value.v) % 3) |->
             [name |-> value.v, ttl |-> Lifetimes[i + 6], data |-> value.v, text |-> value.v]]]
    [] value.is = "int" \/ (value.is = "bin" /\ Len(value.v) \in {4, 16}) ->
         [ok |-> TRUE, outcome |-> IF value.v = <<>> THEN Unserved ELSE Missing, records |-> <<>>]
    [] OTHER -> [ok |-> FALSE]

Pack == INSTANCE MessagePack WITH
  MAX_MESSAGE <- 290, Found <- MCFound, Pointers <- MCPointers

Requests ==
  {Pack!Map(<<<<Pack!Word.query, query>>, <<pair, value>>, <<Pack!Word.family, family>>>>) :
     query \in {Pack!Word.lookup, Pack!Word.reverse, Pack!Nil},
     pair \in {Pack!Word.name, Pack!Word.address},
     value \in {Pack!Str(Zeros(n)) : n \in {0, 1, 15, 16, 17, 31, 32, 33, 255, 256, 280}}
                 \cup {[is |-> "bin", v |-> Zeros(n)] : n \in {2, 4, 255, 256}}
                 \cup {Pack!Str(<<n>>) : n \in 100..102}
                 \cup {Pack!Word.localhost, Pack!Nil, Pack!Whole(<<>>), Pack!Whole(<<1, 0, 0, 0, 0>>),
                       Pack!List([i \in 1..20 |-> Pack!Nil])},
     family \in {Pack!Nil, Pack!Word.any, Pack!Word.inet6, Pack!List(<<>>), Pack!List(<<Pack!Nil>>)}}

\* A client reads the reply, whole, in one frame, and none to a request that was
\* cut short.  (buildroot-resolver.py: pack, unpack, Handler.handle)
AnsweredInFull == subject = "protocol" => Pack!AnsweredInFull(sample)

-----------------------------------------------------------------------------
Documents ==
  [certificates |-> CertTexts,
   microcode |-> {<<GoodFile, 2>>},
   apt |-> AptSamples \X {0},
   overlay |-> OverlayAsks \X {2},
   dns |-> {<<Dns!Asked(Host), 3>>},
   protocol |-> Requests \X {0}]

Subjects == DOMAIN Documents \cup {"snapshot", "services", "stage0"}

Init ==
  /\ subject \in Subjects
  /\ IF subject \in DOMAIN Documents
       THEN \E d \in Documents[subject] : sample = d[1] /\ edits = d[2]
       ELSE sample = <<>> /\ edits = 0
  /\ Snapshot!Init /\ Services!Init
  /\ Seed!Init /\ (subject # "stage0" => release = r1)

Edit ==
  /\ edits > 0 /\ edits' = edits - 1
  /\ CASE subject = "certificates" -> sample' \in Damaged(sample)
       [] subject = "microcode"    -> sample' \in Rewritten(sample)
       [] subject = "overlay"      -> sample' \in Extended(sample)
       [] subject = "dns"          -> sample' \in Written(sample)
  /\ UNCHANGED <<subject, snapshotVars, serviceVars, stage0Vars>>

Next ==
  \/ Edit
  \/ subject = "snapshot" /\ Snapshot!Next /\ UNCHANGED <<document, serviceVars, stage0Vars>>
  \/ subject = "services" /\ Services!Next /\ UNCHANGED <<document, snapshotVars, stage0Vars>>
  \/ subject = "stage0" /\ Seed!Next /\ UNCHANGED <<document, snapshotVars, serviceVars>>

Spec == Init /\ [][Next]_vars
=============================================================================
