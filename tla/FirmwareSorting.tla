-------------------------- MODULE FirmwareSorting --------------------------
(***************************************************************************)
(* sort-firmware.py: WHENCE, read line by line, lists the firmware of each *)
(* driver and states licences in between; families.toml claims drivers and *)
(* paths for packages; the accounting refuses the release unless every     *)
(* file is claimed and every package declares exactly the licences WHENCE  *)
(* states for what it ships.  An accepted release is copied by upstream's  *)
(* copy-firmware.sh and moved to a directory per package, its shelf.       *)
(* Patterns, paths and wording are sets and names here.                    *)
(***************************************************************************)
EXTENDS Naturals, Sequences, FiniteSets, SequencesExt

CONSTANTS
  Driver, Path,
  Family,        \* sequence of families as families.toml lists them, then Ignore
  Ignore,
  DriversOf,     \* per family, the drivers its patterns match
  PathsOf,       \* per family, the paths its patterns match
  Vendor,        \* vendor texts WHENCE may cite...
  Notices,       \* ... of which these are NOTICE files
  LicenceId,     \* [licence_ids]: SPDX terms of the vendor texts it maps
  Word,          \* licence declarations made in words
  Free,          \* FREE_LICENCES: the items of the recognised ones
  Upstream,      \* texts under LICENSES/
  Declarations,  \* per package the declared terms: the tables considered
  Lines,         \* lines considered
  MaxLines       \* bound: lines of WHENCE

Families == {Family[i] : i \in DOMAIN Family}
Packages == Families \ {Ignore}

Item == {"text", "term"} \X (Vendor \cup UNION {{i[2] : i \in Free[w]} : w \in DOMAIN Free})

ASSUME FamilyAssumption ==
  /\ Family \in Seq(Families) /\ Family # <<>> /\ Last(Family) = Ignore
  /\ DriversOf \in [Families -> SUBSET Driver] /\ PathsOf \in [Families -> SUBSET Path]
ASSUME LicenceAssumption ==
  /\ Notices \subseteq Vendor /\ DOMAIN LicenceId \subseteq Vendor \ Notices
  /\ DOMAIN Free \subseteq Word
  /\ \A w \in DOMAIN Free : Free[w] # {} /\ Free[w] \subseteq Item
Line == [kind : {"rule"}] \cup [kind : {"driver"}, driver : Driver]
          \cup [kind : {"file"}, path : Path]
          \cup [kind : {"link"}, path : Path, target : Path]
          \cup [kind : {"cites"}, text : Vendor] \cup [kind : {"worded"}, word : Word]

ASSUME LinesAssumption == Lines \subseteq Line /\ MaxLines \in Nat

VARIABLES
  text,      \* the lines read
  entries,   \* parse_whence's entries
  group,     \* <<entry, path>> listed since the last licence
  cites,     \* pending vendor texts
  words,     \* pending declarations in words
  bad,       \* declarations nothing recognises
  declared,  \* families.toml's `license` of each family
  verdict,   \* {accepted} once the accounting is done
  shelf      \* package |-> what it holds, once the release is sorted

parser == <<entries, group, cites, words, bad>>
vars   == <<text, parser, declared, verdict, shelf>>

Unsorted == <<>>
Failed == <<"failed">>

Init ==
  /\ text = <<>> /\ entries = <<>> /\ group = {} /\ cites = {} /\ words = {} /\ bad = {}
  /\ declared \in Declarations
  /\ verdict = {} /\ shelf = Unsorted
-----------------------------------------------------------------------------
(* close_group: what is pending goes to everything listed since the last   *)
(* licence; words count only where no vendor text is cited, and nothing    *)
(* recognised leaves the group waiting.                                    *)
Recognised == words \cap DOMAIN Free

(* Words count beside a cited text too. *)
PendingBoth == ({"text"} \X cites) \cup UNION {Free[w] : w \in Recognised}

Pending == ({"text"} \X cites) \cup (IF cites = {} THEN UNION {Free[w] : w \in Recognised} ELSE {})

Give(items) ==
  [k \in DOMAIN entries |->
     [entries[k] EXCEPT !.items =
        [p \in Path |-> IF <<k, p>> \in group THEN @[p] \cup items ELSE @[p]]]]

Closed ==
  [entries |-> Give(Pending),
   group   |-> IF Pending = {} THEN group ELSE {},
   bad     |-> bad \cup (IF cites = {} THEN words \ Recognised ELSE {})]

(* The next line.  Upstream lists a path once, and what stands before the  *)
(* first driver is one line here.                                          *)
Read(line) ==
  /\ verdict = {} /\ Len(text) < MaxLines
  /\ line \in Lines
  /\ text' = Append(text, line)
  /\ UNCHANGED <<declared, verdict, shelf>>

Lists(line) == line.kind \in {"file", "link"}

Fresh(p) == \A i \in DOMAIN text : Lists(text[i]) => text[i].path # p

(* Lines before the first driver count for nothing.                        *)
Preamble ==
  /\ text = <<>>
  /\ \E line \in Lines : line.kind # "driver" /\ Read(line)
  /\ UNCHANGED parser

(* What is still unlicensed at a rule stays so.                            *)
Rule ==
  /\ entries # <<>>
  /\ Read([kind |-> "rule"])
  /\ entries' = Closed.entries /\ bad' = Closed.bad
  /\ group' = {} /\ cites' = {} /\ words' = {}

\* A rule of dashes ends a section of the text.
Section(i) == Cardinality({k \in 1..i : text[k].kind = "rule"})

(* A driver's name neither closes a group nor starts one.                  *)
DriverLine(d) ==
  /\ Read([kind |-> "driver", driver |-> d])
  /\ entries' = Append(entries, [driver |-> d, files |-> <<>>, links |-> <<>>,
                                 section |-> Section(Len(text)), items |-> [p \in Path |-> {}]])
  /\ UNCHANGED <<group, cites, words, bad>>

(* A file or link joins the current entry; a licence before it closes the  *)
(* group first.                                                            *)
ListPath(p, field, what) ==
  /\ entries # <<>> /\ Fresh(p)
  /\ entries' = [Closed.entries EXCEPT ![Len(entries)][field] = Append(@, what)]
  /\ group' = Closed.group \cup {<<Len(entries), p>>}
  /\ bad' = Closed.bad
  /\ cites' = {} /\ words' = {}

FileLine(f) == Read([kind |-> "file", path |-> f]) /\ ListPath(f, "files", f)

LinkLine(l, t) ==
  /\ Read([kind |-> "link", path |-> l, target |-> t])
  /\ ListPath(l, "links", [path |-> l, target |-> t])

CiteLine(v) ==
  /\ entries # <<>>
  /\ Read([kind |-> "cites", text |-> v])
  /\ cites' = cites \cup {v}
  /\ UNCHANGED <<entries, group, words, bad>>

WordLine(w) ==
  /\ entries # <<>>
  /\ Read([kind |-> "worded", word |-> w])
  /\ words' = words \cup {w}
  /\ UNCHANGED <<entries, group, cites, bad>>
-----------------------------------------------------------------------------
(* assign.  The first family whose patterns match claims; a path pattern   *)
(* outranks the driver.  {f} is a family, {} none.                         *)
FirstOf(S) ==
  {Family[i] : i \in {j \in DOMAIN Family : Family[j] \in S /\ \A k \in 1..j - 1 : Family[k] \notin S}}

ByPath(p)   == FirstOf({f \in Families : p \in PathsOf[f]})
ByDriver(d) == FirstOf({f \in Families : d \in DriversOf[f]})

ByPathOrDriver(p, e) == IF ByPath(p) # {} THEN ByPath(p) ELSE ByDriver(e.driver)

Unassigned == [owner |-> [p \in Path |-> {}], items |-> [f \in Families |-> {}],
               sections |-> [f \in Families |-> {}], bare |-> {}, unclaimed |-> {}]

(* A package keeps the licences of its last path only. *)
ClaimReplacing(a, e, p, owner, items, covered) ==
  IF owner = {} THEN [a EXCEPT !.unclaimed = @ \cup {p}]
  ELSE [a EXCEPT !.owner[p] = owner,
                 !.items = [f \in Families |-> IF f \in owner THEN items ELSE @[f]],
                 !.sections = [f \in Families |-> IF f \in owner THEN @[f] \cup {e.section} ELSE @[f]],
                 !.bare  = IF covered THEN @ ELSE @ \cup {p}]

Claim(a, e, p, owner, items, covered) ==
  IF owner = {} THEN [a EXCEPT !.unclaimed = @ \cup {p}]
  ELSE [a EXCEPT !.owner[p] = owner,
                 !.items = [f \in Families |-> IF f \in owner THEN @[f] \cup items ELSE @[f]],
                 !.sections = [f \in Families |-> IF f \in owner THEN @[f] \cup {e.section} ELSE @[f]],
                 !.bare  = IF covered THEN @ ELSE @ \cup {p}]

TakeFile(a, e, f) == Claim(a, e, f, ByPathOrDriver(f, e), e.items[f], e.items[f] # {})

(* A link goes with its target where that is assigned already, and carries *)
(* its target's licence where it has none of its own.                      *)
TakeLink(a, e, l) ==
  LET owner == IF a.owner[l.target] # {} THEN a.owner[l.target] ELSE ByPathOrDriver(l.path, e)
      items == IF e.items[l.path] # {} THEN e.items[l.path] ELSE e.items[l.target]
  IN Claim(a, e, l.path, owner, items, items # {} \/ a.owner[l.target] = owner)

TakeEntry(a, e) ==
  FoldLeft(LAMBDA b, l : TakeLink(b, e, l),
           FoldLeft(LAMBDA b, f : TakeFile(b, e, f), a, e.files), e.links)

Assigned == FoldLeft(TakeEntry, Unassigned, Closed.entries)
-----------------------------------------------------------------------------
(* derive: the texts a package ships and the terms its licence must name.  *)
Texts(items) == {i[2] : i \in {j \in items : j[1] = "text"}}

Terms(items) ==
  {i[2] : i \in {j \in items : j[1] = "term"}}
    \cup {LicenceId[t] : t \in Texts(items) \cap DOMAIN LicenceId}

Links == UNION {{entries[k].links[i] : i \in DOMAIN entries[k].links} : k \in DOMAIN entries}

(* account: every reason to refuse the release.                            *)
Licensed(a, f) ==
  /\ Texts(a.items[f]) \cap Vendor \subseteq DOMAIN LicenceId \cup Notices
  /\ Texts(a.items[f]) \subseteq Upstream
  /\ declared[f] = Terms(a.items[f])

NoStaleId(a) == DOMAIN LicenceId \subseteq UNION {Texts(a.items[f]) : f \in Packages}

NoCrossing(a) ==
  \A l \in Links : a.owner[l.path] # {} /\ a.owner[l.target] # {}
                     => a.owner[l.target] = a.owner[l.path]

Accounted(a) ==
  /\ Closed.bad = {} /\ a.unclaimed = {}
  /\ \A p \in a.bare : a.owner[p] = {Ignore}
  /\ \A f \in Packages : {f} \in {a.owner[p] : p \in Path} /\ Licensed(a, f)
  /\ NoStaleId(a)
  /\ NoCrossing(a)

Account ==
  /\ verdict = {} /\ text # <<>>
  /\ verdict' = {Accounted(Assigned)}
  /\ UNCHANGED <<text, parser, declared, shelf>>
-----------------------------------------------------------------------------
(* main after an accepted release.  A package's links must resolve on its  *)
(* own shelf: one that leads off it, or round in a circle, is broken.      *)
Broken(paths) ==
  UNION {L \in SUBSET {l \in Links : l.path \in paths} :
           \A l \in L : l.target \in paths => \E m \in L : m.path = l.target}

Shelf(a, f) == [paths |-> {p \in Path : a.owner[p] = {f}}, texts |-> Texts(a.items[f]),
                excerpt |-> a.sections[f]]

(* Everything copy-firmware.sh produced is moved or, if ignored, deleted;  *)
(* a listed path it left out, or one left over, fails the run.             *)
Sort(produced) ==
  /\ verdict = {TRUE} /\ shelf = Unsorted
  /\ shelf' = IF /\ produced = {p \in Path : Assigned.owner[p] # {}}
                 /\ \A f \in Packages : Broken(Shelf(Assigned, f).paths) = {}
              THEN [f \in Packages |-> Shelf(Assigned, f)]
              ELSE Failed
  /\ UNCHANGED <<text, parser, declared, verdict>>

Next ==
  \/ Preamble \/ Rule \/ Account
  \/ \E produced \in SUBSET Path : Sort(produced)
  \/ \E d \in Driver : DriverLine(d)
  \/ \E p \in Path : FileLine(p) \/ \E t \in Path : LinkLine(p, t)
  \/ \E v \in Vendor : CiteLine(v)
  \/ \E w \in Word : WordLine(w)

Spec == Init /\ [][Next]_vars
-----------------------------------------------------------------------------
(* Every variable keeps its type; what waits for a licence was listed and  *)
(* has none yet.                                                           *)
TypeOK ==
  /\ text \in Seq(Lines) /\ Len(text) <= MaxLines
  /\ \A k \in DOMAIN entries :
       /\ entries[k].driver \in Driver /\ entries[k].files \in Seq(Path)
       /\ entries[k].items \in [Path -> SUBSET Item]
  /\ group \subseteq (DOMAIN entries) \X Path
  /\ \A g \in group : entries[g[1]].items[g[2]] = {}
  /\ cites \subseteq Vendor /\ words \subseteq Word /\ bad \subseteq Word
  /\ declared \in Declarations /\ verdict \subseteq BOOLEAN
  /\ shelf \in {Unsorted, Failed}
       \cup [Packages -> [paths : SUBSET Path, texts : SUBSET {i[2] : i \in Item}, excerpt : SUBSET Nat]]

(* What WHENCE states, read as its text and not line by line.  A statement *)
(* is the licence lines between two listings or rules, wherever drivers    *)
(* stand; it speaks of what was listed since the last statement that says  *)
(* anything, in the same section.                                          *)
Counts(i)    == \E k \in 1..i : text[k].kind = "driver"
Listings     == {i \in DOMAIN text : Counts(i) /\ Lists(text[i])}
LicenceLines == {i \in DOMAIN text : Counts(i) /\ text[i].kind \in {"cites", "worded"}}

Between(i, j) == {text[k].kind : k \in i..j}

Statement(j) ==
  {k \in LicenceLines : Between(k, j) \cup Between(j, k) \subseteq {"cites", "worded", "driver"}}

Stated(j) ==
  LET cited  == {text[k].text : k \in {i \in Statement(j) : text[i].kind = "cites"}}
      worded == {text[k].word : k \in {i \in Statement(j) : text[i].kind = "worded"}}
  IN IF cited # {} THEN {"text"} \X cited ELSE UNION {Free[w] : w \in worded \cap DOMAIN Free}

LicenceOf(i) ==
  LET next == {j \in LicenceLines : j > i /\ "rule" \notin Between(i, j) /\ Stated(j) # {}}
  IN UNION {Stated(j) : j \in {k \in next : \A n \in next : k <= n}}

(* Every path is given the licence WHENCE states for it, and no other.     *)
Attributed ==
  \A k \in DOMAIN entries, p \in Path :
    Closed.entries[k].items[p] =
      UNION {LicenceOf(i) : i \in {j \in Listings :
               text[j].path = p /\ k = Cardinality({d \in 1..j : text[d].kind = "driver"})}}

ShippedBy(f) == {i \in Listings : Assigned.owner[text[i].path] = {f}}

(* An accepted release: every listing is claimed, every package ships the  *)
(* text of each licence stated for what it ships and declares exactly      *)
(* their terms, and no link's listed target is in another package,         *)
(* whichever was listed first.  Once sorted, a package holds what it ships *)
(* and nothing else, its links resolve there, and its excerpt of WHENCE is *)
(* the sections whose drivers have it.                                     *)
Declares ==
  /\ \A i \in Listings : Assigned.owner[text[i].path] # {}
  /\ \A f \in Packages :
       LET stated == UNION {LicenceOf(i) : i \in ShippedBy(f)}
       IN /\ Texts(stated) = Texts(Assigned.items[f])
          /\ Texts(stated) \subseteq Upstream
          /\ declared[f] = Terms(stated)
          /\ \A i \in ShippedBy(f) : text[i].kind = "file" => LicenceOf(i) # {}
  /\ \A i, j \in Listings :
       text[i].kind = "link" /\ text[j].path = text[i].target
         => Assigned.owner[text[i].path] = Assigned.owner[text[j].path]

Holds(f) ==
  LET shipped == ShippedBy(f)
      paths   == {text[i].path : i \in shipped}
      Entry(i) == CHOOSE d \in 1..i : text[d].kind = "driver" /\ "driver" \notin Between(d + 1, i)
      Leads(i, j) == text[i].kind = "link" /\ text[i].target = text[j].path
  IN /\ shelf[f] = [paths   |-> paths,
                    texts   |-> Texts(UNION {LicenceOf(i) : i \in shipped}),
                    excerpt |-> {Section(Entry(i)) : i \in shipped}]
     /\ \A i \in shipped : text[i].kind = "link" => \E j \in shipped : i # j /\ Leads(i, j)

AcceptedRelease ==
  /\ verdict = {TRUE} => Declares
  /\ shelf \notin {Unsorted, Failed} => \A f \in Packages : Holds(f)
=============================================================================
