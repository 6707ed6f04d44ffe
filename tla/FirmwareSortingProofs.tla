----------------------- MODULE FirmwareSortingProofs -----------------------
(***************************************************************************)
(* Attributed and AcceptedRelease, proved for every WHENCE, whatever the   *)
(* lines and however many: the parser's group and what is pending amount   *)
(* to the licences the text states; and the claims, folded over whatever   *)
(* it lists, leave every package of an accepted release what its paths     *)
(* carry.                                                                  *)
(***************************************************************************)
EXTENDS FirmwareSorting, FiniteSetTheorems, WellFoundedInduction, TLAPS

Open == {"cites", "worded", "driver"}

(* The licence lines and drivers the text ends in: the statement that may  *)
(* still grow.                                                             *)
Ending == {i \in DOMAIN text : Between(i, Len(text)) \subseteq Open}
Growing == LicenceLines \cap Ending
Settled == LicenceLines \ Ending

(* Of a listing: the settled statements that may license it, the licence   *)
(* it has of them, and whether a later statement may still do so.          *)
SettledFor(i) == {j \in Settled : j > i /\ "rule" \notin Between(i, j) /\ Stated(j) # {}}
SettledOf(i) == UNION {Stated(j) : j \in {k \in SettledFor(i) : \A m \in SettledFor(i) : k <= m}}
Waits(i) == "rule" \notin Between(i, Len(text)) /\ SettledFor(i) = {}

Drivers(j) == {d \in 1..j : text[d].kind = "driver"}
EntryOf(i) == Cardinality(Drivers(i))

Entry == [driver : Driver, files : Seq(Path), links : Seq([path : Path, target : Path]),
          section : Nat, items : [Path -> SUBSET Item]]

Typed ==
  /\ text \in Seq(Line) /\ entries \in Seq(Entry)
  /\ cites \subseteq Vendor /\ words \subseteq Word

(* A path is listed once; an entry stands for each driver.                 *)
Listed ==
  /\ \A i, j \in DOMAIN text : Lists(text[i]) /\ Lists(text[j]) /\ text[i].path = text[j].path => i = j
  /\ Len(entries) = EntryOf(Len(text))
  /\ \A i \in Listings : EntryOf(i) \in DOMAIN entries

(* What is pending is what the growing statement says.                     *)
Heard ==
  /\ cites = {text[k].text : k \in {i \in Growing : text[i].kind = "cites"}}
  /\ words = {text[k].word : k \in {i \in Growing : text[i].kind = "worded"}}

(* What is given is what settled statements say; what waits is the group.  *)
Place(i) == <<EntryOf(i), text[i].path>>

Given ==
  /\ \A i \in Listings :
       /\ entries[EntryOf(i)].items[text[i].path] = SettledOf(i)
       /\ Place(i) \in group <=> Waits(i)
  /\ \A k \in DOMAIN entries, p \in Path :
       <<k, p>> \notin {Place(i) : i \in Listings} => entries[k].items[p] = {}
  /\ group \subseteq {Place(i) : i \in Listings}

IInv == Typed /\ Listed /\ Heard /\ Given
-----------------------------------------------------------------------------
LEMMA Least ==
  ASSUME NEW S \in SUBSET Nat, S # {}
  PROVE  \E m \in S : \A k \in S : m <= k
<1>1. PICK m \in S : \A k \in S : ~ (<<k, m>> \in OpToRel(<, Nat))
  BY NatLessThanWellFounded, WFMin
<1>2. \A k \in S : ~ (k < m)
  BY <1>1 DEF OpToRel
<1> QED
  BY <1>2

(* The growing statement is all of what is pending.                        *)
LEMMA GrowingSays ==
  ASSUME Typed, Heard, NEW j \in Growing
  PROVE  Stated(j) = Pending
<1>1. Statement(j) = Growing
  <2>1. ASSUME NEW k \in LicenceLines, k \in Ending
        PROVE  Between(k, j) \cup Between(j, k) \subseteq Open
    BY <2>1 DEF Growing, Ending, Between, LicenceLines
  <2>2. ASSUME NEW k \in LicenceLines, Between(k, j) \cup Between(j, k) \subseteq Open
        PROVE  k \in Ending
    <3>1. k \in 1..Len(text) /\ j \in 1..Len(text) /\ Between(j, Len(text)) \subseteq Open
      BY DEF Typed, LicenceLines, Growing, Ending
    <3>2. \A m \in k..Len(text) : m \in k..j \/ m \in j..Len(text)
      BY <3>1
    <3> QED
      BY <2>2, <3>1, <3>2 DEF Between, Ending, Typed
  <2> QED
    BY <2>1, <2>2 DEF Statement, Growing, Open
<1> QED
  BY <1>1 DEF Stated, Heard, Pending, Recognised

LEMMA NothingPending ==
  ASSUME Heard, Growing = {}
  PROVE  cites = {} /\ words = {} /\ Pending = {}
BY DEF Heard, Pending, Recognised

(* The licence of a listing, by what is settled and what is pending.       *)
LEMMA LicenceIs ==
  ASSUME Typed, Heard, NEW i \in Listings
  PROVE  LicenceOf(i) = IF Waits(i) THEN Pending ELSE SettledOf(i)
<1> DEFINE next == {j \in LicenceLines : j > i /\ "rule" \notin Between(i, j) /\ Stated(j) # {}}
           First(S) == UNION {Stated(j) : j \in {k \in S : \A m \in S : k <= m}}
<1>1. LicenceOf(i) = First(next) /\ SettledOf(i) = First(SettledFor(i))
  BY DEF LicenceOf, SettledOf
<1>2. next \in SUBSET Nat /\ SettledFor(i) \subseteq next /\ i \in 1..Len(text) /\ Len(text) \in Nat
  BY DEF LicenceLines, SettledFor, Settled, Listings, Typed
<1>3. text[i].kind \notin Open
  BY DEF Listings, Lists, Open
<1>4. ASSUME NEW j \in Growing
      PROVE  /\ j \in 1..Len(text) /\ j > i
             /\ "rule" \notin Between(i, j) <=> "rule" \notin Between(i, Len(text))
  <2>1. j \in 1..Len(text) /\ \A m \in j..Len(text) : text[m].kind \in Open
    BY <1>2 DEF Growing, Ending, Between, Typed
  <2>2. j > i
    BY <1>2, <1>3, <2>1
  <2>3. \A m \in j..Len(text) : text[m].kind # "rule"
    BY <2>1 DEF Open
  <2>4. i..Len(text) = (i..j) \cup (j..Len(text))
    BY <1>2, <2>1, <2>2
  <2> QED
    BY <2>1, <2>2, <2>3, <2>4 DEF Between
<1>6. next = SettledFor(i) \cup {j \in Growing : "rule" \notin Between(i, Len(text)) /\ Pending # {}}
  BY <1>4, GrowingSays DEF SettledFor, Settled, Growing
<1>7. \A j \in SettledFor(i), k \in Growing : j < k
  BY <1>2, <1>4 DEF SettledFor, Settled, Growing, Ending, Between, LicenceLines
<1>8. CASE SettledFor(i) # {}
  <2>1. {k \in next : \A m \in next : k <= m}
          = {k \in SettledFor(i) : \A m \in SettledFor(i) : k <= m}
    BY <1>2, <1>4, <1>6, <1>7, <1>8
  <2> QED
    BY <1>1, <1>8, <2>1 DEF Waits
<1>9. CASE SettledFor(i) = {} /\ next # {}
  <2>1. PICK m \in next : \A k \in next : m <= k
    BY <1>2, <1>9, Least
  <2>2. {k \in next : \A l \in next : k <= l} = {m}
    BY <1>2, <2>1
  <2>3. Stated(m) = Pending /\ Waits(i)
    BY <1>6, <1>9, GrowingSays DEF Waits
  <2> QED
    BY <1>1, <2>2, <2>3
<1>10. CASE next = {}
  <2>1. Waits(i) => Pending = {}
    BY <1>6, <1>10, NothingPending DEF Waits
  <2> QED
    BY <1>1, <1>2, <1>10, <2>1
<1> QED
  BY <1>8, <1>9, <1>10
-----------------------------------------------------------------------------
(* One more line, the new one, leaves what was read as it was.             *)
LEMMA Appended ==
  ASSUME Typed, NEW line \in Line, text' = Append(text, line), NEW new, new = Len(text) + 1
  PROVE  /\ Len(text) \in Nat /\ new \in Nat /\ DOMAIN text = 1..Len(text)
         /\ Len(text') = new /\ DOMAIN text' = 1..new /\ text' \in Seq(Line)
         /\ text'[new] = line /\ \A i \in 1..Len(text) : text'[i] = text[i]
BY DEF Typed

LEMMA Kept ==
  ASSUME Typed, NEW line \in Line, text' = Append(text, line), NEW new, new = Len(text) + 1
  PROVE  /\ \A i, j \in 1..Len(text) : Between(i, j)' = Between(i, j)
         /\ \A i \in 1..Len(text) : /\ Counts(i)' <=> Counts(i)
                                    /\ EntryOf(i)' = EntryOf(i)
                                    /\ Place(i)' = Place(i)
         /\ \A i \in 1..Len(text) : /\ i \in Listings' <=> i \in Listings
                                    /\ i \in LicenceLines' <=> i \in LicenceLines
         /\ Listings' \subseteq 1..new /\ LicenceLines' \subseteq 1..new
         /\ Listings \subseteq 1..Len(text) /\ LicenceLines \subseteq 1..Len(text)
<1>1. /\ Len(text) \in Nat /\ DOMAIN text = 1..Len(text) /\ DOMAIN text' = 1..new
      /\ \A i \in 1..Len(text) : text'[i] = text[i]
  BY Appended
<1>2. \A i, j \in 1..Len(text) : Between(i, j)' = Between(i, j)
  <2> SUFFICES ASSUME NEW i \in 1..Len(text), NEW j \in 1..Len(text)
               PROVE  Between(i, j)' = Between(i, j)
    OBVIOUS
  <2>1. \A k \in i..j : text'[k] = text[k]
    BY <1>1
  <2> QED
    BY <2>1 DEF Between
<1>3. \A i \in 1..Len(text) : /\ Counts(i)' <=> Counts(i)
                              /\ EntryOf(i)' = EntryOf(i) /\ Place(i)' = Place(i)
  <2> SUFFICES ASSUME NEW i \in 1..Len(text)
               PROVE  /\ Counts(i)' <=> Counts(i)
                      /\ EntryOf(i)' = EntryOf(i) /\ Place(i)' = Place(i)
    OBVIOUS
  <2>1. text'[i] = text[i] /\ \A k \in 1..i : text'[k] = text[k]
    BY <1>1
  <2>2. Drivers(i)' = Drivers(i)
    BY <2>1 DEF Drivers
  <2>3. EntryOf(i)' = EntryOf(i)
    BY <2>2 DEF EntryOf
  <2> QED
    BY <2>1, <2>3 DEF Counts, Place
<1>4. \A i \in 1..Len(text) : /\ i \in Listings' <=> i \in Listings
                              /\ i \in LicenceLines' <=> i \in LicenceLines
  BY <1>1, <1>3 DEF Listings, LicenceLines, Lists
<1>5. /\ Listings' \subseteq 1..new /\ LicenceLines' \subseteq 1..new
      /\ Listings \subseteq 1..Len(text) /\ LicenceLines \subseteq 1..Len(text)
  BY <1>1 DEF Listings, LicenceLines
<1> QED
  BY <1>2, <1>3, <1>4, <1>5

(* The lines of a statement that is whole say what they said.              *)
LEMMA StatedKept ==
  ASSUME Typed, NEW line \in Line, text' = Append(text, line), NEW new, new = Len(text) + 1,
         NEW j \in LicenceLines, j \in Settled \/ line.kind \notin Open
  PROVE  Stated(j)' = Stated(j)
<1>1. /\ Len(text) \in Nat /\ new \in Nat /\ text'[new] = line
      /\ \A i \in 1..Len(text) : text'[i] = text[i]
  BY Appended
<1>2. j \in 1..Len(text) /\ LicenceLines \subseteq 1..Len(text) /\ LicenceLines' \subseteq 1..new
  BY Kept
<1>3. ASSUME new \in LicenceLines'
      PROVE  ~ (Between(j, new)' \subseteq Open)
  <2>1. line.kind \in Open
    BY <1>1, <1>3 DEF LicenceLines, Open
  <2>2. PICK m \in j..Len(text) : text[m].kind \notin Open
    BY <2>1, <1>2 DEF Settled, Ending, Between, Typed
  <2>3. m \in j..new /\ text'[m].kind = text[m].kind
    BY <1>1, <1>2
  <2> QED
    BY <2>2, <2>3 DEF Between
<1>4. Statement(j)' = Statement(j)
  <2>1. Statement(j) = {k \in LicenceLines : Between(k, j) \cup Between(j, k) \subseteq Open}
    BY DEF Statement, Open
  <2>2. Statement(j)' = {k \in LicenceLines' : Between(k, j)' \cup Between(j, k)' \subseteq Open}
    BY DEF Statement, Open
  <2>3. \A k \in 1..Len(text) : /\ Between(k, j)' = Between(k, j) /\ Between(j, k)' = Between(j, k)
                                /\ k \in LicenceLines' <=> k \in LicenceLines
    BY <1>2, Kept
  <2>4. \A k \in LicenceLines' : k = new \/ k \in 1..Len(text)
    BY <1>1, <1>2
  <2> QED
    BY <1>2, <1>3, <2>1, <2>2, <2>3, <2>4
<1>5. \A k \in Statement(j) : text'[k] = text[k]
  BY <1>1, <1>2 DEF Statement
<1>6. /\ {text[k].text : k \in {i \in Statement(j) : text[i].kind = "cites"}}'
           = {text[k].text : k \in {i \in Statement(j) : text[i].kind = "cites"}}
      /\ {text[k].word : k \in {i \in Statement(j) : text[i].kind = "worded"}}'
           = {text[k].word : k \in {i \in Statement(j) : text[i].kind = "worded"}}
  BY <1>4, <1>5
<1> QED
  BY <1>6 DEF Stated

(* A licence line or a driver settles nothing.                             *)
LEMMA Continues ==
  ASSUME Typed, NEW line \in Line, text' = Append(text, line), NEW new, new = Len(text) + 1,
         line.kind \in Open
  PROVE  /\ Listings' = Listings
         /\ Growing' = Growing \cup {k \in {new} : line.kind # "driver" /\ Counts(Len(text))}
         /\ \A i \in Listings : /\ Place(i)' = Place(i)
                                /\ SettledOf(i)' = SettledOf(i)
                                /\ Waits(i)' <=> Waits(i)
<1>1. /\ Len(text) \in Nat /\ new \in Nat /\ DOMAIN text = 1..Len(text) /\ DOMAIN text' = 1..new
      /\ Len(text') = new
      /\ text'[new] = line /\ \A i \in 1..Len(text) : text'[i] = text[i]
  BY Appended
<1>2. Listings' = Listings
  <2>1. new \notin Listings'
    BY <1>1 DEF Listings, Lists, Open
  <2> QED
    BY <1>1, <2>1, Kept
<1>3. Ending' = Ending \cup {new}
  <2>1. ASSUME NEW i \in 1..Len(text)
        PROVE  Between(i, new)' \subseteq Open <=> Between(i, Len(text)) \subseteq Open
    <3>1. i..new = (i..Len(text)) \cup {new} /\ \A k \in i..Len(text) : text'[k] = text[k]
      BY <1>1
    <3> QED
      BY <1>1, <3>1 DEF Between
  <2>2. Between(new, new)' \subseteq Open
    BY <1>1 DEF Between
  <2>3. Ending' = {i \in 1..new : Between(i, new)' \subseteq Open}
    BY <1>1 DEF Ending
  <2>4. 1..new = (1..Len(text)) \cup {new}
    BY <1>1
  <2> QED
    BY <1>1, <2>1, <2>2, <2>3, <2>4 DEF Ending
<1>4. new \in LicenceLines' <=> line.kind # "driver" /\ Counts(Len(text))
  <2>1. Counts(new)' <=> Counts(Len(text)) \/ line.kind = "driver"
    <3>1. 1..new = (1..Len(text)) \cup {new} /\ \A k \in 1..Len(text) : text'[k] = text[k]
      BY <1>1
    <3> QED
      BY <1>1, <3>1 DEF Counts
  <2> QED
    BY <1>1, <2>1 DEF LicenceLines, Open
<1>5. /\ Growing' = Growing \cup {k \in {new} : line.kind # "driver" /\ Counts(Len(text))}
      /\ Settled' = Settled
  BY <1>1, <1>3, <1>4, Kept DEF Growing, Settled
<1>6. ASSUME NEW i \in Listings
      PROVE  SettledOf(i)' = SettledOf(i) /\ (Waits(i)' <=> Waits(i))
  <2>1. i \in 1..Len(text) /\ Settled \subseteq 1..Len(text) /\ Settled \subseteq LicenceLines
    BY Kept DEF Settled
  <2>2. \A j \in Settled : Stated(j)' = Stated(j) /\ Between(i, j)' = Between(i, j)
    BY <2>1, Kept, StatedKept
  <2>3. SettledFor(i)' = SettledFor(i)
    BY <1>5, <2>2 DEF SettledFor
  <2>4. \A j \in SettledFor(i) : Stated(j)' = Stated(j)
    BY <2>2 DEF SettledFor
  <2>5. "rule" \notin Between(i, new)' <=> "rule" \notin Between(i, Len(text))
    <3>1. i..new = (i..Len(text)) \cup {new} /\ \A k \in i..Len(text) : text'[k] = text[k]
      BY <1>1, <2>1
    <3> QED
      BY <1>1, <3>1 DEF Between, Open
  <2> QED
    BY <1>1, <2>3, <2>4, <2>5 DEF SettledOf, Waits
<1> QED
  BY <1>2, <1>5, <1>6, Kept

(* A rule or a listing settles what is pending: what is settled then is    *)
(* all that is stated.                                                     *)
LEMMA Settles ==
  ASSUME Typed, Heard, NEW line \in Line, text' = Append(text, line),
         NEW new, new = Len(text) + 1, line.kind \notin Open
  PROVE  /\ Growing' = {}
         /\ Listings' = Listings \cup {k \in {new} : Lists(line) /\ Counts(Len(text))}
         /\ \A i \in Listings :
              /\ Place(i)' = Place(i) /\ SettledOf(i)' = LicenceOf(i)
              /\ Waits(i)' <=> line.kind # "rule" /\ Waits(i) /\ Pending = {}
         /\ Lists(line) => /\ SettledOf(new)' = {} /\ Waits(new)'
                           /\ Place(new)' = <<EntryOf(Len(text)), line.path>>
<1>1. /\ Len(text) \in Nat /\ new \in Nat /\ DOMAIN text = 1..Len(text) /\ DOMAIN text' = 1..new
      /\ Len(text') = new
      /\ text'[new] = line /\ \A i \in 1..Len(text) : text'[i] = text[i]
  BY Appended
<1>2. 1..new = (1..Len(text)) \cup {new} /\ \A i \in 1..Len(text) : i # new
  BY <1>1
<1>3. Ending' = {}
  <2>1. ASSUME NEW i \in 1..new PROVE ~ (Between(i, new)' \subseteq Open)
    BY <1>1 DEF Between
  <2>2. Ending' = {i \in 1..new : Between(i, new)' \subseteq Open}
    BY <1>1 DEF Ending
  <2> QED
    BY <2>1, <2>2
<1>4. new \notin LicenceLines'
  BY <1>1 DEF LicenceLines, Open
<1>5. LicenceLines' = LicenceLines /\ Settled' = LicenceLines /\ Growing' = {}
  BY <1>2, <1>3, <1>4, Kept DEF Growing, Settled
<1>6. line.kind # "driver"
  BY DEF Open
<1>7. Drivers(new)' = Drivers(Len(text)) /\ (Counts(new)' <=> Counts(Len(text)))
  <2>1. \A k \in 1..Len(text) : text'[k] = text[k]
    BY <1>1
  <2> QED
    BY <1>1, <1>2, <1>6, <2>1 DEF Drivers, Counts
<1>8. Listings' = Listings \cup {k \in {new} : Lists(line) /\ Counts(Len(text))}
  <2>1. new \in Listings' <=> Lists(line) /\ Counts(Len(text))
    BY <1>1, <1>2, <1>7 DEF Listings, Lists
  <2> QED
    BY <1>2, <2>1, Kept
<1>9. \A j \in LicenceLines : Stated(j)' = Stated(j) /\ j \in 1..Len(text)
  BY StatedKept, Kept
<1>10. ASSUME NEW i \in Listings
       PROVE  /\ SettledOf(i)' = LicenceOf(i)
              /\ Waits(i)' <=> line.kind # "rule" /\ Waits(i) /\ Pending = {}
  <2> DEFINE next == {j \in LicenceLines : j > i /\ "rule" \notin Between(i, j) /\ Stated(j) # {}}
  <2>1. i \in 1..Len(text)
    BY Kept
  <2>2. SettledFor(i)' = next
    <3>1. \A j \in LicenceLines : Between(i, j)' = Between(i, j)
      BY <1>9, <2>1, Kept
    <3> QED
      BY <1>5, <1>9, <3>1 DEF SettledFor
  <2>3. SettledOf(i)' = LicenceOf(i)
    BY <1>9, <2>2 DEF SettledOf, LicenceOf
  <2>4. "rule" \notin Between(i, new)' <=> line.kind # "rule" /\ "rule" \notin Between(i, Len(text))
    <3>1. i..new = (i..Len(text)) \cup {new} /\ \A k \in i..Len(text) : text'[k] = text[k]
      BY <1>1, <2>1
    <3> QED
      BY <1>1, <3>1 DEF Between
  <2>5. SettledFor(i) \subseteq next
    BY DEF SettledFor, Settled
  <2>6. ASSUME "rule" \notin Between(i, Len(text)), SettledFor(i) = {}
        PROVE  next = {} <=> Pending = {}
    <3>1. \A j \in next : j \in Growing /\ Stated(j) = Pending
      BY <2>6, GrowingSays DEF SettledFor, Settled, Growing
    <3>2. \A j \in Growing : j \in LicenceLines /\ j > i /\ "rule" \notin Between(i, j)
      <4> SUFFICES ASSUME NEW j \in Growing PROVE j \in LicenceLines /\ j > i /\ "rule" \notin Between(i, j)
        OBVIOUS
      <4>1. j \in LicenceLines /\ j \in 1..Len(text) /\ Between(j, Len(text)) \subseteq Open
        BY <1>9 DEF Growing, Ending
      <4>2. text[i].kind \notin Open
        BY DEF Listings, Lists, Open
      <4>3. j > i
        BY <1>1, <2>1, <4>1, <4>2 DEF Between
      <4>4. Between(i, j) \subseteq Between(i, Len(text))
        BY <1>1, <2>1, <4>1 DEF Between
      <4> QED
        BY <2>6, <4>1, <4>3, <4>4
    <3>3. Pending # {} => \E j \in Growing : Stated(j) = Pending
      BY GrowingSays, NothingPending
    <3> QED
      BY <3>1, <3>2, <3>3
  <2> QED
    BY <1>1, <2>2, <2>3, <2>4, <2>5, <2>6 DEF Waits
<1>11. ASSUME Lists(line)
       PROVE  /\ SettledOf(new)' = {} /\ Waits(new)' /\ Place(new)' = <<EntryOf(Len(text)), line.path>>
  <2>1. SettledFor(new)' = {}
    BY <1>1, <1>5, <1>9 DEF SettledFor
  <2>2. "rule" \notin Between(new, new)'
    BY <1>1, <1>11 DEF Between, Lists
  <2> QED
    BY <1>1, <1>7, <2>1, <2>2 DEF SettledOf, Waits, Place, EntryOf
<1> QED
  BY <1>5, <1>8, <1>10, <1>11, Kept

(* Every driver has its number.                                            *)
LEMMA Numbered ==
  ASSUME Typed, NEW line \in Line, text' = Append(text, line), NEW new, new = Len(text) + 1
  PROVE  /\ EntryOf(Len(text)) \in Nat
         /\ EntryOf(Len(text)) # 0 => Counts(Len(text))
         /\ EntryOf(new)' = IF line.kind = "driver" THEN EntryOf(Len(text)) + 1 ELSE EntryOf(Len(text))
<1>1. /\ Len(text) \in Nat /\ new \in Nat
      /\ text'[new] = line /\ \A i \in 1..Len(text) : text'[i] = text[i]
  BY Appended
<1>2. IsFiniteSet(Drivers(Len(text)))
  <2>1. IsFiniteSet(1..Len(text)) /\ Drivers(Len(text)) \subseteq 1..Len(text)
    BY <1>1, FS_Interval DEF Drivers
  <2> QED
    BY <2>1, FS_Subset
<1>3. EntryOf(Len(text)) \in Nat
  BY <1>2, FS_CardinalityType DEF EntryOf
<1>4. EntryOf(Len(text)) # 0 => Counts(Len(text))
  BY <1>2, FS_EmptySet DEF EntryOf, Counts, Drivers
<1>5. 1..new = (1..Len(text)) \cup {new} /\ new \notin 1..Len(text)
  BY <1>1
<1>6. ASSUME line.kind = "driver"
      PROVE  EntryOf(new)' = EntryOf(Len(text)) + 1
  <2>1. Drivers(new)' = Drivers(Len(text)) \cup {new} /\ new \notin Drivers(Len(text))
    BY <1>1, <1>5, <1>6 DEF Drivers
  <2>2. Cardinality(Drivers(Len(text)) \cup {new}) = Cardinality(Drivers(Len(text))) + 1
    BY <1>2, <2>1, FS_AddElement
  <2> QED
    BY <2>1, <2>2 DEF EntryOf
<1>7. ASSUME line.kind # "driver"
      PROVE  EntryOf(new)' = EntryOf(Len(text))
  <2>1. Drivers(new)' = Drivers(Len(text))
    BY <1>1, <1>5, <1>7 DEF Drivers
  <2> QED
    BY <2>1 DEF EntryOf
<1> QED
  BY <1>3, <1>4, <1>6, <1>7

Places == {Place(i) : i \in Listings}

LEMMA PlacesAreEntries ==
  ASSUME Typed, Listed, NEW i \in Listings
  PROVE  EntryOf(i) \in DOMAIN entries /\ text[i].path \in Path /\ i \in 1..Len(text)
<1>1. text[i] \in Line /\ text[i].kind \in {"file", "link"} /\ i \in 1..Len(text)
  BY DEF Typed, Listings, Lists
<1>2. text[i].path \in Path
  BY <1>1 DEF Line
<1> QED
  BY <1>1, <1>2 DEF Listed

LEMMA PendingIsItems == Typed => Pending \subseteq Item
BY LicenceAssumption DEF Typed, Pending, Recognised, Item

(* What close_group gives out is what is stated.                           *)
LEMMA ClosedGives ==
  ASSUME IInv
  PROVE  /\ Closed.entries \in Seq(Entry) /\ DOMAIN Closed.entries = DOMAIN entries
         /\ \A i \in Listings :
              /\ Closed.entries[EntryOf(i)].items[text[i].path] = LicenceOf(i)
              /\ Place(i) \in Closed.group <=> Waits(i) /\ Pending = {}
         /\ \A k \in DOMAIN entries, p \in Path :
              <<k, p>> \notin Places => Closed.entries[k].items[p] = {}
         /\ Closed.group \subseteq Places
<1>1. Typed /\ Listed /\ Heard /\ Given
  BY DEF IInv
<1>2. Closed.entries = Give(Pending) /\ Closed.group = IF Pending = {} THEN group ELSE {}
  BY DEF Closed
<1>3. entries \in Seq(Entry) /\ DOMAIN Closed.entries = DOMAIN entries
  BY <1>1, <1>2 DEF Typed, Give
<1>4. ASSUME NEW k \in DOMAIN entries
      PROVE  /\ Closed.entries[k] \in Entry
             /\ \A p \in Path : Closed.entries[k].items[p] =
                  IF <<k, p>> \in group THEN entries[k].items[p] \cup Pending ELSE entries[k].items[p]
  <2>1. entries[k] \in Entry
    BY <1>3
  <2>2. Closed.entries[k] =
          [entries[k] EXCEPT !.items =
             [p \in Path |-> IF <<k, p>> \in group THEN @[p] \cup Pending ELSE @[p]]]
    BY <1>2 DEF Give
  <2>3. [p \in Path |-> IF <<k, p>> \in group THEN entries[k].items[p] \cup Pending
                                              ELSE entries[k].items[p]] \in [Path -> SUBSET Item]
    BY <1>1, <2>1, PendingIsItems DEF Entry
  <2> QED
    BY <2>1, <2>2, <2>3 DEF Entry
<1>5. Closed.entries \in Seq(Entry)
  <2>1. Len(entries) \in Nat /\ DOMAIN entries = 1..Len(entries)
    BY <1>3
  <2>2. Closed.entries \in [1..Len(entries) -> Entry]
    BY <1>2, <1>3, <1>4, <2>1 DEF Give
  <2> QED
    BY <2>1, <2>2
<1>6. ASSUME NEW i \in Listings
      PROVE  /\ Closed.entries[EntryOf(i)].items[text[i].path] = LicenceOf(i)
             /\ Place(i) \in Closed.group <=> Waits(i) /\ Pending = {}
  <2>1. EntryOf(i) \in DOMAIN entries /\ text[i].path \in Path
    BY <1>1, PlacesAreEntries
  <2>2. /\ entries[EntryOf(i)].items[text[i].path] = SettledOf(i)
        /\ <<EntryOf(i), text[i].path>> \in group <=> Waits(i)
    BY <1>1 DEF Given, Place
  <2>3. Waits(i) => SettledOf(i) = {}
    BY DEF Waits, SettledOf
  <2>4. Closed.entries[EntryOf(i)].items[text[i].path] = LicenceOf(i)
    <3>1. LicenceOf(i) = IF Waits(i) THEN Pending ELSE SettledOf(i)
      BY <1>1, LicenceIs
    <3>2. Closed.entries[EntryOf(i)].items[text[i].path] =
            IF <<EntryOf(i), text[i].path>> \in group
              THEN entries[EntryOf(i)].items[text[i].path] \cup Pending
              ELSE entries[EntryOf(i)].items[text[i].path]
      BY <1>4, <2>1
    <3> QED
      BY <2>2, <2>3, <3>1, <3>2, Zenon
  <2>5. Place(i) \in Closed.group <=> Waits(i) /\ Pending = {}
    BY <1>2, <2>2 DEF Place
  <2> QED
    BY <2>4, <2>5
<1>7. \A k \in DOMAIN entries, p \in Path : <<k, p>> \notin Places => Closed.entries[k].items[p] = {}
  BY <1>1, <1>4 DEF Given, Places
<1> QED
  BY <1>1, <1>2, <1>3, <1>5, <1>6, <1>7 DEF Given, Places
-----------------------------------------------------------------------------
LEMMA InitIInv == Init => IInv
<1> SUFFICES ASSUME Init PROVE IInv
  OBVIOUS
<1>1. text = <<>> /\ entries = <<>> /\ group = {} /\ cites = {} /\ words = {}
  BY DEF Init
<1>2. Len(text) = 0 /\ DOMAIN text = {} /\ Len(entries) = 0 /\ DOMAIN entries = {}
  BY <1>1
<1>3. Listings = {} /\ Growing = {}
  BY <1>2 DEF Listings, Growing, LicenceLines
<1>4. EntryOf(Len(text)) = 0
  <2>1. Drivers(0) = {}
    BY DEF Drivers
  <2> QED
    BY <1>2, <2>1, FS_EmptySet DEF EntryOf
<1>5. Typed
  BY <1>1 DEF Typed
<1>6. Listed /\ Heard /\ Given
  BY <1>1, <1>2, <1>3, <1>4 DEF Listed, Heard, Given
<1> QED
  BY <1>5, <1>6 DEF IInv

(* A new line lists what none did before, or lists nothing.                *)
LEMMA OnceListed ==
  ASSUME Typed, Listed, NEW line \in Line, text' = Append(text, line),
         Lists(line) => Fresh(line.path)
  PROVE  \A i, j \in DOMAIN text' :
           Lists(text'[i]) /\ Lists(text'[j]) /\ text'[i].path = text'[j].path => i = j
<1>1. /\ Len(text) \in Nat /\ DOMAIN text = 1..Len(text)
      /\ DOMAIN text' = (1..Len(text)) \cup {Len(text) + 1}
      /\ text'[Len(text) + 1] = line /\ \A i \in 1..Len(text) : text'[i] = text[i]
  BY DEF Typed
<1> QED
  BY <1>1 DEF Listed, Fresh

(* Licence lines and drivers.                                              *)
LEMMA OpenInv ==
  ASSUME IInv, NEW line \in Line, text' = Append(text, line), line.kind \in Open,
         Typed', group' = group,
         \/ line.kind # "driver" /\ entries' = entries
         \/ /\ line.kind = "driver"
            /\ \E blank \in Entry : /\ entries' = Append(entries, blank)
                                    /\ blank.items = [p \in Path |-> {}],
         Heard'
  PROVE  IInv'
<1> DEFINE n == Len(text)
<1>1. PICK new : new = n + 1
  OBVIOUS
<1>2. /\ n \in Nat /\ Len(text') = new /\ \A i \in 1..n : text'[i] = text[i]
      /\ EntryOf(n) \in Nat
      /\ EntryOf(new)' = IF line.kind = "driver" THEN EntryOf(n) + 1 ELSE EntryOf(n)
  BY <1>1, Appended, Numbered DEF IInv
<1>3. /\ Listings' = Listings /\ Listings \subseteq 1..n
      /\ \A i \in Listings : /\ Place(i)' = Place(i) /\ EntryOf(i)' = EntryOf(i)
                             /\ SettledOf(i)' = SettledOf(i)
                             /\ Waits(i)' <=> Waits(i)
  BY <1>1, Continues, Kept DEF IInv
<1>4. /\ DOMAIN entries \subseteq DOMAIN entries' /\ Len(entries') = EntryOf(new)'
      /\ \A k \in DOMAIN entries : entries'[k] = entries[k]
      /\ \A k \in DOMAIN entries' \ DOMAIN entries : entries'[k].items = [p \in Path |-> {}]
  <2>1. entries \in Seq(Entry) /\ Len(entries) = EntryOf(n) /\ DOMAIN entries = 1..Len(entries)
    BY DEF IInv, Typed, Listed
  <2>2. CASE line.kind # "driver"
    BY <1>2, <2>1, <2>2
  <2>3. CASE line.kind = "driver"
    <3>1. PICK blank \in Entry : entries' = Append(entries, blank) /\ blank.items = [p \in Path |-> {}]
      BY <2>3
    <3>2. /\ Len(entries') = Len(entries) + 1 /\ DOMAIN entries' = 1..(Len(entries) + 1)
          /\ entries'[Len(entries) + 1] = blank
          /\ \A k \in 1..Len(entries) : entries'[k] = entries[k]
      BY <2>1, <3>1
    <3> QED
      BY <1>2, <2>1, <2>3, <3>1, <3>2
  <2> QED
    BY <2>2, <2>3
<1>5. \A i \in Listings : EntryOf(i) \in DOMAIN entries /\ text[i].path \in Path
  BY PlacesAreEntries DEF IInv
<1>6. Listed'
  <2>1. \A i, j \in DOMAIN text' :
          Lists(text'[i]) /\ Lists(text'[j]) /\ text'[i].path = text'[j].path => i = j
    BY OnceListed DEF Lists, Open, IInv
  <2>3. \A i \in Listings' : EntryOf(i)' \in DOMAIN entries'
    BY <1>3, <1>4, <1>5
  <2>4. Len(entries') = EntryOf(Len(text))'
    BY <1>2, <1>4 DEF EntryOf, Drivers
  <2> QED
    BY <2>1, <2>3, <2>4 DEF Listed
<1>7. Given'
  <2>1. \A i \in Listings' :
          /\ entries'[EntryOf(i)'].items[text'[i].path] = SettledOf(i)'
          /\ Place(i)' \in group' <=> Waits(i)'
    <3>1. \A i \in Listings : /\ entries[EntryOf(i)].items[text[i].path] = SettledOf(i)
                              /\ Place(i) \in group <=> Waits(i)
      BY DEF IInv, Given
    <3>2. \A i \in Listings : entries'[EntryOf(i)] = entries[EntryOf(i)] /\ text'[i] = text[i]
      BY <1>2, <1>3, <1>4, <1>5
    <3> QED
      BY <1>3, <3>1, <3>2
  <2>2. {Place(i)' : i \in Listings'} = Places
    BY <1>3 DEF Places
  <2>3. \A k \in DOMAIN entries', p \in Path : <<k, p>> \notin Places => entries'[k].items[p] = {}
    BY <1>4 DEF IInv, Given, Places
  <2>4. group' \subseteq Places
    BY DEF IInv, Given, Places
  <2> QED
    BY <2>1, <2>2, <2>3, <2>4 DEF Given
<1> QED
  BY <1>6, <1>7 DEF IInv

LEMMA RuleInv ==
  ASSUME IInv, Rule
  PROVE  IInv'
<1> DEFINE n == Len(text)
           line == [kind |-> "rule"]
<1>1. PICK new : new = n + 1
  OBVIOUS
<1>2. /\ line \in Line /\ text' = Append(text, line) /\ line.kind \notin Open /\ ~ Lists(line)
      /\ entries' = Closed.entries /\ group' = {} /\ cites' = {} /\ words' = {}
  BY DEF Rule, Read, Line, Open, Lists
<1>3. /\ n \in Nat /\ Len(text') = new /\ text' \in Seq(Line)
      /\ \A i \in 1..n : text'[i] = text[i]
      /\ EntryOf(new)' = EntryOf(n)
  BY <1>1, <1>2, Appended, Numbered DEF IInv
<1>4. /\ Growing' = {} /\ Listings' = Listings /\ Listings \subseteq 1..n
      /\ \A i \in Listings : /\ Place(i)' = Place(i)
                             /\ EntryOf(i)' = EntryOf(i)
                             /\ SettledOf(i)' = LicenceOf(i)
                             /\ ~ Waits(i)'
  <2> HIDE DEF line
  <2>1. line.kind = "rule"
    BY DEF line
  <2> QED
    BY <1>1, <1>2, <2>1, Settles, Kept DEF IInv
<1>5. /\ entries' \in Seq(Entry) /\ DOMAIN entries' = DOMAIN entries /\ Len(entries') = Len(entries)
      /\ \A i \in Listings : entries'[EntryOf(i)].items[text[i].path] = LicenceOf(i)
      /\ \A k \in DOMAIN entries, p \in Path : <<k, p>> \notin Places => entries'[k].items[p] = {}
  BY <1>2, ClosedGives DEF IInv, Typed
<1>6. Typed'
  BY <1>2, <1>3, <1>5 DEF Typed
<1>7. Listed'
  <2>1. \A i, j \in DOMAIN text' :
          Lists(text'[i]) /\ Lists(text'[j]) /\ text'[i].path = text'[j].path => i = j
    BY <1>2, OnceListed DEF IInv
  <2>2. Len(entries') = EntryOf(Len(text))'
    BY <1>3, <1>5 DEF EntryOf, Drivers, IInv, Listed
  <2>3. \A i \in Listings' : EntryOf(i)' \in DOMAIN entries'
    BY <1>4, <1>5 DEF IInv, Listed
  <2> QED
    BY <2>1, <2>2, <2>3 DEF Listed
<1>8. Heard'
  BY <1>2, <1>4 DEF Heard
<1>9. Given'
  <2>1. \A i \in Listings' :
          /\ entries'[EntryOf(i)'].items[text'[i].path] = SettledOf(i)'
          /\ Place(i)' \in group' <=> Waits(i)'
    BY <1>2, <1>3, <1>4, <1>5
  <2>2. {Place(i)' : i \in Listings'} = Places
    BY <1>4 DEF Places
  <2> QED
    BY <1>2, <1>5, <2>1, <2>2 DEF Given
<1> QED
  BY <1>6, <1>7, <1>8, <1>9 DEF IInv

LEMMA Adds ==
  ASSUME NEW x \in Entry, NEW field \in {"files", "links"}, NEW what,
         field = "files" => what \in Path,
         field = "links" => what \in [path : Path, target : Path]
  PROVE  /\ [x EXCEPT ![field] = Append(@, what)] \in Entry
         /\ [x EXCEPT ![field] = Append(@, what)].items = x.items
<1>1. CASE field = "files"
  <2>1. Append(x.files, what) \in Seq(Path)
    BY <1>1 DEF Entry
  <2>2. [x EXCEPT ![field] = Append(@, what)] = [x EXCEPT !.files = Append(x.files, what)]
    BY <1>1
  <2> QED
    BY <2>1, <2>2 DEF Entry
<1>2. CASE field = "links"
  <2>1. Append(x.links, what) \in Seq([path : Path, target : Path])
    BY <1>2 DEF Entry
  <2>2. [x EXCEPT ![field] = Append(@, what)] = [x EXCEPT !.links = Append(x.links, what)]
    BY <1>2
  <2> QED
    BY <2>1, <2>2 DEF Entry
<1> QED
  BY <1>1, <1>2

(* A listing: what it lists is licensed by nothing yet and waits.          *)
LEMMA ListInv ==
  ASSUME IInv, NEW line \in Line, text' = Append(text, line), Lists(line),
         NEW field \in {"files", "links"}, NEW what,
         field = "files" => what \in Path,
         field = "links" => what \in [path : Path, target : Path],
         ListPath(line.path, field, what)
  PROVE  IInv'
<1> DEFINE n == Len(text)
           e == Len(entries)
           p == line.path
<1>1. PICK new : new = n + 1
  OBVIOUS
<1>2. /\ entries # <<>> /\ Fresh(p)
      /\ entries' = [Closed.entries EXCEPT ![e][field] = Append(@, what)]
      /\ group' = Closed.group \cup {<<e, p>>} /\ cites' = {} /\ words' = {}
      /\ line.kind \notin Open /\ line.kind \notin {"rule", "driver"} /\ p \in Path
  BY DEF ListPath, Lists, Open, Line
<1>3. /\ n \in Nat /\ Len(text') = new /\ text' \in Seq(Line) /\ DOMAIN text = 1..n
      /\ text'[new] = line /\ \A i \in 1..n : text'[i] = text[i]
      /\ EntryOf(new)' = EntryOf(n) /\ (EntryOf(n) # 0 => Counts(n))
  BY <1>1, <1>2, Appended, Numbered DEF IInv
<1>4. entries \in Seq(Entry) /\ e \in DOMAIN entries /\ e = EntryOf(n) /\ e # 0
  BY <1>2 DEF IInv, Typed, Listed
<1>5. /\ Growing' = {} /\ Listings' = Listings \cup {new}
      /\ Listings \subseteq 1..n /\ new \notin Listings
      /\ SettledOf(new)' = {} /\ Waits(new)' /\ Place(new)' = <<e, p>>
  <2>1. Counts(n) /\ new \notin 1..n
    BY <1>1, <1>3, <1>4
  <2> QED
    BY <1>1, <1>2, <1>4, <2>1, Settles, Kept DEF IInv
<1>6. \A i \in Listings : /\ Place(i)' = Place(i)
                          /\ EntryOf(i)' = EntryOf(i)
                          /\ SettledOf(i)' = LicenceOf(i)
                          /\ Waits(i)' <=> Waits(i) /\ Pending = {}
  BY <1>1, <1>2, Settles, Kept DEF IInv
<1>7. /\ Closed.entries \in Seq(Entry) /\ DOMAIN Closed.entries = DOMAIN entries
      /\ \A i \in Listings :
           /\ Closed.entries[EntryOf(i)].items[text[i].path] = LicenceOf(i)
           /\ Place(i) \in Closed.group <=> Waits(i) /\ Pending = {}
      /\ \A k \in DOMAIN entries, q \in Path :
           <<k, q>> \notin Places => Closed.entries[k].items[q] = {}
      /\ Closed.group \subseteq Places
  BY ClosedGives
<1>8. /\ entries' \in Seq(Entry) /\ DOMAIN entries' = DOMAIN entries /\ Len(entries') = e
      /\ \A k \in DOMAIN entries : entries'[k].items = Closed.entries[k].items
  <2> DEFINE old == Closed.entries
  <2> HIDE DEF old
  <2>1. old \in Seq(Entry) /\ e \in DOMAIN old /\ DOMAIN old = DOMAIN entries
    BY <1>4, <1>7 DEF old
  <2>2. old[e] \in Entry /\ [old[e] EXCEPT ![field] = Append(@, what)] \in Entry
        /\ [old[e] EXCEPT ![field] = Append(@, what)].items = old[e].items
    <3>1. old[e] \in Entry
      BY <2>1
    <3> QED
      BY <3>1, Adds
  <2>3. entries' = [old EXCEPT ![e] = [old[e] EXCEPT ![field] = Append(@, what)]]
    BY <1>2 DEF old
  <2>4. entries' \in Seq(Entry) /\ DOMAIN entries' = DOMAIN old
    BY <2>1, <2>2, <2>3
  <2>5. \A k \in DOMAIN entries : entries'[k].items = old[k].items
    BY <2>1, <2>2, <2>3
  <2>6. Len(entries') = e
    BY <1>4, <2>1, <2>4
  <2> QED
    BY <2>1, <2>4, <2>5, <2>6 DEF old
<1>9. <<e, p>> \notin Places
  <2>1. \A i \in Listings : text[i].path # p
    BY <1>2 DEF Fresh, Listings
  <2> QED
    BY <2>1 DEF Places, Place
<1>10. Typed'
  BY <1>2, <1>3, <1>8 DEF Typed
<1>11. Listed'
  <2>1. \A i, j \in DOMAIN text' :
          Lists(text'[i]) /\ Lists(text'[j]) /\ text'[i].path = text'[j].path => i = j
    BY <1>2, OnceListed DEF IInv
  <2>2. Len(entries') = EntryOf(Len(text))'
    BY <1>3, <1>4, <1>8 DEF EntryOf, Drivers
  <2>3. \A i \in Listings' : EntryOf(i)' \in DOMAIN entries'
    <3>1. \A i \in Listings : EntryOf(i) \in DOMAIN entries
      BY DEF IInv, Listed
    <3>2. \A i \in Listings : EntryOf(i)' \in DOMAIN entries'
      BY <1>6, <1>8, <3>1
    <3>3. EntryOf(new)' \in DOMAIN entries'
      BY <1>3, <1>4, <1>8
    <3> QED
      BY <1>5, <3>2, <3>3
  <2> QED
    BY <2>1, <2>2, <2>3 DEF Listed
<1>12. Heard'
  BY <1>2, <1>5 DEF Heard
<1>13. Given'
  <2>1. \A i \in Listings : /\ EntryOf(i) \in DOMAIN entries /\ text'[i] = text[i]
                            /\ Place(i) # <<e, p>>
    BY <1>3, <1>5, <1>9 DEF IInv, Listed, Places
  <2>2. \A i \in Listings : /\ entries'[EntryOf(i)'].items[text'[i].path] = SettledOf(i)'
                            /\ Place(i)' \in group' <=> Waits(i)'
    <3>1. \A i \in Listings : entries'[EntryOf(i)'].items[text'[i].path] = SettledOf(i)'
      <4>1. \A i \in Listings : entries'[EntryOf(i)].items = Closed.entries[EntryOf(i)].items
        BY <1>8, <2>1
      <4>2. \A i \in Listings : Closed.entries[EntryOf(i)].items[text'[i].path] = LicenceOf(i)
        BY <1>7, <2>1
      <4>3. \A i \in Listings : EntryOf(i)' = EntryOf(i) /\ SettledOf(i)' = LicenceOf(i)
        BY <1>6
      <4> QED
        BY <4>1, <4>2, <4>3
    <3>2. \A i \in Listings : Place(i)' \in group' <=> Waits(i)'
      BY <1>2, <1>6, <1>7, <2>1
    <3> QED
      BY <3>1, <3>2
  <2>3. /\ entries'[EntryOf(new)'].items[text'[new].path] = SettledOf(new)'
        /\ Place(new)' \in group' <=> Waits(new)'
    BY <1>2, <1>3, <1>4, <1>5, <1>7, <1>8, <1>9, SMTT(20)
  <2>4. {Place(i)' : i \in Listings'} = Places \cup {<<e, p>>}
    BY <1>5, <1>6 DEF Places
  <2>5. \A i \in Listings' : /\ entries'[EntryOf(i)'].items[text'[i].path] = SettledOf(i)'
                             /\ Place(i)' \in group' <=> Waits(i)'
    BY <1>5, <2>2, <2>3
  <2>6. \A k \in DOMAIN entries', q \in Path :
          <<k, q>> \notin Places \cup {<<e, p>>} => entries'[k].items[q] = {}
    BY <1>7, <1>8
  <2>7. group' \subseteq Places \cup {<<e, p>>}
    BY <1>2, <1>7
  <2> QED
    BY <2>4, <2>5, <2>6, <2>7 DEF Given
<1> QED
  BY <1>10, <1>11, <1>12, <1>13 DEF IInv

(* Before the first driver nothing counts.                                 *)
LEMMA PreambleInv ==
  ASSUME IInv, Preamble
  PROVE  IInv'
<1>1. PICK line \in Line : /\ text = <<>> /\ line.kind # "driver" /\ text' = Append(text, line)
                           /\ UNCHANGED <<entries, group, cites, words>>
  BY LinesAssumption DEF Preamble, Read, parser
<1>2. PICK new : new = Len(text) + 1
  OBVIOUS
<1>3. /\ Len(text) = 0 /\ new = 1 /\ Len(text') = 1 /\ DOMAIN text' = {1} /\ text'[1] = line
      /\ text' \in Seq(Line)
  <2>1. Len(text) = 0
    BY <1>1
  <2> QED
    BY <1>1, <1>2, <2>1, Appended DEF IInv
<1>4. ~ Counts(1)'
  BY <1>1, <1>3 DEF Counts
<1>5. Listings' = {} /\ Growing' = {}
  BY <1>3, <1>4 DEF Listings, Growing, LicenceLines
<1>6. EntryOf(new)' = EntryOf(Len(text))
  BY <1>1, <1>2, Numbered DEF IInv
<1>7. /\ entries = <<>> /\ group = {} /\ cites = {} /\ words = {}
      /\ EntryOf(Len(text)) = 0
  <2>1. Drivers(0) = {}
    BY DEF Drivers
  <2>2. EntryOf(0) = 0
    BY <2>1, FS_EmptySet DEF EntryOf
  <2>3. Len(entries) = 0 /\ entries \in Seq(Entry)
    BY <1>3, <2>2 DEF IInv, Listed, Typed
  <2>4. Listings = {} /\ Growing = {}
    BY <1>3, <1>1 DEF Listings, Growing, LicenceLines
  <2> QED
    BY <1>3, <2>2, <2>3, <2>4 DEF IInv, Heard, Given
<1>8. Typed'
  BY <1>1, <1>3 DEF IInv, Typed
<1>9. Listed'
  <2>1. Len(entries') = EntryOf(Len(text))'
    BY <1>1, <1>3, <1>6, <1>7 DEF EntryOf, Drivers
  <2> QED
    BY <1>3, <1>5, <2>1 DEF Listed
<1>10. Heard' /\ Given'
  BY <1>1, <1>5, <1>7 DEF Heard, Given
<1> QED
  BY <1>8, <1>9, <1>10 DEF IInv

LEMMA DriverInv ==
  ASSUME IInv, NEW d \in Driver, DriverLine(d)
  PROVE  IInv'
<1> DEFINE line == [kind |-> "driver", driver |-> d]
           blank == [driver |-> d, files |-> <<>>, links |-> <<>>,
                     section |-> Section(Len(text)), items |-> [p \in Path |-> {}]]
<1>1. /\ line \in Line /\ line.kind = "driver" /\ text' = Append(text, line)
      /\ entries' = Append(entries, blank) /\ group' = group /\ cites' = cites /\ words' = words
  BY DEF DriverLine, Read, Line
<1>2. blank \in Entry
  <2>1. IsFiniteSet(1..Len(text)) /\ {k \in 1..Len(text) : text[k].kind = "rule"} \subseteq 1..Len(text)
    BY FS_Interval DEF IInv, Typed
  <2>2. Section(Len(text)) \in Nat
    BY <2>1, FS_Subset, FS_CardinalityType DEF Section
  <2> QED
    BY <2>2 DEF Entry
<1>3. Growing' = Growing
  <2>1. PICK new : new = Len(text) + 1
    OBVIOUS
  <2> HIDE DEF line
  <2> QED
    BY <1>1, <2>1, Continues DEF IInv, Open
<1>4. Typed'
  <2> HIDE DEF line, blank
  <2> QED
    BY <1>1, <1>2 DEF IInv, Typed
<1>5. Heard'
  <2>1. \A k \in Growing : text'[k] = text[k]
    <3> HIDE DEF line
    <3> QED
      BY <1>1, Appended DEF IInv, Growing, LicenceLines
  <2>2. cites' = {text'[k].text : k \in {i \in Growing : text'[i].kind = "cites"}}
    <3> DEFINE S == {i \in Growing : text[i].kind = "cites"}
    <3>1. {i \in Growing : text'[i].kind = "cites"} = S
      BY <2>1
    <3>2. cites = {text[k].text : k \in S} /\ \A k \in S : text'[k] = text[k]
      BY <2>1 DEF IInv, Heard
    <3> HIDE DEF S
    <3>3. {text'[k].text : k \in S} = {text[k].text : k \in S}
      BY <3>2
    <3> QED
      BY <1>1, <3>1, <3>2, <3>3
  <2>3. words' = {text'[k].word : k \in {i \in Growing : text'[i].kind = "worded"}}
    <3> DEFINE S == {i \in Growing : text[i].kind = "worded"}
    <3>1. {i \in Growing : text'[i].kind = "worded"} = S
      BY <2>1
    <3>2. words = {text[k].word : k \in S} /\ \A k \in S : text'[k] = text[k]
      BY <2>1 DEF IInv, Heard
    <3> HIDE DEF S
    <3>3. {text'[k].word : k \in S} = {text[k].word : k \in S}
      BY <3>2
    <3> QED
      BY <1>1, <3>1, <3>2, <3>3
  <2> QED
    BY <1>3, <2>2, <2>3 DEF Heard
<1> QED
  <2>1. blank.items = [p \in Path |-> {}]
    OBVIOUS
  <2> HIDE DEF line, blank
  <2> QED
    BY <1>1, <1>2, <1>4, <1>5, <2>1, OpenInv DEF Open

(* A licence line, once a driver stands, is heard.                         *)
LEMMA LicenceInv ==
  ASSUME IInv, NEW line \in Line, text' = Append(text, line), entries # <<>>,
         line.kind \in {"cites", "worded"}, entries' = entries, group' = group,
         cites' = IF line.kind = "cites" THEN cites \cup {line.text} ELSE cites,
         words' = IF line.kind = "worded" THEN words \cup {line.word} ELSE words
  PROVE  IInv'
<1>1. PICK new : new = Len(text) + 1
  OBVIOUS
<1>2. Counts(Len(text))
  <2>1. EntryOf(Len(text)) # 0
    BY DEF IInv, Typed, Listed
  <2> QED
    BY <1>1, <2>1, Numbered DEF IInv
<1>3. Growing' = Growing \cup {new}
  BY <1>1, <1>2, Continues DEF IInv, Open
<1>4. /\ text'[new] = line /\ \A k \in Growing : text'[k] = text[k] /\ k # new
      /\ text' \in Seq(Line)
  BY <1>1, Appended DEF IInv, Growing, LicenceLines
<1>5. line.kind = "cites" => line.text \in Vendor
  BY DEF Line
<1>6. line.kind = "worded" => line.word \in Word
  BY DEF Line
<1>7. Typed'
  BY <1>4, <1>5, <1>6 DEF IInv, Typed
<1>8. Heard'
  <2>1. cites' = {text'[k].text : k \in {i \in Growing' : text'[i].kind = "cites"}}
    <3> DEFINE S == {i \in Growing : text[i].kind = "cites"}
               T == {i \in Growing' : text'[i].kind = "cites"}
    <3>1. T = IF line.kind = "cites" THEN S \cup {new} ELSE S
      BY <1>3, <1>4
    <3>2. cites = {text[k].text : k \in S}
      BY DEF IInv, Heard
    <3>3. text'[new] = line /\ \A k \in S : text'[k] = text[k]
      BY <1>4
    <3> HIDE DEF S, T
    <3>4. ASSUME line.kind = "cites"
          PROVE  cites' = {text'[k].text : k \in T}
      <4>1. cites' = cites \cup {line.text}
        BY <3>4
      <4>2. {text'[k].text : k \in T} = {text'[k].text : k \in S} \cup {line.text}
        BY <3>1, <3>3, <3>4
      <4>3. {text'[k].text : k \in S} = {text[k].text : k \in S}
        BY <3>3
      <4> QED
        BY <3>2, <4>1, <4>2, <4>3
    <3>5. ASSUME line.kind # "cites"
          PROVE  cites' = {text'[k].text : k \in T}
      <4>1. {text'[k].text : k \in S} = {text[k].text : k \in S}
        BY <3>3
      <4> QED
        BY <3>1, <3>2, <3>5, <4>1
    <3>6. cites' = {text'[k].text : k \in T}
      BY <3>4, <3>5
    <3> QED
      BY <3>6 DEF T
  <2>2. words' = {text'[k].word : k \in {i \in Growing' : text'[i].kind = "worded"}}
    <3> DEFINE S == {i \in Growing : text[i].kind = "worded"}
               T == {i \in Growing' : text'[i].kind = "worded"}
    <3>1. T = IF line.kind = "worded" THEN S \cup {new} ELSE S
      BY <1>3, <1>4
    <3>2. words = {text[k].word : k \in S}
      BY DEF IInv, Heard
    <3>3. text'[new] = line /\ \A k \in S : text'[k] = text[k]
      BY <1>4
    <3> HIDE DEF S, T
    <3>4. ASSUME line.kind = "worded"
          PROVE  words' = {text'[k].word : k \in T}
      <4>1. words' = words \cup {line.word}
        BY <3>4
      <4>2. {text'[k].word : k \in T} = {text'[k].word : k \in S} \cup {line.word}
        BY <3>1, <3>3, <3>4
      <4>3. {text'[k].word : k \in S} = {text[k].word : k \in S}
        BY <3>3
      <4> QED
        BY <3>2, <4>1, <4>2, <4>3
    <3>5. ASSUME line.kind # "worded"
          PROVE  words' = {text'[k].word : k \in T}
      <4>1. {text'[k].word : k \in S} = {text[k].word : k \in S}
        BY <3>3
      <4> QED
        BY <3>1, <3>2, <3>5, <4>1
    <3>6. words' = {text'[k].word : k \in T}
      BY <3>4, <3>5
    <3> QED
      BY <3>6 DEF T
  <2> QED
    BY <2>1, <2>2 DEF Heard
<1> QED
  BY <1>7, <1>8, OpenInv DEF Open

LEMMA NextIInv == IInv /\ [Next]_vars => IInv'
<1> SUFFICES ASSUME IInv, [Next]_vars PROVE IInv'
  OBVIOUS
<1>1. ASSUME UNCHANGED <<text, parser>>
      PROVE  IInv'
  <2>1. /\ text' = text /\ entries' = entries /\ group' = group /\ cites' = cites /\ words' = words
    BY <1>1 DEF parser
  <2>2. \A i, j : Between(i, j)' = Between(i, j)
    BY <2>1 DEF Between
  <2>3. /\ Listings' = Listings /\ LicenceLines' = LicenceLines
        /\ \A i : EntryOf(i)' = EntryOf(i) /\ Place(i)' = Place(i)
    BY <2>1 DEF Listings, LicenceLines, Counts, EntryOf, Drivers, Place
  <2>4. Ending' = Ending
    BY <2>1, <2>2 DEF Ending
  <2>5. Growing' = Growing /\ Settled' = Settled
    BY <2>3, <2>4 DEF Growing, Settled
  <2>6. \A j : Statement(j)' = Statement(j)
    BY <2>2, <2>3 DEF Statement
  <2>7. \A j : Stated(j)' = Stated(j)
    <3>1. ASSUME NEW j
          PROVE  Stated(j)' = Stated(j)
      <4> DEFINE S == Statement(j)
      <4>1. Statement(j)' = S
        BY <2>6
      <4>2. /\ {text'[k].text : k \in {i \in S : text'[i].kind = "cites"}}
                 = {text[k].text : k \in {i \in S : text[i].kind = "cites"}}
            /\ {text'[k].word : k \in {i \in S : text'[i].kind = "worded"}}
                 = {text[k].word : k \in {i \in S : text[i].kind = "worded"}}
        BY <2>1, Zenon
      <4> QED
        BY <4>1, <4>2 DEF Stated
    <3> QED
      BY <3>1
  <2>8. \A i : SettledFor(i)' = SettledFor(i)
    BY <2>2, <2>5, <2>7 DEF SettledFor
  <2>9. \A i : /\ SettledOf(i)' = SettledOf(i)
               /\ Waits(i)' <=> Waits(i)
    BY <2>1, <2>2, <2>7, <2>8 DEF SettledOf, Waits
  <2>10. Typed' /\ Heard'
    BY <2>1, <2>5 DEF IInv, Typed, Heard
  <2>11. Listed'
    BY <2>1, <2>3 DEF IInv, Listed
  <2>12. Given'
    BY <2>1, <2>3, <2>9 DEF IInv, Given
  <2> QED
    BY <2>10, <2>11, <2>12 DEF IInv
<1>2. CASE Preamble
  BY <1>2, PreambleInv
<1>3. CASE Rule
  BY <1>3, RuleInv
<1>4. CASE Account
  BY <1>1, <1>4 DEF Account
<1>5. CASE \E produced \in SUBSET Path : Sort(produced)
  BY <1>1, <1>5 DEF Sort
<1>6. CASE \E d \in Driver : DriverLine(d)
  BY <1>6, DriverInv
<1>7. ASSUME NEW p \in Path, FileLine(p)
      PROVE  IInv'
  <2> DEFINE line == [kind |-> "file", path |-> p]
  <2>1. /\ line \in Line /\ line.path = p /\ Lists(line) /\ text' = Append(text, line)
        /\ ListPath(p, "files", p)
    BY <1>7 DEF FileLine, Read, Line, Lists
  <2> HIDE DEF line
  <2> QED
    BY <2>1, ListInv
<1>8. ASSUME NEW p \in Path, NEW t \in Path, LinkLine(p, t)
      PROVE  IInv'
  <2> DEFINE line == [kind |-> "link", path |-> p, target |-> t]
             what == [path |-> p, target |-> t]
  <2>1. /\ line \in Line /\ line.path = p /\ Lists(line) /\ text' = Append(text, line)
        /\ ListPath(p, "links", what) /\ what \in [path : Path, target : Path]
    BY <1>8 DEF LinkLine, Read, Line, Lists
  <2> HIDE DEF line, what
  <2> QED
    BY <2>1, ListInv
<1>9. ASSUME NEW v \in Vendor, CiteLine(v)
      PROVE  IInv'
  <2> DEFINE line == [kind |-> "cites", text |-> v]
  <2>1. /\ line \in Line /\ line.kind = "cites" /\ line.text = v /\ text' = Append(text, line)
        /\ entries # <<>> /\ entries' = entries /\ group' = group
        /\ cites' = cites \cup {v} /\ words' = words
    BY <1>9 DEF CiteLine, Read, Line
  <2> HIDE DEF line
  <2> QED
    BY <2>1, LicenceInv
<1>10. ASSUME NEW w \in Word, WordLine(w)
       PROVE  IInv'
  <2> DEFINE line == [kind |-> "worded", word |-> w]
  <2>1. /\ line \in Line /\ line.kind = "worded" /\ line.word = w /\ text' = Append(text, line)
        /\ entries # <<>> /\ entries' = entries /\ group' = group
        /\ cites' = cites /\ words' = words \cup {w}
    BY <1>10 DEF WordLine, Read, Line
  <2> HIDE DEF line
  <2> QED
    BY <2>1, LicenceInv
<1>11. CASE UNCHANGED vars
  BY <1>1, <1>11 DEF vars
<1> QED
  BY <1>2, <1>3, <1>4, <1>5, <1>6, <1>7, <1>8, <1>9, <1>10, <1>11 DEF Next
-----------------------------------------------------------------------------
LEMMA IInvAttributed == IInv => Attributed
<1> SUFFICES ASSUME IInv, NEW k \in DOMAIN entries, NEW p \in Path
             PROVE  Closed.entries[k].items[p] =
                      UNION {LicenceOf(i) : i \in {j \in Listings : text[j].path = p /\ k = EntryOf(j)}}
  BY DEF Attributed, EntryOf, Drivers
<1> DEFINE L == {j \in Listings : text[j].path = p /\ k = EntryOf(j)}
<1>1. CASE L = {}
  <2>1. <<k, p>> \notin Places
    BY <1>1 DEF Places, Place
  <2>2. Closed.entries[k].items[p] = {}
    BY <2>1, ClosedGives
  <2> QED
    BY <1>1, <2>2
<1>2. CASE L # {}
  <2>1. PICK i \in Listings : text[i].path = p /\ k = EntryOf(i)
    BY <1>2
  <2>2. \A j \in L : j = i
    BY <2>1 DEF IInv, Listed, Listings
  <2>3. {LicenceOf(j) : j \in L} = {LicenceOf(i)}
    BY <2>1, <2>2
  <2>4. Closed.entries[k].items[p] = LicenceOf(i)
    BY <2>1, ClosedGives
  <2> QED
    BY <2>3, <2>4
<1> QED
  BY <1>1, <1>2

(* Whatever WHENCE lists and states, in whatever order: what parse_whence  *)
(* and close_group give each path is the licence its text states for it.   *)
THEOREM EveryPathAttributed == Spec => []Attributed
<1>1. Init => IInv
  BY InitIInv
<1>2. IInv /\ [Next]_vars => IInv'
  BY NextIInv
<1>3. IInv => Attributed
  BY IInvAttributed
<1> QED
  BY <1>1, <1>2, <1>3, PTL DEF Spec
-----------------------------------------------------------------------------
(* What 0 has, and each number passes to the next, all have.               *)
LEMMA Climbs ==
  ASSUME NEW N \in Nat, NEW T, 0 \in T, \A n \in 1..N : n - 1 \in T => n \in T
  PROVE  \A n \in 0..N : n \in T
<1> SUFFICES ASSUME (0..N) \ T # {} PROVE FALSE
  OBVIOUS
<1>1. PICK m \in (0..N) \ T : \A k \in (0..N) \ T : m <= k
  <2>1. (0..N) \ T \in SUBSET Nat
    OBVIOUS
  <2> QED
    BY <2>1, Least
<1> QED
  BY <1>1

(* A set of positions has a last one.                                      *)
LEMMA LastPosition ==
  ASSUME NEW N \in Nat, NEW S \in SUBSET (1..N), S # {}
  PROVE  Max(S) \in S /\ \A i \in S : i <= Max(S)
<1> DEFINE R == {k \in Nat : \E i \in S : k = N - i}
<1>1. PICK k \in R : \A m \in R : k <= m
  <2>1. R # {}
    <3>1. PICK i \in S : TRUE
      OBVIOUS
    <3>2. N - i \in R
      BY <3>1
    <3> QED
      BY <3>2
  <2> HIDE DEF R
  <2>2. R \in SUBSET Nat
    BY DEF R
  <2> QED
    BY <2>1, <2>2, Least
<1>2. PICK i \in S : k = N - i
  BY <1>1
<1>3. \A j \in S : i >= j
  <2> SUFFICES ASSUME NEW j \in S PROVE i >= j
    OBVIOUS
  <2>1. N - j \in R
    OBVIOUS
  <2> QED
    BY <1>1, <1>2, <2>1
<1>4. Max(S) \in S /\ \A j \in S : Max(S) >= j
  BY <1>3 DEF Max
<1> QED
  BY <1>4

(* A fold over positions 1..N, its step a function of the value so far and *)
(* the position.                                                           *)
Steps(N, A) == [A \X (1..N) -> A]

(* The library's recursion over sets of positions, last position first.    *)
Recurs(h, N, A, base, step) ==
  /\ h[{}] = base
  /\ \A s \in SUBSET (1..N) :
       s # {} /\ h[s \ {Max(s)}] \in A => h[s] = step[<<h[s \ {Max(s)}], Max(s)>>]

(* The values it goes through, first to last.                              *)
IsRun(g, N, A, base, step) ==
  /\ g \in [0..N -> A] /\ g[0] = base
  /\ \A n \in 1..N : g[n] = step[<<g[n - 1], n>>]

LEMMA FoldExists ==
  ASSUME NEW N \in Nat, NEW A, NEW base \in A, NEW step \in Steps(N, A)
  PROVE  \E h : h \in [SUBSET (1..N) -> A] /\ Recurs(h, N, A, base, step)
<1> DEFINE Good(n, h) == \A s \in SUBSET (1..n) :
                           h[s] = IF s = {} THEN base ELSE step[<<h[s \ {Max(s)}], Max(s)>>]
           T == {n \in 0..N : \E h \in [SUBSET (1..n) -> A] : Good(n, h)}
<1>1. 0 \in T
  <2> DEFINE h == [s \in SUBSET (1..0) |-> base]
  <2>1. h \in [SUBSET (1..0) -> A] /\ Good(0, h)
    <3>1. \A s \in SUBSET (1..0) : s = {}
      OBVIOUS
    <3> QED
      BY <3>1
  <2> HIDE DEF h, Good
  <2>2. \E x \in [SUBSET (1..0) -> A] : Good(0, x)
    BY <2>1
  <2>3. 0 \in 0..N
    OBVIOUS
  <2> QED
    BY <2>2, <2>3, Zenon
<1>2. ASSUME NEW n \in 1..N, n - 1 \in T
      PROVE  n \in T
  <2> DEFINE m == n - 1
  <2>1. PICK h \in [SUBSET (1..m) -> A] : Good(m, h)
    BY <1>2
  <2> DEFINE g == [s \in SUBSET (1..n) |-> IF n \in s THEN step[<<h[s \ {n}], n>>] ELSE h[s]]
  <2>2. ASSUME NEW s \in SUBSET (1..n)
        PROVE  s \ {n} \in SUBSET (1..m) /\ (n \notin s => s \in SUBSET (1..m))
    OBVIOUS
  <2>3. g \in [SUBSET (1..n) -> A]
    <3> SUFFICES ASSUME NEW s \in SUBSET (1..n)
                 PROVE  (IF n \in s THEN step[<<h[s \ {n}], n>>] ELSE h[s]) \in A
      OBVIOUS
    <3>1. n \in s => <<h[s \ {n}], n>> \in A \X (1..N)
      BY <2>2
    <3> QED
      BY <2>2, <3>1 DEF Steps
  <2>4. ASSUME NEW s \in SUBSET (1..m)
        PROVE  g[s] = h[s]
    <3>1. n \notin s /\ s \in SUBSET (1..n)
      OBVIOUS
    <3> QED
      BY <3>1
  <2>5. ASSUME NEW s \in SUBSET (1..n)
        PROVE  g[s] = IF s = {} THEN base ELSE step[<<g[s \ {Max(s)}], Max(s)>>]
    <3>1. CASE n \in s
      <4>1. Max(s) = n
        <5>1. Max(s) \in s /\ n <= Max(s) /\ Max(s) \in 1..n
          <6>1. n \in Nat /\ s # {}
            BY <3>1
          <6>2. Max(s) \in s /\ \A i \in s : i <= Max(s)
            BY <6>1, LastPosition
          <6> QED
            BY <3>1, <6>2
        <5> QED
          BY <5>1
      <4>2. g[s \ {n}] = h[s \ {n}]
        BY <2>2, <2>4
      <4>3. g[s] = step[<<h[s \ {n}], n>>]
        BY <3>1
      <4> HIDE DEF g
      <4> QED
        BY <3>1, <4>1, <4>2, <4>3
    <3>2. CASE n \notin s
      <4>1. s \in SUBSET (1..m)
        BY <2>2, <3>2
      <4>2. s \ {Max(s)} \in SUBSET (1..m)
        BY <4>1
      <4>3. g[s] = h[s] /\ g[s \ {Max(s)}] = h[s \ {Max(s)}]
        BY <2>4, <4>1, <4>2
      <4> HIDE DEF g
      <4> QED
        BY <2>1, <4>1, <4>3
    <3> QED
      BY <3>1, <3>2
  <2>6. Good(n, g)
    BY <2>5
  <2> HIDE DEF g, Good
  <2> QED
    BY <2>3, <2>6
<1>3. N \in T
  <2> HIDE DEF T
  <2> QED
    BY <1>1, <1>2, Climbs
<1>4. PICK h \in [SUBSET (1..N) -> A] : Good(N, h)
  BY <1>3
<1>5. Recurs(h, N, A, base, step)
  BY <1>4 DEF Recurs
<1> QED
  BY <1>5

(* A fold is the last of its values, each of them one step from the one    *)
(* before.                                                                 *)
LEMMA FoldIs ==
  ASSUME NEW N \in Nat, NEW A, NEW base \in A, NEW step \in Steps(N, A),
         NEW iter, Recurs(iter, N, A, base, step)
  PROVE  \E g : IsRun(g, N, A, base, step) /\ g[N] = iter[1..N]
<1> DEFINE T == {n \in 0..N : iter[1..n] \in A}
           g == [n \in 0..N |-> iter[1..n]]
<1>1. ASSUME NEW n \in 1..N
      PROVE  /\ 1..n \in SUBSET (1..N) /\ 1..n # {} /\ Max(1..n) = n
             /\ (1..n) \ {Max(1..n)} = 1..(n - 1)
  <2>1. 1..n \in SUBSET (1..N) /\ 1..n # {} /\ n \in 1..n
    OBVIOUS
  <2>2. Max(1..n) \in 1..n /\ n <= Max(1..n)
    BY <2>1, LastPosition
  <2>3. Max(1..n) = n
    BY <2>2
  <2>4. (1..n) \ {n} = 1..(n - 1)
    OBVIOUS
  <2> QED
    BY <2>1, <2>3, <2>4
<1>2. 0 \in T
  <2>1. 1..0 = {}
    OBVIOUS
  <2> QED
    BY <2>1 DEF Recurs
<1>3. ASSUME NEW n \in 1..N, n - 1 \in T
      PROVE  n \in T
  <2>1. iter[1..n] = step[<<iter[1..(n - 1)], n>>] /\ iter[1..(n - 1)] \in A
    BY <1>1, <1>3 DEF Recurs
  <2> QED
    BY <2>1 DEF Steps
<1>4. \A n \in 0..N : iter[1..n] \in A
  <2>1. \A n \in 0..N : n \in T
    <3> HIDE DEF T
    <3> QED
      BY <1>2, <1>3, Climbs
  <2> QED
    BY <2>1
<1>5. g \in [0..N -> A]
  BY <1>4
<1>6. g[0] = base /\ g[N] = iter[1..N]
  <2>1. 1..0 = {}
    OBVIOUS
  <2> QED
    BY <2>1 DEF Recurs
<1>7. ASSUME NEW n \in 1..N
      PROVE  g[n] = step[<<g[n - 1], n>>]
  <2>1. n - 1 \in 0..N /\ n \in 0..N
    OBVIOUS
  <2>2. iter[1..n] = step[<<iter[1..(n - 1)], n>>]
    BY <1>1, <1>4, <2>1 DEF Recurs
  <2> QED
    BY <2>1, <2>2
<1> HIDE DEF g
<1> QED
  BY <1>5, <1>6, <1>7 DEF IsRun
-----------------------------------------------------------------------------
Claimants == {{}} \cup {{f} : f \in Families}

Assignment ==
  [owner : [Path -> Claimants], items : [Families -> SUBSET Item],
   sections : [Families -> SUBSET Nat], bare : SUBSET Path, unclaimed : SUBSET Path]

LEMMA FirstIsOne == ASSUME NEW S PROVE FirstOf(S) \in Claimants
<1> DEFINE R == {j \in DOMAIN Family : Family[j] \in S /\ \A k \in 1..j - 1 : Family[k] \notin S}
<1>1. \A i, j \in R : i = j
  <2> SUFFICES ASSUME NEW i \in R, NEW j \in R, i < j PROVE FALSE
    BY FamilyAssumption
  <2>1. i \in 1..j - 1
    BY FamilyAssumption
  <2> QED
    BY <2>1
<1>2. FirstOf(S) = {Family[i] : i \in R} /\ R \subseteq DOMAIN Family
  BY DEF FirstOf
<1> HIDE DEF R
<1> QED
  BY <1>1, <1>2 DEF Claimants, Families

(* What an entry lists is what the text lists under it, each path once,    *)
(* and its section is its driver's.                                        *)
Link(i) == [path |-> text[i].path, target |-> text[i].target]

ListsFiles(k, files) ==
  /\ \A i \in Listings : text[i].kind = "file" /\ EntryOf(i) = k
                           => \E n \in DOMAIN files : files[n] = text[i].path
  /\ \A n \in DOMAIN files : \E i \in Listings : /\ text[i].kind = "file" /\ EntryOf(i) = k
                                                 /\ text[i].path = files[n]
  /\ \A m, n \in DOMAIN files : files[m] = files[n] => m = n

ListsLinks(k, links) ==
  /\ \A i \in Listings : text[i].kind = "link" /\ EntryOf(i) = k
                           => \E n \in DOMAIN links : links[n] = Link(i)
  /\ \A n \in DOMAIN links : \E i \in Listings : /\ text[i].kind = "link" /\ EntryOf(i) = k
                                                 /\ Link(i) = links[n]
  /\ \A m, n \in DOMAIN links : links[m].path = links[n].path => m = n

Complete ==
  /\ \A k \in DOMAIN entries : ListsFiles(k, entries[k].files) /\ ListsLinks(k, entries[k].links)
  /\ \A d \in DOMAIN text : text[d].kind = "driver" =>
       EntryOf(d) \in DOMAIN entries /\ entries[EntryOf(d)].section = Section(d)

(* What the claims of the listings in D amount to: every path has the      *)
(* owner it was given first, and a family what its paths carry.            *)
EntryAt(i) == Closed.entries[EntryOf(i)]

Carried(i) ==
  IF text[i].kind = "file" \/ LicenceOf(i) # {} THEN LicenceOf(i) ELSE EntryAt(i).items[text[i].target]

OwnedBy(a, f, D) == {i \in D : a.owner[text[i].path] = {f}}

Claims(a, D) ==
  /\ \A i \in D : a.owner[text[i].path] # {} \/ text[i].path \in a.unclaimed
  /\ \A p \in Path : p \notin {text[i].path : i \in D} => a.owner[p] = {}
  /\ \A f \in Families :
       /\ a.items[f] = UNION {Carried(i) : i \in OwnedBy(a, f, D)}
       /\ a.sections[f] = {EntryAt(i).section : i \in OwnedBy(a, f, D)}
  /\ \A i \in D : text[i].kind = "file" /\ LicenceOf(i) = {}
                    => text[i].path \in a.unclaimed \cup a.bare

LEMMA ClaimTyped ==
  ASSUME NEW a \in Assignment, NEW e \in Entry, NEW p \in Path, NEW owner \in Claimants,
         NEW items \in SUBSET Item, NEW covered \in BOOLEAN
  PROVE  Claim(a, e, p, owner, items, covered) \in Assignment
<1>1. CASE owner = {}
  <2>1. Claim(a, e, p, owner, items, covered) = [a EXCEPT !.unclaimed = @ \cup {p}]
    BY <1>1 DEF Claim
  <2> QED
    BY <2>1 DEF Assignment
<1>2. CASE owner # {}
  <2> DEFINE own == [a.owner EXCEPT ![p] = owner]
             its == [f \in Families |-> IF f \in owner THEN a.items[f] \cup items ELSE a.items[f]]
             sec == [f \in Families |-> IF f \in owner THEN a.sections[f] \cup {e.section} ELSE a.sections[f]]
             brs == IF covered THEN a.bare ELSE a.bare \cup {p}
  <2>1. Claim(a, e, p, owner, items, covered) =
          [owner |-> own, items |-> its, sections |-> sec, bare |-> brs, unclaimed |-> a.unclaimed]
    BY <1>2 DEF Claim, Assignment
  <2>2. own \in [Path -> Claimants]
    BY DEF Assignment
  <2>3. its \in [Families -> SUBSET Item]
    BY DEF Assignment
  <2>4. sec \in [Families -> SUBSET Nat]
    BY DEF Assignment, Entry
  <2>5. brs \in SUBSET Path /\ a.unclaimed \in SUBSET Path
    BY DEF Assignment
  <2> HIDE DEF own, its, sec, brs
  <2> QED
    BY <2>1, <2>2, <2>3, <2>4, <2>5 DEF Assignment
<1> QED
  BY <1>1, <1>2

(* The claim of one more listing.                                          *)
LEMMA ClaimAdds ==
  ASSUME IInv, NEW D \in SUBSET Listings, NEW i \in Listings, i \notin D,
         NEW a \in Assignment, Claims(a, D), NEW owner \in Claimants, NEW covered \in BOOLEAN,
         covered /\ text[i].kind = "file" => LicenceOf(i) # {},
         NEW b, b = Claim(a, EntryAt(i), text[i].path, owner, Carried(i), covered)
  PROVE  Claims(b, D \cup {i})
<1> DEFINE p == text[i].path
           E == D \cup {i}
<1>1. p \in Path /\ \A j \in D : text[j].path # p
  BY PlacesAreEntries DEF IInv, Listed, Listings
<1>2. CASE owner = {}
  <2>1. b = [a EXCEPT !.unclaimed = @ \cup {p}]
    BY <1>2 DEF Claim
  <2>2. /\ b.owner = a.owner /\ b.items = a.items /\ b.sections = a.sections /\ b.bare = a.bare
        /\ b.unclaimed = a.unclaimed \cup {p}
    BY <2>1 DEF Assignment
  <2>3. a.owner[p] = {}
    BY <1>1 DEF Claims
  <2>4. \A f \in Families : OwnedBy(b, f, E) = OwnedBy(a, f, D)
    BY <2>2, <2>3 DEF OwnedBy
  <2> QED
    BY <1>1, <2>2, <2>3, <2>4 DEF Claims
<1>3. CASE owner # {}
  <2>1. /\ b.owner = [a.owner EXCEPT ![p] = owner]
        /\ b.items = [f \in Families |-> IF f \in owner THEN a.items[f] \cup Carried(i) ELSE a.items[f]]
        /\ b.sections = [f \in Families |->
             IF f \in owner THEN a.sections[f] \cup {EntryAt(i).section} ELSE a.sections[f]]
        /\ b.bare = (IF covered THEN a.bare ELSE a.bare \cup {p})
        /\ b.unclaimed = a.unclaimed
    BY <1>3 DEF Claim, Assignment
  <2>2. b.owner[p] = owner /\ \A q \in Path : q # p => b.owner[q] = a.owner[q]
    BY <1>1, <2>1 DEF Assignment
  <2>3. \A j \in D : text[j].path \in Path /\ b.owner[text[j].path] = a.owner[text[j].path]
    BY <1>1, <2>2, PlacesAreEntries DEF IInv
  <2>4. ASSUME NEW f \in Families
        PROVE  OwnedBy(b, f, E) = OwnedBy(a, f, D) \cup {j \in {i} : f \in owner}
    <3>1. f \in owner <=> owner = {f}
      BY <1>3 DEF Claimants
    <3> QED
      BY <2>2, <2>3, <3>1 DEF OwnedBy
  <2>5. ASSUME NEW f \in Families
        PROVE  /\ b.items[f] = UNION {Carried(j) : j \in OwnedBy(b, f, E)}
               /\ b.sections[f] = {EntryAt(j).section : j \in OwnedBy(b, f, E)}
    <3>1. /\ a.items[f] = UNION {Carried(j) : j \in OwnedBy(a, f, D)}
          /\ a.sections[f] = {EntryAt(j).section : j \in OwnedBy(a, f, D)}
      BY DEF Claims
    <3>2. CASE f \in owner
      <4>1. OwnedBy(b, f, E) = OwnedBy(a, f, D) \cup {i}
        BY <2>4, <3>2
      <4>2. /\ b.items[f] = a.items[f] \cup Carried(i)
            /\ b.sections[f] = a.sections[f] \cup {EntryAt(i).section}
        BY <2>1, <3>2
      <4>3. /\ UNION {Carried(j) : j \in OwnedBy(b, f, E)}
                 = (UNION {Carried(j) : j \in OwnedBy(a, f, D)}) \cup Carried(i)
            /\ {EntryAt(j).section : j \in OwnedBy(b, f, E)}
                 = {EntryAt(j).section : j \in OwnedBy(a, f, D)} \cup {EntryAt(i).section}
        BY <4>1
      <4> QED
        BY <3>1, <4>2, <4>3, Zenon
    <3>3. CASE f \notin owner
      <4>1. OwnedBy(b, f, E) = OwnedBy(a, f, D)
        BY <2>4, <3>3
      <4>2. b.items[f] = a.items[f] /\ b.sections[f] = a.sections[f]
        BY <2>1, <3>3
      <4> QED
        BY <3>1, <4>1, <4>2
    <3> QED
      BY <3>2, <3>3
  <2>6. \A j \in E : b.owner[text[j].path] # {} \/ text[j].path \in b.unclaimed
    BY <1>3, <2>1, <2>2, <2>3 DEF Claims
  <2>7. \A q \in Path : q \notin {text[j].path : j \in E} => b.owner[q] = {}
    BY <2>2 DEF Claims
  <2>8. \A j \in E : text[j].kind = "file" /\ LicenceOf(j) = {}
                       => text[j].path \in b.unclaimed \cup b.bare
    BY <2>1 DEF Claims
  <2> QED
    BY <2>5, <2>6, <2>7, <2>8 DEF Claims
<1> QED
  BY <1>2, <1>3

LEMMA TakeFileTyped ==
  ASSUME NEW a \in Assignment, NEW e \in Entry, NEW f \in Path
  PROVE  TakeFile(a, e, f) \in Assignment
<1>1. ByPathOrDriver(f, e) \in Claimants
  BY FirstIsOne DEF ByPathOrDriver, ByPath, ByDriver
<1>2. e.items[f] \in SUBSET Item
  BY DEF Entry
<1> QED
  BY <1>1, <1>2, ClaimTyped DEF TakeFile

LinkRecords == [path : Path, target : Path]

LEMMA TakeLinkTyped ==
  ASSUME NEW a \in Assignment, NEW e \in Entry, NEW l \in LinkRecords
  PROVE  TakeLink(a, e, l) \in Assignment
<1> DEFINE owner == IF a.owner[l.target] # {} THEN a.owner[l.target] ELSE ByPathOrDriver(l.path, e)
           items == IF e.items[l.path] # {} THEN e.items[l.path] ELSE e.items[l.target]
           covered == items # {} \/ a.owner[l.target] = owner
<1>1. owner \in Claimants
  BY FirstIsOne DEF ByPathOrDriver, ByPath, ByDriver, Assignment, LinkRecords
<1>2. items \in SUBSET Item
  BY DEF Entry, LinkRecords
<1>3. covered \in BOOLEAN
  OBVIOUS
<1>4. TakeLink(a, e, l) = Claim(a, e, l.path, owner, items, covered)
  BY DEF TakeLink
<1>5. l.path \in Path
  BY DEF LinkRecords
<1> HIDE DEF owner, items, covered
<1> QED
  BY <1>1, <1>2, <1>3, <1>4, <1>5, ClaimTyped

LEMMA FileAdds ==
  ASSUME IInv, NEW D \in SUBSET Listings, NEW i \in Listings, i \notin D, text[i].kind = "file",
         NEW a \in Assignment, Claims(a, D)
  PROVE  Claims(TakeFile(a, EntryAt(i), text[i].path), D \cup {i})
<1> DEFINE e == EntryAt(i)
           p == text[i].path
           owner == ByPathOrDriver(p, e)
           covered == e.items[p] # {}
<1>1. owner \in Claimants
  BY FirstIsOne DEF ByPathOrDriver, ByPath, ByDriver
<1>2. e.items[p] = LicenceOf(i) /\ Carried(i) = LicenceOf(i)
  BY ClosedGives DEF EntryAt, Carried
<1>3. TakeFile(a, e, p) = Claim(a, e, p, owner, Carried(i), covered)
  BY <1>2 DEF TakeFile
<1>4. covered \in BOOLEAN /\ (covered => LicenceOf(i) # {})
  BY <1>2
<1> HIDE DEF owner, covered
<1> QED
  BY <1>1, <1>3, <1>4, ClaimAdds

LEMMA LinkAdds ==
  ASSUME IInv, NEW D \in SUBSET Listings, NEW i \in Listings, i \notin D, text[i].kind = "link",
         NEW a \in Assignment, Claims(a, D)
  PROVE  Claims(TakeLink(a, EntryAt(i), Link(i)), D \cup {i})
<1> DEFINE e == EntryAt(i)
           l == Link(i)
           owner == IF a.owner[l.target] # {} THEN a.owner[l.target] ELSE ByPathOrDriver(l.path, e)
           items == IF e.items[l.path] # {} THEN e.items[l.path] ELSE e.items[l.target]
           covered == items # {} \/ a.owner[l.target] = owner
<1>1. text[i].target \in Path
  BY DEF IInv, Typed, Listings, Line
<1>2. l.path = text[i].path /\ l.target = text[i].target
  BY DEF Link
<1>3. owner \in Claimants
  BY <1>1, <1>2, FirstIsOne DEF ByPathOrDriver, ByPath, ByDriver, Assignment
<1>4. e.items[l.path] = LicenceOf(i)
  BY <1>2, ClosedGives DEF EntryAt
<1>5. items = Carried(i)
  BY <1>2, <1>4 DEF Carried
<1>6. covered \in BOOLEAN
  OBVIOUS
<1>7. TakeLink(a, e, l) = Claim(a, e, text[i].path, owner, Carried(i), covered)
  BY <1>2, <1>5 DEF TakeLink
<1> HIDE DEF owner, items, covered
<1> QED
  BY <1>3, <1>6, <1>7, ClaimAdds

(* The values of the folds.                                                *)
FilesTaken(a, e) == FoldLeft(LAMBDA b, f : TakeFile(b, e, f), a, e.files)
LinksTaken(a, e) == FoldLeft(LAMBDA b, l : TakeLink(b, e, l), a, e.links)

LEMMA FilesFold ==
  ASSUME NEW a \in Assignment, NEW e \in Entry
  PROVE  \E g \in [0..Len(e.files) -> Assignment] :
           /\ g[0] = a /\ g[Len(e.files)] = FilesTaken(a, e)
           /\ \A n \in 1..Len(e.files) : g[n] = TakeFile(g[n - 1], e, e.files[n])
<1> DEFINE N == Len(e.files)
           step == [x \in Assignment \X (1..N) |-> TakeFile(x[1], e, e.files[x[2]])]
           Folds(iter) ==
             iter = [s \in SUBSET (1..N) |->
                       IF s = {} THEN a ELSE TakeFile(iter[s \ {Max(s)}], e, e.files[Max(s)])]
           it == CHOOSE iter : Folds(iter)
<1>1. e.files \in Seq(Path) /\ N \in Nat /\ DOMAIN e.files = 1..N
  BY DEF Entry
<1>2. step \in Steps(N, Assignment)
  BY <1>1, TakeFileTyped DEF Steps
<1>3. \A x \in Assignment, n \in 1..N : step[<<x, n>>] = TakeFile(x, e, e.files[n])
  OBVIOUS
<1>4. FilesTaken(a, e) = it[1..N]
  BY <1>1 DEF FilesTaken, FoldLeft, MapThenFoldSet
<1> HIDE DEF step, N
<1>5. \A s \in SUBSET (1..N) : s # {} => Max(s) \in 1..N /\ s \ {Max(s)} \in SUBSET (1..N)
  BY <1>1, LastPosition
<1>6. Folds(it)
  <2>1. PICK h : h \in [SUBSET (1..N) -> Assignment] /\ Recurs(h, N, Assignment, a, step)
    BY <1>1, <1>2, FoldExists
  <2>2. \A s \in SUBSET (1..N) :
          h[s] = IF s = {} THEN a ELSE TakeFile(h[s \ {Max(s)}], e, e.files[Max(s)])
    BY <1>3, <1>5, <2>1 DEF Recurs
  <2>3. Folds(h)
    BY <2>1, <2>2
  <2> HIDE DEF Folds
  <2> QED
    BY <2>3
<1> HIDE DEF it
<1>7. Recurs(it, N, Assignment, a, step)
  BY <1>3, <1>5, <1>6 DEF Recurs
<1>8. PICK g : IsRun(g, N, Assignment, a, step) /\ g[N] = it[1..N]
  BY <1>1, <1>2, <1>7, FoldIs
<1>9. ASSUME NEW n \in 1..N
      PROVE  g[n] = TakeFile(g[n - 1], e, e.files[n])
  <2>1. n - 1 \in 0..N
    BY <1>1
  <2> QED
    BY <1>3, <1>8, <2>1 DEF IsRun
<1> QED
  BY <1>4, <1>8, <1>9 DEF N, IsRun

LEMMA LinksFold ==
  ASSUME NEW a \in Assignment, NEW e \in Entry
  PROVE  \E g \in [0..Len(e.links) -> Assignment] :
           /\ g[0] = a /\ g[Len(e.links)] = LinksTaken(a, e)
           /\ \A n \in 1..Len(e.links) : g[n] = TakeLink(g[n - 1], e, e.links[n])
<1> DEFINE N == Len(e.links)
           step == [x \in Assignment \X (1..N) |-> TakeLink(x[1], e, e.links[x[2]])]
           Folds(iter) ==
             iter = [s \in SUBSET (1..N) |->
                       IF s = {} THEN a ELSE TakeLink(iter[s \ {Max(s)}], e, e.links[Max(s)])]
           it == CHOOSE iter : Folds(iter)
<1>1. e.links \in Seq(LinkRecords) /\ N \in Nat /\ DOMAIN e.links = 1..N
  BY DEF Entry, LinkRecords
<1>2. step \in Steps(N, Assignment)
  <2>1. \A n \in 1..N : e.links[n] \in LinkRecords
    BY <1>1
  <2>2. \A x \in Assignment, n \in 1..N : TakeLink(x, e, e.links[n]) \in Assignment
    BY <2>1, TakeLinkTyped
  <2> QED
    BY <2>2 DEF Steps
<1>3. \A x \in Assignment, n \in 1..N : step[<<x, n>>] = TakeLink(x, e, e.links[n])
  OBVIOUS
<1>4. LinksTaken(a, e) = it[1..N]
  BY <1>1 DEF LinksTaken, FoldLeft, MapThenFoldSet
<1> HIDE DEF step, N
<1>5. \A s \in SUBSET (1..N) : s # {} => Max(s) \in 1..N /\ s \ {Max(s)} \in SUBSET (1..N)
  BY <1>1, LastPosition
<1>6. Folds(it)
  <2>1. PICK h : h \in [SUBSET (1..N) -> Assignment] /\ Recurs(h, N, Assignment, a, step)
    BY <1>1, <1>2, FoldExists
  <2>2. \A s \in SUBSET (1..N) :
          h[s] = IF s = {} THEN a ELSE TakeLink(h[s \ {Max(s)}], e, e.links[Max(s)])
    BY <1>3, <1>5, <2>1 DEF Recurs
  <2>3. Folds(h)
    BY <2>1, <2>2
  <2> HIDE DEF Folds
  <2> QED
    BY <2>3
<1> HIDE DEF it
<1>7. Recurs(it, N, Assignment, a, step)
  BY <1>3, <1>5, <1>6 DEF Recurs
<1>8. PICK g : IsRun(g, N, Assignment, a, step) /\ g[N] = it[1..N]
  BY <1>1, <1>2, <1>7, FoldIs
<1>9. ASSUME NEW n \in 1..N
      PROVE  g[n] = TakeLink(g[n - 1], e, e.links[n])
  <2>1. n - 1 \in 0..N
    BY <1>1
  <2> QED
    BY <1>3, <1>8, <2>1 DEF IsRun
<1> QED
  BY <1>4, <1>8, <1>9 DEF N, IsRun

LEMMA TakeEntryTyped ==
  ASSUME NEW a \in Assignment, NEW e \in Entry
  PROVE  /\ TakeEntry(a, e) = LinksTaken(FilesTaken(a, e), e)
         /\ FilesTaken(a, e) \in Assignment /\ TakeEntry(a, e) \in Assignment
<1>1. Len(e.files) \in Nat /\ Len(e.links) \in Nat
  BY DEF Entry
<1>2. FilesTaken(a, e) \in Assignment
  BY <1>1, FilesFold
<1>3. LinksTaken(FilesTaken(a, e), e) \in Assignment
  BY <1>1, <1>2, LinksFold
<1>4. TakeEntry(a, e) = LinksTaken(FilesTaken(a, e), e)
  BY DEF TakeEntry, LinksTaken, FilesTaken
<1> QED
  BY <1>2, <1>3, <1>4

LEMMA UnassignedTyped == Unassigned \in Assignment
BY DEF Unassigned, Assignment, Claimants

LEMMA EntriesFold ==
  ASSUME NEW es \in Seq(Entry)
  PROVE  \E g \in [0..Len(es) -> Assignment] :
           /\ g[0] = Unassigned /\ g[Len(es)] = FoldLeft(TakeEntry, Unassigned, es)
           /\ \A n \in 1..Len(es) : g[n] = TakeEntry(g[n - 1], es[n])
<1> DEFINE N == Len(es)
           step == [x \in Assignment \X (1..N) |-> TakeEntry(x[1], es[x[2]])]
           Folds(iter) ==
             iter = [s \in SUBSET (1..N) |->
                       IF s = {} THEN Unassigned ELSE TakeEntry(iter[s \ {Max(s)}], es[Max(s)])]
           it == CHOOSE iter : Folds(iter)
<1>1. es \in Seq(Entry) /\ N \in Nat /\ DOMAIN es = 1..N
  OBVIOUS
<1>2. step \in Steps(N, Assignment)
  BY <1>1, UnassignedTyped, TakeEntryTyped DEF Steps
<1>3. \A x \in Assignment, n \in 1..N : step[<<x, n>>] = TakeEntry(x, es[n])
  OBVIOUS
<1>4. FoldLeft(TakeEntry, Unassigned, es) = it[1..N]
  BY <1>1 DEF FoldLeft, MapThenFoldSet
<1> HIDE DEF step, N
<1>5. \A s \in SUBSET (1..N) : s # {} => Max(s) \in 1..N /\ s \ {Max(s)} \in SUBSET (1..N)
  BY <1>1, LastPosition
<1>6. Folds(it)
  <2>1. PICK h : h \in [SUBSET (1..N) -> Assignment] /\ Recurs(h, N, Assignment, Unassigned, step)
    BY <1>1, <1>2, UnassignedTyped, FoldExists
  <2>2. \A s \in SUBSET (1..N) :
          h[s] = IF s = {} THEN Unassigned ELSE TakeEntry(h[s \ {Max(s)}], es[Max(s)])
    BY <1>3, <1>5, <2>1 DEF Recurs
  <2>3. Folds(h)
    BY <2>1, <2>2
  <2> HIDE DEF Folds
  <2> QED
    BY <2>3
<1> HIDE DEF it
<1>7. Recurs(it, N, Assignment, Unassigned, step)
  BY <1>3, <1>5, <1>6 DEF Recurs
<1>8. PICK g : IsRun(g, N, Assignment, Unassigned, step) /\ g[N] = it[1..N]
  BY <1>1, <1>2, <1>7, UnassignedTyped, FoldIs
<1>9. ASSUME NEW n \in 1..N
      PROVE  g[n] = TakeEntry(g[n - 1], es[n])
  <2>1. n - 1 \in 0..N
    BY <1>1
  <2> QED
    BY <1>3, <1>8, <2>1 DEF IsRun
<1> QED
  BY <1>4, <1>8, <1>9 DEF N, IsRun

(* Listings taken in turn, each once and none of them before, are claimed. *)
InTurn(pos, N, start) ==
  /\ pos \in [1..N -> Listings]
  /\ \A m, n \in 1..N : pos[m] = pos[n] => m = n
  /\ \A n \in 1..N : pos[n] \notin start

TakesOne(a, i, b) ==
  \A D \in SUBSET Listings : i \notin D /\ Claims(a, D) => Claims(b, D \cup {i})

LEMMA TakenInTurn ==
  ASSUME NEW N \in Nat, NEW start \in SUBSET Listings, NEW pos, InTurn(pos, N, start),
         NEW g, Claims(g[0], start), \A n \in 1..N : TakesOne(g[n - 1], pos[n], g[n])
  PROVE  Claims(g[N], start \cup {pos[n] : n \in 1..N})
<1> DEFINE D(n) == start \cup {pos[m] : m \in 1..n}
           T == {n \in 0..N : Claims(g[n], D(n))}
<1>1. 0 \in T
  <2>1. D(0) = start /\ 0 \in 0..N
    OBVIOUS
  <2>2. Claims(g[0], D(0))
    BY <2>1
  <2> QED
    BY <2>1, <2>2
<1>2. ASSUME NEW n \in 1..N, n - 1 \in T
      PROVE  n \in T
  <2>1. n - 1 \in 0..N /\ Claims(g[n - 1], D(n - 1))
    BY <1>2
  <2>2. 1..n = (1..(n - 1)) \cup {n} /\ n \notin 1..(n - 1) /\ 1..(n - 1) \subseteq 1..N
    OBVIOUS
  <2>3. D(n) = D(n - 1) \cup {pos[n]}
    BY <2>2
  <2>4. D(n - 1) \in SUBSET Listings /\ pos[n] \notin D(n - 1)
    BY <2>2 DEF InTurn
  <2>5. Claims(g[n], D(n))
    <3> HIDE DEF D
    <3>1. TakesOne(g[n - 1], pos[n], g[n])
      OBVIOUS
    <3> QED
      BY <2>1, <2>3, <2>4, <3>1 DEF TakesOne
  <2> QED
    BY <2>5
<1>3. N \in T
  <2> HIDE DEF T
  <2> QED
    BY <1>1, <1>2, Climbs
<1> QED
  BY <1>3

Before(k) == {i \in Listings : EntryOf(i) < k}
Under(k, kind) == {i \in Listings : text[i].kind = kind /\ EntryOf(i) = k}

LEMMA GivesTheRest ==
  ASSUME IInv
  PROVE  /\ DOMAIN Closed.entries = DOMAIN entries /\ Len(Closed.entries) = Len(entries)
         /\ \A k \in DOMAIN entries : /\ Closed.entries[k] \in Entry
                                      /\ Closed.entries[k].files = entries[k].files
                                      /\ Closed.entries[k].links = entries[k].links
                                      /\ Closed.entries[k].section = entries[k].section
<1>1. /\ entries \in Seq(Entry) /\ Closed.entries = Give(Pending)
      /\ Closed.entries \in Seq(Entry) /\ DOMAIN Closed.entries = DOMAIN entries
  BY ClosedGives DEF IInv, Typed, Closed
<1>2. \A k \in DOMAIN entries : entries[k] \in Entry /\ Closed.entries[k] \in Entry
  BY <1>1
<1>3. ASSUME NEW k \in DOMAIN entries
      PROVE  /\ Give(Pending)[k].files = entries[k].files
             /\ Give(Pending)[k].links = entries[k].links
             /\ Give(Pending)[k].section = entries[k].section
  <2>1. entries[k] \in Entry
    BY <1>2
  <2> QED
    BY <2>1 DEF Give, Entry
<1> QED
  BY <1>1, <1>2, <1>3

LEMMA FilesClaimed ==
  ASSUME IInv, Complete, NEW k \in DOMAIN entries, NEW a \in Assignment, Claims(a, Before(k))
  PROVE  Claims(FilesTaken(a, Closed.entries[k]), Before(k) \cup Under(k, "file"))
<1> DEFINE e == Closed.entries[k]
           N == Len(e.files)
<1>1. e \in Entry /\ e.files = entries[k].files /\ N \in Nat /\ DOMAIN e.files = 1..N
  <2>1. e \in Entry /\ e.files = entries[k].files
    BY GivesTheRest
  <2> QED
    BY <2>1 DEF Entry
<1>2. ListsFiles(k, e.files)
  BY <1>1 DEF Complete
<1> HIDE DEF e, N
<1>3. PICK g \in [0..N -> Assignment] :
        /\ g[0] = a /\ g[N] = FilesTaken(a, e)
        /\ \A n \in 1..N : g[n] = TakeFile(g[n - 1], e, e.files[n])
  BY <1>1, FilesFold DEF N
<1> DEFINE At(n, i) == text[i].kind = "file" /\ EntryOf(i) = k /\ text[i].path = e.files[n]
           pos == [n \in 1..N |-> CHOOSE i \in Listings : At(n, i)]
<1>4. \A n \in 1..N : pos[n] \in Listings /\ At(n, pos[n])
  BY <1>1, <1>2 DEF ListsFiles
<1>5. pos \in [1..N -> Listings]
  BY <1>4
<1> HIDE DEF pos
<1>6. \A m, n \in 1..N : pos[m] = pos[n] => m = n
  BY <1>1, <1>2, <1>4 DEF ListsFiles
<1>7. \A n \in 1..N : pos[n] \notin Before(k)
  BY <1>1, <1>4 DEF Before, IInv, Typed
<1>8. ASSUME NEW n \in 1..N, NEW D \in SUBSET Listings, pos[n] \notin D, Claims(g[n - 1], D)
      PROVE  Claims(g[n], D \cup {pos[n]})
  <2>1. n - 1 \in 0..N
    BY <1>1
  <2>2. /\ pos[n] \in Listings /\ text[pos[n]].kind = "file" /\ EntryAt(pos[n]) = e
        /\ g[n] = TakeFile(g[n - 1], e, text[pos[n]].path) /\ g[n - 1] \in Assignment
    BY <1>3, <1>4, <2>1 DEF EntryAt, e
  <2> QED
    BY <1>8, <2>2, FileAdds
<1>9. Before(k) \in SUBSET Listings
  BY DEF Before
<1>10. {pos[n] : n \in 1..N} = Under(k, "file")
  <2>1. \A n \in 1..N : pos[n] \in Under(k, "file")
    BY <1>4 DEF Under
  <2>2. ASSUME NEW i \in Under(k, "file")
        PROVE  \E n \in 1..N : i = pos[n]
    <3>1. PICK n \in 1..N : e.files[n] = text[i].path
      BY <1>1, <1>2 DEF ListsFiles, Under
    <3>2. i \in Listings /\ text[i].path = text[pos[n]].path
      BY <1>4, <3>1 DEF Under
    <3> QED
      BY <1>4, <3>2 DEF IInv, Listed, Listings
  <2> QED
    BY <2>1, <2>2
<1>11. Claims(g[N], Before(k) \cup {pos[n] : n \in 1..N})
  <2>1. InTurn(pos, N, Before(k)) /\ Claims(g[0], Before(k))
    BY <1>3, <1>5, <1>6, <1>7 DEF InTurn
  <2>2. \A n \in 1..N : TakesOne(g[n - 1], pos[n], g[n])
    BY <1>8 DEF TakesOne
  <2> QED
    BY <1>1, <1>9, <2>1, <2>2, TakenInTurn
<1> QED
  BY <1>3, <1>10, <1>11 DEF e

LEMMA LinksClaimed ==
  ASSUME IInv, Complete, NEW k \in DOMAIN entries, NEW a \in Assignment,
         Claims(a, Before(k) \cup Under(k, "file"))
  PROVE  Claims(LinksTaken(a, Closed.entries[k]), Before(k) \cup Under(k, "file") \cup Under(k, "link"))
<1> DEFINE e == Closed.entries[k]
           N == Len(e.links)
           start == Before(k) \cup Under(k, "file")
<1>1. e \in Entry /\ e.links = entries[k].links /\ N \in Nat /\ DOMAIN e.links = 1..N
  <2>1. e \in Entry /\ e.links = entries[k].links
    BY GivesTheRest
  <2> QED
    BY <2>1 DEF Entry
<1>2. ListsLinks(k, e.links)
  BY <1>1 DEF Complete
<1> HIDE DEF e, N
<1>3. PICK g \in [0..N -> Assignment] :
        /\ g[0] = a /\ g[N] = LinksTaken(a, e)
        /\ \A n \in 1..N : g[n] = TakeLink(g[n - 1], e, e.links[n])
  BY <1>1, LinksFold DEF N
<1> DEFINE At(n, i) == text[i].kind = "link" /\ EntryOf(i) = k /\ Link(i) = e.links[n]
           pos == [n \in 1..N |-> CHOOSE i \in Listings : At(n, i)]
<1>4. \A n \in 1..N : pos[n] \in Listings /\ At(n, pos[n])
  BY <1>1, <1>2 DEF ListsLinks
<1>5. pos \in [1..N -> Listings]
  BY <1>4
<1> HIDE DEF pos
<1>6. \A m, n \in 1..N : pos[m] = pos[n] => m = n
  <2>1. \A m, n \in 1..N : pos[m] = pos[n] => e.links[m] = e.links[n]
    BY <1>4
  <2>2. \A m, n \in 1..N : e.links[m].path = e.links[n].path => m = n
    BY <1>1, <1>2 DEF ListsLinks
  <2> QED
    BY <2>1, <2>2
<1>7. start \in SUBSET Listings /\ \A n \in 1..N : pos[n] \notin start
  BY <1>1, <1>4 DEF Before, Under, IInv, Typed
<1>8. ASSUME NEW n \in 1..N, NEW D \in SUBSET Listings, pos[n] \notin D, Claims(g[n - 1], D)
      PROVE  Claims(g[n], D \cup {pos[n]})
  <2>1. n - 1 \in 0..N
    BY <1>1
  <2>2. /\ pos[n] \in Listings /\ text[pos[n]].kind = "link" /\ EntryAt(pos[n]) = e
        /\ g[n] = TakeLink(g[n - 1], e, Link(pos[n])) /\ g[n - 1] \in Assignment
    BY <1>3, <1>4, <2>1 DEF EntryAt, e
  <2> QED
    BY <1>8, <2>2, LinkAdds
<1>10. {pos[n] : n \in 1..N} = Under(k, "link")
  <2>1. \A n \in 1..N : pos[n] \in Under(k, "link")
    BY <1>4 DEF Under
  <2>2. ASSUME NEW i \in Under(k, "link")
        PROVE  \E n \in 1..N : i = pos[n]
    <3>1. PICK n \in 1..N : e.links[n] = Link(i)
      BY <1>1, <1>2 DEF ListsLinks, Under
    <3>2. i \in Listings /\ text[i].path = text[pos[n]].path
      <4>1. Link(i) = Link(pos[n])
        BY <1>4, <3>1
      <4>2. \A j : Link(j).path = text[j].path
        BY DEF Link
      <4>3. text[i].path = Link(i).path /\ text[pos[n]].path = Link(pos[n]).path
        BY <4>2
      <4> QED
        BY <4>1, <4>3 DEF Under
    <3> QED
      BY <1>4, <3>2 DEF IInv, Listed, Listings
  <2> QED
    BY <2>1, <2>2
<1> HIDE DEF start
<1>11. Claims(g[N], start \cup {pos[n] : n \in 1..N})
  <2>1. InTurn(pos, N, start) /\ Claims(g[0], start)
    BY <1>3, <1>5, <1>6, <1>7 DEF InTurn, start
  <2>2. \A n \in 1..N : TakesOne(g[n - 1], pos[n], g[n])
    BY <1>8 DEF TakesOne
  <2> QED
    BY <1>1, <1>7, <2>1, <2>2, TakenInTurn
<1> QED
  BY <1>3, <1>10, <1>11 DEF e, start

LEMMA AssignedClaims ==
  ASSUME IInv, Complete
  PROVE  Assigned \in Assignment /\ Claims(Assigned, Listings)
<1> DEFINE es == Closed.entries
           N == Len(es)
<1>1. es \in Seq(Entry) /\ N \in Nat /\ DOMAIN entries = 1..N
  BY ClosedGives
<1>2. \A i \in Listings : EntryOf(i) \in 1..N /\ text[i].kind \in {"file", "link"}
  BY <1>1 DEF IInv, Listed, Listings, Lists
<1> HIDE DEF es, N
<1>3. PICK g \in [0..N -> Assignment] :
        /\ g[0] = Unassigned /\ g[N] = FoldLeft(TakeEntry, Unassigned, es)
        /\ \A n \in 1..N : g[n] = TakeEntry(g[n - 1], es[n])
  BY <1>1, EntriesFold DEF N
<1> DEFINE T == {n \in 0..N : Claims(g[n], Before(n + 1))}
<1>4. 0 \in T
  <2>1. 0 \in 0..N /\ Before(0 + 1) = {}
    BY <1>1, <1>2 DEF Before
  <2>2. \A f : OwnedBy(Unassigned, f, {}) = {}
    BY DEF OwnedBy
  <2>3. Claims(Unassigned, {})
    BY <2>2 DEF Claims, Unassigned
  <2>4. Claims(g[0], Before(0 + 1))
    BY <1>3, <2>1, <2>3
  <2> QED
    BY <2>1, <2>4
<1>5. ASSUME NEW n \in 1..N, n - 1 \in T
      PROVE  n \in T
  <2>1. n - 1 \in 0..N /\ n \in 0..N /\ (n - 1) + 1 = n /\ n \in DOMAIN entries
    BY <1>1
  <2>2. Claims(g[n - 1], Before(n)) /\ g[n - 1] \in Assignment
    BY <1>3, <1>5, <2>1
  <2> DEFINE b == FilesTaken(g[n - 1], es[n])
  <2>3. es[n] \in Entry
    BY <1>1
  <2>4. b \in Assignment /\ g[n] = LinksTaken(b, es[n])
    BY <1>3, <2>2, <2>3, TakeEntryTyped
  <2>5. Claims(b, Before(n) \cup Under(n, "file"))
    BY <2>1, <2>2, FilesClaimed DEF es
  <2> HIDE DEF b
  <2>6. Claims(LinksTaken(b, es[n]), Before(n) \cup Under(n, "file") \cup Under(n, "link"))
    BY <2>1, <2>4, <2>5, LinksClaimed DEF es
  <2>7. Before(n) \cup Under(n, "file") \cup Under(n, "link") = Before(n + 1)
    BY <1>1, <1>2 DEF Before, Under
  <2>8. Claims(g[n], Before(n + 1))
    BY <2>4, <2>6, <2>7
  <2> QED
    BY <2>1, <2>8
<1>6. N \in T
  <2> HIDE DEF T
  <2>1. \A n \in 0..N : n \in T
    BY <1>1, <1>4, <1>5, Climbs
  <2>2. N \in 0..N
    BY <1>1
  <2> QED
    BY <2>1, <2>2
<1>7. Before(N + 1) = Listings
  BY <1>1, <1>2 DEF Before
<1>8. Claims(g[N], Listings) /\ g[N] \in Assignment
  BY <1>1, <1>6, <1>7
<1>9. Assigned = g[N]
  BY <1>3 DEF Assigned, es
<1> QED
  BY <1>8, <1>9
-----------------------------------------------------------------------------
LEMMA LinksAreListed ==
  ASSUME IInv, Complete, NEW i \in Listings, text[i].kind = "link"
  PROVE  Link(i) \in Links
<1>1. EntryOf(i) \in DOMAIN entries
  BY DEF IInv, Listed
<1>2. PICK n \in DOMAIN entries[EntryOf(i)].links : entries[EntryOf(i)].links[n] = Link(i)
  BY <1>1 DEF Complete, ListsLinks
<1> QED
  BY <1>1, <1>2 DEF Links

(* In an accounted release the listings of a package are what it was       *)
(* given, and its licences theirs.                                         *)
LEMMA Ships ==
  ASSUME IInv, Complete, Accounted(Assigned), NEW f \in Families
  PROVE  /\ \A i \in Listings : Assigned.owner[text[i].path] # {}
         /\ \A i, j \in Listings : text[i].kind = "link" /\ text[j].path = text[i].target
              => Assigned.owner[text[i].path] = Assigned.owner[text[j].path]
         /\ OwnedBy(Assigned, f, Listings) = ShippedBy(f)
         /\ Assigned.items[f] = UNION {LicenceOf(i) : i \in ShippedBy(f)}
         /\ Assigned.sections[f] = {EntryAt(i).section : i \in ShippedBy(f)}
<1>1. Claims(Assigned, Listings) /\ Assigned.unclaimed = {} /\ NoCrossing(Assigned)
  BY AssignedClaims DEF Accounted
<1> DEFINE a == Assigned
<1> HIDE DEF a
<1>2. \A i \in Listings : a.owner[text[i].path] # {}
  BY <1>1 DEF Claims, a
<1>3. ASSUME NEW i \in Listings, NEW j \in Listings, text[i].kind = "link", text[j].path = text[i].target
      PROVE  a.owner[text[i].path] = a.owner[text[j].path]
  <2>1. Link(i) \in Links /\ Link(i).path = text[i].path /\ Link(i).target = text[j].path
    BY <1>3, LinksAreListed DEF Link
  <2> QED
    BY <1>1, <1>2, <2>1 DEF NoCrossing, a
<1>4. OwnedBy(a, f, Listings) = ShippedBy(f)
  BY DEF OwnedBy, ShippedBy, a
<1>5. a.items[f] = UNION {Carried(i) : i \in ShippedBy(f)}
  BY <1>1, <1>4 DEF Claims, a
<1>6. a.sections[f] = {EntryAt(i).section : i \in ShippedBy(f)}
  BY <1>1, <1>4 DEF Claims, a
<1>7. ASSUME NEW i \in ShippedBy(f)
      PROVE  LicenceOf(i) \subseteq Carried(i) /\ \A x \in Carried(i) : \E j \in ShippedBy(f) : x \in LicenceOf(j)
  <2>1. i \in Listings /\ a.owner[text[i].path] = {f}
    BY DEF ShippedBy, a
  <2>2. CASE text[i].kind = "file" \/ LicenceOf(i) # {}
    BY <2>2 DEF Carried
  <2>3. CASE text[i].kind = "link" /\ LicenceOf(i) = {}
    <3>1. Carried(i) = EntryAt(i).items[text[i].target]
      BY <2>3 DEF Carried
    <3>2. EntryOf(i) \in DOMAIN entries /\ text[i].target \in Path
      BY <2>1, <2>3 DEF IInv, Typed, Listed, Listings, Line
    <3>3. CASE <<EntryOf(i), text[i].target>> \in Places
      <4>1. PICK j \in Listings : EntryOf(j) = EntryOf(i) /\ text[j].path = text[i].target
        BY <3>3 DEF Places, Place
      <4>2. Carried(i) = LicenceOf(j)
        BY <3>1, <4>1, ClosedGives DEF EntryAt
      <4>3. j \in ShippedBy(f)
        BY <1>3, <2>1, <2>3, <4>1 DEF ShippedBy, a
      <4> QED
        BY <2>3, <4>2, <4>3
    <3>4. CASE <<EntryOf(i), text[i].target>> \notin Places
      <4>1. Carried(i) = {}
        BY <3>1, <3>2, <3>4, ClosedGives DEF EntryAt
      <4> QED
        BY <2>3, <4>1
    <3> QED
      BY <3>3, <3>4
  <2> QED
    BY <2>1, <2>2, <2>3 DEF Listings, Lists
<1>8. a.items[f] = UNION {LicenceOf(i) : i \in ShippedBy(f)}
  BY <1>5, <1>7
<1> QED
  BY <1>2, <1>3, <1>4, <1>6, <1>8 DEF a

LEMMA AccountedDeclares ==
  ASSUME IInv, Complete, Accounted(Assigned)
  PROVE  Declares
<1>1. Packages \subseteq Families /\ Ignore \in Families
  BY FamilyAssumption DEF Packages, Families, Last
<1>2. \A i \in Listings : Assigned.owner[text[i].path] # {}
  BY <1>1, Ships
<1>3. ASSUME NEW f \in Packages
      PROVE  LET stated == UNION {LicenceOf(i) : i \in ShippedBy(f)}
             IN /\ Texts(stated) = Texts(Assigned.items[f])
                /\ Texts(stated) \subseteq Upstream
                /\ declared[f] = Terms(stated)
                /\ \A i \in ShippedBy(f) : text[i].kind = "file" => LicenceOf(i) # {}
  <2>1. Assigned.items[f] = UNION {LicenceOf(i) : i \in ShippedBy(f)}
    BY <1>1, Ships
  <2>2. Licensed(Assigned, f)
    BY DEF Accounted
  <2>3. ASSUME NEW i \in ShippedBy(f), text[i].kind = "file", LicenceOf(i) = {}
        PROVE  FALSE
    <3>1. i \in Listings /\ Assigned.owner[text[i].path] = {f}
      BY DEF ShippedBy
    <3>2. text[i].path \in Assigned.bare
      BY <2>3, <3>1, AssignedClaims DEF Claims, Accounted
    <3>3. {f} = {Ignore}
      BY <3>1, <3>2 DEF Accounted
    <3> QED
      BY <3>3 DEF Packages
  <2> QED
    BY <2>1, <2>2, <2>3 DEF Licensed
<1>4. \A i, j \in Listings : text[i].kind = "link" /\ text[j].path = text[i].target
        => Assigned.owner[text[i].path] = Assigned.owner[text[j].path]
  BY <1>1, Ships
<1> QED
  BY <1>2, <1>3, <1>4 DEF Declares

(* The driver a listing stands under has its section.                      *)
LEMMA UnderItsDriver ==
  ASSUME IInv, Complete, NEW i \in Listings
  PROVE  EntryAt(i).section = Section(CHOOSE d \in 1..i : text[d].kind = "driver" /\ "driver" \notin Between(d + 1, i))
<1> DEFINE Heads(d) == text[d].kind = "driver" /\ "driver" \notin Between(d + 1, i)
<1>1. /\ i \in 1..Len(text) /\ Len(text) \in Nat /\ DOMAIN text = 1..Len(text)
      /\ Counts(i) /\ EntryOf(i) \in DOMAIN entries
  BY DEF IInv, Typed, Listed, Listings
<1>2. \E d \in 1..i : Heads(d)
  <2>1. Drivers(i) \in SUBSET (1..i) /\ Drivers(i) # {} /\ i \in Nat
    BY <1>1 DEF Drivers, Counts
  <2>2. Max(Drivers(i)) \in Drivers(i) /\ \A d \in Drivers(i) : d <= Max(Drivers(i))
    BY <2>1, LastPosition
  <2>3. PICK m \in Drivers(i) : \A d \in Drivers(i) : d <= m
    BY <2>2
  <2>4. m \in 1..i /\ text[m].kind = "driver"
    BY DEF Drivers
  <2>5. \A d \in (m + 1)..i : text[d].kind # "driver"
    BY <1>1, <2>3, <2>4 DEF Drivers
  <2> QED
    BY <2>4, <2>5 DEF Between
<1>3. ASSUME NEW d \in 1..i, Heads(d)
      PROVE  EntryAt(i).section = Section(d)
  <2>1. Drivers(i) = Drivers(d)
    BY <1>1, <1>3 DEF Drivers, Between
  <2>2. EntryOf(d) = EntryOf(i)
    BY <2>1 DEF EntryOf
  <2>3. d \in DOMAIN text /\ text[d].kind = "driver"
    BY <1>1, <1>3
  <2>4. entries[EntryOf(i)].section = Section(d)
    BY <2>2, <2>3 DEF Complete
  <2> QED
    BY <1>1, <2>4, GivesTheRest DEF EntryAt
<1> QED
  BY <1>2, <1>3

LEMMA SortedHolds ==
  ASSUME IInv, Complete, Accounted(Assigned), NEW f \in Packages,
         shelf[f] = Shelf(Assigned, f), Broken(Shelf(Assigned, f).paths) = {}
  PROVE  Holds(f)
<1> DEFINE shipped == ShippedBy(f)
           paths == {text[i].path : i \in shipped}
           HeadOf(i) == CHOOSE d \in 1..i : text[d].kind = "driver" /\ "driver" \notin Between(d + 1, i)
<1>1. f \in Families
  BY DEF Packages
<1>2. \A i \in Listings : text[i].path \in Path
  BY PlacesAreEntries DEF IInv
<1>3. {p \in Path : Assigned.owner[p] = {f}} = paths
  <2>1. \A p \in Path : p \notin {text[i].path : i \in Listings} => Assigned.owner[p] = {}
    BY AssignedClaims DEF Claims
  <2> QED
    BY <1>2, <2>1 DEF ShippedBy
<1>4. Assigned.items[f] = UNION {LicenceOf(i) : i \in shipped}
  BY <1>1, Ships
<1>5. Assigned.sections[f] = {Section(HeadOf(i)) : i \in shipped}
  <2>1. \A i \in shipped : EntryAt(i).section = Section(HeadOf(i))
    BY UnderItsDriver DEF ShippedBy
  <2>2. Assigned.sections[f] = {EntryAt(i).section : i \in shipped}
    BY <1>1, Ships
  <2> HIDE DEF HeadOf, shipped
  <2> QED
    BY <2>1, <2>2
<1>6. shelf[f] = [paths |-> paths, texts |-> Texts(UNION {LicenceOf(i) : i \in shipped}),
                  excerpt |-> {Section(HeadOf(i)) : i \in shipped}]
  <2> HIDE DEF paths, shipped, HeadOf
  <2> QED
    BY <1>3, <1>4, <1>5 DEF Shelf
<1>7. Broken(paths) = {}
  BY <1>3 DEF Shelf
<1>8. ASSUME NEW i \in shipped, text[i].kind = "link"
      PROVE  \E j \in shipped : i # j /\ text[i].target = text[j].path
  <2>1. i \in Listings /\ Link(i) \in {l \in Links : l.path \in paths}
    BY <1>8, LinksAreListed DEF ShippedBy, Link
  <2>2. {Link(i)} \notin {L \in SUBSET {l \in Links : l.path \in paths} :
                            \A l \in L : l.target \in paths => \E m \in L : m.path = l.target}
    BY <1>7 DEF Broken
  <2>3. Link(i).target \in paths /\ Link(i).path # Link(i).target
    BY <2>1, <2>2
  <2>4. Link(i).path = text[i].path /\ Link(i).target = text[i].target
    BY DEF Link
  <2> QED
    BY <2>3, <2>4
<1> QED
  BY <1>6, <1>8 DEF Holds
-----------------------------------------------------------------------------
(* A line read leaves what was listed as it was.                           *)
LEMMA ReadKeeps ==
  ASSUME Typed, NEW line \in Line, text' = Append(text, line), NEW new, new = Len(text) + 1
  PROVE  /\ Listings' = Listings \cup {k \in {new} : Lists(line) /\ Counts(new)'}
         /\ Listings \subseteq 1..Len(text) /\ new \notin Listings /\ Len(text) \in Nat
         /\ DOMAIN text' = (1..Len(text)) \cup {new} /\ text'[new] = line
         /\ \A i \in 1..Len(text) : /\ text'[i] = text[i] /\ EntryOf(i)' = EntryOf(i)
                                    /\ Section(i)' = Section(i) /\ Link(i)' = Link(i)
         /\ line.kind # "rule" => Section(new)' = Section(Len(text))
<1>1. /\ Len(text) \in Nat /\ DOMAIN text = 1..Len(text) /\ DOMAIN text' = 1..new
      /\ text'[new] = line /\ \A i \in 1..Len(text) : text'[i] = text[i]
  BY Appended
<1>2. 1..new = (1..Len(text)) \cup {new} /\ new \notin 1..Len(text)
  BY <1>1
<1>3. /\ Listings' \subseteq 1..new /\ Listings \subseteq 1..Len(text)
      /\ \A i \in 1..Len(text) : (i \in Listings' <=> i \in Listings) /\ EntryOf(i)' = EntryOf(i)
  BY Kept
<1>4. new \in Listings' <=> Lists(line) /\ Counts(new)'
  BY <1>1, <1>2 DEF Listings, Lists
<1>5. ASSUME NEW i \in 1..Len(text)
      PROVE  Section(i)' = Section(i) /\ Link(i)' = Link(i)
  <2>1. \A k \in 1..i : text'[k] = text[k]
    BY <1>1
  <2>2. {k \in 1..i : text'[k].kind = "rule"} = {k \in 1..i : text[k].kind = "rule"}
    BY <2>1
  <2> QED
    BY <1>1, <2>2 DEF Section, Link
<1>6. ASSUME line.kind # "rule"
      PROVE  Section(new)' = Section(Len(text))
  <2>1. {k \in 1..new : text'[k].kind = "rule"} = {k \in 1..Len(text) : text[k].kind = "rule"}
    BY <1>1, <1>2, <1>6
  <2> QED
    BY <2>1 DEF Section
<1>7. Listings' = Listings \cup {k \in {new} : Lists(line) /\ Counts(new)'}
  BY <1>2, <1>3, <1>4
<1> QED
  BY <1>1, <1>2, <1>3, <1>5, <1>6, <1>7

SameListings ==
  /\ Listings' = Listings
  /\ \A i \in Listings : text'[i] = text[i] /\ EntryOf(i)' = EntryOf(i) /\ Link(i)' = Link(i)

LEMMA SameLists ==
  ASSUME SameListings, NEW k, NEW files, NEW links
  PROVE  /\ ListsFiles(k, files) => ListsFiles(k, files)'
         /\ ListsLinks(k, links) => ListsLinks(k, links)'
BY DEF SameListings, ListsFiles, ListsLinks

(* Where nothing new is listed and no driver stands.                       *)
LEMMA CompleteKept ==
  ASSUME Complete, SameListings, DOMAIN entries' = DOMAIN entries,
         \A k \in DOMAIN entries : /\ entries'[k].files = entries[k].files
                                   /\ entries'[k].links = entries[k].links
                                   /\ entries'[k].section = entries[k].section,
         \A d \in DOMAIN text' : text'[d].kind = "driver" =>
           /\ d \in DOMAIN text /\ text[d].kind = "driver"
           /\ EntryOf(d)' = EntryOf(d) /\ Section(d)' = Section(d)
  PROVE  Complete'
<1>1. ASSUME NEW k \in DOMAIN entries'
      PROVE  ListsFiles(k, entries[k].files)' /\ ListsLinks(k, entries[k].links)'
  <2>1. PICK files, links : files = entries[k].files /\ links = entries[k].links
    OBVIOUS
  <2>2. ListsFiles(k, files) /\ ListsLinks(k, links)
    BY <2>1 DEF Complete
  <2>3. ListsFiles(k, files)' /\ ListsLinks(k, links)'
    BY <2>2, SameLists
  <2>4. files = entries'[k].files /\ links = entries'[k].links
    BY <2>1
  <2> QED
    BY <2>3, <2>4 DEF ListsFiles, ListsLinks
<1>2. \A d \in DOMAIN text' : text'[d].kind = "driver" =>
        EntryOf(d)' \in DOMAIN entries' /\ entries'[EntryOf(d)'].section = Section(d)'
  BY DEF Complete
<1> QED
  BY <1>1, <1>2 DEF Complete

LEMMA CompleteSame ==
  ASSUME IInv, Complete, NEW line \in Line, text' = Append(text, line),
         line.kind \in {"rule", "cites", "worded"}, entries' = entries \/ entries' = Closed.entries
  PROVE  Complete'
<1>1. PICK new : new = Len(text) + 1
  OBVIOUS
<1>2. SameListings
  BY <1>1, ReadKeeps DEF SameListings, IInv, Lists
<1>3. /\ DOMAIN entries' = DOMAIN entries
      /\ \A k \in DOMAIN entries : /\ entries'[k].files = entries[k].files
                                   /\ entries'[k].links = entries[k].links
                                   /\ entries'[k].section = entries[k].section
  BY GivesTheRest
<1>4. DOMAIN text = 1..Len(text)
  BY DEF IInv, Typed
<1>5. \A d \in DOMAIN text' : text'[d].kind = "driver" =>
        /\ d \in DOMAIN text /\ text[d].kind = "driver"
        /\ EntryOf(d)' = EntryOf(d) /\ Section(d)' = Section(d)
  BY <1>1, <1>4, ReadKeeps DEF IInv
<1> QED
  BY <1>2, <1>3, <1>5, CompleteKept

LEMMA CompletePreamble ==
  ASSUME IInv, Preamble
  PROVE  Complete'
<1>1. PICK line \in Line : text = <<>> /\ line.kind # "driver" /\ text' = Append(text, line) /\ entries' = entries
  BY LinesAssumption DEF Preamble, Read, parser
<1>2. Len(text) = 0 /\ DOMAIN text' = {1} /\ text'[1] = line
  BY <1>1
<1>3. Listings = {} /\ Drivers(0) = {}
  BY <1>1, <1>2 DEF Listings, Drivers
<1>4. EntryOf(Len(text)) = 0
  BY <1>2, <1>3, FS_EmptySet DEF EntryOf
<1>5. DOMAIN entries' = {}
  BY <1>1, <1>4 DEF IInv, Typed, Listed
<1> QED
  BY <1>1, <1>2, <1>5 DEF Complete

LEMMA CompleteDriver ==
  ASSUME IInv, Complete, NEW d \in Driver, DriverLine(d)
  PROVE  Complete'
<1> DEFINE line == [kind |-> "driver", driver |-> d]
           blank == [driver |-> d, files |-> <<>>, links |-> <<>>,
                     section |-> Section(Len(text)), items |-> [p \in Path |-> {}]]
           e == Len(entries) + 1
<1>1. line \in Line /\ line.kind = "driver" /\ text' = Append(text, line) /\ entries' = Append(entries, blank)
  BY DEF DriverLine, Read, Line
<1>2. blank.files = <<>> /\ blank.links = <<>> /\ blank.section = Section(Len(text))
  OBVIOUS
<1> HIDE DEF line, blank
<1>3. PICK new : new = Len(text) + 1
  OBVIOUS
<1>4. SameListings
  BY <1>1, <1>3, ReadKeeps DEF SameListings, IInv, Lists
<1>5. /\ entries \in Seq(Entry) /\ DOMAIN entries = 1..Len(entries) /\ Len(entries) = EntryOf(Len(text))
      /\ Len(entries) \in Nat
      /\ \A i \in Listings : EntryOf(i) \in DOMAIN entries
  BY DEF IInv, Typed, Listed
<1>6. /\ DOMAIN entries' = DOMAIN entries \cup {e} /\ entries'[e] = blank
      /\ \A k \in DOMAIN entries : entries'[k] = entries[k] /\ k # e
  BY <1>1, <1>5
<1>7. EntryOf(new)' = e
  BY <1>1, <1>3, <1>5, Numbered DEF IInv
<1>8. ASSUME NEW k \in DOMAIN entries'
      PROVE  ListsFiles(k, entries[k].files)' /\ ListsLinks(k, entries[k].links)'
  <2>1. PICK files, links : files = entries'[k].files /\ links = entries'[k].links
    OBVIOUS
  <2>2. CASE k \in DOMAIN entries
    <3>1. ListsFiles(k, files) /\ ListsLinks(k, links)
      BY <1>6, <2>1, <2>2 DEF Complete
    <3>2. ListsFiles(k, files)' /\ ListsLinks(k, links)'
      BY <1>4, <3>1, SameLists
    <3> QED
      BY <2>1, <3>2 DEF ListsFiles, ListsLinks
  <2>3. CASE k = e
    <3>1. files = <<>> /\ links = <<>>
      BY <1>2, <1>6, <2>1, <2>3
    <3>2. \A i \in Listings : EntryOf(i) # k
      BY <1>5, <1>6, <2>3
    <3>3. ListsFiles(k, files) /\ ListsLinks(k, links)
      BY <3>1, <3>2 DEF ListsFiles, ListsLinks
    <3>4. ListsFiles(k, files)' /\ ListsLinks(k, links)'
      BY <1>4, <3>3, SameLists
    <3> QED
      BY <2>1, <3>4 DEF ListsFiles, ListsLinks
  <2> QED
    BY <1>6, <2>2, <2>3
<1>9. ASSUME NEW h \in DOMAIN text', text'[h].kind = "driver"
      PROVE  EntryOf(h)' \in DOMAIN entries' /\ entries'[EntryOf(h)'].section = Section(h)'
  <2>1. CASE h = new
    <3>1. Section(new)' = Section(Len(text))
      BY <1>1, <1>3, ReadKeeps DEF IInv
    <3> QED
      BY <1>2, <1>6, <1>7, <2>1, <3>1
  <2>2. CASE h \in 1..Len(text)
    <3>1. text[h] = text'[h] /\ EntryOf(h)' = EntryOf(h) /\ Section(h)' = Section(h)
      BY <1>1, <1>3, <2>2, ReadKeeps DEF IInv
    <3>2. EntryOf(h) \in DOMAIN entries /\ entries[EntryOf(h)].section = Section(h)
      BY <1>9, <2>2, <3>1 DEF Complete, IInv, Typed
    <3> QED
      BY <1>6, <3>1, <3>2
  <2> QED
    BY <1>1, <1>3, <2>1, <2>2, ReadKeeps DEF IInv
<1> QED
  BY <1>8, <1>9 DEF Complete

OneListing(new) ==
  /\ Listings' = Listings \cup {new} /\ new \notin Listings
  /\ \A i \in Listings : text'[i] = text[i] /\ EntryOf(i)' = EntryOf(i) /\ Link(i)' = Link(i)

LEMMA OthersSame ==
  ASSUME NEW new, OneListing(new), NEW k, NEW files, NEW links
  PROVE  /\ ListsFiles(k, files) /\ (text'[new].kind # "file" \/ EntryOf(new)' # k) => ListsFiles(k, files)'
         /\ ListsLinks(k, links) /\ (text'[new].kind # "link" \/ EntryOf(new)' # k) => ListsLinks(k, links)'
<1>1. ASSUME ListsFiles(k, files), text'[new].kind # "file" \/ EntryOf(new)' # k
      PROVE  ListsFiles(k, files)'
  BY <1>1 DEF OneListing, ListsFiles
<1>2. ASSUME ListsLinks(k, links), text'[new].kind # "link" \/ EntryOf(new)' # k
      PROVE  ListsLinks(k, links)'
  BY <1>2 DEF OneListing, ListsLinks
<1> QED
  BY <1>1, <1>2

LEMMA OneMoreFile ==
  ASSUME NEW new, OneListing(new), NEW k, NEW files \in Seq(Path), NEW p \in Path, ListsFiles(k, files),
         text'[new].kind = "file", EntryOf(new)' = k, text'[new].path = p,
         \A i \in Listings : text[i].path # p
  PROVE  ListsFiles(k, Append(files, p))'
<1> DEFINE N == Len(files)
           more == Append(files, p)
<1>1. /\ N \in Nat /\ DOMAIN files = 1..N /\ DOMAIN more = (1..N) \cup {N + 1}
      /\ more[N + 1] = p /\ \A n \in 1..N : more[n] = files[n]
  OBVIOUS
<1> HIDE DEF N, more
<1>2. \A i \in Listings' : text'[i].kind = "file" /\ EntryOf(i)' = k
                             => \E n \in DOMAIN more : more[n] = text'[i].path
  <2>1. \A i \in Listings : text[i].kind = "file" /\ EntryOf(i) = k
                              => \E n \in 1..N : files[n] = text[i].path
    BY <1>1 DEF ListsFiles
  <2>2. more[N + 1] = text'[new].path /\ N + 1 \in DOMAIN more
    BY <1>1
  <2>3. \A i \in Listings : text'[i] = text[i] /\ EntryOf(i)' = EntryOf(i)
    BY DEF OneListing
  <2>4. \A i \in Listings : text'[i].kind = "file" /\ EntryOf(i)' = k
                              => \E n \in DOMAIN more : more[n] = text'[i].path
    BY <1>1, <2>1, <2>3
  <2> QED
    BY <2>2, <2>4 DEF OneListing
<1>3. \A n \in 1..N : \E i \in Listings : /\ text[i].kind = "file" /\ EntryOf(i) = k
                                          /\ text[i].path = files[n]
  BY <1>1 DEF ListsFiles
<1>4. \A n \in DOMAIN more : \E i \in Listings' : /\ text'[i].kind = "file" /\ EntryOf(i)' = k
                                                  /\ text'[i].path = more[n]
  BY <1>1, <1>3 DEF OneListing
<1>5. \A m, n \in DOMAIN more : more[m] = more[n] => m = n
  <2>1. \A n \in 1..N : files[n] # p
    BY <1>3
  <2>2. \A m, n \in 1..N : files[m] = files[n] => m = n
    BY <1>1 DEF ListsFiles
  <2> QED
    BY <1>1, <2>1, <2>2
<1>6. ListsFiles(k, more)'
  <2>1. more' = more
    BY DEF more
  <2> QED
    BY <1>2, <1>4, <1>5, <2>1 DEF ListsFiles
<1> QED
  BY <1>6 DEF more

LEMMA OneMoreLink ==
  ASSUME NEW new, OneListing(new), NEW k, NEW links \in Seq(LinkRecords), NEW l \in LinkRecords,
         ListsLinks(k, links),
         text'[new].kind = "link", EntryOf(new)' = k, Link(new)' = l,
         \A i \in Listings : Link(i).path # l.path
  PROVE  ListsLinks(k, Append(links, l))'
<1> DEFINE N == Len(links)
           more == Append(links, l)
<1>1. /\ N \in Nat /\ DOMAIN links = 1..N /\ DOMAIN more = (1..N) \cup {N + 1}
      /\ more[N + 1] = l /\ \A n \in 1..N : more[n] = links[n]
  OBVIOUS
<1> HIDE DEF N, more
<1>2. \A i \in Listings' : text'[i].kind = "link" /\ EntryOf(i)' = k
                             => \E n \in DOMAIN more : more[n] = Link(i)'
  <2>1. \A i \in Listings : text[i].kind = "link" /\ EntryOf(i) = k
                              => \E n \in 1..N : links[n] = Link(i)
    BY <1>1 DEF ListsLinks
  <2>2. more[N + 1] = Link(new)' /\ N + 1 \in DOMAIN more
    BY <1>1
  <2>3. \A i \in Listings : text'[i] = text[i] /\ EntryOf(i)' = EntryOf(i) /\ Link(i)' = Link(i)
    BY DEF OneListing
  <2>4. \A i \in Listings : text'[i].kind = "link" /\ EntryOf(i)' = k
                              => \E n \in DOMAIN more : more[n] = Link(i)'
    BY <1>1, <2>1, <2>3
  <2> QED
    BY <2>2, <2>4 DEF OneListing
<1>3. \A n \in 1..N : \E i \in Listings : /\ text[i].kind = "link" /\ EntryOf(i) = k
                                          /\ Link(i) = links[n]
  BY <1>1 DEF ListsLinks
<1>4. \A n \in DOMAIN more : \E i \in Listings' : /\ text'[i].kind = "link" /\ EntryOf(i)' = k
                                                  /\ Link(i)' = more[n]
  BY <1>1, <1>3 DEF OneListing
<1>5. \A m, n \in DOMAIN more : more[m].path = more[n].path => m = n
  <2>1. \A n \in 1..N : links[n].path # l.path
    BY <1>3
  <2>2. \A m, n \in 1..N : links[m].path = links[n].path => m = n
    BY <1>1 DEF ListsLinks
  <2> QED
    BY <1>1, <2>1, <2>2
<1>6. ListsLinks(k, more)'
  <2>1. more' = more
    BY DEF more
  <2> QED
    BY <1>2, <1>4, <1>5, <2>1 DEF ListsLinks
<1> QED
  BY <1>6 DEF more

(* The entry a path joins: its own field grows, the rest stays.            *)
LEMMA JoinsEntry ==
  ASSUME IInv, NEW p \in Path, NEW field \in {"files", "links"}, NEW what,
         field = "files" => what \in Path, field = "links" => what \in LinkRecords,
         ListPath(p, field, what), NEW e, e = Len(entries)
  PROVE  /\ DOMAIN entries' = DOMAIN entries /\ e \in DOMAIN entries
         /\ \A k \in DOMAIN entries :
              /\ entries'[k].files = IF k = e /\ field = "files" THEN Append(entries[k].files, what)
                                                                 ELSE entries[k].files
              /\ entries'[k].links = IF k = e /\ field = "links" THEN Append(entries[k].links, what)
                                                                 ELSE entries[k].links
              /\ entries'[k].section = entries[k].section
<1> DEFINE old == Closed.entries
<1>1. /\ entries # <<>> /\ entries' = [old EXCEPT ![e][field] = Append(@, what)]
  BY DEF ListPath
<1>2. /\ DOMAIN old = DOMAIN entries
      /\ \A k \in DOMAIN entries : /\ old[k] \in Entry
                                   /\ old[k].files = entries[k].files /\ old[k].links = entries[k].links
                                   /\ old[k].section = entries[k].section
  BY GivesTheRest
<1>3. e \in DOMAIN entries
  BY <1>1 DEF IInv, Typed
<1> HIDE DEF old
<1>4. DOMAIN entries' = DOMAIN old /\ \A k \in DOMAIN old : k # e => entries'[k] = old[k]
  BY <1>1
<1>5. CASE field = "files"
  <2>1. entries'[e] = [old[e] EXCEPT !.files = Append(old[e].files, what)]
    BY <1>1, <1>2, <1>3, <1>5
  <2>2. /\ entries'[e].files = Append(old[e].files, what) /\ entries'[e].links = old[e].links
        /\ entries'[e].section = old[e].section
    BY <1>2, <1>3, <2>1 DEF Entry
  <2> QED
    BY <1>2, <1>3, <1>4, <1>5, <2>2
<1>6. CASE field = "links"
  <2>1. entries'[e] = [old[e] EXCEPT !.links = Append(old[e].links, what)]
    BY <1>1, <1>2, <1>3, <1>6
  <2>2. /\ entries'[e].links = Append(old[e].links, what) /\ entries'[e].files = old[e].files
        /\ entries'[e].section = old[e].section
    BY <1>2, <1>3, <2>1 DEF Entry
  <2> QED
    BY <1>2, <1>3, <1>4, <1>6, <2>2
<1> QED
  BY <1>5, <1>6

LEMMA CompleteList ==
  ASSUME IInv, Complete, NEW line \in Line, text' = Append(text, line), Lists(line),
         NEW field \in {"files", "links"}, NEW what,
         line.kind = "file" => field = "files" /\ what = line.path,
         line.kind = "link" => field = "links" /\ what = [path |-> line.path, target |-> line.target],
         ListPath(line.path, field, what)
  PROVE  Complete'
<1> DEFINE p == line.path
<1>1. PICK new, e : new = Len(text) + 1 /\ e = Len(entries)
  OBVIOUS
<1>2. p \in Path /\ (line.kind = "link" => line.target \in Path) /\ line.kind \in {"file", "link"}
  BY DEF Lists, Line
<1>3. /\ field = "files" => what \in Path
      /\ field = "links" => what \in LinkRecords /\ what.path = p
      /\ field = "files" <=> line.kind = "file"
      /\ field = "links" <=> line.kind = "link"
  <2>1. CASE line.kind = "file"
    BY <1>2, <2>1
  <2>2. CASE line.kind = "link"
    BY <1>2, <2>2 DEF LinkRecords
  <2> QED
    BY <1>2, <2>1, <2>2
<1>4. entries # <<>> /\ \A i \in Listings : text[i].path # p
  BY DEF ListPath, Fresh, Listings
<1>5. /\ entries \in Seq(Entry) /\ e = EntryOf(Len(text)) /\ e # 0
  BY <1>1, <1>4 DEF IInv, Typed, Listed
<1>6. EntryOf(new)' = e /\ Counts(Len(text))
  BY <1>1, <1>2, <1>5, Numbered DEF IInv
<1>7. /\ Listings \subseteq 1..Len(text) /\ new \notin Listings /\ Len(text) \in Nat
      /\ Listings' = Listings \cup {k \in {new} : Lists(line) /\ Counts(new)'}
      /\ DOMAIN text' = (1..Len(text)) \cup {new} /\ text'[new] = line
      /\ \A i \in 1..Len(text) : /\ text'[i] = text[i] /\ EntryOf(i)' = EntryOf(i)
                                 /\ Section(i)' = Section(i) /\ Link(i)' = Link(i)
  BY <1>1, ReadKeeps DEF IInv
<1>8. Counts(new)'
  <2>1. PICK d \in 1..Len(text) : text[d].kind = "driver"
    BY <1>6 DEF Counts
  <2>2. d \in 1..new /\ text'[d].kind = "driver"
    BY <1>1, <1>7, <2>1
  <2> QED
    BY <2>2 DEF Counts
<1>9. OneListing(new)
  BY <1>7, <1>8 DEF OneListing
<1>10. /\ DOMAIN entries' = DOMAIN entries /\ e \in DOMAIN entries
       /\ \A k \in DOMAIN entries :
            /\ entries'[k].files = IF k = e /\ field = "files" THEN Append(entries[k].files, what)
                                                               ELSE entries[k].files
            /\ entries'[k].links = IF k = e /\ field = "links" THEN Append(entries[k].links, what)
                                                               ELSE entries[k].links
            /\ entries'[k].section = entries[k].section
  BY <1>1, <1>2, <1>3, JoinsEntry
<1>11. ASSUME NEW k \in DOMAIN entries
       PROVE  /\ entries[k].files \in Seq(Path) /\ entries[k].links \in Seq(LinkRecords)
              /\ ListsFiles(k, entries[k].files) /\ ListsLinks(k, entries[k].links)
  <2>1. entries[k] \in Entry
    BY <1>5
  <2> QED
    BY <2>1 DEF Complete, Entry, LinkRecords
<1>12. ASSUME NEW k \in DOMAIN entries
       PROVE  ListsFiles(k, entries[k].files)'
  <2>1. PICK files : files = entries[k].files
    OBVIOUS
  <2>2. files \in Seq(Path) /\ ListsFiles(k, files)
    BY <1>11, <2>1
  <2>3. CASE k = e /\ field = "files"
    <3>1. ListsFiles(k, Append(files, p))'
      BY <1>2, <1>3, <1>4, <1>6, <1>7, <1>9, <2>2, <2>3, OneMoreFile
    <3>2. PICK more : more = Append(files, p)
      OBVIOUS
    <3>3. entries'[k].files = more
      BY <1>3, <1>10, <2>1, <2>3, <3>2
    <3>4. ListsFiles(k, more)'
      BY <3>1, <3>2
    <3> QED
      BY <3>3, <3>4 DEF ListsFiles
  <2>4. CASE k # e \/ field # "files"
    <3>1. ListsFiles(k, files)'
      BY <1>3, <1>6, <1>7, <1>9, <2>2, <2>4, OthersSame
    <3>2. entries'[k].files = files
      BY <1>10, <2>1, <2>4
    <3> QED
      BY <3>1, <3>2 DEF ListsFiles
  <2> QED
    BY <2>3, <2>4
<1>13. ASSUME NEW k \in DOMAIN entries
       PROVE  ListsLinks(k, entries[k].links)'
  <2>1. PICK links : links = entries[k].links
    OBVIOUS
  <2>2. links \in Seq(LinkRecords) /\ ListsLinks(k, links)
    BY <1>11, <2>1
  <2>3. CASE k = e /\ field = "links"
    <3>1. Link(new)' = what
      BY <1>2, <1>3, <1>7, <2>3 DEF Link
    <3>2. \A i \in Listings : Link(i).path # what.path
      BY <1>3, <1>4, <2>3 DEF Link
    <3>3. ListsLinks(k, Append(links, what))'
      BY <1>3, <1>6, <1>7, <1>9, <2>2, <2>3, <3>1, <3>2, OneMoreLink
    <3>4. PICK more : more = Append(links, what)
      OBVIOUS
    <3>5. entries'[k].links = more
      BY <1>10, <2>1, <2>3, <3>4
    <3>6. ListsLinks(k, more)'
      BY <3>3, <3>4
    <3> QED
      BY <3>5, <3>6 DEF ListsLinks
  <2>4. CASE k # e \/ field # "links"
    <3>1. ListsLinks(k, links)'
      BY <1>3, <1>6, <1>7, <1>9, <2>2, <2>4, OthersSame
    <3>2. entries'[k].links = links
      BY <1>10, <2>1, <2>4
    <3> QED
      BY <3>1, <3>2 DEF ListsLinks
  <2> QED
    BY <2>3, <2>4
<1>14. ASSUME NEW d \in DOMAIN text', text'[d].kind = "driver"
       PROVE  EntryOf(d)' \in DOMAIN entries' /\ entries'[EntryOf(d)'].section = Section(d)'
  <2>1. d \in 1..Len(text)
    BY <1>2, <1>7, <1>14
  <2>2. d \in DOMAIN text /\ text[d].kind = "driver" /\ EntryOf(d)' = EntryOf(d) /\ Section(d)' = Section(d)
    BY <1>7, <1>14, <2>1 DEF IInv, Typed
  <2> QED
    BY <1>10, <2>2 DEF Complete
<1> QED
  BY <1>10, <1>12, <1>13, <1>14 DEF Complete

(* The verdict stands, and a shelf is what the accounting gave it.         *)
Judged ==
  /\ verdict = {TRUE} => Accounted(Assigned)
  /\ shelf \notin {Unsorted, Failed} =>
       /\ verdict = {TRUE}
       /\ \A f \in Packages : /\ shelf[f] = Shelf(Assigned, f)
                              /\ Broken(Shelf(Assigned, f).paths) = {}

AInv == IInv /\ Complete /\ Judged

LEMMA SameAccount ==
  ASSUME UNCHANGED <<text, parser, declared>>
  PROVE  /\ Assigned' = Assigned /\ (Accounted(Assigned)' <=> Accounted(Assigned))
         /\ \A paths : Broken(paths)' = Broken(paths)
<1>1. /\ text' = text /\ entries' = entries /\ group' = group /\ cites' = cites /\ words' = words
      /\ bad' = bad /\ declared' = declared
  BY DEF parser
<1>2. Pending' = Pending /\ Recognised' = Recognised
  BY <1>1 DEF Pending, Recognised
<1>3. Closed' = Closed
  BY <1>1, <1>2 DEF Closed, Give
<1>4. Assigned' = Assigned
  <2>1. PICK es : es = Closed.entries
    OBVIOUS
  <2>2. Assigned = FoldLeft(TakeEntry, Unassigned, es)
    BY <2>1 DEF Assigned
  <2>3. Assigned' = FoldLeft(TakeEntry, Unassigned, es)
    <3>1. es = Closed'.entries
      BY <1>3, <2>1
    <3> QED
      BY <3>1 DEF Assigned
  <2> QED
    BY <2>2, <2>3
<1>5. Links' = Links
  BY <1>1 DEF Links
<1>6. \A paths : Broken(paths)' = Broken(paths)
  BY <1>5 DEF Broken
<1>7. PICK a : a = Assigned
  OBVIOUS
<1>8. a = Assigned'
  BY <1>4, <1>7
<1>9. \A f : Licensed(a, f)' <=> Licensed(a, f)
  BY <1>1 DEF Licensed
<1>10. (NoCrossing(a)' <=> NoCrossing(a)) /\ (NoStaleId(a)' <=> NoStaleId(a))
  BY <1>5 DEF NoCrossing, NoStaleId
<1>11. Accounted(a)' <=> Accounted(a)
  BY <1>3, <1>9, <1>10 DEF Accounted
<1>12. Accounted(Assigned)' <=> Accounted(Assigned)
  <2>1. Accounted(a)' <=> Accounted(Assigned)'
    BY <1>8 DEF Accounted, Licensed, NoCrossing, NoStaleId
  <2>2. Accounted(a) <=> Accounted(Assigned)
    BY <1>7
  <2> QED
    BY <1>11, <2>1, <2>2
<1> QED
  BY <1>4, <1>6, <1>12

LEMMA ReadJudged ==
  ASSUME verdict = {}, UNCHANGED <<verdict, shelf>>, Judged
  PROVE  Judged'
<1>1. verdict # {TRUE} /\ verdict' # {TRUE} /\ shelf' \in {Unsorted, Failed}'
  BY DEF Judged, Unsorted, Failed
<1> QED
  BY <1>1 DEF Judged

LEMMA AccountJudged ==
  ASSUME Account, Judged
  PROVE  Judged'
<1>1. Accounted(Assigned)' <=> Accounted(Assigned)
  BY SameAccount DEF Account
<1>2. verdict' = {Accounted(Assigned)} /\ verdict = {} /\ shelf' = shelf
  BY DEF Account
<1>3. verdict' = {TRUE} => Accounted(Assigned)
  BY <1>2, Zenon
<1>4. shelf' \in {Unsorted, Failed}'
  BY <1>2 DEF Judged, Unsorted, Failed
<1> QED
  BY <1>1, <1>3, <1>4 DEF Judged

LEMMA SortJudged ==
  ASSUME Judged, NEW produced \in SUBSET Path, Sort(produced)
  PROVE  Judged'
<1>1. /\ Assigned' = Assigned /\ (Accounted(Assigned)' <=> Accounted(Assigned))
      /\ \A paths : Broken(paths)' = Broken(paths)
  BY SameAccount DEF Sort
<1>2. verdict = {TRUE} /\ verdict' = verdict
  BY DEF Sort
<1>3. ASSUME shelf' \notin {Unsorted, Failed}'
      PROVE  \A f \in Packages : /\ shelf'[f] = Shelf(Assigned, f)'
                                 /\ Broken(Shelf(Assigned, f).paths)' = {}
  <2>1. /\ shelf' = [f \in Packages |-> Shelf(Assigned, f)]
        /\ \A f \in Packages : Broken(Shelf(Assigned, f).paths) = {}
    BY <1>3 DEF Sort, Failed
  <2>2. ASSUME NEW f \in Packages
        PROVE  /\ shelf'[f] = Shelf(Assigned, f)'
               /\ Broken(Shelf(Assigned, f).paths)' = {}
    <3>1. Shelf(Assigned, f)' = Shelf(Assigned, f)
      BY <1>1 DEF Shelf
    <3>2. PICK paths : paths = Shelf(Assigned, f).paths
      OBVIOUS
    <3>3. Broken(paths)' = {}
      BY <1>1, <2>1, <3>2
    <3>4. paths = Shelf(Assigned, f).paths'
      BY <3>1, <3>2
    <3>5. Broken(Shelf(Assigned, f).paths)' = {}
      BY <3>3, <3>4 DEF Broken
    <3> QED
      BY <2>1, <3>1, <3>5
  <2> QED
    BY <2>2
<1>4. Accounted(Assigned)'
  BY <1>1, <1>2 DEF Judged
<1> QED
  BY <1>2, <1>3, <1>4 DEF Judged

LEMMA NextAInv == AInv /\ [Next]_vars => AInv'
<1> SUFFICES ASSUME AInv, [Next]_vars PROVE AInv'
  OBVIOUS
<1>1. IInv'
  BY NextIInv DEF AInv
<1>2. ASSUME UNCHANGED <<text, parser>>
      PROVE  Complete'
  <2>1. SameListings /\ entries' = entries
    BY <1>2 DEF SameListings, Listings, Counts, EntryOf, Drivers, Link, parser
  <2>2. \A d : EntryOf(d)' = EntryOf(d) /\ Section(d)' = Section(d)
    BY <1>2 DEF EntryOf, Drivers, Section
  <2> QED
    BY <1>2, <2>1, <2>2, CompleteKept DEF AInv
<1>3. CASE Preamble
  <2>1. Complete'
    BY <1>3, CompletePreamble DEF AInv
  <2>2. Judged'
    BY <1>3, ReadJudged DEF Preamble, Read, AInv
  <2> QED
    BY <1>1, <2>1, <2>2 DEF AInv
<1>4. CASE Rule
  <2> DEFINE line == [kind |-> "rule"]
  <2>1. line \in Line /\ line.kind = "rule" /\ text' = Append(text, line) /\ entries' = Closed.entries
    BY <1>4 DEF Rule, Read, Line
  <2> HIDE DEF line
  <2>2. Complete'
    BY <2>1, CompleteSame DEF AInv
  <2>3. Judged'
    BY <1>4, ReadJudged DEF Rule, Read, AInv
  <2> QED
    BY <1>1, <2>2, <2>3 DEF AInv
<1>5. CASE Account
  <2>1. Complete'
    BY <1>2, <1>5 DEF Account
  <2>2. Judged'
    BY <1>5, AccountJudged DEF AInv
  <2> QED
    BY <1>1, <2>1, <2>2 DEF AInv
<1>6. ASSUME NEW produced \in SUBSET Path, Sort(produced)
      PROVE  AInv'
  <2>1. Complete'
    BY <1>2, <1>6 DEF Sort
  <2>2. Judged'
    BY <1>6, SortJudged DEF AInv
  <2> QED
    BY <1>1, <2>1, <2>2 DEF AInv
<1>7. ASSUME NEW d \in Driver, DriverLine(d)
      PROVE  AInv'
  <2>1. Complete'
    BY <1>7, CompleteDriver DEF AInv
  <2>2. Judged'
    BY <1>7, ReadJudged DEF DriverLine, Read, AInv
  <2> QED
    BY <1>1, <2>1, <2>2 DEF AInv
<1>8. ASSUME NEW p \in Path, FileLine(p)
      PROVE  AInv'
  <2> DEFINE line == [kind |-> "file", path |-> p]
  <2>1. /\ line \in Line /\ line.path = p /\ line.kind = "file" /\ Lists(line)
        /\ text' = Append(text, line) /\ ListPath(p, "files", p)
    BY <1>8 DEF FileLine, Read, Line, Lists
  <2> HIDE DEF line
  <2>2. Complete'
    BY <2>1, CompleteList DEF AInv
  <2>3. Judged'
    BY <1>8, ReadJudged DEF FileLine, Read, AInv
  <2> QED
    BY <1>1, <2>2, <2>3 DEF AInv
<1>9. ASSUME NEW p \in Path, NEW t \in Path, LinkLine(p, t)
      PROVE  AInv'
  <2> DEFINE line == [kind |-> "link", path |-> p, target |-> t]
             what == [path |-> p, target |-> t]
  <2>1. /\ line \in Line /\ line.path = p /\ line.target = t /\ line.kind = "link" /\ Lists(line)
        /\ text' = Append(text, line) /\ ListPath(p, "links", what)
    BY <1>9 DEF LinkLine, Read, Line, Lists
  <2>2. what = [path |-> line.path, target |-> line.target]
    BY <2>1
  <2> HIDE DEF line, what
  <2>3. Complete'
    BY <2>1, <2>2, CompleteList DEF AInv
  <2>4. Judged'
    BY <1>9, ReadJudged DEF LinkLine, Read, AInv
  <2> QED
    BY <1>1, <2>3, <2>4 DEF AInv
<1>10. ASSUME NEW v \in Vendor, CiteLine(v)
       PROVE  AInv'
  <2> DEFINE line == [kind |-> "cites", text |-> v]
  <2>1. line \in Line /\ line.kind = "cites" /\ text' = Append(text, line) /\ entries' = entries
    BY <1>10 DEF CiteLine, Read, Line
  <2> HIDE DEF line
  <2>2. Complete'
    BY <2>1, CompleteSame DEF AInv
  <2>3. Judged'
    BY <1>10, ReadJudged DEF CiteLine, Read, AInv
  <2> QED
    BY <1>1, <2>2, <2>3 DEF AInv
<1>11. ASSUME NEW w \in Word, WordLine(w)
       PROVE  AInv'
  <2> DEFINE line == [kind |-> "worded", word |-> w]
  <2>1. line \in Line /\ line.kind = "worded" /\ text' = Append(text, line) /\ entries' = entries
    BY <1>11 DEF WordLine, Read, Line
  <2> HIDE DEF line
  <2>2. Complete'
    BY <2>1, CompleteSame DEF AInv
  <2>3. Judged'
    BY <1>11, ReadJudged DEF WordLine, Read, AInv
  <2> QED
    BY <1>1, <2>2, <2>3 DEF AInv
<1>12. CASE UNCHANGED vars
  <2>1. UNCHANGED <<text, parser, declared>> /\ verdict' = verdict /\ shelf' = shelf
    BY <1>12 DEF vars
  <2>2. /\ Assigned' = Assigned /\ (Accounted(Assigned)' <=> Accounted(Assigned))
        /\ \A paths : Broken(paths)' = Broken(paths)
    BY <2>1, SameAccount
  <2>3. ASSUME NEW f \in Packages
        PROVE  /\ Shelf(Assigned, f)' = Shelf(Assigned, f)
               /\ Broken(Shelf(Assigned, f).paths)' = Broken(Shelf(Assigned, f).paths)
    <3>1. Shelf(Assigned, f)' = Shelf(Assigned, f)
      BY <2>2 DEF Shelf
    <3>2. PICK paths : paths = Shelf(Assigned, f).paths
      OBVIOUS
    <3>3. Broken(paths)' = Broken(paths)
      BY <2>2
    <3>4. paths = Shelf(Assigned, f).paths'
      BY <3>1, <3>2
    <3>5. Broken(Shelf(Assigned, f).paths)' = Broken(paths)'
      BY <3>4 DEF Broken
    <3> QED
      BY <3>1, <3>2, <3>3, <3>5
  <2>4. Judged'
    BY <2>1, <2>2, <2>3 DEF AInv, Judged, Unsorted, Failed
  <2> QED
    BY <1>1, <1>2, <2>1, <2>4 DEF AInv
<1> QED
  BY <1>3, <1>4, <1>5, <1>6, <1>7, <1>8, <1>9, <1>10, <1>11, <1>12 DEF Next

LEMMA AInvAccepted == AInv => AcceptedRelease
<1> SUFFICES ASSUME AInv PROVE AcceptedRelease
  OBVIOUS
<1>1. verdict = {TRUE} => Declares
  BY AccountedDeclares DEF AInv, Judged
<1>2. shelf \notin {Unsorted, Failed} => \A f \in Packages : Holds(f)
  BY SortedHolds DEF AInv, Judged
<1> QED
  BY <1>1, <1>2 DEF AcceptedRelease

(* An accepted release, for every WHENCE, families table and licence map:  *)
(* whatever copy-firmware.sh produced, what the accounting let through     *)
(* declares what WHENCE states, and a sorted package holds what it ships.  *)
THEOREM EveryReleaseAccounted == Spec => []AcceptedRelease
<1>1. Init => AInv
  <2>1. Init => IInv
    BY InitIInv
  <2>2. Init => Complete
    BY DEF Init, Complete
  <2>3. Init => Judged
    BY DEF Init, Judged
  <2> QED
    BY <2>1, <2>2, <2>3 DEF AInv
<1>2. AInv /\ [Next]_vars => AInv'
  BY NextAInv
<1>3. AInv => AcceptedRelease
  BY AInvAccepted
<1> QED
  BY <1>1, <1>2, <1>3, PTL DEF Spec
=============================================================================
