--------------------------- MODULE PtyDriveProofs ---------------------------
(***************************************************************************)
(* The safety properties of PtyDrive, proved for every alphabet, every set *)
(* of scripts and every size of the terminal's queues.                     *)
(***************************************************************************)
EXTENDS PtyDrive, SequenceTheorems, FiniteSetTheorems, TLAPS

Match == [from : Nat, to : Nat]

(* The expects among the first l lines of the script, and the i-th expect. *)
Before(l) == {k \in Expects : k <= l}
Nth(i)    == CHOOSE l \in Expects : Cardinality({k \in Expects : k <= l}) = i

Typed ==
  /\ TypeOK
  /\ hits \in Seq(Match) /\ wrote \in Seq(Symbol)

(* Where the driver stands in its script.                                  *)
Scripted ==
  /\ dpc \in {"send", "expect"} => line < Len(script) /\ script[line + 1].op = dpc
  /\ dpc = "expect" => left = script[line + 1].text
  /\ dpc \in {"drain", "wait", "ended"} => line = Len(script)

(* One match for each expect that is done, behind one another.             *)
Answers(i) ==
  /\ hits[i].to <= mark
  /\ i > 1 => hits[i - 1].to <= hits[i].from
  /\ SubSeq(out, hits[i].from + 1, hits[i].to) = script[Nth(i)].text

Matched ==
  /\ Len(hits) = Cardinality(Before(line))
  /\ \A i \in 1..Len(hits) : Answers(i)

(* What the command wrote is in the transcript or still in the terminal,   *)
(* which is empty when the driver stops reading in time.                   *)
Transcribed ==
  /\ out \o outq = wrote
  /\ dpc \in {"wait", "ended"} /\ ~late => outq = <<>> /\ cmd # NoStatus

Reported ==
  /\ dpc \in {"failed", "ended"} <=> status # NoStatus
  /\ status = NoStatus => cmd \in Status \cup {NoStatus}
  /\ dpc = "ended" => cmd = status
  /\ dpc = "failed" => status \in {1, 124, 125}

IInv == Typed /\ Scripted /\ Matched /\ Transcribed /\ Reported
-----------------------------------------------------------------------------
(* A set of naturals that is not empty has a smallest element.             *)
LEMMA Smallest ==
  ASSUME NEW S \in SUBSET Nat, S # {}
  PROVE  \E n \in S : \A m \in S : n <= m
<1>1. PICK n \in S : \A m \in S : ~ (<<m, n>> \in OpToRel(<, Nat))
  BY NatLessThanWellFounded, WFMin
<1>2. \A m \in S : ~ (m < n)
  BY <1>1 DEF OpToRel
<1> QED
  BY <1>2

(* The match is one of the places where the text occurs.                   *)
LEMMA HitFacts ==
  ASSUME Typed, Occurs(mark) # {}
  PROVE  /\ Hit \in mark..Len(out) - Len(left)
         /\ SubSeq(out, Hit + 1, Hit + Len(left)) = left
<1>1. mark \in Nat /\ Len(out) \in Nat /\ Len(left) \in Nat
  BY DEF Typed, TypeOK
<1>2. Occurs(mark) \in SUBSET Nat
  BY <1>1 DEF Occurs
<1>3. \E i \in Occurs(mark) : \A j \in Occurs(mark) : i <= j
  BY <1>2, Smallest
<1>4. Hit \in Occurs(mark)
  BY <1>3 DEF Hit
<1> QED
  BY <1>4 DEF Occurs

(* Taking output moves it from the terminal to the end of the transcript.  *)
LEMMA TakeFacts ==
  ASSUME Typed, Take
  PROVE  /\ out' \o outq' = out \o outq
         /\ out' \in Seq(Symbol) /\ outq' \in Seq(Symbol)
         /\ Len(outq') <= Len(outq) /\ Len(out) <= Len(out')
         /\ \A m, n \in Nat : n <= Len(out) => SubSeq(out', m + 1, n) = SubSeq(out, m + 1, n)
<1> USE DEF Typed, TypeOK
<1>1. PICK n \in 1..Len(outq) : /\ out' = out \o SubSeq(outq, 1, n)
                                /\ outq' = SubSeq(outq, n + 1, Len(outq))
  BY DEF Take
<1> DEFINE h == SubSeq(outq, 1, n)
           t == SubSeq(outq, n + 1, Len(outq))
<1>2. h \in Seq(Symbol) /\ Len(h) = n
  BY SubSeqProperties, ElementOfSeq
<1>3. t \in Seq(Symbol) /\ Len(t) = Len(outq) - n
  BY SubSeqProperties, ElementOfSeq
<1>4. h \o t = outq
  BY ConcatAdjacentSubSeq, SubSeqFull
<1>5. out' = out \o h /\ outq' = t
  BY <1>1
<1> HIDE DEF h, t
<1>6. out' \o outq' = out \o outq
  <2>1. (out \o h) \o t = out \o (h \o t)
    <3>1. out \in Seq(Symbol) /\ h \in Seq(Symbol) /\ t \in Seq(Symbol)
      BY <1>2, <1>3
    <3> HIDE DEF Typed, TypeOK
    <3> QED
      BY <3>1, ConcatAssociative, SMTT(30)
  <2> QED
    BY <1>4, <1>5, <2>1
<1>7. out' \in Seq(Symbol) /\ Len(out') = Len(out) + n
  BY <1>2, <1>5, ConcatProperties
<1>8. ASSUME NEW m \in Nat, NEW k \in Nat, k <= Len(out)
      PROVE  SubSeq(out', m + 1, k) = SubSeq(out, m + 1, k)
  <2>1. CASE m + 1 <= k
    BY <1>2, <1>5, <1>8, <2>1, SubSeqOfConcat1
  <2>2. CASE k < m + 1
    BY <1>8, <2>2, SubSeqEmpty
  <2> QED
    BY <1>8, <2>1, <2>2
<1>9. Len(out) <= Len(out') /\ Len(outq') <= Len(outq) /\ outq' \in Seq(Symbol)
  BY <1>3, <1>5, <1>7
<1> QED
  BY <1>6, <1>7, <1>8, <1>9
-----------------------------------------------------------------------------
LEMMA ScriptFacts ==
  ASSUME Typed
  PROVE  /\ script \in Seq(Line) /\ Len(script) \in Nat
         /\ \A l \in 1..Len(script) : /\ script[l].op \in {"send", "expect"}
                                      /\ script[l].text \in Seq(Symbol)
<1>1. script \in Seq(Line)
  BY ScriptAssumption DEF Typed, TypeOK
<1>2. \A l \in 1..Len(script) : script[l] \in Line
  BY <1>1, ElementOfSeq
<1> QED
  BY <1>1, <1>2 DEF Line

(* Counting the expects line by line.                                      *)
LEMMA BeforeFacts ==
  ASSUME Typed, NEW l \in 0..Len(script)
  PROVE  /\ IsFiniteSet(Before(l)) /\ Cardinality(Before(l)) \in Nat
         /\ l < Len(script) =>
              IF script[l + 1].op = "expect"
                THEN Cardinality(Before(l + 1)) = Cardinality(Before(l)) + 1
                ELSE Before(l + 1) = Before(l)
<1>1. Len(script) \in Nat
  BY ScriptFacts
<1>2. Before(l) \in SUBSET (1..Len(script)) /\ IsFiniteSet(1..Len(script))
  BY <1>1, FS_Interval DEF Before, Expects
<1>3. IsFiniteSet(Before(l)) /\ Cardinality(Before(l)) \in Nat
  BY <1>2, FS_Subset, FS_CardinalityType
<1>4. ASSUME l < Len(script), script[l + 1].op = "expect"
      PROVE  Cardinality(Before(l + 1)) = Cardinality(Before(l)) + 1
  <2>1. Before(l + 1) = Before(l) \cup {l + 1} /\ l + 1 \notin Before(l)
    BY <1>1, <1>4 DEF Before, Expects
  <2> QED
    BY <1>3, <2>1, FS_AddElement
<1>5. ASSUME l < Len(script), script[l + 1].op # "expect"
      PROVE  Before(l + 1) = Before(l)
  BY <1>1, <1>5 DEF Before, Expects
<1> QED
  BY <1>3, <1>4, <1>5

(* The expect with n expects up to it is the n-th.                         *)
LEMMA NthFacts ==
  ASSUME Typed, NEW l \in Expects
  PROVE  Nth(Cardinality(Before(l))) = l
<1>1. Expects \subseteq 1..Len(script) /\ Len(script) \in Nat
  BY ScriptFacts DEF Expects
<1>2. ASSUME NEW k \in Expects, NEW m \in Expects, k < m
      PROVE  Cardinality(Before(k)) # Cardinality(Before(m))
  <2>1. k \in Nat /\ m \in Nat /\ \A x \in Expects : x \in Nat
    BY <1>1
  <2>2. Before(k) \in SUBSET Before(m)
    <3> SUFFICES ASSUME NEW x \in Expects, x <= k PROVE x <= m
      BY DEF Before
    <3> QED
      BY <1>2, <2>1
  <2>3. m \in Before(m) /\ m \notin Before(k)
    BY <1>2, <2>1 DEF Before
  <2>4. IsFiniteSet(Before(m))
    BY <1>1, BeforeFacts
  <2> QED
    BY <2>2, <2>3, <2>4, FS_Subset
<1>3. \A k \in Expects : Cardinality(Before(k)) = Cardinality(Before(l)) => k = l
  BY <1>1, <1>2
<1> QED
  BY <1>3 DEF Nth, Before
-----------------------------------------------------------------------------
LEMMA StatusFacts ==
  NoStatus \notin Status \cup {1, 124, 125, Killed}
BY StatusAssumption DEF NoStatus, Killed

LEMMA InitIInv == Init => IInv
<1> SUFFICES ASSUME Init PROVE IInv
  OBVIOUS
<1>1. script \in Seq(Line)
  BY ScriptAssumption DEF Init
<1>2. Typed
  <2>1. Len(script) \in Nat
    BY <1>1
  <2>2. <<>> \in Seq(Symbol) /\ <<>> \in Seq(Match) /\ Len(<<>>) = 0
    BY EmptySeq
  <2>3. 0 \in 0..InCap /\ 0 <= OutCap
    BY CapAssumption
  <2>4. script \in Script /\ line \in 0..Len(script)
    BY <2>1 DEF Init
  <2>5. left \in Seq(Symbol) /\ out \in Seq(Symbol) /\ outq \in Seq(Symbol)
        /\ hits \in Seq(Match) /\ wrote \in Seq(Symbol)
    BY <2>2 DEF Init
  <2>6. mark \in 0..Len(out) /\ inq \in 0..InCap /\ Len(outq) <= OutCap
    BY <2>2, <2>3 DEF Init
  <2>7. dpc = "next" /\ late \in BOOLEAN /\ sticky \in BOOLEAN
        /\ status = NoStatus /\ cmd = NoStatus
    BY DEF Init
  <2> QED
    BY <2>4, <2>5, <2>6, <2>7 DEF Typed, TypeOK
<1>3. Before(0) = {}
  BY <1>1 DEF Before, Expects
<1>4. Matched
  BY <1>3, FS_EmptySet DEF Init, Matched
<1>5. Transcribed
  BY <1>2, ConcatEmptySeq DEF Init, Transcribed
<1>6. Scripted /\ Reported
  BY StatusFacts DEF Init, Scripted, Reported
<1> QED
  BY <1>2, <1>4, <1>5, <1>6 DEF IInv

LEMMA SameScript ==
  ASSUME UNCHANGED script
  PROVE  /\ Expects' = Expects
         /\ line' = line => Before(line)' = Before(line)
         /\ \A i : Nth(i)' = Nth(i)
<1>1. Expects' = Expects
  BY DEF Expects
<1>2. line' = line => Before(line)' = Before(line)
  BY <1>1 DEF Before
<1>3. \A i : Nth(i)' = Nth(i)
  BY DEF Nth, Expects
<1> QED
  BY <1>1, <1>2, <1>3

LEMMA HitTypes ==
  ASSUME Typed, Matched, NEW i \in 1..Len(hits)
  PROVE  /\ hits[i].from \in Nat /\ hits[i].to \in Nat
         /\ hits[i].to <= mark /\ hits[i].to <= Len(out)
<1>1. hits[i] \in Match
  BY ElementOfSeq DEF Typed
<1>2. hits[i].to <= mark
  BY DEF Matched, Answers
<1>3. mark \in Nat /\ mark <= Len(out) /\ Len(out) \in Nat
  BY DEF Typed, TypeOK
<1> QED
  BY <1>1, <1>2, <1>3 DEF Match

(* What a step that matches nothing keeps of the matches there are.        *)
LEMMA MatchedKept ==
  ASSUME Typed, Matched, UNCHANGED <<script, mark, hits>>,
         Before(line)' = Before(line), out' = out \/ Take
  PROVE  Matched'
<1>1. ASSUME NEW i \in 1..Len(hits)
      PROVE  SubSeq(out', hits[i].from + 1, hits[i].to) = SubSeq(out, hits[i].from + 1, hits[i].to)
  BY HitTypes, TakeFacts
<1>2. \A i : Nth(i)' = Nth(i)
  BY SameScript
<1>3. \A i \in 1..Len(hits) : Answers(i)'
  BY <1>1, <1>2 DEF Matched, Answers
<1> QED
  BY <1>3 DEF Matched
-----------------------------------------------------------------------------
(* Failing: the driver ends with a status of its own.                      *)
LEMMA FailInv ==
  ASSUME IInv, status = NoStatus, Fail(1) \/ Fail(124) \/ Fail(125)
  PROVE  IInv'
<1> USE DEF IInv
<1>1. /\ UNCHANGED <<script, line, left, out, mark, hits, terminal, sticky, wrote, late>>
      /\ dpc' = "failed" /\ status' \in {1, 124, 125} /\ cmd' \in {cmd, Killed}
  BY DEF Fail
<1>2. Typed'
  BY <1>1 DEF Typed, TypeOK, terminal
<1>3. Scripted' /\ Transcribed'
  BY <1>1 DEF Scripted, Transcribed, terminal
<1>4. Matched'
  BY <1>1, SameScript, MatchedKept
<1>5. Reported'
  BY <1>1, StatusFacts DEF Reported, NoStatus
<1> QED
  BY <1>2, <1>3, <1>4, <1>5

LEMMA NextLineInv ==
  ASSUME IInv, NextLine
  PROVE  IInv'
<1> USE DEF IInv
<1>1. /\ UNCHANGED <<script, line, out, mark, status, hits, terminal, command, late>>
      /\ dpc = "next" /\ status = NoStatus
      /\ \/ line = Len(script) /\ dpc' = "drain" /\ left' = left
         \/ line # Len(script) /\ dpc' = script[line + 1].op /\ left' = script[line + 1].text
  BY DEF NextLine, At
<1>2. line # Len(script) => line + 1 \in 1..Len(script)
  BY ScriptFacts DEF Typed, TypeOK
<1>3. Typed'
  BY <1>1, <1>2, ScriptFacts DEF Typed, TypeOK, terminal, command
<1>4. Scripted'
  <2>1. line \in 0..Len(script) /\ Len(script) \in Nat
    BY ScriptFacts DEF Typed, TypeOK
  <2> QED
    BY <1>1, <1>2, <2>1, ScriptFacts DEF Scripted
<1>5. Matched' /\ Transcribed'
  <2>1. dpc' \notin {"wait", "ended"}
    BY <1>1, <1>2, ScriptFacts
  <2> QED
    BY <1>1, <2>1, SameScript, MatchedKept DEF Transcribed, terminal, command
<1>6. Reported'
  BY <1>1, <1>2, ScriptFacts DEF Reported, command
<1> QED
  BY <1>3, <1>4, <1>5, <1>6

LEMMA SendInv ==
  ASSUME IInv, Send
  PROVE  IInv'
<1> USE DEF IInv
<1>1. /\ UNCHANGED <<script, out, mark, status, hits, outq, command, late>>
      /\ dpc = "send" /\ status = NoStatus
      /\ line < Len(script) /\ script[line + 1].op = "send"
  BY DEF Send, At, Scripted
<1>2. CASE left = <<>>
  <2>1. dpc' = "next" /\ line' = line + 1 /\ left' = left /\ inq' = inq
    BY <1>2 DEF Send
  <2>2. Typed'
    BY <1>1, <2>1 DEF Typed, TypeOK, command
  <2>3. Before(line') = Before(line)
    BY <1>1, <2>1, BeforeFacts DEF Typed, TypeOK
  <2>4. Before(line)' = Before(line)
    BY <1>1, <2>3, SameScript DEF Before
  <2>5. Matched'
    BY <1>1, <2>4, MatchedKept
  <2>6. Scripted' /\ Transcribed' /\ Reported'
    BY <1>1, <2>1 DEF Scripted, Transcribed, Reported, command
  <2> QED
    BY <2>2, <2>5, <2>6
<1>3. CASE left # <<>>
  <2>1. PICK n \in 1..Len(left) :
          inq + n <= InCap /\ inq' = inq + n /\ left' = SubSeq(left, n + 1, Len(left))
    BY <1>3 DEF Send
  <2>2. dpc' = dpc /\ line' = line
    BY <1>3 DEF Send
  <2>3. left' \in Seq(Symbol)
    BY <2>1, SubSeqProperties, ElementOfSeq DEF Typed, TypeOK
  <2>4. Typed'
    <3>1. inq' \in 0..InCap
      <4>1. inq \in Nat /\ n \in Nat /\ InCap \in Nat
        BY CapAssumption DEF Typed, TypeOK
      <4> HIDE DEF IInv
      <4> QED
        BY <2>1, <4>1
    <3>2. Typed
      OBVIOUS
    <3> HIDE DEF IInv
    <3> QED
      BY <1>1, <2>2, <2>3, <3>1, <3>2 DEF Typed, TypeOK, command
  <2>5. Matched'
    BY <1>1, <2>2, SameScript, MatchedKept
  <2>6. Scripted' /\ Transcribed' /\ Reported'
    BY <1>1, <2>2 DEF Scripted, Transcribed, Reported, command
  <2> QED
    BY <2>4, <2>5, <2>6
<1> QED
  BY <1>2, <1>3

(* A match answers the next expect, behind all the earlier ones.           *)
LEMMA ExpectedInv ==
  ASSUME IInv, Expected
  PROVE  IInv'
<1> USE DEF IInv
<1> DEFINE m == [from |-> Hit, to |-> Hit + Len(left)]
<1>1. /\ UNCHANGED <<script, left, out, status, terminal, command, late>>
      /\ dpc = "expect" /\ status = NoStatus /\ Occurs(mark) # {}
      /\ mark' = Hit + Len(left) /\ hits' = Append(hits, m)
      /\ dpc' = "next" /\ line' = line + 1
  BY DEF Expected, At
<1>2. /\ Hit \in Nat /\ mark <= Hit /\ Hit + Len(left) <= Len(out) /\ Len(left) \in Nat
      /\ SubSeq(out, Hit + 1, Hit + Len(left)) = left
  <2>1. /\ Hit \in mark..Len(out) - Len(left)
        /\ SubSeq(out, Hit + 1, Hit + Len(left)) = left
    BY <1>1, HitFacts
  <2>2. mark \in Nat /\ Len(out) \in Nat /\ Len(left) \in Nat
    BY DEF Typed, TypeOK
  <2> HIDE DEF IInv
  <2> QED
    BY <2>1, <2>2
<1>3. m \in Match /\ m.from = Hit /\ m.to = Hit + Len(left)
  BY <1>2 DEF Match
<1> HIDE DEF m
<1>4. /\ hits' \in Seq(Match) /\ Len(hits') = Len(hits) + 1 /\ hits'[Len(hits) + 1] = m
      /\ \A i \in 1..Len(hits) : hits'[i] = hits[i]
  BY <1>1, <1>3, AppendProperties DEF Typed
<1>5. line \in 0..Len(script) /\ line < Len(script) /\ Len(script) \in Nat
  BY <1>1, ScriptFacts DEF Scripted, Typed, TypeOK
<1>6. Typed'
  BY <1>1, <1>2, <1>4, <1>5 DEF Typed, TypeOK, terminal, command
<1>7. line + 1 \in Expects /\ left = script[line + 1].text
  BY <1>1, <1>5 DEF Scripted, Expects
<1>8. Cardinality(Before(line + 1)) = Len(hits) + 1
  BY <1>5, <1>7, BeforeFacts DEF Matched, Expects
<1>9. Nth(Len(hits) + 1) = line + 1
  BY <1>7, <1>8, NthFacts
<1>10. Matched'
  <2>1. Before(line)' = Before(line + 1) /\ \A i : Nth(i)' = Nth(i)
    BY <1>1, SameScript DEF Before
  <2>2. ASSUME NEW i \in 1..Len(hits) PROVE Answers(i)'
    <3>1. hits'[i].to <= mark'
      BY <1>1, <1>2, <1>4, HitTypes DEF Typed, TypeOK
    <3>2. i > 1 => hits'[i - 1] = hits[i - 1]
      BY <1>4
    <3>3. Answers(i)
      BY DEF Matched
    <3> QED
      BY <1>1, <1>4, <2>1, <3>1, <3>2, <3>3 DEF Answers
  <2>3. PICK k \in Nat : k = Len(hits) + 1
    BY DEF Typed
  <2>4. Answers(k)'
    <3>1. Len(hits) \in Nat
      BY DEF Typed
    <3>2. k > 1 => hits'[k - 1] = hits[k - 1] /\ hits[k - 1].to <= m.from
      <4>1. ASSUME k > 1
            PROVE  /\ k - 1 \in 1..Len(hits) /\ hits'[k - 1] = hits[k - 1]
                   /\ hits[k - 1].to <= mark /\ hits[k - 1].to \in Nat
        <5>1. k - 1 \in 1..Len(hits)
          BY <2>3, <3>1, <4>1
        <5>2. Answers(k - 1)
          BY <5>1 DEF Matched
        <5> QED
          BY <1>4, <5>1, <5>2, HitTypes DEF Answers
      <4>2. mark \in Nat
        BY DEF Typed, TypeOK
      <4> HIDE DEF IInv
      <4> QED
        BY <1>2, <1>3, <4>1, <4>2
    <3>3. SubSeq(out', m.from + 1, m.to) = script'[Nth(k)'].text
      BY <1>1, <1>2, <1>3, <1>7, <1>9, <2>1, <2>3
    <3>4. m.to <= mark' /\ hits'[k] = m
      BY <1>1, <1>2, <1>3, <1>4, <2>3
    <3> QED
      BY <3>2, <3>3, <3>4 DEF Answers
  <2>5. \A i \in 1..Len(hits') : Answers(i)'
    <3>1. \A i \in 1..Len(hits') : i \in 1..Len(hits) \/ i = k
      BY <1>4, <2>3 DEF Typed
    <3> QED
      BY <2>2, <2>4, <3>1
  <2>6. Len(hits') = Cardinality(Before(line)')
    BY <1>4, <1>8, <2>1
  <2> QED
    BY <2>5, <2>6 DEF Matched
<1>11. Scripted' /\ Transcribed' /\ Reported'
  BY <1>1 DEF Scripted, Transcribed, Reported, terminal, command
<1> QED
  BY <1>6, <1>10, <1>11
-----------------------------------------------------------------------------
(* Reading: what was in the terminal goes to the transcript, in order.     *)
LEMMA ReadingInv ==
  ASSUME IInv, WaitForText \/ Drain
  PROVE  IInv'
<1> USE DEF IInv
<1>1. /\ UNCHANGED <<script, dpc, line, left, mark, status, hits, inq, command, late>>
      /\ Take /\ dpc \in {"expect", "drain"}
  BY DEF WaitForText, Drain, At
<1>2. /\ out' \o outq' = out \o outq /\ out' \in Seq(Symbol) /\ outq' \in Seq(Symbol)
      /\ Len(outq') <= Len(outq) /\ Len(out) <= Len(out')
  BY <1>1, TakeFacts
<1>3. Typed'
  <2>1. /\ Len(out) \in Nat /\ Len(out') \in Nat /\ Len(outq) \in Nat /\ Len(outq') \in Nat
        /\ OutCap \in Nat
    BY <1>2, CapAssumption DEF Typed, TypeOK
  <2>2. mark' \in 0..Len(out') /\ Len(outq') <= OutCap
    BY <1>1, <1>2, <2>1 DEF Typed, TypeOK
  <2> QED
    BY <1>1, <1>2, <2>2 DEF Typed, TypeOK, command
<1>4. Matched'
  BY <1>1, SameScript, MatchedKept
<1>5. Scripted' /\ Transcribed' /\ Reported'
  BY <1>1, <1>2 DEF Scripted, Transcribed, Reported, command
<1> QED
  BY <1>3, <1>4, <1>5

LEMMA DrainedInv ==
  ASSUME IInv, Drained
  PROVE  IInv'
<1> USE DEF IInv
<1>1. /\ UNCHANGED <<script, line, left, out, mark, status, hits, terminal, command, late>>
      /\ dpc = "drain" /\ dpc' = "wait" /\ status = NoStatus /\ (late \/ Closed)
  BY DEF Drained, At
<1>2. Typed'
  BY <1>1 DEF Typed, TypeOK, terminal, command
<1>3. Matched'
  BY <1>1, SameScript, MatchedKept
<1>4. Scripted' /\ Transcribed' /\ Reported'
  BY <1>1 DEF Scripted, Transcribed, Reported, Closed, terminal, command
<1> QED
  BY <1>2, <1>3, <1>4

LEMMA ReapInv ==
  ASSUME IInv, Reap
  PROVE  IInv'
<1> USE DEF IInv
<1>1. /\ UNCHANGED <<script, line, left, out, mark, hits, terminal, command, late>>
      /\ dpc = "wait" /\ dpc' = "ended" /\ status = NoStatus /\ status' = cmd /\ cmd # NoStatus
  BY DEF Reap, At
<1>2. cmd \in Status
  BY <1>1 DEF Reported
<1>3. Typed'
  BY <1>1, <1>2 DEF Typed, TypeOK, terminal, command
<1>4. Matched'
  BY <1>1, SameScript, MatchedKept
<1>5. Scripted' /\ Transcribed'
  BY <1>1 DEF Scripted, Transcribed, terminal, command
<1>6. Reported'
  BY <1>1, <1>2 DEF Reported, command
<1> QED
  BY <1>3, <1>4, <1>5, <1>6

(* The command's own steps: what it writes joins the terminal's queue.     *)
LEMMA WritesInv ==
  ASSUME IInv, Writes
  PROVE  IInv'
<1> USE DEF IInv
<1>1. PICK s \in Symbol : outq' = Append(outq, s) /\ wrote' = Append(wrote, s)
  BY DEF Writes
<1>2. /\ UNCHANGED <<script, driver, inq, cmd, sticky, late>>
      /\ cmd = NoStatus /\ Len(outq) < OutCap
  BY DEF Writes
<1>3. /\ out \in Seq(Symbol) /\ outq \in Seq(Symbol) /\ wrote \in Seq(Symbol)
      /\ <<s>> \in Seq(Symbol)
  BY DEF Typed, TypeOK
<1>4. /\ outq' \in Seq(Symbol) /\ wrote' \in Seq(Symbol) /\ Len(outq') = Len(outq) + 1
  BY <1>1, <1>3, AppendProperties
<1>5. out \o outq' = wrote'
  <2>1. outq' = outq \o <<s>> /\ wrote' = wrote \o <<s>>
    BY <1>1, <1>3, AppendIsConcat
  <2>2. out \o (outq \o <<s>>) = (out \o outq) \o <<s>>
    BY <1>3, ConcatAssociative
  <2> QED
    BY <2>1, <2>2 DEF Transcribed
<1>6. Typed'
  BY <1>2, <1>3, <1>4, CapAssumption DEF Typed, TypeOK, driver
<1>7. Matched'
  BY <1>2, SameScript, MatchedKept DEF driver
<1>8. Scripted' /\ Transcribed' /\ Reported'
  BY <1>2, <1>5 DEF Scripted, Transcribed, Reported, driver
<1> QED
  BY <1>6, <1>7, <1>8

LEMMA CommandInv ==
  ASSUME IInv, Reads \/ Exits \/ DeadlinePasses \/ UNCHANGED vars
  PROVE  IInv'
<1> USE DEF IInv
<1>0. inq' \in 0..InCap
  <2>1. inq' = inq \/ (inq > 0 /\ inq' = inq - 1)
    BY DEF Reads, Exits, DeadlinePasses, vars, terminal
  <2>2. inq \in 0..InCap
    BY DEF Typed, TypeOK
  <2> QED
    BY <2>1, <2>2, CapAssumption
<1>1. /\ UNCHANGED <<script, driver, outq, sticky, wrote>>
      /\ inq' \in 0..InCap /\ late' \in BOOLEAN /\ (late => late')
      /\ cmd' = cmd \/ (cmd = NoStatus /\ cmd' \in Status)
  <2>1. /\ UNCHANGED <<script, driver, outq, sticky, wrote>>
        /\ cmd' = cmd \/ (cmd = NoStatus /\ cmd' \in Status)
    BY DEF Reads, Exits, DeadlinePasses, vars, terminal, command, driver
  <2>2. late' = late \/ late' = TRUE
    BY DEF Reads, Exits, DeadlinePasses, vars
  <2>3. late' \in BOOLEAN /\ (late => late')
    BY <2>2 DEF Typed, TypeOK
  <2> QED
    BY <1>0, <2>1, <2>3
<1>2. Typed'
  BY <1>1 DEF Typed, TypeOK, driver
<1>3. Matched'
  BY <1>1, SameScript, MatchedKept DEF driver
<1>4. Scripted' /\ Transcribed' /\ Reported'
  BY <1>1, StatusFacts DEF Scripted, Transcribed, Reported, driver
<1> QED
  BY <1>2, <1>3, <1>4

LEMMA NextIInv == IInv /\ [Next]_vars => IInv'
<1>1. ASSUME IInv, SendRefused \/ ClosedWhileWaiting \/ TimedOut \/ GiveUp PROVE IInv'
  BY <1>1, FailInv DEF SendRefused, ClosedWhileWaiting, TimedOut, GiveUp, At
<1> QED
  BY <1>1, NextLineInv, SendInv, ExpectedInv, ReadingInv, DrainedInv, ReapInv, WritesInv,
     CommandInv DEF Next, Driver

LEMMA Invariance == Spec => []IInv
  BY InitIInv, NextIInv, PTL DEF Spec
-----------------------------------------------------------------------------
(* Type correctness; the search never starts beyond the transcript.        *)
THEOREM TypeCorrect == Spec => []TypeOK
<1>1. IInv => TypeOK
  BY DEF IInv, Typed
<1> QED
  BY <1>1, Invariance, PTL

(* Every match is of its own expect's text, behind the one before it.      *)
THEOREM MatchesNeverOverlap == Spec => []MatchesAreDisjoint
<1>1. IInv => MatchesAreDisjoint
  BY DEF IInv, Matched, Answers, Nth, MatchesAreDisjoint
<1> QED
  BY <1>1, Invariance, PTL

(* The driver returns the command's own status of an ended command only,   *)
(* and only when every expect of the script has matched; every status but  *)
(* 1, 124 and 125 is such a one.                                           *)
THEOREM StatusMeansMatched == Spec => []OwnStatusMeansMatched
<1>1. ASSUME IInv PROVE OwnStatusMeansMatched
  <2> SUFFICES ASSUME dpc = "ended" \/ status \notin {NoStatus, 1, 124, 125}
               PROVE  cmd = status /\ Len(hits) = Cardinality(Expects)
    BY DEF OwnStatusMeansMatched
  <2>1. dpc = "ended"
    BY <1>1 DEF IInv, Reported
  <2>2. cmd = status /\ line = Len(script)
    BY <1>1, <2>1 DEF IInv, Reported, Scripted
  <2>3. Before(Len(script)) = Expects
    BY <1>1, ScriptFacts DEF IInv, Before, Expects
  <2> QED
    BY <1>1, <2>2, <2>3 DEF IInv, Matched
<1> QED
  BY <1>1, Invariance, PTL

(* The transcript is the command's output, whole if the run ends in time.  *)
THEOREM NothingIsLost == Spec => []TranscriptIsOutput
<1>1. ASSUME IInv PROVE TranscriptIsOutput
  <2>1. outq = <<>> => out \o outq = out
    BY <1>1, ConcatEmptySeq DEF IInv, Typed, TypeOK
  <2> QED
    BY <1>1, <2>1 DEF IInv, Transcribed, Reported, TranscriptIsOutput
<1> QED
  BY <1>1, Invariance, PTL
=============================================================================
