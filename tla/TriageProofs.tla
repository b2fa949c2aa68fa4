---------------------------- MODULE TriageProofs ----------------------------
(***************************************************************************)
(* What compare_identities (schedule.rs) says of any two finite scans, and *)
(* what triage_scan (triage.rs) makes of any output of a scanner: nothing  *)
(* is lost in the fold, the rows do not depend on the order of the output, *)
(* and a change between two outputs is named.                              *)
(*                                                                         *)
(* The fold and the sums are recursive functions over a sequence.  The     *)
(* argument about them is an induction on the length read; SetInduction is *)
(* that principle for a property given as a set of numbers, and            *)
(* RecursionExists gives the functions.  Faithful is the invariant of the  *)
(* fold, and a sorted list of rows is unique because no two rows compare   *)
(* equal (OrderUnique).                                                    *)
(***************************************************************************)
EXTENDS Triage, FiniteSetTheorems, SequenceTheorems, WellFoundedInduction, TLAPS

\* The counts compared are natural numbers; a scan with nothing new and as many
\* keys as before has the same keys.
LEMMA Counts ==
  ASSUME NEW previous, NEW current, IsFiniteSet(previous), IsFiniteSet(current)
  PROVE  /\ Cardinality(previous) \in Nat /\ Cardinality(current) \in Nat
         /\ Cardinality(previous) = 0 <=> previous = {}
         /\ Cardinality(current) = 0 <=> current = {}
         /\ current \subseteq previous =>
               /\ Cardinality(current) <= Cardinality(previous)
               /\ Cardinality(current) = Cardinality(previous) => current = previous
  BY FS_CardinalityType, FS_EmptySet, FS_Subset

\* A monitor is silent about a scan exactly when it found the very keys of the
\* scan before: neither a swap of issues nor a fix goes unmentioned.
THEOREM SilenceMeansSame ==
  ASSUME NEW previous, NEW current, IsFiniteSet(previous), IsFiniteSet(current)
  PROVE  CompareIdentities(previous, current) = "None" <=> previous = current
  <1> DEFINE from == Cardinality(previous)
             to   == Cardinality(current)
  <1>0. from \in Nat /\ to \in Nat /\ (from = 0 <=> previous = {})
    BY Counts
  <1>1. CASE previous = current
    <2>1. CompareIdentities(previous, current) = Compare(from, to)
      BY <1>1 DEF CompareIdentities
    <2>2. from = to
      BY <1>1
    <2>3. Compare(from, to) = "None"
      BY <1>0, <2>2 DEF Compare
    <2> QED
      BY <1>1, <2>1, <2>3
  <1>2. CASE previous # current /\ current \subseteq previous
    <2>1. to < from
      BY <1>0, <1>2, Counts
    <2>2. CompareIdentities(previous, current) = Compare(from, to)
      BY <1>2 DEF CompareIdentities
    <2>3. Compare(from, to) \in {"Resolved", "Better"}
      BY <1>0, <2>1 DEF Compare
    <2> QED
      BY <1>2, <2>2, <2>3
  <1>3. CASE ~(current \subseteq previous)
    <2>1. CASE to <= from /\ from > 0
      BY <1>3, <2>1 DEF CompareIdentities
    <2>2. CASE ~(to <= from /\ from > 0)
      <3>1. to > from
        BY <1>0, <1>3, <2>2, Counts
      <3>2. CompareIdentities(previous, current) = Compare(from, to)
        BY <2>2 DEF CompareIdentities
      <3>3. Compare(from, to) \in {"Appeared", "Worse"}
        BY <1>0, <3>1 DEF Compare
      <3> QED
        BY <1>3, <3>2, <3>3
    <2> QED
      BY <2>1, <2>2
  <1> QED
    BY <1>1, <1>2, <1>3

\* An issue that the last scan did not have is always announced as news
\* (Appeared, Worse or Replaced), and those three are used for nothing else.
THEOREM NewIssueIsNews ==
  ASSUME NEW previous, NEW current, IsFiniteSet(previous), IsFiniteSet(current)
  PROVE  CompareIdentities(previous, current) \in {"Appeared", "Worse", "Replaced"}
            <=> current \ previous # {}
  <1> DEFINE from == Cardinality(previous)
             to   == Cardinality(current)
  <1>0. from \in Nat /\ to \in Nat /\ (from = 0 <=> previous = {})
    BY Counts
  <1>1. CASE current \subseteq previous
    <2>1. to <= from
      BY <1>1, Counts
    <2>2. CompareIdentities(previous, current) = Compare(from, to)
      BY <1>1 DEF CompareIdentities
    <2>3. Compare(from, to) \in {"None", "Resolved", "Better"}
      BY <1>0, <2>1 DEF Compare
    <2> QED
      BY <1>1, <2>2, <2>3
  <1>2. CASE ~(current \subseteq previous)
    <2>1. CASE to <= from /\ from > 0
      BY <1>2, <2>1 DEF CompareIdentities
    <2>2. CASE ~(to <= from /\ from > 0)
      <3>1. to > from
        BY <1>0, <1>2, <2>2, Counts
      <3>2. CompareIdentities(previous, current) = Compare(from, to)
        BY <2>2 DEF CompareIdentities
      <3>3. Compare(from, to) \in {"Appeared", "Worse"}
        BY <1>0, <3>1 DEF Compare
      <3> QED
        BY <1>2, <3>2, <3>3
    <2> QED
      BY <2>1, <2>2
  <1> QED
    BY <1>1, <1>2
-----------------------------------------------------------------------------
(* Induction and recursion *)

\* Induction on the naturals, of a property given as the set of its numbers.
LEMMA SetInduction ==
  ASSUME NEW S, 0 \in S, \A k \in Nat : k \in S => k + 1 \in S
  PROVE  Nat \subseteq S
  <1> SUFFICES ASSUME Nat \ S # {} PROVE FALSE
    OBVIOUS
  <1>1. PICK R : R = OpToRel(<, Nat)
    OBVIOUS
  <1>2. IsWellFoundedOn(R, Nat)
    BY <1>1, NatLessThanWellFounded
  <1>3. PICK x \in Nat \ S : \A y \in Nat \ S : ~ (<<y, x>> \in R)
    BY <1>2, WFMin
  <1>4. \A y \in Nat : y < x => <<y, x>> \in R
    BY <1>1 DEF OpToRel
  <1>5. x # 0 /\ x - 1 \in Nat /\ x - 1 < x
    OBVIOUS
  <1>6. x - 1 \in S
    BY <1>3, <1>4, <1>5
  <1> QED
    BY <1>5, <1>6

\* A step from each number up to n to the next, and a function that follows it.
IsStep(step, n, A) == step \in [(1 .. n) \X A -> A]

Follows(f, n, A, start, step) ==
    /\ f \in [0 .. n -> A]
    /\ f[0] = start /\ \A k \in 1 .. n : f[k] = step[<<k, f[k - 1]>>]

\* A value for 0 and a step from each number to the next make a function.
LEMMA RecursionExists ==
  ASSUME NEW n \in Nat, NEW A, NEW start, start \in A, NEW step, IsStep(step, n, A)
  PROVE  \E f : Follows(f, n, A, start, step)
  <1>0. step \in [(1 .. n) \X A -> A]
    BY DEF IsStep
  <1> DEFINE Good(m) == \E f \in [0 .. m -> A] :
                           f[0] = start /\ \A k \in 1 .. m : k <= n => f[k] = step[<<k, f[k - 1]>>]
             S == {m \in Nat : Good(m)}
  <1>1. 0 \in S
    <2>1. PICK g : g = [i \in 0 .. 0 |-> start]
      OBVIOUS
    <2>2. g \in [0 .. 0 -> A] /\ g[0] = start
      BY <2>1
    <2>3. Good(0)
      BY <2>2
    <2> HIDE DEF Good
    <2> QED
      BY <2>3
  <1>2. ASSUME NEW m \in Nat, m \in S PROVE m + 1 \in S
    <2>1. PICK f \in [0 .. m -> A] : f[0] = start /\ \A k \in 1 .. m : k <= n => f[k] = step[<<k, f[k - 1]>>]
      BY <1>2
    <2>2. PICK v \in A : m + 1 <= n => v = step[<<m + 1, f[m]>>]
      <3>1. CASE m + 1 <= n
        <4>1. <<m + 1, f[m]>> \in (1 .. n) \X A
          BY <2>1, <3>1
        <4> QED
          BY <1>0, <4>1
      <3>2. CASE ~(m + 1 <= n)
        BY <3>2
      <3> QED
        BY <3>1, <3>2
    <2>3. PICK g : g = [k \in 0 .. m + 1 |-> IF k = m + 1 THEN v ELSE f[k]]
      OBVIOUS
    <2>4. g \in [0 .. m + 1 -> A] /\ g[0] = start
      BY <2>1, <2>3
    <2>5. ASSUME NEW k \in 1 .. m + 1, k <= n PROVE g[k] = step[<<k, g[k - 1]>>]
      <3>1. g[k - 1] = f[k - 1]
        BY <2>3
      <3>2. CASE k = m + 1
        BY <2>2, <2>3, <2>5, <3>1, <3>2
      <3>3. CASE k # m + 1
        BY <2>1, <2>3, <2>5, <3>1, <3>3
      <3> QED
        BY <3>2, <3>3
    <2>6. \A k \in 1 .. m + 1 : k <= n => g[k] = step[<<k, g[k - 1]>>]
      BY <2>5
    <2>7. Good(m + 1)
      BY <2>4, <2>6
    <2> HIDE DEF Good
    <2> QED
      BY <2>7
  <1>3. n \in S
    <2> HIDE DEF S
    <2> QED
      BY <1>1, <1>2, SetInduction
  <1>4. PICK f \in [0 .. n -> A] : f[0] = start /\ \A k \in 1 .. n : k <= n => f[k] = step[<<k, f[k - 1]>>]
    BY <1>3
  <1>5. Follows(f, n, A, start, step)
    BY <1>4 DEF Follows
  <1> QED
    BY <1>5

\* The numbers up to n are n numbers.
LEMMA Counting ==
  ASSUME NEW n \in Nat
  PROVE  IsFiniteSet(1 .. n) /\ Cardinality(1 .. n) = n
  <1>1. IsFiniteSet(1 .. n) /\ Cardinality(1 .. n) = IF 1 > n THEN 0 ELSE n - 1 + 1
    BY FS_Interval
  <1> QED
    BY <1>1
-----------------------------------------------------------------------------
(* One finding *)

USE DEF Info, Low, Medium, High, Critical, NoPriority, Urgent, Dispositions

\* What the rules table says of a finding, and where the title comes in the alphabet.
LEMMA ClassifyType ==
  ASSUME NEW f \in Findings
  PROVE  Classify(f).disposition \in Dispositions /\ Classify(f).priority \in Nat
  <1> DEFINE Good(c) == c.disposition \in Dispositions /\ c.priority \in Nat
  <1>1. \A p \in Nat : Good(Act(p)) /\ Good(Review(p))
    BY DEF Act, Review
  <1>2. Good(Inventory)
    BY DEF Inventory
  <1> HIDE DEF Good
  <1>3. Good(ClassifyHeader(f.matcher))
    BY <1>1 DEF ClassifyHeader
  <1>4. Good(ClassifyExpiry(f.matcher))
    BY <1>1, <1>2 DEF ClassifyExpiry
  <1>5. Good(ClassifyUnknown(f.severity))
    <2>1. f.severity \in 0 .. 4
      BY FindingsAssumption
    <2> QED
      BY <1>1, <1>2, <2>1 DEF ClassifyUnknown
  <1>6. Good(Classify(f))
    BY <1>1, <1>2, <1>3, <1>4, <1>5 DEF Classify
  <1> QED
    BY <1>6 DEF Good

\* The place of a title in the alphabet is a number of its own.
LEMMA TitleRankType ==
  ASSUME NEW f \in Findings, NEW g \in Findings
  PROVE  /\ TitleRank(DisplayTitle(f)) \in Nat
         /\ TitleRank(DisplayTitle(f)) = TitleRank(DisplayTitle(g)) => DisplayTitle(f) = DisplayTitle(g)
  <1>1. \A h \in Findings : /\ TitleRank(DisplayTitle(h)) \in DOMAIN Titles
                            /\ Titles[TitleRank(DisplayTitle(h))] = DisplayTitle(h)
    BY TitlesAssumption DEF TitleRank
  <1>2. DOMAIN Titles \subseteq Nat
    BY TitlesAssumption
  <1> QED
    BY <1>1, <1>2
-----------------------------------------------------------------------------
(* One round of collapse_duplicates *)

\* A row of the report.
Row == [title : {DisplayTitle(f) : f \in Findings}, priority : Nat, template : STRING,
        evidence : Seq(STRING), occurrences : Nat]

\* The findings among the first n that belong to bucket d under title t.
Titled(fs, n, d, t) ==
    {m \in 1 .. n : Classify(fs[m]).disposition = d /\ DisplayTitle(fs[m]) = t}

\* The rows are exactly what the first n findings amount to in bucket d: one row
\* for each title, as loud as the loudest of its findings and counting them all.
OneRowPerTitle(rows) == \A i, j \in DOMAIN rows : rows[i].title = rows[j].title => i = j

Faithful(rows, fs, n, d) ==
    /\ rows \in Seq(Row)
    /\ OneRowPerTitle(rows)
    /\ \A m \in 1 .. n : Classify(fs[m]).disposition = d =>
          \E i \in DOMAIN rows : rows[i].title = DisplayTitle(fs[m]) /\ rows[i].priority >= Classify(fs[m]).priority
    /\ \A i \in DOMAIN rows : /\ \E m \in Titled(fs, n, d, rows[i].title) : Classify(fs[m]).priority = rows[i].priority
                              /\ rows[i].occurrences = Cardinality(Titled(fs, n, d, rows[i].title))

\* Every row has the evidence of its findings, each piece of it and no other.
Pieces(fs, n, d, t) == UNION {Range(fs[m].evidence) : m \in Titled(fs, n, d, t)}

Evidenced(rows, fs, n, d) ==
    \A i \in DOMAIN rows : Range(rows[i].evidence) = Pieces(fs, n, d, rows[i].title)

\* A row has the evidence of two others.
Merges(row, x, y) == Range(row.evidence) = Range(x.evidence) \union Range(y.evidence)

\* triage makes a row of a finding.
LEMMA TriagedType ==
  ASSUME NEW f \in Findings
  PROVE  /\ Triaged(f) \in Row
         /\ Triaged(f).title = DisplayTitle(f)
         /\ Triaged(f).priority = Classify(f).priority
         /\ Triaged(f).occurrences = 1
         /\ Triaged(f).evidence = f.evidence
  <1>1. Classify(f).priority \in Nat
    BY ClassifyType
  <1>2. f.template \in STRING /\ f.evidence \in Seq(STRING)
    BY FindingsAssumption
  <1> QED
    BY <1>1, <1>2 DEF Triaged, Row

\* However evidence is added, it is the pieces of both.
LEMMA AddedEvidence ==
  ASSUME NEW a \in Seq(STRING), NEW b \in Seq(STRING)
  PROVE  /\ AddEvidence(a, b) \in Seq(STRING)
         /\ Range(AddEvidence(a, b)) = Range(a) \union Range(b)
  <1>1. CASE Len(b) = 1 /\ b[1] \in Range(a)
    <2>1. Range(b) = {b[1]}
      BY <1>1 DEF Range
    <2>2. AddEvidence(a, b) = a
      BY <1>1 DEF AddEvidence
    <2> QED
      BY <1>1, <2>1, <2>2
  <1>2. CASE ~(Len(b) = 1 /\ b[1] \in Range(a))
    <2>1. PICK c : c = a \o b
      OBVIOUS
    <2>2. PICK m \in Nat : m = Len(a) /\ DOMAIN a = 1 .. m
      OBVIOUS
    <2>3. PICK n \in Nat : n = Len(b) /\ DOMAIN b = 1 .. n
      OBVIOUS
    <2>4. c \in Seq(STRING) /\ DOMAIN c = 1 .. m + n
      BY <2>1, <2>2, <2>3
    <2>5. /\ \A k \in 1 .. m : c[k] = a[k]
          /\ \A k \in 1 .. n : c[m + k] = b[k]
          /\ \A k \in 1 .. m + n : k > m => c[k] = b[k - m]
      BY <2>1, <2>2, <2>3
    <2>6. Range(c) \subseteq Range(a) \union Range(b)
      <3> SUFFICES ASSUME NEW k \in 1 .. m + n PROVE c[k] \in Range(a) \union Range(b)
        BY <2>4 DEF Range
      <3>1. CASE k <= m
        BY <2>2, <2>5, <3>1 DEF Range
      <3>2. CASE k > m
        <4>1. k - m \in 1 .. n /\ c[k] = b[k - m]
          BY <2>5, <3>2
        <4> QED
          BY <2>3, <4>1 DEF Range
      <3> QED
        BY <3>1, <3>2
    <2>7. Range(a) \subseteq Range(c)
      BY <2>2, <2>4, <2>5 DEF Range
    <2>8. Range(b) \subseteq Range(c)
      <3> SUFFICES ASSUME NEW k \in 1 .. n PROVE b[k] \in Range(c)
        BY <2>3 DEF Range
      <3>1. m + k \in 1 .. m + n
        OBVIOUS
      <3> QED
        BY <2>4, <2>5, <3>1 DEF Range
    <2>9. AddEvidence(a, b) = c
      BY <1>2, <2>1 DEF AddEvidence
    <2> QED
      BY <2>4, <2>6, <2>7, <2>8, <2>9
  <1> QED
    BY <1>1, <1>2

\* The row that a finding is folded into.
LEMMA JoinedRow ==
  ASSUME NEW r \in Row, NEW new \in Row
  PROVE  /\ Joined(r, new) \in Row
         /\ Joined(r, new).title = r.title /\ Joined(r, new).occurrences = r.occurrences + 1
         /\ Joined(r, new).priority >= new.priority /\ Joined(r, new).priority >= r.priority
         /\ Joined(r, new).priority = new.priority \/ Joined(r, new).priority = r.priority
         /\ Merges(Joined(r, new), r, new)
  <1>0. PICK s : s = Joined(r, new)
    OBVIOUS
  <1>1. PICK p \in Nat : p = new.priority
    BY DEF Row
  <1>2. r.priority \in Nat /\ r.occurrences \in Nat
    BY DEF Row
  <1>3. r.evidence \in Seq(STRING) /\ new.evidence \in Seq(STRING)
    BY DEF Row
  <1>4. PICK e : e = AddEvidence(r.evidence, new.evidence)
    OBVIOUS
  <1>5. e \in Seq(STRING) /\ Range(e) = Range(r.evidence) \union Range(new.evidence)
    BY <1>3, <1>4, AddedEvidence
  <1>6. PICK o \in Nat : o = r.occurrences + 1
    BY <1>2
  <1>7. PICK h \in Nat : h = IF p > r.priority THEN p ELSE r.priority
    BY <1>2
  <1>8. s = [r EXCEPT !.occurrences = o, !.evidence = e, !.priority = h]
    BY <1>0, <1>1, <1>4, <1>6, <1>7 DEF Joined
  <1>9. s = [title |-> r.title, priority |-> h, template |-> r.template, evidence |-> e, occurrences |-> o]
    BY <1>8 DEF Row
  <1>10. r.title \in {DisplayTitle(f) : f \in Findings} /\ r.template \in STRING
    BY DEF Row
  <1>11. s \in Row
    BY <1>5, <1>9, <1>10 DEF Row
  <1>12. s.title = r.title /\ s.priority = h /\ s.occurrences = o /\ s.evidence = e
    BY <1>9
  <1>13. h >= p /\ h >= r.priority /\ (h = p \/ h = r.priority)
    BY <1>2, <1>7
  <1>14. Merges(s, r, new)
    BY <1>5, <1>12 DEF Merges
  <1> QED
    BY <1>0, <1>1, <1>6, <1>11, <1>12, <1>13, <1>14

\* Fold, when the title is there: that row changes, and no other.
LEMMA FoldIn ==
  ASSUME NEW rows \in Seq(Row), OneRowPerTitle(rows), NEW row \in Row,
         NEW i \in DOMAIN rows, rows[i].title = row.title
  PROVE  /\ Fold(rows, row) \in Seq(Row) /\ DOMAIN Fold(rows, row) = DOMAIN rows
         /\ \A j \in DOMAIN rows : j # i => Fold(rows, row)[j] = rows[j]
         /\ Fold(rows, row)[i].title = row.title
         /\ Fold(rows, row)[i].occurrences = rows[i].occurrences + 1
         /\ Fold(rows, row)[i].priority >= row.priority
         /\ Fold(rows, row)[i].priority >= rows[i].priority
         /\ Fold(rows, row)[i].priority = row.priority \/ Fold(rows, row)[i].priority = rows[i].priority
         /\ Merges(Fold(rows, row)[i], rows[i], row)
  <1>3. PICK r \in Row : r = rows[i]
    OBVIOUS
  <1>4. PICK s : s = Joined(r, row)
    OBVIOUS
  <1>5. /\ s \in Row
        /\ s.title = r.title /\ s.occurrences = r.occurrences + 1
        /\ s.priority >= row.priority /\ s.priority >= r.priority
        /\ s.priority = row.priority \/ s.priority = r.priority
        /\ Merges(s, r, row)
    BY <1>4, JoinedRow
  <1>6. PICK new : new = Fold(rows, row)
    OBVIOUS
  <1>7. new = [j \in DOMAIN rows |-> IF rows[j].title = row.title THEN Joined(rows[j], row) ELSE rows[j]]
    BY <1>6 DEF Fold
  <1>8. \A j \in DOMAIN rows : rows[j].title = row.title <=> j = i
    BY DEF OneRowPerTitle
  <1>9. new = [j \in DOMAIN rows |-> IF j = i THEN s ELSE rows[j]]
    BY <1>3, <1>4, <1>7, <1>8
  <1>10. new \in Seq(Row) /\ DOMAIN new = DOMAIN rows /\ new[i] = s /\ \A j \in DOMAIN rows : j # i => new[j] = rows[j]
    <2>1. DOMAIN rows = 1 .. Len(rows) /\ Len(rows) \in Nat
      OBVIOUS
    <2>2. \A j \in 1 .. Len(rows) : (IF j = i THEN s ELSE rows[j]) \in Row
      BY <1>5, <2>1
    <2> QED
      BY <1>9, <2>1, <2>2
  <1> QED
    BY <1>3, <1>5, <1>6, <1>10

\* Fold, when the title is new.
LEMMA FoldOn ==
  ASSUME NEW rows \in Seq(Row), NEW row \in Row, \A i \in DOMAIN rows : rows[i].title # row.title
  PROVE  /\ Fold(rows, row) \in Seq(Row) /\ Len(rows) \in Nat
         /\ DOMAIN rows = 1 .. Len(rows) /\ DOMAIN Fold(rows, row) = 1 .. Len(rows) + 1
         /\ \A j \in DOMAIN rows : Fold(rows, row)[j] = rows[j]
         /\ Fold(rows, row)[Len(rows) + 1] = row
  <1>1. Fold(rows, row) = Append(rows, row)
    BY DEF Fold
  <1> QED
    BY <1>1

\* The findings under a title can be counted, and one of another title or bucket
\* is not among them.
LEMMA TitledSame ==
  ASSUME NEW fs, NEW n \in Nat, NEW d, NEW t
  PROVE  /\ Titled(fs, n, d, t) \subseteq 1 .. n
         /\ IsFiniteSet(Titled(fs, n, d, t)) /\ Cardinality(Titled(fs, n, d, t)) \in Nat
         /\ ~(Classify(fs[n + 1]).disposition = d /\ DisplayTitle(fs[n + 1]) = t) =>
               Titled(fs, n + 1, d, t) = Titled(fs, n, d, t)
  <1>1. IsFiniteSet(1 .. n)
    BY FS_Interval
  <1>2. Titled(fs, n, d, t) \in SUBSET (1 .. n)
    BY DEF Titled
  <1>3. IsFiniteSet(Titled(fs, n, d, t))
    BY <1>1, <1>2, FS_Subset
  <1>4. Cardinality(Titled(fs, n, d, t)) \in Nat
    BY <1>3, FS_CardinalityType
  <1>5. ASSUME NEW m PROVE m \in 1 .. n + 1 <=> (m \in 1 .. n \/ m = n + 1)
    OBVIOUS
  <1>6. ASSUME ~(Classify(fs[n + 1]).disposition = d /\ DisplayTitle(fs[n + 1]) = t)
        PROVE  Titled(fs, n + 1, d, t) = Titled(fs, n, d, t)
    BY <1>5, <1>6 DEF Titled
  <1> QED
    BY <1>2, <1>3, <1>4, <1>6

\* One more finding under the title is one more.
LEMMA TitledMore ==
  ASSUME NEW fs \in Seq(Findings), NEW n \in Nat, NEW d, NEW t,
         Classify(fs[n + 1]).disposition = d, DisplayTitle(fs[n + 1]) = t
  PROVE  /\ n + 1 \in Titled(fs, n + 1, d, t)
         /\ Titled(fs, n, d, t) \subseteq Titled(fs, n + 1, d, t)
         /\ Cardinality(Titled(fs, n + 1, d, t)) = Cardinality(Titled(fs, n, d, t)) + 1
  <1>1. ASSUME NEW m PROVE m \in 1 .. n + 1 <=> (m \in 1 .. n \/ m = n + 1)
    OBVIOUS
  <1>2. Titled(fs, n + 1, d, t) = Titled(fs, n, d, t) \union {n + 1}
    BY <1>1 DEF Titled
  <1>3. n + 1 \notin Titled(fs, n, d, t)
    BY DEF Titled
  <1>4. Cardinality(Titled(fs, n, d, t) \union {n + 1}) = Cardinality(Titled(fs, n, d, t)) + 1
    BY <1>3, TitledSame, FS_AddElement
  <1> QED
    BY <1>2, <1>4

\* A finding of another bucket changes nothing.
LEMMA FaithfulSkip ==
  ASSUME NEW fs \in Seq(Findings), NEW n \in Nat, NEW d, NEW rows,
         Faithful(rows, fs, n, d), Classify(fs[n + 1]).disposition # d
  PROVE  Faithful(rows, fs, n + 1, d)
  <1>1. \A t : Titled(fs, n + 1, d, t) = Titled(fs, n, d, t)
    BY TitledSame
  <1>2. \A m \in 1 .. n + 1 : m = n + 1 \/ m \in 1 .. n
    OBVIOUS
  <1> QED
    BY <1>1, <1>2 DEF Faithful

\* A finding of this bucket is folded in.
LEMMA FaithfulFold ==
  ASSUME NEW fs \in Seq(Findings), NEW n \in Nat, n + 1 <= Len(fs), NEW d, NEW rows,
         Faithful(rows, fs, n, d), Classify(fs[n + 1]).disposition = d
  PROVE  Faithful(Fold(rows, Triaged(fs[n + 1])), fs, n + 1, d)
  <1>1. PICK f \in Findings : f = fs[n + 1]
    OBVIOUS
  <1>2. PICK row \in Row : /\ row = Triaged(f) /\ row.title = DisplayTitle(f)
                           /\ row.priority = Classify(f).priority /\ row.occurrences = 1
    BY TriagedType
  <1>3. PICK new : new = Fold(rows, row)
    OBVIOUS
  <1>4. rows \in Seq(Row) /\ OneRowPerTitle(rows)
    BY DEF Faithful
  <1>5. \A t : t # row.title => Titled(fs, n + 1, d, t) = Titled(fs, n, d, t)
    BY <1>1, <1>2, TitledSame
  <1>6. /\ n + 1 \in Titled(fs, n + 1, d, row.title)
        /\ Titled(fs, n, d, row.title) \subseteq Titled(fs, n + 1, d, row.title)
        /\ Cardinality(Titled(fs, n + 1, d, row.title)) = Cardinality(Titled(fs, n, d, row.title)) + 1
    <2>1. PICK t : t = row.title
      OBVIOUS
    <2>2. Classify(fs[n + 1]).disposition = d /\ DisplayTitle(fs[n + 1]) = t
      BY <1>1, <1>2, <2>1
    <2>3. n + 1 \in Titled(fs, n + 1, d, t)
      BY <2>2, TitledMore
    <2>4. Titled(fs, n, d, t) \subseteq Titled(fs, n + 1, d, t)
      BY <2>2, TitledMore
    <2>5. Cardinality(Titled(fs, n + 1, d, t)) = Cardinality(Titled(fs, n, d, t)) + 1
      BY <2>2, TitledMore
    <2> QED
      BY <2>1, <2>3, <2>4, <2>5
  <1>7. \A m \in 1 .. n + 1 : m = n + 1 \/ m \in 1 .. n
    OBVIOUS
  <1>8. CASE \E i \in DOMAIN rows : rows[i].title = row.title
    <2>1. PICK i \in DOMAIN rows : rows[i].title = row.title
      BY <1>8
    <2>2. /\ new \in Seq(Row) /\ DOMAIN new = DOMAIN rows
          /\ \A j \in DOMAIN rows : j # i => new[j] = rows[j]
          /\ new[i].title = row.title
          /\ new[i].occurrences = rows[i].occurrences + 1
          /\ new[i].priority >= row.priority
          /\ new[i].priority >= rows[i].priority
          /\ new[i].priority = row.priority \/ new[i].priority = rows[i].priority
      BY <1>3, <1>4, <2>1, FoldIn
    <2>3. \A j \in DOMAIN rows : new[j].title = rows[j].title
      BY <2>1, <2>2
    <2>4. OneRowPerTitle(new)
      BY <1>4, <2>2, <2>3 DEF OneRowPerTitle
    <2>5. \A j \in DOMAIN rows : /\ new[j] \in Row /\ rows[j] \in Row
                                 /\ new[j].priority \in Nat /\ rows[j].priority \in Nat
                                 /\ new[j].priority >= rows[j].priority
      <3>1. \A j \in DOMAIN rows : new[j] \in Row /\ rows[j] \in Row
        BY <1>4, <2>2
      <3>2. \A j \in DOMAIN rows : new[j].priority \in Nat /\ rows[j].priority \in Nat
        BY <3>1 DEF Row
      <3>3. \A j \in DOMAIN rows : new[j].priority >= rows[j].priority
        <4> SUFFICES ASSUME NEW j \in DOMAIN rows PROVE new[j].priority >= rows[j].priority
          OBVIOUS
        <4>1. CASE j = i
          BY <2>2, <4>1
        <4>2. CASE j # i
          <5>1. new[j].priority = rows[j].priority /\ rows[j].priority \in Nat
            BY <2>2, <3>2, <4>2
          <5> QED
            BY <5>1
        <4> QED
          BY <4>1, <4>2
      <3> QED
        BY <3>1, <3>2, <3>3
    <2>6. ASSUME NEW m \in 1 .. n + 1, Classify(fs[m]).disposition = d
          PROVE  \E j \in DOMAIN new : new[j].title = DisplayTitle(fs[m]) /\ new[j].priority >= Classify(fs[m]).priority
      <3>1. CASE m = n + 1
        BY <1>1, <1>2, <2>2, <3>1
      <3>2. CASE m \in 1 .. n
        <4>1. PICK j \in DOMAIN rows : rows[j].title = DisplayTitle(fs[m]) /\ rows[j].priority >= Classify(fs[m]).priority
          BY <2>6, <3>2 DEF Faithful
        <4>2. fs[m] \in Findings
          BY <3>2
        <4>3. Classify(fs[m]).priority \in Nat
          BY <4>2, ClassifyType
        <4>4. new[j].priority >= Classify(fs[m]).priority
          BY <2>5, <4>1, <4>3
        <4> QED
          BY <2>2, <2>3, <4>1, <4>4
      <3> QED
        BY <1>7, <3>1, <3>2
    <2>7. ASSUME NEW j \in DOMAIN new
          PROVE  /\ \E m \in Titled(fs, n + 1, d, new[j].title) : Classify(fs[m]).priority = new[j].priority
                 /\ new[j].occurrences = Cardinality(Titled(fs, n + 1, d, new[j].title))
      <3>1. /\ \E m \in Titled(fs, n, d, rows[j].title) : Classify(fs[m]).priority = rows[j].priority
            /\ rows[j].occurrences = Cardinality(Titled(fs, n, d, rows[j].title))
        BY <2>2, <2>7 DEF Faithful
      <3>2. CASE j = i
        BY <1>1, <1>2, <1>6, <2>1, <2>2, <3>1, <3>2
      <3>3. CASE j # i
        <4>1. new[j] = rows[j] /\ rows[j].title # row.title
          BY <1>4, <2>1, <2>2, <2>7, <3>3 DEF OneRowPerTitle
        <4> QED
          BY <1>5, <3>1, <4>1
      <3> QED
        BY <3>2, <3>3
    <2>8. Faithful(new, fs, n + 1, d)
      BY <2>2, <2>4, <2>6, <2>7 DEF Faithful
    <2> QED
      BY <1>1, <1>2, <1>3, <2>8
  <1>9. CASE \A i \in DOMAIN rows : rows[i].title # row.title
    <2>1. /\ new \in Seq(Row) /\ Len(rows) \in Nat
          /\ DOMAIN rows = 1 .. Len(rows) /\ DOMAIN new = 1 .. Len(rows) + 1
          /\ \A j \in DOMAIN rows : new[j] = rows[j]
          /\ new[Len(rows) + 1] = row
      BY <1>3, <1>4, <1>9, FoldOn
    <2>2. \A j \in DOMAIN new : j = Len(rows) + 1 \/ j \in DOMAIN rows
      BY <2>1
    <2>3. OneRowPerTitle(new)
      BY <1>4, <1>9, <2>1, <2>2 DEF OneRowPerTitle
    <2>4. DOMAIN rows \subseteq DOMAIN new /\ Len(rows) + 1 \in DOMAIN new
      BY <2>1
    <2>5. ASSUME NEW m \in 1 .. n + 1, Classify(fs[m]).disposition = d
          PROVE  \E j \in DOMAIN new : new[j].title = DisplayTitle(fs[m]) /\ new[j].priority >= Classify(fs[m]).priority
      <3>1. CASE m = n + 1
        <4>1. row.priority >= row.priority
          BY DEF Row
        <4> QED
          BY <1>1, <1>2, <2>1, <2>4, <3>1, <4>1
      <3>2. CASE m \in 1 .. n
        <4>1. PICK j \in DOMAIN rows : rows[j].title = DisplayTitle(fs[m]) /\ rows[j].priority >= Classify(fs[m]).priority
          BY <2>5, <3>2 DEF Faithful
        <4> QED
          BY <2>1, <2>4, <4>1
      <3> QED
        BY <1>7, <3>1, <3>2
    <2>6. Titled(fs, n, d, row.title) = {}
      BY <1>9 DEF Faithful, Titled
    <2>7. Cardinality(Titled(fs, n + 1, d, row.title)) = 1
      BY <1>6, <2>6, FS_EmptySet
    <2>8. ASSUME NEW j \in DOMAIN new
          PROVE  /\ \E m \in Titled(fs, n + 1, d, new[j].title) : Classify(fs[m]).priority = new[j].priority
                 /\ new[j].occurrences = Cardinality(Titled(fs, n + 1, d, new[j].title))
      <3>1. CASE j = Len(rows) + 1
        BY <1>1, <1>2, <1>6, <2>1, <2>7, <3>1
      <3>2. CASE j \in DOMAIN rows
        <4>1. new[j] = rows[j] /\ Titled(fs, n + 1, d, new[j].title) = Titled(fs, n, d, rows[j].title)
          BY <1>5, <1>9, <2>1, <3>2
        <4>2. /\ \E m \in Titled(fs, n, d, rows[j].title) : Classify(fs[m]).priority = rows[j].priority
              /\ rows[j].occurrences = Cardinality(Titled(fs, n, d, rows[j].title))
          BY <3>2 DEF Faithful
        <4> QED
          BY <4>1, <4>2
      <3> QED
        BY <2>2, <3>1, <3>2
    <2>9. Faithful(new, fs, n + 1, d)
      BY <2>1, <2>3, <2>5, <2>8 DEF Faithful
    <2> QED
      BY <1>1, <1>2, <1>3, <2>9
  <1> QED
    BY <1>8, <1>9

\* A finding of another bucket adds no evidence to this one.
LEMMA EvidencedSkip ==
  ASSUME NEW fs, NEW n \in Nat, NEW d, NEW rows,
         Evidenced(rows, fs, n, d), Classify(fs[n + 1]).disposition # d
  PROVE  Evidenced(rows, fs, n + 1, d)
  <1>1. \A t : Titled(fs, n + 1, d, t) = Titled(fs, n, d, t)
    BY TitledSame
  <1> QED
    BY <1>1 DEF Evidenced, Pieces

\* A finding of this bucket adds its evidence to the row of its title.
LEMMA EvidencedFold ==
  ASSUME NEW fs \in Seq(Findings), NEW n \in Nat, n + 1 <= Len(fs), NEW d, NEW rows,
         Faithful(rows, fs, n, d), Evidenced(rows, fs, n, d), Classify(fs[n + 1]).disposition = d
  PROVE  Evidenced(Fold(rows, Triaged(fs[n + 1])), fs, n + 1, d)
  <1>1. PICK f \in Findings : f = fs[n + 1]
    OBVIOUS
  <1>2. PICK row \in Row : row = Triaged(f) /\ row.title = DisplayTitle(f) /\ row.evidence = f.evidence
    BY TriagedType
  <1>3. PICK new : new = Fold(rows, row)
    OBVIOUS
  <1>4. rows \in Seq(Row) /\ OneRowPerTitle(rows)
    BY DEF Faithful
  <1>5. \A t : t # row.title => Pieces(fs, n + 1, d, t) = Pieces(fs, n, d, t)
    <2>1. \A t : t # row.title => Titled(fs, n + 1, d, t) = Titled(fs, n, d, t)
      BY <1>1, <1>2, TitledSame
    <2> QED
      BY <2>1 DEF Pieces
  <1>6. Pieces(fs, n + 1, d, row.title) = Pieces(fs, n, d, row.title) \union Range(row.evidence)
    <2>1. \A m : m \in 1 .. n + 1 <=> (m \in 1 .. n \/ m = n + 1)
      OBVIOUS
    <2>2. PICK t : t = row.title
      OBVIOUS
    <2>3. Titled(fs, n + 1, d, t) = Titled(fs, n, d, t) \union {n + 1}
      BY <1>1, <1>2, <2>1, <2>2 DEF Titled
    <2>4. Pieces(fs, n + 1, d, t) = Pieces(fs, n, d, t) \union Range(fs[n + 1].evidence)
      BY <2>3 DEF Pieces
    <2> QED
      BY <1>1, <1>2, <2>2, <2>4
  <1>7. CASE \E i \in DOMAIN rows : rows[i].title = row.title
    <2>1. PICK i \in DOMAIN rows : rows[i].title = row.title
      BY <1>7
    <2>2. /\ DOMAIN new = DOMAIN rows
          /\ \A j \in DOMAIN rows : j # i => new[j] = rows[j]
          /\ new[i].title = row.title
          /\ Range(new[i].evidence) = Range(rows[i].evidence) \union Range(row.evidence)
      <3>1. DOMAIN Fold(rows, row) = DOMAIN rows
        BY <1>4, <2>1, FoldIn
      <3>2. \A j \in DOMAIN rows : j # i => Fold(rows, row)[j] = rows[j]
        BY <1>4, <2>1, FoldIn
      <3>3. Fold(rows, row)[i].title = row.title
        BY <1>4, <2>1, FoldIn
      <3>4. Merges(Fold(rows, row)[i], rows[i], row)
        BY <1>4, <2>1, FoldIn
      <3>5. Merges(new[i], rows[i], row)
        BY <1>3, <3>4
      <3> QED
        BY <1>3, <3>1, <3>2, <3>3, <3>5 DEF Merges
    <2>3. ASSUME NEW j \in DOMAIN new PROVE Range(new[j].evidence) = Pieces(fs, n + 1, d, new[j].title)
      <3>1. Range(rows[j].evidence) = Pieces(fs, n, d, rows[j].title)
        BY <2>2 DEF Evidenced
      <3>2. CASE j = i
        BY <1>6, <2>1, <2>2, <3>1, <3>2
      <3>3. CASE j # i
        <4>1. new[j] = rows[j] /\ rows[j].title # row.title
          BY <1>4, <2>1, <2>2, <2>3, <3>3 DEF OneRowPerTitle
        <4> QED
          BY <1>5, <3>1, <4>1
      <3> QED
        BY <3>2, <3>3
    <2> QED
      BY <1>1, <1>2, <1>3, <2>3 DEF Evidenced
  <1>8. CASE \A i \in DOMAIN rows : rows[i].title # row.title
    <2>1. /\ Len(rows) \in Nat /\ DOMAIN rows = 1 .. Len(rows) /\ DOMAIN new = 1 .. Len(rows) + 1
          /\ \A j \in DOMAIN rows : new[j] = rows[j]
          /\ new[Len(rows) + 1] = row
      BY <1>3, <1>4, <1>8, FoldOn
    <2>2. Pieces(fs, n, d, row.title) = {}
      <3>1. Titled(fs, n, d, row.title) = {}
        BY <1>8 DEF Faithful, Titled
      <3> QED
        BY <3>1 DEF Pieces
    <2>3. ASSUME NEW j \in DOMAIN new PROVE Range(new[j].evidence) = Pieces(fs, n + 1, d, new[j].title)
      <3>1. CASE j = Len(rows) + 1
        <4>1. new[j] = row
          BY <2>1, <3>1
        <4>2. Pieces(fs, n + 1, d, row.title) = Range(row.evidence)
          BY <1>6, <2>2
        <4> QED
          BY <4>1, <4>2
      <3>2. CASE j \in DOMAIN rows
        <4>1. new[j] = rows[j] /\ rows[j].title # row.title
          BY <1>8, <2>1, <3>2
        <4>2. Range(rows[j].evidence) = Pieces(fs, n, d, rows[j].title)
          BY <3>2 DEF Evidenced
        <4> QED
          BY <1>5, <4>1, <4>2
      <3> QED
        BY <2>1, <3>1, <3>2
    <2> QED
      BY <1>1, <1>2, <1>3, <2>3 DEF Evidenced
  <1> QED
    BY <1>7, <1>8

\* Fold makes rows of rows.
LEMMA FoldType ==
  ASSUME NEW rows \in Seq(Row), NEW row \in Row
  PROVE  Fold(rows, row) \in Seq(Row)
  <1>1. CASE \E i \in DOMAIN rows : rows[i].title = row.title
    <2>2. ASSUME NEW i \in DOMAIN rows PROVE Joined(rows[i], row) \in Row
      <3>1. PICK r \in Row : r = rows[i]
        OBVIOUS
      <3>2. Joined(r, row) \in Row
        BY JoinedRow
      <3> QED
        BY <3>1, <3>2
    <2>3. DOMAIN rows = 1 .. Len(rows) /\ Len(rows) \in Nat
      OBVIOUS
    <2>4. PICK new : new = [i \in DOMAIN rows |-> IF rows[i].title = row.title
                                                  THEN Joined(rows[i], row) ELSE rows[i]]
      OBVIOUS
    <2>5. new \in [1 .. Len(rows) -> Row]
      BY <2>2, <2>3, <2>4
    <2>6. new \in Seq(Row)
      BY <2>3, <2>5
    <2>7. Fold(rows, row) = new
      BY <1>1, <2>4 DEF Fold
    <2> QED
      BY <2>6, <2>7
  <1>2. CASE ~\E i \in DOMAIN rows : rows[i].title = row.title
    BY <1>2 DEF Fold
  <1> QED
    BY <1>1, <1>2
-----------------------------------------------------------------------------
(* collapse_duplicates *)

\* What collapse_duplicates makes of the first n findings, for every n.
Round(rows, fs, n, d) ==
    IF Classify(fs[n]).disposition = d THEN Fold(rows, Triaged(fs[n])) ELSE rows

Rounds(fs, d) ==
    CHOOSE h : h = [n \in 0 .. Len(fs) |-> IF n = 0 THEN << >> ELSE Round(h[n - 1], fs, n, d)]

\* The rounds of the loop follow each other.
LEMMA RoundsDef ==
  ASSUME NEW fs \in Seq(Findings), NEW d
  PROVE  /\ Rounds(fs, d) = [n \in 0 .. Len(fs) |-> IF n = 0 THEN << >> ELSE Round(Rounds(fs, d)[n - 1], fs, n, d)]
         /\ Collapse(fs, d) = Rounds(fs, d)[Len(fs)]
  <1>1. PICK N \in Nat : N = Len(fs)
    OBVIOUS
  <1>2. PICK step : step = [ka \in (1 .. N) \X Seq(Row) |-> Round(ka[2], fs, ka[1], d)]
    OBVIOUS
  <1>3. ASSUME NEW k \in 1 .. N, NEW a \in Seq(Row) PROVE Round(a, fs, k, d) \in Seq(Row)
    <2>1. fs[k] \in Findings
      BY <1>1
    <2>2. Triaged(fs[k]) \in Row
      BY <2>1, TriagedType
    <2>3. Fold(a, Triaged(fs[k])) \in Seq(Row)
      BY <2>2, FoldType
    <2> QED
      BY <2>3 DEF Round
  <1>4. step \in [(1 .. N) \X Seq(Row) -> Seq(Row)]
    BY <1>2, <1>3
  <1>5. PICK h \in [0 .. N -> Seq(Row)] : h[0] = << >> /\ \A k \in 1 .. N : h[k] = step[<<k, h[k - 1]>>]
    <2>1. PICK A : A = Seq(Row)
      OBVIOUS
    <2>2. PICK start : start = << >>
      OBVIOUS
    <2>3. start \in A /\ IsStep(step, N, A)
      BY <1>4, <2>1, <2>2 DEF IsStep
    <2>4. PICK h : Follows(h, N, A, start, step)
      BY <2>3, RecursionExists
    <2> QED
      BY <2>1, <2>2, <2>4 DEF Follows
  <1>6. \A k \in 1 .. N : h[k] = Round(h[k - 1], fs, k, d)
    <2> SUFFICES ASSUME NEW k \in 1 .. N PROVE h[k] = Round(h[k - 1], fs, k, d)
      OBVIOUS
    <2>1. h[k - 1] \in Seq(Row)
      BY <1>5
    <2>2. step[<<k, h[k - 1]>>] = Round(h[k - 1], fs, k, d)
      BY <1>2, <2>1
    <2> QED
      BY <1>5, <2>2
  <1>7. h = [n \in 0 .. Len(fs) |-> IF n = 0 THEN << >> ELSE Round(h[n - 1], fs, n, d)]
    <2>1. \A n \in 0 .. N : h[n] = IF n = 0 THEN << >> ELSE Round(h[n - 1], fs, n, d)
      BY <1>5, <1>6
    <2>2. h = [n \in 0 .. N |-> h[n]]
      BY <1>5
    <2> QED
      BY <1>1, <2>1, <2>2
  <1>8. Rounds(fs, d) = [n \in 0 .. Len(fs) |-> IF n = 0 THEN << >> ELSE Round(Rounds(fs, d)[n - 1], fs, n, d)]
    BY <1>7, Zenon DEF Rounds
  <1>9. Collapse(fs, d) = Rounds(fs, d)[Len(fs)]
    BY DEF Collapse, Rounds, Round
  <1> QED
    BY <1>8, <1>9

\* The rows of a bucket are faithful to the findings.
LEMMA CollapseFaithful ==
  ASSUME NEW fs \in Seq(Findings), NEW d
  PROVE  Faithful(Collapse(fs, d), fs, Len(fs), d) /\ Evidenced(Collapse(fs, d), fs, Len(fs), d)
  <1>1. PICK h : h = Rounds(fs, d)
    OBVIOUS
  <1>2. PICK N \in Nat : N = Len(fs)
    OBVIOUS
  <1>3. h = [n \in 0 .. N |-> IF n = 0 THEN << >> ELSE Round(h[n - 1], fs, n, d)]
    BY <1>1, <1>2, RoundsDef
  <1>4. PICK S : S = {n \in Nat : n <= N => Faithful(h[n], fs, n, d) /\ Evidenced(h[n], fs, n, d)}
    OBVIOUS
  <1>5. 0 \in S
    <2>1. h[0] = << >>
      BY <1>3
    <2>2. Faithful(<< >>, fs, 0, d) /\ Evidenced(<< >>, fs, 0, d)
      BY DEF Faithful, OneRowPerTitle, Evidenced
    <2> QED
      BY <1>4, <2>1, <2>2
  <1>6. ASSUME NEW n \in Nat, n \in S PROVE n + 1 \in S
    <2> SUFFICES ASSUME n + 1 <= N PROVE Faithful(h[n + 1], fs, n + 1, d) /\ Evidenced(h[n + 1], fs, n + 1, d)
      BY <1>4
    <2>1. Faithful(h[n], fs, n, d) /\ Evidenced(h[n], fs, n, d)
      BY <1>4, <1>6
    <2>2. h[n + 1] = Round(h[n], fs, n + 1, d)
      BY <1>3
    <2>3. CASE Classify(fs[n + 1]).disposition = d
      BY <1>2, <2>1, <2>2, <2>3, FaithfulFold, EvidencedFold DEF Round
    <2>4. CASE Classify(fs[n + 1]).disposition # d
      BY <2>1, <2>2, <2>4, FaithfulSkip, EvidencedSkip DEF Round
    <2> QED
      BY <2>3, <2>4
  <1>7. N \in S
    BY <1>5, <1>6, SetInduction
  <1> QED
    BY <1>1, <1>2, <1>4, <1>7, RoundsDef
-----------------------------------------------------------------------------
(* sort_by *)

\* Rows with different titles are in a strict total order.
LEMMA BeforeOrder ==
  ASSUME NEW rows \in Seq(Row), OneRowPerTitle(rows),
         NEW i \in DOMAIN rows, NEW j \in DOMAIN rows, NEW k \in DOMAIN rows
  PROVE  /\ ~Before(rows[i], rows[i])
         /\ i # j => (Before(rows[i], rows[j]) <=> ~Before(rows[j], rows[i]))
         /\ Before(rows[i], rows[j]) /\ Before(rows[j], rows[k]) => Before(rows[i], rows[k])
  <1> DEFINE rank(m) == TitleRank(rows[m].title)
             pri(m)  == rows[m].priority
  <1>1. \A m \in DOMAIN rows : rows[m] \in Row
    OBVIOUS
  <1>2. \A m \in DOMAIN rows : pri(m) \in Nat /\ \E f \in Findings : rows[m].title = DisplayTitle(f)
    BY <1>1 DEF Row
  <1>3. \A m \in DOMAIN rows : rank(m) \in Nat
    BY <1>2, TitleRankType
  <1>4. ASSUME i # j PROVE rank(i) # rank(j)
    <2>1. rows[i].title # rows[j].title
      BY <1>4 DEF OneRowPerTitle
    <2>2. PICK f \in Findings : rows[i].title = DisplayTitle(f)
      BY <1>2
    <2>3. PICK g \in Findings : rows[j].title = DisplayTitle(g)
      BY <1>2
    <2> QED
      BY <2>1, <2>2, <2>3, TitleRankType
  <1>5. \A a, b \in DOMAIN rows :
           Before(rows[a], rows[b]) <=> (pri(a) > pri(b) \/ (pri(a) = pri(b) /\ rank(a) < rank(b)))
    BY DEF Before
  <1> HIDE DEF rank, pri
  <1> QED
    BY <1>2, <1>3, <1>4, <1>5

\* The rows before row i.
Above(rows, i) == {j \in DOMAIN rows : Before(rows[j], rows[i])}

\* The place of a row is a number of the list, and grows with the order.
LEMMA PlaceType ==
  ASSUME NEW rows \in Seq(Row), OneRowPerTitle(rows), NEW i \in DOMAIN rows
  PROVE  /\ IsFiniteSet(Above(rows, i))
         /\ Cardinality(Above(rows, i)) \in Nat
         /\ Place(rows, i) = 1 + Cardinality(Above(rows, i))
         /\ Place(rows, i) \in 1 .. Len(rows)
  <1>1. PICK D : D = DOMAIN rows
    OBVIOUS
  <1>2. Len(rows) \in Nat /\ D = 1 .. Len(rows)
    BY <1>1
  <1>3. IsFiniteSet(D) /\ Cardinality(D) = Len(rows)
    BY <1>2, Counting
  <1>4. {j \in DOMAIN rows : Before(rows[j], rows[i]) \/ (~Before(rows[i], rows[j]) /\ j < i)} = Above(rows, i)
    <2>1. ASSUME NEW j \in DOMAIN rows, ~Before(rows[i], rows[j]), j < i PROVE Before(rows[j], rows[i])
      <3>1. j # i
        BY <1>1, <1>2, <2>1
      <3> QED
        BY <2>1, <3>1, BeforeOrder
    <2> QED
      BY <2>1 DEF Above
  <1>5. Place(rows, i) = 1 + Cardinality(Above(rows, i))
    BY <1>4 DEF Place
  <1>6. i \notin Above(rows, i)
    BY BeforeOrder DEF Above
  <1>7. PICK T \in SUBSET D : T = Above(rows, i)
    BY <1>1 DEF Above
  <1>8. IsFiniteSet(T) /\ Cardinality(T) <= Len(rows) /\ Cardinality(T) # Len(rows)
    BY <1>1, <1>3, <1>6, <1>7, FS_Subset
  <1>9. Cardinality(T) \in Nat
    BY <1>8, FS_CardinalityType
  <1> QED
    BY <1>2, <1>5, <1>7, <1>8, <1>9

\* An earlier row has a smaller place.
LEMMA PlaceOrder ==
  ASSUME NEW rows \in Seq(Row), OneRowPerTitle(rows),
         NEW i \in DOMAIN rows, NEW j \in DOMAIN rows, Before(rows[i], rows[j])
  PROVE  Place(rows, i) < Place(rows, j)
  <1>1. PICK S : S = Above(rows, j)
    OBVIOUS
  <1>2. PICK T : T = Above(rows, i)
    OBVIOUS
  <1>3. T \in SUBSET S
    BY <1>1, <1>2, BeforeOrder DEF Above
  <1>4. i \in S /\ i \notin T
    BY <1>1, <1>2, BeforeOrder DEF Above
  <1>5. /\ IsFiniteSet(S) /\ Cardinality(S) \in Nat /\ Place(rows, j) = 1 + Cardinality(S)
        /\ IsFiniteSet(T) /\ Cardinality(T) \in Nat /\ Place(rows, i) = 1 + Cardinality(T)
    BY <1>1, <1>2, PlaceType
  <1>6. Cardinality(T) <= Cardinality(S) /\ Cardinality(S) # Cardinality(T)
    BY <1>3, <1>4, <1>5, FS_Subset
  <1> QED
    BY <1>5, <1>6

\* The places fill the list: there is one row for each.
LEMMA PlacesFill ==
  ASSUME NEW rows \in Seq(Row), OneRowPerTitle(rows)
  PROVE  /\ \A i, j \in DOMAIN rows : Place(rows, i) = Place(rows, j) => i = j
         /\ \A k \in DOMAIN rows : \E i \in DOMAIN rows : Place(rows, i) = k
  <1>1. PICK D : D = DOMAIN rows
    OBVIOUS
  <1>2. Len(rows) \in Nat /\ D = 1 .. Len(rows)
    BY <1>1
  <1>3. IsFiniteSet(D)
    BY <1>2, Counting
  <1>4. \A i \in D : Place(rows, i) \in D
    BY <1>1, <1>2, PlaceType
  <1>5. ASSUME NEW i \in D, NEW j \in D, i # j PROVE Place(rows, i) # Place(rows, j)
    <2>1. Place(rows, i) \in Int /\ Place(rows, j) \in Int
      BY <1>2, <1>4
    <2>2. Before(rows[i], rows[j]) \/ Before(rows[j], rows[i])
      BY <1>1, <1>5, BeforeOrder
    <2>3. Place(rows, i) < Place(rows, j) \/ Place(rows, j) < Place(rows, i)
      BY <1>1, <2>2, PlaceOrder
    <2> QED
      BY <2>1, <2>3
  <1>6. PICK g : g = [i \in D |-> Place(rows, i)]
    OBVIOUS
  <1>7. g \in [D -> D] /\ \A i, j \in D : g[i] = g[j] => i = j
    BY <1>4, <1>5, <1>6
  <1>8. g \in Injection(D, D)
    BY <1>7 DEF Injection, IsInjective
  <1>9. g \in Surjection(D, D)
    BY <1>3, <1>8, FS_Injection
  <1>10. \A k \in D : \E i \in D : g[i] = k
    BY <1>9 DEF Surjection
  <1> QED
    BY <1>1, <1>5, <1>6, <1>10

\* s has the rows of rows, each once, in another order, given by p.
Arranges(p, rows, s) ==
    /\ p \in [DOMAIN rows -> DOMAIN rows]
    /\ \A i, j \in DOMAIN rows : p[i] = p[j] => i = j
    /\ \A i \in DOMAIN rows : \E k \in DOMAIN rows : p[k] = i
    /\ s = [k \in DOMAIN rows |-> rows[p[k]]]

\* Every row of a sorted list comes before the next.
InOrder(s) == \A i, j \in DOMAIN s : i < j => Before(s[i], s[j])

\* Sorted rearranges the rows and puts them in order.
LEMMA SortedSorts ==
  ASSUME NEW rows \in Seq(Row), OneRowPerTitle(rows)
  PROVE  InOrder(Sorted(rows)) /\ \E p : Arranges(p, rows, Sorted(rows))
  <1>1. PICK D : D = DOMAIN rows
    OBVIOUS
  <1>2. PICK p : p = [k \in D |-> CHOOSE i \in D : Place(rows, i) = k]
    OBVIOUS
  <1>3. \A k \in D : p[k] \in D /\ Place(rows, p[k]) = k
    BY <1>1, <1>2, PlacesFill
  <1>4. PICK s : s = Sorted(rows)
    OBVIOUS
  <1>5. s = [k \in D |-> rows[p[k]]]
    BY <1>1, <1>2, <1>4 DEF Sorted
  <1>6. \A k \in D : Place(rows, k) \in D /\ k \in Nat
    BY <1>1, PlaceType
  <1>7. \A i \in D : \E k \in D : p[k] = i
    <2> SUFFICES ASSUME NEW i \in D PROVE p[Place(rows, i)] = i
      BY <1>6
    <2>1. Place(rows, i) \in D
      BY <1>6
    <2>2. Place(rows, p[Place(rows, i)]) = Place(rows, i) /\ p[Place(rows, i)] \in D
      BY <1>3, <2>1
    <2> QED
      BY <1>1, <2>2, PlacesFill
  <1>8. Arranges(p, rows, s)
    <2>1. p \in [D -> D]
      BY <1>2, <1>3
    <2>2. \A i, j \in D : p[i] = p[j] => i = j
      BY <1>3
    <2> QED
      BY <1>1, <1>5, <1>7, <2>1, <2>2 DEF Arranges
  <1>9. ASSUME NEW i \in D, NEW j \in D, i < j PROVE Before(s[i], s[j])
    <2>1. PICK a \in D : a = p[i] /\ Place(rows, a) = i
      BY <1>3
    <2>2. PICK b \in D : b = p[j] /\ Place(rows, b) = j
      BY <1>3
    <2>3. i # j /\ ~(j < i)
      <3>1. i \in Nat /\ j \in Nat
        BY <1>6
      <3> QED
        BY <1>9, <3>1
    <2>4. a # b /\ ~(Place(rows, b) < Place(rows, a))
      BY <2>1, <2>2, <2>3
    <2>5. Before(rows[a], rows[b])
      <3>1. ~Before(rows[b], rows[a])
        BY <1>1, <2>4, PlaceOrder
      <3> QED
        BY <1>1, <2>4, <3>1, BeforeOrder
    <2> QED
      BY <1>5, <2>1, <2>2, <2>5
  <1>10. InOrder(s)
    BY <1>5, <1>9 DEF InOrder
  <1> QED
    BY <1>4, <1>8, <1>10
-----------------------------------------------------------------------------
(* triage_scan *)

\* Another order of the rows says the same of the findings.
LEMMA ArrangedFaithful ==
  ASSUME NEW fs, NEW n, NEW d, NEW rows, Faithful(rows, fs, n, d), NEW p, NEW s, Arranges(p, rows, s)
  PROVE  Faithful(s, fs, n, d)
  <1>1. /\ rows \in Seq(Row) /\ OneRowPerTitle(rows)
        /\ \A m \in 1 .. n : Classify(fs[m]).disposition = d =>
              \E i \in DOMAIN rows : rows[i].title = DisplayTitle(fs[m]) /\ rows[i].priority >= Classify(fs[m]).priority
        /\ \A i \in DOMAIN rows : /\ \E m \in Titled(fs, n, d, rows[i].title) : Classify(fs[m]).priority = rows[i].priority
                                  /\ rows[i].occurrences = Cardinality(Titled(fs, n, d, rows[i].title))
    BY DEF Faithful
  <1>2. PICK D : D = DOMAIN rows
    OBVIOUS
  <1>3. /\ p \in [D -> D] /\ \A i, j \in D : p[i] = p[j] => i = j
        /\ \A i \in D : \E k \in D : p[k] = i
        /\ s = [k \in D |-> rows[p[k]]]
    BY <1>2 DEF Arranges
  <1>4. DOMAIN s = D /\ \A k \in D : p[k] \in D /\ s[k] = rows[p[k]]
    BY <1>3
  <1>5. s \in Seq(Row)
    <2>1. D = 1 .. Len(rows) /\ Len(rows) \in Nat /\ \A k \in D : rows[k] \in Row
      BY <1>1, <1>2
    <2>2. s \in [1 .. Len(rows) -> Row]
      BY <1>3, <2>1
    <2> QED
      BY <2>1, <2>2
  <1>6. OneRowPerTitle(s)
    BY <1>1, <1>2, <1>3, <1>4 DEF OneRowPerTitle
  <1>7. ASSUME NEW m \in 1 .. n, Classify(fs[m]).disposition = d
        PROVE  \E k \in D : s[k].title = DisplayTitle(fs[m]) /\ s[k].priority >= Classify(fs[m]).priority
    <2>1. PICK i \in D : rows[i].title = DisplayTitle(fs[m]) /\ rows[i].priority >= Classify(fs[m]).priority
      BY <1>1, <1>2, <1>7
    <2>2. PICK k \in D : p[k] = i
      BY <1>3
    <2> QED
      BY <1>4, <2>1, <2>2
  <1>8. ASSUME NEW k \in D
        PROVE  /\ \E m \in Titled(fs, n, d, s[k].title) : Classify(fs[m]).priority = s[k].priority
               /\ s[k].occurrences = Cardinality(Titled(fs, n, d, s[k].title))
    BY <1>1, <1>2, <1>4
  <1> QED
    BY <1>4, <1>5, <1>6, <1>7, <1>8 DEF Faithful

\* Another order of the rows leaves each its evidence.
LEMMA ArrangedEvidenced ==
  ASSUME NEW fs, NEW n, NEW d, NEW rows, Evidenced(rows, fs, n, d), NEW p, NEW s, Arranges(p, rows, s)
  PROVE  Evidenced(s, fs, n, d)
  <1>1. DOMAIN s = DOMAIN rows /\ \A k \in DOMAIN rows : p[k] \in DOMAIN rows /\ s[k] = rows[p[k]]
    BY DEF Arranges
  <1> QED
    BY <1>1 DEF Evidenced

\* Each bucket is in order and faithful to what the scanner printed.
LEMMA BucketFaithful ==
  ASSUME NEW fs \in Seq(Findings), NEW d
  PROVE  /\ Faithful(Bucket(fs, d), fs, Len(fs), d) /\ InOrder(Bucket(fs, d))
         /\ Evidenced(Bucket(fs, d), fs, Len(fs), d)
  <1>1. PICK rows : rows = Collapse(fs, d)
    OBVIOUS
  <1>2. Faithful(rows, fs, Len(fs), d) /\ Evidenced(rows, fs, Len(fs), d)
    BY <1>1, CollapseFaithful
  <1>3. rows \in Seq(Row) /\ OneRowPerTitle(rows)
    BY <1>2 DEF Faithful
  <1>4. InOrder(Sorted(rows)) /\ \E p : Arranges(p, rows, Sorted(rows))
    BY <1>3, SortedSorts
  <1>5. Faithful(Sorted(rows), fs, Len(fs), d) /\ Evidenced(Sorted(rows), fs, Len(fs), d)
    BY <1>2, <1>4, ArrangedFaithful, ArrangedEvidenced
  <1> QED
    BY <1>1, <1>4, <1>5 DEF Bucket
-----------------------------------------------------------------------------
(* TriagedScan::observations *)

\* The occurrences of the first n rows, for every n.
Totals(rows) ==
    CHOOSE h : h = [n \in 0 .. Len(rows) |-> IF n = 0 THEN 0 ELSE h[n - 1] + rows[n].occurrences]

\* The sums follow each other.
LEMMA TotalsDef ==
  ASSUME NEW rows \in Seq(Row)
  PROVE  /\ Totals(rows) = [n \in 0 .. Len(rows) |-> IF n = 0 THEN 0 ELSE Totals(rows)[n - 1] + rows[n].occurrences]
         /\ Observations(rows) = Totals(rows)[Len(rows)]
  <1>1. PICK N \in Nat : N = Len(rows)
    OBVIOUS
  <1>2. PICK step : step = [ka \in (1 .. N) \X Nat |-> ka[2] + rows[ka[1]].occurrences]
    OBVIOUS
  <1>3. \A k \in 1 .. N : rows[k].occurrences \in Nat
    <2>1. \A k \in 1 .. N : rows[k] \in Row
      BY <1>1
    <2> QED
      BY <2>1 DEF Row
  <1>4. IsStep(step, N, Nat)
    BY <1>2, <1>3 DEF IsStep
  <1>5. PICK h : Follows(h, N, Nat, 0, step)
    BY <1>4, RecursionExists
  <1>6. h \in [0 .. N -> Nat] /\ h[0] = 0 /\ \A k \in 1 .. N : h[k] = step[<<k, h[k - 1]>>]
    BY <1>5 DEF Follows
  <1>7. \A k \in 1 .. N : h[k] = h[k - 1] + rows[k].occurrences
    <2> SUFFICES ASSUME NEW k \in 1 .. N PROVE h[k] = h[k - 1] + rows[k].occurrences
      OBVIOUS
    <2>1. h[k - 1] \in Nat
      BY <1>6
    <2>2. step[<<k, h[k - 1]>>] = h[k - 1] + rows[k].occurrences
      BY <1>2, <2>1
    <2> QED
      BY <1>6, <2>2
  <1>8. h = [n \in 0 .. Len(rows) |-> IF n = 0 THEN 0 ELSE h[n - 1] + rows[n].occurrences]
    <2>1. \A n \in 0 .. N : h[n] = IF n = 0 THEN 0 ELSE h[n - 1] + rows[n].occurrences
      BY <1>6, <1>7
    <2>2. h = [n \in 0 .. N |-> h[n]]
      BY <1>6
    <2> QED
      BY <1>1, <2>1, <2>2
  <1>9. Totals(rows) = [n \in 0 .. Len(rows) |-> IF n = 0 THEN 0 ELSE Totals(rows)[n - 1] + rows[n].occurrences]
    BY <1>8, Zenon DEF Totals
  <1>10. Observations(rows) = Totals(rows)[Len(rows)]
    BY DEF Observations, Totals
  <1> QED
    BY <1>9, <1>10

\* The findings of one disposition.
Disposed(fs, d) == {m \in 1 .. Len(fs) : Classify(fs[m]).disposition = d}

\* The rows of a bucket count the findings of its disposition.
LEMMA ObservationsCount ==
  ASSUME NEW fs \in Seq(Findings), NEW d, NEW rows, Faithful(rows, fs, Len(fs), d)
  PROVE  Observations(rows) = Cardinality(Disposed(fs, d))
  <1>1. PICK h : h = Totals(rows)
    OBVIOUS
  <1>2. PICK n \in Nat : n = Len(fs)
    OBVIOUS
  <1>3. rows \in Seq(Row) /\ OneRowPerTitle(rows)
    BY DEF Faithful
  <1>4. PICK N \in Nat : N = Len(rows) /\ DOMAIN rows = 1 .. N
    BY <1>3
  <1>5. h = [k \in 0 .. N |-> IF k = 0 THEN 0 ELSE h[k - 1] + rows[k].occurrences]
    BY <1>1, <1>3, <1>4, TotalsDef
  <1> DEFINE Covered(k) == {m \in Disposed(fs, d) : \E i \in 1 .. k : rows[i].title = DisplayTitle(fs[m])}
             S == {k \in Nat : k <= N => h[k] = Cardinality(Covered(k))}
  <1>6. IsFiniteSet(1 .. n)
    BY Counting
  <1>7. \A k \in Nat : Covered(k) \in SUBSET (1 .. n)
    BY <1>2 DEF Disposed
  <1>8. 0 \in S
    <2>1. Covered(0) = {}
      OBVIOUS
    <2>2. h[0] = 0
      BY <1>5
    <2> QED
      BY <2>1, <2>2, FS_EmptySet
  <1>9. ASSUME NEW k \in Nat, k \in S PROVE k + 1 \in S
    <2> SUFFICES ASSUME k + 1 <= N PROVE h[k + 1] = Cardinality(Covered(k + 1))
      OBVIOUS
    <2>1. PICK T : T = Titled(fs, n, d, rows[k + 1].title)
      OBVIOUS
    <2>2. PICK U : U = Covered(k)
      OBVIOUS
    <2>3. IsFiniteSet(T) /\ Cardinality(T) \in Nat
      BY <2>1, TitledSame
    <2>4. IsFiniteSet(U)
      BY <1>6, <1>7, <2>2, FS_Subset
    <2>5. Cardinality(U) \in Nat
      BY <2>4, FS_CardinalityType
    <2>6. Covered(k + 1) = U \union T
      <3>1. \A i : i \in 1 .. k + 1 <=> (i \in 1 .. k \/ i = k + 1)
        OBVIOUS
      <3>2. T = {m \in Disposed(fs, d) : DisplayTitle(fs[m]) = rows[k + 1].title}
        BY <1>2, <2>1 DEF Titled, Disposed
      <3> QED
        BY <2>2, <3>1, <3>2
    <2>7. U \intersect T = {}
      <3> SUFFICES ASSUME NEW m \in U, m \in T PROVE FALSE
        OBVIOUS
      <3>1. PICK i \in 1 .. k : rows[i].title = DisplayTitle(fs[m])
        BY <2>2
      <3>2. DisplayTitle(fs[m]) = rows[k + 1].title
        BY <2>1 DEF Titled
      <3>3. i \in DOMAIN rows /\ k + 1 \in DOMAIN rows /\ i # k + 1
        BY <1>4
      <3> QED
        BY <1>3, <3>1, <3>2, <3>3 DEF OneRowPerTitle
    <2>8. Cardinality(U \union T) = Cardinality(U) + Cardinality(T)
      <3>1. Cardinality(U \intersect T) = 0
        BY <2>7, FS_EmptySet
      <3>2. Cardinality(U \union T) = Cardinality(U) + Cardinality(T) - Cardinality(U \intersect T)
        BY <2>3, <2>4, FS_Union
      <3> QED
        BY <2>3, <2>5, <3>1, <3>2
    <2>9. rows[k + 1].occurrences = Cardinality(T)
      BY <1>2, <1>4, <2>1 DEF Faithful
    <2>10. h[k + 1] = h[k] + rows[k + 1].occurrences
      BY <1>5
    <2>11. h[k] = Cardinality(U)
      BY <1>9, <2>2
    <2> QED
      BY <2>6, <2>8, <2>9, <2>10, <2>11
  <1>10. N \in S
    <2> HIDE DEF S
    <2> QED
      BY <1>8, <1>9, SetInduction
  <1>11. h[N] = Cardinality(Covered(N))
    BY <1>10
  <1>12. Covered(N) = Disposed(fs, d)
    BY <1>2, <1>4 DEF Faithful, Disposed
  <1> QED
    BY <1>1, <1>3, <1>4, <1>11, <1>12, TotalsDef
-----------------------------------------------------------------------------
(* The report, whatever was printed *)

\* The scanner prints findings.
OutType == out \in Seq(Findings)

\* Whatever the scanner does, its output is a sequence of findings.
LEMMA OutputType == Spec => []OutType
  <1>1. Init => OutType
    BY DEF Init, OutType
  <1>2. OutType /\ [Next]_out => OutType'
    BY DEF OutType, Next, Emit
  <1> QED
    BY <1>1, <1>2, PTL DEF Spec

\* The three dispositions share out the findings.
LEMMA DispositionsPartition ==
  ASSUME NEW fs \in Seq(Findings)
  PROVE  Cardinality(Disposed(fs, "act")) + Cardinality(Disposed(fs, "review"))
             + Cardinality(Disposed(fs, "inventory")) = Len(fs)
  <1>1. PICK n \in Nat : n = Len(fs)
    OBVIOUS
  <1>2. PICK A : A = Disposed(fs, "act")
    OBVIOUS
  <1>3. PICK R : R = Disposed(fs, "review")
    OBVIOUS
  <1>4. PICK I : I = Disposed(fs, "inventory")
    OBVIOUS
  <1>5. IsFiniteSet(1 .. n) /\ Cardinality(1 .. n) = n
    BY Counting
  <1>6. A \in SUBSET (1 .. n) /\ R \in SUBSET (1 .. n) /\ I \in SUBSET (1 .. n)
    BY <1>1, <1>2, <1>3, <1>4 DEF Disposed
  <1>7. IsFiniteSet(A) /\ IsFiniteSet(R) /\ IsFiniteSet(I)
    BY <1>5, <1>6, FS_Subset
  <1>8. Cardinality(A) \in Nat /\ Cardinality(R) \in Nat /\ Cardinality(I) \in Nat
    BY <1>7, FS_CardinalityType
  <1>9. A \intersect R = {} /\ (A \union R) \intersect I = {}
    BY <1>2, <1>3, <1>4 DEF Disposed
  <1>10. (A \union R) \union I = 1 .. n
    <2>1. ASSUME NEW m \in 1 .. n PROVE m \in A \/ m \in R \/ m \in I
      <3>1. PICK f \in Findings : f = fs[m]
        BY <1>1
      <3>2. Classify(f).disposition \in Dispositions
        BY ClassifyType
      <3> QED
        BY <1>1, <1>2, <1>3, <1>4, <3>1, <3>2 DEF Disposed
    <2> QED
      BY <1>6, <2>1
  <1>11. Cardinality(A \intersect R) = 0 /\ Cardinality((A \union R) \intersect I) = 0
    BY <1>9, FS_EmptySet
  <1>12. IsFiniteSet(A \union R) /\ Cardinality(A \union R) = Cardinality(A) + Cardinality(R)
    <2>1. /\ IsFiniteSet(A \union R)
          /\ Cardinality(A \union R) = Cardinality(A) + Cardinality(R) - Cardinality(A \intersect R)
      BY <1>7, FS_Union
    <2> QED
      BY <1>8, <1>11, <2>1
  <1>13. Cardinality((A \union R) \union I) = Cardinality(A) + Cardinality(R) + Cardinality(I)
    <2>1. PICK B : B = A \union R
      OBVIOUS
    <2>2. Cardinality(B \union I) = Cardinality(B) + Cardinality(I) - Cardinality(B \intersect I)
      BY <1>7, <1>12, <2>1, FS_Union
    <2> QED
      BY <1>8, <1>11, <1>12, <2>1, <2>2
  <1> QED
    BY <1>1, <1>2, <1>3, <1>4, <1>5, <1>10, <1>13

\* triage_scan drops, counts twice and quietens no finding, whatever a scanner
\* prints and however much.
THEOREM FoldingKeeps == Spec => []FoldKeeps
  <1>1. OutType => FoldKeeps
    <2> SUFFICES ASSUME out \in Seq(Findings) PROVE NothingLost /\ LoudestWins
      BY DEF OutType, FoldKeeps
    <2>1. \A d : Observations(Bucket(out, d)) = Cardinality(Disposed(out, d))
      BY BucketFaithful, ObservationsCount
    <2>2. NothingLost
      BY <2>1, DispositionsPartition DEF NothingLost
    <2>3. LoudestWins
      <3> SUFFICES ASSUME NEW i \in DOMAIN out
                   PROVE  LET bucket == Bucket(out, Classify(out[i]).disposition)
                          IN  \E k \in DOMAIN bucket : /\ bucket[k].title = DisplayTitle(out[i])
                                                       /\ bucket[k].priority >= Classify(out[i]).priority
        BY DEF LoudestWins
      <3>1. PICK d : d = Classify(out[i]).disposition
        OBVIOUS
      <3>2. PICK bucket : bucket = Bucket(out, d)
        OBVIOUS
      <3>3. Faithful(bucket, out, Len(out), d)
        BY <3>2, BucketFaithful
      <3>4. i \in 1 .. Len(out)
        OBVIOUS
      <3> QED
        BY <3>1, <3>2, <3>3, <3>4 DEF Faithful
    <2> QED
      BY <2>2, <2>3
  <1> QED
    BY <1>1, OutputType, PTL

\* The keys of a scan are finitely many.
LEMMA KeysFinite ==
  ASSUME NEW fs \in Seq(Findings)
  PROVE  IsFiniteSet(ActionableKeys(fs))
  <1>1. PICK rows : rows = Bucket(fs, "act")
    OBVIOUS
  <1>2. rows \in Seq(Row)
    BY <1>1, BucketFaithful DEF Faithful
  <1>3. PICK D : D = DOMAIN rows
    OBVIOUS
  <1>4. IsFiniteSet(D)
    BY <1>2, <1>3, Counting
  <1>5. PICK g : g = [i \in D |-> <<rows[i].template, rows[i].title>>]
    OBVIOUS
  <1>6. PICK K : K = ActionableKeys(fs)
    OBVIOUS
  <1>7. K = {<<rows[i].template, rows[i].title>> : i \in D}
    BY <1>1, <1>3, <1>6 DEF ActionableKeys
  <1>8. g \in Surjection(D, K)
    BY <1>5, <1>7 DEF Surjection
  <1> QED
    BY <1>4, <1>6, <1>8, FS_Surjection

\* A part of an output is an output.
LEMMA Parts ==
  ASSUME NEW fs \in Seq(Findings), NEW n \in 0 .. Len(fs)
  PROVE  SubSeq(fs, 1, n) \in Seq(Findings) /\ SubSeq(fs, n + 1, Len(fs)) \in Seq(Findings)
  <1>1. PICK N \in Nat : N = Len(fs) /\ \A i \in 1 .. N : fs[i] \in Findings
    OBVIOUS
  <1>2. n \in Int /\ n + 1 \in Int /\ 1 \in Int
    OBVIOUS
  <1>3. \A i \in 1 .. n : fs[i] \in Findings
    BY <1>1
  <1>4. \A i \in n + 1 .. N : fs[i] \in Findings
    BY <1>1
  <1>5. SubSeq(fs, 1, n) \in Seq(Findings)
    BY <1>2, <1>3, SubSeqProperties
  <1>6. SubSeq(fs, n + 1, N) \in Seq(Findings)
    BY <1>2, <1>4, SubSeqProperties
  <1> QED
    BY <1>1, <1>5, <1>6

\* compare_identities names every change between what a scanner printed first and
\* what it printed later, and nothing else, for outputs of any length.
THEOREM ChangesAreNamed == Spec => []ChangeIsNamed
  <1>1. OutType => ChangeIsNamed
    <2> SUFFICES ASSUME out \in Seq(Findings), NEW n \in 0 .. Len(out)
                 PROVE  LET before == ActionableKeys(SubSeq(out, 1, n))
                            after  == ActionableKeys(SubSeq(out, n + 1, Len(out)))
                            change == CompareIdentities(before, after)
                        IN  /\ (change = "None") <=> (before = after)
                            /\ (change \in {"Appeared", "Worse", "Replaced"}) <=> (after \ before # {})
      BY DEF OutType, ChangeIsNamed
    <2>1. PICK fs \in Seq(Findings) : fs = SubSeq(out, 1, n)
      BY Parts
    <2>2. PICK gs \in Seq(Findings) : gs = SubSeq(out, n + 1, Len(out))
      BY Parts
    <2>3. PICK before : before = ActionableKeys(fs)
      OBVIOUS
    <2>4. PICK after : after = ActionableKeys(gs)
      OBVIOUS
    <2>5. IsFiniteSet(before) /\ IsFiniteSet(after)
      BY <2>3, <2>4, KeysFinite
    <2>6. CompareIdentities(before, after) = "None" <=> before = after
      BY <2>5, SilenceMeansSame
    <2>7. CompareIdentities(before, after) \in {"Appeared", "Worse", "Replaced"} <=> after \ before # {}
      BY <2>5, NewIssueIsNews
    <2> QED
      BY <2>1, <2>2, <2>3, <2>4, <2>6, <2>7
  <1> QED
    BY <1>1, OutputType, PTL
-----------------------------------------------------------------------------
(* The order of the report *)

\* What the reader sees of two rows is the same.
LooksLike(x, y) ==
    /\ x.title = y.title /\ x.priority = y.priority /\ x.occurrences = y.occurrences
    /\ Range(x.evidence) = Range(y.evidence)

\* Every row of a is also seen in b.
SeenIn(a, b) == \A k \in DOMAIN a : \E l \in DOMAIN b : LooksLike(a[k], b[l])

\* In two lists that are in order, a row of a that b shows too comes no earlier in b.
LEMMA NoEarlier ==
  ASSUME NEW a \in Seq(Row), NEW b \in Seq(Row), OneRowPerTitle(b), InOrder(a), InOrder(b), SeenIn(a, b)
  PROVE  \A k \in DOMAIN a, l \in DOMAIN b : LooksLike(a[k], b[l]) => k <= l
  <1>1. PICK N \in Nat : N = Len(a) /\ DOMAIN a = 1 .. N
    OBVIOUS
  <1>2. PICK M \in Nat : M = Len(b) /\ DOMAIN b = 1 .. M
    OBVIOUS
  <1> DEFINE S == {k \in Nat : k \in 1 .. N => \A l \in DOMAIN b : LooksLike(a[k], b[l]) => k <= l}
  <1>3. 0 \in S
    OBVIOUS
  <1>4. ASSUME NEW k \in Nat, k \in S PROVE k + 1 \in S
    <2> SUFFICES ASSUME k + 1 \in 1 .. N, NEW l \in DOMAIN b, LooksLike(a[k + 1], b[l]) PROVE k + 1 <= l
      OBVIOUS
    <2>1. l \in Nat /\ 1 <= l
      BY <1>2
    <2>2. CASE k = 0
      BY <2>1, <2>2
    <2>3. CASE k # 0
      <3>1. k \in DOMAIN a /\ k + 1 \in DOMAIN a /\ k < k + 1
        BY <1>1, <2>3
      <3>2. PICK q \in DOMAIN b : LooksLike(a[k], b[q])
        BY <3>1 DEF SeenIn
      <3>3. q \in Nat /\ k <= q
        BY <1>1, <1>2, <1>4, <3>1, <3>2
      <3>4. Before(a[k], a[k + 1])
        BY <3>1 DEF InOrder
      <3>5. Before(b[q], b[l])
        BY <3>2, <3>4 DEF Before, LooksLike
      <3>6. q # l /\ ~Before(b[l], b[q])
        BY <3>5, BeforeOrder
      <3>7. ~(l < q)
        BY <3>6 DEF InOrder
      <3> QED
        BY <2>1, <3>3, <3>6, <3>7
    <2> QED
      BY <2>2, <2>3
  <1>5. \A k \in 1 .. N : k \in S
    <2> HIDE DEF S
    <2> QED
      BY <1>3, <1>4, SetInduction
  <1> QED
    BY <1>1, <1>5

\* There is one way to put rows in order.
LEMMA OrderUnique ==
  ASSUME NEW a \in Seq(Row), NEW b \in Seq(Row), OneRowPerTitle(a), OneRowPerTitle(b),
         InOrder(a), InOrder(b), SeenIn(a, b), SeenIn(b, a)
  PROVE  Shown(a) = Shown(b)
  <1>1. DOMAIN a \subseteq Nat /\ DOMAIN b \subseteq Nat
    OBVIOUS
  <1>2. ASSUME NEW k \in DOMAIN a, NEW l \in DOMAIN b, LooksLike(a[k], b[l]) PROVE k = l
    <2>1. k <= l
      BY <1>2, NoEarlier
    <2>2. LooksLike(b[l], a[k])
      BY <1>2 DEF LooksLike
    <2>3. l <= k
      BY <2>2, NoEarlier
    <2> QED
      BY <1>1, <2>1, <2>3
  <1>3. ASSUME NEW k \in DOMAIN a PROVE k \in DOMAIN b /\ LooksLike(a[k], b[k])
    <2>1. PICK l \in DOMAIN b : LooksLike(a[k], b[l])
      BY DEF SeenIn
    <2> QED
      BY <1>2, <2>1
  <1>4. ASSUME NEW l \in DOMAIN b PROVE l \in DOMAIN a
    <2>1. PICK k \in DOMAIN a : LooksLike(b[l], a[k])
      BY DEF SeenIn
    <2>2. LooksLike(a[k], b[l])
      BY <2>1 DEF LooksLike
    <2> QED
      BY <1>2, <2>2
  <1>5. DOMAIN a = DOMAIN b
    BY <1>3, <1>4
  <1>6. \A k \in DOMAIN a : <<a[k].title, a[k].priority, a[k].occurrences, Range(a[k].evidence)>>
                             = <<b[k].title, b[k].priority, b[k].occurrences, Range(b[k].evidence)>>
    BY <1>3 DEF LooksLike
  <1> QED
    BY <1>5, <1>6 DEF Shown

\* The two outputs have the same findings, each as often.
Alike(fs, gs) ==
    /\ Len(fs) = Len(gs)
    /\ \A m \in 1 .. Len(fs) : \E k \in 1 .. Len(gs) : fs[m] = gs[k]
    /\ \A k \in 1 .. Len(gs) : \E m \in 1 .. Len(fs) : fs[m] = gs[k]
    /\ \A d, t : Cardinality(Titled(fs, Len(fs), d, t)) = Cardinality(Titled(gs, Len(gs), d, t))
    /\ \A d, t : Pieces(fs, Len(fs), d, t) = Pieces(gs, Len(gs), d, t)

\* The rows of one are seen in the other.
LEMMA RowsSeen ==
  ASSUME NEW fs \in Seq(Findings), NEW gs \in Seq(Findings), Alike(fs, gs), NEW d,
         NEW a, Faithful(a, fs, Len(fs), d), Evidenced(a, fs, Len(fs), d),
         NEW b, Faithful(b, gs, Len(gs), d), Evidenced(b, gs, Len(gs), d)
  PROVE  SeenIn(a, b)
  <1>1. PICK n \in Nat : n = Len(fs) /\ n = Len(gs)
    BY DEF Alike
  <1>2. /\ \A m \in 1 .. n : \E k \in 1 .. n : fs[m] = gs[k]
        /\ \A k \in 1 .. n : \E m \in 1 .. n : fs[m] = gs[k]
        /\ \A t : Cardinality(Titled(fs, n, d, t)) = Cardinality(Titled(gs, n, d, t))
    <2>1. \A m \in 1 .. n : \E k \in 1 .. n : fs[m] = gs[k]
      BY <1>1 DEF Alike
    <2>2. \A k \in 1 .. n : \E m \in 1 .. n : fs[m] = gs[k]
      BY <1>1 DEF Alike
    <2>3. \A t : Cardinality(Titled(fs, n, d, t)) = Cardinality(Titled(gs, n, d, t))
      <3>1. \A t : Cardinality(Titled(fs, Len(fs), d, t)) = Cardinality(Titled(gs, Len(gs), d, t))
        BY DEF Alike
      <3> QED
        BY <1>1, <3>1
    <2> QED
      BY <2>1, <2>2, <2>3
  <1>3. a \in Seq(Row) /\ OneRowPerTitle(a) /\ b \in Seq(Row) /\ OneRowPerTitle(b)
    BY DEF Faithful
  <1> SUFFICES ASSUME NEW k \in DOMAIN a PROVE \E l \in DOMAIN b : LooksLike(a[k], b[l])
    BY DEF SeenIn
  <1>4. PICK t : t = a[k].title
    OBVIOUS
  <1>5. PICK m \in 1 .. n : Classify(fs[m]).disposition = d /\ DisplayTitle(fs[m]) = t /\ Classify(fs[m]).priority = a[k].priority
    BY <1>1, <1>4 DEF Faithful, Titled
  <1>6. PICK q \in 1 .. n : fs[m] = gs[q]
    BY <1>2
  <1>7. PICK l \in DOMAIN b : b[l].title = DisplayTitle(gs[q]) /\ b[l].priority >= Classify(gs[q]).priority
    BY <1>1, <1>5, <1>6 DEF Faithful
  <1>8. b[l].title = t /\ b[l].priority >= a[k].priority
    BY <1>5, <1>6, <1>7
  <1>9. PICK q2 \in 1 .. n : Classify(gs[q2]).disposition = d /\ DisplayTitle(gs[q2]) = t /\ Classify(gs[q2]).priority = b[l].priority
    BY <1>1, <1>8 DEF Faithful, Titled
  <1>10. PICK m2 \in 1 .. n : fs[m2] = gs[q2]
    BY <1>2
  <1>11. PICK k2 \in DOMAIN a : a[k2].title = DisplayTitle(fs[m2]) /\ a[k2].priority >= Classify(fs[m2]).priority
    BY <1>1, <1>9, <1>10 DEF Faithful
  <1>12. k2 = k
    BY <1>3, <1>4, <1>9, <1>10, <1>11 DEF OneRowPerTitle
  <1>13. a[k].priority >= b[l].priority
    BY <1>9, <1>10, <1>11, <1>12
  <1>14. a[k].priority \in Nat /\ b[l].priority \in Nat
    <2>1. a[k] \in Row /\ b[l] \in Row
      BY <1>3
    <2> QED
      BY <2>1 DEF Row
  <1>15. a[k].priority = b[l].priority
    BY <1>8, <1>13, <1>14
  <1>16. a[k].occurrences = Cardinality(Titled(fs, n, d, t)) /\ b[l].occurrences = Cardinality(Titled(gs, n, d, t))
    BY <1>1, <1>4, <1>8 DEF Faithful
  <1>17. a[k].occurrences = b[l].occurrences
    BY <1>2, <1>16
  <1>18. Range(a[k].evidence) = Range(b[l].evidence)
    <2>1. Range(a[k].evidence) = Pieces(fs, Len(fs), d, t)
      BY <1>4 DEF Evidenced
    <2>2. Range(b[l].evidence) = Pieces(gs, Len(gs), d, t)
      BY <1>8 DEF Evidenced
    <2>3. Pieces(fs, Len(fs), d, t) = Pieces(gs, Len(gs), d, t)
      BY DEF Alike
    <2> QED
      BY <2>1, <2>2, <2>3
  <1> QED
    BY <1>4, <1>8, <1>15, <1>17, <1>18 DEF LooksLike

\* What holds of one output and the other holds of the other and the one.
LEMMA AlikeSym ==
  ASSUME NEW fs, NEW gs, Alike(fs, gs)
  PROVE  Alike(gs, fs)
  <1>1. Len(gs) = Len(fs)
    BY DEF Alike
  <1>2. \A k \in 1 .. Len(gs) : \E m \in 1 .. Len(fs) : gs[k] = fs[m]
    BY DEF Alike
  <1>3. \A m \in 1 .. Len(fs) : \E k \in 1 .. Len(gs) : gs[k] = fs[m]
    BY DEF Alike
  <1>4. \A d, t : Cardinality(Titled(gs, Len(gs), d, t)) = Cardinality(Titled(fs, Len(fs), d, t))
    BY DEF Alike
  <1>5. \A d, t : Pieces(gs, Len(gs), d, t) = Pieces(fs, Len(fs), d, t)
    BY DEF Alike
  <1> QED
    BY <1>1, <1>2, <1>3, <1>4, <1>5 DEF Alike

\* A permutation carries the set of its arguments that map into B onto B.
LEMMA SameNumber ==
  ASSUME NEW n \in Nat, NEW p \in Bijection(1 .. n, 1 .. n), NEW B \in SUBSET (1 .. n)
  PROVE  Cardinality({i \in 1 .. n : p[i] \in B}) = Cardinality(B)
  <1> DEFINE A == {i \in 1 .. n : p[i] \in B}
             q == [i \in A |-> p[i]]
  <1>1. /\ p \in [1 .. n -> 1 .. n]
        /\ \A i, j \in 1 .. n : p[i] = p[j] => i = j
        /\ \A k \in 1 .. n : \E i \in 1 .. n : p[i] = k
    BY DEF Bijection, Injection, Surjection, IsInjective
  <1>2. IsFiniteSet(A)
    <2>1. IsFiniteSet(1 .. n)
      BY FS_Interval
    <2> QED
      BY <2>1, FS_Subset
  <1>3. q \in [A -> B]
    OBVIOUS
  <1>4. \A i, j \in A : q[i] = q[j] => i = j
    BY <1>1
  <1>5. \A k \in B : \E i \in A : q[i] = k
    BY <1>1
  <1>6. q \in Bijection(A, B)
    BY <1>3, <1>4, <1>5 DEF Bijection, Injection, Surjection, IsInjective
  <1>7. ExistsBijection(A, B)
    BY <1>6 DEF ExistsBijection
  <1>8. Cardinality(A) = Cardinality(B)
    <2> HIDE DEF A, q
    <2> QED
      BY <1>2, <1>7, FS_Bijection
  <1> QED
    BY <1>8

\* Printed in another order, an output has the same findings.
LEMMA ReorderedAlike ==
  ASSUME NEW gs \in Seq(Findings), NEW p \in Bijection(DOMAIN gs, DOMAIN gs),
         NEW fs, fs = [i \in DOMAIN gs |-> gs[p[i]]]
  PROVE  fs \in Seq(Findings) /\ Alike(fs, gs)
  <1>1. PICK n \in Nat : n = Len(gs) /\ DOMAIN gs = 1 .. n
    OBVIOUS
  <1>2. /\ \A i \in 1 .. n : p[i] \in 1 .. n
        /\ \A k \in 1 .. n : \E i \in 1 .. n : p[i] = k
    BY <1>1 DEF Bijection, Injection, Surjection
  <1>3. \A i \in 1 .. n : fs[i] = gs[p[i]] /\ gs[i] \in Findings
    BY <1>1
  <1>4. fs \in [1 .. n -> Findings]
    BY <1>1, <1>2, <1>3
  <1>5. fs \in Seq(Findings) /\ Len(fs) = n
    BY <1>4
  <1>6. ASSUME NEW m \in 1 .. n PROVE \E k \in 1 .. n : fs[m] = gs[k]
    <2>1. p[m] \in 1 .. n /\ fs[m] = gs[p[m]]
      BY <1>2, <1>3
    <2> QED
      BY <2>1
  <1>7. ASSUME NEW k \in 1 .. n PROVE \E m \in 1 .. n : fs[m] = gs[k]
    <2>1. PICK m \in 1 .. n : p[m] = k
      BY <1>2
    <2>2. fs[m] = gs[k]
      BY <1>3, <2>1
    <2> QED
      BY <2>2
  <1>8. ASSUME NEW d, NEW t PROVE Cardinality(Titled(fs, n, d, t)) = Cardinality(Titled(gs, n, d, t))
    <2>1. PICK B \in SUBSET (1 .. n) : B = Titled(gs, n, d, t)
      BY DEF Titled
    <2>2. Titled(fs, n, d, t) = {i \in 1 .. n : p[i] \in B}
      BY <1>2, <1>3, <2>1 DEF Titled
    <2>3. p \in Bijection(1 .. n, 1 .. n)
      BY <1>1
    <2> QED
      BY <2>1, <2>2, <2>3, SameNumber
  <1>9. ASSUME NEW d, NEW t PROVE Pieces(fs, n, d, t) = Pieces(gs, n, d, t)
    <2>1. ASSUME NEW m \in Titled(fs, n, d, t)
          PROVE  \E k \in Titled(gs, n, d, t) : Range(gs[k].evidence) = Range(fs[m].evidence)
      <3>1. PICK k \in 1 .. n : fs[m] = gs[k]
        BY <1>6 DEF Titled
      <3>2. k \in Titled(gs, n, d, t)
        BY <3>1 DEF Titled
      <3> QED
        BY <3>1, <3>2
    <2>2. ASSUME NEW k \in Titled(gs, n, d, t)
          PROVE  \E m \in Titled(fs, n, d, t) : Range(fs[m].evidence) = Range(gs[k].evidence)
      <3>1. PICK m \in 1 .. n : fs[m] = gs[k]
        BY <1>7 DEF Titled
      <3>2. m \in Titled(fs, n, d, t)
        BY <3>1 DEF Titled
      <3> QED
        BY <3>1, <3>2
    <2>3. ASSUME NEW x \in Pieces(fs, n, d, t) PROVE x \in Pieces(gs, n, d, t)
      <3>1. PICK m \in Titled(fs, n, d, t) : x \in Range(fs[m].evidence)
        BY DEF Pieces
      <3> QED
        BY <2>1, <3>1 DEF Pieces
    <2>4. ASSUME NEW x \in Pieces(gs, n, d, t) PROVE x \in Pieces(fs, n, d, t)
      <3>1. PICK k \in Titled(gs, n, d, t) : x \in Range(gs[k].evidence)
        BY DEF Pieces
      <3> QED
        BY <2>2, <3>1 DEF Pieces
    <2> QED
      BY <2>3, <2>4
  <1>10. Alike(fs, gs)
    BY <1>1, <1>5, <1>6, <1>7, <1>8, <1>9 DEF Alike
  <1> QED
    BY <1>5, <1>10

\* The report does not depend on the order in which the scanner printed: for any
\* findings, any titles and any length of the output, every reordering of it
\* gives the same rows in the same order, with the same pieces of evidence each
\* (triage_scan: collapse_duplicates, then sort_by); the order of those pieces
\* within a row is the scanner's.
THEOREM ReportOrderIsStable == Spec => []ReportOrderStable
  <1>1. OutType => ReportOrderStable
    <2> SUFFICES ASSUME OutType, NEW d \in Dispositions, NEW fs \in Reorderings(out)
                 PROVE  Shown(Bucket(fs, d)) = Shown(Bucket(out, d))
      BY DEF ReportOrderStable
    <2>1. PICK gs \in Seq(Findings) : gs = out
      BY DEF OutType
    <2>2. PICK p \in Bijection(DOMAIN gs, DOMAIN gs) : fs = [i \in DOMAIN gs |-> gs[p[i]]]
      BY <2>1 DEF Reorderings
    <2>3. fs \in Seq(Findings) /\ Alike(fs, gs)
      BY <2>2, ReorderedAlike
    <2>4. Alike(gs, fs)
      BY <2>3, AlikeSym
    <2>5. PICK a : a = Bucket(fs, d)
      OBVIOUS
    <2>6. PICK b : b = Bucket(gs, d)
      OBVIOUS
    <2>7. Faithful(a, fs, Len(fs), d) /\ Evidenced(a, fs, Len(fs), d) /\ InOrder(a)
      BY <2>3, <2>5, BucketFaithful
    <2>8. Faithful(b, gs, Len(gs), d) /\ Evidenced(b, gs, Len(gs), d) /\ InOrder(b)
      BY <2>6, BucketFaithful
    <2>9. SeenIn(a, b)
      BY <2>3, <2>7, <2>8, RowsSeen
    <2>10. SeenIn(b, a)
      BY <2>3, <2>4, <2>7, <2>8, RowsSeen
    <2>11. a \in Seq(Row) /\ b \in Seq(Row) /\ OneRowPerTitle(a) /\ OneRowPerTitle(b)
      BY <2>7, <2>8 DEF Faithful
    <2>12. Shown(a) = Shown(b)
      BY <2>7, <2>8, <2>9, <2>10, <2>11, OrderUnique
    <2> QED
      BY <2>1, <2>5, <2>6, <2>12
  <1> QED
    BY <1>1, OutputType, PTL
=============================================================================
