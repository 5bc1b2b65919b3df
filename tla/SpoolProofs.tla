---------------------------- MODULE SpoolProofs -----------------------------
(***************************************************************************)
(* The disk spool for any sizes of segments and of the spool: what a       *)
(* replay returns, and that the files are a bounded queue.                 *)
(***************************************************************************)
EXTENDS Spool, SequenceTheorems, FiniteSetTheorems, TLAPS

\* The events of a segment that are on disk.
Held(s) == {records[n].entry : n \in {m \in OnDisk : records[m].seg = s}}

\* The entries lie in the order of their pushes, and the segments likewise.
Sorted ==
  /\ \A n \in DOMAIN records : records[n].seg <= active
  /\ \A i, j \in DOMAIN records : i < j => records[i].seg <= records[j].seg
  /\ \A n \in OnDisk : records[n].entry <= offered
  /\ \A i, j \in OnDisk : i < j => records[i].entry < records[j].entry

\* An event that was pushed is there, or something newer and nothing older is;
\* and it is on a line with a fragment only after a push that failed.
Kept ==
  /\ \A e \in spooled :
       \/ \E n \in OnDisk : records[n].entry = e /\ (Readable(n) \/ e - 1 \notin spooled)
       \/ OnDisk # {} /\ \A n \in OnDisk : records[n].entry > e
  /\ records # <<>> /\ records[Len(records)].entry = Fragment => offered \notin spooled

\* No segment holds more events than fit, and the counter of the active one does
\* not fall behind.
Sized ==
  /\ \A s \in Nat : Cardinality(Held(s)) <= SegmentMax
  /\ Cardinality(Held(active)) <= activeBytes

SpoolInv == TypeOK /\ Sorted /\ Kept /\ Sized

----------------------------------------------------------------------------
(* What enforceBounds removes.                                             *)

\* A set of numbers that has a member has a least one.
LEMMA LeastExists ==
  ASSUME NEW S \in SUBSET Nat, S # {}
  PROVE  \E x \in S : \A y \in S : x <= y
<1> DEFINE R == {ss \in Nat \X Nat : ss[1] < ss[2]}
<1>1. IsWellFoundedOn(R, Nat)
  BY NatLessThanWellFounded, Zenon DEF OpToRel
<1>2. PICK x \in S : \A y \in S : <<y, x>> \notin R
  <2> HIDE DEF R
  <2> QED BY <1>1, WFMin
<1>3. ASSUME NEW y \in S, y < x PROVE FALSE
  BY <1>2, <1>3
<1>4. QED
  BY <1>3

\* The segment of an entry begins somewhere, and a boundary is before it.
LEMMA SegmentBegins ==
  ASSUME NEW rs \in Seq(Record), NEW n \in 1..Len(rs)
  PROVE  \E m \in Boundaries(rs) : m < n /\ \A j \in m + 1..n : rs[j].seg = rs[n].seg
<1> DEFINE S == {k \in 0..n - 1 : \A j \in k + 1..n : rs[j].seg = rs[n].seg}
<1>0. Len(rs) \in Nat /\ n \in Nat
  BY LenProperties
<1>1. n - 1 \in S
  BY <1>0
<1>2. PICK m \in S : \A k \in S : m <= k
  <2>1. S \subseteq 0..n - 1 /\ 0..n - 1 \subseteq Nat
    BY <1>0
  <2> HIDE DEF S
  <2>2. S \in SUBSET Nat /\ S # {}
    BY <1>1, <2>1
  <2>3. QED
    BY <2>2, LeastExists
<1>3. m \in 0..n - 1 /\ \A j \in m + 1..n : rs[j].seg = rs[n].seg
  BY <1>2
<1>4. ASSUME m # 0, rs[m].seg = rs[n].seg PROVE FALSE
  <2>1. m - 1 \in 0..n - 1 /\ \A j \in m..n : j = m \/ j \in m + 1..n
    BY <1>0, <1>3, <1>4
  <2>2. m - 1 \in S
    BY <1>0, <1>3, <1>4, <2>1
  <2>3. QED
    BY <1>0, <1>2, <1>3, <2>2
<1>5. m \in Boundaries(rs)
  <2>1. m + 1 \in m + 1..n
    BY <1>0, <1>3
  <2>2. QED
    BY <1>0, <1>3, <1>4, <2>1 DEF Boundaries
<1>6. QED
  BY <1>0, <1>3, <1>5

\* What remains is a tail that ends with the entry just written; the cut is at a
\* boundary, has come far enough or to the active segment, and no boundary
\* before it has.
LEMMA Evicted ==
  ASSUME NEW rs \in Seq(Record), rs # <<>>
  PROVE  \E cut \in Boundaries(rs) :
           /\ cut \in 0..Len(rs) - 1
           /\ EnforceBounds(rs) = SubSeq(rs, cut + 1, Len(rs))
           /\ Len(rs) - cut <= MaxSize \/ rs[cut + 1].seg = rs[Len(rs)].seg
           /\ \A m \in Boundaries(rs) : m < cut => Len(rs) - m > MaxSize
<1> DEFINE Enough == {n \in Boundaries(rs) : Len(rs) - n <= MaxSize \/ rs[n + 1].seg = rs[Len(rs)].seg}
<1>0. Len(rs) \in Nat \ {0} /\ MaxSize \in Nat
  BY EmptySeq, SpoolAssumption
<1>1. Boundaries(rs) \subseteq 0..Len(rs) - 1
  BY <1>0 DEF Boundaries
<1>2. PICK m \in Boundaries(rs) : m < Len(rs) /\ \A j \in m + 1..Len(rs) : rs[j].seg = rs[Len(rs)].seg
  BY <1>0, SegmentBegins
<1>3. m \in Enough
  <2>1. m + 1 \in m + 1..Len(rs)
    BY <1>0, <1>1, <1>2
  <2>2. QED
    BY <1>2, <2>1
<1>4. Enough \in SUBSET Nat /\ Enough # {}
  BY <1>0, <1>1, <1>3
<1>5. Min(Enough) \in Enough /\ \A n \in Enough : Min(Enough) <= n
  <2> HIDE DEF Enough
  <2> QED BY <1>4, LeastExists DEF Min
<1>6. EnforceBounds(rs) = SubSeq(rs, Min(Enough) + 1, Len(rs))
  BY DEF EnforceBounds
<1>7. ASSUME NEW k \in Boundaries(rs), k < Min(Enough) PROVE Len(rs) - k > MaxSize
  <2>1. k \in Nat /\ Min(Enough) \in Nat
    BY <1>1, <1>4, <1>5
  <2>2. k \notin Enough
    <3> HIDE DEF Enough
    <3> QED BY <1>5, <1>7, <2>1
  <2>3. QED
    BY <1>0, <2>1, <2>2
<1>8. Min(Enough) \in Boundaries(rs) /\ (Len(rs) - Min(Enough) <= MaxSize \/ rs[Min(Enough) + 1].seg = rs[Len(rs)].seg)
  BY <1>5
<1>9. QED
  BY <1>1, <1>6, <1>7, <1>8

----------------------------------------------------------------------------
(* What a push does to the files.                                          *)

\* The first entries go and one is added at the end, in the active segment.
Pushed(cut, x) ==
  /\ cut \in 0..Len(records)
  /\ records' \in Seq(Record)
  /\ Len(records') = Len(records) + 1 - cut
  /\ \A i \in 1..Len(records) - cut : records'[i] = records[cut + i]
  /\ records'[Len(records')] = [seg |-> active', entry |-> x]

\* The segment after a push.
LEMMA SegmentOfPush ==
  ASSUME TypeOK, NEW w \in 0..1, SegmentFor(w)
  PROVE  /\ active' \in Nat /\ activeBytes' \in 0..SegmentMax
         /\ \/ active' = active + 1 /\ activeBytes' = w
            \/ active' = active /\ activeBytes' = activeBytes + w /\ activeBytes + 1 <= SegmentMax
BY SpoolAssumption DEF TypeOK, SegmentFor, Full

\* An entry put at the end of the files.
LEMMA AppendShape ==
  ASSUME TypeOK, NEW r \in Record
  PROVE  LET rs == Append(records, r)
         IN  /\ rs \in Seq(Record) /\ rs # <<>> /\ Len(rs) = Len(records) + 1
             /\ \A i \in 1..Len(records) : rs[i] = records[i]
             /\ rs[Len(records) + 1] = r
<1>1. Len(records) \in Nat /\ DOMAIN records = 1..Len(records)
  BY LenProperties DEF TypeOK
<1>2. /\ Append(records, r) \in Seq(Record) /\ Len(Append(records, r)) = Len(records) + 1
      /\ \A i \in 1..Len(records) : Append(records, r)[i] = records[i]
      /\ Append(records, r)[Len(records) + 1] = r
  BY AppendProperties, <1>1 DEF TypeOK
<1>3. Append(records, r) # <<>>
  BY <1>1, <1>2, EmptySeq
<1>4. QED
  BY <1>2, <1>3

\* Push appends and evicts: the cut is where the evicted entries end.
LEMMA AcceptShape ==
  ASSUME TypeOK, Accept
  PROVE  \E cut \in 0..Len(records) :
           /\ Pushed(cut, offered')
           /\ LET rs == Append(records, In(active', offered'))
              IN  /\ Len(records) + 1 - cut <= MaxSize \/ rs[cut + 1].seg = active'
                  /\ \A m \in Boundaries(rs) : m < cut => Len(records) + 1 - m > MaxSize
<1> DEFINE r == In(active', offered')
           rs == Append(records, r)
<1>1. offered' = offered + 1 /\ offered' \in Events /\ active' \in Nat
  BY SegmentOfPush, SpoolAssumption DEF Accept, Push, TypeOK, Events
<1>2. r \in Record /\ r.seg = active'
  BY <1>1 DEF In, Record
<1>3. /\ rs \in Seq(Record) /\ rs # <<>> /\ Len(rs) = Len(records) + 1
      /\ \A i \in 1..Len(records) : rs[i] = records[i]
      /\ rs[Len(records) + 1] = r
  <2> HIDE DEF r
  <2> QED BY <1>2, AppendShape
<1>4. records' = EnforceBounds(rs)
  BY DEF Accept, Push
<1>5. Len(records) \in Nat
  BY LenProperties DEF TypeOK
<1> HIDE DEF rs, r
<1>6. PICK cut \in Boundaries(rs) :
           /\ cut \in 0..Len(rs) - 1
           /\ EnforceBounds(rs) = SubSeq(rs, cut + 1, Len(rs))
           /\ Len(rs) - cut <= MaxSize \/ rs[cut + 1].seg = rs[Len(rs)].seg
           /\ \A m \in Boundaries(rs) : m < cut => Len(rs) - m > MaxSize
  BY <1>3, Evicted
<1>7. cut \in 0..Len(records)
  BY <1>3, <1>5, <1>6
<1>8. \A i \in cut + 1..Len(rs) : rs[i] \in Record
  BY <1>3, <1>5, <1>7, ElementOfSeq
<1>9. /\ records' \in Seq(Record) /\ Len(records') = Len(records) + 1 - cut
      /\ \A i \in 1..Len(records) + 1 - cut : records'[i] = rs[cut + i]
  <2>1. /\ SubSeq(rs, cut + 1, Len(rs)) \in Seq(Record)
        /\ Len(SubSeq(rs, cut + 1, Len(rs))) = IF cut + 1 <= Len(rs) THEN Len(rs) - (cut + 1) + 1 ELSE 0
        /\ \A i \in 1..Len(rs) - (cut + 1) + 1 : SubSeq(rs, cut + 1, Len(rs))[i] = rs[cut + 1 + i - 1]
    <3>1. cut + 1 \in Int /\ Len(rs) \in Int
      BY <1>3, <1>5, <1>7
    <3>2. QED
      BY <1>8, <3>1, SubSeqProperties
  <2>2. Len(rs) - (cut + 1) + 1 = Len(records) + 1 - cut /\ cut + 1 <= Len(rs)
    BY <1>3, <1>5, <1>7
  <2>3. \A i \in 1..Len(records) + 1 - cut : cut + 1 + i - 1 = cut + i
    BY <1>5, <1>7
  <2>4. QED
    BY <1>4, <1>6, <2>1, <2>2, <2>3
<1>10. \A i \in 1..Len(records) - cut : records'[i] = records[cut + i]
  <2>1. \A i \in 1..Len(records) - cut : cut + i \in 1..Len(records) /\ i \in 1..Len(records) + 1 - cut
    BY <1>5, <1>7
  <2>2. QED
    BY <1>3, <1>9, <2>1
<1>11. records'[Len(records')] = r
  <2>1. Len(records) + 1 - cut \in 1..Len(records) + 1 - cut /\ cut + (Len(records) + 1 - cut) = Len(records) + 1
    BY <1>5, <1>7
  <2>2. QED
    BY <1>3, <1>9, <2>1
<1>12. r = [seg |-> active', entry |-> offered']
  BY DEF r, In
<1>13. Pushed(cut, offered')
  BY <1>7, <1>9, <1>10, <1>11, <1>12 DEF Pushed
<1>14. /\ Len(records) + 1 - cut <= MaxSize \/ rs[cut + 1].seg = active'
       /\ \A m \in Boundaries(rs) : m < cut => Len(records) + 1 - m > MaxSize
  BY <1>2, <1>3, <1>6
<1>15. QED
  BY <1>7, <1>13, <1>14 DEF r, rs

\* A failed push writes nothing or a fragment.
LEMMA RefuseShape ==
  ASSUME TypeOK, Refuse
  PROVE  records' = records \/ Pushed(0, Fragment)
<1>1. active' \in Nat
  BY SegmentOfPush DEF Refuse, PushFails
<1>2. In(active', Fragment) \in Record
  BY <1>1 DEF In, Record
<1>3. CASE records' = Append(records, In(active', Fragment))
  <2>1. Len(records) \in Nat
    BY LenProperties DEF TypeOK
  <2>2. QED
    BY <1>2, <1>3, <2>1, AppendShape DEF Pushed, In
<1>4. QED
  BY <1>3 DEF Refuse, PushFails

----------------------------------------------------------------------------
(* The invariant is kept.                                                  *)

\* The files after a push: which of the entries are there, in old places.
LEMMA PushedPlaces ==
  ASSUME TypeOK, NEW cut, NEW x, Pushed(cut, x)
  PROVE  /\ Len(records) \in Nat /\ DOMAIN records = 1..Len(records)
         /\ Len(records') \in Nat \ {0} /\ DOMAIN records' = 1..Len(records')
         /\ Len(records') = Len(records) + 1 - cut
         /\ \A i \in DOMAIN records' :
              \/ i < Len(records') /\ cut + i \in DOMAIN records /\ records'[i] = records[cut + i]
              \/ i = Len(records') /\ records'[i] = [seg |-> active', entry |-> x]
<1>1. /\ Len(records) \in Nat /\ DOMAIN records = 1..Len(records) /\ DOMAIN records' = 1..Len(records')
  BY LenProperties DEF TypeOK, Pushed
<1>2. cut \in 0..Len(records) /\ Len(records') = Len(records) + 1 - cut
  BY DEF Pushed
<1>3. Len(records') \in Nat \ {0}
  BY <1>1, <1>2
<1>4. ASSUME NEW i \in DOMAIN records', i # Len(records')
      PROVE  i < Len(records') /\ cut + i \in DOMAIN records /\ records'[i] = records[cut + i]
  <2>1. i \in 1..Len(records) - cut /\ cut + i \in 1..Len(records) /\ i < Len(records')
    BY <1>1, <1>2, <1>4
  <2>2. QED
    BY <1>1, <2>1 DEF Pushed
<1>5. QED
  BY <1>1, <1>2, <1>3, <1>4 DEF Pushed

\* A push keeps the files in order.
LEMMA PushedSorted ==
  ASSUME TypeOK, Sorted, NEW cut, NEW x, Pushed(cut, x),
         active' \in Nat, active <= active', offered' = offered + 1,
         x = Fragment \/ x = offered'
  PROVE  Sorted'
<1>1. /\ Len(records) \in Nat /\ DOMAIN records = 1..Len(records)
      /\ Len(records') \in Nat \ {0} /\ DOMAIN records' = 1..Len(records')
      /\ \A i \in DOMAIN records' :
              \/ i < Len(records') /\ cut + i \in DOMAIN records /\ records'[i] = records[cut + i]
              \/ i = Len(records') /\ records'[i] = [seg |-> active', entry |-> x]
  BY PushedPlaces
<1>2. /\ \A n \in DOMAIN records : records[n] \in Record
      /\ active \in Nat /\ offered \in Nat /\ cut \in Nat /\ Fragment \notin Nat
  BY <1>1, ElementOfSeq, SpoolAssumption DEF TypeOK, Pushed
<1>3. \A n \in DOMAIN records' : records'[n].seg <= active'
  BY <1>1, <1>2 DEF Sorted, Record
<1>4. ASSUME NEW i \in DOMAIN records', NEW j \in DOMAIN records', i < j
      PROVE  records'[i].seg <= records'[j].seg
  <2>0. i < Len(records') /\ i \in Nat /\ j \in Nat
    BY <1>1, <1>4
  <2>1. cut + i \in DOMAIN records /\ records'[i] = records[cut + i] /\ records[cut + i].seg \in Nat
    BY <1>1, <1>2, <2>0 DEF Record
  <2>2. CASE j = Len(records')
    BY <1>1, <1>2, <2>1, <2>2 DEF Sorted
  <2>3. CASE j < Len(records')
    <3>1. cut + j \in DOMAIN records /\ records'[j] = records[cut + j] /\ cut + i < cut + j
      BY <1>1, <1>2, <1>4, <2>0, <2>3
    <3>2. QED
      BY <2>1, <3>1 DEF Sorted
  <2>4. QED
    BY <1>1, <2>2, <2>3
<1>5. ASSUME NEW i \in DOMAIN records', records'[i].entry # Fragment
      PROVE  /\ records'[i].entry <= offered'
             /\ i < Len(records') => cut + i \in OnDisk /\ records'[i].entry = records[cut + i].entry
                                     /\ records'[i].entry <= offered
  <2>1. CASE i = Len(records')
    BY <1>1, <1>2, <1>5, <2>1
  <2>2. CASE i < Len(records')
    <3>1. cut + i \in OnDisk /\ records'[i] = records[cut + i]
      BY <1>1, <1>5, <2>2 DEF OnDisk
    <3>2. records[cut + i].entry \in Nat /\ records[cut + i].entry <= offered
      BY <1>1, <1>2, <3>1 DEF Sorted, Record, Events, OnDisk
    <3>3. QED
      BY <1>2, <3>1, <3>2
  <2>3. QED
    BY <1>1, <1>5, <2>1, <2>2
<1>6. ASSUME NEW i \in DOMAIN records', NEW j \in DOMAIN records', i < j,
             records'[i].entry # Fragment, records'[j].entry # Fragment
      PROVE  records'[i].entry < records'[j].entry
  <2>0. i < Len(records') /\ i \in Nat /\ j \in Nat
    BY <1>1, <1>6
  <2>1. cut + i \in OnDisk /\ records'[i].entry = records[cut + i].entry /\ records'[i].entry <= offered
    BY <1>5, <1>6, <2>0
  <2>2. CASE j = Len(records')
    <3>1. records'[j].entry = offered + 1
      BY <1>1, <1>6, <2>2
    <3>2. records[cut + i].entry \in Nat
      BY <1>2, <2>1 DEF OnDisk, Record, Events
    <3>3. QED
      BY <1>2, <2>1, <3>1, <3>2
  <2>3. CASE j < Len(records')
    <3>1. cut + j \in OnDisk /\ records'[j].entry = records[cut + j].entry
      BY <1>5, <1>6, <2>3
    <3>2. cut + i < cut + j
      BY <1>2, <1>6, <2>0
    <3>3. QED
      BY <2>1, <3>1, <3>2 DEF Sorted
  <2>4. QED
    BY <1>1, <2>2, <2>3
<1>7. QED
  BY <1>3, <1>4, <1>5, <1>6 DEF Sorted, OnDisk

\* What was behind the cut is still there.
LEMMA PushedKeeps ==
  ASSUME TypeOK, NEW cut, NEW x, Pushed(cut, x), NEW n \in DOMAIN records, n > cut
  PROVE  /\ n - cut \in DOMAIN records' /\ n - cut < Len(records')
         /\ records'[n - cut] = records[n]
<1>1. /\ Len(records) \in Nat /\ DOMAIN records = 1..Len(records)
      /\ DOMAIN records' = 1..Len(records') /\ Len(records') = Len(records) + 1 - cut
  BY PushedPlaces
<1>2. cut \in 0..Len(records) /\ n \in 1..Len(records)
  BY <1>1 DEF Pushed
<1>3. n - cut \in 1..Len(records) - cut /\ cut + (n - cut) = n
  BY <1>1, <1>2
<1>4. QED
  BY <1>1, <1>2, <1>3 DEF Pushed

\* A push that succeeds keeps what a replay may rely on.
LEMMA AcceptKept ==
  ASSUME TypeOK, Sorted, Kept, NEW cut, Pushed(cut, offered'),
         offered' = offered + 1, spooled' = spooled \union {offered'}
  PROVE  Kept'
<1>1. /\ Len(records) \in Nat /\ DOMAIN records = 1..Len(records)
      /\ Len(records') \in Nat \ {0} /\ DOMAIN records' = 1..Len(records')
      /\ Len(records') = Len(records) + 1 - cut
      /\ \A i \in DOMAIN records' :
              \/ i < Len(records') /\ cut + i \in DOMAIN records /\ records'[i] = records[cut + i]
              \/ i = Len(records') /\ records'[i] = [seg |-> active', entry |-> offered']
  BY PushedPlaces
<1>2. /\ \A n \in DOMAIN records : records[n] \in Record
      /\ offered \in Nat /\ cut \in Nat /\ Fragment \notin Nat /\ spooled \subseteq 1..offered
  BY <1>1, ElementOfSeq, SpoolAssumption DEF TypeOK, Pushed
<1>3. records'[Len(records')].entry = offered + 1 /\ offered + 1 # Fragment /\ Len(records') \in DOMAIN records'
  BY <1>1, <1>2 DEF Pushed
<1>4. Len(records') \in OnDisk'
  BY <1>3 DEF OnDisk
<1>0. PICK last : last = Len(records')
  OBVIOUS
<1>5. offered \notin spooled \/ Readable(last)'
  <2>1. SUFFICES ASSUME Len(records') > 1, records'[Len(records') - 1].entry = Fragment
                 PROVE  offered \notin spooled
    BY <1>0, <1>3 DEF Readable
  <2>2. Len(records') - 1 \in DOMAIN records' /\ Len(records') - 1 < Len(records') /\ cut + (Len(records') - 1) = Len(records)
    BY <1>1, <1>2, <2>1
  <2>3. records'[Len(records') - 1] = records[Len(records)] /\ Len(records) \in DOMAIN records
    BY <1>1, <2>2
  <2>4. records # <<>>
    BY <1>1, <2>3
  <2>5. QED
    BY <2>1, <2>3, <2>4 DEF Kept
<1>6. ASSUME NEW e, e = offered + 1
      PROVE  \E n \in OnDisk' : records'[n].entry = e /\ (Readable(n)' \/ e - 1 \notin spooled')
  <2>1. e - 1 = offered /\ offered # offered'
    BY <1>2, <1>6
  <2>2. e - 1 \notin spooled' \/ Readable(last)'
    BY <1>5, <2>1
  <2>3. QED
    BY <1>0, <1>3, <1>4, <1>6, <2>2
<1>7. ASSUME NEW e \in spooled, \A n \in OnDisk : n > cut => records[n].entry > e
      PROVE  OnDisk' # {} /\ \A n \in OnDisk' : records'[n].entry > e
  <2>1. e \in Nat /\ e <= offered
    BY <1>2
  <2>2. ASSUME NEW n \in OnDisk' PROVE records'[n].entry > e
    <3>0. n \in DOMAIN records' /\ records'[n].entry # Fragment
      BY DEF OnDisk
    <3>1. CASE n = Len(records')
      BY <1>2, <1>3, <2>1, <3>1
    <3>2. CASE n < Len(records')
      <4>1. cut + n \in DOMAIN records /\ records'[n] = records[cut + n]
        BY <1>1, <3>0, <3>2
      <4>2. cut + n \in OnDisk /\ cut + n > cut
        BY <1>1, <1>2, <3>0, <4>1 DEF OnDisk
      <4>3. QED
        BY <1>7, <4>1, <4>2
    <3>3. QED
      BY <1>1, <3>0, <3>1, <3>2
  <2>3. QED
    BY <1>4, <2>2
<1>8. ASSUME NEW e \in spooled, NEW n \in OnDisk, records[n].entry = e, Readable(n) \/ e - 1 \notin spooled, n > cut
      PROVE  \E m \in OnDisk' : records'[m].entry = e /\ (Readable(m)' \/ e - 1 \notin spooled')
  <2>1. n \in DOMAIN records /\ records[n].entry # Fragment /\ n \in Nat
    BY <1>1 DEF OnDisk
  <2>2. n - cut \in DOMAIN records' /\ records'[n - cut] = records[n]
    BY <1>8, <2>1, PushedKeeps
  <2>3. n - cut \in OnDisk'
    BY <2>1, <2>2 DEF OnDisk
  <2>4. ASSUME Readable(n) PROVE Readable(n - cut)'
    <3>1. SUFFICES ASSUME n - cut > 1,
                          records'[n - cut - 1].entry = Fragment, records'[n - cut - 1].seg = records'[n - cut].seg
                   PROVE  FALSE
      BY <2>1, <2>2 DEF Readable
    <3>2. n - 1 \in DOMAIN records /\ n - 1 > cut /\ n - 1 - cut = n - cut - 1
      BY <1>1, <1>2, <2>1, <3>1
    <3>3. records'[n - cut - 1] = records[n - 1]
      BY <3>2, PushedKeeps
    <3>4. n > 1
      BY <1>2, <2>1, <3>1
    <3>5. QED
      BY <2>2, <2>4, <3>1, <3>3, <3>4 DEF Readable
  <2>5. e - 1 \notin spooled => e - 1 \notin spooled'
    BY <1>2
  <2>6. QED
    BY <1>8, <2>2, <2>3, <2>4, <2>5
<1>9. ASSUME NEW e \in spooled
      PROVE  \/ \E n \in OnDisk' : records'[n].entry = e /\ (Readable(n)' \/ e - 1 \notin spooled')
             \/ OnDisk' # {} /\ \A n \in OnDisk' : records'[n].entry > e
  <2>1. CASE OnDisk # {} /\ \A n \in OnDisk : records[n].entry > e
    BY <1>7, <2>1
  <2>2. ASSUME NEW n \in OnDisk, records[n].entry = e, Readable(n) \/ e - 1 \notin spooled
        PROVE  \/ \E m \in OnDisk' : records'[m].entry = e /\ (Readable(m)' \/ e - 1 \notin spooled')
               \/ OnDisk' # {} /\ \A m \in OnDisk' : records'[m].entry > e
    <3>1. CASE n > cut
      BY <1>8, <2>2, <3>1
    <3>2. CASE n <= cut
      <4>1. \A k \in OnDisk : k > cut => records[k].entry > e
        <5>1. ASSUME NEW k \in OnDisk, k > cut PROVE records[k].entry > e
          <6>1. n < k /\ records[n].entry \in Nat /\ records[k].entry \in Nat
            BY <1>1, <1>2, <3>2, <5>1 DEF OnDisk, Record, Events
          <6>2. records[n].entry < records[k].entry
            BY <6>1 DEF Sorted
          <6>3. QED
            BY <2>2, <6>1, <6>2
        <5>2. QED
          BY <5>1
      <4>2. QED
        BY <1>7, <4>1
    <3>3. n \in Nat
      BY <1>1 DEF OnDisk
    <3>4. QED
      BY <1>2, <3>1, <3>2, <3>3
  <2>3. QED
    BY <2>1, <2>2 DEF Kept
<1>10. records'[Len(records')].entry # Fragment
  BY <1>3
<1>11. ASSUME NEW e \in spooled'
       PROVE  \/ \E n \in OnDisk' : records'[n].entry = e /\ (Readable(n)' \/ e - 1 \notin spooled')
              \/ OnDisk' # {} /\ \A n \in OnDisk' : records'[n].entry > e
  BY <1>6, <1>9
<1>12. QED
  BY <1>10, <1>11 DEF Kept

\* A push that fails takes nothing away.
LEMMA RefuseKept ==
  ASSUME TypeOK, Kept, records' = records \/ Pushed(0, Fragment),
         offered' = offered + 1, spooled' = spooled
  PROVE  Kept'
<1>0. offered' \notin spooled'
  BY DEF TypeOK
<1>1. CASE records' = records
  <2>1. OnDisk' = OnDisk /\ \A n \in OnDisk : Readable(n)' <=> Readable(n)
    BY <1>1 DEF OnDisk, Readable
  <2>2. QED
    BY <1>0, <1>1, <2>1 DEF Kept
<1>2. CASE Pushed(0, Fragment)
  <2>1. /\ Len(records) \in Nat /\ DOMAIN records = 1..Len(records)
        /\ DOMAIN records' = 1..Len(records) + 1
        /\ \A i \in DOMAIN records : records'[i] = records[i]
        /\ records'[Len(records) + 1].entry = Fragment
    <3>1. /\ Len(records) \in Nat /\ DOMAIN records = 1..Len(records) /\ DOMAIN records' = 1..Len(records')
          /\ Len(records') = Len(records) + 1 - 0
      BY <1>2, PushedPlaces
    <3>2. \A i \in 1..Len(records) - 0 : records'[i] = records[0 + i]
      BY <1>2 DEF Pushed
    <3>3. records'[Len(records')].entry = Fragment
      BY <1>2 DEF Pushed
    <3>4. QED
      BY <3>1, <3>2, <3>3
  <2>2. OnDisk' = OnDisk /\ \A n \in OnDisk : records'[n] = records[n]
    BY <2>1 DEF OnDisk
  <2>3. ASSUME NEW n \in OnDisk, Readable(n) PROVE Readable(n)'
    <3>1. n > 1 => n - 1 \in DOMAIN records
      BY <2>1 DEF OnDisk
    <3>2. QED
      BY <2>1, <2>2, <2>3, <3>1 DEF Readable
  <2>4. QED
    BY <1>0, <2>2, <2>3 DEF Kept
<1>3. QED
  BY <1>1, <1>2

\* A push adds at most its event to its segment.
LEMMA PushedHeld ==
  ASSUME TypeOK, NEW cut, NEW x, Pushed(cut, x), NEW s \in Nat
  PROVE  /\ Held(s)' \subseteq Held(s) \union {x}
         /\ x = Fragment \/ s # active' => Held(s)' \subseteq Held(s)
<1>1. \A i \in DOMAIN records' :
              \/ i < Len(records') /\ cut + i \in DOMAIN records /\ records'[i] = records[cut + i]
              \/ i = Len(records') /\ records'[i] = [seg |-> active', entry |-> x]
  BY PushedPlaces
<1>2. ASSUME NEW n \in OnDisk', records'[n].seg = s
      PROVE  \/ records'[n].entry \in Held(s)
             \/ records'[n].entry = x /\ s = active' /\ x # Fragment
  <2>1. n \in DOMAIN records' /\ records'[n].entry # Fragment
    BY DEF OnDisk
  <2>2. CASE cut + n \in DOMAIN records /\ records'[n] = records[cut + n]
    BY <1>2, <2>1, <2>2 DEF Held, OnDisk
  <2>3. CASE records'[n] = [seg |-> active', entry |-> x]
    BY <1>2, <2>1, <2>3
  <2>4. QED
    BY <1>1, <2>1, <2>2, <2>3
<1>3. QED
  BY <1>2 DEF Held

\* What a segment holds can be counted.
LEMMA HeldFinite ==
  ASSUME TypeOK, NEW s
  PROVE  Held(s) \subseteq Events /\ IsFiniteSet(Held(s)) /\ Cardinality(Held(s)) \in Nat
<1>1. Held(s) \subseteq Events
  <2>1. \A n \in OnDisk : records[n] \in Record /\ records[n].entry # Fragment
    BY LenProperties, ElementOfSeq DEF OnDisk, TypeOK
  <2>2. \A n \in OnDisk : records[n].entry \in Events
    BY <2>1 DEF Record
  <2>3. QED
    BY <2>2 DEF Held
<1>2. IsFiniteSet(Events)
  BY FS_Interval, SpoolAssumption DEF Events
<1>3. QED
  BY <1>1, <1>2, FS_Subset, FS_CardinalityType

\* Segments stay within their size.
LEMMA PushedSized ==
  ASSUME TypeOK, Sorted, Sized, NEW cut, NEW x, Pushed(cut, x), NEW w \in 0..1,
         SegmentFor(w), x = Fragment \/ w = 1
  PROVE  Sized'
<1>1. /\ active' \in Nat /\ activeBytes' \in 0..SegmentMax /\ activeBytes \in Nat /\ SegmentMax \in Nat
      /\ \/ active' = active + 1 /\ activeBytes' = w
         \/ active' = active /\ activeBytes' = activeBytes + w /\ activeBytes + 1 <= SegmentMax
  BY SegmentOfPush, SpoolAssumption DEF TypeOK
<1>2. ASSUME NEW s \in Nat, s # active' PROVE Cardinality(Held(s)') <= SegmentMax
  <2>1. Held(s)' \subseteq Held(s) /\ IsFiniteSet(Held(s)) /\ Cardinality(Held(s)) \in Nat
    BY <1>2, PushedHeld, HeldFinite
  <2>2. Cardinality(Held(s)') <= Cardinality(Held(s)) /\ Cardinality(Held(s)') \in Nat
    BY <2>1, FS_Subset, FS_CardinalityType
  <2>3. QED
    BY <1>1, <2>1, <2>2 DEF Sized
<1>3. PICK a \in Nat : a = active'
  BY <1>1
<1>4. Cardinality(Held(a)) + w <= activeBytes'
  <2>1. CASE active' = active + 1
    <3>1. Held(a) = {}
      <4>1. ASSUME NEW n \in OnDisk, records[n].seg = a PROVE FALSE
        BY <1>3, <2>1, <4>1 DEF Sorted, OnDisk, TypeOK
      <4>2. QED
        BY <4>1 DEF Held
    <3>2. activeBytes' = w
      BY <1>1, <2>1 DEF TypeOK
    <3>3. QED
      BY <3>1, <3>2, FS_EmptySet
  <2>2. CASE active' = active
    <3>1. Cardinality(Held(a)) <= activeBytes /\ Cardinality(Held(a)) \in Nat
      BY <1>3, <2>2, HeldFinite DEF Sized
    <3>2. activeBytes' = activeBytes + w
      BY <1>1, <2>2 DEF TypeOK
    <3>3. QED
      BY <1>1, <3>1, <3>2
  <2>3. QED
    BY <1>1, <2>1, <2>2
<1>5. Cardinality(Held(a)') <= activeBytes' /\ Cardinality(Held(a)') \in Nat
  <2>1. IsFiniteSet(Held(a)) /\ Cardinality(Held(a)) \in Nat
    BY HeldFinite
  <2>2. CASE x = Fragment
    <3>1. Held(a)' \subseteq Held(a)
      BY <2>2, PushedHeld
    <3>2. Cardinality(Held(a)') <= Cardinality(Held(a)) /\ Cardinality(Held(a)') \in Nat
      BY <2>1, <3>1, FS_Subset, FS_CardinalityType
    <3>3. QED
      BY <1>1, <1>4, <2>1, <3>2
  <2>3. CASE w = 1
    <3>1. Held(a)' \subseteq Held(a) \union {x}
      BY PushedHeld
    <3>2. /\ IsFiniteSet(Held(a) \union {x}) /\ Cardinality(Held(a) \union {x}) \in Nat
          /\ Cardinality(Held(a) \union {x}) <= Cardinality(Held(a)) + 1
      <4>1. /\ IsFiniteSet(Held(a) \union {x})
            /\ Cardinality(Held(a) \union {x}) = IF x \in Held(a) THEN Cardinality(Held(a)) ELSE Cardinality(Held(a)) + 1
        BY <2>1, FS_AddElement
      <4>2. QED
        BY <2>1, <4>1
    <3>3. Cardinality(Held(a)') <= Cardinality(Held(a) \union {x}) /\ Cardinality(Held(a)') \in Nat
      BY <3>1, <3>2, FS_Subset, FS_CardinalityType
    <3>4. QED
      BY <1>1, <1>4, <2>1, <2>3, <3>2, <3>3
  <2>4. QED
    BY <2>2, <2>3
<1>6. Held(active)' = Held(a)'
  BY <1>3 DEF Held
<1>7. ASSUME NEW s \in Nat PROVE Cardinality(Held(s)') <= SegmentMax
  <2>1. CASE s = a
    BY <1>1, <1>5, <2>1
  <2>2. QED
    BY <1>2, <1>3, <2>1
<1>8. QED
  BY <1>5, <1>6, <1>7 DEF Sized

\* A new segment, or an event that was refused, alone disturbs nothing.
LEMMA SegmentsAfter ==
  ASSUME TypeOK, Sorted, Sized, records' = records,
         \/ active' = active + 1 /\ activeBytes' = 0
         \/ active' = active /\ activeBytes' = activeBytes,
         offered' = offered + 1 \/ offered' = offered
  PROVE  Sorted' /\ Sized'
<1>1. OnDisk' = OnDisk /\ \A s \in Nat : Held(s)' = Held(s)
  BY DEF OnDisk, Held
<1>2. \A n \in DOMAIN records : records[n].seg \in Nat /\ (records[n].entry \in Nat \/ n \notin OnDisk)
  <2>1. \A n \in DOMAIN records : records[n] \in Record
    BY LenProperties, ElementOfSeq DEF TypeOK
  <2>2. QED
    BY <2>1, SpoolAssumption DEF Record, OnDisk, Events
<1>3. Sorted'
  <2>1. active \in Nat /\ offered \in Nat /\ active' \in Nat /\ offered' \in Nat /\ active <= active' /\ offered <= offered'
    BY SpoolAssumption DEF TypeOK
  <2>2. \A n \in DOMAIN records : records[n].seg <= active'
    BY <1>2, <2>1 DEF Sorted
  <2>3. \A n \in OnDisk : records[n].entry <= offered'
    BY <1>2, <2>1 DEF Sorted, OnDisk
  <2>4. QED
    BY <1>1, <2>2, <2>3 DEF Sorted
<1>4. CASE active' = active + 1 /\ activeBytes' = 0
  <2>1. PICK a \in Nat : a = active'
    BY <1>4 DEF TypeOK
  <2>2. Held(a) = {}
    BY <1>2, <1>4, <2>1 DEF Held, Sorted, OnDisk, TypeOK
  <2>3. Held(active)' = {}
    BY <2>1, <2>2 DEF Held, OnDisk
  <2>4. QED
    BY <1>1, <1>3, <1>4, <2>3, FS_EmptySet DEF Sized
<1>5. CASE active' = active /\ activeBytes' = activeBytes
  <2>1. Held(active)' = Held(active)
    BY <1>5 DEF Held, OnDisk
  <2>2. QED
    BY <1>1, <1>3, <1>5, <2>1 DEF Sized
<1>6. QED
  BY <1>4, <1>5

\* The invariant holds of an empty directory.
LEMMA SpoolInit == Init => SpoolInv
<1> SUFFICES ASSUME Init PROVE SpoolInv
  OBVIOUS
<1>1. TypeOK
  BY EmptySeq, SpoolAssumption DEF Init, TypeOK
<1>2. OnDisk = {} /\ DOMAIN records = {}
  BY DEF Init, OnDisk
<1>3. \A s \in Nat : Held(s) = {}
  BY <1>2 DEF Held
<1>4. Sized
  <2>1. active \in Nat /\ activeBytes \in Nat /\ SegmentMax \in Nat /\ Cardinality({}) = 0
    BY <1>1, FS_EmptySet, SpoolAssumption DEF TypeOK
  <2>2. \A s \in Nat : Cardinality(Held(s)) = 0
    BY <1>3, <2>1
  <2>3. QED
    BY <2>1, <2>2 DEF Sized
<1>5. Sorted /\ Kept
  BY <1>2 DEF Init, Sorted, Kept
<1>6. QED
  BY <1>1, <1>4, <1>5 DEF SpoolInv

\* The invariant is inductive.
LEMMA SpoolStep == SpoolInv /\ [Next]_vars => SpoolInv'
<1> SUFFICES ASSUME SpoolInv, [Next]_vars PROVE SpoolInv'
  OBVIOUS
<1>0. TypeOK /\ Sorted /\ Kept /\ Sized
  BY DEF SpoolInv
<1>1. CASE Accept
  <2>1. PICK cut : Pushed(cut, offered')
    BY <1>0, <1>1, AcceptShape
  <2>2. /\ offered' = offered + 1 /\ spooled' = spooled \union {offered'} /\ SegmentFor(1)
        /\ offered' \in 0..MaxEvents /\ spooled' \subseteq 1..offered'
    BY <1>0, <1>1, SpoolAssumption DEF Accept, Push, TypeOK
  <2>3. active' \in Nat /\ active <= active' /\ activeBytes' \in 0..SegmentMax
    BY <1>0, <2>2, SegmentOfPush DEF TypeOK
  <2>4. TypeOK'
    BY <2>1, <2>2, <2>3 DEF TypeOK, Pushed
  <2>5. Sorted'
    BY <1>0, <2>1, <2>2, <2>3, PushedSorted
  <2>6. Kept'
    BY <1>0, <2>1, <2>2, AcceptKept
  <2>7. Sized'
    BY <1>0, <2>1, <2>2, PushedSized
  <2>8. QED
    BY <2>4, <2>5, <2>6, <2>7 DEF SpoolInv
<1>2. CASE Refuse
  <2>1. records' = records \/ Pushed(0, Fragment)
    BY <1>0, <1>2, RefuseShape
  <2>2. /\ offered' = offered + 1 /\ spooled' = spooled /\ SegmentFor(0)
        /\ offered' \in 0..MaxEvents /\ spooled' \subseteq 1..offered'
    BY <1>0, <1>2, SpoolAssumption DEF Refuse, PushFails, TypeOK
  <2>3. /\ active' \in Nat /\ active <= active' /\ activeBytes' \in 0..SegmentMax
        /\ \/ active' = active + 1 /\ activeBytes' = 0
           \/ active' = active /\ activeBytes' = activeBytes
    BY <1>0, <2>2, SegmentOfPush DEF TypeOK
  <2>4. TypeOK'
    BY <1>0, <2>1, <2>2, <2>3 DEF TypeOK, Pushed
  <2>5. Kept'
    BY <1>0, <2>1, <2>2, RefuseKept
  <2>6. CASE Pushed(0, Fragment)
    <3>1. Sorted'
      BY <1>0, <2>2, <2>3, <2>6, PushedSorted
    <3>2. Sized'
      BY <1>0, <2>2, <2>6, PushedSized
    <3>3. QED
      BY <2>4, <2>5, <3>1, <3>2 DEF SpoolInv
  <2>7. CASE records' = records
    <3>1. OnDisk' = OnDisk /\ \A s : Held(s)' = Held(s)
      BY <2>7 DEF OnDisk, Held
    <3>2. Sorted' /\ Sized'
      BY <1>0, <2>2, <2>3, <2>7, <3>1, SegmentsAfter
    <3>3. QED
      BY <2>4, <2>5, <3>2 DEF SpoolInv
  <2>8. QED
    BY <2>1, <2>6, <2>7
<1>3. CASE RotateFails
  <2>1. /\ records' = records /\ active' = active /\ activeBytes' = activeBytes
        /\ offered' = offered + 1 /\ spooled' = spooled
        /\ offered' \in 0..MaxEvents /\ spooled' \subseteq 1..offered'
    BY <1>0, <1>3, SpoolAssumption DEF RotateFails, TypeOK
  <2>2. TypeOK'
    BY <1>0, <2>1 DEF TypeOK
  <2>3. Kept'
    BY <1>0, <2>1, RefuseKept
  <2>4. Sorted' /\ Sized'
    BY <1>0, <2>1, SegmentsAfter
  <2>5. QED
    BY <2>2, <2>3, <2>4 DEF SpoolInv
<1>4. CASE Restart
  <2>1. /\ records' = records /\ active' = active + 1 /\ activeBytes' = 0
        /\ offered' = offered /\ spooled' = spooled
    BY <1>4 DEF Restart, NewSpool
  <2>2. TypeOK'
    BY <1>0, <2>1, SpoolAssumption DEF TypeOK
  <2>3. Kept'
    <3>1. OnDisk' = OnDisk /\ \A n \in OnDisk : Readable(n)' <=> Readable(n)
      BY <2>1 DEF OnDisk, Readable
    <3>2. QED
      BY <1>0, <2>1, <3>1 DEF Kept
  <2>4. Sorted' /\ Sized'
    BY <1>0, <2>1, SegmentsAfter
  <2>5. QED
    BY <2>2, <2>3, <2>4 DEF SpoolInv
<1>5. CASE UNCHANGED vars
  <2>1. UNCHANGED <<records, active, activeBytes, offered, spooled>>
    BY <1>5 DEF vars
  <2>2. OnDisk' = OnDisk /\ \A n \in OnDisk : Readable(n)' <=> Readable(n)
    BY <2>1 DEF OnDisk, Readable
  <2>3. TypeOK' /\ Kept'
    BY <1>0, <2>1, <2>2 DEF TypeOK, Kept
  <2>4. Sorted' /\ Sized'
    BY <1>0, <2>1, SegmentsAfter
  <2>5. QED
    BY <2>3, <2>4 DEF SpoolInv
<1>6. QED
  BY <1>1, <1>2, <1>3, <1>4, <1>5 DEF Next

----------------------------------------------------------------------------
(* The theorems.                                                           *)

\* The inductive invariant of the files and the two counters of Push.
THEOREM SpoolInvariant == Spec => []SpoolInv
BY SpoolInit, SpoolStep, PTL DEF Spec

\* The sizes and the numbers that Push counts stay in their ranges, over any
\* rotations, failures and restarts.
THEOREM SpoolTypeCorrect == Spec => []TypeOK
<1>1. SpoolInv => TypeOK
  BY DEF SpoolInv
<1>2. QED
  BY <1>1, SpoolInvariant, PTL

\* Whatever the sizes, and however pushes, failures, evictions and restarts
\* follow each other, a replay is in order and misses only what was evicted, oldest first, or
\* shares its line with a fragment.
THEOREM ReplayAlwaysComplete == Spec => []ReplayComplete
<1>1. SpoolInv => ReplayComplete
  BY DEF SpoolInv, Sorted, Kept, ReplayComplete
<1>2. QED
  BY <1>1, SpoolInvariant, PTL

----------------------------------------------------------------------------
(* The files are a bounded queue.                                          *)

Entries == [n \in DOMAIN records |-> records[n].entry]

\* An initial segment of the numbers determines its length.
LEMMA SameBound ==
  ASSUME NEW p \in Nat, NEW q \in Nat, 1..p = 1..q
  PROVE  p = q
<1>1. p \in 1..p \/ p = 0
  OBVIOUS
<1>2. q \in 1..q \/ q = 0
  OBVIOUS
<1>3. p <= q
  BY <1>1
<1>4. q <= p
  BY <1>2
<1>5. QED
  BY <1>3, <1>4

\* The entries of the files are a sequence.
LEMMA EntriesOf ==
  ASSUME NEW rs \in Seq(Record)
  PROVE  LET es == [n \in DOMAIN rs |-> rs[n].entry]
         IN  /\ Len(rs) \in Nat /\ DOMAIN rs = 1..Len(rs)
             /\ es \in Seq(Events \union {Fragment}) /\ Len(es) = Len(rs)
             /\ \A n \in 1..Len(rs) : es[n] = rs[n].entry /\ rs[n] \in Record
<1> DEFINE es == [n \in DOMAIN rs |-> rs[n].entry]
<1>1. Len(rs) \in Nat /\ DOMAIN rs = 1..Len(rs) /\ \A n \in 1..Len(rs) : rs[n] \in Record
  BY LenProperties, ElementOfSeq
<1>2. es \in [1..Len(rs) -> Events \union {Fragment}] /\ DOMAIN es = 1..Len(rs)
  BY <1>1 DEF Record
<1>3. es \in Seq(Events \union {Fragment})
  BY <1>1, <1>2, SeqDef
<1>4. Len(es) = Len(rs)
  <2> HIDE DEF es
  <2>1. DOMAIN es = 1..Len(es) /\ Len(es) \in Nat
    BY <1>3, LenProperties
  <2>2. 1..Len(es) = 1..Len(rs)
    BY <1>2, <2>1
  <2>3. QED
    BY <1>1, <2>1, <2>2, SameBound
<1>5. QED
  BY <1>1, <1>3, <1>4

\* Those of the present files.
LEMMA EntriesTyped ==
  ASSUME TypeOK
  PROVE  /\ Len(records) \in Nat /\ DOMAIN records = 1..Len(records)
         /\ Entries \in Seq(Events \union {Fragment}) /\ Len(Entries) = Len(records)
         /\ \A n \in 1..Len(records) : Entries[n] = records[n].entry /\ records[n] \in Record
BY EntriesOf DEF TypeOK, Entries

\* The queue counts as the spool does.
LEMMA SameCount == \A S : Queue!Cardinality(S) = Cardinality(S)
BY DEF Queue!Cardinality, Cardinality

\* Consecutive entries of one segment count as events at most what it holds.
LEMMA SegmentCount ==
  ASSUME TypeOK, Sorted, NEW i \in Int, NEW j \in Int, NEW s \in Nat,
         \A k \in i..j : k \in DOMAIN records /\ records[k].seg = s
  PROVE  LET counted == {k \in i..j : Entries[k] # Fragment}
         IN  Cardinality(counted) \in Nat /\ Cardinality(counted) <= Cardinality(Held(s))
<1> DEFINE counted == {k \in i..j : Entries[k] # Fragment}
           f == [k \in counted |-> records[k].entry]
<1>1. \A k \in counted : k \in OnDisk /\ records[k].seg = s /\ k \in Int
  BY EntriesTyped DEF OnDisk
<1>2. f \in [counted -> Held(s)]
  BY <1>1 DEF Held
<1>3. \A k \in OnDisk : records[k].entry \in Nat
  BY EntriesTyped, SpoolAssumption DEF OnDisk, Record, Events
<1>4. ASSUME NEW k \in counted, NEW l \in counted, f[k] = f[l] PROVE k = l
  <2>1. records[k].entry = records[l].entry /\ records[k].entry \in Nat
    BY <1>1, <1>3, <1>4
  <2>2. ~(k < l) /\ ~(l < k)
    BY <1>1, <2>1 DEF Sorted
  <2>3. QED
    BY <1>1, <2>2
<1>5. f \in Injection(counted, Held(s))
  BY <1>2, <1>4 DEF Injection, IsInjective
<1>6. IsFiniteSet(Held(s))
  BY HeldFinite
<1>7. IsFiniteSet(counted) /\ Cardinality(counted) <= Cardinality(Held(s))
  <2> HIDE DEF f, counted
  <2> QED BY <1>5, <1>6, FS_Injection
<1>8. QED
  BY <1>7, FS_CardinalityType

\* A push that succeeds puts its event into the queue: the cut is the witness.
LEMMA AcceptPuts ==
  ASSUME SpoolInv, SpoolInv', Accept
  PROVE  \E e \in Events : Queue!Put(e)
<1>0. TypeOK /\ TypeOK' /\ Sorted /\ Sized
  BY DEF SpoolInv
<1> DEFINE r == In(active', offered')
           rs == Append(records, r)
<1>1. PICK cut \in 0..Len(records) :
           /\ Pushed(cut, offered')
           /\ Len(records) + 1 - cut <= MaxSize \/ rs[cut + 1].seg = active'
           /\ \A m \in Boundaries(rs) : m < cut => Len(records) + 1 - m > MaxSize
  BY <1>0, AcceptShape
<1>2. /\ Len(records) \in Nat /\ DOMAIN records = 1..Len(records)
      /\ Entries \in Seq(Events \union {Fragment}) /\ Len(Entries) = Len(records)
      /\ \A n \in 1..Len(records) : Entries[n] = records[n].entry /\ records[n] \in Record
  BY <1>0, EntriesTyped
<1>3. /\ DOMAIN records' = 1..Len(records')
      /\ Entries' \in Seq(Events \union {Fragment}) /\ Len(Entries') = Len(records')
      /\ \A n \in 1..Len(records') : Entries'[n] = records'[n].entry
  BY <1>0, EntriesOf DEF TypeOK, Entries
<1>4. /\ r \in Record /\ r.seg = active' /\ active' \in Nat /\ offered' \in Events
  BY <1>0, SegmentOfPush, SpoolAssumption DEF Accept, Push, TypeOK, Events, In, Record
<1>5. /\ rs \in Seq(Record) /\ Len(rs) = Len(records) + 1
      /\ \A i \in 1..Len(records) : rs[i] = records[i]
      /\ rs[Len(records) + 1] = r
  <2> HIDE DEF r
  <2> QED BY <1>0, <1>4, AppendShape
<1> HIDE DEF r, rs
<1>6. Entries' = Append(SubSeq(Entries, cut + 1, Len(Entries)), offered')
  <2>1. /\ cut + 1 \in Int /\ Len(Entries) \in Int /\ cut \in Nat
        /\ \A i \in cut + 1..Len(Entries) : Entries[i] \in Events \union {Fragment}
    BY <1>2, ElementOfSeq
  <2> DEFINE rest == SubSeq(Entries, cut + 1, Len(Entries))
  <2>2. /\ rest \in Seq(Events \union {Fragment})
        /\ Len(rest) = IF cut + 1 <= Len(Entries) THEN Len(Entries) - (cut + 1) + 1 ELSE 0
        /\ \A i \in 1..Len(Entries) - (cut + 1) + 1 : rest[i] = Entries[cut + 1 + i - 1]
    BY <2>1, SubSeqProperties
  <2> HIDE DEF rest
  <2>3. Len(rest) = Len(records) - cut /\ \A i \in 1..Len(records) - cut : rest[i] = records[cut + i].entry
    <3>1. PICK size \in Nat : size = Len(records) /\ size = Len(Entries) /\ cut \in 0..size
      BY <1>2
    <3>2. \A i \in 1..size - cut : i \in 1..size - (cut + 1) + 1 /\ cut + 1 + i - 1 = cut + i /\ cut + i \in 1..size
      BY <3>1
    <3>3. (IF cut + 1 <= size THEN size - (cut + 1) + 1 ELSE 0) = size - cut
      BY <3>1
    <3>4. Len(rest) = size - cut
      BY <2>2, <3>1, <3>3
    <3>5. \A i \in 1..size - cut : rest[i] = Entries[cut + i]
      BY <2>2, <3>1, <3>2
    <3>6. \A i \in 1..size - cut : Entries[cut + i] = records[cut + i].entry
      BY <1>2, <3>1, <3>2
    <3>7. QED
      BY <3>1, <3>4, <3>5, <3>6
  <2>4. /\ Append(rest, offered') \in Seq(Events \union {Fragment})
        /\ Len(Append(rest, offered')) = Len(rest) + 1
        /\ \A i \in 1..Len(rest) : Append(rest, offered')[i] = rest[i]
        /\ Append(rest, offered')[Len(rest) + 1] = offered'
    BY <1>4, <2>2, AppendProperties
  <2>5. /\ Len(Entries') = Len(records) + 1 - cut
        /\ \A i \in 1..Len(records) - cut : Entries'[i] = records[cut + i].entry
        /\ Entries'[Len(records) + 1 - cut] = offered'
    <3>1. \A i \in 1..Len(records) + 1 - cut : i \in 1..Len(records')
      BY <1>1 DEF Pushed
    <3>2. Len(records) + 1 - cut \in 1..Len(records) + 1 - cut /\ \A i \in 1..Len(records) - cut : i \in 1..Len(records) + 1 - cut
      BY <1>2, <2>1
    <3>3. records'[Len(records) + 1 - cut].entry = offered'
      BY <1>1 DEF Pushed
    <3>4. \A i \in 1..Len(records) - cut : records'[i] = records[cut + i]
      BY <1>1 DEF Pushed
    <3>5. QED
      BY <1>1, <1>3, <3>1, <3>2, <3>3, <3>4 DEF Pushed
  <2>6. Len(Entries') = Len(Append(rest, offered'))
    BY <1>2, <2>1, <2>3, <2>4, <2>5
  <2>7. \A i \in 1..Len(Entries') : Entries'[i] = Append(rest, offered')[i]
    <3>1. SUFFICES ASSUME NEW i \in 1..Len(Entries') PROVE Entries'[i] = Append(rest, offered')[i]
      OBVIOUS
    <3>2. i \in 1..Len(records) - cut \/ i = Len(records) + 1 - cut
      BY <1>2, <2>1, <2>5
    <3>3. QED
      BY <2>3, <2>4, <2>5, <3>2, <1>2, <2>1
  <2>8. Entries' = Append(rest, offered')
    BY <1>3, <2>4, <2>6, <2>7, SeqEqual
  <2>9. QED
    BY <2>8 DEF rest
<1>7. cut > 0 => \E m \in 0..cut - 1 :
                   /\ Len(Entries) - m >= MaxSize
                   /\ Cardinality({k \in m + 1..cut : Entries[k] # Fragment}) <= SegmentMax
  <2>1. SUFFICES ASSUME cut > 0 PROVE \E m \in 0..cut - 1 :
                   /\ Len(Entries) - m >= MaxSize
                   /\ Cardinality({k \in m + 1..cut : Entries[k] # Fragment}) <= SegmentMax
    OBVIOUS
  <2>2. cut \in 1..Len(rs)
    BY <1>2, <1>5, <2>1
  <2>3. PICK m \in Boundaries(rs) : m < cut /\ \A j \in m + 1..cut : rs[j].seg = rs[cut].seg
    BY <1>5, <2>2, SegmentBegins
  <2>4. m \in 0..cut - 1
    BY <1>2, <1>5, <2>2, <2>3 DEF Boundaries
  <2>5. Len(Entries) - m >= MaxSize
    BY <1>1, <1>2, <2>3, <2>4, SpoolAssumption
  <2>6. \A k \in m + 1..cut : k \in DOMAIN records /\ records[k].seg = records[cut].seg
    <3>1. \A k \in m + 1..cut : k \in 1..Len(records)
      BY <1>2, <2>4
    <3>2. cut \in 1..Len(records)
      BY <1>2, <2>1
    <3>3. QED
      BY <1>2, <1>5, <2>3, <3>1, <3>2
  <2>7. records[cut].seg \in Nat
    BY <1>2, <2>1 DEF Record
  <2>8. m + 1 \in Int /\ cut \in Int
    BY <2>4
  <2>9. LET counted == {k \in m + 1..cut : Entries[k] # Fragment}
        IN  Cardinality(counted) \in Nat /\ Cardinality(counted) <= Cardinality(Held(records[cut].seg))
    BY <1>0, <2>6, <2>7, <2>8, SegmentCount
  <2>10. Cardinality(Held(records[cut].seg)) <= SegmentMax /\ Cardinality(Held(records[cut].seg)) \in Nat
    BY <1>0, <2>7, HeldFinite DEF Sized
  <2>11. Cardinality({k \in m + 1..cut : Entries[k] # Fragment}) <= SegmentMax
    BY <2>9, <2>10, SpoolAssumption
  <2>12. QED
    BY <2>4, <2>5, <2>11
<1>8. \/ Len(Entries) - cut < MaxSize
      \/ Cardinality({k \in cut + 1..Len(Entries) : Entries[k] # Fragment}) < SegmentMax
  <2>1. CASE Len(records) + 1 - cut <= MaxSize
    BY <1>2, <2>1, SpoolAssumption
  <2>2. CASE rs[cut + 1].seg = active' /\ cut < Len(records)
    <3>1. cut \in Nat /\ cut + 1 \in 1..Len(records) /\ active \in Nat
      BY <1>0, <1>2, <2>2 DEF TypeOK
    <3>2. records[cut + 1].seg = active'
      BY <1>5, <2>2, <3>1
    <3>3. records[cut + 1].seg <= active
      BY <1>0, <1>2, <3>1 DEF Sorted
    <3>4. /\ active' = active /\ activeBytes + 1 <= SegmentMax /\ activeBytes \in Nat
      <4>1. SegmentFor(1) /\ 1 \in 0..1
        BY DEF Accept, Push
      <4>2. \/ active' = active + 1 /\ activeBytes' = 1
            \/ active' = active /\ activeBytes' = activeBytes + 1 /\ activeBytes + 1 <= SegmentMax
        BY <1>0, <4>1, SegmentOfPush
      <4>3. activeBytes \in Nat
        BY <1>0, SpoolAssumption DEF TypeOK
      <4>4. QED
        BY <3>1, <3>2, <3>3, <4>2, <4>3
    <3>5. \A k \in cut + 1..Len(records) : k \in DOMAIN records /\ records[k].seg = active
      <4>1. SUFFICES ASSUME NEW k \in cut + 1..Len(records) PROVE k \in DOMAIN records /\ records[k].seg = active
        OBVIOUS
      <4>2. k \in DOMAIN records /\ (k = cut + 1 \/ cut + 1 < k) /\ cut + 1 \in DOMAIN records
        BY <1>2, <3>1
      <4>3. records[k].seg \in Nat
        BY <1>2, <4>2 DEF Record
      <4>4. records[cut + 1].seg <= records[k].seg /\ records[k].seg <= active
        BY <1>0, <3>2, <3>4, <4>2, <4>3 DEF Sorted
      <4>5. QED
        BY <3>1, <3>2, <3>4, <4>2, <4>3, <4>4
    <3>6. cut + 1 \in Int /\ Len(records) \in Int
      BY <1>2, <3>1
    <3>7. LET counted == {k \in cut + 1..Len(records) : Entries[k] # Fragment}
          IN  Cardinality(counted) \in Nat /\ Cardinality(counted) <= Cardinality(Held(active))
      BY <1>0, <3>1, <3>5, <3>6, SegmentCount
    <3>8. Cardinality(Held(active)) <= activeBytes /\ Cardinality(Held(active)) \in Nat
      BY <1>0, <3>1, HeldFinite, FS_CardinalityType DEF Sized
    <3>9. Cardinality({k \in cut + 1..Len(Entries) : Entries[k] # Fragment}) < SegmentMax
      BY <1>2, <3>4, <3>7, <3>8, SpoolAssumption
    <3>10. QED
      BY <3>9
  <2>3. CASE cut = Len(records)
    BY <1>2, <2>3, SpoolAssumption
  <2>4. QED
    BY <1>1, <1>2, <2>1, <2>2, <2>3
<1>9. \A i, j : Queue!EventsIn(i, j) = Cardinality({k \in i..j : Entries[k] # Fragment})
  BY SameCount DEF Queue!EventsIn, Entries
<1>10. \E n \in 0..Len(Entries) :
          /\ Entries' = Append(SubSeq(Entries, n + 1, Len(Entries)), offered')
          /\ n > 0 => \E m \in 0..n - 1 : /\ Len(Entries) - m >= MaxSize
                                          /\ Queue!EventsIn(m + 1, n) <= SegmentMax
          /\ Len(Entries) - n < MaxSize \/ Queue!EventsIn(n + 1, Len(Entries)) < SegmentMax
  <2>1. cut \in 0..Len(Entries)
    BY <1>2
  <2>2. cut > 0 => \E m \in 0..cut - 1 : /\ Len(Entries) - m >= MaxSize
                                         /\ Queue!EventsIn(m + 1, cut) <= SegmentMax
    BY <1>7, <1>9
  <2>3. Len(Entries) - cut < MaxSize \/ Queue!EventsIn(cut + 1, Len(Entries)) < SegmentMax
    BY <1>8, <1>9
  <2>4. WITNESS cut \in 0..Len(Entries)
  <2>5. QED
    BY <1>6, <2>2, <2>3
<1>11. PICK e \in Events : e = offered'
  BY <1>4
<1>12. Queue!Put(e)
  BY <1>10, <1>11 DEF Queue!Put, Entries
<1>13. QED
  BY <1>12

\* A push that fails leaves the queue as it is, or breaks its end.
LEMMA RefuseBreaks ==
  ASSUME TypeOK, TypeOK', Refuse
  PROVE  Queue!Break \/ Entries' = Entries
<1>1. CASE records' = records
  BY <1>1 DEF Entries
<1>2. CASE Pushed(0, Fragment)
  <2>1. /\ Len(records) \in Nat /\ DOMAIN records = 1..Len(records)
        /\ Entries \in Seq(Events \union {Fragment}) /\ Len(Entries) = Len(records)
        /\ \A n \in 1..Len(records) : Entries[n] = records[n].entry /\ records[n] \in Record
    BY EntriesTyped
  <2>2. /\ DOMAIN records' = 1..Len(records')
        /\ Entries' \in Seq(Events \union {Fragment}) /\ Len(Entries') = Len(records')
        /\ \A n \in 1..Len(records') : Entries'[n] = records'[n].entry
    BY EntriesOf DEF TypeOK, Entries
  <2>3. /\ Append(Entries, Fragment) \in Seq(Events \union {Fragment})
        /\ Len(Append(Entries, Fragment)) = Len(Entries) + 1
        /\ \A i \in 1..Len(Entries) : Append(Entries, Fragment)[i] = Entries[i]
        /\ Append(Entries, Fragment)[Len(Entries) + 1] = Fragment
    BY <2>1, AppendProperties
  <2>4. /\ Len(records') = Len(records) + 1
        /\ \A i \in 1..Len(records) : records'[i] = records[i]
        /\ records'[Len(records) + 1].entry = Fragment
    <3>1. /\ Len(records') = Len(records) + 1 - 0
          /\ \A i \in 1..Len(records) - 0 : records'[i] = records[0 + i]
          /\ records'[Len(records')].entry = Fragment
      BY <1>2 DEF Pushed
    <3>2. Len(records) + 1 - 0 = Len(records) + 1 /\ Len(records) - 0 = Len(records) /\ \A i \in 1..Len(records) : 0 + i = i
      BY <2>1
    <3>3. QED
      BY <3>1, <3>2
  <2>5. \A i \in 1..Len(Entries') : Entries'[i] = Append(Entries, Fragment)[i]
    <3>1. SUFFICES ASSUME NEW i \in 1..Len(Entries') PROVE Entries'[i] = Append(Entries, Fragment)[i]
      OBVIOUS
    <3>2. (i \in 1..Len(records) \/ i = Len(records) + 1) /\ i \in 1..Len(records')
      BY <2>1, <2>2, <2>4
    <3>3. QED
      BY <2>1, <2>2, <2>3, <2>4, <3>2
  <2>6. Entries' = Append(Entries, Fragment)
    BY <2>1, <2>2, <2>3, <2>4, <2>5, SeqEqual
  <2>7. QED
    BY <2>6 DEF Queue!Break, Entries
<1>3. QED
  BY <1>1, <1>2, RefuseShape

\* ReplayUnacknowledged, Push and enforceBounds implement a bounded queue: every
\* step of the spool is a put, a broken put, or nothing to the queue.
THEOREM SpoolIsQueue == Spec => QueueSpec
<1>1. Init => Queue!Init
  <2>1. SUFFICES ASSUME Init PROVE Entries = <<>>
    BY DEF Queue!Init, Entries
  <2>2. TypeOK
    BY <2>1, SpoolInit DEF SpoolInv
  <2>3. Entries \in Seq(Events \union {Fragment}) /\ Len(Entries) = Len(records)
    BY <2>2, EntriesTyped
  <2>4. Len(records) = 0
    BY <2>1, <2>2, EmptySeq DEF Init, TypeOK
  <2>5. QED
    BY <2>3, <2>4, EmptySeq
<1>2. ASSUME SpoolInv, SpoolInv', [Next]_vars PROVE [Queue!Next]_Entries
  <2>0. TypeOK /\ TypeOK'
    BY <1>2 DEF SpoolInv
  <2>1. CASE Accept
    BY <1>2, <2>1, AcceptPuts DEF Queue!Next
  <2>2. CASE Refuse
    BY <2>0, <2>2, RefuseBreaks DEF Queue!Next
  <2>3. CASE records' = records
    BY <2>3 DEF Entries
  <2>4. QED
    BY <1>2, <2>1, <2>2, <2>3 DEF Next, RotateFails, Restart, NewSpool, vars
<1>3. QED
  BY <1>1, <1>2, SpoolInvariant, PTL DEF Spec, QueueSpec, Queue!Spec, Entries
=============================================================================
