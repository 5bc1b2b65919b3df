------------------------- MODULE AgentDaemonProofs --------------------------
(***************************************************************************)
(* The spooling daemon for any log, any sizes of batch, channels and       *)
(* spool, and any number of failures and runs: what becomes of an event    *)
(* between its source and the output.                                      *)
(***************************************************************************)
EXTENDS AgentDaemon, SequenceTheorems, WellFoundedInduction, TLAPS

\* Where the goroutines stand.
Shape ==
  /\ tailer = "send" => sent < Lines
  /\ emitBatches => \A s \in Sources : worker[s].step # "emit"
  /\ phase = "replay" => \A s \in Sources : worker[s] = At("off")
  /\ phase # "replay" => replay = <<>>

\* What waits for a flush or in the channel knows its place among the additions.
InChannel == UNION {Range(b) : b \in Range(outChan)}

Placed ==
  \A x \in Range(pending) \union InChannel : x.no \in 1..Len(added) /\ x.event = added[x.no]

\* What the files of the spool hold.
Items == Records \union {Fragment}

\* What is legible on the disk has been added, or is about to be, or is still to
\* be replayed, or could not be read.
Replayed ==
  Up => Legible(spool) \subseteq Range(added) \union Legible(replay) \union OnTheWay \union unread

DaemonInv == TypeOK /\ Shape /\ Placed /\ AddedOnce /\ Replayed

\* The spool never comes to its bound.
Roomy == Len(spool) < MaxSize

----------------------------------------------------------------------------
(* Numbers.                                                                *)

\* Induction for a set of numbers.
LEMMA AllNumbers ==
  ASSUME NEW S \in SUBSET Nat, 0 \in S, \A n \in S : n + 1 \in S
  PROVE  S = Nat
<1> DEFINE R == {ss \in Nat \X Nat : ss[1] < ss[2]}
           T == Nat \ S
<1>1. IsWellFoundedOn(R, Nat)
  BY NatLessThanWellFounded, Zenon DEF OpToRel
<1>2. CASE T # {}
  <2>1. PICK x \in T : \A y \in T : <<y, x>> \notin R
    <3>1. T \in SUBSET Nat
      OBVIOUS
    <3> HIDE DEF R, T
    <3> QED BY <1>1, <1>2, <3>1, WFMin
  <2>2. x - 1 \in Nat /\ x - 1 < x
    OBVIOUS
  <2>3. x - 1 \notin T
    BY <2>1, <2>2
  <2>4. x - 1 + 1 = x /\ x - 1 + 1 \in S
    BY <2>2, <2>3
  <2>5. QED
    BY <2>4
<1>3. QED
  BY <1>2

----------------------------------------------------------------------------
(* Batches one after another.                                              *)

\* The recursion of FlattenSeq, on the first n batches.
Joins(f, ss, n) == f = [i \in 1..n |-> IF i = 1 THEN ss[i] ELSE f[i - 1] \o ss[i]]

\* The recursion defines a function.
LEMMA JoinsExists ==
  ASSUME NEW ss, NEW n \in Nat
  PROVE  \E f : Joins(f, ss, n)
<1> DEFINE S == {k \in Nat : \E f : Joins(f, ss, k)}
<1>1. 0 \in S
  <2>1. Joins([i \in 1..0 |-> 0], ss, 0)
    BY DEF Joins
  <2>2. QED
    BY <2>1
<1>2. ASSUME NEW k \in S PROVE k + 1 \in S
  <2>1. PICK f : Joins(f, ss, k)
    OBVIOUS
  <2> DEFINE g == [i \in 1..k + 1 |-> IF i = 1 THEN ss[i] ELSE f[i - 1] \o ss[i]]
  <2>2. ASSUME NEW i \in 1..k + 1, i # 1 PROVE g[i - 1] = f[i - 1]
    <3>1. i - 1 \in 1..k /\ i - 1 \in 1..k + 1
      BY <2>2
    <3>2. QED
      BY <2>1, <3>1 DEF Joins
  <2>3. Joins(g, ss, k + 1)
    BY <2>2 DEF Joins
  <2>4. QED
    BY <2>3
<1>3. S = Nat
  <2> HIDE DEF S
  <2>1. S \in SUBSET Nat
    BY DEF S
  <2>2. QED
    BY <1>1, <1>2, <2>1, AllNumbers
<1>4. QED
  BY <1>3

\* What it says of the first batch and of the next.
LEMMA JoinsFirst ==
  ASSUME NEW ss, NEW f, NEW n \in Nat \ {0}, Joins(f, ss, n)
  PROVE  f[1] = ss[1]
BY DEF Joins

\* Each join is the one before and the next batch.
LEMMA JoinsNext ==
  ASSUME NEW ss, NEW f, NEW n \in Nat, Joins(f, ss, n), NEW k \in Nat, k # 0, k + 1 \in 1..n
  PROVE  f[k + 1] = f[k] \o ss[k + 1]
<1>1. k + 1 # 1 /\ k + 1 - 1 = k
  OBVIOUS
<1> DEFINE h == [i \in 1..n |-> IF i = 1 THEN ss[i] ELSE f[i - 1] \o ss[i]]
<1>2. f = h
  BY DEF Joins
<1>3. h[k + 1] = IF k + 1 = 1 THEN ss[k + 1] ELSE f[k + 1 - 1] \o ss[k + 1]
  <2> DEFINE j == k + 1
  <2>1. j \in 1..n
    OBVIOUS
  <2> HIDE DEF j
  <2>2. h[j] = IF j = 1 THEN ss[j] ELSE f[j - 1] \o ss[j]
    BY <2>1, Zenon
  <2>3. QED
    BY <2>2 DEF j
<1> HIDE DEF h
<1>4. QED
  BY <1>1, <1>2, <1>3

\* FlattenSeq is its last value.
LEMMA FlattenIsJoin ==
  ASSUME NEW ss, Len(ss) \in Nat, Len(ss) # 0
  PROVE  \E f : Joins(f, ss, Len(ss)) /\ FlattenSeq(ss) = f[Len(ss)]
<1> DEFINE f == CHOOSE g : Joins(g, ss, Len(ss))
<1>1. Joins(f, ss, Len(ss))
  BY JoinsExists
<1>2. FlattenSeq(ss) = f[Len(ss)]
  BY DEF FlattenSeq, Joins
<1>3. QED
  BY <1>1, <1>2

\* It reads only the batches it joins.
LEMMA JoinsAgree ==
  ASSUME NEW ss, NEW tt, NEW f, NEW g, NEW m \in Nat, NEW n \in Nat, m <= n,
         Joins(f, ss, m), Joins(g, tt, n), \A i \in 1..m : ss[i] = tt[i]
  PROVE  \A i \in 1..m : f[i] = g[i]
<1> DEFINE S == {k \in Nat : k \in 1..m => f[k] = g[k]}
<1>1. \A i \in 1..m : i \in 1..n
  OBVIOUS
<1>2. ASSUME NEW k \in S PROVE k + 1 \in S
  <2>1. CASE k + 1 \in 1..m /\ k = 0
    <3>1. m \in Nat \ {0} /\ n \in Nat \ {0}
      BY <2>1
    <3>2. QED
      BY <2>1, <3>1, JoinsFirst
  <2>2. CASE k + 1 \in 1..m /\ k # 0
    <3>1. k \in 1..m /\ k \in Nat /\ k + 1 \in 1..n
      BY <1>1, <2>2
    <3>2. f[k + 1] = f[k] \o ss[k + 1]
      BY <2>2, <3>1, JoinsNext
    <3>3. g[k + 1] = g[k] \o tt[k + 1]
      BY <2>2, <3>1, JoinsNext
    <3>4. f[k] = g[k] /\ ss[k + 1] = tt[k + 1]
      BY <2>2, <3>1
    <3>5. f[k + 1] = g[k + 1]
      BY <3>2, <3>3, <3>4
    <3>6. QED
      BY <3>5
  <2>3. QED
    BY <2>1, <2>2
<1>3. S = Nat
  <2>1. S \in SUBSET Nat /\ 0 \in S
    OBVIOUS
  <2> HIDE DEF S
  <2>2. QED
    BY <1>2, <2>1, AllNumbers
<1>4. QED
  BY <1>3

\* Joined batches are a sequence of what they hold.
LEMMA JoinsTyped ==
  ASSUME NEW S, NEW ss \in Seq(Seq(S)), NEW f, Joins(f, ss, Len(ss))
  PROVE  \A i \in 1..Len(ss) : f[i] \in Seq(S)
<1>1. PICK n \in Nat : n = Len(ss)
  BY LenProperties
<1>2. \A i \in 1..n : ss[i] \in Seq(S)
  BY <1>1, ElementOfSeq
<1>3. Joins(f, ss, n)
  BY <1>1
<1> DEFINE T == {k \in Nat : k \in 1..n => f[k] \in Seq(S)}
<1>4. ASSUME NEW k \in T PROVE k + 1 \in T
  <2>1. CASE k + 1 \in 1..n /\ k = 0
    <3>1. f[1] = ss[1] /\ ss[1] \in Seq(S)
      BY <1>2, <1>3, <2>1, JoinsFirst
    <3>2. QED
      BY <2>1, <3>1
  <2>2. CASE k + 1 \in 1..n /\ k # 0
    <3>1. k \in 1..n /\ k \in Nat
      BY <2>2
    <3>2. f[k + 1] = f[k] \o ss[k + 1]
      BY <1>3, <2>2, <3>1, JoinsNext
    <3>3. f[k] \in Seq(S) /\ ss[k + 1] \in Seq(S)
      BY <1>2, <2>2, <3>1
    <3>4. f[k + 1] \in Seq(S)
      BY <3>2, <3>3, ConcatProperties
    <3>5. QED
      BY <3>4
  <2>3. QED
    BY <2>1, <2>2
<1>5. T = Nat
  <2>1. T \in SUBSET Nat /\ 0 \in T
    OBVIOUS
  <2> HIDE DEF T
  <2>2. QED
    BY <1>4, <2>1, AllNumbers
<1>6. \A i \in 1..n : f[i] \in Seq(S)
  BY <1>5
<1>7. QED
  BY <1>1, <1>6

\* Flattened batches are a sequence of what they hold.
LEMMA FlattenTyped ==
  ASSUME NEW S, NEW ss \in Seq(Seq(S))
  PROVE  FlattenSeq(ss) \in Seq(S)
<1>1. Len(ss) \in Nat
  BY LenProperties
<1>2. CASE Len(ss) = 0
  <2>1. ss = <<>>
    BY <1>2, EmptySeq
  <2>2. FlattenSeq(ss) = ss
    BY <1>2 DEF FlattenSeq
  <2>3. QED
    BY <2>1, <2>2, EmptySeq
<1>3. CASE Len(ss) # 0
  <2>1. PICK f : Joins(f, ss, Len(ss)) /\ FlattenSeq(ss) = f[Len(ss)]
    BY <1>1, <1>3, FlattenIsJoin
  <2>2. Len(ss) \in 1..Len(ss)
    BY <1>1, <1>3
  <2>3. QED
    BY <2>1, <2>2, JoinsTyped
<1>4. QED
  BY <1>2, <1>3

\* A batch at the end of the channel is joined to the end.
LEMMA FlattenAppend ==
  ASSUME NEW S, NEW ss \in Seq(Seq(S)), NEW b \in Seq(S)
  PROVE  FlattenSeq(Append(ss, b)) = FlattenSeq(ss) \o b
<1> DEFINE tt == Append(ss, b)
<1>1. /\ Len(ss) \in Nat /\ tt \in Seq(Seq(S)) /\ Len(tt) = Len(ss) + 1
      /\ \A i \in 1..Len(ss) : tt[i] = ss[i]
      /\ tt[Len(ss) + 1] = b
  BY LenProperties, AppendProperties
<1> HIDE DEF tt
<1>2. PICK g : Joins(g, tt, Len(tt)) /\ FlattenSeq(tt) = g[Len(tt)]
  BY <1>1, FlattenIsJoin
<1>3. CASE Len(ss) = 0
  <2>1. FlattenSeq(ss) = <<>>
    BY <1>3, EmptySeq DEF FlattenSeq
  <2>2. Len(tt) = 1 /\ 1 \in 1..Len(tt)
    BY <1>1, <1>3
  <2>3. g[1] = b
    BY <1>1, <1>2, <1>3, <2>2 DEF Joins
  <2>4. QED
    BY <1>2, <2>1, <2>2, <2>3, ConcatEmptySeq DEF tt
<1>4. CASE Len(ss) # 0
  <2>1. PICK f : Joins(f, ss, Len(ss)) /\ FlattenSeq(ss) = f[Len(ss)]
    BY <1>1, <1>4, FlattenIsJoin
  <2>2. Len(ss) <= Len(tt) /\ Len(tt) \in Nat /\ \A i \in 1..Len(ss) : ss[i] = tt[i]
    BY <1>1
  <2>3. \A i \in 1..Len(ss) : f[i] = g[i]
    <3>1. PICK p \in Nat, q \in Nat : p = Len(ss) /\ q = Len(tt) /\ p <= q
      BY <1>1, <2>2
    <3>2. Joins(f, ss, p) /\ Joins(g, tt, q) /\ \A i \in 1..p : ss[i] = tt[i]
      BY <1>2, <2>1, <2>2, <3>1
    <3>3. \A i \in 1..p : f[i] = g[i]
      BY <3>1, <3>2, JoinsAgree
    <3>4. QED
      BY <3>1, <3>3
  <2>4. Len(ss) \in 1..Len(ss) /\ Len(tt) \in 1..Len(tt) /\ Len(tt) # 1 /\ Len(tt) - 1 = Len(ss)
    BY <1>1, <1>4
  <2>5. g[Len(tt)] = g[Len(ss)] \o b
    <3>1. Len(tt) = Len(ss) + 1 /\ tt[Len(ss) + 1] = b /\ Len(ss) + 1 \in 1..Len(tt)
      BY <1>1, <2>4
    <3>2. PICK p \in Nat, q \in Nat : p = Len(ss) /\ q = Len(tt) /\ p # 0 /\ p + 1 = q
      BY <1>1, <1>4, <3>1
    <3>3. Joins(g, tt, q) /\ p + 1 \in 1..q
      BY <1>2, <3>2
    <3>4. g[p + 1] = g[p] \o tt[p + 1]
      BY <3>2, <3>3, JoinsNext
    <3>5. QED
      BY <3>1, <3>2, <3>4
  <2>6. QED
    BY <1>2, <2>1, <2>3, <2>4, <2>5 DEF tt
<1>5. QED
  BY <1>3, <1>4

\* The first batch of the channel is joined first.
LEMMA FlattenTail ==
  ASSUME NEW S, NEW ss \in Seq(Seq(S)), ss # <<>>
  PROVE  FlattenSeq(ss) = Head(ss) \o FlattenSeq(Tail(ss))
<1> DEFINE tt == Tail(ss)
<1>1. PICK m \in Nat, n \in Nat : Len(ss) = n /\ n = m + 1
  <2>1. Len(ss) \in Nat \ {0}
    BY EmptySeq
  <2>2. PICK n \in Nat \ {0} : Len(ss) = n
    BY <2>1
  <2>3. n - 1 \in Nat /\ n = n - 1 + 1
    OBVIOUS
  <2>4. QED
    BY <2>2, <2>3
<1>2. /\ tt \in Seq(Seq(S)) /\ Len(tt) = m /\ \A i \in 1..m : tt[i] = ss[i + 1]
      /\ Head(ss) = ss[1] /\ Head(ss) \in Seq(S)
  <2>1. /\ tt \in Seq(Seq(S)) /\ Len(tt) = Len(ss) - 1 /\ \A i \in 1..Len(tt) : tt[i] = ss[i + 1]
        /\ Head(ss) \in Seq(S)
    BY HeadTailProperties
  <2>2. Len(ss) - 1 = m
    BY <1>1
  <2>3. Head(ss) = ss[1]
    OBVIOUS
  <2>4. QED
    BY <2>1, <2>2, <2>3
<1> HIDE DEF tt
<1>3. PICK f : Joins(f, ss, n) /\ FlattenSeq(ss) = f[n]
  BY <1>1, FlattenIsJoin
<1>4. f[1] = ss[1]
  BY <1>1, <1>3, JoinsFirst
<1>5. CASE m = 0
  <2>1. FlattenSeq(tt) = tt /\ tt = <<>>
    BY <1>2, <1>5, EmptySeq DEF FlattenSeq
  <2>2. FlattenSeq(ss) = Head(ss) /\ Head(ss) \o <<>> = Head(ss)
    BY <1>1, <1>2, <1>3, <1>4, <1>5, ConcatEmptySeq
  <2>3. FlattenSeq(ss) = Head(ss) \o FlattenSeq(tt)
    BY <2>1, <2>2
  <2>4. QED
    BY <2>3 DEF tt
<1>6. CASE m # 0
  <2>1. PICK g : Joins(g, tt, m) /\ FlattenSeq(tt) = g[m]
    BY <1>2, <1>6, FlattenIsJoin
  <2>2. \A i \in 1..m : g[i] \in Seq(S) /\ tt[i] \in Seq(S)
    BY <1>2, <2>1, JoinsTyped, ElementOfSeq
  <2> DEFINE T == {k \in Nat : k + 1 \in 1..m => f[k + 2] = Head(ss) \o g[k + 1]}
  <2>3. 0 \in T
    <3>1. f[1 + 1] = f[1] \o ss[1 + 1]
      <4>1. 1 \in Nat /\ 1 # 0 /\ 1 + 1 \in 1..n
        BY <1>1, <1>6
      <4>2. QED
        BY <1>3, <4>1, JoinsNext
    <3>2. g[1] = tt[1] /\ tt[1] = ss[1 + 1]
      BY <1>2, <1>6, <2>1, JoinsFirst
    <3>3. f[0 + 2] = Head(ss) \o g[0 + 1]
      <4>1. f[1 + 1] = Head(ss) \o g[1]
        BY <1>2, <1>4, <3>1, <3>2
      <4>2. 1 + 1 = 0 + 2 /\ 0 + 1 = 1
        OBVIOUS
      <4>3. QED
        BY <4>1, <4>2
    <3>4. QED
      BY <3>3
  <2>4. ASSUME NEW k \in T PROVE k + 1 \in T
    <3>1. SUFFICES ASSUME k + 2 \in 1..m PROVE f[k + 3] = Head(ss) \o g[k + 2]
      <4>1. k + 1 + 1 = k + 2 /\ k + 1 + 2 = k + 3 /\ k + 1 \in Nat
        OBVIOUS
      <4>2. QED
        BY <4>1
    <3>2. f[k + 2 + 1] = f[k + 2] \o ss[k + 2 + 1]
      <4>1. k + 2 \in Nat /\ k + 2 # 0 /\ k + 2 + 1 \in 1..n
        BY <1>1, <3>1
      <4>2. QED
        BY <1>3, <4>1, JoinsNext
    <3>3. g[k + 1 + 1] = g[k + 1] \o tt[k + 1 + 1]
      <4>1. k + 1 \in Nat /\ k + 1 # 0 /\ k + 1 + 1 \in 1..m
        BY <3>1
      <4>2. QED
        BY <2>1, <4>1, JoinsNext
    <3>4. k + 1 + 1 = k + 2 /\ k + 2 + 1 = k + 3 /\ k + 1 \in 1..m
      BY <3>1
    <3>5. f[k + 2] = Head(ss) \o g[k + 1] /\ tt[k + 2] = ss[k + 3]
      BY <1>2, <3>1, <3>4
    <3>6. (Head(ss) \o g[k + 1]) \o tt[k + 2] = Head(ss) \o (g[k + 1] \o tt[k + 2])
      <4>1. Head(ss) \in Seq(S) /\ g[k + 1] \in Seq(S) /\ tt[k + 2] \in Seq(S)
        BY <1>2, <2>2, <3>1, <3>4
      <4>2. PICK x \in Seq(S), y \in Seq(S), z \in Seq(S) : x = Head(ss) /\ y = g[k + 1] /\ z = tt[k + 2]
        BY <4>1
      <4>3. (x \o y) \o z = x \o (y \o z)
        BY ConcatAssociative, SMTT(60)
      <4>4. QED
        BY <4>2, <4>3
    <3>7. f[k + 3] = f[k + 2] \o ss[k + 3] /\ g[k + 2] = g[k + 1] \o tt[k + 2]
      BY <3>2, <3>3, <3>4
    <3>8. QED
      BY <3>5, <3>6, <3>7
  <2>5. T = Nat
    <3>1. T \in SUBSET Nat
      OBVIOUS
    <3> HIDE DEF T
    <3>2. QED
      BY <2>3, <2>4, <3>1, AllNumbers
  <2>6. m - 1 \in Nat /\ m - 1 + 1 = m /\ m - 1 + 2 = m + 1 /\ m \in 1..m
    BY <1>6
  <2>7. f[m - 1 + 2] = Head(ss) \o g[m - 1 + 1]
    BY <2>5, <2>6
  <2>8. f[n] = Head(ss) \o g[m]
    BY <1>1, <2>6, <2>7
  <2>9. QED
    BY <1>3, <2>1, <2>8 DEF tt
<1>7. QED
  BY <1>5, <1>6

----------------------------------------------------------------------------
(* Members of sequences.                                                   *)

\* What is put into a queue is its only new member.
LEMMA MembersOfAppend ==
  ASSUME NEW S, NEW s \in Seq(S), NEW e \in S
  PROVE  Append(s, e) \in Seq(S) /\ Range(Append(s, e)) = Range(s) \union {e}
<1>1. /\ Len(s) \in Nat /\ Append(s, e) \in Seq(S) /\ Len(Append(s, e)) = Len(s) + 1
      /\ \A i \in 1..Len(s) : Append(s, e)[i] = s[i]
      /\ Append(s, e)[Len(s) + 1] = e
  BY AppendProperties, LenProperties
<1>2. /\ Range(s) = {s[i] : i \in 1..Len(s)}
      /\ Range(Append(s, e)) = {Append(s, e)[i] : i \in 1..Len(s) + 1}
  BY <1>1, RangeEquality
<1>3. 1..Len(s) + 1 = 1..Len(s) \union {Len(s) + 1}
  BY <1>1
<1>4. QED
  BY <1>1, <1>2, <1>3

\* What is taken out of a queue was in it, and the rest remains.
LEMMA MembersOfTail ==
  ASSUME NEW S, NEW s \in Seq(S), s # <<>>
  PROVE  /\ Head(s) \in S /\ Tail(s) \in Seq(S) /\ Len(Tail(s)) = Len(s) - 1
         /\ Range(s) = {Head(s)} \union Range(Tail(s))
<1>1. PICK n \in Nat : Len(s) = n + 1
  <2>1. PICK m \in Nat \ {0} : Len(s) = m
    BY EmptySeq
  <2>2. m - 1 \in Nat /\ m = m - 1 + 1
    OBVIOUS
  <2>3. QED
    BY <2>1, <2>2
<1>2. /\ Head(s) = s[1] /\ Head(s) \in S /\ Tail(s) \in Seq(S) /\ Len(Tail(s)) = Len(s) - 1
      /\ \A i \in 1..Len(Tail(s)) : Tail(s)[i] = s[i + 1]
  BY HeadTailProperties
<1>3. Len(Tail(s)) = n /\ \A i \in 1..n : Tail(s)[i] = s[i + 1]
  BY <1>1, <1>2
<1>4. Range(s) = {s[i] : i \in 1..n + 1} /\ Range(Tail(s)) = {Tail(s)[i] : i \in 1..n}
  <2>1. Range(s) = {s[i] : i \in 1..Len(s)}
    BY RangeEquality
  <2>2. Range(Tail(s)) = {Tail(s)[i] : i \in 1..Len(Tail(s))}
    BY <1>2, RangeEquality
  <2>3. QED
    BY <1>1, <1>3, <2>1, <2>2
<1>5. \A i \in 1..n + 1 : i = 1 \/ (i - 1 \in 1..n /\ i = i - 1 + 1)
  OBVIOUS
<1>6. Range(s) \subseteq {Head(s)} \union Range(Tail(s))
  BY <1>2, <1>3, <1>4, <1>5
<1>7. 1 \in 1..n + 1 /\ \A i \in 1..n : i + 1 \in 1..n + 1
  OBVIOUS
<1>8. {Head(s)} \union Range(Tail(s)) \subseteq Range(s)
  BY <1>2, <1>3, <1>4, <1>7
<1>9. QED
  BY <1>2, <1>6, <1>8

\* An empty sequence has no members.
LEMMA MembersOfEmpty == Range(<<>>) = {}
BY DEF Range

\* The end of a sequence holds members of it.
LEMMA MembersOfSubSeq ==
  ASSUME NEW S, NEW s \in Seq(S), NEW n \in 0..Len(s)
  PROVE  /\ SubSeq(s, n + 1, Len(s)) \in Seq(S)
         /\ Range(SubSeq(s, n + 1, Len(s))) \subseteq Range(s)
<1> DEFINE t == SubSeq(s, n + 1, Len(s))
<1>1. PICK l \in Nat : Len(s) = l
  BY LenProperties
<1>2. \A i \in n + 1..l : s[i] \in S
  BY <1>1, ElementOfSeq
<1>3. n \in Nat /\ n <= l /\ n + 1 \in Int /\ l \in Int /\ l - (n + 1) + 1 = l - n
  BY <1>1
<1>4. /\ t \in Seq(S) /\ Len(t) = IF n + 1 <= l THEN l - (n + 1) + 1 ELSE 0
      /\ \A i \in 1..l - (n + 1) + 1 : t[i] = s[n + 1 + i - 1]
  BY <1>1, <1>2, <1>3, SubSeqProperties
<1> HIDE DEF t
<1>5. Len(t) = l - n /\ \A i \in 1..l - n : t[i] = s[n + i] /\ n + i \in 1..l
  BY <1>3, <1>4
<1>6. Range(s) = {s[i] : i \in 1..l} /\ Range(t) = {t[i] : i \in 1..l - n}
  BY <1>1, <1>4, <1>5, RangeEquality
<1>7. Range(t) \subseteq Range(s)
  BY <1>5, <1>6
<1>8. QED
  BY <1>4, <1>7 DEF t

----------------------------------------------------------------------------
(* The batcher.                                                            *)

\* Events in the order of their additions, each addition kept that is not
\* dropped.
Sound(q, evs, ds) ==
  /\ \A i, j \in DOMAIN q : i < j => q[i].no < q[j].no
  /\ {x.no : x \in Range(q)} = (1..Len(evs)) \ ds
  /\ \A x \in Range(q) : x.event = evs[x.no]

\* Nothing has been added.
LEMMA SoundEmpty == Sound(<<>>, <<>>, {})
<1>1. Len(<<>>) = 0 /\ DOMAIN <<>> = {} /\ Range(<<>>) = {}
  BY EmptySeq, MembersOfEmpty
<1>2. QED
  BY <1>1 DEF Sound

\* One more is added.
LEMMA SoundAppend ==
  ASSUME NEW q \in Seq(Entries), NEW evs \in Seq(Events), NEW ds, ds \subseteq 1..Len(evs),
         Sound(q, evs, ds), NEW e \in Events
  PROVE  Sound(Append(q, [event |-> e, no |-> Len(evs) + 1]), Append(evs, e), ds)
<1> DEFINE x == [event |-> e, no |-> Len(evs) + 1]
           r == Append(q, x)
           bs == Append(evs, e)
<1>1. PICK l \in Nat, n \in Nat : l = Len(q) /\ n = Len(evs)
  BY LenProperties
<1>2. x \in Entries /\ x.event = e /\ x.no = n + 1
  <2>1. Len(evs) + 1 = n + 1 /\ n + 1 \in Nat
    BY <1>1
  <2>2. x = [event |-> e, no |-> n + 1]
    BY <2>1
  <2> HIDE DEF x
  <2>3. QED
    BY <2>1, <2>2 DEF Entries
<1> HIDE DEF x
<1>3. /\ r \in Seq(Entries) /\ Len(r) = l + 1 /\ r[l + 1] = x
      /\ \A i \in 1..l : r[i] = q[i]
      /\ Range(r) = Range(q) \union {x}
      /\ DOMAIN q = 1..l
  BY <1>1, <1>2, AppendProperties, MembersOfAppend, LenProperties
<1>4. /\ Len(bs) = n + 1 /\ bs[n + 1] = e /\ \A i \in 1..n : bs[i] = evs[i]
  <2>1. /\ Len(bs) = Len(evs) + 1 /\ bs[Len(evs) + 1] = e
        /\ \A i \in 1..Len(evs) : bs[i] = evs[i]
    BY AppendProperties
  <2> HIDE DEF bs
  <2>2. QED
    BY <1>1, <2>1
<1>5. DOMAIN r = 1..l + 1
  BY <1>3, LenProperties
<1> HIDE DEF r, bs
<1>6. \A y \in Range(q) : y.no \in 1..n /\ y.event = evs[y.no]
  BY <1>1 DEF Sound
<1>7. \A i \in 1..l : q[i] \in Range(q)
  BY <1>3 DEF Range
<1>8. ASSUME NEW i \in 1..l + 1, NEW j \in 1..l + 1, i < j PROVE r[i].no < r[j].no
  <2>1. i \in 1..l
    BY <1>8
  <2>2. CASE j \in 1..l
    BY <1>3, <1>8, <2>1, <2>2 DEF Sound
  <2>3. CASE j = l + 1
    <3>1. q[i].no \in 1..n
      BY <1>6, <1>7, <2>1
    <3>2. QED
      BY <1>2, <1>3, <2>1, <2>3, <3>1
  <2>4. QED
    BY <2>2, <2>3
<1>9. {y.no : y \in Range(r)} = (1..Len(bs)) \ ds
  <2>1. {y.no : y \in Range(r)} = {y.no : y \in Range(q)} \union {n + 1}
    BY <1>2, <1>3
  <2>2. {y.no : y \in Range(q)} = (1..n) \ ds
    BY <1>1 DEF Sound
  <2>3. 1..n + 1 = (1..n) \union {n + 1} /\ n + 1 \notin ds
    <3>1. 1..n + 1 = (1..n) \union {n + 1} /\ n + 1 \notin 1..n
      OBVIOUS
    <3>2. ds \subseteq 1..n
      BY <1>1
    <3>3. QED
      BY <3>1, <3>2
  <2>4. QED
    BY <1>4, <2>1, <2>2, <2>3
<1>10. \A y \in Range(r) : y.event = bs[y.no]
  BY <1>2, <1>3, <1>4, <1>6
<1>11. QED
  BY <1>5, <1>8, <1>9, <1>10 DEF Sound, r, bs, x

\* The events at the end are dropped.
LEMMA SoundCut ==
  ASSUME NEW q \in Seq(Entries), NEW p \in Seq(Entries), NEW evs, NEW ds, Sound(q \o p, evs, ds)
  PROVE  Sound(q, evs, ds \union {x.no : x \in Range(p)})
<1>1. PICK l \in Nat, m \in Nat : l = Len(q) /\ m = Len(p)
  BY LenProperties
<1>2. /\ q \o p \in Seq(Entries) /\ Len(q \o p) = l + m
      /\ \A i \in 1..l + m : (q \o p)[i] = IF i <= l THEN q[i] ELSE p[i - l]
      /\ Range(q \o p) = Range(q) \union Range(p)
  BY <1>1, ConcatProperties, RangeConcatenation
<1>3. DOMAIN q = 1..l /\ DOMAIN p = 1..m /\ DOMAIN (q \o p) = 1..l + m
  BY <1>1, <1>2, LenProperties
<1>4. /\ \A i \in 1..l : i \in 1..l + m /\ (q \o p)[i] = q[i]
      /\ \A j \in 1..m : l + j \in 1..l + m /\ (q \o p)[l + j] = p[j]
  <2>1. \A i \in 1..l : i \in 1..l + m /\ i <= l
    OBVIOUS
  <2>2. \A j \in 1..m : l + j \in 1..l + m /\ ~(l + j <= l) /\ l + j - l = j
    OBVIOUS
  <2>3. QED
    BY <1>2, <2>1, <2>2
<1>5. \A i \in 1..l, j \in 1..l : i < j => q[i].no < q[j].no
  BY <1>3, <1>4 DEF Sound
<1>6. \A i \in 1..l, j \in 1..m : q[i].no < p[j].no
  <2>1. \A i \in 1..l, j \in 1..m : i < l + j
    OBVIOUS
  <2>2. QED
    BY <1>3, <1>4, <2>1 DEF Sound
<1>7. \A x \in Range(q), y \in Range(p) : x.no < y.no /\ x.no \in Nat /\ y.no \in Nat
  <2>1. Range(q) = {q[i] : i \in 1..l} /\ Range(p) = {p[j] : j \in 1..m}
    BY <1>1, RangeEquality
  <2>2. Range(q) \subseteq Entries /\ Range(p) \subseteq Entries
    BY RangeOfSeq
  <2>3. QED
    BY <1>6, <2>1, <2>2 DEF Entries
<1>8. {x.no : x \in Range(q)} \intersect {x.no : x \in Range(p)} = {}
  BY <1>7
<1>9. {x.no : x \in Range(q)} \union {x.no : x \in Range(p)} = (1..Len(evs)) \ ds
  BY <1>2 DEF Sound
<1>10. {x.no : x \in Range(q)} = (1..Len(evs)) \ (ds \union {x.no : x \in Range(p)})
  BY <1>8, <1>9
<1>11. \A x \in Range(q) : x.event = evs[x.no]
  BY <1>2 DEF Sound
<1>12. QED
  BY <1>3, <1>5, <1>10, <1>11 DEF Sound

\* What the batcher and the output hold, in the order they hold it.
Kept == output \o FlattenSeq(outChan) \o pending

\* The batcher's own variables.
Batcher ==
  /\ pending \in Seq(Entries) /\ Len(pending) < BatchSize
  /\ outChan \in Seq(Seq(Entries)) /\ Len(outChan) <= OutCap
  /\ output \in Seq(Entries) /\ added \in Seq(Events) /\ dropped \subseteq 1..Len(added)
  /\ Placed

\* The batcher's part of the invariant.
LEMMA BatcherOfInv == TypeOK /\ Placed => Batcher
BY DEF TypeOK, Batcher

\* A flush keeps places and sizes, whether the channel has room or not.
LEMMA FlushTyped ==
  ASSUME Batcher, NEW batch \in Seq(Entries), batch = <<>> => batch = pending,
         FlushLocked(batch), output' \in Seq(Entries),
         added' \in Seq(Events), Len(added) <= Len(added'), \A i \in 1..Len(added) : added'[i] = added[i],
         \A x \in Range(batch) : x.no \in 1..Len(added') /\ x.event = added'[x.no]
  PROVE  Batcher'
<1>1. PICK n \in Nat, m \in Nat : n = Len(added) /\ m = Len(added') /\ n <= m /\ \A i \in 1..n : i \in 1..m
  <2>1. Len(added) \in Nat /\ Len(added') \in Nat
    BY LenProperties DEF Batcher
  <2>2. QED
    BY <2>1
<1>2. \A x \in Range(pending) \union InChannel : x.no \in 1..Len(added') /\ x.event = added'[x.no]
  BY <1>1 DEF Batcher, Placed
<1>3. dropped \subseteq 1..Len(added')
  BY <1>1 DEF Batcher
<1>4. CASE batch = <<>>
  <2>1. UNCHANGED <<pending, outChan, dropped>>
    BY <1>4 DEF FlushLocked
  <2>2. Range(pending') = Range(pending) /\ InChannel' = InChannel
    BY <2>1 DEF InChannel
  <2>3. Placed'
    BY <1>2, <2>2 DEF Placed
  <2>4. QED
    BY <1>3, <2>1, <2>3 DEF Batcher
<1>5. CASE batch # <<>> /\ Len(outChan) < OutCap
  <2>1. pending' = <<>> /\ outChan' = Append(outChan, batch) /\ dropped' = dropped
    BY <1>5 DEF FlushLocked
  <2>2. outChan' \in Seq(Seq(Entries)) /\ Range(outChan') = Range(outChan) \union {batch}
    BY <2>1, MembersOfAppend DEF Batcher
  <2>3. Len(outChan') <= OutCap
    <3>1. Len(outChan') = Len(outChan) + 1
      BY <2>1, AppendProperties DEF Batcher
    <3>2. Len(outChan) \in Nat
      BY LenProperties DEF Batcher
    <3>3. QED
      BY <1>5, <3>1, <3>2, DaemonAssumption
  <2>4. InChannel' = InChannel \union Range(batch) /\ Range(pending') = {}
    BY <2>1, <2>2, MembersOfEmpty DEF InChannel
  <2>5. Placed'
    BY <1>2, <2>4 DEF Placed
  <2>6. pending' \in Seq(Entries) /\ Len(pending') < BatchSize
    BY <2>1, EmptySeq, DaemonAssumption
  <2>7. QED
    BY <1>3, <2>1, <2>2, <2>3, <2>5, <2>6 DEF Batcher
<1>6. CASE batch # <<>> /\ ~(Len(outChan) < OutCap)
  <2>1. pending' = <<>> /\ outChan' = outChan /\ dropped' = dropped \union {x.no : x \in Range(batch)}
    BY <1>6 DEF FlushLocked
  <2>2. InChannel' = InChannel /\ Range(pending') = {}
    BY <2>1, MembersOfEmpty DEF InChannel
  <2>3. Placed'
    BY <1>2, <2>2 DEF Placed
  <2>4. pending' \in Seq(Entries) /\ Len(pending') < BatchSize
    BY <2>1, EmptySeq, DaemonAssumption
  <2>5. dropped' \subseteq 1..Len(added')
    BY <1>3, <2>1
  <2>6. QED
    BY <2>1, <2>3, <2>4, <2>5 DEF Batcher
<1>7. QED
  BY <1>4, <1>5, <1>6

\* A flush neither repeats, loses nor reorders: what it cannot send is dropped.
LEMMA FlushSound ==
  ASSUME Batcher, NEW batch \in Seq(Entries), batch = <<>> => batch = pending,
         FlushLocked(batch), UNCHANGED output,
         Sound(output \o FlattenSeq(outChan) \o batch, added', dropped)
  PROVE  Sound(Kept', added', dropped')
<1> DEFINE q == output \o FlattenSeq(outChan)
<1>1. /\ output \in Seq(Entries) /\ outChan \in Seq(Seq(Entries)) /\ FlattenSeq(outChan) \in Seq(Entries)
      /\ q \in Seq(Entries)
  BY FlattenTyped, ConcatProperties DEF Batcher
<1>2. CASE batch = <<>>
  <2>1. UNCHANGED <<pending, outChan, dropped>> /\ batch = pending
    BY <1>2 DEF FlushLocked
  <2>2. Kept' = output \o FlattenSeq(outChan) \o batch
    BY <2>1 DEF Kept
  <2>3. QED
    BY <2>1, <2>2
<1>3. CASE batch # <<>> /\ Len(outChan) < OutCap
  <2>1. pending' = <<>> /\ outChan' = Append(outChan, batch) /\ dropped' = dropped
    BY <1>3 DEF FlushLocked
  <2>2. FlattenSeq(outChan') = FlattenSeq(outChan) \o batch
    BY <1>1, <2>1, FlattenAppend
  <2>3. Kept' = (output \o (FlattenSeq(outChan) \o batch)) \o <<>>
    BY <2>1, <2>2 DEF Kept
  <2>4. output \o (FlattenSeq(outChan) \o batch) = q \o batch /\ q \o batch \in Seq(Entries)
    <3>1. PICK x \in Seq(Entries), y \in Seq(Entries), z \in Seq(Entries) :
            x = output /\ y = FlattenSeq(outChan) /\ z = batch
      BY <1>1
    <3>2. (x \o y) \o z = x \o (y \o z)
      BY ConcatAssociative
    <3>3. q \o batch \in Seq(Entries)
      <4> HIDE DEF q
      <4> QED BY <1>1, ConcatProperties
    <3>4. QED
      BY <3>1, <3>2, <3>3
  <2>5. (q \o batch) \o <<>> = q \o batch
    BY <2>4, ConcatEmptySeq
  <2>6. Kept' = q \o batch
    BY <2>3, <2>4, <2>5
  <2>7. QED
    BY <2>1, <2>6
<1>4. CASE batch # <<>> /\ ~(Len(outChan) < OutCap)
  <2>1. pending' = <<>> /\ outChan' = outChan /\ dropped' = dropped \union {x.no : x \in Range(batch)}
    BY <1>4 DEF FlushLocked
  <2>2. Kept' = q \o <<>>
    BY <2>1 DEF Kept
  <2>3. Kept' = q
    BY <1>1, <2>2, ConcatEmptySeq
  <2>4. Sound(q, added', dropped \union {x.no : x \in Range(batch)})
    <3> HIDE DEF q
    <3> QED BY <1>1, SoundCut DEF q
  <2>5. QED
    BY <2>1, <2>3, <2>4
<1>5. QED
  BY <1>2, <1>3, <1>4

\* Flush, by the timer or by Run.
LEMMA FlushKeeps ==
  ASSUME Batcher, AddedOnce, Flush, UNCHANGED <<output, emitBatches>>
  PROVE  Batcher' /\ AddedOnce'
<1>1. FlushLocked(pending) /\ added' = added /\ pending \in Seq(Entries) /\ added \in Seq(Events)
  BY DEF Flush, Batcher
<1>2. /\ Len(added) <= Len(added') /\ \A i \in 1..Len(added) : added'[i] = added[i]
      /\ \A x \in Range(pending) : x.no \in 1..Len(added') /\ x.event = added'[x.no]
  <2>1. Len(added) \in Nat
    BY <1>1, LenProperties
  <2>2. QED
    BY <1>1, <2>1 DEF Batcher, Placed
<1>3. Batcher'
  <2>1. output' \in Seq(Entries)
    BY DEF Batcher
  <2>2. QED
    BY <1>1, <1>2, <2>1, FlushTyped
<1>4. ASSUME emitBatches PROVE Sound(Kept', added', dropped')
  <2>1. Sound(Kept, added, dropped)
    BY <1>4 DEF AddedOnce, Sound, Kept
  <2>2. Sound(output \o FlattenSeq(outChan) \o pending, added', dropped)
    BY <1>1, <2>1 DEF Kept
  <2>3. QED
    BY <1>1, <2>2, FlushSound
<1>5. AddedOnce'
  BY <1>4 DEF AddedOnce, Sound, Kept
<1>6. QED
  BY <1>3, <1>5

\* Add of one event, which may seal the batch.
LEMMA AddTyped ==
  ASSUME Batcher, NEW e \in Events, Add(e), output' \in Seq(Entries)
  PROVE  Batcher' /\ added' = Append(added, e)
<1> DEFINE batch == Append(pending, [event |-> e, no |-> Len(added')])
<1>1. PICK n \in Nat, m \in Nat : n = Len(added) /\ m = Len(pending)
  BY LenProperties DEF Batcher
<1>2. /\ added' = Append(added, e) /\ added' \in Seq(Events) /\ Len(added') = n + 1
      /\ \A i \in 1..n : added'[i] = added[i]
      /\ added'[n + 1] = e
  <2>1. added' = Append(added, e) /\ added \in Seq(Events)
    BY DEF Add, Batcher
  <2>2. QED
    BY <1>1, <2>1, AppendProperties
<1>3. [event |-> e, no |-> n + 1] \in Entries
  BY DEF Entries
<1>4. batch = Append(pending, [event |-> e, no |-> n + 1])
  BY <1>2
<1>5. IF Len(batch) >= BatchSize THEN FlushLocked(batch) ELSE pending' = batch /\ UNCHANGED <<outChan, dropped>>
  BY DEF Add, Entry
<1> HIDE DEF batch
<1>6. /\ batch \in Seq(Entries) /\ Len(batch) = m + 1 /\ batch # <<>>
      /\ Range(batch) = Range(pending) \union {[event |-> e, no |-> n + 1]}
  <2>1. PICK x \in Entries : x = [event |-> e, no |-> n + 1]
    BY <1>3
  <2>2. pending \in Seq(Entries) /\ batch = Append(pending, x)
    BY <1>4, <2>1 DEF Batcher
  <2>3. batch \in Seq(Entries) /\ Len(batch) = m + 1 /\ Range(batch) = Range(pending) \union {x}
    BY <1>1, <2>2, AppendProperties, MembersOfAppend
  <2>4. batch # <<>>
    BY <2>3, EmptySeq
  <2>5. QED
    BY <2>1, <2>3, <2>4
<1>7. n <= n + 1 /\ n + 1 \in 1..n + 1 /\ \A i \in 1..n : i \in 1..n + 1
  OBVIOUS
<1>8. \A x \in Range(pending) \union InChannel : x.no \in 1..Len(added') /\ x.event = added'[x.no]
  BY <1>1, <1>2, <1>7 DEF Batcher, Placed
<1>9. \A x \in Range(batch) : x.no \in 1..Len(added') /\ x.event = added'[x.no]
  BY <1>2, <1>6, <1>7, <1>8
<1>10. CASE Len(batch) >= BatchSize
  <2>1. FlushLocked(batch) /\ (batch = <<>> => batch = pending)
    BY <1>5, <1>6, <1>10
  <2>2. Len(added) <= Len(added') /\ \A i \in 1..Len(added) : added'[i] = added[i]
    BY <1>1, <1>2, <1>7
  <2>3. Batcher'
    BY <1>2, <1>6, <1>9, <2>1, <2>2, FlushTyped
  <2>4. QED
    BY <1>2, <2>3
<1>11. CASE ~(Len(batch) >= BatchSize)
  <2>1. pending' = batch /\ outChan' = outChan /\ dropped' = dropped
    BY <1>5, <1>11
  <2>2. Len(pending') < BatchSize
    BY <1>6, <1>11, <2>1, DaemonAssumption
  <2>3. InChannel' = InChannel
    BY <2>1 DEF InChannel
  <2>4. Placed'
    BY <1>8, <1>9, <2>1, <2>3 DEF Placed
  <2>5. dropped' \subseteq 1..Len(added')
    BY <1>1, <1>2, <1>7, <2>1 DEF Batcher
  <2>6. QED
    BY <1>2, <1>6, <2>1, <2>2, <2>4, <2>5 DEF Batcher
<1>12. QED
  BY <1>10, <1>11

\* The event that is added comes last, and is added once.
LEMMA AddKeeps ==
  ASSUME Batcher, AddedOnce, NEW e \in Events, Add(e), output' \in Seq(Entries),
         UNCHANGED emitBatches, emitBatches => UNCHANGED output
  PROVE  AddedOnce'
<1> SUFFICES ASSUME emitBatches PROVE Sound(Kept', added', dropped')
  BY DEF AddedOnce, Sound, Kept
<1> DEFINE x == [event |-> e, no |-> Len(added) + 1]
           q == output \o FlattenSeq(outChan)
           batch == Append(pending, x)
<1>1. Sound(q \o pending, added, dropped)
  BY DEF AddedOnce, Sound, Kept
<1>2. /\ added' = Append(added, e) /\ Len(added') = Len(added) + 1 /\ Len(added) \in Nat
      /\ added \in Seq(Events) /\ pending \in Seq(Entries) /\ dropped \subseteq 1..Len(added)
      /\ output' = output
  BY AppendProperties, LenProperties DEF Add, Batcher
<1>3. IF Len(batch) >= BatchSize THEN FlushLocked(batch) ELSE pending' = batch /\ UNCHANGED <<outChan, dropped>>
  BY <1>2 DEF Add, Entry
<1>4. x \in Entries
  <2>1. Len(added) + 1 \in Nat
    BY <1>2
  <2>2. QED
    BY <2>1 DEF Entries
<1>5. q \in Seq(Entries)
  BY FlattenTyped, ConcatProperties DEF Batcher
<1>6. Sound(Append(q \o pending, x), added', dropped)
  <2>1. q \o pending \in Seq(Entries)
    <3> HIDE DEF q
    <3> QED BY <1>2, <1>5, ConcatProperties
  <2> DEFINE r == q \o pending
  <2>2. r \in Seq(Entries) /\ Sound(r, added, dropped)
    BY <1>1, <2>1
  <2> HIDE DEF r
  <2>3. Sound(Append(r, x), Append(added, e), dropped)
    BY <1>2, <2>2, SoundAppend
  <2>4. QED
    BY <1>2, <2>3 DEF r
<1> HIDE DEF x, q
<1>7. batch \in Seq(Entries) /\ batch # <<>>
  <2>1. batch \in Seq(Entries) /\ Len(batch) = Len(pending) + 1 /\ Len(pending) \in Nat
    BY <1>2, <1>4, AppendProperties, LenProperties
  <2> HIDE DEF batch
  <2>2. QED
    BY <2>1, EmptySeq
<1>8. Append(q \o pending, x) = q \o batch
  <2>1. batch = pending \o <<x>> /\ <<x>> \in Seq(Entries)
    BY <1>2, <1>4, AppendIsConcat
  <2>2. PICK r \in Seq(Entries), p \in Seq(Entries), y \in Seq(Entries) : r = q /\ p = pending /\ y = <<x>>
    BY <1>2, <1>5, <2>1
  <2>3. r \o p \in Seq(Entries) /\ (r \o p) \o y = r \o (p \o y)
    BY ConcatAssociative, ConcatProperties
  <2>4. Append(r \o p, x) = (r \o p) \o <<x>>
    BY <1>4, <2>3, AppendIsConcat
  <2> HIDE DEF batch
  <2>5. QED
    BY <2>1, <2>2, <2>3, <2>4
<1> HIDE DEF batch
<1>9. Sound(q \o batch, added', dropped)
  BY <1>6, <1>8
<1>10. CASE Len(batch) >= BatchSize
  <2>1. FlushLocked(batch) /\ (batch = <<>> => batch = pending)
    BY <1>3, <1>7, <1>10
  <2>2. Sound(output \o FlattenSeq(outChan) \o batch, added', dropped)
    BY <1>9 DEF q
  <2>3. QED
    BY <1>2, <1>7, <2>1, <2>2, FlushSound
<1>11. CASE ~(Len(batch) >= BatchSize)
  <2>1. pending' = batch /\ outChan' = outChan /\ dropped' = dropped
    BY <1>3, <1>11
  <2>2. Kept' = q \o batch
    BY <1>2, <2>1 DEF Kept, q
  <2>3. QED
    BY <1>9, <2>1, <2>2
<1>12. QED
  BY <1>10, <1>11

\* A batch that goes from the channel to the output keeps its place.
LEMMA ConsumeKeeps ==
  ASSUME Batcher, AddedOnce, Consume
  PROVE  Batcher' /\ AddedOnce'
<1> DEFINE h == Head(outChan)
           t == Tail(outChan)
<1>1. /\ outChan \in Seq(Seq(Entries)) /\ outChan # <<>> /\ outChan' = t /\ output \in Seq(Entries)
      /\ output' = (IF emitBatches THEN output \o h ELSE output)
      /\ UNCHANGED <<pending, added, dropped, emitBatches>>
  BY DEF Consume, Batcher, flags
<1>2. /\ h \in Seq(Entries) /\ t \in Seq(Seq(Entries)) /\ Len(t) = Len(outChan) - 1
      /\ Range(outChan) = {h} \union Range(t)
  BY <1>1, MembersOfTail
<1>3. FlattenSeq(outChan) = h \o FlattenSeq(t) /\ FlattenSeq(t) \in Seq(Entries)
  BY <1>1, <1>2, FlattenTail, FlattenTyped
<1> HIDE DEF h, t
<1>4. Batcher'
  <2>1. output' \in Seq(Entries)
    BY <1>1, <1>2, ConcatProperties
  <2>2. Len(outChan') <= OutCap
    <3>1. PICK n \in Nat : n = Len(outChan)
      BY <1>1, LenProperties
    <3>2. n <= OutCap
      BY <3>1 DEF Batcher
    <3>3. n - 1 <= OutCap
      BY <3>2, DaemonAssumption
    <3>4. QED
      BY <1>1, <1>2, <3>1, <3>3
  <2>3. InChannel' \subseteq InChannel
    BY <1>1, <1>2 DEF InChannel
  <2>4. Placed'
    BY <1>1, <2>3 DEF Batcher, Placed
  <2>5. QED
    BY <1>1, <1>2, <2>1, <2>2, <2>4 DEF Batcher
<1>5. ASSUME emitBatches PROVE Kept' = Kept
  <2>1. PICK x \in Seq(Entries), y \in Seq(Entries), z \in Seq(Entries) :
          x = output /\ y = h /\ z = FlattenSeq(t)
    BY <1>1, <1>2, <1>3
  <2>2. (x \o y) \o z = x \o (y \o z)
    BY ConcatAssociative
  <2>3. output' \o FlattenSeq(outChan') = output \o FlattenSeq(outChan)
    BY <1>1, <1>3, <1>5, <2>1, <2>2
  <2>4. QED
    BY <1>1, <2>3 DEF Kept
<1>6. AddedOnce'
  <2>1. SUFFICES ASSUME emitBatches PROVE Sound(Kept', added', dropped')
    BY <1>1 DEF AddedOnce, Sound, Kept
  <2>2. Sound(Kept, added, dropped)
    BY <2>1 DEF AddedOnce, Sound, Kept
  <2>3. QED
    BY <1>1, <1>5, <2>1, <2>2
<1>7. QED
  BY <1>4, <1>6

\* What leaves the batcher alone.
LEMMA IdleKeeps ==
  ASSUME Batcher, AddedOnce, UNCHANGED batcherVars, output' \in Seq(Entries),
         UNCHANGED emitBatches, emitBatches => UNCHANGED output
  PROVE  Batcher' /\ AddedOnce'
<1>1. UNCHANGED <<pending, outChan, added, dropped>>
  BY DEF batcherVars
<1>2. Batcher'
  BY <1>1 DEF Batcher, Placed, InChannel
<1>3. AddedOnce'
  <2>1. SUFFICES ASSUME emitBatches PROVE Sound(Kept', added', dropped')
    BY DEF AddedOnce, Sound, Kept
  <2>2. Sound(Kept, added, dropped) /\ Kept' = Kept
    BY <1>1, <2>1 DEF AddedOnce, Sound, Kept
  <2>3. QED
    BY <1>1, <2>2
<1>4. QED
  BY <1>2, <1>3

\* A process that has just been started has added nothing.
LEMMA FreshKeeps ==
  ASSUME Fresh
  PROVE  Batcher' /\ AddedOnce'
<1>1. pending' = <<>> /\ outChan' = <<>> /\ added' = <<>> /\ dropped' = {} /\ output' = <<>>
  BY DEF Fresh
<1>2. FlattenSeq(<<>>) = <<>>
  BY EmptySeq DEF FlattenSeq
<1>3. Kept' = <<>>
  BY <1>1, <1>2, EmptySeq, ConcatEmptySeq DEF Kept
<1>4. AddedOnce'
  BY <1>1, <1>3, SoundEmpty DEF AddedOnce, Sound, Kept
<1>5. Range(<<>>) = {} /\ \A S : <<>> \in Seq(S) /\ Len(<<>>) = 0
  BY MembersOfEmpty, EmptySeq
<1>6. Placed'
  BY <1>1, <1>5 DEF Placed, InChannel
<1>7. Batcher'
  BY <1>1, <1>5, <1>6, DaemonAssumption DEF Batcher
<1>8. QED
  BY <1>4, <1>7

----------------------------------------------------------------------------
(* The goroutines that take events.                                        *)

WorkerStates ==
  [step : {"off", "select", "done"}] \union [step : {"push", "add", "emit"}, event : Events]

\* A goroutine that is not at rest has taken an event.
LEMMA WorkerHolds ==
  ASSUME TypeOK, NEW s \in Sources, worker[s].step \in {"push", "add", "emit"}
  PROVE  worker[s].event \in Events /\ worker[s] = [step |-> worker[s].step, event |-> worker[s].event]
<1>1. worker[s] \in [step : {"off", "select", "done"}] \union [step : {"push", "add", "emit"}, event : Events]
  BY DEF TypeOK
<1>2. worker[s] \notin [step : {"off", "select", "done"}]
  OBVIOUS
<1>3. worker[s] \in [step : {"push", "add", "emit"}, event : Events]
  BY <1>1, <1>2, Zenon
<1>4. QED
  BY <1>3

\* Only one goroutine moves.
LEMMA WorkerMoves ==
  ASSUME TypeOK, NEW s \in Sources, NEW to \in WorkerStates, Goes(s, to)
  PROVE  /\ worker' \in [Sources -> WorkerStates]
         /\ worker'[s] = to
         /\ \A t \in Sources \ {s} : worker'[t] = worker[t]
<1>1. worker \in [Sources -> WorkerStates]
  BY DEF TypeOK, WorkerStates
<1>2. worker' = [worker EXCEPT ![s] = to]
  BY DEF Goes
<1>3. QED
  BY <1>1, <1>2, Zenon

\* What a goroutine may do next.
LEMMA StatesOfWorkers ==
  /\ At("off") \in WorkerStates /\ At("select") \in WorkerStates /\ At("done") \in WorkerStates
  /\ \A e \in Events : /\ [step |-> "push", event |-> e] \in WorkerStates
                       /\ [step |-> "add", event |-> e] \in WorkerStates
                       /\ [step |-> "emit", event |-> e] \in WorkerStates
BY DEF At, WorkerStates

\* After its Push an event is about to be added, whoever else is.
LEMMA PushesStep ==
  ASSUME TypeOK, NEW s \in Sources, WorkerPushes(s)
  PROVE  /\ worker[s].event \in Events /\ Push(worker[s].event)
         /\ worker' \in [Sources -> WorkerStates]
         /\ worker'[s] = [step |-> "add", event |-> worker[s].event]
         /\ \A t \in Sources \ {s} : worker'[t] = worker[t]
         /\ OnTheWay' = OnTheWay \union {worker[s].event}
<1>1. /\ worker[s].step = "push" /\ Push(worker[s].event)
      /\ Goes(s, [worker[s] EXCEPT !.step = "add"])
  BY DEF WorkerPushes
<1>2. PICK e \in Events : worker[s].event = e /\ worker[s] = [step |-> "push", event |-> e]
  BY <1>1, WorkerHolds
<1>3. [worker[s] EXCEPT !.step = "add"] = [step |-> "add", event |-> e]
  BY <1>2
<1>4. /\ worker' \in [Sources -> WorkerStates] /\ worker'[s] = [step |-> "add", event |-> e]
      /\ \A t \in Sources \ {s} : worker'[t] = worker[t]
  <2>1. Goes(s, [step |-> "add", event |-> e]) /\ [step |-> "add", event |-> e] \in WorkerStates
    BY <1>1, <1>3, StatesOfWorkers
  <2>2. QED
    BY <2>1, WorkerMoves
<1>5. OnTheWay' = OnTheWay \union {e}
  <2>1. \A f \in Events : worker[s] # [step |-> "add", event |-> f]
    BY <1>2
  <2>2. \A f \in Events : [step |-> "add", event |-> e] = [step |-> "add", event |-> f] => e = f
    OBVIOUS
  <2>3. OnTheWay \subseteq OnTheWay'
    BY <1>4, <2>1, Zenon DEF OnTheWay
  <2>4. e \in OnTheWay'
    BY <1>4, Zenon DEF OnTheWay
  <2>5. ASSUME NEW f \in OnTheWay', f # e PROVE f \in OnTheWay
    <3>1. PICK t \in Sources : worker'[t] = [step |-> "add", event |-> f]
      BY <2>5 DEF OnTheWay
    <3>2. f \in Events
      BY <2>5 DEF OnTheWay
    <3>3. t # s
      BY <1>4, <2>2, <2>5, <3>1, <3>2
    <3>4. worker[t] = [step |-> "add", event |-> f]
      BY <1>4, <3>1, <3>3
    <3>5. QED
      BY <3>2, <3>4 DEF OnTheWay
  <2>6. QED
    BY <2>3, <2>4, <2>5
<1>6. QED
  BY <1>1, <1>2, <1>4, <1>5

\* An event that is added is no longer about to be, by the goroutine that adds it.
LEMMA AddsStep ==
  ASSUME TypeOK, NEW s \in Sources, WorkerAdds(s)
  PROVE  /\ worker[s].event \in Events /\ Add(worker[s].event)
         /\ worker' \in [Sources -> WorkerStates]
         /\ worker'[s].step = IF emitBatches THEN "select" ELSE "emit"
         /\ \A t \in Sources \ {s} : worker'[t] = worker[t]
         /\ worker[s].event \in OnTheWay
         /\ OnTheWay \subseteq OnTheWay' \union {worker[s].event} /\ OnTheWay' \subseteq OnTheWay
<1>1. /\ worker[s].step = "add" /\ Add(worker[s].event)
      /\ Goes(s, IF emitBatches THEN At("select") ELSE [worker[s] EXCEPT !.step = "emit"])
  BY DEF WorkerAdds
<1>2. PICK e \in Events : worker[s].event = e /\ worker[s] = [step |-> "add", event |-> e]
  BY <1>1, WorkerHolds
<1>3. [worker[s] EXCEPT !.step = "emit"] = [step |-> "emit", event |-> e]
  BY <1>2
<1> DEFINE to == IF emitBatches THEN At("select") ELSE [step |-> "emit", event |-> e]
<1>4. /\ to \in WorkerStates /\ Goes(s, to) /\ to.step = (IF emitBatches THEN "select" ELSE "emit")
      /\ \A f \in Events : to # [step |-> "add", event |-> f]
  <2>1. to \in WorkerStates
    BY StatesOfWorkers
  <2>2. Goes(s, to)
    BY <1>1, <1>3
  <2>3. to.step = (IF emitBatches THEN "select" ELSE "emit")
    BY DEF At
  <2>4. \A f \in Events : to # [step |-> "add", event |-> f]
    BY <2>3
  <2>5. QED
    BY <2>1, <2>2, <2>3, <2>4
<1> HIDE DEF to
<1>5. /\ worker' \in [Sources -> WorkerStates] /\ worker'[s] = to
      /\ \A t \in Sources \ {s} : worker'[t] = worker[t]
  BY <1>4, WorkerMoves
<1>6. e \in OnTheWay
  BY <1>2 DEF OnTheWay
<1>7. OnTheWay' \subseteq OnTheWay
  BY <1>4, <1>5, Zenon DEF OnTheWay
<1>8. ASSUME NEW f \in OnTheWay, f # e PROVE f \in OnTheWay'
  <2>1. PICK t \in Sources : worker[t] = [step |-> "add", event |-> f]
    BY <1>8 DEF OnTheWay
  <2>2. f \in Events
    BY <1>8 DEF OnTheWay
  <2>3. t # s
    BY <1>2, <1>8, <2>1
  <2>4. worker'[t] = [step |-> "add", event |-> f]
    BY <1>5, <2>1, <2>3
  <2>5. QED
    BY <2>2, <2>4 DEF OnTheWay
<1>9. QED
  BY <1>1, <1>2, <1>4, <1>5, <1>6, <1>7, <1>8

\* A goroutine that is not about to add an event, and does not come to be.
LEMMA OthersStep ==
  ASSUME TypeOK, NEW s \in Sources, NEW to \in WorkerStates, Goes(s, to),
         worker[s].step # "add", to.step # "add"
  PROVE  OnTheWay' = OnTheWay
<1>1. worker'[s] = to /\ \A t \in Sources \ {s} : worker'[t] = worker[t]
  BY WorkerMoves
<1>2. \A f \in Events : to # [step |-> "add", event |-> f] /\ worker[s] # [step |-> "add", event |-> f]
  OBVIOUS
<1>3. QED
  BY <1>1, <1>2, Zenon DEF OnTheWay

\* What the goroutines take, write and leave.
LEMMA OtherMoves ==
  ASSUME TypeOK, NEW s \in Sources, WorkerEmits(s) \/ WorkerStops(s)
  PROVE  \E to \in WorkerStates : Goes(s, to) /\ worker[s].step # "add" /\ to.step \in {"select", "done"}
<1>1. (At("select")).step = "select" /\ (At("done")).step = "done"
  BY DEF At
<1>2. CASE WorkerEmits(s)
  BY <1>1, <1>2, StatesOfWorkers DEF WorkerEmits
<1>3. CASE WorkerStops(s)
  BY <1>1, <1>3, StatesOfWorkers DEF WorkerStops
<1>4. QED
  BY <1>2, <1>3

\* A goroutine that takes an event was waiting for one.
LEMMA TakesStep ==
  ASSUME TypeOK, TakeLine \/ TakeFileEvent
  PROVE  \E s \in Sources, to \in WorkerStates : Goes(s, to) /\ worker[s].step = "select" /\ to.step = "push"
<1>1. CASE TakeLine
  <2>1. lines \in Seq(1..Lines) /\ lines # <<>>
    BY <1>1 DEF TakeLine, TypeOK
  <2>2. Head(lines) \in 1..Lines
    BY <2>1, MembersOfTail
  <2>3. PICK n \in 1..(Lines + FileEvents) : n = Head(lines)
    BY <2>2, DaemonAssumption
  <2>4. [source |-> "log", n |-> n] \in Events /\ "log" \in Sources
    BY DEF Events, Sources
  <2>5. [step |-> "push", event |-> [source |-> "log", n |-> n]] \in WorkerStates
    BY <2>4, StatesOfWorkers
  <2>6. Goes("log", [step |-> "push", event |-> [source |-> "log", n |-> n]]) /\ worker["log"].step = "select"
    BY <1>1, <2>3 DEF TakeLine, Take
  <2>7. QED
    BY <2>4, <2>5, <2>6
<1>2. CASE TakeFileEvent
  <2>1. seen \in 0..FileEvents /\ seen < FileEvents
    BY <1>2 DEF TakeFileEvent, TypeOK
  <2>2. PICK n \in 1..(Lines + FileEvents) : n = seen + 1
    BY <2>1, DaemonAssumption
  <2>3. [source |-> "files", n |-> n] \in Events /\ "files" \in Sources
    BY DEF Events, Sources
  <2>4. [step |-> "push", event |-> [source |-> "files", n |-> n]] \in WorkerStates
    BY <2>3, StatesOfWorkers
  <2>5. Goes("files", [step |-> "push", event |-> [source |-> "files", n |-> n]]) /\ worker["files"].step = "select"
    BY <1>2, <2>2 DEF TakeFileEvent, Take
  <2>6. QED
    BY <2>3, <2>4, <2>5
<1>3. QED
  BY <1>1, <1>2

----------------------------------------------------------------------------
(* The spool.                                                              *)

\* The lines of a spool parse to events.
LEMMA LegibleEvents ==
  ASSUME NEW q \in Seq(Items)
  PROVE  Legible(q) \subseteq Events
<1>1. Range(q) \subseteq Items
  <2>1. Range(q) = {q[i] : i \in 1..Len(q)} /\ \A i \in 1..Len(q) : q[i] \in Items
    BY RangeEquality, ElementOfSeq
  <2>2. QED
    BY <2>1
<1>2. QED
  BY <1>1 DEF Items, Records, Legible, Parses

\* They parse one by one.
LEMMA LegibleOf ==
  ASSUME NEW p, NEW q, NEW x, Range(p) \subseteq Range(q) \union {x}
  PROVE  \A e \in Legible(p) : e \in Legible(q) \/ (Parses(x) /\ e = x.event)
BY DEF Legible

\* The beginning of a sequence, and what is left when a gap is cut out of it.
LEMMA GapCut ==
  ASSUME NEW S, NEW s \in Seq(S), NEW i \in 0..Len(s), NEW j \in 0..Len(s)
  PROVE  SubSeq(s, 1, i) \o SubSeq(s, j + 1, Len(s)) \in Seq(S)
<1>1. PICK l \in Nat : Len(s) = l
  BY LenProperties
<1>2. \A k \in 1..i : s[k] \in S
  BY <1>1, ElementOfSeq
<1>3. SubSeq(s, 1, i) \in Seq(S)
  BY <1>1, <1>2, SubSeqProperties
<1>4. SubSeq(s, j + 1, Len(s)) \in Seq(S)
  BY MembersOfSubSeq
<1>5. QED
  BY <1>3, <1>4, ConcatProperties

\* A record that joins the spool spoils none, and is spoilt only by a fragment.
LEMMA SpoiltGrows ==
  ASSUME NEW x \in Items, spool \in Seq(Items), spool' = Append(spool, x)
  PROVE  /\ Spoilt \subseteq Spoilt'
         /\ spool # <<>> /\ Last(spool) = Fragment /\ x # Fragment => x.event \in Spoilt'
<1>1. PICK l \in Nat : Len(spool) = l
  BY LenProperties
<1>2. /\ Len(spool') = l + 1 /\ spool'[l + 1] = x
      /\ \A n \in 1..l : spool'[n] = spool[n]
  BY <1>1, AppendProperties
<1>3. Spoilt \subseteq Spoilt'
  <2>1. ASSUME NEW n \in 2..l, spool[n - 1] = Fragment, spool[n] # Fragment PROVE spool[n].event \in Spoilt'
    <3>1. n \in 1..l /\ n - 1 \in 1..l /\ n \in 2..(l + 1)
      OBVIOUS
    <3>2. spool'[n - 1] = Fragment /\ spool'[n] = spool[n]
      BY <1>2, <2>1, <3>1
    <3>3. QED
      BY <1>2, <2>1, <3>1, <3>2 DEF Spoilt
  <2>2. QED
    BY <1>1, <2>1 DEF Spoilt
<1>4. ASSUME spool # <<>>, Last(spool) = Fragment, x # Fragment PROVE x.event \in Spoilt'
  <2>1. l # 0
    BY <1>1, <1>4, EmptySeq
  <2>2. l + 1 \in 2..(l + 1) /\ l + 1 - 1 = l /\ l \in 1..l
    BY <2>1
  <2>3. spool'[l + 1 - 1] = Fragment /\ spool'[l + 1] = x
    BY <1>1, <1>2, <1>4, <2>2 DEF Last
  <2>4. QED
    BY <1>2, <1>4, <2>2, <2>3 DEF Spoilt
<1>5. QED
  BY <1>3, <1>4

\* An entry at the end of the spool leaves it as it is: what was legible or
\* spoilt remains so.
LEMMA EntryJoins ==
  ASSUME NEW x \in Items, spool \in Seq(Items), spool' = Append(spool, x)
  PROVE  /\ Legible(spool) \union Spoilt \subseteq Legible(spool') \union Spoilt'
         /\ Parses(x) => x.event \in Legible(spool')
<1>1. Range(spool') = Range(spool) \union {x}
  BY MembersOfAppend
<1>2. QED
  BY <1>1, SpoiltGrows DEF Legible

\* What is pushed is on the disk, and nothing comes to it besides; what is in
\* the way is dropped, the oldest first.
LEMMA PutStep ==
  ASSUME TypeOK, NEW e \in Events, Pushed(e)
  PROVE  /\ spool' \in Seq(Items)
         /\ Legible(spool') \subseteq Legible(spool) \union {e}
         /\ Roomy => Legible(spool) \union Spoilt \union {e} \subseteq Legible(spool') \union Spoilt'
<1>1. spool \in Seq(Items)
  BY DEF TypeOK, Items
<1>2. PICK b \in Legibility : Queue!Put([event |-> e, legible |-> b])
  BY DEF Pushed
<1>3. b \in BOOLEAN
  BY DEF Legibility
<1>4. PICK x \in Records : x = [event |-> e, legible |-> b]
  BY <1>3 DEF Records
<1>5. x \in Items /\ x # Fragment /\ x.event = e /\ (Parses(x) <=> b)
  BY <1>4, DaemonAssumption DEF Items, Parses
<1>6. PICK n \in 0..Len(spool) :
        /\ spool' = Append(SubSeq(spool, n + 1, Len(spool)), x)
        /\ n > 0 => \E m \in 0..(n - 1) : Len(spool) - m >= MaxSize
  BY <1>2, <1>4 DEF Queue!Put
<1>7. SubSeq(spool, n + 1, Len(spool)) \in Seq(Items) /\ Range(SubSeq(spool, n + 1, Len(spool))) \subseteq Range(spool)
  BY <1>1, MembersOfSubSeq
<1>8. PICK q \in Seq(Items) : q = SubSeq(spool, n + 1, Len(spool)) /\ Range(q) \subseteq Range(spool)
  BY <1>7
<1>9. spool' \in Seq(Items) /\ Range(spool') = Range(q) \union {x}
  <2>1. spool' = Append(q, x)
    BY <1>6, <1>8
  <2>2. QED
    BY <1>5, <2>1, MembersOfAppend
<1>10. Legible(spool') \subseteq Legible(spool) \union {e}
  <2>1. Range(spool') \subseteq Range(spool) \union {x}
    BY <1>8, <1>9
  <2>2. QED
    BY <1>5, <2>1, LegibleOf
<1>11. ASSUME Roomy PROVE Legible(spool) \union Spoilt \union {e} \subseteq Legible(spool') \union Spoilt'
  <2>1. PICK l \in Nat : l = Len(spool)
    BY <1>1, LenProperties
  <2>2. n = 0
    <3>1. \A m \in 0..(n - 1) : ~(l - m >= MaxSize)
      BY <1>11, <2>1, DaemonAssumption DEF Roomy
    <3>2. n \in 0..l
      BY <2>1
    <3>3. QED
      BY <1>6, <2>1, <3>1, <3>2
  <2>3. spool' = Append(spool, x)
    <3>1. SubSeq(spool, n + 1, Len(spool)) = SubSeq(spool, 1, Len(spool))
      BY <2>2
    <3>2. SubSeq(spool, 1, Len(spool)) = spool
      BY <1>1, SubSeqFull
    <3>3. QED
      BY <1>6, <3>1, <3>2
  <2>4. b \/ (spool # <<>> /\ Last(spool) = Fragment)
    BY DEF Legibility
  <2>5. e \in Legible(spool') \union Spoilt'
    <3>1. CASE b
      BY <1>1, <1>5, <2>3, <3>1, EntryJoins
    <3>2. CASE spool # <<>> /\ Last(spool) = Fragment
      BY <1>1, <1>5, <2>3, <3>2, SpoiltGrows
    <3>3. QED
      BY <2>4, <3>1, <3>2
  <2>6. QED
    BY <1>1, <1>5, <2>3, <2>5, EntryJoins
<1>12. QED
  BY <1>9, <1>10, <1>11

\* A Push that fails leaves the spool as it is but for a fragment.
LEMMA PushStep ==
  ASSUME TypeOK, NEW e \in Events, Push(e)
  PROVE  /\ spool' \in Seq(Items) /\ unspooled' \subseteq Events /\ UNCHANGED <<opened, unread>>
         /\ Legible(spool') \subseteq Legible(spool) \union {e}
         /\ Roomy => Legible(spool) \union Spoilt \union {e} \subseteq Legible(spool') \union Spoilt' \union unspooled'
         /\ unspooled \subseteq unspooled'
<1>1. spool \in Seq(Items) /\ unspooled \subseteq Events
  BY DEF TypeOK, Items
<1>2. UNCHANGED <<opened, unread>>
  BY DEF Push
<1>3. CASE Pushed(e)
  <2>1. UNCHANGED unspooled
    BY <1>3 DEF Pushed
  <2>2. QED
    BY <1>1, <1>2, <1>3, <2>1, PutStep
<1>4. CASE unspooled' = unspooled \union {e} /\ UNCHANGED spool
  BY <1>1, <1>2, <1>4 DEF Spoilt
<1>5. CASE unspooled' = unspooled \union {e} /\ Queue!Break
  <2>1. spool' = Append(spool, Fragment) /\ Fragment \in Items
    BY <1>5 DEF Queue!Break, Items
  <2>2. spool' \in Seq(Items) /\ Range(spool') = Range(spool) \union {Fragment}
    BY <1>1, <2>1, MembersOfAppend
  <2>3. Legible(spool') \subseteq Legible(spool)
    BY <2>2, LegibleOf DEF Parses
  <2>4. Legible(spool) \union Spoilt \subseteq Legible(spool') \union Spoilt'
    BY <1>1, <2>1, EntryJoins
  <2>5. QED
    BY <1>1, <1>2, <1>5, <2>2, <2>3, <2>4
<1>6. QED
  BY <1>3, <1>4, <1>5 DEF Push, PushFails

----------------------------------------------------------------------------
(* The steps.                                                              *)

\* What every step does to the batcher and the output.
LEMMA BatcherStep ==
  ASSUME DaemonInv, [Next]_vars
  PROVE  Batcher' /\ AddedOnce'
<1>1. Batcher /\ AddedOnce /\ TypeOK
  BY BatcherOfInv DEF DaemonInv
<1>2. output \in Seq(Entries)
  BY <1>1 DEF Batcher
<1>3. CASE Tick \/ TickerStops \/ WaitTailers \/ WaitSignal
  <2>1. Flush /\ UNCHANGED <<output, emitBatches>>
    BY <1>3 DEF Tick, TickerStops, WaitTailers, WaitSignal, Running, flags
  <2>2. QED
    BY <1>1, <2>1, FlushKeeps
<1>4. ASSUME NEW s \in Sources, WorkerAdds(s) PROVE Batcher' /\ AddedOnce'
  <2>1. worker[s].event \in Events /\ Add(worker[s].event)
    BY <1>1, <1>4, AddsStep
  <2>2. UNCHANGED <<output, emitBatches>>
    BY <1>4 DEF WorkerAdds, flags
  <2>3. PICK e \in Events : Add(e)
    BY <2>1
  <2>4. QED
    BY <1>1, <1>2, <2>2, <2>3, AddTyped, AddKeeps
<1>5. CASE Replay
  <2>1. PICK e \in Legible(replay) : Add(e)
    BY <1>5 DEF Replay
  <2>2. e \in Events
    BY <1>1, <2>1, LegibleEvents DEF TypeOK, Items
  <2>3. UNCHANGED <<output, emitBatches>>
    BY <1>5 DEF Replay, flags
  <2>4. QED
    BY <1>1, <1>2, <2>1, <2>2, <2>3, AddTyped, AddKeeps
<1>6. CASE Consume
  BY <1>1, <1>6, ConsumeKeeps
<1>7. CASE Start \/ Crash
  BY <1>7, FreshKeeps DEF Start, Crash
<1>8. CASE SkipLine
  BY <1>1, <1>2, <1>8, IdleKeeps DEF SkipLine, flags
<1>9. ASSUME UNCHANGED <<batcherVars, output, emitBatches>> PROVE Batcher' /\ AddedOnce'
  BY <1>1, <1>2, <1>9, IdleKeeps
<1>10. ASSUME NEW s \in Sources, WorkerPushes(s) \/ WorkerEmits(s) \/ WorkerStops(s)
       PROVE  UNCHANGED <<batcherVars, output, emitBatches>>
  BY <1>10 DEF WorkerPushes, WorkerEmits, WorkerStops, flags
<1>11. CASE TakeLine \/ TakeFileEvent
  BY <1>9, <1>11 DEF TakeLine, TakeFileEvent, flags
<1>12. CASE ReadLine \/ SendLine \/ TailerEnds \/ TailerFails
  BY <1>9, <1>12 DEF ReadLine, SendLine, TailerEnds, TailerFails, Tailing, flags
<1>13. CASE ConsumerDrains \/ ConsumerEnds
  BY <1>9, <1>13 DEF ConsumerDrains, ConsumerEnds, Consumer, flags
<1>14. CASE StartServices \/ Cancel \/ WaitServices \/ Signal
  BY <1>9, <1>14 DEF StartServices, Cancel, WaitServices, Signal, Running, flags
<1>15. CASE UNCHANGED vars
  BY <1>9, <1>15 DEF vars, batcherVars, flags
<1>16. QED
  BY <1>3, <1>4, <1>5, <1>6, <1>7, <1>8, <1>9, <1>10, <1>11, <1>12, <1>13, <1>14, <1>15 DEF Next, Main, Worker

\* What every step does to the spool: it is left alone or pushed to.
LEMMA SpoolStep ==
  ASSUME DaemonInv, [Next]_vars
  PROVE  Start \/ UNCHANGED spoolVars \/ \E e \in Events : Push(e)
<1>1. TypeOK
  BY DEF DaemonInv
<1>2. CASE Replay
  <2>1. PICK e \in Legible(replay) : Push(e)
    BY <1>2 DEF Replay, Replaying
  <2>2. QED
    BY <1>1, <2>1, LegibleEvents DEF TypeOK, Items
<1>3. ASSUME NEW s \in Sources, WorkerPushes(s) PROVE \E e \in Events : Push(e)
  BY <1>1, <1>3, PushesStep
<1>4. ASSUME NEW s \in Sources, WorkerAdds(s) \/ WorkerEmits(s) \/ WorkerStops(s) PROVE UNCHANGED spoolVars
  BY <1>4 DEF WorkerAdds, WorkerEmits, WorkerStops
<1>5. CASE Tick \/ TickerStops \/ TakeLine \/ TakeFileEvent \/ Consume \/ ConsumerDrains \/ ConsumerEnds
  BY <1>5 DEF Tick, TickerStops, TakeLine, TakeFileEvent, Consume, ConsumerDrains, ConsumerEnds, Consumer
<1>6. CASE ReadLine \/ SendLine \/ TailerEnds \/ TailerFails
  BY <1>6 DEF ReadLine, SendLine, TailerEnds, TailerFails, Tailing
<1>7. CASE SkipLine \/ StartServices \/ WaitTailers \/ Cancel \/ WaitSignal \/ WaitServices \/ Signal \/ Crash
  BY <1>7 DEF SkipLine, StartServices, WaitTailers, Cancel, WaitSignal, WaitServices, Signal, Crash, Running
<1>8. CASE UNCHANGED vars
  BY <1>8 DEF vars
<1>9. QED
  BY <1>2, <1>3, <1>4, <1>5, <1>6, <1>7, <1>8 DEF Next, Main, Worker

\* The flags, the phases and the goroutines of the program.
Control ==
  /\ follow \in BOOLEAN /\ emitBatches \in BOOLEAN /\ runs \in 0..MaxRuns
  /\ phase \in {"down", "replay", "tailers", "sleep", "signal", "services", "returned"}
  /\ stopping \in BOOLEAN /\ cancelled \in BOOLEAN
  /\ ticker \in {"off", "on", "done"} /\ consumer \in {"off", "run", "drain", "done"}

\* They keep their types.
LEMMA ControlStep ==
  ASSUME TypeOK, [Next]_vars
  PROVE  Control'
<1>1. Control
  BY DEF TypeOK, Control
<1>2. CASE Tick \/ TickerStops
  BY <1>1, <1>2 DEF Tick, TickerStops, Control, flags, ctx
<1>3. ASSUME NEW s \in Sources, Worker(s) PROVE Control'
  BY <1>1, <1>3 DEF Worker, WorkerPushes, WorkerAdds, WorkerEmits, WorkerStops, Control, flags, ctx
<1>4. CASE TakeLine \/ TakeFileEvent
  BY <1>1, <1>4 DEF TakeLine, TakeFileEvent, Control, flags, ctx
<1>5. CASE ReadLine \/ SendLine \/ TailerEnds \/ TailerFails
  BY <1>1, <1>5 DEF ReadLine, SendLine, TailerEnds, TailerFails, Tailing, Control, flags, ctx
<1>6. CASE Consume \/ ConsumerDrains \/ ConsumerEnds
  BY <1>1, <1>6 DEF Consume, ConsumerDrains, ConsumerEnds, Consumer, Control, flags, ctx
<1>7. CASE SkipLine \/ Replay \/ StartServices
  BY <1>1, <1>7 DEF SkipLine, Replay, StartServices, Control, flags, ctx
<1>8. CASE WaitTailers \/ Cancel \/ WaitSignal \/ WaitServices
  BY <1>1, <1>8 DEF WaitTailers, Cancel, WaitSignal, WaitServices, Running, Control, flags, ctx
<1>9. CASE Start
  <2>1. runs' \in 0..MaxRuns
    BY <1>1, <1>9, DaemonAssumption DEF Start, Control
  <2>2. QED
    BY <1>1, <1>9, <2>1 DEF Start, Fresh, Control, flags
<1>10. CASE Crash
  BY <1>1, <1>10 DEF Crash, Fresh, Control, flags
<1>11. CASE Signal
  BY <1>1, <1>11 DEF Signal, Control, flags
<1>12. CASE UNCHANGED vars
  BY <1>1, <1>12 DEF vars, Control, flags, ctx
<1>13. QED
  BY <1>2, <1>3, <1>4, <1>5, <1>6, <1>7, <1>8, <1>9, <1>10, <1>11, <1>12 DEF Next, Main

\* The tailer and its channel.
TailerInv ==
  /\ tailer \in {"off", "check", "send", "closed"}
  /\ sent \in 0..Lines /\ seen \in 0..FileEvents
  /\ lines \in Seq(1..Lines) /\ Len(lines) <= LinesCap
  /\ tailer = "send" => sent < Lines

\* What the tailer sends is a line of the log, and there is room for it.
LEMMA TailerStep ==
  ASSUME TypeOK, Shape, [Next]_vars
  PROVE  TailerInv'
<1>1. TailerInv
  BY DEF TypeOK, Shape, TailerInv
<1>2. CASE UNCHANGED <<tailerVars, seen>>
  BY <1>1, <1>2 DEF TailerInv, tailerVars
<1>3. CASE Tick \/ TickerStops \/ Consume \/ ConsumerDrains \/ ConsumerEnds \/ SkipLine \/ Replay \/ Signal
  <2>1. UNCHANGED <<tailerVars, seen>>
    BY <1>3 DEF Tick, TickerStops, Consume, ConsumerDrains, ConsumerEnds, Consumer, SkipLine, Replay, Signal, workerVars
  <2>2. QED
    BY <1>2, <2>1
<1>4. ASSUME NEW s \in Sources, Worker(s) PROVE TailerInv'
  <2>1. UNCHANGED <<tailerVars, seen>>
    BY <1>4 DEF Worker, WorkerPushes, WorkerAdds, WorkerEmits, WorkerStops
  <2>2. QED
    BY <1>2, <2>1
<1>5. CASE TakeLine
  <2>1. /\ lines # <<>> /\ lines' = Tail(lines) /\ lines \in Seq(1..Lines)
        /\ UNCHANGED <<tailer, sent, seen>>
    BY <1>1, <1>5 DEF TakeLine, TailerInv
  <2>2. lines' \in Seq(1..Lines) /\ Len(lines') = Len(lines) - 1
    BY <2>1, MembersOfTail
  <2>3. Len(lines) \in Nat /\ Len(lines) <= LinesCap
    BY <1>1, <2>1, LenProperties DEF TailerInv
  <2>4. Len(lines') <= LinesCap
    BY <2>2, <2>3, DaemonAssumption
  <2>5. QED
    BY <1>1, <2>1, <2>2, <2>4 DEF TailerInv
<1>6. CASE TakeFileEvent
  <2>1. seen' \in 0..FileEvents
    BY <1>1, <1>6, DaemonAssumption DEF TakeFileEvent, TailerInv
  <2>2. QED
    BY <1>1, <1>6, <2>1 DEF TakeFileEvent, TailerInv, tailerVars
<1>7. CASE ReadLine \/ TailerEnds \/ TailerFails
  BY <1>1, <1>7 DEF ReadLine, TailerEnds, TailerFails, Tailing, TailerInv, workerVars
<1>8. CASE SendLine
  <2>1. /\ tailer = "send" /\ tailer' = "check" /\ sent' = sent + 1 /\ Len(lines) < LinesCap
        /\ lines' = Append(lines, sent + 1) /\ seen' = seen
    BY <1>8 DEF SendLine, Tailing, workerVars
  <2>2. sent + 1 \in 1..Lines /\ sent + 1 \in 0..Lines
    BY <1>1, <2>1, DaemonAssumption DEF TailerInv
  <2>3. PICK n \in 1..Lines : n = sent + 1
    BY <2>2
  <2>4. lines' \in Seq(1..Lines) /\ Len(lines') = Len(lines) + 1 /\ Len(lines) \in Nat
    <3>1. lines \in Seq(1..Lines) /\ lines' = Append(lines, n)
      BY <1>1, <2>1, <2>3 DEF TailerInv
    <3>2. QED
      BY <3>1, AppendProperties, LenProperties
  <2>5. Len(lines') <= LinesCap
    BY <2>1, <2>4, DaemonAssumption
  <2>6. QED
    BY <1>1, <2>1, <2>2, <2>4, <2>5 DEF TailerInv
<1>9. CASE StartServices
  BY <1>1, <1>9 DEF StartServices, TailerInv
<1>10. CASE WaitTailers \/ Cancel \/ WaitSignal \/ WaitServices
  <2>1. UNCHANGED <<tailerVars, seen>>
    BY <1>10 DEF WaitTailers, Cancel, WaitSignal, WaitServices, Running, workerVars
  <2>2. QED
    BY <1>2, <2>1
<1>11. CASE Start \/ Crash
  <2>1. tailer' = "off" /\ sent' = 0 /\ lines' = <<>> /\ seen' = 0
    BY <1>11 DEF Start, Crash, Fresh
  <2>2. <<>> \in Seq(1..Lines) /\ Len(<<>>) = 0
    BY EmptySeq
  <2>3. QED
    BY <2>1, <2>2, DaemonAssumption DEF TailerInv
<1>12. CASE UNCHANGED vars
  BY <1>2, <1>12 DEF vars, workerVars
<1>13. QED
  BY <1>3, <1>4, <1>5, <1>6, <1>7, <1>8, <1>9, <1>10, <1>11, <1>12 DEF Next, Main

\* The goroutines that call processEvent; nothing is left to emit with -batch,
\* and no goroutine is started before the replay is over.
WorkerInv ==
  /\ worker \in [Sources -> WorkerStates]
  /\ emitBatches => \A s \in Sources : worker[s].step # "emit"
  /\ phase = "replay" => \A s \in Sources : worker[s] = At("off")

\* No step brings a goroutine anywhere else.
LEMMA WorkerStep ==
  ASSUME TypeOK, Shape, [Next]_vars
  PROVE  WorkerInv'
<1>1. WorkerInv
  BY DEF TypeOK, Shape, WorkerInv, WorkerStates
<1>2. ASSUME UNCHANGED <<worker, emitBatches>>, phase' = "replay" => phase = "replay" PROVE WorkerInv'
  BY <1>1, <1>2 DEF WorkerInv
<1>3. ASSUME NEW s \in Sources, worker[s].step # "off", worker'[s].step # "off",
             worker' \in [Sources -> WorkerStates],
             \A t \in Sources \ {s} : worker'[t] = worker[t],
             UNCHANGED <<emitBatches, phase>>, emitBatches => worker'[s].step # "emit"
      PROVE  WorkerInv'
  <2>1. (At("off")).step = "off"
    BY DEF At
  <2>2. phase # "replay"
    BY <1>1, <1>3, <2>1 DEF WorkerInv
  <2>3. QED
    BY <1>1, <1>3, <2>2 DEF WorkerInv
<1>4. ASSUME NEW s \in Sources, Worker(s) PROVE WorkerInv'
  <2>1. UNCHANGED <<emitBatches, phase>>
    BY <1>4 DEF Worker, WorkerPushes, WorkerAdds, WorkerEmits, WorkerStops, flags
  <2>2. CASE WorkerPushes(s)
    <3>1. /\ worker' \in [Sources -> WorkerStates] /\ \A t \in Sources \ {s} : worker'[t] = worker[t]
          /\ worker'[s].step = "add" /\ worker[s].step = "push"
      <4>1. /\ worker' \in [Sources -> WorkerStates] /\ \A t \in Sources \ {s} : worker'[t] = worker[t]
            /\ worker'[s] = [step |-> "add", event |-> worker[s].event]
        BY <2>2, PushesStep
      <4>2. worker[s].step = "push"
        BY <2>2 DEF WorkerPushes
      <4>3. QED
        BY <4>1, <4>2
    <3>2. QED
      BY <1>3, <2>1, <3>1
  <2>3. CASE WorkerAdds(s)
    <3>1. /\ worker' \in [Sources -> WorkerStates] /\ \A t \in Sources \ {s} : worker'[t] = worker[t]
          /\ worker'[s].step = (IF emitBatches THEN "select" ELSE "emit") /\ worker[s].step = "add"
      <4>1. /\ worker' \in [Sources -> WorkerStates] /\ \A t \in Sources \ {s} : worker'[t] = worker[t]
            /\ worker'[s].step = (IF emitBatches THEN "select" ELSE "emit")
        BY <2>3, AddsStep
      <4>2. worker[s].step = "add"
        BY <2>3 DEF WorkerAdds
      <4>3. QED
        BY <4>1, <4>2
    <3>2. worker'[s].step # "off" /\ (emitBatches => worker'[s].step # "emit")
      BY <3>1
    <3>3. QED
      BY <1>3, <2>1, <3>1, <3>2
  <2>4. CASE WorkerEmits(s) \/ WorkerStops(s)
    <3>1. PICK to \in WorkerStates : Goes(s, to) /\ to.step \in {"select", "done"}
      BY <2>4, OtherMoves
    <3>2. /\ worker' \in [Sources -> WorkerStates] /\ \A t \in Sources \ {s} : worker'[t] = worker[t]
          /\ worker'[s] = to
      BY <3>1, WorkerMoves
    <3>3. worker'[s].step # "off" /\ worker'[s].step # "emit"
      BY <3>1, <3>2
    <3>4. worker[s].step # "off"
      BY <2>4 DEF WorkerEmits, WorkerStops
    <3>5. QED
      BY <1>3, <2>1, <3>2, <3>3, <3>4
  <2>5. QED
    BY <1>4, <2>2, <2>3, <2>4 DEF Worker
<1>5. CASE TakeLine \/ TakeFileEvent
  <2>1. PICK s \in Sources, to \in WorkerStates : Goes(s, to) /\ worker[s].step = "select" /\ to.step = "push"
    BY <1>5, TakesStep
  <2>2. /\ worker' \in [Sources -> WorkerStates] /\ \A t \in Sources \ {s} : worker'[t] = worker[t]
        /\ worker'[s] = to
    BY <2>1, WorkerMoves
  <2>3. UNCHANGED <<emitBatches, phase>>
    BY <1>5 DEF TakeLine, TakeFileEvent, flags
  <2>4. worker[s].step # "off" /\ worker'[s].step # "off" /\ worker'[s].step # "emit"
    BY <2>1, <2>2
  <2>5. QED
    BY <1>3, <2>2, <2>3, <2>4
<1>6. CASE Tick \/ TickerStops \/ Consume \/ ConsumerDrains \/ ConsumerEnds \/ SkipLine \/ Replay \/ Signal
  <2>1. UNCHANGED <<worker, emitBatches, phase>>
    BY <1>6 DEF Tick, TickerStops, Consume, ConsumerDrains, ConsumerEnds, Consumer, SkipLine, Replay, Signal, workerVars, flags
  <2>2. QED
    BY <1>2, <2>1
<1>7. CASE ReadLine \/ SendLine \/ TailerEnds \/ TailerFails
  <2>1. UNCHANGED <<worker, emitBatches, phase>>
    BY <1>7 DEF ReadLine, SendLine, TailerEnds, TailerFails, Tailing, workerVars, flags
  <2>2. QED
    BY <1>2, <2>1
<1>8. CASE WaitTailers \/ Cancel \/ WaitSignal \/ WaitServices
  <2>1. UNCHANGED <<worker, emitBatches>> /\ phase' # "replay"
    BY <1>8 DEF WaitTailers, Cancel, WaitSignal, WaitServices, Running, workerVars, flags
  <2>2. QED
    BY <1>2, <2>1
<1>9. CASE StartServices
  <2>1. worker' = [s \in Sources |-> At("select")] /\ phase' # "replay"
    BY <1>9 DEF StartServices
  <2>2. worker' \in [Sources -> WorkerStates] /\ \A s \in Sources : worker'[s].step = "select"
    BY <2>1, StatesOfWorkers DEF At
  <2>3. QED
    BY <2>1, <2>2 DEF WorkerInv
<1>10. CASE Start \/ Crash
  <2>1. worker' = [s \in Sources |-> At("off")]
    BY <1>10 DEF Start, Crash, Fresh
  <2>2. worker' \in [Sources -> WorkerStates] /\ \A s \in Sources : worker'[s] = At("off") /\ worker'[s].step = "off"
    BY <2>1, StatesOfWorkers DEF At
  <2>3. QED
    BY <2>2 DEF WorkerInv
<1>11. CASE UNCHANGED vars
  BY <1>2, <1>11 DEF vars, workerVars, flags
<1>12. QED
  BY <1>4, <1>5, <1>6, <1>7, <1>8, <1>9, <1>10, <1>11 DEF Next, Main

\* What Run has read and still to replay.
ReplayInv == replay \in Seq(Items) /\ (phase # "replay" => replay = <<>>)

\* The replay is over when its phase is.
LEMMA ReplayStep ==
  ASSUME TypeOK, Shape, [Next]_vars
  PROVE  ReplayInv'
<1>1. ReplayInv
  BY DEF TypeOK, Shape, ReplayInv, Items
<1>2. ASSUME UNCHANGED replay, phase' # "replay" => phase # "replay" \/ replay = <<>> PROVE ReplayInv'
  BY <1>1, <1>2 DEF ReplayInv
<1>3. CASE SkipLine \/ Replay
  <2>1. replay # <<>> /\ replay' = Tail(replay) /\ phase' = "replay" /\ replay \in Seq(Items)
    BY <1>1, <1>3 DEF SkipLine, Replay, Replaying, ReplayInv
  <2>2. QED
    BY <2>1, MembersOfTail DEF ReplayInv
<1>4. CASE Start
  <2>1. spool \in Seq(Items)
    BY DEF TypeOK, Items
  <2>2. \/ replay' = spool \/ replay' = <<>>
        \/ \E i, j \in 0..Len(spool) : replay' = SubSeq(spool, 1, i) \o SubSeq(spool, j + 1, Len(spool))
    BY <1>4 DEF Start
  <2>3. replay' \in Seq(Items)
    BY <2>1, <2>2, GapCut, EmptySeq
  <2>4. QED
    BY <1>4, <2>3 DEF Start, ReplayInv
<1>5. CASE Crash
  BY <1>5, EmptySeq DEF Crash, ReplayInv
<1>6. ASSUME NEW s \in Sources, Worker(s) PROVE ReplayInv'
  <2>1. UNCHANGED <<replay, phase>>
    BY <1>6 DEF Worker, WorkerPushes, WorkerAdds, WorkerEmits, WorkerStops
  <2>2. QED
    BY <1>2, <2>1
<1>7. CASE Tick \/ TickerStops \/ TakeLine \/ TakeFileEvent \/ Consume \/ ConsumerDrains \/ ConsumerEnds \/ Signal
  BY <1>2, <1>7 DEF Tick, TickerStops, TakeLine, TakeFileEvent, Consume, ConsumerDrains, ConsumerEnds, Consumer, Signal
<1>8. CASE ReadLine \/ SendLine \/ TailerEnds \/ TailerFails
  BY <1>2, <1>8 DEF ReadLine, SendLine, TailerEnds, TailerFails, Tailing
<1>9. CASE StartServices \/ WaitTailers \/ Cancel \/ WaitSignal \/ WaitServices
  BY <1>2, <1>9 DEF StartServices, WaitTailers, Cancel, WaitSignal, WaitServices, Running
<1>10. CASE UNCHANGED vars
  BY <1>2, <1>10 DEF vars
<1>11. QED
  BY <1>3, <1>4, <1>5, <1>6, <1>7, <1>8, <1>9, <1>10 DEF Next, Main

\* An event is on its way from its Push to its Add, whichever goroutine's steps
\* come in between.
LEMMA OnTheWayStep ==
  ASSUME DaemonInv, [Next]_vars
  PROVE  \/ Start \/ Crash
         \/ UNCHANGED <<spoolVars, added>> /\ OnTheWay' = OnTheWay
         \/ \E e \in Events : Push(e) /\ UNCHANGED added /\ OnTheWay' = OnTheWay \union {e}
         \/ \E e \in OnTheWay :
              /\ UNCHANGED spoolVars /\ added' = Append(added, e)
              /\ OnTheWay \subseteq OnTheWay' \union {e} /\ OnTheWay' \subseteq OnTheWay
         \/ Replay
<1>1. TypeOK /\ Shape
  BY DEF DaemonInv
<1>2. ASSUME NEW s \in Sources, Worker(s)
      PROVE  \/ UNCHANGED <<spoolVars, added>> /\ OnTheWay' = OnTheWay
             \/ \E e \in Events : Push(e) /\ UNCHANGED added /\ OnTheWay' = OnTheWay \union {e}
             \/ \E e \in OnTheWay :
                  /\ UNCHANGED spoolVars /\ added' = Append(added, e)
                  /\ OnTheWay \subseteq OnTheWay' \union {e} /\ OnTheWay' \subseteq OnTheWay
  <2>1. CASE WorkerPushes(s)
    <3>1. worker[s].event \in Events /\ Push(worker[s].event) /\ OnTheWay' = OnTheWay \union {worker[s].event}
      BY <1>1, <2>1, PushesStep
    <3>2. UNCHANGED added
      BY <2>1 DEF WorkerPushes, batcherVars
    <3>3. QED
      BY <3>1, <3>2
  <2>2. CASE WorkerAdds(s)
    <3>1. /\ Add(worker[s].event) /\ worker[s].event \in OnTheWay
          /\ OnTheWay \subseteq OnTheWay' \union {worker[s].event} /\ OnTheWay' \subseteq OnTheWay
      BY <1>1, <2>2, AddsStep
    <3>2. UNCHANGED spoolVars
      BY <2>2 DEF WorkerAdds
    <3>3. PICK e \in OnTheWay : Add(e) /\ OnTheWay \subseteq OnTheWay' \union {e} /\ OnTheWay' \subseteq OnTheWay
      BY <3>1
    <3>4. added' = Append(added, e)
      BY <3>3 DEF Add
    <3>5. QED
      BY <3>2, <3>3, <3>4
  <2>3. CASE WorkerEmits(s) \/ WorkerStops(s)
    <3>1. PICK to \in WorkerStates : Goes(s, to) /\ worker[s].step # "add" /\ to.step \in {"select", "done"}
      BY <1>1, <2>3, OtherMoves
    <3>2. OnTheWay' = OnTheWay
      BY <1>1, <3>1, OthersStep
    <3>3. UNCHANGED <<spoolVars, added>>
      BY <2>3 DEF WorkerEmits, WorkerStops, batcherVars
    <3>4. QED
      BY <3>2, <3>3
  <2>4. QED
    BY <1>2, <2>1, <2>2, <2>3 DEF Worker
<1>3. CASE TakeLine \/ TakeFileEvent
  <2>1. PICK s \in Sources, to \in WorkerStates : Goes(s, to) /\ worker[s].step = "select" /\ to.step = "push"
    BY <1>1, <1>3, TakesStep
  <2>2. OnTheWay' = OnTheWay
    BY <1>1, <2>1, OthersStep
  <2>3. UNCHANGED <<spoolVars, added>>
    BY <1>3 DEF TakeLine, TakeFileEvent, batcherVars
  <2>4. QED
    BY <2>2, <2>3
<1>4. CASE StartServices
  <2>1. worker' = [s \in Sources |-> At("select")] /\ UNCHANGED <<spoolVars, added>>
    BY <1>4 DEF StartServices, batcherVars
  <2>2. \A s \in Sources : worker[s].step = "off" /\ worker'[s].step = "select"
    BY <1>1, <1>4, <2>1 DEF StartServices, Shape, At
  <2>3. OnTheWay = {} /\ OnTheWay' = {}
    BY <2>2 DEF OnTheWay
  <2>4. QED
    BY <2>1, <2>3
<1>5. ASSUME UNCHANGED <<spoolVars, added, worker>> PROVE UNCHANGED <<spoolVars, added>> /\ OnTheWay' = OnTheWay
  BY <1>5 DEF OnTheWay
<1>6. CASE Tick \/ TickerStops \/ SkipLine \/ Consume \/ ConsumerDrains \/ ConsumerEnds \/ Signal
  BY <1>5, <1>6 DEF Tick, TickerStops, Flush, SkipLine, Consume, ConsumerDrains, ConsumerEnds, Consumer, Signal, workerVars, batcherVars
<1>7. CASE ReadLine \/ SendLine \/ TailerEnds \/ TailerFails
  BY <1>5, <1>7 DEF ReadLine, SendLine, TailerEnds, TailerFails, Tailing, workerVars, batcherVars
<1>8. CASE WaitTailers \/ Cancel \/ WaitSignal \/ WaitServices
  BY <1>5, <1>8 DEF WaitTailers, Cancel, WaitSignal, WaitServices, Running, Flush, workerVars, batcherVars
<1>9. CASE UNCHANGED vars
  BY <1>5, <1>9 DEF vars, workerVars, batcherVars
<1>10. QED
  BY <1>2, <1>3, <1>4, <1>6, <1>7, <1>8, <1>9 DEF Next, Main

\* What a line that is replayed, or skipped, leaves of the rest.
LEMMA LineRead ==
  ASSUME NEW q \in Seq(Items), q # <<>>
  PROVE  \A e \in Legible(q) : e \in Legible(Tail(q)) \/ (Parses(Head(q)) /\ e = Head(q).event)
<1>1. Range(q) \subseteq Range(Tail(q)) \union {Head(q)}
  BY MembersOfTail
<1>2. QED
  BY <1>1, LegibleOf

\* What Replay does to the disk and to the additions.
LEMMA ReplayMoves ==
  ASSUME DaemonInv, Replay
  PROVE  \E e \in Events :
           /\ Push(e) /\ added' = Append(added, e) /\ Range(added') = Range(added) \union {e}
           /\ Legible(replay) \subseteq {e} \union Legible(replay')
           /\ OnTheWay' = OnTheWay
<1>1. replay \in Seq(Items) /\ replay # <<>> /\ added \in Seq(Events)
  BY DEF DaemonInv, TypeOK, Replay, Replaying, Items
<1>2. PICK e \in Legible(replay) : Replaying(e) /\ Add(e)
  BY DEF Replay
<1>3. e \in Events
  BY <1>1, LegibleEvents
<1>4. Push(e) /\ e = Head(replay).event /\ replay' = Tail(replay) /\ worker' = worker /\ added' = Append(added, e)
  BY <1>2 DEF Replay, Replaying, Add, workerVars
<1>5. Range(added') = Range(added) \union {e}
  BY <1>1, <1>3, <1>4, MembersOfAppend
<1>6. Legible(replay) \subseteq {e} \union Legible(replay')
  BY <1>1, <1>4, LineRead
<1>7. OnTheWay' = OnTheWay
  BY <1>4 DEF OnTheWay
<1>8. QED
  BY <1>3, <1>4, <1>5, <1>6, <1>7

\* A process that has just been started has nothing on its way.
LEMMA FreshStart ==
  ASSUME Fresh
  PROVE  Range(added') = {} /\ OnTheWay' = {}
<1>1. added' = <<>> /\ worker' = [s \in Sources |-> At("off")]
  BY DEF Fresh
<1>2. \A s \in Sources : worker'[s].step = "off"
  BY <1>1 DEF At
<1>3. OnTheWay' = {}
  BY <1>2 DEF OnTheWay
<1>4. QED
  BY <1>1, <1>3, MembersOfEmpty

\* What is added is a member of what has been added.
LEMMA AddedGrows ==
  ASSUME TypeOK, NEW e \in Events, added' = Append(added, e)
  PROVE  Range(added') = Range(added) \union {e}
<1>1. added \in Seq(Events)
  BY DEF TypeOK
<1>2. QED
  BY <1>1, MembersOfAppend

\* No step takes an event from memory that is on the disk, but one that ends the process.
LEMMA ReplayedStep ==
  ASSUME DaemonInv, [Next]_vars
  PROVE  Replayed'
<1>1. TypeOK /\ Shape /\ Replayed
  BY DEF DaemonInv
<1>2. CASE Start
  <2>1. unread' = Legible(spool) \ Legible(replay') /\ spool' = spool
    BY <1>2 DEF Start
  <2>2. QED
    BY <2>1 DEF Replayed
<1>3. CASE Crash \/ WaitServices
  BY <1>3 DEF Crash, WaitServices, Running, Up, Replayed
<1>4. CASE Replay
  <2>1. PICK e \in Events :
          /\ Push(e) /\ Range(added') = Range(added) \union {e}
          /\ Legible(replay) \subseteq {e} \union Legible(replay') /\ OnTheWay' = OnTheWay
    BY <1>4, ReplayMoves
  <2>2. Legible(spool') \subseteq Legible(spool) \union {e} /\ UNCHANGED unread
    BY <1>1, <2>1, PushStep
  <2>3. Up
    BY <1>4 DEF Replay, Replaying, Up
  <2>4. QED
    BY <1>1, <2>1, <2>2, <2>3 DEF Replayed
<1>5. CASE SkipLine
  <2>1. /\ replay \in Seq(Items) /\ replay # <<>> /\ ~Parses(Head(replay)) /\ replay' = Tail(replay)
        /\ UNCHANGED <<spoolVars, added, worker>> /\ Up
    BY <1>1, <1>5 DEF SkipLine, TypeOK, Items, Up, workerVars, batcherVars
  <2>2. Legible(replay) \subseteq Legible(replay')
    BY <2>1, LineRead
  <2>3. OnTheWay' = OnTheWay
    BY <2>1 DEF OnTheWay
  <2>4. QED
    BY <1>1, <2>1, <2>2, <2>3 DEF Replayed, spoolVars
<1>6. CASE ~Start /\ ~Crash /\ ~WaitServices /\ ~Replay /\ ~SkipLine
  <2>1. UNCHANGED replay /\ (Up' => Up)
    <3>1. ASSUME NEW s \in Sources, Worker(s) PROVE UNCHANGED <<replay, phase>>
      BY <3>1 DEF Worker, WorkerPushes, WorkerAdds, WorkerEmits, WorkerStops
    <3>2. CASE Tick \/ TickerStops \/ TakeLine \/ TakeFileEvent \/ Consume \/ ConsumerDrains \/ ConsumerEnds \/ Signal
      BY <3>2 DEF Tick, TickerStops, TakeLine, TakeFileEvent, Consume, ConsumerDrains, ConsumerEnds, Consumer, Signal, Up
    <3>3. CASE ReadLine \/ SendLine \/ TailerEnds \/ TailerFails
      BY <3>3 DEF ReadLine, SendLine, TailerEnds, TailerFails, Tailing, Up
    <3>4. CASE StartServices \/ WaitTailers \/ Cancel \/ WaitSignal
      BY <3>4 DEF StartServices, WaitTailers, Cancel, WaitSignal, Running, Up
    <3>5. CASE UNCHANGED vars
      BY <3>5 DEF vars, Up
    <3>6. QED
      BY <1>6, <3>1, <3>2, <3>3, <3>4, <3>5 DEF Next, Main, Up
  <2>2. \/ UNCHANGED <<spoolVars, added>> /\ OnTheWay' = OnTheWay
        \/ \E e \in Events : Push(e) /\ UNCHANGED added /\ OnTheWay' = OnTheWay \union {e}
        \/ \E e \in OnTheWay :
             /\ UNCHANGED spoolVars /\ added' = Append(added, e)
             /\ OnTheWay \subseteq OnTheWay' \union {e} /\ OnTheWay' \subseteq OnTheWay
    BY <1>6, OnTheWayStep
  <2>3. CASE UNCHANGED <<spoolVars, added>> /\ OnTheWay' = OnTheWay
    BY <1>1, <2>1, <2>3 DEF Replayed, spoolVars
  <2>4. ASSUME NEW e \in Events, Push(e), UNCHANGED added, OnTheWay' = OnTheWay \union {e} PROVE Replayed'
    <3>1. Legible(spool') \subseteq Legible(spool) \union {e} /\ UNCHANGED unread
      BY <1>1, <2>4, PushStep
    <3>2. QED
      BY <1>1, <2>1, <2>4, <3>1 DEF Replayed
  <2>5. ASSUME NEW e \in OnTheWay, UNCHANGED spoolVars, added' = Append(added, e),
               OnTheWay \subseteq OnTheWay' \union {e}
        PROVE  Replayed'
    <3>1. e \in Events
      BY DEF OnTheWay
    <3>2. Range(added') = Range(added) \union {e}
      BY <1>1, <2>5, <3>1, AddedGrows
    <3>3. spool' = spool /\ unread' = unread
      BY <2>5 DEF spoolVars
    <3>4. QED
      BY <1>1, <2>1, <2>5, <3>2, <3>3 DEF Replayed
  <2>6. QED
    BY <2>2, <2>3, <2>4, <2>5
<1>7. QED
  BY <1>2, <1>3, <1>4, <1>5, <1>6

\* As long as the spool is below its bound, what has been added stays there.
LEMMA SpooledStep ==
  ASSUME DaemonInv, Roomy, MemoryIsSpooled, [Next]_vars
  PROVE  MemoryIsSpooled'
<1>1. TypeOK
  BY DEF DaemonInv
<1>2. CASE Start \/ Crash
  <2>1. Range(added') = {} /\ OnTheWay' = {}
    BY <1>2, FreshStart DEF Start, Crash
  <2>2. QED
    BY <2>1 DEF MemoryIsSpooled
<1>3. CASE Replay
  <2>1. PICK e \in Events : Push(e) /\ Range(added') = Range(added) \union {e} /\ OnTheWay' = OnTheWay
    BY <1>3, ReplayMoves
  <2>2. /\ Legible(spool) \union Spoilt \union {e} \subseteq Legible(spool') \union Spoilt' \union unspooled'
        /\ unspooled \subseteq unspooled'
    BY <1>1, <2>1, PushStep
  <2>3. QED
    BY <2>1, <2>2 DEF MemoryIsSpooled
<1>4. CASE UNCHANGED <<spoolVars, added>> /\ OnTheWay' = OnTheWay
  BY <1>4 DEF MemoryIsSpooled, Spoilt, spoolVars
<1>5. ASSUME NEW e \in Events, Push(e), UNCHANGED added, OnTheWay' = OnTheWay \union {e} PROVE MemoryIsSpooled'
  <2>1. /\ Legible(spool) \union Spoilt \union {e} \subseteq Legible(spool') \union Spoilt' \union unspooled'
        /\ unspooled \subseteq unspooled'
    BY <1>1, <1>5, PushStep
  <2>2. QED
    BY <1>5, <2>1 DEF MemoryIsSpooled
<1>6. ASSUME NEW e \in OnTheWay, UNCHANGED spoolVars, added' = Append(added, e), OnTheWay' \subseteq OnTheWay
      PROVE  MemoryIsSpooled'
  <2>1. e \in Events
    BY DEF OnTheWay
  <2>2. Range(added') = Range(added) \union {e}
    BY <1>1, <1>6, <2>1, AddedGrows
  <2>3. QED
    BY <1>6, <2>2 DEF MemoryIsSpooled, Spoilt, spoolVars
<1>7. QED
  BY <1>2, <1>3, <1>4, <1>5, <1>6, OnTheWayStep

----------------------------------------------------------------------------
(* The theorems.                                                           *)

\* The invariant holds at first.
LEMMA DaemonInit == Init => DaemonInv
<1> SUFFICES ASSUME Init PROVE DaemonInv
  OBVIOUS
<1>1. Range(<<>>) = {} /\ \A S : <<>> \in Seq(S) /\ Len(<<>>) = 0
  BY MembersOfEmpty, EmptySeq
<1>2. worker \in [Sources -> WorkerStates] /\ \A s \in Sources : worker[s] = At("off") /\ worker[s].step = "off"
  BY StatesOfWorkers DEF Init, At
<1>3. TypeOK
  <2>1. worker \in [Sources -> [step : {"off", "select", "done"}]
                                \union [step : {"push", "add", "emit"}, event : Events]]
    BY <1>2 DEF WorkerStates
  <2>2. spool \in Seq(Records \union {Fragment})
    BY DaemonAssumption DEF Init
  <2>3. Control
    <3>1. runs \in 0..MaxRuns
      BY DaemonAssumption DEF Init
    <3>2. QED
      BY <3>1 DEF Init, Control
  <2>4. TailerInv
    <3>1. lines = <<>> /\ sent = 0 /\ seen = 0 /\ tailer = "off"
      BY DEF Init
    <3>2. lines \in Seq(1..Lines) /\ Len(lines) = 0
      BY <1>1, <3>1
    <3>3. QED
      BY <3>1, <3>2, DaemonAssumption DEF TailerInv
  <2>5. Batcher
    <3>1. pending = <<>> /\ outChan = <<>> /\ added = <<>> /\ dropped = {} /\ output = <<>>
      BY DEF Init
    <3>2. Placed
      BY <1>1, <3>1 DEF Placed, InChannel
    <3>3. Len(pending) = 0 /\ Len(outChan) = 0 /\ pending \in Seq(Entries)
      BY <1>1, <3>1
    <3>4. outChan \in Seq(Seq(Entries)) /\ output \in Seq(Entries) /\ added \in Seq(Events)
      BY <1>1, <3>1
    <3>5. QED
      BY <3>1, <3>2, <3>3, <3>4, DaemonAssumption DEF Batcher
  <2>6. /\ replay \in Seq(Records \union {Fragment}) /\ unspooled \subseteq Events
        /\ opened \in BOOLEAN /\ unread \subseteq Events
    BY <1>1 DEF Init
  <2>7. QED
    BY <2>1, <2>2, <2>3, <2>4, <2>5, <2>6 DEF TypeOK, Control, TailerInv, Batcher
<1>4. Shape
  BY <1>2 DEF Init, Shape
<1>5. Placed
  BY <1>1 DEF Init, Placed, InChannel
<1>6. AddedOnce
  <2>1. Kept = <<>>
    BY EmptySeq, ConcatEmptySeq DEF Init, Kept, FlattenSeq
  <2>2. QED
    BY <2>1, SoundEmpty DEF Init, AddedOnce, Sound, Kept
<1>7. Replayed
  BY DEF Init, Replayed, Up
<1>8. QED
  BY <1>3, <1>4, <1>5, <1>6, <1>7 DEF DaemonInv

\* Every step keeps it.
LEMMA DaemonStep == DaemonInv /\ [Next]_vars => DaemonInv'
<1> SUFFICES ASSUME DaemonInv, [Next]_vars PROVE DaemonInv'
  OBVIOUS
<1>1. TypeOK /\ Shape
  BY DEF DaemonInv
<1>2. Batcher' /\ AddedOnce'
  BY BatcherStep
<1>3. Control'
  BY <1>1, ControlStep
<1>4. TailerInv' /\ WorkerInv' /\ ReplayInv'
  BY <1>1, TailerStep, WorkerStep, ReplayStep
<1>5. Replayed'
  BY ReplayedStep
<1>6. /\ spool' \in Seq(Items) /\ unspooled' \subseteq Events
      /\ opened' \in BOOLEAN /\ unread' \subseteq Events
  <2>1. CASE UNCHANGED spoolVars
    BY <1>1, <2>1 DEF spoolVars, TypeOK, Items
  <2>2. ASSUME NEW e \in Events, Push(e)
        PROVE  /\ spool' \in Seq(Items) /\ unspooled' \subseteq Events
               /\ opened' \in BOOLEAN /\ unread' \subseteq Events
    BY <1>1, <2>2, PushStep DEF TypeOK
  <2>3. CASE Start
    <3>1. UNCHANGED <<spool, unspooled>> /\ opened' \in BOOLEAN /\ unread' \subseteq Legible(spool)
      BY <2>3 DEF Start
    <3>2. QED
      BY <1>1, <3>1, LegibleEvents DEF TypeOK, Items
  <2>4. QED
    BY <2>1, <2>2, <2>3, SpoolStep
<1>7. TypeOK'
  BY <1>2, <1>3, <1>4, <1>6 DEF TypeOK, Batcher, Control, TailerInv, WorkerInv, WorkerStates, ReplayInv, Items
<1>8. Shape'
  BY <1>4 DEF Shape, TailerInv, WorkerInv, ReplayInv
<1>9. QED
  BY <1>2, <1>5, <1>7, <1>8 DEF DaemonInv, Batcher

\* The inductive invariant of the daemon.
THEOREM DaemonInvariant == Spec => []DaemonInv
BY DaemonInit, DaemonStep, PTL DEF Spec

\* Its variables keep their types, and its channels, its batches and its
\* counts their bounds.
THEOREM DaemonTypeCorrect == Spec => []TypeOK
<1>1. DaemonInv => TypeOK
  BY DEF DaemonInv
<1>2. QED
  BY <1>1, DaemonInvariant, PTL

\* With -batch, size, timer and shutdown flushes by any number of goroutines'
\* steps neither repeat, lose nor reorder what is added: whatever is not dropped
\* at a full channel is held or written out once, in its order.
THEOREM AddedAlwaysOnce == Spec => []AddedOnce
<1>1. DaemonInv => AddedOnce
  BY DEF DaemonInv
<1>2. QED
  BY <1>1, DaemonInvariant, PTL

\* Past the replay no event that is legible on the disk is left there only, but
\* those of files that this run could not read: whatever earlier runs left, and
\* whatever Pushes failed and left fragments.
THEOREM ReplayAlwaysWhole == Spec => []ReplayIsWhole
<1>1. DaemonInv => ReplayIsWhole
  <2> SUFFICES ASSUME DaemonInv, Up, phase # "replay"
               PROVE  Legible(spool) \subseteq Range(added) \union OnTheWay \union unread
    BY DEF ReplayIsWhole
  <2>1. Legible(replay) = {}
    BY MembersOfEmpty DEF DaemonInv, Shape, Legible
  <2>2. QED
    BY <2>1 DEF DaemonInv, Replayed
<1>2. QED
  BY <1>1, DaemonInvariant, PTL

\* As long as the spool does not come to its bound, what is past its Push stays
\* on the disk, for the next run to read; but what a failed Push has not written
\* or has spoilt, and what a run without a spool takes.
THEOREM MemoryAlwaysSpooled == Spec /\ []Roomy => []MemoryIsSpooled
<1>1. Init => MemoryIsSpooled
  <2>1. Init => Range(added) = {} /\ \A s \in Sources : worker[s].step = "off"
    BY MembersOfEmpty DEF Init, At
  <2>2. QED
    BY <2>1 DEF MemoryIsSpooled, OnTheWay
<1>2. DaemonInv /\ Roomy /\ MemoryIsSpooled /\ [Next]_vars => MemoryIsSpooled'
  BY SpooledStep
<1>3. QED
  BY <1>1, <1>2, DaemonInvariant, PTL DEF Spec

\* The daemon uses its spool as the queue that Spool.tla implements: every step
\* leaves it alone, puts one record into it or breaks a write, and no process
\* that starts or is killed takes anything from it.
THEOREM DaemonUsesQueue == Spec => [][Queue!Next]_spool
<1>1. ASSUME DaemonInv, [Next]_vars PROVE [Queue!Next]_spool
  <2>1. CASE Start \/ UNCHANGED spoolVars
    BY <2>1 DEF Start, spoolVars
  <2>2. ASSUME NEW e \in Events, Push(e) PROVE [Queue!Next]_spool
    <3>1. CASE Pushed(e)
      <4>1. PICK b \in Legibility : Queue!Put([event |-> e, legible |-> b])
        BY <3>1 DEF Pushed
      <4>2. [event |-> e, legible |-> b] \in Records
        BY DEF Legibility, Records
      <4>3. QED
        BY <4>1, <4>2 DEF Queue!Next
    <3>2. CASE UNCHANGED spool \/ Queue!Break
      BY <3>2 DEF Queue!Next
    <3>3. QED
      BY <2>2, <3>1, <3>2 DEF Push, PushFails
  <2>3. QED
    BY <1>1, <2>1, <2>2, SpoolStep
<1>2. QED
  BY <1>1, DaemonInvariant, PTL DEF Spec
=============================================================================
