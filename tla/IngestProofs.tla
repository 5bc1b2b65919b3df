---------------------------- MODULE IngestProofs ----------------------------
(***************************************************************************)
(* The walk of a request through Sentry, for any number of threads,        *)
(* identities, keys, requests and rules, with the detector and the rule    *)
(* engine that it walks through.                                           *)
(*                                                                         *)
(* First the evaluators of RuleEngine: whatever a rule's detection is and  *)
(* whatever events they are given, each match cites events that are what   *)
(* the rule describes (MatchesStand), and a later event takes none of them *)
(* away (EvaluateGrows).  Then the detector on its own: what it alerts on  *)
(* is what its rules describe (DetectorSound), all that a batch would find *)
(* (DetectorIncremental), once for each burst (DetectorBurstsApart,        *)
(* DetectorPrefixesApart) and all of it (DetectorMissesNothing).  Then the *)
(* detector as the walk uses it.                                           *)
(*                                                                         *)
(* The walk uses the vault only through the vault's operations, so what    *)
(* EvidenceVaultProofs proves of the vault holds of Sentry.  There the     *)
(* vault is seen without its incidents, and a call that records one as a   *)
(* call that fails: what an incident cites comes from the detector, and    *)
(* is the business of SoundInv.                                            *)
(***************************************************************************)
EXTENDS Ingest, SequenceTheorems, FiniteSetTheorems, NaturalsInduction, TLAPS

\* A set of numbers has a least one.
LEMMA LeastNumber ==
  ASSUME NEW S \in SUBSET Nat, S # {}
  PROVE  Min(S) \in S /\ \A y \in S : Min(S) <= y
<1> DEFINE R == {ss \in Nat \X Nat : ss[1] < ss[2]}
<1>1. IsWellFoundedOn(R, Nat)
  BY NatLessThanWellFounded, Zenon DEF OpToRel
<1>2. PICK x \in S : \A y \in S : <<y, x>> \notin R
  <2> HIDE DEF R
  <2> QED BY <1>1, WFMin
<1>3. ASSUME NEW y \in S PROVE x <= y
  <2>1. <<y, x>> \in Nat \X Nat /\ <<y, x>>[1] = y /\ <<y, x>>[2] = x
    OBVIOUS
  <2>2. ~(y < x)
    BY <1>2, <2>1
  <2>3. QED
    BY <2>2
<1>4. \E z \in S : \A y \in S : z =< y
  BY <1>3
<1>5. QED
  BY <1>4 DEF Min

\* Induction for a set of numbers.
LEMMA AllNumbers ==
  ASSUME NEW S \in SUBSET Nat, 0 \in S, \A n \in S : n + 1 \in S
  PROVE  S = Nat
<1>1. CASE Nat \ S # {}
  <2>1. PICK x \in Nat \ S : \A y \in Nat \ S : x <= y
    BY <1>1, LeastNumber
  <2>2. x - 1 \in Nat /\ ~(x <= x - 1)
    BY <2>1
  <2>3. x - 1 \in S
    BY <2>1, <2>2
  <2>4. x - 1 + 1 = x
    BY <2>1
  <2>5. QED
    BY <2>1, <2>3, <2>4
<1>2. QED
  BY <1>1

\* A walk of n steps from s: the folds over a window's events.
Walk(f, n, s, step) == f = [i \in 0..n |-> IF i = 0 THEN s ELSE step[<<f[i - 1], i>>]]

\* A walk over n items is a function: there is one, and it stays among the states.
LEMMA WalkExists ==
  ASSUME NEW X, NEW m \in Nat, NEW s \in X, NEW step \in [X \X (1..m) -> X]
  PROVE  \E f \in [0..m -> X] : Walk(f, m, s, step)
<1> DEFINE S == {n \in Nat : n <= m => \E f \in [0..n -> X] : Walk(f, n, s, step)}
<1>1. 0 \in S
  <2>1. [i \in 0..0 |-> s] \in [0..0 -> X] /\ Walk([i \in 0..0 |-> s], 0, s, step)
    BY DEF Walk
  <2>2. QED
    BY <2>1
<1>2. ASSUME NEW n \in S PROVE n + 1 \in S
  <2>1. SUFFICES ASSUME n + 1 <= m PROVE \E f \in [0..n + 1 -> X] : Walk(f, n + 1, s, step)
    OBVIOUS
  <2>2. PICK f \in [0..n -> X] : Walk(f, n, s, step)
    BY <2>1
  <2> DEFINE g == [i \in 0..n + 1 |-> IF i = n + 1 THEN step[<<f[n], n + 1>>] ELSE f[i]]
  <2>3. n \in Nat /\ n \in 0..n /\ n + 1 \in 1..m /\ f[n] \in X
    BY <2>1
  <2>4. g \in [0..n + 1 -> X]
    BY <2>3
  <2>5. \A i \in 0..n : f[i] = IF i = 0 THEN s ELSE step[<<f[i - 1], i>>]
    BY <2>2 DEF Walk
  <2>6. ASSUME NEW i \in 0..n + 1 PROVE g[i] = IF i = 0 THEN s ELSE step[<<g[i - 1], i>>]
    <3>1. CASE i = n + 1
      BY <2>3, <3>1
    <3>2. CASE i # n + 1
      <4>1. i \in 0..n /\ (i # 0 => i - 1 \in 0..n /\ i - 1 # n + 1)
        BY <2>3, <3>2
      <4>2. g[i] = f[i] /\ (i # 0 => g[i - 1] = f[i - 1])
        BY <4>1, <3>2
      <4>3. QED
        BY <2>5, <4>1, <4>2
    <3>3. QED
      BY <3>1, <3>2
  <2>7. Walk(g, n + 1, s, step)
    <3> HIDE DEF g
    <3> QED BY <2>4, <2>6 DEF Walk
  <2>8. QED
    BY <2>4, <2>7
<1>3. S = Nat
  <2>1. S \in SUBSET Nat
    OBVIOUS
  <2> HIDE DEF S
  <2>2. QED
    BY <1>1, <1>2, <2>1, AllNumbers
<1>4. QED
  BY <1>3

\* What every step hands on holds at every step.
LEMMA StepsKeep ==
  ASSUME NEW m \in Nat, NEW f, NEW Good, f[0] \in Good[0],
         \A i \in 1..m : f[i - 1] \in Good[i - 1] => f[i] \in Good[i]
  PROVE  \A i \in 0..m : f[i] \in Good[i]
<1> DEFINE S == {n \in Nat : n <= m => f[n] \in Good[n]}
<1>1. 0 \in S
  OBVIOUS
<1>2. ASSUME NEW n \in S PROVE n + 1 \in S
  <2>1. n \in Nat /\ (n <= m => f[n] \in Good[n])
    OBVIOUS
  <2>2. SUFFICES ASSUME n + 1 <= m PROVE f[n + 1] \in Good[n + 1]
    BY <2>1
  <2>3. n + 1 \in 1..m /\ n + 1 - 1 = n /\ n <= m
    BY <2>1, <2>2
  <2>4. QED
    BY <2>1, <2>3
<1>3. S = Nat
  <2>1. S \in SUBSET Nat
    OBVIOUS
  <2> HIDE DEF S
  <2>2. QED
    BY <1>1, <1>2, <2>1, AllNumbers
<1>4. QED
  BY <1>3

----------------------------------------------------------------------------
(* Sorting.                                                                *)

\* Events that the sort tells apart, and that their ids tell apart.
EventSet(E) ==
  /\ IsFiniteSet(E)
  /\ \A e \in E : e.occurred_at \in Int /\ e.tie \in Int
  /\ \A e, f \in E : e.id = f.id \/ (e.occurred_at = f.occurred_at /\ e.tie = f.tie) => e = f

\* Fewer events are still told apart.
LEMMA EventSubset ==
  ASSUME NEW E, EventSet(E), NEW F \in SUBSET E
  PROVE  EventSet(F)
<1>1. IsFiniteSet(F)
  BY FS_Subset DEF EventSet
<1>2. QED
  BY <1>1 DEF EventSet

\* Before is a strict total order of them.
LEMMA BeforeOrders ==
  ASSUME NEW E, EventSet(E), NEW e \in E, NEW f \in E, NEW g \in E
  PROVE  /\ ~Before(e, e)
         /\ Before(e, f) => ~Before(f, e)
         /\ Before(e, f) /\ Before(f, g) => Before(e, g)
         /\ e # f => Before(e, f) \/ Before(f, e)
<1>1. /\ e.occurred_at \in Int /\ e.tie \in Int /\ f.occurred_at \in Int /\ f.tie \in Int
      /\ g.occurred_at \in Int /\ g.tie \in Int
      /\ (e.occurred_at = f.occurred_at /\ e.tie = f.tie => e = f)
  BY DEF EventSet
<1>2. QED
  BY <1>1 DEF Before

\* How many events come before one of them.
Rank(E, e) == Cardinality({f \in E : Before(f, e)})

\* A later event has more before it.
LEMMA RankGrows ==
  ASSUME NEW E, EventSet(E), NEW e \in E, NEW f \in E, Before(e, f)
  PROVE  Rank(E, e) < Rank(E, f)
<1> DEFINE A == {x \in E : Before(x, e)}
           B == {x \in E : Before(x, f)}
<1>1. A \subseteq B /\ e \in B /\ e \notin A
  BY BeforeOrders
<1>2. IsFiniteSet(B) /\ IsFiniteSet(A)
  BY FS_Subset DEF EventSet
<1>3. Cardinality(A) <= Cardinality(B) /\ Cardinality(A) # Cardinality(B)
  <2> HIDE DEF A, B
  <2> QED BY <1>1, <1>2, FS_Subset
<1>4. Cardinality(A) \in Nat /\ Cardinality(B) \in Nat
  BY <1>2, FS_CardinalityType
<1>5. QED
  <2>1. Rank(E, e) = Cardinality(A) /\ Rank(E, f) = Cardinality(B)
    BY DEF Rank
  <2> HIDE DEF A, B
  <2>2. QED
    BY <1>3, <1>4, <2>1

\* Ranks are a bijection from the events to 0 .. Cardinality(E) - 1.
LEMMA RankBijection ==
  ASSUME NEW E, EventSet(E)
  PROVE  [e \in E |-> Rank(E, e)] \in Bijection(E, 0..Cardinality(E) - 1)
<1> DEFINE r == [e \in E |-> Rank(E, e)]
           n == Cardinality(E)
<1>1. IsFiniteSet(E) /\ n \in Nat
  BY FS_CardinalityType DEF EventSet
<1>2. ASSUME NEW e \in E PROVE Rank(E, e) \in 0..n - 1
  <2> DEFINE A == {x \in E : Before(x, e)}
  <2>1. A \in SUBSET E /\ e \notin A
    BY BeforeOrders
  <2>2. IsFiniteSet(A) /\ Cardinality(A) <= n /\ (n = Cardinality(A) => E = A)
    <3> HIDE DEF A
    <3> QED BY <1>1, <2>1, FS_Subset
  <2>3. Cardinality(A) \in Nat /\ Cardinality(A) # n
    BY <2>1, <2>2, FS_CardinalityType
  <2>4. Rank(E, e) = Cardinality(A)
    BY DEF Rank
  <2> HIDE DEF A, n
  <2>5. QED
    BY <1>1, <2>2, <2>3, <2>4
<1>3. r \in [E -> 0..n - 1]
  BY <1>2
<1>4. ASSUME NEW e \in E, NEW f \in E, r[e] = r[f] PROVE e = f
  <2>1. ASSUME NEW x \in E, NEW y \in E, Before(x, y) PROVE r[x] # r[y]
    <3>1. Rank(E, x) < Rank(E, y) /\ Rank(E, x) \in Int /\ Rank(E, y) \in Int
      BY <1>2, <2>1, RankGrows
    <3>2. QED
      BY <3>1
  <2>2. QED
    BY <1>4, <2>1, BeforeOrders
<1>5. r \in Injection(E, 0..n - 1)
  <2> HIDE DEF r, n
  <2> QED BY <1>3, <1>4 DEF Injection, IsInjective
<1>6. IsFiniteSet(0..n - 1) /\ Cardinality(0..n - 1) = n
  <2> HIDE DEF n
  <2>1. 0 \in Int /\ n - 1 \in Int /\ (IF 0 > n - 1 THEN 0 ELSE n - 1 - 0 + 1) = n
    BY <1>1
  <2>2. QED
    BY <2>1, FS_Interval
<1>7. r \in Surjection(E, 0..n - 1)
  <2> HIDE DEF r
  <2> QED BY <1>5, <1>6, FS_Injection
<1>8. QED
  BY <1>5, <1>7 DEF Bijection

\* The sort returns the events, each before those after it.
LEMMA OrderedIsSorted ==
  ASSUME NEW E, EventSet(E)
  PROVE  /\ Cardinality(E) \in Nat
         /\ Ordered(E) \in [1..Cardinality(E) -> E]
         /\ \A i, j \in 1..Cardinality(E) :
              i < j => Before(Ordered(E)[i], Ordered(E)[j])
<1> DEFINE n == Cardinality(E)
           g == Ordered(E)
<1>1. n \in Nat
  BY FS_CardinalityType DEF EventSet
<1>2. ASSUME NEW i \in 1..n PROVE \E e \in E : Rank(E, e) = i - 1
  <2>1. [e \in E |-> Rank(E, e)] \in Surjection(E, 0..n - 1)
    BY RankBijection DEF Bijection
  <2>2. i - 1 \in 0..n - 1
    <3> HIDE DEF n
    <3> QED BY <1>1
  <2>3. PICK e \in E : [x \in E |-> Rank(E, x)][e] = i - 1
    BY <2>1, <2>2 DEF Surjection
  <2>4. QED
    BY <2>3
<1>3. \A e \in E : Cardinality({f \in E : Before(f, e)}) = Rank(E, e)
  BY DEF Rank
<1>4. g = [i \in 1..n |-> CHOOSE e \in E : Cardinality({f \in E : Before(f, e)}) = i - 1]
  BY DEF Ordered
<1>5. ASSUME NEW i \in 1..n PROVE g[i] \in E /\ Rank(E, g[i]) = i - 1
  <2>1. g[i] = CHOOSE e \in E : Cardinality({f \in E : Before(f, e)}) = i - 1
    <3> HIDE DEF g, n
    <3> QED BY <1>4
  <2>2. \E e \in E : Cardinality({f \in E : Before(f, e)}) = i - 1
    BY <1>2, <1>3
  <2>3. g[i] \in E /\ Cardinality({f \in E : Before(f, g[i])}) = i - 1
    <3> HIDE DEF g
    <3> QED BY <2>1, <2>2
  <2>4. QED
    BY <1>3, <2>3
<1>6. g \in [1..n -> E]
  <2> HIDE DEF g, n
  <2> QED BY <1>4, <1>5
<1>7. ASSUME NEW i \in 1..n, NEW j \in 1..n, i < j PROVE Before(g[i], g[j])
  <2>1. g[i] \in E /\ g[j] \in E /\ Rank(E, g[i]) < Rank(E, g[j])
    <3> HIDE DEF g, n
    <3> QED BY <1>1, <1>5, <1>7
  <2>2. g[i] # g[j] /\ ~Before(g[j], g[i])
    <3>1. Rank(E, g[i]) \in Int /\ Rank(E, g[j]) \in Int
      <4> HIDE DEF g, n
      <4> QED BY <1>1, <1>5
    <3>2. CASE Before(g[j], g[i])
      <4>1. Rank(E, g[j]) < Rank(E, g[i])
        BY <2>1, <3>2, RankGrows
      <4> HIDE DEF g, n
      <4>2. QED
        BY <2>1, <3>1, <4>1
    <3> HIDE DEF g, n
    <3>3. QED
      BY <2>1, <3>1, <3>2
  <2> HIDE DEF g, n
  <2>3. QED
    BY <2>1, <2>2, BeforeOrders
<1>8. QED
  BY <1>1, <1>6, <1>7

\* The earliest k of enough events are k.
LEMMA EarliestCounted ==
  ASSUME NEW E, EventSet(E), NEW k \in Nat, k <= Cardinality(E)
  PROVE  Earliest(E, k) \in SUBSET E /\ Cardinality(Earliest(E, k)) = k
<1> DEFINE n == Cardinality(E)
           r == [e \in E |-> Rank(E, e)]
           F == {e \in E : Rank(E, e) < k}
           q == [e \in F |-> Rank(E, e)]
<1>1. n \in Nat /\ IsFiniteSet(E) /\ k <= n
  BY FS_CardinalityType DEF EventSet
<1>2. r \in [E -> 0..n - 1] /\ (\A e, f \in E : r[e] = r[f] => e = f)
      /\ (\A i \in 0..n - 1 : \E e \in E : r[e] = i)
  <2>1. r \in Bijection(E, 0..n - 1)
    BY RankBijection
  <2> HIDE DEF r, n
  <2>2. QED
    BY <2>1 DEF Bijection, Injection, Surjection, IsInjective
<1>3. Earliest(E, k) = F
  BY DEF Earliest, Rank
<1>4. \A e \in E : r[e] = Rank(E, e)
  OBVIOUS
<1>5. \A e \in F : e \in E /\ Rank(E, e) < k /\ q[e] = Rank(E, e)
  OBVIOUS
<1>6. q \in [F -> 0..k - 1]
  <2>1. \A e \in F : Rank(E, e) \in 0..k - 1
    <3> HIDE DEF r, n, q, F
    <3> QED BY <1>1, <1>2, <1>4, <1>5
  <2>2. QED
    BY <2>1
<1>7. \A e, f \in F : q[e] = q[f] => e = f
  <2> HIDE DEF r, n, q, F
  <2> QED BY <1>2, <1>4, <1>5
<1>8. ASSUME NEW i \in 0..k - 1 PROVE \E e \in F : q[e] = i
  <2>1. i \in 0..n - 1 /\ i < k
    <3> HIDE DEF r, n, q, F
    <3> QED BY <1>1
  <2>2. PICK e \in E : r[e] = i
    <3> HIDE DEF r, n, q, F
    <3> QED BY <1>2, <2>1
  <2>3. Rank(E, e) = i
    BY <2>2
  <2>4. e \in F
    BY <2>1, <2>3
  <2>5. QED
    BY <2>3, <2>4
<1>9. q \in Bijection(F, 0..k - 1)
  <2> HIDE DEF q, F
  <2> QED BY <1>6, <1>7, <1>8 DEF Bijection, Injection, Surjection, IsInjective
<1>10. IsFiniteSet(F)
  BY <1>1, FS_Subset
<1>11. Cardinality(F) = k
  <2>1. Cardinality(0..k - 1) = k
    <3>1. 0 \in Int /\ k - 1 \in Int /\ (IF 0 > k - 1 THEN 0 ELSE k - 1 - 0 + 1) = k
      OBVIOUS
    <3>2. QED
      BY <3>1, FS_Interval
  <2>2. ExistsBijection(F, 0..k - 1)
    BY <1>9 DEF ExistsBijection
  <2> HIDE DEF F
  <2>3. QED
    BY <1>10, <2>1, <2>2, FS_Bijection
<1>12. QED
  BY <1>3, <1>11

----------------------------------------------------------------------------
(* What matches stand for.                                                 *)

\* A match cites events that are what the rule describes.
Stands(d, E, m) ==
  \E C \in SUBSET E : C # {} /\ m = {e.id : e \in C} /\ Means(d, C)

\* All that may be cited from E for the rule.
Standing(d, E) == {m \in SUBSET {e.id : e \in E} : Stands(d, E, m)}

\* What the rule describes may be cited.
LEMMA StandingFor ==
  ASSUME NEW d, NEW E, NEW C \in SUBSET E, C # {}, Means(d, C)
  PROVE  {e.id : e \in C} \in Standing(d, E)
BY DEF Stands, Standing

\* A single-event rule cites one event, which matches.
LEMMA SingleStands ==
  ASSUME NEW d, NEW E, d.type = "single"
  PROVE  EvaluateSingle(d, E) \subseteq Standing(d, E)
<1>1. SUFFICES ASSUME NEW e \in E, Satisfies(e, d.match) PROVE {e.id} \in Standing(d, E)
  BY DEF EvaluateSingle, Ids, Matching
<1>2. Cardinality({e}) = 1
  BY FS_Singleton
<1>3. Hits({e}, d.match) = {e}
  BY <1>1 DEF Hits
<1>4. Means(d, {e})
  BY <1>2, <1>3 DEF Means
<1>5. {x.id : x \in {e}} = {e.id}
  OBVIOUS
<1>6. QED
  BY <1>4, <1>5, StandingFor
----------------------------------------------------------------------------
(* Correlation rules.                                                      *)

\* What an arm cites of a window, when it has enough.
LEMMA ArmStands ==
  ASSUME NEW d, NEW arm, NEW E, EventSet(E), NEW start \in Int, d.within_seconds \in Nat,
         arm.min_count \in Nat \ {0}, NEW C, C = ArmCites(d, arm, E, start)
  PROVE  /\ C \in SUBSET E
         /\ \A e \in C : /\ Satisfies(e, arm.match)
                         /\ start <= e.occurred_at /\ e.occurred_at <= start + d.within_seconds
         /\ C # {} => IsFiniteSet(C) /\ Cardinality(C) = arm.min_count
<1> DEFINE W == InWindow(d, arm, E, start)
           n == arm.min_count
<1>1. /\ W \in SUBSET E
      /\ \A e \in W : /\ Satisfies(e, arm.match)
                      /\ start <= e.occurred_at /\ e.occurred_at <= start + d.within_seconds
  BY DEF InWindow, Matching
<1>2. EventSet(W)
  <2> HIDE DEF W
  <2> QED BY <1>1, EventSubset
<1>3. C = IF Cardinality(W) < n THEN {} ELSE Earliest(W, n)
  BY DEF ArmCites
<1>4. Cardinality(W) \in Nat /\ n \in Nat
  BY <1>2, FS_CardinalityType DEF EventSet
<1>5. CASE Cardinality(W) < n
  <2>1. C = {}
    BY <1>3, <1>5
  <2> HIDE DEF W
  <2>2. QED
    BY <2>1
<1>6. CASE ~(Cardinality(W) < n)
  <2>1. n <= Cardinality(W)
    BY <1>4, <1>6
  <2>2. C \in SUBSET W /\ Cardinality(C) = n
    <3> HIDE DEF W
    <3> QED BY <1>2, <1>3, <1>4, <1>6, <2>1, EarliestCounted
  <2>3. IsFiniteSet(C)
    <3> HIDE DEF W
    <3> QED BY <1>2, <2>2, FS_Subset DEF EventSet
  <2> HIDE DEF W
  <2>4. QED
    BY <1>1, <2>2, <2>3
<1>7. QED
  BY <1>5, <1>6

\* A window all of whose arms cite enough.
LEMMA WindowStands ==
  ASSUME NEW d, IsDetection(d), d.type = "correlation", NEW E, EventSet(E), NEW start \in Int,
         NEW cites, \A i \in 1..Len(d.arms) :
           cites[i] = ArmCites(d, d.arms[i], E, start) /\ cites[i] # {}
  PROVE  {e.id : e \in UNION {cites[i] : i \in 1..Len(d.arms)}} \in Standing(d, E)
<1> DEFINE C == UNION {cites[i] : i \in 1..Len(d.arms)}
<1>1. /\ Len(d.arms) \in Nat /\ 1 \in 1..Len(d.arms) /\ d.within_seconds \in Nat
      /\ \A i \in 1..Len(d.arms) : d.arms[i].min_count \in Nat \ {0}
  BY DEF IsDetection
<1>2. \A i \in 1..Len(d.arms) :
        /\ cites[i] \in SUBSET E
        /\ \A e \in cites[i] : /\ Satisfies(e, d.arms[i].match)
                               /\ start <= e.occurred_at /\ e.occurred_at <= start + d.within_seconds
        /\ Cardinality(cites[i]) = d.arms[i].min_count
  BY <1>1, ArmStands
<1>3. C \in SUBSET E /\ C # {}
  <2>1. C \in SUBSET E
    BY <1>2
  <2>2. cites[1] \subseteq C /\ cites[1] # {}
    BY <1>1
  <2>3. QED
    BY <2>1, <2>2
<1>4. Together(d, C)
  <2>1. ASSUME NEW e \in C, NEW f \in C PROVE f.occurred_at - e.occurred_at <= d.within_seconds
    <3>1. start <= e.occurred_at /\ f.occurred_at <= start + d.within_seconds
      BY <1>2
    <3>2. e.occurred_at \in Int /\ f.occurred_at \in Int
      BY <1>3 DEF EventSet
    <3>3. QED
      BY <1>1, <3>1, <3>2
  <2> HIDE DEF C
  <2>2. QED
    BY <2>1 DEF Together
<1>5. ASSUME NEW i \in 1..Len(d.arms)
      PROVE  Cardinality(Hits(C, d.arms[i].match)) >= d.arms[i].min_count
  <2> DEFINE H == Hits(C, d.arms[i].match)
  <2>1. cites[i] \in SUBSET H /\ H \in SUBSET E
    BY <1>2, <1>3 DEF Hits
  <2>2. IsFiniteSet(H)
    <3> HIDE DEF H
    <3> QED BY <2>1, FS_Subset DEF EventSet
  <2>3. Cardinality(cites[i]) <= Cardinality(H) /\ Cardinality(H) \in Nat
    <3> HIDE DEF H
    <3> QED BY <2>1, <2>2, FS_Subset, FS_CardinalityType
  <2>4. Cardinality(H) = Cardinality(H)
    OBVIOUS
  <2> HIDE DEF H, C
  <2>5. QED
    BY <1>1, <1>2, <2>3, <2>4 DEF H
<1>6. \A e \in C : \E i \in 1..Len(d.arms) : Satisfies(e, d.arms[i].match)
  BY <1>2
<1>7. Means(d, C)
  <2> HIDE DEF C
  <2> QED BY <1>4, <1>5, <1>6 DEF Means
<1>8. {e.id : e \in C} \in Standing(d, E)
  <2> HIDE DEF C
  <2> QED BY <1>3, <1>7, StandingFor
<1>9. QED
  BY <1>8

\* The events that match some arm.
Anchors(d, E) == {e \in E : \E i \in 1..Len(d.arms) : Satisfies(e, d.arms[i].match)}

\* What each arm would cite in the window that starts at each of them.
WindowCites(d, E) ==
  [a \in Anchors(d, E) |-> [i \in 1..Len(d.arms) |-> ArmCites(d, d.arms[i], E, a.occurred_at)]]

\* The recursion of EvaluateCorrelation.
TriedBy(f, d, E) ==
  f = [i \in 0..Cardinality(Anchors(d, E)) |->
         IF i = 0 THEN [covered_until |-> {}, matches |-> {}]
         ELSE Try(d, f[i - 1], Ordered(Anchors(d, E))[i],
                    WindowCites(d, E)[Ordered(Anchors(d, E))[i]])]

\* The evaluator takes the matches where that recursion ends.
LEMMA CorrelationIsTried ==
  ASSUME NEW d, NEW E
  PROVE  EvaluateCorrelation(d, E) =
           (CHOOSE f : TriedBy(f, d, E))[Cardinality(Anchors(d, E))].matches
BY DEF EvaluateCorrelation, TriedBy, Anchors, WindowCites

\* Where the walk may be: every match so far stands for what it cites.
TriedStates(d, E) == [covered_until : SUBSET Int, matches : SUBSET Standing(d, E)]

\* One more window adds nothing but what may be cited.
LEMMA TryStands ==
  ASSUME NEW d, IsDetection(d), d.type = "correlation", NEW E, EventSet(E),
         NEW a \in Anchors(d, E), NEW s \in TriedStates(d, E)
  PROVE  Try(d, s, a, WindowCites(d, E)[a]) \in TriedStates(d, E)
<1> DEFINE cites == WindowCites(d, E)[a]
<1>1. a \in E /\ a.occurred_at \in Int /\ d.within_seconds \in Nat
  BY DEF Anchors, EventSet, IsDetection
<1>2. cites = [i \in 1..Len(d.arms) |-> ArmCites(d, d.arms[i], E, a.occurred_at)]
  BY DEF WindowCites
<1>3. CASE Covered(s, a) \/ \E i \in 1..Len(d.arms) : cites[i] = {}
  BY <1>3 DEF Try
<1>4. CASE ~(Covered(s, a) \/ \E i \in 1..Len(d.arms) : cites[i] = {})
  <2> DEFINE m == {e.id : e \in UNION {cites[i] : i \in 1..Len(d.arms)}}
  <2>1. m \in Standing(d, E)
    <3>1. \A i \in 1..Len(d.arms) :
            cites[i] = ArmCites(d, d.arms[i], E, a.occurred_at) /\ cites[i] # {}
      BY <1>2, <1>4
    <3>2. a.occurred_at \in Int
      BY <1>1
    <3> HIDE DEF cites
    <3>3. {e.id : e \in UNION {cites[i] : i \in 1..Len(d.arms)}} \in Standing(d, E)
      BY <3>1, <3>2, WindowStands
    <3>4. QED
      BY <3>3
  <2>2. Try(d, s, a, cites) =
          [covered_until |-> {a.occurred_at + d.within_seconds}, matches |-> s.matches \union {m}]
    <3> HIDE DEF cites
    <3> QED BY <1>4 DEF Try, Ids
  <2>3. a.occurred_at + d.within_seconds \in Int
    BY <1>1
  <2> HIDE DEF m, cites
  <2>4. s.matches \in SUBSET Standing(d, E)
    BY DEF TriedStates
  <2>5. QED
    BY <2>1, <2>2, <2>3, <2>4 DEF TriedStates, cites
<1>5. QED
  BY <1>3, <1>4

\* The recursion has a solution.
LEMMA TriedExists ==
  ASSUME NEW d, IsDetection(d), d.type = "correlation", NEW E, EventSet(E)
  PROVE  \E f : TriedBy(f, d, E)
<1> DEFINE A == Anchors(d, E)
           n == Cardinality(A)
           X == TriedStates(d, E)
           start == [covered_until |-> {}, matches |-> {}]
           step == [p \in X \X (1..n) |->
                      Try(d, p[1], Ordered(A)[p[2]], WindowCites(d, E)[Ordered(A)[p[2]]])]
<1>1. A \in SUBSET E
  BY DEF Anchors
<1>2. n \in Nat /\ Ordered(A) \in [1..n -> A]
  BY <1>1, EventSubset, OrderedIsSorted
<1>3. start \in X
  BY DEF TriedStates
<1>4. step \in [X \X (1..n) -> X]
  <2>1. ASSUME NEW p \in X \X (1..n)
        PROVE  Try(d, p[1], Ordered(A)[p[2]], WindowCites(d, E)[Ordered(A)[p[2]]]) \in X
    <3>1. p[1] \in X /\ Ordered(A)[p[2]] \in A
      BY <1>2
    <3>2. QED
      BY <3>1, TryStands
  <2>2. QED
    BY <2>1
<1>5. PICK f \in [0..n -> X] : Walk(f, n, start, step)
  <2> HIDE DEF n, X, start, step
  <2> QED BY <1>2, <1>3, <1>4, WalkExists
<1>6. \A i \in 1..n : i - 1 \in 0..n
  BY <1>2
<1>7. ASSUME NEW i \in 1..n
      PROVE  step[<<f[i - 1], i>>] =
               Try(d, f[i - 1], Ordered(A)[i], WindowCites(d, E)[Ordered(A)[i]])
  <2>1. <<f[i - 1], i>> \in X \X (1..n)
    BY <1>5, <1>6
  <2>2. QED
    BY <2>1
<1>8. f = [i \in 0..n |-> IF i = 0 THEN start ELSE
             Try(d, f[i - 1], Ordered(A)[i], WindowCites(d, E)[Ordered(A)[i]])]
  <2>1. f = [i \in 0..n |-> IF i = 0 THEN start ELSE step[<<f[i - 1], i>>]]
    BY <1>5 DEF Walk
  <2>2. \A i \in 0..n : i # 0 => i \in 1..n
    BY <1>2
  <2> HIDE DEF A, n, X, step, start
  <2>3. \A i \in 0..n : f[i] = IF i = 0 THEN start ELSE
          Try(d, f[i - 1], Ordered(A)[i], WindowCites(d, E)[Ordered(A)[i]])
    BY <1>7, <2>1, <2>2
  <2>4. QED
    BY <1>5, <2>3
<1>9. Cardinality(A) = n
  OBVIOUS
<1>10. QED
  BY <1>8, <1>9 DEF TriedBy

\* Every match of a correlation rule has each arm often enough within the window.
LEMMA CorrelationStands ==
  ASSUME NEW d, IsDetection(d), d.type = "correlation", NEW E, EventSet(E)
  PROVE  EvaluateCorrelation(d, E) \subseteq Standing(d, E)
<1> DEFINE f == CHOOSE g : TriedBy(g, d, E)
           A == Anchors(d, E)
           n == Cardinality(A)
           X == TriedStates(d, E)
           Good == [i \in 0..n |-> X]
<1>1. TriedBy(f, d, E)
  BY TriedExists
<1>2. EvaluateCorrelation(d, E) = f[n].matches
  BY CorrelationIsTried
<1>3. n \in Nat /\ Ordered(A) \in [1..n -> A]
  <2>1. A \in SUBSET E
    BY DEF Anchors
  <2>2. QED
    BY <2>1, EventSubset, OrderedIsSorted
<1> HIDE DEF f
<1>4. \A i \in 0..n : f[i] = IF i = 0 THEN [covered_until |-> {}, matches |-> {}] ELSE
        Try(d, f[i - 1], Ordered(A)[i], WindowCites(d, E)[Ordered(A)[i]])
  BY <1>1 DEF TriedBy
<1>5. f[0] \in X
  BY <1>3, <1>4 DEF TriedStates
<1>6. ASSUME NEW i \in 1..n, f[i - 1] \in X PROVE f[i] \in X
  <2>1. i \in 0..n /\ i # 0 /\ Ordered(A)[i] \in A
    BY <1>3
  <2>2. f[i] = Try(d, f[i - 1], Ordered(A)[i], WindowCites(d, E)[Ordered(A)[i]])
    BY <1>4, <2>1
  <2>3. QED
    BY <1>6, <2>1, <2>2, TryStands
<1>7. \A i \in 0..n : f[i] \in X
  <2>1. \A i \in 0..n : Good[i] = X
    OBVIOUS
  <2>2. 0 \in 0..n /\ \A i \in 1..n : i \in 0..n /\ i - 1 \in 0..n
    BY <1>3
  <2> HIDE DEF Good, X, n
  <2>3. \A i \in 0..n : f[i] \in Good[i]
    BY <1>3, <1>5, <1>6, <2>1, <2>2, StepsKeep
  <2>4. QED
    BY <2>1, <2>3
<1>8. f[n].matches \subseteq Standing(d, E)
  BY <1>3, <1>7 DEF TriedStates
<1>9. QED
  BY <1>2, <1>8

----------------------------------------------------------------------------
(* Threshold rules.                                                        *)

\* From the i-th of n events the search goes on where the burst stops, or, when
\* that is fewer than k events away, at the next event.
Chain(f, n, k, stop, cite) ==
  f = [i \in 1..n + 1 |->
         IF i > n THEN {}
         ELSE IF stop[i] - i >= k THEN {cite[i]} \union f[stop[i]] ELSE f[i + 1]]

\* The chain has a solution: each value is determined by those above it.
LEMMA ChainExists ==
  ASSUME NEW n \in Nat, NEW k \in Nat \ {0}, NEW stop \in [1..n -> 1..n + 1], NEW cite
  PROVE  \E f : Chain(f, n, k, stop, cite)
<1> DEFINE Value(f, i) == IF i > n THEN {}
                          ELSE IF stop[i] - i >= k THEN {cite[i]} \union f[stop[i]] ELSE f[i + 1]
           From(f, j) == f = [i \in j..n + 1 |-> Value(f, i)]
           S == {m \in Nat : m <= n => \E f : From(f, n + 1 - m)}
<1>1. 0 \in S
  <2> DEFINE f == [i \in n + 1 - 0..n + 1 |-> {}]
  <2>1. \A i \in n + 1 - 0..n + 1 : i > n
    OBVIOUS
  <2>2. \A i \in n + 1 - 0..n + 1 : Value(f, i) = {}
    BY <2>1
  <2>3. From(f, n + 1 - 0)
    <3> HIDE DEF Value
    <3> QED BY <2>2
  <2> HIDE DEF From
  <2>4. QED
    BY <2>3
<1>2. ASSUME NEW m \in S PROVE m + 1 \in S
  <2>1. m \in Nat /\ (m <= n => \E f : From(f, n + 1 - m))
    OBVIOUS
  <2>2. SUFFICES ASSUME m + 1 <= n PROVE \E f : From(f, n + 1 - (m + 1))
    <3>1. m + 1 \in Nat
      BY <2>1
    <3> HIDE DEF From
    <3>2. QED
      BY <3>1
  <2>3. PICK f : From(f, n + 1 - m)
    BY <2>1, <2>2
  <2> DEFINE j == n + 1 - (m + 1)
             g == [i \in j..n + 1 |-> IF i = j THEN Value(f, j) ELSE f[i]]
  <2>4. j \in 1..n /\ j + 1 = n + 1 - m
    BY <2>1, <2>2
  <2>5. f = [i \in j + 1..n + 1 |-> Value(f, i)]
    <3> HIDE DEF Value, j
    <3> QED BY <2>3, <2>4
  <2> HIDE DEF j
  <2>6. ASSUME NEW i \in j..n + 1 PROVE Value(g, i) = Value(f, i)
    <3>1. CASE i > n
      BY <3>1
    <3>2. CASE ~(i > n) /\ stop[i] - i >= k
      <4>1. i \in 1..n /\ stop[i] \in 1..n + 1
        BY <2>4, <3>2
      <4>2. stop[i] \in j..n + 1 /\ stop[i] # j
        BY <2>4, <3>2, <4>1
      <4>3. g[stop[i]] = f[stop[i]]
        BY <4>2
      <4> HIDE DEF g
      <4>4. QED
        BY <3>2, <4>3
    <3>3. CASE ~(i > n) /\ ~(stop[i] - i >= k)
      <4>1. i + 1 \in j..n + 1 /\ i + 1 # j
        BY <2>4, <3>3
      <4>2. g[i + 1] = f[i + 1]
        BY <4>1
      <4> HIDE DEF g
      <4>3. QED
        BY <3>3, <4>2
    <3> HIDE DEF g
    <3>4. QED
      BY <3>1, <3>2, <3>3
  <2>7. ASSUME NEW i \in j..n + 1 PROVE g[i] = Value(g, i)
    <3>1. CASE i = j
      <4> HIDE DEF Value
      <4> QED BY <2>6, <3>1
    <3>2. CASE i # j
      <4>1. i \in j + 1..n + 1
        BY <2>4, <3>2
      <4>2. f[i] = Value(f, i)
        <5> HIDE DEF Value
        <5> QED BY <2>5, <4>1
      <4>3. g[i] = f[i]
        <5> HIDE DEF Value
        <5> QED BY <3>2
      <4> HIDE DEF Value, g
      <4>4. QED
        BY <2>6, <4>2, <4>3
    <3>3. QED
      BY <3>1, <3>2
  <2>8. From(g, j)
    <3>1. g = [i \in j..n + 1 |-> g[i]]
      <4> HIDE DEF Value
      <4> QED OBVIOUS
    <3> HIDE DEF g, Value
    <3>2. QED
      BY <2>7, <3>1
  <2> HIDE DEF From, g
  <2>9. QED
    BY <2>8 DEF j
<1>3. S = Nat
  <2>1. S \in SUBSET Nat
    OBVIOUS
  <2> HIDE DEF S
  <2>2. QED
    BY <1>1, <1>2, <2>1, AllNumbers
<1>4. PICK f : From(f, n + 1 - n)
  <2> HIDE DEF From
  <2>1. n \in S
    BY <1>3
  <2>2. QED
    BY <2>1
<1>5. n + 1 - n = 1
  OBVIOUS
<1>6. Chain(f, n, k, stop, cite)
  BY <1>4, <1>5 DEF Chain
<1>7. QED
  BY <1>6

\* What the chain collects is what may be cited.
LEMMA ChainStands ==
  ASSUME NEW n \in Nat, NEW k \in Nat \ {0}, NEW stop \in [1..n -> 1..n + 1], NEW cite, NEW M,
         NEW f, Chain(f, n, k, stop, cite), \A i \in 1..n : stop[i] - i >= k => cite[i] \in M
  PROVE  f[1] \subseteq M
<1> DEFINE S == {m \in Nat : \A i \in 1..n + 1 : i + m >= n + 1 => f[i] \subseteq M}
<1>1. \A i \in 1..n + 1 :
        f[i] = IF i > n THEN {}
               ELSE IF stop[i] - i >= k THEN {cite[i]} \union f[stop[i]] ELSE f[i + 1]
  BY DEF Chain
<1>2. 0 \in S
  <2>1. ASSUME NEW i \in 1..n + 1, i + 0 >= n + 1 PROVE f[i] \subseteq M
    <3>1. i > n
      BY <2>1
    <3>2. f[i] = {}
      BY <1>1, <3>1
    <3>3. QED
      BY <3>2
  <2>2. QED
    BY <2>1
<1>3. ASSUME NEW m \in S PROVE m + 1 \in S
  <2>1. m \in Nat /\ \A i \in 1..n + 1 : i + m >= n + 1 => f[i] \subseteq M
    OBVIOUS
  <2>2. ASSUME NEW i \in 1..n + 1, i + (m + 1) >= n + 1 PROVE f[i] \subseteq M
    <3>1. CASE i > n
      <4>1. f[i] = {}
        BY <1>1, <3>1
      <4>2. QED
        BY <4>1
    <3>2. CASE ~(i > n) /\ stop[i] - i >= k
      <4>1. i \in 1..n
        BY <3>2
      <4>2. stop[i] \in 1..n + 1
        BY <4>1
      <4>3. stop[i] + m >= n + 1
        BY <2>1, <2>2, <3>2, <4>2
      <4>4. f[stop[i]] \subseteq M /\ cite[i] \in M
        BY <2>1, <3>2, <4>1, <4>2, <4>3
      <4>5. f[i] = {cite[i]} \union f[stop[i]]
        BY <1>1, <3>2
      <4>6. QED
        BY <4>4, <4>5
    <3>3. CASE ~(i > n) /\ ~(stop[i] - i >= k)
      <4>1. i + 1 \in 1..n + 1 /\ i + 1 + m >= n + 1
        BY <2>1, <2>2, <3>3
      <4>2. f[i] = f[i + 1]
        BY <1>1, <3>3
      <4>3. QED
        BY <2>1, <4>1, <4>2
    <3>4. QED
      BY <3>1, <3>2, <3>3
  <2>3. \A i \in 1..n + 1 : i + (m + 1) >= n + 1 => f[i] \subseteq M
    BY <2>2
  <2>4. m + 1 \in Nat
    BY <2>1
  <2>5. QED
    BY <2>3, <2>4
<1>4. S = Nat
  <2>1. S \in SUBSET Nat
    OBVIOUS
  <2> HIDE DEF S
  <2>2. QED
    BY <1>2, <1>3, <2>1, AllNumbers
<1>5. n \in S
  BY <1>4
<1>6. 1 \in 1..n + 1 /\ 1 + n >= n + 1
  OBVIOUS
<1>7. QED
  BY <1>5, <1>6

\* A group is some of the events, all of one source.
LEMMA GroupOfEvents ==
  ASSUME NEW E, NEW G \in Groups(E)
  PROVE  G \in SUBSET E /\ \A e, f \in G : e.source = f.source
BY DEF Groups

\* Events that agree on their source have one.
LEMMA OneSourceOf ==
  ASSUME NEW C, C # {}, \A e, f \in C : e.source = f.source
  PROVE  OneSource(C)
<1>1. PICK c \in C : TRUE
  OBVIOUS
<1>2. {e.source : e \in C} = {c.source}
  OBVIOUS
<1>3. Cardinality({e.source : e \in C}) = 1
  BY <1>2, FS_Singleton
<1>4. QED
  BY <1>3 DEF OneSource

\* A burst's window ends behind its start, and what is before its end is in it.
LEMMA BurstEndIs ==
  ASSUME NEW d, NEW g, NEW n \in Nat, Len(g) = n, NEW i \in 1..n
  PROVE  /\ BurstEnd(d, g, i) \in i..n + 1
         /\ \A j \in i..n : j < BurstEnd(d, g, i) =>
              ~(g[j].occurred_at - g[i].occurred_at > d.within_seconds)
<1> DEFINE S == {j \in i..n + 1 : \/ j > n
                                   \/ g[j].occurred_at - g[i].occurred_at > d.within_seconds}
           b == BurstEnd(d, g, i)
<1>1. b = Min(S)
  BY DEF BurstEnd
<1>2. S \in SUBSET Nat /\ n + 1 \in S
  OBVIOUS
<1>3. b \in S /\ \A y \in S : b <= y
  <2> HIDE DEF S, b
  <2> QED BY <1>1, <1>2, LeastNumber
<1>4. ASSUME NEW j \in i..n, j < b, g[j].occurred_at - g[i].occurred_at > d.within_seconds
      PROVE  FALSE
  <2>1. j \in S
    BY <1>4
  <2>2. b \in Int /\ j \in Int /\ b <= j
    <3> HIDE DEF b
    <3> QED BY <1>2, <1>3, <2>1
  <2> HIDE DEF S, b
  <2>3. QED
    BY <1>4, <2>2
<1>5. b \in i..n + 1
  <2> HIDE DEF b
  <2> QED BY <1>3
<1>6. QED
  <2> HIDE DEF S
  <2> QED BY <1>4, <1>5

\* Sorting keeps the number of events.
LEMMA LengthOfOrdered ==
  ASSUME NEW E, EventSet(E)
  PROVE  Len(Ordered(E)) = Cardinality(E)
<1>1. Cardinality(E) \in Nat /\ Ordered(E) \in [1..Cardinality(E) -> E]
  BY OrderedIsSorted
<1>2. Ordered(E) \in Seq(E)
  BY <1>1, SeqDef
<1>3. DOMAIN Ordered(E) = 1..Cardinality(E)
  BY <1>1
<1>4. QED
  BY <1>1, <1>2, <1>3, LenProperties

\* The first min_count events of a burst.
BurstCites(d, g, i) == {g[k] : k \in i..i + d.min_count - 1}

\* What a burst cites may be cited: min_count events of one source, all in the window.
LEMMA BurstStands ==
  ASSUME NEW d, IsDetection(d), d.type = "threshold", NEW E, EventSet(E),
         NEW G \in Groups(Matching(E, d.match)), NEW i \in 1..Cardinality(G),
         BurstEnd(d, Ordered(G), i) - i >= d.min_count
  PROVE  {e.id : e \in BurstCites(d, Ordered(G), i)} \in Standing(d, E)
<1> DEFINE g == Ordered(G)
           n == Cardinality(G)
           m == d.min_count
           b == BurstEnd(d, g, i)
           C == BurstCites(d, g, i)
<1>1. m \in Nat \ {0, 1} /\ d.within_seconds \in Nat
  BY DEF IsDetection
<1>2. /\ G \in SUBSET E /\ \A e \in G : Satisfies(e, d.match)
      /\ \A e, f \in G : e.source = f.source
  BY GroupOfEvents DEF Matching
<1>3. EventSet(G)
  BY <1>2, EventSubset
<1>4. /\ n \in Nat /\ g \in [1..n -> G] /\ Len(g) = n
      /\ \A j, k \in 1..n : j < k => Before(g[j], g[k])
  BY <1>3, OrderedIsSorted, LengthOfOrdered
<1> HIDE DEF g, n
<1>5. b \in i..n + 1 /\ \A j \in i..n : j < b =>
        ~(g[j].occurred_at - g[i].occurred_at > d.within_seconds)
  BY <1>4, BurstEndIs DEF n
<1>6. i \in 1..n /\ b - i >= m
  BY DEF n, g
<1> HIDE DEF b, m
<1>7. \A k \in i..i + m - 1 : k \in 1..n /\ k \in i..n /\ k < b
  BY <1>1, <1>4, <1>5, <1>6
<1>8. C \in SUBSET G /\ C # {}
  <2>1. i \in i..i + m - 1
    BY <1>1, <1>6
  <2>2. QED
    BY <1>4, <1>7, <2>1 DEF BurstCites, m
<1>9. \A e \in G : e.occurred_at \in Int /\ e.tie \in Int
  BY <1>3 DEF EventSet
<1>10. ASSUME NEW e \in C
       PROVE  g[i].occurred_at <= e.occurred_at /\ e.occurred_at <= g[i].occurred_at + d.within_seconds
  <2>1. PICK k \in i..i + m - 1 : e = g[k]
    BY DEF BurstCites, m
  <2>2. k \in 1..n /\ k \in i..n /\ k < b /\ k \in Int /\ i \in Int
    BY <1>6, <1>7
  <2>3. g[i] \in G /\ g[k] \in G
    BY <1>4, <1>6, <2>2
  <2>4. ~(g[k].occurred_at - g[i].occurred_at > d.within_seconds)
    BY <1>5, <2>2
  <2>5. g[i].occurred_at \in Int /\ g[k].occurred_at \in Int
    BY <1>9, <2>3
  <2>6. g[i].occurred_at <= g[k].occurred_at
    <3>1. CASE i = k
      BY <2>5, <3>1
    <3>2. CASE i < k
      <4>1. Before(g[i], g[k])
        BY <1>4, <1>6, <2>2, <3>2
      <4>2. QED
        BY <2>5, <4>1 DEF Before
    <3>3. QED
      BY <2>2, <3>1, <3>2
  <2>7. QED
    BY <1>1, <2>1, <2>4, <2>5, <2>6
<1>11. Together(d, C)
  <2>1. ASSUME NEW e \in C, NEW f \in C PROVE f.occurred_at - e.occurred_at <= d.within_seconds
    <3>1. /\ g[i].occurred_at <= e.occurred_at
          /\ f.occurred_at <= g[i].occurred_at + d.within_seconds
      BY <1>10
    <3>2. e.occurred_at \in Int /\ f.occurred_at \in Int /\ g[i].occurred_at \in Int
      BY <1>4, <1>6, <1>8, <1>9
    <3>3. QED
      BY <1>1, <3>1, <3>2
  <2> HIDE DEF C
  <2>2. QED
    BY <2>1 DEF Together
<1>12. Cardinality(C) = m
  <2> DEFINE h == [k \in i..i + m - 1 |-> g[k]]
  <2>1. h \in [i..i + m - 1 -> C]
    BY DEF BurstCites, m
  <2>2. ASSUME NEW j \in i..i + m - 1, NEW k \in i..i + m - 1, h[j] = h[k] PROVE j = k
    <3>1. j \in 1..n /\ k \in 1..n /\ j \in Int /\ k \in Int
      BY <1>6, <1>7
    <3>2. g[j] = g[k] /\ g[j] \in G
      BY <1>4, <2>2, <3>1
    <3>3. ~Before(g[j], g[k]) /\ ~Before(g[k], g[j])
      BY <1>3, <3>2, BeforeOrders
    <3>4. ~(j < k) /\ ~(k < j)
      BY <1>4, <3>1, <3>3
    <3>5. QED
      BY <3>1, <3>4
  <2>3. \A e \in C : \E k \in i..i + m - 1 : h[k] = e
    BY DEF BurstCites, m
  <2>4. h \in Bijection(i..i + m - 1, C)
    <3> HIDE DEF h, C
    <3> QED BY <2>1, <2>2, <2>3 DEF Bijection, Injection, Surjection, IsInjective
  <2>5. IsFiniteSet(i..i + m - 1) /\ Cardinality(i..i + m - 1) = m
    <3>1. PICK z \in Int : z = i + m - 1
      BY <1>1, <1>6
    <3>2. i \in Int /\ (IF i > z THEN 0 ELSE z - i + 1) = m
      BY <1>1, <1>6, <3>1
    <3>3. IsFiniteSet(i..z) /\ Cardinality(i..z) = m
      BY <3>2, FS_Interval
    <3>4. QED
      BY <3>1, <3>3
  <2>6. ExistsBijection(i..i + m - 1, C)
    BY <2>4 DEF ExistsBijection
  <2> HIDE DEF C
  <2>7. QED
    BY <2>5, <2>6, FS_Bijection
<1>13. Hits(C, d.match) = C
  BY <1>2, <1>8 DEF Hits
<1>14. OneSource(C)
  <2> HIDE DEF C
  <2> QED BY <1>2, <1>8, OneSourceOf
<1>15. Cardinality(C) = d.min_count
  BY <1>12 DEF m
<1> HIDE DEF C
<1>16. Means(d, C)
  BY <1>11, <1>13, <1>14, <1>15 DEF Means
<1>17. {e.id : e \in C} \in Standing(d, E)
  BY <1>2, <1>8, <1>16, StandingFor
<1>18. QED
  BY <1>17 DEF C, g

\* The recursion of ThresholdMatches.
BurstsBy(f, d, G) ==
  f = [i \in 1..(Len(Ordered(G)) + 1) |->
         IF i > Len(Ordered(G)) THEN {}
         ELSE IF BurstEnd(d, Ordered(G), i) - i >= d.min_count
              THEN {{Ordered(G)[k].id : k \in i..(i + d.min_count - 1)}}
                     \union f[BurstEnd(d, Ordered(G), i)]
              ELSE f[i + 1]]

\* The evaluator takes the chain's first value.
LEMMA ThresholdIsBursts ==
  ASSUME NEW d, NEW G
  PROVE  ThresholdMatches(d, G) = (CHOOSE f : BurstsBy(f, d, G))[1]
BY DEF ThresholdMatches, BurstsBy

\* Sorted events are in the order of their occurred_at.
LEMMA TimesInOrder ==
  ASSUME NEW E, EventSet(E)
  PROVE  \A i, j \in 1..Cardinality(E) :
           /\ Ordered(E)[i].occurred_at \in Int
           /\ i <= j => Ordered(E)[i].occurred_at <= Ordered(E)[j].occurred_at
<1> DEFINE n == Cardinality(E)
           g == Ordered(E)
<1>1. /\ n \in Nat /\ g \in [1..n -> E]
      /\ \A i, j \in 1..n : i < j => Before(g[i], g[j])
  BY OrderedIsSorted
<1>2. \A i \in 1..n : g[i].occurred_at \in Int
  <2>1. \A i \in 1..n : g[i] \in E
    BY <1>1
  <2>2. QED
    BY <2>1 DEF EventSet
<1> HIDE DEF g, n
<1>3. ASSUME NEW i \in 1..n, NEW j \in 1..n, i <= j
      PROVE  g[i].occurred_at <= g[j].occurred_at
  <2>1. CASE i = j
    BY <1>2, <2>1
  <2>2. CASE i # j
    <3>1. Before(g[i], g[j])
      BY <1>1, <1>3, <2>2
    <3>2. QED
      BY <1>2, <3>1 DEF Before
  <2>3. QED
    BY <2>1, <2>2
<1>4. QED
  BY <1>2, <1>3 DEF g, n

\* The window of a burst: what is before its end is in it, and its end is not.
LEMMA BurstSplits ==
  ASSUME NEW d, NEW g, NEW n \in Nat, Len(g) = n, NEW i \in 1..n, d.within_seconds \in Int,
         \A j \in 1..n : g[j].occurred_at \in Int
  PROVE  /\ BurstEnd(d, g, i) \in i..n + 1
         /\ \A j \in i..n : j < BurstEnd(d, g, i) =>
              g[j].occurred_at - g[i].occurred_at <= d.within_seconds
         /\ BurstEnd(d, g, i) <= n =>
              g[BurstEnd(d, g, i)].occurred_at - g[i].occurred_at > d.within_seconds
<1> DEFINE S == {j \in i..n + 1 : \/ j > n
                                   \/ g[j].occurred_at - g[i].occurred_at > d.within_seconds}
           b == BurstEnd(d, g, i)
<1>1. b = Min(S)
  BY DEF BurstEnd
<1>2. S \in SUBSET Nat /\ n + 1 \in S
  OBVIOUS
<1>3. b \in S
  <2> HIDE DEF S, b
  <2> QED BY <1>1, <1>2, LeastNumber
<1>4. b \in i..n + 1 /\ (b <= n => g[b].occurred_at - g[i].occurred_at > d.within_seconds)
  <2> HIDE DEF b
  <2>1. b \in i..n + 1 /\ (b > n \/ g[b].occurred_at - g[i].occurred_at > d.within_seconds)
    BY <1>3
  <2>2. QED
    BY <2>1
<1>5. ASSUME NEW j \in i..n, j < b PROVE g[j].occurred_at - g[i].occurred_at <= d.within_seconds
  <2>1. ~(g[j].occurred_at - g[i].occurred_at > d.within_seconds)
    BY <1>5, BurstEndIs
  <2>2. j \in 1..n /\ g[i].occurred_at \in Int /\ g[j].occurred_at \in Int
    OBVIOUS
  <2>3. QED
    BY <2>1, <2>2
<1>6. QED
  BY <1>4, <1>5

\* Where the bursts of sorted events stop.
BurstStops(d, g, n) == [i \in 1..n |-> BurstEnd(d, g, i)]

\* What each of them would cite.
BurstIds(d, g, n) == [i \in 1..n |-> {e.id : e \in BurstCites(d, g, i)}]

\* A later burst does not stop earlier.
LEMMA BurstsStop ==
  ASSUME NEW d, d.within_seconds \in Int, NEW G, EventSet(G)
  PROVE  LET stop == BurstStops(d, Ordered(G), Cardinality(G)) IN
         /\ stop \in [1..Cardinality(G) -> 1..Cardinality(G) + 1]
         /\ \A i, j \in 1..Cardinality(G) : i <= j => stop[i] <= stop[j]
<1> DEFINE n == Cardinality(G)
           g == Ordered(G)
           stop == BurstStops(d, g, n)
<1>1. n \in Nat /\ Len(g) = n
  BY OrderedIsSorted, LengthOfOrdered
<1>2. \A i, j \in 1..n : g[i].occurred_at \in Int /\ (i <= j => g[i].occurred_at <= g[j].occurred_at)
  BY TimesInOrder
<1> HIDE DEF g, n
<1>3. ASSUME NEW i \in 1..n
      PROVE  /\ stop[i] \in i..n + 1
             /\ \A j \in i..n : j < stop[i] => g[j].occurred_at - g[i].occurred_at <= d.within_seconds
             /\ stop[i] <= n => g[stop[i]].occurred_at - g[i].occurred_at > d.within_seconds
  <2>1. stop[i] = BurstEnd(d, g, i)
    BY DEF BurstStops
  <2> HIDE DEF stop
  <2>2. \A j \in 1..n : g[j].occurred_at \in Int
    BY <1>2
  <2>3. QED
    BY <1>1, <2>1, <2>2, BurstSplits
<1>4. stop \in [1..n -> 1..n + 1]
  <2>1. \A i \in 1..n : BurstEnd(d, g, i) \in 1..n + 1
    <3>1. \A i \in 1..n : stop[i] = BurstEnd(d, g, i)
      BY DEF BurstStops
    <3> HIDE DEF stop
    <3>2. QED
      BY <1>1, <1>3, <3>1
  <2>2. QED
    BY <2>1 DEF BurstStops
<1> HIDE DEF stop
<1>5. ASSUME NEW i \in 1..n, NEW j \in 1..n, i <= j PROVE stop[i] <= stop[j]
  <2>1. SUFFICES ASSUME stop[j] < stop[i] PROVE FALSE
    BY <1>1, <1>4
  <2>2. stop[j] \in j..n + 1 /\ stop[i] \in i..n + 1
    BY <1>3
  <2>3. stop[j] \in i..n /\ stop[j] \in 1..n /\ stop[j] <= n
    BY <1>1, <1>5, <2>1, <2>2
  <2>4. /\ g[stop[j]].occurred_at - g[j].occurred_at > d.within_seconds
        /\ g[stop[j]].occurred_at - g[i].occurred_at <= d.within_seconds
    BY <1>3, <2>1, <2>3
  <2>5. /\ g[i].occurred_at \in Int /\ g[j].occurred_at \in Int /\ g[stop[j]].occurred_at \in Int
        /\ g[i].occurred_at <= g[j].occurred_at
    BY <1>2, <1>5, <2>3
  <2>6. QED
    BY <2>4, <2>5
<1>6. QED
  BY <1>4, <1>5 DEF stop, g, n

\* The matches of one source are what the chain of its bursts collects.
LEMMA ThresholdIsChain ==
  ASSUME NEW d, IsDetection(d), d.type = "threshold", NEW G, EventSet(G)
  PROVE  \E f : /\ Chain(f, Cardinality(G), d.min_count, BurstStops(d, Ordered(G), Cardinality(G)),
                         BurstIds(d, Ordered(G), Cardinality(G)))
                /\ ThresholdMatches(d, G) = f[1]
<1> DEFINE g == Ordered(G)
           n == Cardinality(G)
           stop == BurstStops(d, g, n)
           cite == BurstIds(d, g, n)
           f == CHOOSE f : BurstsBy(f, d, G)
<1>1. d.min_count \in Nat \ {0} /\ d.within_seconds \in Int
  BY DEF IsDetection
<1>2. n \in Nat /\ Len(g) = n
  BY OrderedIsSorted, LengthOfOrdered
<1>3. stop \in [1..n -> 1..n + 1]
  BY <1>1, BurstsStop
<1>4. ASSUME NEW h PROVE BurstsBy(h, d, G) <=> Chain(h, n, d.min_count, stop, cite)
  <2>1. \A i \in 1..n + 1 : ~(i > n) => i \in 1..n
    BY <1>2
  <2>2. \A i \in 1..n : /\ stop[i] = BurstEnd(d, g, i)
                        /\ cite[i] = {g[k].id : k \in i..(i + d.min_count - 1)}
    BY DEF BurstCites, BurstStops, BurstIds
  <2> HIDE DEF stop, cite, g, n
  <2>3. [i \in 1..n + 1 |->
           IF i > n THEN {}
           ELSE IF stop[i] - i >= d.min_count THEN {cite[i]} \union h[stop[i]] ELSE h[i + 1]] =
        [i \in 1..(n + 1) |->
           IF i > n THEN {}
           ELSE IF BurstEnd(d, g, i) - i >= d.min_count
                THEN {{g[k].id : k \in i..(i + d.min_count - 1)}} \union h[BurstEnd(d, g, i)]
                ELSE h[i + 1]]
    BY <2>1, <2>2
  <2>4. QED
    BY <1>2, <2>3 DEF BurstsBy, Chain, g
<1>5. BurstsBy(f, d, G)
  <2>1. \E h : Chain(h, n, d.min_count, stop, cite)
    <3> HIDE DEF stop, cite, n
    <3> QED BY <1>1, <1>2, <1>3, ChainExists
  <2>2. \E h : BurstsBy(h, d, G)
    <3> HIDE DEF stop, cite, n
    <3> QED BY <1>4, <2>1
  <2>3. QED
    BY <2>2
<1>6. ThresholdMatches(d, G) = f[1]
  BY ThresholdIsBursts
<1> HIDE DEF f, stop, cite, g, n
<1>7. Chain(f, n, d.min_count, stop, cite)
  BY <1>4, <1>5
<1>8. QED
  BY <1>6, <1>7 DEF stop, cite, g, n

\* Every match of a threshold rule is min_count events of one source within the window.
LEMMA ThresholdStands ==
  ASSUME NEW d, IsDetection(d), d.type = "threshold", NEW E, EventSet(E)
  PROVE  EvaluateThreshold(d, E) \subseteq Standing(d, E)
<1>1. SUFFICES ASSUME NEW G \in Groups(Matching(E, d.match))
               PROVE  ThresholdMatches(d, G) \subseteq Standing(d, E)
  BY DEF EvaluateThreshold
<1> DEFINE g == Ordered(G)
           n == Cardinality(G)
           stop == BurstStops(d, g, n)
           cite == BurstIds(d, g, n)
<1>2. G \in SUBSET E /\ EventSet(G) /\ d.min_count \in Nat \ {0} /\ d.within_seconds \in Int
  BY GroupOfEvents, EventSubset DEF Matching, IsDetection
<1>3. n \in Nat
  BY <1>2, OrderedIsSorted
<1>4. stop \in [1..n -> 1..n + 1]
  BY <1>2, BurstsStop
<1>5. PICK f : Chain(f, n, d.min_count, stop, cite) /\ ThresholdMatches(d, G) = f[1]
  BY <1>2, ThresholdIsChain
<1>6. \A i \in 1..n : stop[i] - i >= d.min_count => cite[i] \in Standing(d, E)
  BY BurstStands DEF BurstStops, BurstIds
<1>7. f[1] \subseteq Standing(d, E)
  <2> HIDE DEF stop, cite, n
  <2> QED BY <1>2, <1>3, <1>4, <1>5, <1>6, ChainStands
<1>8. QED
  BY <1>5, <1>7

----------------------------------------------------------------------------
(* Sequence rules.                                                         *)

\* The steps of a rule, or of a prefix of it.
IsSteps(steps) ==
  /\ Len(steps) \in Nat
  /\ \A k \in 1..Len(steps) : steps[k].min_count \in Nat \ {0}

\* Where the walk over the steps may be.
DealStates(E, K) == [index : 1..K + 1, used : [1..K -> SUBSET E]]

\* After the first i events, in order: each is used for a step it matches or for
\* none, no step after the one under way is begun, and the events of a step come
\* before those of the next.
DealtWell(E, steps, i) ==
  {s \in DealStates(E, Len(steps)) :
     /\ \A k \in 1..Len(steps) : \A e \in s.used[k] :
          Satisfies(e, steps[k].match) /\ \E j \in 1..i : e = Ordered(E)[j]
     /\ \A k \in 1..Len(steps) : k > s.index => s.used[k] = {}
     /\ \A k, l \in 1..Len(steps) : k < l =>
          \A e \in s.used[k], f \in s.used[l] : Before(e, f)}

\* The walk never goes back a step.
LEMMA StepForIs ==
  ASSUME NEW E, NEW steps, IsSteps(steps), NEW s \in DealStates(E, Len(steps)), NEW e
  PROVE  StepFor(steps, s, e) \in s.index..Len(steps) + 1
<1> DEFINE K == Len(steps)
           S == {k \in s.index..(K + 1) :
                   \/ k > K
                   \/ Satisfies(e, steps[k].match)
                   \/ Cardinality(s.used[k]) < steps[k].min_count}
<1>1. K \in Nat /\ s.index \in 1..K + 1
  BY DEF IsSteps, DealStates
<1>2. StepFor(steps, s, e) = Min(S)
  BY DEF StepFor
<1> HIDE DEF K
<1>3. S \in SUBSET Nat /\ K + 1 \in S
  BY <1>1
<1>4. Min(S) \in S
  <2> HIDE DEF S
  <2> QED BY <1>3, LeastNumber
<1>5. QED
  BY <1>2, <1>4 DEF K

\* Dealing one event keeps the walk among its states.
LEMMA AssignTyped ==
  ASSUME NEW E, NEW steps, IsSteps(steps), NEW s \in DealStates(E, Len(steps)), NEW e \in E
  PROVE  Assign(steps, s, e) \in DealStates(E, Len(steps))
<1> DEFINE K == Len(steps)
           j == StepFor(steps, s, e)
           used == [k \in 1..K |-> IF k = j /\ Satisfies(e, steps[k].match)
                                   THEN s.used[k] \union {e} ELSE s.used[k]]
<1>1. K \in Nat /\ s.index \in 1..K + 1 /\ s.used \in [1..K -> SUBSET E]
  BY DEF IsSteps, DealStates
<1>2. j \in s.index..K + 1
  BY StepForIs
<1>3. Assign(steps, s, e) = [index |-> j, used |-> used]
  BY DEF Assign
<1> HIDE DEF K, j
<1>4. j \in 1..K + 1
  BY <1>1, <1>2
<1>5. used \in [1..K -> SUBSET E]
  BY <1>1
<1> HIDE DEF used
<1>6. [index |-> j, used |-> used] \in DealStates(E, K)
  BY <1>4, <1>5 DEF DealStates
<1>7. QED
  BY <1>3, <1>6 DEF K

\* Dealing the next event keeps the steps in order.
LEMMA AssignWell ==
  ASSUME NEW E, EventSet(E), NEW steps, IsSteps(steps), NEW i \in 1..Cardinality(E),
         NEW s \in DealtWell(E, steps, i - 1)
  PROVE  Assign(steps, s, Ordered(E)[i]) \in DealtWell(E, steps, i)
<1> DEFINE K == Len(steps)
           g == Ordered(E)
           e == g[i]
           j == StepFor(steps, s, e)
           t == Assign(steps, s, e)
<1>1. /\ Cardinality(E) \in Nat /\ g \in [1..Cardinality(E) -> E]
      /\ \A k, l \in 1..Cardinality(E) : k < l => Before(g[k], g[l])
  BY OrderedIsSorted
<1>2. /\ s \in DealStates(E, K)
      /\ \A k \in 1..K : \A x \in s.used[k] :
           Satisfies(x, steps[k].match) /\ \E l \in 1..i - 1 : x = g[l]
      /\ \A k \in 1..K : k > s.index => s.used[k] = {}
      /\ \A k, l \in 1..K : k < l => \A x \in s.used[k], y \in s.used[l] : Before(x, y)
  BY DEF DealtWell
<1>3. K \in Nat /\ s.index \in 1..K + 1 /\ e \in E
  BY <1>1, <1>2 DEF IsSteps, DealStates
<1>4. j \in s.index..K + 1
  BY <1>2, StepForIs
<1>5. /\ t.index = j
      /\ \A k \in 1..K : t.used[k] = IF k = j /\ Satisfies(e, steps[k].match)
                                     THEN s.used[k] \union {e} ELSE s.used[k]
  BY DEF Assign
<1>6. t \in DealStates(E, K)
  BY <1>2, <1>3, AssignTyped
<1> HIDE DEF K, g, e, j, t
<1>6a. \A k \in 1..K : \A x \in t.used[k] :
         x \in s.used[k] \/ (x = e /\ k = j /\ Satisfies(e, steps[k].match))
  <2>1. SUFFICES ASSUME NEW k \in 1..K, NEW x \in t.used[k], x \notin s.used[k]
                 PROVE  x = e /\ k = j /\ Satisfies(e, steps[k].match)
    OBVIOUS
  <2>2. t.used[k] = IF k = j /\ Satisfies(e, steps[k].match)
                    THEN s.used[k] \union {e} ELSE s.used[k]
    BY <1>5
  <2>3. QED
    BY <2>1, <2>2
<1>7. \A k \in 1..K : \A x \in s.used[k] : Before(x, e)
  <2>1. SUFFICES ASSUME NEW k \in 1..K, NEW x \in s.used[k] PROVE Before(x, e)
    OBVIOUS
  <2>2. PICK l \in 1..i - 1 : x = g[l]
    BY <1>2
  <2>3. l \in 1..Cardinality(E) /\ l < i
    BY <1>1
  <2>4. QED
    BY <1>1, <2>2, <2>3 DEF e
<1>8. ASSUME NEW k \in 1..K, NEW x \in t.used[k]
      PROVE  Satisfies(x, steps[k].match) /\ \E l \in 1..i : x = g[l]
  <2>1. CASE x \in s.used[k]
    <3>1. Satisfies(x, steps[k].match) /\ \E l \in 1..i - 1 : x = g[l]
      BY <1>2, <2>1
    <3>2. \A l \in 1..i - 1 : l \in 1..i
      BY <1>1
    <3>3. QED
      BY <3>1, <3>2
  <2>2. CASE x \notin s.used[k]
    <3>1. Satisfies(e, steps[k].match) /\ x = e
      BY <1>6a, <2>2
    <3>2. i \in 1..i
      BY <1>1
    <3>3. QED
      BY <3>1, <3>2 DEF e
  <2>3. QED
    BY <2>1, <2>2
<1>9. ASSUME NEW k \in 1..K, k > t.index PROVE t.used[k] = {}
  <2>1. k # j /\ k > s.index
    BY <1>3, <1>4, <1>5, <1>9
  <2>2. QED
    BY <1>2, <1>5, <2>1
<1>10. ASSUME NEW k \in 1..K, NEW l \in 1..K, k < l, NEW x \in t.used[k], NEW y \in t.used[l]
       PROVE  Before(x, y)
  <2>1. CASE y \in s.used[l] /\ x \in s.used[k]
    BY <1>2, <1>10, <2>1
  <2>2. CASE y \notin s.used[l]
    <3>1. l = j /\ y = e
      BY <1>6a, <2>2
    <3>2. k # j
      BY <1>3, <1>10, <3>1
    <3>3. x \in s.used[k]
      BY <1>6a, <3>2
    <3>4. QED
      BY <1>7, <3>1, <3>3
  <2>3. CASE y \in s.used[l] /\ x \notin s.used[k]
    <3>1. k = j
      BY <1>6a, <2>3
    <3>2. l > s.index
      BY <1>3, <1>4, <1>10, <3>1
    <3>3. QED
      BY <1>2, <2>3, <3>2
  <2>4. QED
    BY <2>1, <2>2, <2>3
<1>11. t \in DealtWell(E, steps, i)
  BY <1>6, <1>8, <1>9, <1>10 DEF DealtWell, K, g
<1>12. QED
  BY <1>11 DEF t, e, g

\* The recursion of Deal.
DealtBy(f, E, steps) ==
  f = [i \in 0..Cardinality(E) |->
         IF i = 0 THEN [index |-> 1, used |-> [k \in 1..Len(steps) |-> {}]]
         ELSE Assign(steps, f[i - 1], Ordered(E)[i])]

\* What was used for each step when all are dealt.
DealtUse(E, steps) == (CHOOSE f : DealtBy(f, E, steps))[Cardinality(E)].used

\* Deal takes what was used where that recursion ends.
LEMMA DealIsDealt ==
  ASSUME NEW E, NEW steps
  PROVE  Deal(E, steps) =
           IF \A k \in 1..Len(steps) :
                Cardinality(DealtUse(E, steps)[k]) >= steps[k].min_count
           THEN UNION {DealtUse(E, steps)[k] : k \in 1..Len(steps)}
           ELSE {}
BY DEF Deal, DealtBy, DealtUse

\* The recursion has a solution.
LEMMA DealtExists ==
  ASSUME NEW E, EventSet(E), NEW steps, IsSteps(steps)
  PROVE  \E f : DealtBy(f, E, steps)
<1> DEFINE n == Cardinality(E)
           g == Ordered(E)
           X == DealStates(E, Len(steps))
           start == [index |-> 1, used |-> [k \in 1..Len(steps) |-> {}]]
           step == [p \in X \X (1..n) |-> Assign(steps, p[1], g[p[2]])]
<1>1. n \in Nat /\ g \in [1..n -> E]
  BY OrderedIsSorted
<1>2. start \in X
  <2>1. 1 \in 1..Len(steps) + 1
    BY DEF IsSteps
  <2>2. [k \in 1..Len(steps) |-> {}] \in [1..Len(steps) -> SUBSET E]
    OBVIOUS
  <2>3. QED
    BY <2>1, <2>2 DEF DealStates
<1>3. step \in [X \X (1..n) -> X]
  <2>1. ASSUME NEW p \in X \X (1..n) PROVE Assign(steps, p[1], g[p[2]]) \in X
    <3>1. p[1] \in X /\ g[p[2]] \in E
      BY <1>1
    <3>2. QED
      BY <3>1, AssignTyped
  <2>2. QED
    BY <2>1
<1>4. PICK f \in [0..n -> X] : Walk(f, n, start, step)
  <2> HIDE DEF n, X, start, step
  <2> QED BY <1>1, <1>2, <1>3, WalkExists
<1>5. \A i \in 1..n : i - 1 \in 0..n
  BY <1>1
<1>6. ASSUME NEW i \in 1..n PROVE step[<<f[i - 1], i>>] = Assign(steps, f[i - 1], g[i])
  <2>1. <<f[i - 1], i>> \in X \X (1..n)
    BY <1>4, <1>5
  <2>2. QED
    BY <2>1
<1>7. f = [i \in 0..n |-> IF i = 0 THEN start ELSE Assign(steps, f[i - 1], g[i])]
  <2>1. f = [i \in 0..n |-> IF i = 0 THEN start ELSE step[<<f[i - 1], i>>]]
    BY <1>4 DEF Walk
  <2>2. \A i \in 0..n : i # 0 => i \in 1..n
    BY <1>1
  <2> HIDE DEF n, X, step, start, g
  <2>3. \A i \in 0..n : f[i] = IF i = 0 THEN start ELSE Assign(steps, f[i - 1], g[i])
    BY <1>6, <2>1, <2>2
  <2>4. QED
    BY <1>4, <2>3
<1>8. Cardinality(E) = n
  OBVIOUS
<1>9. QED
  BY <1>7, <1>8 DEF DealtBy

\* When all are dealt, the steps are in order.
LEMMA DealtIsWell ==
  ASSUME NEW E, EventSet(E), NEW steps, IsSteps(steps)
  PROVE  \E s \in DealtWell(E, steps, Cardinality(E)) : DealtUse(E, steps) = s.used
<1> DEFINE f == CHOOSE h : DealtBy(h, E, steps)
           n == Cardinality(E)
           Good == [i \in 0..n |-> DealtWell(E, steps, i)]
<1>1. DealtBy(f, E, steps)
  BY DealtExists
<1>2. DealtUse(E, steps) = f[n].used
  BY DEF DealtUse
<1>3. n \in Nat
  BY OrderedIsSorted
<1> HIDE DEF f
<1>4. \A i \in 0..n : f[i] = IF i = 0 THEN [index |-> 1, used |-> [k \in 1..Len(steps) |-> {}]]
                             ELSE Assign(steps, f[i - 1], Ordered(E)[i])
  BY <1>1 DEF DealtBy
<1>5. f[0] \in DealtWell(E, steps, 0)
  <2>1. f[0] = [index |-> 1, used |-> [k \in 1..Len(steps) |-> {}]]
    <3>1. 0 \in 0..n
      BY <1>3
    <3> HIDE DEF n
    <3>2. QED
      BY <1>4, <3>1
  <2>2. 1 \in 1..Len(steps) + 1
    BY DEF IsSteps
  <2>3. f[0] \in DealStates(E, Len(steps)) /\ \A k \in 1..Len(steps) : f[0].used[k] = {}
    BY <2>1, <2>2 DEF DealStates
  <2>4. QED
    BY <2>3 DEF DealtWell
<1>6. ASSUME NEW i \in 1..n, f[i - 1] \in DealtWell(E, steps, i - 1)
      PROVE  f[i] \in DealtWell(E, steps, i)
  <2>1. i \in 0..n /\ i # 0
    BY <1>3
  <2>2. f[i] = Assign(steps, f[i - 1], Ordered(E)[i])
    BY <1>4, <2>1
  <2>3. QED
    BY <1>6, <2>2, AssignWell
<1>7. f[n] \in DealtWell(E, steps, n)
  <2>1. \A i \in 0..n : Good[i] = DealtWell(E, steps, i)
    OBVIOUS
  <2>2. 0 \in 0..n /\ n \in 0..n /\ \A i \in 1..n : i \in 0..n /\ i - 1 \in 0..n
    BY <1>3
  <2> HIDE DEF Good, n
  <2>3. \A i \in 1..n : f[i - 1] \in Good[i - 1] => f[i] \in Good[i]
    BY <1>6, <2>1, <2>2
  <2>4. \A i \in 0..n : f[i] \in Good[i]
    BY <1>3, <1>5, <2>1, <2>2, <2>3, StepsKeep
  <2>5. QED
    BY <2>1, <2>2, <2>4
<1>8. QED
  BY <1>2, <1>7

\* The members of P belong to the steps in order, and enough to each.
GoesThrough(P, steps) ==
  \E step \in [P -> 1..Len(steps)] :
    /\ \A e \in P : Satisfies(e, steps[step[e]].match)
    /\ \A e, f \in P : Before(e, f) => step[e] <= step[f]
    /\ \A i \in 1..Len(steps) : Cardinality({e \in P : step[e] = i}) >= steps[i].min_count

\* What Deal returns is dealt to the steps in order, and often enough.
LEMMA DealtInOrder ==
  ASSUME NEW E, EventSet(E), NEW steps, IsSteps(steps), NEW P, P = Deal(E, steps), P # {}
  PROVE  P \in SUBSET E /\ GoesThrough(P, steps)
<1> DEFINE K == Len(steps)
           used == DealtUse(E, steps)
           step == [e \in P |-> CHOOSE k \in 1..K : e \in used[k]]
<1>1. K \in Nat
  BY DEF IsSteps
<1>2. PICK s \in DealtWell(E, steps, Cardinality(E)) : used = s.used
  BY DealtIsWell
<1>3. /\ used \in [1..K -> SUBSET E]
      /\ \A k \in 1..K : \A e \in used[k] : Satisfies(e, steps[k].match)
      /\ \A k, l \in 1..K : k < l => \A e \in used[k], f \in used[l] : Before(e, f)
  <2> HIDE DEF used
  <2> QED BY <1>2 DEF DealtWell, DealStates
<1>4. /\ P = UNION {used[k] : k \in 1..K}
      /\ \A k \in 1..K : Cardinality(used[k]) >= steps[k].min_count
  BY DealIsDealt
<1> HIDE DEF used, K
<1>5. P \in SUBSET E
  BY <1>3, <1>4
<1>6. ASSUME NEW e \in P PROVE step[e] \in 1..K /\ e \in used[step[e]]
  <2>1. \E k \in 1..K : e \in used[k]
    BY <1>4
  <2>2. step[e] = CHOOSE k \in 1..K : e \in used[k]
    OBVIOUS
  <2> HIDE DEF step
  <2>3. QED
    BY <2>1, <2>2
<1>7. step \in [P -> 1..K]
  <2>1. step = [e \in P |-> step[e]]
    OBVIOUS
  <2> HIDE DEF step
  <2>2. QED
    BY <1>6, <2>1
<1> HIDE DEF step
<1>8. \A e \in P : Satisfies(e, steps[step[e]].match)
  BY <1>3, <1>6
<1>9. ASSUME NEW e \in P, NEW f \in P, Before(e, f) PROVE step[e] <= step[f]
  <2>1. ~Before(f, e)
    BY <1>5, <1>9, BeforeOrders
  <2>2. ~(step[f] < step[e])
    BY <1>3, <1>6, <2>1
  <2>3. QED
    BY <1>1, <1>6, <2>2
<1>10. ASSUME NEW i \in 1..K PROVE Cardinality({e \in P : step[e] = i}) >= steps[i].min_count
  <2>1. ASSUME NEW e \in used[i] PROVE e \in P /\ step[e] = i
    <3>1. e \in P
      BY <1>4
    <3>2. ~Before(e, e)
      BY <1>5, <3>1, BeforeOrders
    <3>3. step[e] \in 1..K /\ e \in used[step[e]]
      BY <1>6, <3>1
    <3>4. ~(step[e] < i) /\ ~(i < step[e])
      BY <1>3, <3>2, <3>3
    <3>5. QED
      BY <1>1, <3>1, <3>3, <3>4
  <2>2. {e \in P : step[e] = i} = used[i]
    BY <1>6, <2>1
  <2>3. QED
    BY <1>4, <2>2
<1>11. GoesThrough(P, steps)
  BY <1>7, <1>8, <1>9, <1>10 DEF GoesThrough, K
<1>12. QED
  BY <1>5, <1>11

\* The steps before the terminal's.
LEMMA FrontIs ==
  ASSUME NEW d, IsDetection(d), d.type = "sequence"
  PROVE  /\ Len(Front(d.steps)) = Len(d.steps) - 1 /\ Len(Front(d.steps)) \in Nat \ {0}
         /\ \A k \in 1..Len(d.steps) - 1 : Front(d.steps)[k] = d.steps[k]
         /\ IsSteps(Front(d.steps))
<1> DEFINE n == Len(d.steps) - 1
<1>1. n \in Nat \ {0} /\ Len(d.steps) = n + 1
  <2>1. Len(d.steps) \in Nat \ {0, 1}
    BY DEF IsDetection
  <2>2. QED
    BY <2>1
<1>2. \A k \in 1..n : d.steps[k].min_count \in Nat \ {0}
  BY <1>1 DEF IsDetection
<1>3. Front(d.steps) = SubSeq(d.steps, 1, n)
  BY <1>1 DEF Front
<1> HIDE DEF n
<1>4. Len(Front(d.steps)) = n /\ \A k \in 1..n : Front(d.steps)[k] = d.steps[k]
  <2> DEFINE S == {d.steps[k] : k \in 1..n}
  <2>1. \A k \in 1..n : d.steps[k] \in S
    OBVIOUS
  <2> HIDE DEF S
  <2>2. /\ Len(SubSeq(d.steps, 1, n)) = IF 1 <= n THEN n - 1 + 1 ELSE 0
        /\ \A k \in 1..n - 1 + 1 : SubSeq(d.steps, 1, n)[k] = d.steps[1 + k - 1]
    BY <1>1, <2>1, SubSeqProperties
  <2>3. n - 1 + 1 = n /\ 1 <= n /\ \A k \in 1..n : 1 + k - 1 = k
    BY <1>1
  <2>4. QED
    BY <1>3, <2>2, <2>3
<1>5. IsSteps(Front(d.steps))
  BY <1>1, <1>2, <1>4 DEF IsSteps
<1>6. QED
  BY <1>1, <1>4, <1>5 DEF n

\* A terminal and a prefix dealt from what precedes it in the window.
LEMMA PrefixStands ==
  ASSUME NEW d, IsDetection(d), d.type = "sequence", NEW E, EventSet(E),
         NEW G \in Groups(E), NEW t \in G, Satisfies(t, Last(d.steps).match), NEW consumed,
         NEW P, P = AssignPrefix(Segment(d, G, t), Front(d.steps), consumed), P # {}
  PROVE  P \in SUBSET E /\ {e.id : e \in P \union {t}} \in Standing(d, E)
<1> DEFINE steps == Front(d.steps)
           F == {e \in Segment(d, G, t) : e.id \notin consumed}
           C == P \union {t}
<1>1. PICK n \in Nat : n = Len(d.steps) - 1 /\ n \in Nat \ {0}
  <2>1. Len(d.steps) \in Nat \ {0, 1}
    BY DEF IsDetection
  <2>2. Len(d.steps) - 1 \in Nat \ {0}
    BY <2>1
  <2>3. QED
    BY <2>2
<1>2. d.within_seconds \in Nat /\ \A k \in 1..n : d.steps[k].min_count \in Nat \ {0}
  BY <1>1 DEF IsDetection
<1>3. /\ G \in SUBSET E /\ \A e, f \in G : e.source = f.source
  BY GroupOfEvents
<1>5. Len(steps) = n /\ \A k \in 1..n : steps[k] = d.steps[k]
  BY <1>1, FrontIs
<1>6. IsSteps(steps)
  BY FrontIs
<1> HIDE DEF steps
<1>7. /\ F \in SUBSET E /\ F \in SUBSET G
      /\ \A e \in F : Before(e, t) /\ t.occurred_at - d.within_seconds <= e.occurred_at
  BY <1>3 DEF Segment
<1>8. EventSet(F)
  <2> HIDE DEF F
  <2> QED BY <1>7, EventSubset
<1>9. P = Deal(F, steps)
  BY DEF AssignPrefix, steps
<1> HIDE DEF F
<1>10. P \in SUBSET F
  BY <1>6, <1>8, <1>9, DealtInOrder
<1>11. PICK step \in [P -> 1..n] :
          /\ \A e \in P : Satisfies(e, steps[step[e]].match)
          /\ \A e, f \in P : Before(e, f) => step[e] <= step[f]
          /\ \A i \in 1..n : Cardinality({e \in P : step[e] = i}) >= steps[i].min_count
  <2>1. Len(steps) = n
    BY <1>5
  <2>2. GoesThrough(P, steps)
    BY <1>6, <1>8, <1>9, DealtInOrder
  <2>3. QED
    BY <2>1, <2>2 DEF GoesThrough
<1>12. t \in E /\ P \in SUBSET E /\ C \in SUBSET E /\ C # {} /\ C \in SUBSET G
  BY <1>3, <1>7, <1>10
<1>13. t \notin P
  <2>1. ~Before(t, t)
    BY <1>12, BeforeOrders
  <2>2. QED
    BY <1>7, <1>10, <2>1
<1>14. OneSource(C)
  <2> HIDE DEF C
  <2> QED BY <1>3, <1>12, OneSourceOf
<1>15. ASSUME NEW e \in P
       PROVE  Before(e, t) /\ t.occurred_at - e.occurred_at <= d.within_seconds
  <2>1. e.occurred_at \in Int /\ t.occurred_at \in Int
    BY <1>12 DEF EventSet
  <2>2. Before(e, t) /\ t.occurred_at - d.within_seconds <= e.occurred_at
    BY <1>7, <1>10
  <2>3. QED
    BY <1>2, <2>1, <2>2
<1>16. Len(d.steps) - 1 = n
  BY <1>1
<1>17. /\ \A e \in P : Satisfies(e, d.steps[step[e]].match)
       /\ \A i \in 1..n : Cardinality({e \in P : step[e] = i}) >= d.steps[i].min_count
  BY <1>5, <1>11
<1>18. Leads(d, P, t)
  BY <1>11, <1>14, <1>15, <1>16, <1>17 DEF Leads
<1>19. C \ {t} = P /\ t \in C
  BY <1>13
<1> HIDE DEF C
<1>20. Means(d, C)
  BY <1>18, <1>19 DEF Means
<1>21. {e.id : e \in C} \in Standing(d, E)
  BY <1>12, <1>20, StandingFor
<1>22. QED
  BY <1>12, <1>21 DEF C

\* Where the walk over the terminals may be: every match so far may be cited.
VisitedStates(d, E) == [consumed : SUBSET {e.id : e \in E}, matches : SUBSET Standing(d, E)]

\* One more terminal adds nothing but what may be cited.
LEMMA VisitStands ==
  ASSUME NEW d, IsDetection(d), d.type = "sequence", NEW E, EventSet(E),
         NEW G \in Groups(E), NEW t \in G, NEW s \in VisitedStates(d, E)
  PROVE  Visit(d, G, s, t) \in VisitedStates(d, E)
<1> DEFINE P == AssignPrefix(Segment(d, G, t), Front(d.steps), s.consumed)
<1>1. CASE Satisfies(t, Last(d.steps).match) /\ P # {}
  <2>1. P \in SUBSET E /\ {e.id : e \in P \union {t}} \in Standing(d, E)
    <3> HIDE DEF P
    <3> QED BY <1>1, PrefixStands DEF P
  <2>2. Visit(d, G, s, t) =
          [consumed |-> s.consumed \union {e.id : e \in P},
           matches |-> s.matches \union {{e.id : e \in P \union {t}}}]
    BY <1>1 DEF Visit, Ids
  <2> HIDE DEF P
  <2>3. s.consumed \in SUBSET {e.id : e \in E} /\ s.matches \in SUBSET Standing(d, E)
    BY DEF VisitedStates
  <2>4. s.consumed \union {e.id : e \in P} \in SUBSET {e.id : e \in E}
    BY <2>1, <2>3
  <2>5. s.matches \union {{e.id : e \in P \union {t}}} \in SUBSET Standing(d, E)
    BY <2>1, <2>3
  <2>6. QED
    BY <2>2, <2>4, <2>5 DEF VisitedStates
<1>2. CASE ~(Satisfies(t, Last(d.steps).match) /\ P # {})
  BY <1>2 DEF Visit
<1>3. QED
  BY <1>1, <1>2

\* The recursion of SequenceMatches.
VisitedBy(f, d, G) ==
  f = [i \in 0..Cardinality(G) |->
         IF i = 0 THEN [consumed |-> {}, matches |-> {}]
         ELSE Visit(d, G, f[i - 1], Ordered(G)[i])]

\* The evaluator takes the matches where that recursion ends.
LEMMA SequenceIsVisited ==
  ASSUME NEW d, NEW G
  PROVE  SequenceMatches(d, G) = (CHOOSE f : VisitedBy(f, d, G))[Cardinality(G)].matches
BY DEF SequenceMatches, VisitedBy

\* The recursion has a solution.
LEMMA VisitedExists ==
  ASSUME NEW d, IsDetection(d), d.type = "sequence", NEW E, EventSet(E), NEW G \in Groups(E)
  PROVE  \E f : VisitedBy(f, d, G)
<1> DEFINE n == Cardinality(G)
           g == Ordered(G)
           X == VisitedStates(d, E)
           start == [consumed |-> {}, matches |-> {}]
           step == [p \in X \X (1..n) |-> Visit(d, G, p[1], g[p[2]])]
<1>1. n \in Nat /\ g \in [1..n -> G]
  BY GroupOfEvents, EventSubset, OrderedIsSorted
<1>2. start \in X
  BY DEF VisitedStates
<1>3. step \in [X \X (1..n) -> X]
  <2>1. ASSUME NEW p \in X \X (1..n) PROVE Visit(d, G, p[1], g[p[2]]) \in X
    <3>1. p[1] \in X /\ g[p[2]] \in G
      BY <1>1
    <3>2. QED
      BY <3>1, VisitStands
  <2>2. QED
    BY <2>1
<1>4. PICK f \in [0..n -> X] : Walk(f, n, start, step)
  <2> HIDE DEF n, X, start, step
  <2> QED BY <1>1, <1>2, <1>3, WalkExists
<1>5. \A i \in 1..n : i - 1 \in 0..n
  BY <1>1
<1>6. ASSUME NEW i \in 1..n PROVE step[<<f[i - 1], i>>] = Visit(d, G, f[i - 1], g[i])
  <2>1. <<f[i - 1], i>> \in X \X (1..n)
    BY <1>4, <1>5
  <2>2. QED
    BY <2>1
<1>7. f = [i \in 0..n |-> IF i = 0 THEN start ELSE Visit(d, G, f[i - 1], g[i])]
  <2>1. f = [i \in 0..n |-> IF i = 0 THEN start ELSE step[<<f[i - 1], i>>]]
    BY <1>4 DEF Walk
  <2>2. \A i \in 0..n : i # 0 => i \in 1..n
    BY <1>1
  <2> HIDE DEF n, X, step, start, g
  <2>3. \A i \in 0..n : f[i] = IF i = 0 THEN start ELSE Visit(d, G, f[i - 1], g[i])
    BY <1>6, <2>1, <2>2
  <2>4. QED
    BY <1>4, <2>3
<1>8. Cardinality(G) = n
  OBVIOUS
<1>9. QED
  BY <1>7, <1>8 DEF VisitedBy

\* Every match of a sequence rule has its steps in order before its terminal, from one
\* source and within the window.
LEMMA SequenceStands ==
  ASSUME NEW d, IsDetection(d), d.type = "sequence", NEW E, EventSet(E)
  PROVE  EvaluateSequence(d, E) \subseteq Standing(d, E)
<1>1. SUFFICES ASSUME NEW G \in Groups(E)
               PROVE  SequenceMatches(d, G) \subseteq Standing(d, E)
  BY DEF EvaluateSequence
<1> DEFINE f == CHOOSE h : VisitedBy(h, d, G)
           n == Cardinality(G)
           X == VisitedStates(d, E)
           Good == [i \in 0..n |-> X]
<1>2. VisitedBy(f, d, G)
  BY VisitedExists
<1>3. SequenceMatches(d, G) = f[n].matches
  BY SequenceIsVisited
<1>4. n \in Nat /\ Ordered(G) \in [1..n -> G]
  BY GroupOfEvents, EventSubset, OrderedIsSorted
<1> HIDE DEF f
<1>5. \A i \in 0..n : f[i] = IF i = 0 THEN [consumed |-> {}, matches |-> {}]
                             ELSE Visit(d, G, f[i - 1], Ordered(G)[i])
  BY <1>2 DEF VisitedBy
<1> HIDE DEF n
<1>6. f[0] \in X
  <2>1. 0 \in 0..n
    BY <1>4
  <2>2. f[0] = [consumed |-> {}, matches |-> {}]
    BY <1>5, <2>1
  <2>3. QED
    BY <2>2 DEF VisitedStates
<1>7. ASSUME NEW i \in 1..n, f[i - 1] \in X PROVE f[i] \in X
  <2>1. i \in 0..n /\ i # 0 /\ Ordered(G)[i] \in G
    BY <1>4
  <2>2. f[i] = Visit(d, G, f[i - 1], Ordered(G)[i])
    BY <1>5, <2>1
  <2>3. QED
    BY <1>7, <2>1, <2>2, VisitStands
<1>8. \A i \in 0..n : f[i] \in X
  <2>1. \A i \in 0..n : Good[i] = X
    OBVIOUS
  <2>2. 0 \in 0..n /\ \A i \in 1..n : i \in 0..n /\ i - 1 \in 0..n
    BY <1>4
  <2> HIDE DEF Good, X
  <2>3. \A i \in 0..n : f[i] \in Good[i]
    BY <1>4, <1>6, <1>7, <2>1, <2>2, StepsKeep
  <2>4. QED
    BY <2>1, <2>3
<1>9. f[n].matches \subseteq Standing(d, E)
  BY <1>4, <1>8 DEF VisitedStates
<1>10. QED
  BY <1>3, <1>9

----------------------------------------------------------------------------
\* Whatever the rule and the events, a match cites events of the window that are
\* what the rule describes (engine.py, evaluate_rule).
LEMMA MatchesStand ==
  ASSUME NEW rule, IsDetection(rule.detection), NEW E, EventSet(E)
  PROVE  EvaluateRule(rule, E) \subseteq Standing(rule.detection, E)
<1> DEFINE d == rule.detection
<1>1. d.type \in {"single", "threshold", "sequence", "correlation"}
  BY DEF IsDetection
<1>2. CASE d.type = "single"
  <2>1. EvaluateRule(rule, E) = EvaluateSingle(d, E)
    BY <1>2 DEF EvaluateRule
  <2>2. QED
    BY <1>2, <2>1, SingleStands
<1>3. CASE d.type = "threshold"
  <2>1. EvaluateRule(rule, E) = EvaluateThreshold(d, E)
    BY <1>3 DEF EvaluateRule
  <2>2. QED
    BY <1>3, <2>1, ThresholdStands
<1>4. CASE d.type = "sequence"
  <2>1. EvaluateRule(rule, E) = EvaluateSequence(d, E)
    BY <1>4 DEF EvaluateRule
  <2>2. QED
    BY <1>4, <2>1, SequenceStands
<1>5. CASE d.type = "correlation"
  <2>1. EvaluateRule(rule, E) = EvaluateCorrelation(d, E)
    BY <1>5 DEF EvaluateRule
  <2>2. QED
    BY <1>5, <2>1, CorrelationStands
<1>6. QED
  BY <1>1, <1>2, <1>3, <1>4, <1>5

----------------------------------------------------------------------------
(* Later events.                                                           *)

\* The place of an event among the sorted ones is given by its rank.
LEMMA OrderedByRank ==
  ASSUME NEW E, EventSet(E)
  PROVE  /\ \A i \in 1..Cardinality(E), x \in E : Rank(E, x) = i - 1 <=> x = Ordered(E)[i]
         /\ \A x \in E : Rank(E, x) \in 0..Cardinality(E) - 1
<1> DEFINE n == Cardinality(E)
           r == [e \in E |-> Rank(E, e)]
           g == Ordered(E)
<1>1. /\ n \in Nat /\ g \in [1..n -> E]
  BY OrderedIsSorted
<1>2. r \in [E -> 0..n - 1] /\ (\A e, f \in E : r[e] = r[f] => e = f)
      /\ (\A i \in 0..n - 1 : \E e \in E : r[e] = i)
  <2>1. r \in Bijection(E, 0..n - 1)
    BY RankBijection
  <2> HIDE DEF r, n
  <2>2. QED
    BY <2>1 DEF Bijection, Injection, Surjection, IsInjective
<1>3. \A e \in E : r[e] = Rank(E, e)
  OBVIOUS
<1>4. \A e \in E : Rank(E, e) \in 0..n - 1
  <2> HIDE DEF r, n
  <2> QED BY <1>2, <1>3
<1>5. ASSUME NEW i \in 1..n PROVE Rank(E, g[i]) = i - 1 /\ g[i] \in E
  <2>1. g[i] = CHOOSE e \in E : Cardinality({f \in E : Before(f, e)}) = i - 1
    BY DEF Ordered
  <2>2. i - 1 \in 0..n - 1
    <3> HIDE DEF n
    <3> QED BY <1>1
  <2>3. PICK e \in E : r[e] = i - 1
    <3> HIDE DEF r, n
    <3> QED BY <1>2, <2>2
  <2>4. Cardinality({f \in E : Before(f, e)}) = i - 1
    <3>1. Rank(E, e) = i - 1
      <4> HIDE DEF r
      <4> QED BY <1>3, <2>3
    <3>2. QED
      BY <3>1 DEF Rank
  <2>5. g[i] \in E /\ Cardinality({f \in E : Before(f, g[i])}) = i - 1
    <3> HIDE DEF g
    <3> QED BY <2>1, <2>4
  <2>6. QED
    BY <2>5 DEF Rank
<1>6. ASSUME NEW i \in 1..n, NEW x \in E PROVE Rank(E, x) = i - 1 <=> x = g[i]
  <2>1. CASE Rank(E, x) = i - 1
    <3>1. r[x] = r[g[i]]
      <4> HIDE DEF r, g, n
      <4> QED BY <1>3, <1>5, <2>1
    <3>2. QED
      <4> HIDE DEF r, g, n
      <4> QED BY <1>2, <1>5, <2>1, <3>1
  <2>2. CASE x = g[i]
    <3> HIDE DEF g, n
    <3> QED BY <1>5, <2>2
  <2>3. CASE Rank(E, x) # i - 1 /\ x # g[i]
    BY <2>3
  <2>4. QED
    BY <2>1, <2>2, <2>3
<1>7. QED
  BY <1>4, <1>6

\* Every event has a place among the sorted ones, and only one.
LEMMA OrderedOnto ==
  ASSUME NEW E, EventSet(E)
  PROVE  /\ \A x \in E : \E i \in 1..Cardinality(E) : x = Ordered(E)[i]
         /\ \A i, j \in 1..Cardinality(E) : Ordered(E)[i] = Ordered(E)[j] => i = j
         /\ \A i, j \in 1..Cardinality(E) : Before(Ordered(E)[i], Ordered(E)[j]) => i < j
<1> DEFINE n == Cardinality(E)
           g == Ordered(E)
<1>1. /\ n \in Nat /\ g \in [1..n -> E]
      /\ \A i, j \in 1..n : i < j => Before(g[i], g[j])
  BY OrderedIsSorted
<1>2. ASSUME NEW x \in E PROVE \E i \in 1..n : x = g[i]
  <2>1. Rank(E, x) \in 0..n - 1
    BY OrderedByRank
  <2>2. Rank(E, x) + 1 \in 1..n /\ Rank(E, x) = (Rank(E, x) + 1) - 1
    <3> HIDE DEF n
    <3> QED BY <1>1, <2>1
  <2>3. x = g[Rank(E, x) + 1]
    BY <2>2, OrderedByRank
  <2>4. QED
    BY <2>2, <2>3
<1>3. ASSUME NEW i \in 1..n, NEW j \in 1..n
      PROVE  (g[i] = g[j] => i = j) /\ (Before(g[i], g[j]) => i < j)
  <2>1. g[i] \in E /\ g[j] \in E /\ i \in Int /\ j \in Int
    <3> HIDE DEF g, n
    <3> QED BY <1>1
  <2>2. i < j => Before(g[i], g[j])
    BY <1>1
  <2>3. j < i => Before(g[j], g[i])
    BY <1>1
  <2> HIDE DEF g, n
  <2>4. ~Before(g[i], g[i]) /\ (Before(g[i], g[j]) => ~Before(g[j], g[i]))
    BY <2>1, BeforeOrders
  <2>5. ~Before(g[j], g[j])
    BY <2>1, BeforeOrders
  <2>6. g[i] = g[j] => ~(i < j) /\ ~(j < i)
    BY <2>2, <2>3, <2>4, <2>5
  <2>7. Before(g[i], g[j]) => ~(j < i) /\ i # j
    BY <2>3, <2>4
  <2>8. QED
    BY <2>1, <2>6, <2>7
<1>4. QED
  BY <1>2, <1>3

\* An event that comes after all of E.
Later(E, e) ==
  /\ e \notin E /\ EventSet(E \union {e})
  /\ \A f \in E : Before(f, e)

\* It comes after fewer events as well.
LEMMA LaterThanFewer ==
  ASSUME NEW E, NEW e, Later(E, e), NEW F \in SUBSET E
  PROVE  Later(F, e) /\ EventSet(F)
<1>1. F \union {e} \in SUBSET (E \union {e}) /\ F \in SUBSET (E \union {e})
  OBVIOUS
<1>2. EventSet(F \union {e}) /\ EventSet(F)
  BY <1>1, EventSubset DEF Later
<1>3. QED
  BY <1>2 DEF Later

\* e is put last, and the others are where they were.
PutLast(E, e) ==
  /\ Cardinality(E) \in Nat
  /\ Cardinality(E \union {e}) = Cardinality(E) + 1
  /\ \A i \in 1..Cardinality(E) : Ordered(E \union {e})[i] = Ordered(E)[i]
  /\ Ordered(E \union {e})[Cardinality(E) + 1] = e

\* That is so of an event later than all.
LEMMA OrderedGrows ==
  ASSUME NEW E, NEW e, Later(E, e)
  PROVE  PutLast(E, e)
<1> DEFINE n == Cardinality(E)
           F == E \union {e}
<1>1. EventSet(E) /\ EventSet(F) /\ e \notin E /\ IsFiniteSet(E)
  <2>1. EventSet(E) /\ EventSet(F) /\ e \notin E
    BY LaterThanFewer DEF Later
  <2>2. QED
    BY <2>1 DEF EventSet
<1>2. n \in Nat /\ Cardinality(F) = n + 1
  BY <1>1, FS_AddElement, FS_CardinalityType
<1>3. ASSUME NEW x \in E PROVE Rank(F, x) = Rank(E, x)
  <2>1. ~Before(e, x)
    <3>1. Before(x, e)
      BY DEF Later
    <3>2. x \in F /\ e \in F
      OBVIOUS
    <3> HIDE DEF F
    <3>3. QED
      BY <1>1, <3>1, <3>2, BeforeOrders
  <2>2. {f \in F : Before(f, x)} = {f \in E : Before(f, x)}
    BY <2>1
  <2>3. QED
    BY <2>2 DEF Rank
<1>4. Rank(F, e) = n
  <2>1. ~Before(e, e)
    <3>1. e \in F
      OBVIOUS
    <3> HIDE DEF F
    <3>2. QED
      BY <1>1, <3>1, BeforeOrders
  <2>2. {f \in F : Before(f, e)} = E
    BY <2>1 DEF Later
  <2>3. QED
    BY <2>2 DEF Rank
<1>5. ASSUME NEW i \in 1..n PROVE Ordered(F)[i] = Ordered(E)[i]
  <2> DEFINE x == Ordered(E)[i]
  <2>1. x \in E
    BY <1>1, OrderedIsSorted
  <2>2. Rank(E, x) = i - 1
    BY <1>1, <2>1, OrderedByRank
  <2>3. Rank(F, x) = i - 1 /\ x \in F
    BY <1>3, <2>1, <2>2
  <2>4. i \in 1..Cardinality(F)
    <3> HIDE DEF F, n
    <3> QED BY <1>2
  <2> HIDE DEF F, x
  <2>5. x = Ordered(F)[i]
    BY <1>1, <2>3, <2>4, OrderedByRank
  <2>6. QED
    BY <2>5 DEF x
<1>6. Ordered(F)[n + 1] = e
  <2>1. n + 1 \in 1..Cardinality(F) /\ Rank(F, e) = (n + 1) - 1
    <3> HIDE DEF F, n
    <3> QED BY <1>2, <1>4
  <2>2. e \in F
    OBVIOUS
  <2> HIDE DEF F, n
  <2>3. QED
    BY <1>1, <2>1, <2>2, OrderedByRank
<1>7. QED
  BY <1>2, <1>5, <1>6 DEF PutLast

\* A source's group gets the later event or stays as it is.
LEMMA GroupsGrow ==
  ASSUME NEW E, NEW e, NEW G \in Groups(E)
  PROVE  G \in Groups(E \union {e}) \/ G \union {e} \in Groups(E \union {e})
<1>1. PICK s \in {x.source : x \in E} : G = {x \in E : x.source = s}
  BY DEF Groups
<1>2. s \in {x.source : x \in E \union {e}}
  BY <1>1
<1>3. {x \in E \union {e} : x.source = s} \in Groups(E \union {e})
  BY <1>2 DEF Groups
<1>4. {x \in E \union {e} : x.source = s} = IF e.source = s THEN G \union {e} ELSE G
  BY <1>1
<1>5. QED
  BY <1>3, <1>4

\* What precedes a terminal in the window is what it was before a later event came.
LEMMA VisitUnchanged ==
  ASSUME NEW d, NEW G, NEW e, Later(G, e), NEW t \in G, NEW s
  PROVE  Visit(d, G \union {e}, s, t) = Visit(d, G, s, t)
<1>1. ~Before(e, t)
  <2>1. t \in G \union {e} /\ e \in G \union {e} /\ Before(t, e) /\ EventSet(G \union {e})
    BY DEF Later
  <2>2. QED
    BY <2>1, BeforeOrders
<1>2. Segment(d, G \union {e}, t) = Segment(d, G, t)
  BY <1>1 DEF Segment
<1>3. QED
  BY <1>2 DEF Visit

\* A later event leaves one source's matches of a sequence rule as they are.
LEMMA SequenceMatchesGrow ==
  ASSUME NEW d, IsDetection(d), d.type = "sequence", NEW E, NEW e, Later(E, e),
         NEW G \in Groups(E), G \union {e} \in Groups(E \union {e})
  PROVE  SequenceMatches(d, G) \subseteq SequenceMatches(d, G \union {e})
<1> DEFINE H == G \union {e}
           f == CHOOSE h : VisitedBy(h, d, G)
           q == CHOOSE h : VisitedBy(h, d, H)
           n == Cardinality(G)
           Same == [i \in 0..n |-> {f[i]}]
<1>1. EventSet(E) /\ EventSet(E \union {e})
  BY LaterThanFewer DEF Later
<1>2. VisitedBy(f, d, G) /\ VisitedBy(q, d, H)
  BY <1>1, VisitedExists
<1>3. SequenceMatches(d, G) = f[n].matches /\ SequenceMatches(d, H) = q[Cardinality(H)].matches
  BY SequenceIsVisited
<1>4. Later(G, e) /\ EventSet(G)
  BY GroupOfEvents, LaterThanFewer
<1>5. /\ n \in Nat /\ Cardinality(H) = n + 1 /\ Ordered(G) \in [1..n -> G]
      /\ \A i \in 1..n : Ordered(H)[i] = Ordered(G)[i]
  <2>1. n \in Nat /\ Ordered(G) \in [1..n -> G]
    BY <1>4, OrderedIsSorted
  <2>2. Cardinality(H) = n + 1 /\ \A i \in 1..n : Ordered(H)[i] = Ordered(G)[i]
    BY <1>4, OrderedGrows DEF PutLast
  <2>3. QED
    BY <2>1, <2>2
<1> HIDE DEF f, q
<1>6. \A i \in 0..n : f[i] = IF i = 0 THEN [consumed |-> {}, matches |-> {}]
                             ELSE Visit(d, G, f[i - 1], Ordered(G)[i])
  BY <1>2 DEF VisitedBy
<1>7. \A i \in 0..Cardinality(H) : q[i] = IF i = 0 THEN [consumed |-> {}, matches |-> {}]
                                          ELSE Visit(d, H, q[i - 1], Ordered(H)[i])
  BY <1>2 DEF VisitedBy
<1> HIDE DEF n
<1>8. q[0] \in Same[0]
  <2>1. 0 \in 0..n /\ 0 \in 0..Cardinality(H)
    <3> HIDE DEF H
    <3> QED BY <1>5
  <2>2. f[0] = q[0]
    BY <1>6, <1>7, <2>1
  <2>3. QED
    BY <2>1, <2>2
<1>9. ASSUME NEW i \in 1..n, q[i - 1] \in Same[i - 1] PROVE q[i] \in Same[i]
  <2>1. i \in 0..n /\ i - 1 \in 0..n /\ i # 0 /\ i \in 0..Cardinality(H)
    <3> HIDE DEF H
    <3> QED BY <1>5
  <2>2. q[i - 1] = f[i - 1]
    BY <1>9, <2>1
  <2>3. f[i] = Visit(d, G, f[i - 1], Ordered(G)[i])
    BY <1>6, <2>1
  <2>4. q[i] = Visit(d, H, f[i - 1], Ordered(G)[i])
    BY <1>5, <1>7, <2>1, <2>2
  <2>5. Ordered(G)[i] \in G
    BY <1>5
  <2>6. q[i] = f[i]
    BY <1>4, <2>3, <2>4, <2>5, VisitUnchanged
  <2>7. QED
    BY <2>1, <2>6
<1>10. q[n] = f[n]
  <2> HIDE DEF Same
  <2>1. \A i \in 0..n : q[i] \in Same[i]
    BY <1>5, <1>8, <1>9, StepsKeep
  <2>2. n \in 0..n
    BY <1>5
  <2>3. QED
    BY <2>1, <2>2 DEF Same
<1>11. f[n].matches \subseteq q[n + 1].matches
  <2>1. n + 1 \in 0..Cardinality(H) /\ n + 1 # 0 /\ (n + 1) - 1 = n
    <3> HIDE DEF H
    <3> QED BY <1>5
  <2>2. q[n + 1] = Visit(d, H, f[n], Ordered(H)[n + 1])
    BY <1>7, <1>10, <2>1
  <2>3. QED
    BY <2>2 DEF Visit
<1>12. QED
  BY <1>3, <1>5, <1>11

\* A later event takes none of the matches of a sequence rule away.
LEMMA SequenceGrows ==
  ASSUME NEW d, IsDetection(d), d.type = "sequence", NEW E, NEW e, Later(E, e)
  PROVE  EvaluateSequence(d, E) \subseteq EvaluateSequence(d, E \union {e})
<1>1. SUFFICES ASSUME NEW G \in Groups(E)
               PROVE  SequenceMatches(d, G) \subseteq EvaluateSequence(d, E \union {e})
  BY DEF EvaluateSequence
<1>2. CASE G \in Groups(E \union {e})
  BY <1>2 DEF EvaluateSequence
<1>3. CASE G \union {e} \in Groups(E \union {e})
  <2>1. SequenceMatches(d, G) \subseteq SequenceMatches(d, G \union {e})
    BY <1>3, SequenceMatchesGrow
  <2>2. QED
    BY <1>3, <2>1 DEF EvaluateSequence
<1>4. QED
  BY <1>2, <1>3, GroupsGrow

\* Nor of those of a single-event rule.
LEMMA SingleGrows ==
  ASSUME NEW d, NEW E, NEW F, E \subseteq F
  PROVE  EvaluateSingle(d, E) \subseteq EvaluateSingle(d, F)
BY DEF EvaluateSingle, Matching, Ids

\* Induction from n down: a number is in P when all above it are.
LEMMA Downward ==
  ASSUME NEW n \in Nat, NEW P \in SUBSET (1..n),
         \A i \in 1..n : (\A j \in 1..n : j > i => j \in P) => i \in P
  PROVE  P = 1..n
<1> DEFINE S == {m \in Nat : \A i \in 1..n : i + m > n => i \in P}
<1>1. 0 \in S
  OBVIOUS
<1>2. ASSUME NEW m \in S PROVE m + 1 \in S
  <2>1. m \in Nat /\ \A i \in 1..n : i + m > n => i \in P
    OBVIOUS
  <2>2. ASSUME NEW i \in 1..n, i + (m + 1) > n PROVE i \in P
    <3>1. \A j \in 1..n : j > i => j + m > n
      BY <2>1, <2>2
    <3>2. QED
      BY <2>1, <3>1
  <2>3. QED
    BY <2>1, <2>2
<1>3. S = Nat
  <2>1. S \in SUBSET Nat
    OBVIOUS
  <2> HIDE DEF S
  <2>2. QED
    BY <1>1, <1>2, <2>1, AllNumbers
<1>4. n \in S
  BY <1>3
<1>5. \A i \in 1..n : i + n > n => i \in P
  BY <1>4
<1>6. \A i \in 1..n : i \in P
  BY <1>5
<1>7. QED
  <2> HIDE DEF S
  <2> QED BY <1>6

\* What a chain says of its values.
Links(f, n, k, stop, cite) ==
  /\ f[n + 1] = {}
  /\ \A i \in 1..n : /\ i + 1 \in 1..n + 1 /\ stop[i] \in 1..n + 1
                     /\ stop[i] - i >= k => stop[i] > i /\ f[i] = {cite[i]} \union f[stop[i]]
                     /\ ~(stop[i] - i >= k) => f[i] = f[i + 1]

\* It is so of every chain.
LEMMA ChainLinks ==
  ASSUME NEW n \in Nat, NEW k \in Nat \ {0}, NEW stop \in [1..n -> 1..n + 1], NEW cite,
         NEW f, Chain(f, n, k, stop, cite)
  PROVE  Links(f, n, k, stop, cite)
<1>1. \A i \in 1..n + 1 :
        f[i] = IF i > n THEN {}
               ELSE IF stop[i] - i >= k THEN {cite[i]} \union f[stop[i]] ELSE f[i + 1]
  BY DEF Chain
<1>2. n + 1 \in 1..n + 1 /\ n + 1 > n
  OBVIOUS
<1>3. ASSUME NEW i \in 1..n
      PROVE  i \in 1..n + 1 /\ ~(i > n) /\ i + 1 \in 1..n + 1 /\ stop[i] \in 1..n + 1
             /\ (stop[i] - i >= k => stop[i] > i)
  OBVIOUS
<1>4. QED
  BY <1>1, <1>2, <1>3 DEF Links

\* A longer chain, whose stops differ only where they were at the end, collects more.
LEMMA ChainGrows ==
  ASSUME NEW n \in Nat, NEW k \in Nat \ {0},
         NEW stop \in [1..n -> 1..n + 1], NEW more \in [1..n + 1 -> 1..n + 2],
         \A i, j \in 1..n : i <= j => stop[i] <= stop[j],
         \A i \in 1..n : IF stop[i] <= n THEN more[i] = stop[i] ELSE more[i] \in n + 1..n + 2,
         NEW cite, NEW cites, \A i \in 1..n : stop[i] - i >= k => cites[i] = cite[i],
         NEW f, Chain(f, n, k, stop, cite), NEW q, Chain(q, n + 1, k, more, cites)
  PROVE  f[1] \subseteq q[1]
<1>1. /\ f[n + 1] = {}
      /\ \A i \in 1..n : /\ i + 1 \in 1..n + 1 /\ stop[i] \in 1..n + 1
                         /\ stop[i] - i >= k => stop[i] > i /\ f[i] = {cite[i]} \union f[stop[i]]
                         /\ ~(stop[i] - i >= k) => f[i] = f[i + 1]
  <2>1. Links(f, n, k, stop, cite)
    BY ChainLinks
  <2>2. QED
    BY <2>1 DEF Links
<1>2. \A i \in 1..n + 1 : /\ more[i] - i >= k => q[i] = {cites[i]} \union q[more[i]]
                          /\ ~(more[i] - i >= k) => q[i] = q[i + 1]
  <2>1. more \in [1..n + 1 -> 1..(n + 1) + 1] /\ n + 1 \in Nat
    <3>1. (n + 1) + 1 = n + 2
      OBVIOUS
    <3>2. QED
      BY <3>1
  <2>2. Links(q, n + 1, k, more, cites)
    BY <2>1, ChainLinks
  <2>3. QED
    BY <2>2 DEF Links
<1> DEFINE Last_(i) == stop[i] = n + 1 /\ ~(n + 1 - i >= k)
           P == {i \in 1..n + 1 : f[i] \subseteq q[i] /\ (i \in 1..n /\ Last_(i) => f[i] = {})}
<1>3. ASSUME NEW i \in 1..n + 1, \A j \in 1..n + 1 : j > i => j \in P
      PROVE  i \in P
  <2>1. CASE i = n + 1
    BY <1>1, <2>1
  <2>2. CASE i \in 1..n
    <3>1. i + 1 \in 1..n + 1 /\ i + 1 > i /\ i + 1 \in P
      BY <1>3, <2>2
    <3>2. ASSUME Last_(i) PROVE f[i] = {}
      <4>1. f[i] = f[i + 1]
        BY <1>1, <2>2, <3>2
      <4>2. CASE i + 1 = n + 1
        BY <1>1, <4>1, <4>2
      <4>3. CASE i + 1 \in 1..n
        <5>1. stop[i + 1] = n + 1
          <6>1. stop[i + 1] \in 1..n + 1 /\ stop[i] <= stop[i + 1]
            BY <1>1, <2>2, <4>3
          <6>2. QED
            BY <3>2, <6>1
        <5>2. ~(n + 1 - (i + 1) >= k)
          BY <3>2
        <5>3. QED
          BY <3>1, <4>1, <4>3, <5>1, <5>2
      <4>4. QED
        BY <3>1, <4>2, <4>3
    <3>3. f[i] \subseteq q[i]
      <4>1. CASE stop[i] - i >= k
        <5>1. more[i] - i >= k /\ (stop[i] # n + 1 => more[i] = stop[i])
          <6>1. stop[i] \in 1..n + 1 /\ (IF stop[i] <= n THEN more[i] = stop[i] ELSE more[i] \in n + 1..n + 2)
            BY <2>2
          <6>2. stop[i] = n + 1 => more[i] \in n + 1..n + 2
            BY <6>1
          <6>3. stop[i] # n + 1 => more[i] = stop[i]
            BY <6>1
          <6>4. QED
            BY <2>2, <4>1, <6>2, <6>3
        <5>2. q[i] = {cite[i]} \union q[more[i]]
          BY <1>2, <2>2, <4>1, <5>1
        <5>3. f[i] = {cite[i]} \union f[stop[i]] /\ stop[i] > i /\ stop[i] \in 1..n + 1
          BY <1>1, <2>2, <4>1
        <5>4. f[stop[i]] \subseteq q[more[i]]
          <6>1. CASE stop[i] = n + 1
            BY <1>1, <6>1
          <6>2. CASE stop[i] # n + 1
            BY <1>3, <5>1, <5>3, <6>2
          <6>3. QED
            BY <6>1, <6>2
        <5>5. QED
          BY <5>2, <5>3, <5>4
      <4>2. CASE ~(stop[i] - i >= k) /\ ~(more[i] - i >= k)
        <5>1. f[i] = f[i + 1] /\ q[i] = q[i + 1]
          BY <1>1, <1>2, <2>2, <4>2
        <5>2. QED
          BY <3>1, <5>1
      <4>3. CASE ~(stop[i] - i >= k) /\ more[i] - i >= k
        <5>1. stop[i] = n + 1
          <6>1. stop[i] \in 1..n + 1 /\ (stop[i] <= n => more[i] = stop[i])
            BY <2>2
          <6>2. QED
            BY <4>3, <6>1
        <5>2. QED
          BY <3>2, <4>3, <5>1
      <4>4. QED
        BY <4>1, <4>2, <4>3
    <3>4. QED
      BY <3>2, <3>3
  <2>3. QED
    BY <2>1, <2>2
<1>4. P = 1..n + 1
  <2>1. P \in SUBSET (1..n + 1) /\ n + 1 \in Nat
    OBVIOUS
  <2> HIDE DEF P
  <2>2. QED
    BY <1>3, <2>1, Downward
<1>5. 1 \in 1..n + 1
  OBVIOUS
<1>6. QED
  BY <1>4, <1>5

\* A later event moves no stop but those that were at the end.
LEMMA StopsGrow ==
  ASSUME NEW d, d.within_seconds \in Int, NEW G, NEW e, Later(G, e), NEW p \in 1..Cardinality(G)
  PROVE  LET n == Cardinality(G)
             stop == BurstStops(d, Ordered(G), n)
             more == BurstStops(d, Ordered(G \union {e}), n + 1)
         IN  IF stop[p] <= n THEN more[p] = stop[p] ELSE more[p] \in n + 1..n + 2
<1> DEFINE n == Cardinality(G)
           H == G \union {e}
           g == Ordered(G)
           h == Ordered(H)
           b == BurstEnd(d, g, p)
           c == BurstEnd(d, h, p)
<1>1. EventSet(G) /\ EventSet(H)
  BY LaterThanFewer DEF Later
<1>2. n \in Nat /\ Cardinality(H) = n + 1 /\ \A j \in 1..n : h[j] = g[j]
  <2>1. PutLast(G, e)
    BY OrderedGrows
  <2>2. QED
    BY <2>1 DEF PutLast
<1>3. Len(g) = n /\ Len(h) = n + 1
  BY <1>1, <1>2, LengthOfOrdered
<1>4. \A j \in 1..n : g[j].occurred_at \in Int
  BY <1>1, TimesInOrder
<1>5. \A j \in 1..n + 1 : h[j].occurred_at \in Int
  <2>1. \A j \in 1..Cardinality(H) : h[j].occurred_at \in Int
    BY <1>1, TimesInOrder
  <2> HIDE DEF h, n, H
  <2>2. QED
    BY <1>2, <2>1
<1> HIDE DEF n, H, g, h
<1>6. /\ b \in p..n + 1
      /\ \A j \in p..n : j < b => g[j].occurred_at - g[p].occurred_at <= d.within_seconds
      /\ b <= n => g[b].occurred_at - g[p].occurred_at > d.within_seconds
  <2>1. p \in 1..n
    BY DEF n
  <2>2. QED
    BY <1>2, <1>3, <1>4, <2>1, BurstSplits
<1>7. /\ c \in p..n + 2
      /\ \A j \in p..n + 1 : j < c => h[j].occurred_at - h[p].occurred_at <= d.within_seconds
      /\ c <= n + 1 => h[c].occurred_at - h[p].occurred_at > d.within_seconds
  <2>1. p \in 1..n + 1 /\ n + 1 \in Nat /\ (n + 1) + 1 = n + 2
    BY <1>2 DEF n
  <2>2. /\ c \in p..(n + 1) + 1
        /\ \A j \in p..n + 1 : j < c => h[j].occurred_at - h[p].occurred_at <= d.within_seconds
        /\ c <= n + 1 => h[c].occurred_at - h[p].occurred_at > d.within_seconds
    BY <1>3, <1>5, <2>1, BurstSplits
  <2>3. QED
    BY <2>1, <2>2
<1> HIDE DEF b, c
<1>8. p \in 1..n /\ b \in Int /\ c \in Int /\ p \in Int
  BY <1>2, <1>6, <1>7 DEF n
<1>9. ~(c < b /\ c <= n)
  <2>1. SUFFICES ASSUME c < b, c <= n PROVE FALSE
    OBVIOUS
  <2>2. c \in p..n /\ c \in 1..n /\ c <= n + 1
    BY <1>2, <1>7, <1>8, <2>1
  <2>3. /\ g[c].occurred_at - g[p].occurred_at <= d.within_seconds
        /\ g[c].occurred_at - g[p].occurred_at > d.within_seconds
    BY <1>2, <1>6, <1>7, <1>8, <2>1, <2>2
  <2>4. g[c].occurred_at \in Int /\ g[p].occurred_at \in Int
    BY <1>4, <1>8, <2>2
  <2>5. QED
    BY <2>3, <2>4
<1>10. b <= n => ~(b < c)
  <2>1. SUFFICES ASSUME b < c, b <= n PROVE FALSE
    OBVIOUS
  <2>2. b \in p..n + 1 /\ b \in 1..n
    BY <1>2, <1>6, <1>8, <2>1
  <2>3. /\ g[b].occurred_at - g[p].occurred_at <= d.within_seconds
        /\ g[b].occurred_at - g[p].occurred_at > d.within_seconds
    BY <1>2, <1>6, <1>7, <1>8, <2>1, <2>2
  <2>4. g[b].occurred_at \in Int /\ g[p].occurred_at \in Int
    BY <1>4, <1>8, <2>2
  <2>5. QED
    BY <2>3, <2>4
<1>11. IF b <= n THEN c = b ELSE c \in n + 1..n + 2
  <2>1. CASE b <= n
    <3>1. ~(b < c) /\ ~(c < b)
      BY <1>2, <1>8, <1>9, <1>10, <2>1
    <3>2. c = b
      BY <1>8, <3>1
    <3>3. QED
      BY <2>1, <3>2
  <2>2. CASE ~(b <= n)
    <3>1. b = n + 1
      BY <1>2, <1>6, <1>8, <2>2
    <3>2. ~(c <= n)
      BY <1>2, <1>8, <1>9, <3>1
    <3>3. c \in n + 1..n + 2
      BY <1>2, <1>7, <1>8, <3>2
    <3>4. QED
      BY <2>2, <3>3
  <2>3. QED
    BY <2>1, <2>2
<1>12. BurstStops(d, g, n)[p] = b /\ BurstStops(d, h, n + 1)[p] = c
  <2>1. p \in 1..n + 1
    BY <1>2, <1>8
  <2>2. QED
    BY <1>8, <2>1 DEF BurstStops, b, c
<1>13. QED
  BY <1>11, <1>12 DEF n, g, h, H

\* A later event takes none of one source's matches of a threshold rule away.
LEMMA ThresholdMatchesGrow ==
  ASSUME NEW d, IsDetection(d), d.type = "threshold", NEW G, NEW e, Later(G, e)
  PROVE  ThresholdMatches(d, G) \subseteq ThresholdMatches(d, G \union {e})
<1> DEFINE n == Cardinality(G)
           H == G \union {e}
           g == Ordered(G)
           h == Ordered(H)
           k == d.min_count
           stop == BurstStops(d, g, n)
           more == BurstStops(d, h, n + 1)
           cite == BurstIds(d, g, n)
           cites == BurstIds(d, h, n + 1)
<1>1. EventSet(G) /\ EventSet(H)
  BY LaterThanFewer DEF Later
<1>2. n \in Nat /\ Cardinality(H) = n + 1 /\ \A j \in 1..n : h[j] = g[j]
  <2>1. PutLast(G, e)
    BY OrderedGrows
  <2>2. QED
    BY <2>1 DEF PutLast
<1>3. k \in Nat \ {0} /\ d.within_seconds \in Int
  BY DEF IsDetection
<1>4. stop \in [1..n -> 1..n + 1] /\ \A i, j \in 1..n : i <= j => stop[i] <= stop[j]
  BY <1>1, <1>3, BurstsStop
<1>5. more \in [1..n + 1 -> 1..n + 2]
  <2>1. BurstStops(d, h, Cardinality(H)) \in [1..Cardinality(H) -> 1..Cardinality(H) + 1]
    BY <1>1, <1>3, BurstsStop
  <2> HIDE DEF h, n, H
  <2>2. (n + 1) + 1 = n + 2
    BY <1>2
  <2>3. QED
    BY <1>2, <2>1, <2>2
<1>6. \A i \in 1..n : IF stop[i] <= n THEN more[i] = stop[i] ELSE more[i] \in n + 1..n + 2
  BY <1>3, StopsGrow
<1>7. ASSUME NEW i \in 1..n, stop[i] - i >= k PROVE cites[i] = cite[i]
  <2>1. stop[i] \in 1..n + 1 /\ i \in 1..n + 1
    BY <1>2, <1>4
  <2>2. cite[i] = {x.id : x \in BurstCites(d, g, i)} /\ cites[i] = {x.id : x \in BurstCites(d, h, i)}
    BY <2>1 DEF BurstIds
  <2> HIDE DEF g, h, n, stop
  <2>3. \A j \in i..i + k - 1 : j \in 1..n
    BY <1>2, <1>3, <1>7, <2>1
  <2>4. \A j \in i..i + k - 1 : h[j] = g[j]
    BY <1>2, <2>3
  <2>5. BurstCites(d, g, i) = BurstCites(d, h, i)
    BY <2>4 DEF BurstCites
  <2>6. QED
    BY <2>2, <2>5
<1>8. PICK f : Chain(f, n, k, stop, cite) /\ ThresholdMatches(d, G) = f[1]
  BY <1>1, ThresholdIsChain
<1>9. PICK q : Chain(q, n + 1, k, more, cites) /\ ThresholdMatches(d, H) = q[1]
  <2>1. \E q : /\ Chain(q, Cardinality(H), k, BurstStops(d, h, Cardinality(H)),
                        BurstIds(d, h, Cardinality(H)))
               /\ ThresholdMatches(d, H) = q[1]
    BY <1>1, ThresholdIsChain
  <2> HIDE DEF h, n, H
  <2>2. QED
    BY <1>2, <2>1
<1>10. f[1] \subseteq q[1]
  <2> HIDE DEF g, h, n, H, k, stop, more, cite, cites
  <2> QED BY <1>2, <1>3, <1>4, <1>5, <1>6, <1>7, <1>8, <1>9, ChainGrows
<1>11. QED
  BY <1>8, <1>9, <1>10

\* Nor any match of the rule.
LEMMA ThresholdGrows ==
  ASSUME NEW d, IsDetection(d), d.type = "threshold", NEW E, NEW e, Later(E, e)
  PROVE  EvaluateThreshold(d, E) \subseteq EvaluateThreshold(d, E \union {e})
<1> DEFINE M == Matching(E, d.match)
           N == Matching(E \union {e}, d.match)
<1>1. SUFFICES ASSUME NEW G \in Groups(M) PROVE ThresholdMatches(d, G) \subseteq EvaluateThreshold(d, E \union {e})
  BY DEF EvaluateThreshold
<1>2. \A H \in Groups(N) : ThresholdMatches(d, H) \subseteq EvaluateThreshold(d, E \union {e})
  BY DEF EvaluateThreshold
<1>3. N = M \/ N = M \union {e}
  BY DEF Matching
<1>4. G \in Groups(N) \/ G \union {e} \in Groups(N)
  <2> HIDE DEF M, N
  <2> QED BY <1>3, GroupsGrow
<1>5. G \in SUBSET E
  BY GroupOfEvents DEF Matching
<1>6. ThresholdMatches(d, G) \subseteq ThresholdMatches(d, G \union {e})
  BY <1>5, LaterThanFewer, ThresholdMatchesGrow
<1>7. QED
  BY <1>2, <1>4, <1>6

\* Induction from 0 up to n.
LEMMA Upward ==
  ASSUME NEW n \in Nat, NEW P \in SUBSET (0..n), 0 \in P, \A i \in 1..n : i - 1 \in P => i \in P
  PROVE  P = 0..n
<1> DEFINE S == {m \in Nat : m <= n => m \in P}
<1>1. ASSUME NEW m \in S PROVE m + 1 \in S
  <2>1. CASE m + 1 <= n
    <3>1. m + 1 \in 1..n /\ (m + 1) - 1 \in P
      BY <2>1
    <3>2. QED
      BY <3>1
  <2>2. CASE ~(m + 1 <= n)
    BY <2>2
  <2>3. QED
    BY <2>1, <2>2
<1>2. S = Nat
  <2>1. S \in SUBSET Nat /\ 0 \in S
    OBVIOUS
  <2> HIDE DEF S
  <2>2. QED
    BY <1>1, <2>1, AllNumbers
<1>3. \A i \in 0..n : i \in S
  BY <1>2
<1>4. \A i \in 0..n : i \in P
  BY <1>3
<1>5. QED
  <2> HIDE DEF S
  <2> QED BY <1>4

\* An arm cites something when its window holds enough.
LEMMA ArmFull ==
  ASSUME NEW d, NEW arm, NEW E, EventSet(E), NEW start, arm.min_count \in Nat \ {0}
  PROVE  /\ EventSet(InWindow(d, arm, E, start))
         /\ Cardinality(InWindow(d, arm, E, start)) \in Nat
         /\ ArmCites(d, arm, E, start) # {} <=>
              Cardinality(InWindow(d, arm, E, start)) >= arm.min_count
<1> DEFINE W == InWindow(d, arm, E, start)
           k == arm.min_count
<1>1. W \in SUBSET E
  BY DEF InWindow, Matching
<1>2. EventSet(W) /\ Cardinality(W) \in Nat
  <2>1. EventSet(W)
    BY <1>1, EventSubset
  <2>2. QED
    BY <2>1, OrderedIsSorted
<1>3. ArmCites(d, arm, E, start) = IF Cardinality(W) < k THEN {} ELSE Earliest(W, k)
  BY DEF ArmCites
<1> HIDE DEF W
<1>4. CASE Cardinality(W) < k
  BY <1>2, <1>3, <1>4 DEF W
<1>5. CASE ~(Cardinality(W) < k)
  <2>1. k \in Nat /\ k <= Cardinality(W) /\ k # 0
    BY <1>2, <1>5
  <2>2. Cardinality(Earliest(W, k)) = k
    BY <1>2, <2>1, EarliestCounted
  <2>3. Earliest(W, k) # {}
    BY <2>1, <2>2, FS_EmptySet
  <2>4. QED
    BY <1>2, <1>3, <1>5, <2>1, <2>3 DEF W
<1>6. QED
  BY <1>4, <1>5

\* What an arm cites stays what it cites: a later event comes after enough others.
LEMMA ArmCitesStay ==
  ASSUME NEW d, NEW arm, NEW E, NEW e, Later(E, e), NEW start, arm.min_count \in Nat \ {0},
         ArmCites(d, arm, E, start) # {}
  PROVE  ArmCites(d, arm, E \union {e}, start) = ArmCites(d, arm, E, start)
<1> DEFINE F == E \union {e}
           W == InWindow(d, arm, E, start)
           Y == InWindow(d, arm, F, start)
           k == arm.min_count
<1>1. EventSet(E) /\ EventSet(F)
  BY LaterThanFewer DEF Later
<1>2. W \in SUBSET E /\ (Y = W \/ Y = W \union {e})
  BY DEF InWindow, Matching
<1>3. Cardinality(W) >= k /\ Cardinality(W) \in Nat
  BY <1>1, ArmFull
<1>4. ArmCites(d, arm, E, start) = Earliest(W, k)
  BY <1>3 DEF ArmCites
<1>5. CASE Y = W
  BY <1>5 DEF ArmCites
<1>6. CASE Y = W \union {e}
  <2>1. Later(W, e)
    BY <1>2, LaterThanFewer
  <2>2. PutLast(W, e)
    BY <2>1, OrderedGrows
  <2>3. Cardinality(Y) = Cardinality(W) + 1
    BY <1>6, <2>2 DEF PutLast
  <2>4. ArmCites(d, arm, F, start) = Earliest(Y, k)
    <3>1. ~(Cardinality(Y) < k)
      <4> HIDE DEF Y, W
      <4> QED BY <1>3, <2>3
    <3>2. QED
      BY <3>1 DEF ArmCites
  <2>5. \A x \in W : ~Before(e, x)
    <3>1. \A x \in W : Before(x, e) /\ x \in W \union {e} /\ e \in W \union {e} /\ EventSet(W \union {e})
      BY <2>1 DEF Later
    <3>2. QED
      BY <3>1, BeforeOrders
  <2>6. \A x \in W : {f \in Y : Before(f, x)} = {f \in W : Before(f, x)}
    BY <1>6, <2>5
  <2>7. {f \in Y : Before(f, e)} = W
    <3>1. ~Before(e, e)
      <4>1. EventSet(W \union {e}) /\ e \in W \union {e}
        BY <2>1 DEF Later
      <4>2. QED
        BY <4>1, BeforeOrders
    <3>2. QED
      BY <1>6, <2>1, <3>1 DEF Later
  <2>8. ~(Cardinality({f \in Y : Before(f, e)}) < k)
    <3> HIDE DEF Y, W
    <3> QED BY <1>3, <2>7
  <2>9. Earliest(Y, k) = Earliest(W, k)
    <3>1. \A x \in W : Cardinality({f \in Y : Before(f, x)}) < k <=> Cardinality({f \in W : Before(f, x)}) < k
      BY <2>6
    <3> HIDE DEF Y, W
    <3>2. QED
      BY <1>6, <2>8, <3>1 DEF Earliest
  <2>10. QED
    BY <1>4, <2>4, <2>9
<1>7. QED
  BY <1>2, <1>5, <1>6

\* When a later event fills a window, no window that starts later was full.
LEMMA ArmFilledLast ==
  ASSUME NEW d, NEW arm, NEW E, NEW e, Later(E, e), arm.min_count \in Nat \ {0},
         d.within_seconds \in Int, NEW s \in Int, NEW t \in Int, s <= t,
         ArmCites(d, arm, E, s) = {}, ArmCites(d, arm, E \union {e}, s) # {}
  PROVE  ArmCites(d, arm, E, t) = {}
<1> DEFINE F == E \union {e}
           W == InWindow(d, arm, E, s)
           Y == InWindow(d, arm, F, s)
           X == InWindow(d, arm, E, t)
<1>1. EventSet(E) /\ EventSet(F)
  BY LaterThanFewer DEF Later
<1>2. ~(Cardinality(W) >= arm.min_count) /\ Cardinality(Y) >= arm.min_count /\ Cardinality(W) \in Nat
  BY <1>1, ArmFull
<1>3. e \in Y
  <2>1. SUFFICES ASSUME e \notin Y PROVE FALSE
    OBVIOUS
  <2>2. Y = W
    BY <2>1 DEF InWindow, Matching
  <2>3. QED
    BY <1>2, <2>2
<1>4. e.occurred_at <= s + d.within_seconds /\ e.occurred_at \in Int
  BY <1>1, <1>3 DEF InWindow, EventSet
<1>5. X \in SUBSET W
  <2>1. SUFFICES ASSUME NEW x \in X PROVE x \in W
    OBVIOUS
  <2>2. x \in E /\ Satisfies(x, arm.match) /\ t <= x.occurred_at
    BY DEF InWindow, Matching
  <2>3. Before(x, e) /\ x.occurred_at \in Int
    BY <1>1, <2>2 DEF Later, EventSet
  <2>4. x.occurred_at <= e.occurred_at
    BY <1>4, <2>3 DEF Before
  <2>5. s <= x.occurred_at /\ x.occurred_at <= s + d.within_seconds
    BY <1>4, <2>2, <2>3, <2>4
  <2>6. QED
    BY <2>2, <2>5 DEF InWindow, Matching
<1>6. IsFiniteSet(W) /\ Cardinality(X) <= Cardinality(W) /\ Cardinality(X) \in Nat
  <2>1. EventSet(W) /\ Cardinality(X) \in Nat
    BY <1>1, ArmFull
  <2>2. IsFiniteSet(W)
    BY <2>1 DEF EventSet
  <2> HIDE DEF W, X
  <2>3. QED
    BY <1>5, <2>1, <2>2, FS_Subset
<1>7. ~(Cardinality(X) >= arm.min_count)
  <2> HIDE DEF W, Y, X
  <2> QED BY <1>2, <1>6
<1>8. QED
  BY <1>1, <1>7, ArmFull

\* Some arm of the window that starts at a lacks events.
Lacking(d, E, a) == \E i \in 1..Len(d.arms) : WindowCites(d, E)[a][i] = {}

\* A full window stays what it is.
LEMMA CitesStay ==
  ASSUME NEW d, IsDetection(d), d.type = "correlation", NEW E, NEW e, Later(E, e),
         NEW a \in Anchors(d, E), ~Lacking(d, E, a)
  PROVE  WindowCites(d, E \union {e})[a] = WindowCites(d, E)[a]
<1> DEFINE F == E \union {e}
<1>1. a \in Anchors(d, F)
  BY DEF Anchors
<1>2. WindowCites(d, E)[a] = [i \in 1..Len(d.arms) |-> ArmCites(d, d.arms[i], E, a.occurred_at)]
  BY DEF WindowCites
<1>3. WindowCites(d, F)[a] = [i \in 1..Len(d.arms) |-> ArmCites(d, d.arms[i], F, a.occurred_at)]
  BY <1>1 DEF WindowCites
<1>4. ASSUME NEW i \in 1..Len(d.arms)
      PROVE  ArmCites(d, d.arms[i], F, a.occurred_at) = ArmCites(d, d.arms[i], E, a.occurred_at)
  <2>1. ArmCites(d, d.arms[i], E, a.occurred_at) # {}
    BY <1>2 DEF Lacking
  <2>2. d.arms[i].min_count \in Nat \ {0}
    BY DEF IsDetection
  <2>3. QED
    BY <2>1, <2>2, ArmCitesStay
<1>5. QED
  BY <1>2, <1>3, <1>4

\* When a later event fills the window from a, those that start after it were lacking.
LEMMA FilledLast ==
  ASSUME NEW d, IsDetection(d), d.type = "correlation", NEW E, NEW e, Later(E, e),
         NEW a \in Anchors(d, E), Lacking(d, E, a), ~Lacking(d, E \union {e}, a),
         NEW b \in Anchors(d, E), a.occurred_at <= b.occurred_at
  PROVE  Lacking(d, E, b)
<1> DEFINE F == E \union {e}
<1>1. a \in Anchors(d, F) /\ a \in E /\ b \in E
  BY DEF Anchors
<1>2. \A i \in 1..Len(d.arms) :
        /\ WindowCites(d, E)[a][i] = ArmCites(d, d.arms[i], E, a.occurred_at)
        /\ WindowCites(d, E)[b][i] = ArmCites(d, d.arms[i], E, b.occurred_at)
  BY DEF WindowCites
<1>3. \A i \in 1..Len(d.arms) : WindowCites(d, F)[a][i] = ArmCites(d, d.arms[i], F, a.occurred_at)
  BY <1>1 DEF WindowCites
<1>4. PICK i \in 1..Len(d.arms) : WindowCites(d, E)[a][i] = {}
  BY DEF Lacking
<1>5. ArmCites(d, d.arms[i], E, a.occurred_at) = {} /\ ArmCites(d, d.arms[i], F, a.occurred_at) # {}
  BY <1>2, <1>3, <1>4 DEF Lacking
<1>6. d.arms[i].min_count \in Nat \ {0} /\ d.within_seconds \in Int
  BY DEF IsDetection
<1>7. a.occurred_at \in Int /\ b.occurred_at \in Int
  BY <1>1, LaterThanFewer DEF EventSet
<1>8. ArmCites(d, d.arms[i], E, b.occurred_at) = {}
  BY <1>5, <1>6, <1>7, ArmFilledLast
<1>9. QED
  BY <1>2, <1>8 DEF Lacking

\* A later event takes none of the matches of a correlation rule away.
LEMMA CorrelationGrows ==
  ASSUME NEW d, IsDetection(d), d.type = "correlation", NEW E, NEW e, Later(E, e)
  PROVE  EvaluateCorrelation(d, E) \subseteq EvaluateCorrelation(d, E \union {e})
<1> DEFINE F == E \union {e}
           A == Anchors(d, E)
           B == Anchors(d, F)
           n == Cardinality(A)
           g == Ordered(A)
           f == CHOOSE h : TriedBy(h, d, E)
           q == CHOOSE h : TriedBy(h, d, F)
           Claim(j) == \/ q[j] = f[j]
                       \/ /\ f[j].matches \subseteq q[j].matches
                          /\ \A l \in 1..n : l > j => Lacking(d, E, g[l])
           P == {j \in 0..n : Claim(j)}
<1>1. EventSet(E) /\ EventSet(F)
  BY LaterThanFewer DEF Later
<1>2. A \in SUBSET E /\ A \subseteq B /\ (B = A \/ B = A \union {e})
  BY DEF Anchors
<1>3. EventSet(A) /\ n \in Nat /\ g \in [1..n -> A]
  <2>1. EventSet(A)
    BY <1>1, <1>2, EventSubset
  <2>2. QED
    BY <2>1, OrderedIsSorted
<1>4. Cardinality(B) \in n..n + 1 /\ \A j \in 1..n : Ordered(B)[j] = g[j]
  <2>1. CASE B = A
    <3>1. Cardinality(B) = n /\ Ordered(B) = g
      BY <2>1
    <3> HIDE DEF A, B, n, g
    <3>2. QED
      BY <1>3, <3>1
  <2>2. CASE B = A \union {e}
    <3>1. PutLast(A, e)
      BY <1>2, LaterThanFewer, OrderedGrows
    <3>2. Cardinality(B) = n + 1 /\ \A j \in 1..n : Ordered(B)[j] = g[j]
      BY <2>2, <3>1 DEF PutLast
    <3> HIDE DEF A, B, n, g
    <3>3. QED
      BY <1>3, <3>2
  <2>3. QED
    BY <1>2, <2>1, <2>2
<1>5. TriedBy(f, d, E) /\ TriedBy(q, d, F)
  BY <1>1, TriedExists
<1>6. EvaluateCorrelation(d, E) = f[n].matches /\ EvaluateCorrelation(d, F) = q[Cardinality(B)].matches
  BY CorrelationIsTried
<1> HIDE DEF f, q
<1>7. \A i \in 0..n : f[i] = IF i = 0 THEN [covered_until |-> {}, matches |-> {}] ELSE
        Try(d, f[i - 1], g[i], WindowCites(d, E)[g[i]])
  BY <1>5 DEF TriedBy
<1>8. \A i \in 0..Cardinality(B) : q[i] = IF i = 0 THEN [covered_until |-> {}, matches |-> {}] ELSE
        Try(d, q[i - 1], Ordered(B)[i], WindowCites(d, F)[Ordered(B)[i]])
  BY <1>5 DEF TriedBy
<1>9. \A s, a, c : s.matches \subseteq Try(d, s, a, c).matches
  BY DEF Try
<1>10. \A s, a : Lacking(d, E, a) => Try(d, s, a, WindowCites(d, E)[a]) = s
  BY DEF Try, Lacking
<1>11. \A s, a : Lacking(d, F, a) => Try(d, s, a, WindowCites(d, F)[a]) = s
  BY DEF Try, Lacking
<1>12. \A i, j \in 1..n : i <= j => g[i].occurred_at <= g[j].occurred_at
  BY <1>3, TimesInOrder
<1> HIDE DEF A, B, F, n, g
<1>13. 0 \in P
  <2>1. 0 \in 0..n /\ 0 \in 0..Cardinality(B)
    BY <1>3, <1>4
  <2>2. q[0] = f[0]
    BY <1>7, <1>8, <2>1
  <2>3. QED
    BY <2>1, <2>2
<1>14. ASSUME NEW j \in 1..n, j - 1 \in P PROVE j \in P
  <2> DEFINE a == g[j]
  <2>1. j \in 0..n /\ j # 0 /\ j \in 0..Cardinality(B) /\ j - 1 \in 0..n /\ a \in A
    BY <1>3, <1>4
  <2>2. f[j] = Try(d, f[j - 1], a, WindowCites(d, E)[a])
    BY <1>7, <2>1
  <2>3. q[j] = Try(d, q[j - 1], a, WindowCites(d, F)[a])
    BY <1>4, <1>8, <2>1
  <2> HIDE DEF a
  <2>4. CASE q[j - 1] = f[j - 1] /\ ~Lacking(d, E, a)
    <3>1. WindowCites(d, F)[a] = WindowCites(d, E)[a]
      BY <2>1, <2>4, CitesStay DEF A, F
    <3>2. q[j] = f[j]
      BY <2>2, <2>3, <2>4, <3>1
    <3>3. QED
      BY <2>1, <3>2
  <2>5. CASE q[j - 1] = f[j - 1] /\ Lacking(d, E, a) /\ Lacking(d, F, a)
    <3>1. q[j] = f[j]
      BY <1>10, <1>11, <2>2, <2>3, <2>5
    <3>2. QED
      BY <2>1, <3>1
  <2>6. CASE q[j - 1] = f[j - 1] /\ Lacking(d, E, a) /\ ~Lacking(d, F, a)
    <3>1. f[j].matches \subseteq q[j].matches
      <4>1. f[j] = f[j - 1]
        BY <1>10, <2>2, <2>6
      <4>2. q[j - 1].matches \subseteq q[j].matches
        BY <1>9, <2>3
      <4>3. QED
        BY <2>6, <4>1, <4>2
    <3>2. ASSUME NEW l \in 1..n, l > j PROVE Lacking(d, E, g[l])
      <4>1. g[l] \in A
        BY <1>3
      <4>2. a.occurred_at <= g[l].occurred_at
        BY <1>12, <3>2 DEF a
      <4>3. QED
        BY <2>1, <2>6, <4>1, <4>2, FilledLast DEF A, F
    <3>3. QED
      BY <2>1, <3>1, <3>2
  <2>7. CASE /\ f[j - 1].matches \subseteq q[j - 1].matches
             /\ \A l \in 1..n : l > j - 1 => Lacking(d, E, g[l])
    <3>1. Lacking(d, E, a)
      BY <1>3, <2>7 DEF a
    <3>2. f[j] = f[j - 1]
      BY <1>10, <2>2, <3>1
    <3>3. q[j - 1].matches \subseteq q[j].matches
      BY <1>9, <2>3
    <3>4. \A l \in 1..n : l > j => Lacking(d, E, g[l])
      BY <1>3, <2>7
    <3>5. QED
      BY <2>1, <2>7, <3>2, <3>3, <3>4
  <2>8. Claim(j - 1)
    BY <1>14
  <2>9. QED
    BY <2>4, <2>5, <2>6, <2>7, <2>8
<1>15. n \in P
  <2>1. P \in SUBSET (0..n)
    OBVIOUS
  <2>2. n \in 0..n
    BY <1>3
  <2> HIDE DEF P
  <2>3. P = 0..n
    BY <1>3, <1>13, <1>14, <2>1, Upward
  <2>4. QED
    BY <2>2, <2>3
<1>16. f[n].matches \subseteq q[n].matches
  BY <1>15
<1>17. q[n].matches \subseteq q[Cardinality(B)].matches
  <2>1. CASE Cardinality(B) = n
    BY <2>1
  <2>2. CASE Cardinality(B) = n + 1
    <3>1. n + 1 \in 0..Cardinality(B) /\ n + 1 # 0 /\ (n + 1) - 1 = n
      BY <1>3, <2>2
    <3>2. q[n + 1] = Try(d, q[n], Ordered(B)[n + 1], WindowCites(d, F)[Ordered(B)[n + 1]])
      BY <1>8, <3>1
    <3>3. QED
      BY <1>9, <2>2, <3>2
  <2>3. QED
    BY <1>3, <1>4, <2>1, <2>2
<1>18. QED
  BY <1>6, <1>16, <1>17 DEF F

\* A later event takes no match of any rule away: what makes a signature a key
\* (engine.py, evaluate_rule; detect.py, observe).
LEMMA EvaluateGrows ==
  ASSUME NEW rule, IsDetection(rule.detection), NEW E, NEW e, Later(E, e)
  PROVE  EvaluateRule(rule, E) \subseteq EvaluateRule(rule, E \union {e})
<1> DEFINE d == rule.detection
<1>1. d.type \in {"single", "threshold", "sequence", "correlation"}
  BY DEF IsDetection
<1>2. CASE d.type = "single"
  <2>1. \A F : EvaluateRule(rule, F) = EvaluateSingle(d, F)
    BY <1>2 DEF EvaluateRule
  <2>2. QED
    BY <2>1, SingleGrows
<1>3. CASE d.type = "threshold"
  <2>1. \A F : EvaluateRule(rule, F) = EvaluateThreshold(d, F)
    BY <1>3 DEF EvaluateRule
  <2>2. QED
    BY <1>3, <2>1, ThresholdGrows
<1>4. CASE d.type = "sequence"
  <2>1. \A F : EvaluateRule(rule, F) = EvaluateSequence(d, F)
    BY <1>4 DEF EvaluateRule
  <2>2. QED
    BY <1>4, <2>1, SequenceGrows
<1>5. CASE d.type = "correlation"
  <2>1. \A F : EvaluateRule(rule, F) = EvaluateCorrelation(d, F)
    BY <1>5 DEF EvaluateRule
  <2>2. QED
    BY <1>5, <2>1, CorrelationGrows
<1>6. QED
  BY <1>1, <1>2, <1>3, <1>4, <1>5

----------------------------------------------------------------------------
(* The detector, whatever it is shown.                                     *)

\* A sequence and what is in it, as the detector's lists grow and shrink.
LEMMA SetOfAppend ==
  ASSUME NEW S, NEW s \in Seq(S), NEW e
  PROVE  /\ ToSet(Append(s, e)) = ToSet(s) \union {e}
         /\ s \in Seq(ToSet(s))
         /\ Append(s, e) \in Seq(ToSet(s) \union {e})
<1>1. /\ Append(s, e) \in Seq(S \union {e}) /\ Len(Append(s, e)) = Len(s) + 1 /\ Len(s) \in Nat
      /\ \A i \in 1..Len(s) : Append(s, e)[i] = s[i]
      /\ Append(s, e)[Len(s) + 1] = e
  <2>1. s \in Seq(S \union {e}) /\ e \in S \union {e}
    OBVIOUS
  <2>2. QED
    BY <2>1, AppendProperties, LenProperties
<1>2. DOMAIN s = 1..Len(s) /\ DOMAIN Append(s, e) = 1..Len(s) + 1
  BY <1>1, LenProperties
<1>3. 1..Len(s) + 1 = 1..Len(s) \union {Len(s) + 1}
  BY <1>1
<1>4. ToSet(Append(s, e)) = ToSet(s) \union {e}
  <2>1. \A i \in 1..Len(s) + 1 : Append(s, e)[i] = IF i \in 1..Len(s) THEN s[i] ELSE e
    BY <1>1, <1>3
  <2>2. Len(s) + 1 \notin 1..Len(s)
    BY <1>1
  <2>3. QED
    BY <1>2, <1>3, <2>1, <2>2 DEF ToSet
<1>5. s \in Seq(ToSet(s))
  <2>1. \A i \in 1..Len(s) : s[i] \in ToSet(s)
    BY <1>2 DEF ToSet
  <2>2. QED
    BY <2>1, SeqDef, LenProperties, <1>2
<1>6. Append(s, e) \in Seq(ToSet(s) \union {e})
  BY <1>5, AppendProperties
<1>7. QED
  BY <1>4, <1>5, <1>6

\* The window takes what it is shown, and else holds nothing new.
LEMMA EnterKeeps ==
  ASSUME NEW F, NEW bucket \in Seq(F), NEW e
  PROVE  Enter(bucket, e) \in Seq(F \union {e})
<1>1. bucket \in Seq(F \union {e}) /\ e \in F \union {e}
  OBVIOUS
<1>2. CASE Len(bucket) < WindowSize
  BY <1>1, <1>2 DEF Enter
<1>3. CASE ~(Len(bucket) < WindowSize)
  <2>1. Len(bucket) \in Nat /\ WindowSize \in Nat \ {0}
    BY DetectorAssumption, LenProperties DEF DetectorAssumption
  <2>2. bucket # <<>>
    BY <1>3, <2>1, EmptySeq
  <2>3. Tail(bucket) \in Seq(F \union {e})
    BY <1>1, <2>2, HeadTailProperties
  <2>4. QED
    BY <1>1, <1>3, <2>3 DEF Enter
<1>4. QED
  BY <1>2, <1>3

\* A list of events lists events.
LEMMA SetInSeq ==
  ASSUME NEW F, NEW s \in Seq(F)
  PROVE  ToSet(s) \in SUBSET F
BY DEF ToSet

\* IsNewest of any list of events: a bucket is the end of what it was shown.
NewestAt(at, category, bucket, list) ==
  /\ at \in [1..Len(bucket) -> 1..Len(list)]
  /\ \A k \in 1..Len(bucket) : bucket[k] = list[at[k]] /\ list[at[k]].category = category
  /\ \A k, l \in 1..Len(bucket) : k < l => at[k] < at[l]
  /\ \A i \in 1..Len(list) : list[i].category = category =>
       (\E k \in 1..Len(bucket) : at[k] = i) \/ (Len(bucket) = WindowSize /\ i < at[1])

\* The bucket is all of the category in the list, or the newest of it that fit.
Newest(category, bucket, list) ==
  Len(bucket) <= WindowSize /\ \E at : NewestAt(at, category, bucket, list)

\* IsNewest says this of the feed.
LEMMA NewestIs == \A c, b : IsNewest(c, b) <=> Newest(c, b, feed)
BY DEF IsNewest, Newest, NewestAt

\* Entering an event of the category keeps its bucket the newest.
LEMMA NewestEntered ==
  ASSUME NEW F, NEW b \in Seq(F), NEW list \in Seq(F), NEW e, NEW c, Newest(c, b, list), e.category = c
  PROVE  Newest(c, Enter(b, e), Append(list, e))
<1> DEFINE m == Len(b)
           n == Len(list)
           more == Append(list, e)
           q == Enter(b, e)
<1>1. /\ m \in Nat /\ n \in Nat /\ m <= WindowSize /\ WindowSize \in Nat \ {0}
  BY DetectorAssumption, LenProperties DEF DetectorAssumption, Newest
<1>2. PICK at : NewestAt(at, c, b, list)
  BY DEF Newest
<1>3. /\ at \in [1..m -> 1..n]
      /\ \A k \in 1..m : b[k] = list[at[k]] /\ list[at[k]].category = c
      /\ \A k, l \in 1..m : k < l => at[k] < at[l]
      /\ \A i \in 1..n : list[i].category = c =>
           (\E k \in 1..m : at[k] = i) \/ (m = WindowSize /\ i < at[1])
  BY <1>2 DEF NewestAt
<1>4. /\ Len(more) = n + 1 /\ more[n + 1] = e /\ \A i \in 1..n : more[i] = list[i]
  <2>1. list \in Seq(F \union {e}) /\ e \in F \union {e}
    OBVIOUS
  <2>2. QED
    BY <2>1, AppendProperties
<1>5. \A k \in 1..m : at[k] \in 1..n /\ more[at[k]] = b[k] /\ more[at[k]].category = c
  BY <1>3, <1>4
<1>6. b \in Seq(F \union {e}) /\ e \in F \union {e}
  OBVIOUS
<1>7. CASE m < WindowSize
  <2> DEFINE to == [k \in 1..m + 1 |-> IF k = m + 1 THEN n + 1 ELSE at[k]]
  <2>1. q = Append(b, e)
    BY <1>7 DEF Enter
  <2>2. Len(q) = m + 1 /\ q[m + 1] = e /\ \A k \in 1..m : q[k] = b[k]
    BY <1>6, <2>1, AppendProperties
  <2> HIDE DEF m, n, more, q
  <2>3. \A k \in 1..m + 1 : k = m + 1 \/ (k # m + 1 /\ k \in 1..m)
    BY <1>1
  <2>4. n + 1 \in 1..n + 1 /\ \A i \in 1..n : i \in 1..n + 1 /\ i < n + 1
    BY <1>1
  <2>5. to[m + 1] = n + 1 /\ \A k \in 1..m : to[k] = at[k] /\ k \in 1..m + 1 /\ k < m + 1
    BY <1>1
  <2>6. to \in [1..m + 1 -> 1..n + 1]
    BY <1>5, <2>3, <2>4
  <2> HIDE DEF to
  <2>7. \A k \in 1..m + 1 : q[k] = more[to[k]] /\ more[to[k]].category = c
    BY <1>4, <1>5, <2>2, <2>3, <2>5
  <2>8. ASSUME NEW k \in 1..m + 1, NEW l \in 1..m + 1, k < l PROVE to[k] < to[l]
    <3>1. k \in 1..m
      BY <1>1, <2>8
    <3>2. CASE l = m + 1
      BY <1>5, <2>4, <2>5, <3>1, <3>2
    <3>3. CASE l \in 1..m
      BY <1>3, <2>5, <2>8, <3>1, <3>3
    <3>4. QED
      BY <2>3, <3>2, <3>3
  <2>9. ASSUME NEW i \in 1..n + 1, more[i].category = c PROVE \E k \in 1..m + 1 : to[k] = i
    <3>1. CASE i = n + 1
      <4>1. m + 1 \in 1..m + 1
        BY <1>1
      <4>2. QED
        BY <2>5, <3>1, <4>1
    <3>2. CASE i # n + 1
      <4>1. i \in 1..n
        BY <1>1, <3>2
      <4>2. list[i].category = c
        BY <1>4, <2>9, <4>1
      <4>3. m # WindowSize
        BY <1>1, <1>7
      <4>4. PICK k \in 1..m : at[k] = i
        BY <1>3, <4>1, <4>2, <4>3
      <4>5. QED
        BY <2>5, <4>4
    <3>3. QED
      BY <3>1, <3>2
  <2>10. m + 1 <= WindowSize
    BY <1>1, <1>7
  <2>11. NewestAt(to, c, q, more)
    BY <1>4, <2>2, <2>6, <2>7, <2>8, <2>9 DEF NewestAt
  <2>12. QED
    BY <2>2, <2>10, <2>11 DEF Newest, q, more
<1>8. CASE ~(m < WindowSize)
  <2> DEFINE to == [k \in 1..m |-> IF k = m THEN n + 1 ELSE at[k + 1]]
  <2>1. m = WindowSize /\ m \in Nat \ {0}
    BY <1>1, <1>8
  <2>2. q = Append(Tail(b), e)
    BY <1>8 DEF Enter
  <2>3. b # <<>>
    BY <2>1, EmptySeq
  <2>4. Tail(b) \in Seq(F \union {e}) /\ Len(Tail(b)) = m - 1
        /\ \A k \in 1..Len(b) - 1 : Tail(b)[k] = b[k + 1]
    BY <1>6, <2>3, HeadTailProperties
  <2>5. /\ Len(q) = Len(Tail(b)) + 1 /\ q[Len(Tail(b)) + 1] = e
        /\ \A k \in 1..Len(Tail(b)) : q[k] = Tail(b)[k]
    BY <1>6, <2>2, <2>4, AppendProperties
  <2> HIDE DEF m, n, more, q
  <2>6. m - 1 + 1 = m /\ m \in 1..m
    BY <2>1
  <2>7. Len(q) = m /\ q[m] = e /\ \A k \in 1..m - 1 : q[k] = b[k + 1]
    BY <2>4, <2>5, <2>6 DEF m
  <2>8. \A k \in 1..m : k = m \/ (k # m /\ k \in 1..m - 1 /\ k + 1 \in 1..m)
    BY <2>1
  <2>9. n + 1 \in 1..n + 1 /\ \A i \in 1..n : i \in 1..n + 1 /\ i < n + 1
    BY <1>1
  <2>10. to[m] = n + 1 /\ \A k \in 1..m - 1 : to[k] = at[k + 1] /\ k \in 1..m /\ k + 1 \in 1..m
    BY <2>1
  <2>11. to \in [1..m -> 1..n + 1]
    <3>1. \A k \in 1..m : (IF k = m THEN n + 1 ELSE at[k + 1]) \in 1..n + 1
      BY <1>5, <2>8, <2>9
    <3>2. QED
      BY <3>1
  <2> HIDE DEF to
  <2>12. ASSUME NEW k \in 1..m PROVE q[k] = more[to[k]] /\ more[to[k]].category = c
    <3>1. CASE k = m
      BY <1>4, <2>7, <2>10, <3>1
    <3>2. CASE k # m
      <4>1. k \in 1..m - 1 /\ k + 1 \in 1..m
        BY <2>8, <3>2
      <4>2. q[k] = b[k + 1] /\ to[k] = at[k + 1]
        BY <2>7, <2>10, <4>1
      <4>3. QED
        BY <1>5, <4>1, <4>2
    <3>3. QED
      BY <3>1, <3>2
  <2>13. ASSUME NEW k \in 1..m, NEW l \in 1..m, k < l PROVE to[k] < to[l]
    <3>1. k \in 1..m - 1 /\ k + 1 \in 1..m
      BY <2>1, <2>13
    <3>2. CASE l = m
      BY <1>5, <2>9, <2>10, <3>1, <3>2
    <3>3. CASE l \in 1..m - 1
      <4>1. l + 1 \in 1..m /\ k + 1 < l + 1
        BY <2>1, <2>13, <3>1, <3>3
      <4>2. QED
        BY <1>3, <2>10, <3>1, <3>3, <4>1
    <3>4. QED
      BY <2>8, <3>2, <3>3
  <2>14. ASSUME NEW i \in 1..n, i <= at[1] PROVE i < to[1]
    <3>1. 1 \in 1..m
      BY <2>1
    <3>2. at[1] \in 1..n
      BY <1>5, <3>1
    <3>3. CASE m = 1
      BY <1>1, <2>10, <2>14, <3>2, <3>3
    <3>4. CASE m # 1
      <4>1. 1 \in 1..m - 1 /\ 1 + 1 \in 1..m /\ 1 < 1 + 1
        BY <2>1, <3>4
      <4>2. to[1] = at[1 + 1] /\ at[1] < at[1 + 1] /\ at[1 + 1] \in 1..n
        BY <1>3, <1>5, <2>10, <3>1, <4>1
      <4>3. QED
        BY <2>14, <3>2, <4>2
    <3>5. QED
      BY <3>3, <3>4
  <2>15. ASSUME NEW i \in 1..n + 1, more[i].category = c
         PROVE  (\E k \in 1..m : to[k] = i) \/ i < to[1]
    <3>1. CASE i = n + 1
      BY <2>6, <2>10, <3>1
    <3>2. CASE i # n + 1
      <4>1. i \in 1..n
        BY <1>1, <3>2
      <4>2. list[i].category = c
        BY <1>4, <2>15, <4>1
      <4>3. CASE i < at[1]
        <5>1. at[1] \in 1..n
          BY <1>5, <2>1
        <5>2. QED
          BY <2>14, <4>1, <4>3, <5>1
      <4>4. CASE \E k \in 1..m : at[k] = i
        <5>1. PICK k \in 1..m : at[k] = i
          BY <4>4
        <5>2. CASE k = 1
          BY <2>14, <4>1, <5>1, <5>2
        <5>3. CASE k # 1
          <6>1. k - 1 \in 1..m - 1 /\ k - 1 + 1 = k
            BY <2>1, <5>3
          <6>2. to[k - 1] = i /\ k - 1 \in 1..m
            BY <2>10, <5>1, <6>1
          <6>3. QED
            BY <6>2
        <5>4. QED
          BY <5>2, <5>3
      <4>5. QED
        BY <1>3, <4>1, <4>2, <4>3, <4>4
    <3>3. QED
      BY <3>1, <3>2
  <2>16. NewestAt(to, c, q, more)
    BY <1>4, <2>1, <2>7, <2>11, <2>12, <2>13, <2>15 DEF NewestAt
  <2>17. QED
    BY <1>1, <2>1, <2>7, <2>16 DEF Newest, q, more
<1>9. QED
  BY <1>7, <1>8

\* An event of another category is none of the window's.
LEMMA NewestKept ==
  ASSUME NEW F, NEW b \in Seq(F), NEW list \in Seq(F), NEW e, NEW c, Newest(c, b, list), e.category # c
  PROVE  Newest(c, b, Append(list, e))
<1> DEFINE m == Len(b)
           n == Len(list)
           more == Append(list, e)
<1>1. m \in Nat /\ n \in Nat /\ m <= WindowSize
  BY LenProperties DEF Newest
<1>2. PICK at : NewestAt(at, c, b, list)
  BY DEF Newest
<1>3. /\ at \in [1..m -> 1..n]
      /\ \A k \in 1..m : b[k] = list[at[k]] /\ list[at[k]].category = c
      /\ \A k, l \in 1..m : k < l => at[k] < at[l]
      /\ \A i \in 1..n : list[i].category = c =>
           (\E k \in 1..m : at[k] = i) \/ (m = WindowSize /\ i < at[1])
  BY <1>2 DEF NewestAt
<1>4. /\ Len(more) = n + 1 /\ more[n + 1] = e /\ \A i \in 1..n : more[i] = list[i]
  <2>1. list \in Seq(F \union {e}) /\ e \in F \union {e}
    OBVIOUS
  <2>2. QED
    BY <2>1, AppendProperties
<1> HIDE DEF m, n, more
<1>5. \A i \in 1..n + 1 : i \in 1..n \/ i = n + 1
  BY <1>1
<1>6. \A i \in 1..n : i \in 1..n + 1
  BY <1>1
<1>7. at \in [1..m -> 1..n + 1]
  BY <1>3, <1>6
<1>8. \A k \in 1..m : b[k] = more[at[k]] /\ more[at[k]].category = c
  BY <1>3, <1>4
<1>9. \A i \in 1..n + 1 : more[i].category = c =>
        (\E k \in 1..m : at[k] = i) \/ (m = WindowSize /\ i < at[1])
  BY <1>3, <1>4, <1>5
<1>10. NewestAt(at, c, b, more)
  BY <1>3, <1>4, <1>7, <1>8, <1>9 DEF NewestAt, m
<1>11. QED
  BY <1>1, <1>10 DEF Newest, m, more

\* Every alert stands for events that were shown to the detector.
DetectorInv ==
  /\ feed \in Seq(ToSet(feed)) /\ EventSet(ToSet(feed))
  /\ window \in [Categories -> Seq(ToSet(feed))]
  /\ \A c \in Categories : Newest(c, window[c], feed)
  /\ \A s \in seen : /\ s = Signature(s.rule, s.ids) /\ s.rule \in DOMAIN Rules
                     /\ s.ids \in Standing(Rules[s.rule].detection, ToSet(feed))

\* An event that the detector can tell from those it was shown.
Fresh(e) ==
  /\ e.occurred_at \in Int /\ e.tie \in Int
  /\ \A f \in ToSet(feed) : f.id # e.id /\ (f.occurred_at = e.occurred_at => f.tie # e.tie)

\* What may be cited from some events may be cited from more.
LEMMA StandingGrows ==
  ASSUME NEW E, NEW F, E \subseteq F, NEW d
  PROVE  Standing(d, E) \subseteq Standing(d, F)
<1> SUFFICES ASSUME NEW m \in Standing(d, E) PROVE m \in Standing(d, F)
  OBVIOUS
<1>1. PICK C \in SUBSET E : C # {} /\ m = {e.id : e \in C} /\ Means(d, C)
  BY DEF Standing, Stands
<1>2. QED
  BY <1>1, StandingFor

\* observe raises nothing but what stands, and what stood stands: a match cites
\* the same events as more come in (detect.py, observe).
LEMMA ObserveStands ==
  ASSUME DetectorInv, NEW c \in Categories, NEW e, Fresh(e), e.category = c, observe(c, e)
  PROVE  DetectorInv' /\ ToSet(feed)' = ToSet(feed) \union {e}
<1> DEFINE F == ToSet(feed)
           G == F \union {e}
           bucket == Enter(window[c], e)
           E == ToSet(bucket)
<1>1. /\ ToSet(feed') = G /\ feed' \in Seq(G)
  BY SetOfAppend DEF DetectorInv, observe
<1>2. EventSet(G)
  <2>1. IsFiniteSet(G)
    BY FS_AddElement DEF DetectorInv, EventSet
  <2>2. QED
    BY <2>1 DEF DetectorInv, EventSet, Fresh
<1>3. window \in [Categories -> Seq(F)] /\ window' = [window EXCEPT ![c] = bucket]
  BY DEF DetectorInv, observe
<1>4. bucket \in Seq(G)
  <2> HIDE DEF F
  <2> QED BY <1>3, EnterKeeps
<1>5. window' \in [Categories -> Seq(G)] /\ window'[c] = bucket
  <2>1. \A k \in Categories : window[k] \in Seq(G)
    <3> HIDE DEF F
    <3> QED BY <1>3
  <2> HIDE DEF F, G, bucket
  <2>2. QED
    BY <1>3, <1>4, <2>1
<1>6. E \in SUBSET G /\ EventSet(E)
  <2> HIDE DEF F, G, bucket
  <2>1. E \in SUBSET G
    BY <1>4, SetInSeq
  <2>2. QED
    BY <1>2, <2>1, EventSubset
<1>7. ASSUME NEW s \in MatchesIn(c, bucket)
      PROVE  /\ s = Signature(s.rule, s.ids) /\ s.rule \in DOMAIN Rules
             /\ s.ids \in Standing(Rules[s.rule].detection, G)
  <2>1. PICK r \in DOMAIN Rules : \E m \in EvaluateRule(Rules[r], E) : s = Signature(r, m)
    BY <1>7 DEF MatchesIn, RulesOf
  <2>2. IsDetection(Rules[r].detection)
    BY DetectorAssumption DEF DetectorAssumption
  <2> PICK m \in EvaluateRule(Rules[r], E) : s = Signature(r, m)
    BY <2>1
  <2>3. m \in Standing(Rules[r].detection, E)
    <3> HIDE DEF E
    <3> QED BY <1>6, <2>1, <2>2, MatchesStand
  <2>4. m \in Standing(Rules[r].detection, G)
    <3> HIDE DEF E, G
    <3> QED BY <1>6, <2>3, StandingGrows
  <2>5. s.rule = r /\ s.ids = m
    BY <2>1 DEF Signature
  <2>6. QED
    BY <2>1, <2>4, <2>5
<1>8. ASSUME NEW s \in seen
      PROVE  /\ s = Signature(s.rule, s.ids) /\ s.rule \in DOMAIN Rules
             /\ s.ids \in Standing(Rules[s.rule].detection, G)
  <2>1. /\ s = Signature(s.rule, s.ids) /\ s.rule \in DOMAIN Rules
        /\ s.ids \in Standing(Rules[s.rule].detection, F)
    BY DEF DetectorInv
  <2>2. F \subseteq G
    OBVIOUS
  <2> HIDE DEF F, G
  <2>3. QED
    BY <2>1, <2>2, StandingGrows
<1>9. seen' \subseteq seen \union MatchesIn(c, bucket)
  BY <1>5 DEF observe, NewSignatures
<1>10. \A s \in seen' : /\ s = Signature(s.rule, s.ids) /\ s.rule \in DOMAIN Rules
                        /\ s.ids \in Standing(Rules[s.rule].detection, G)
  BY <1>7, <1>8, <1>9
<1>11. ASSUME NEW k \in Categories PROVE Newest(k, window'[k], feed')
  <2>1. /\ window[k] \in Seq(F) /\ feed \in Seq(F) /\ feed' = Append(feed, e)
        /\ Newest(k, window[k], feed)
    BY <1>3 DEF DetectorInv, observe
  <2> HIDE DEF F
  <2>2. CASE k = c
    BY <1>5, <2>1, <2>2, NewestEntered
  <2>3. CASE k # c
    <3>1. window'[k] = window[k]
      BY <1>3, <2>3
    <3>2. QED
      BY <2>1, <2>3, <3>1, NewestKept
  <2>4. QED
    BY <2>2, <2>3
<1>12. QED
  BY <1>1, <1>2, <1>5, <1>10, <1>11 DEF DetectorInv

\* A detector that was shown nothing.
LEMMA InitDetector == DetectorInit => DetectorInv
<1> SUFFICES ASSUME DetectorInit PROVE DetectorInv
  OBVIOUS
<1>1. feed = <<>> /\ seen = {} /\ window = [c \in Categories |-> <<>>]
  BY DEF DetectorInit
<1>2. ToSet(feed) = {} /\ <<>> \in Seq({})
  BY <1>1, EmptySeq DEF ToSet
<1>3. EventSet({})
  BY FS_EmptySet DEF EventSet
<1>4. ASSUME NEW c \in Categories PROVE Newest(c, window[c], feed)
  <2>1. window[c] = <<>> /\ Len(<<>>) = 0 /\ WindowSize \in Nat
    BY <1>1, EmptySeq, DetectorAssumption DEF DetectorAssumption
  <2>2. \A i \in 1..0 : FALSE
    OBVIOUS
  <2>3. [i \in 1..0 |-> 0] \in [1..0 -> 1..0]
    BY <2>2
  <2>4. NewestAt([i \in 1..0 |-> 0], c, <<>>, <<>>)
    BY <2>1, <2>2, <2>3 DEF NewestAt
  <2>5. 0 <= WindowSize
    BY <2>1
  <2>6. QED
    BY <1>1, <2>1, <2>4, <2>5 DEF Newest
<1>5. QED
  BY <1>1, <1>2, <1>3, <1>4 DEF DetectorInv

\* What an alert cites is what its rule describes.
LEMMA AlertsStand == DetectorInv => AlertsSound
<1> SUFFICES ASSUME DetectorInv, NEW s \in seen
             PROVE  Means(Rules[s.rule].detection, Cited(s))
  BY DEF AlertsSound
<1> DEFINE F == ToSet(feed)
<1>1. PICK C \in SUBSET F : /\ s.ids = {e.id : e \in C}
                            /\ Means(Rules[s.rule].detection, C)
  BY DEF DetectorInv, Standing, Stands
<1>2. \A e \in F : e.id \in s.ids => e \in C
  BY <1>1 DEF DetectorInv, EventSet
<1>3. Cited(s) = C
  BY <1>1, <1>2 DEF Cited
<1>4. QED
  BY <1>1, <1>3

\* In the detector's own module events are numbered as they arrive.
Numbered == \A i \in 1..Len(feed) : feed[i].id = i

\* The UUID of a new event is none of those of its time.
LEMMA TiesAreFree ==
  ASSUME NEW at, NEW tie \in Ties(at)
  PROVE  tie \in Uuids \union {0} /\ tie \in Int /\ \A f \in ToSet(feed) : f.occurred_at = at => f.tie # tie
<1>1. Uuids \subseteq Int
  BY DetectorAssumption DEF DetectorAssumption
<1>2. QED
  BY <1>1 DEF Ties

\* An arrival is a fresh event, the next in number.
LEMMA ArrivalIsFresh ==
  ASSUME DetectorInv, Numbered, NEW kind, kind.delay \in Int, Arrive(kind)
  PROVE  \E e : /\ Fresh(e) /\ e.category = kind.category /\ observe(kind.category, e)
               /\ e.id = Len(feed) + 1
<1> DEFINE id == Len(feed) + 1
           at == kind.delay + IF feed = <<>> THEN 0 ELSE Last(feed).occurred_at
<1>1. Len(feed) \in Nat /\ feed \in Seq(ToSet(feed))
  BY LenProperties DEF DetectorInv
<1>2. at \in Int
  <2>1. CASE feed = <<>>
    BY <2>1
  <2>2. CASE feed # <<>>
    <3>1. Len(feed) \in 1..Len(feed)
      BY <1>1, <2>2, EmptySeq
    <3>2. feed[Len(feed)] \in ToSet(feed)
      BY <1>1, <3>1
    <3>3. Last(feed).occurred_at \in Int
      BY <3>2 DEF DetectorInv, EventSet, Last
    <3>4. QED
      BY <2>2, <3>3
  <2>3. QED
    BY <2>1, <2>2
<1>3. PICK tie \in Ties(at) : observe(kind.category, Event(kind, id, at, tie))
  BY DEF Arrive
<1> DEFINE e == Event(kind, id, at, tie)
<1>4. tie \in Int /\ \A f \in ToSet(feed) : f.occurred_at = at => f.tie # tie
  <2> HIDE DEF id, at
  <2> QED BY <1>3, TiesAreFree
<1>5. e.id = id /\ e.tie = tie /\ e.occurred_at = at /\ e.category = kind.category
  <2> HIDE DEF id, at
  <2> QED BY DEF Event
<1> HIDE DEF e, at
<1>6. Fresh(e)
  <2>1. ASSUME NEW f \in ToSet(feed) PROVE f.id # id
    <3>1. PICK i \in 1..Len(feed) : f = feed[i]
      BY <1>1, ElementOfSeq DEF ToSet
    <3>2. f.id = i
      BY <3>1 DEF Numbered
    <3>3. QED
      BY <1>1, <3>2
  <2>2. QED
    BY <1>2, <1>4, <1>5, <2>1 DEF Fresh
<1>7. QED
  BY <1>3, <1>4, <1>5, <1>6 DEF e

\* So it keeps what is known of the detector.
LEMMA ArrivalKeeps ==
  ASSUME DetectorInv, Numbered, NEW kind, kind.category \in Categories, kind.delay \in Int,
         Arrive(kind)
  PROVE  DetectorInv' /\ Numbered'
<1>1. PICK e : /\ Fresh(e) /\ e.category = kind.category /\ observe(kind.category, e)
               /\ e.id = Len(feed) + 1
  BY ArrivalIsFresh
<1>2. DetectorInv'
  BY <1>1, ObserveStands
<1>3. Len(feed) \in Nat /\ feed \in Seq(ToSet(feed)) /\ feed' = Append(feed, e)
  BY <1>1, LenProperties DEF DetectorInv, observe
<1>4. /\ Len(feed') = Len(feed) + 1 /\ feed'[Len(feed) + 1] = e
      /\ \A i \in 1..Len(feed) : feed'[i] = feed[i]
  BY <1>3, AppendProperties
<1>5. ASSUME NEW i \in 1..Len(feed') PROVE feed'[i].id = i
  <2>1. CASE i = Len(feed) + 1
    BY <1>1, <1>4, <2>1
  <2>2. CASE i # Len(feed) + 1
    <3>1. i \in 1..Len(feed)
      BY <1>3, <1>4, <2>2
    <3>2. QED
      BY <1>4, <3>1 DEF Numbered
  <2>3. QED
    BY <2>1, <2>2
<1>6. QED
  BY <1>2, <1>5 DEF Numbered

\* The types of the detector, from what is known of it.
LEMMA DetectorTypes == DetectorInv => DetectorTypeOK
<1> SUFFICES ASSUME DetectorInv PROVE DetectorTypeOK
  OBVIOUS
<1>1. \A c \in Categories : IsNewest(c, window[c])
  BY NewestIs DEF DetectorInv
<1>2. \A s \in seen : s.rule \in DOMAIN Rules /\ s.ids \subseteq Ids(ToSet(feed))
  BY DEF DetectorInv, Standing, Ids
<1>3. QED
  BY <1>1, <1>2 DEF DetectorTypeOK

\* The detector on its own: whatever the rules, the kinds of events and the size
\* of its window, and however late or tied the events arrive, every alert cites
\* events that are what its rule describes, and the windows are the newest
\* events of their categories (engine.py, detect.py).
THEOREM DetectorSound ==
  ASSUME NEW CONSTANT Kinds, \A kind \in Kinds : kind.category \in Categories /\ kind.delay \in Int
  PROVE  DetectorInit /\ [][\E kind \in Kinds : Arrive(kind)]_detectorVars => [](AlertsSound /\ DetectorTypeOK)
<1>1. DetectorInit => DetectorInv /\ Numbered
  BY InitDetector DEF DetectorInit, ToSet, Numbered
<1>2. DetectorInv /\ Numbered /\ [\E kind \in Kinds : Arrive(kind)]_detectorVars => (DetectorInv /\ Numbered)'
  <2>1. CASE UNCHANGED detectorVars
    BY <2>1 DEF detectorVars, DetectorInv, Numbered
  <2>2. QED
    BY <2>1, ArrivalKeeps
<1>3. QED
  BY <1>1, <1>2, AlertsStand, DetectorTypes, PTL

----------------------------------------------------------------------------
(* Event by event, or all at once.                                         *)

\* The signatures of a rule's matches among some events.
SignaturesOf(r, E) == {Signature(r, m) : m \in EvaluateRule(Rules[r], E)}

\* While nothing is evicted the windows hold the whole feed, and while it is in
\* order as well, seen is what evaluating each rule on all of it gives.
BatchInv ==
  /\ Len(feed) <= WindowSize =>
       \A c \in Categories : ToSet(window[c]) = Fed(c) /\ Len(window[c]) <= Len(feed)
  /\ IncrementalIsBatch

\* No rule matches when there are no events.
LEMMA NothingOfNothing ==
  ASSUME NEW rule, IsDetection(rule.detection)
  PROVE  EvaluateRule(rule, {}) = {}
<1>1. EventSet({})
  BY FS_EmptySet DEF EventSet
<1>2. EvaluateRule(rule, {}) \subseteq Standing(rule.detection, {})
  BY <1>1, MatchesStand
<1>3. Standing(rule.detection, {}) = {}
  BY DEF Standing, Stands
<1>4. QED
  BY <1>2, <1>3

\* When each event of a list occurred after the one before it, it occurred after
\* all before it.
LEMMA ListIncreases ==
  ASSUME NEW list, Len(list) \in Nat, \A k \in 1..Len(list) : list[k].occurred_at \in Int,
         \A k \in 2..Len(list) : list[k - 1].occurred_at < list[k].occurred_at
  PROVE  \A i, j \in 1..Len(list) : i < j => list[i].occurred_at < list[j].occurred_at
<1> SUFFICES ASSUME NEW i \in 1..Len(list), NEW j \in 1..Len(list), i < j
             PROVE  list[i].occurred_at < list[j].occurred_at
  OBVIOUS
<1> DEFINE n == j - i - 1
           P == {k \in 0..n : list[i].occurred_at < list[i + k + 1].occurred_at}
<1>1. n \in Nat /\ i + n + 1 = j
  OBVIOUS
<1>2. 0 \in P
  <2>1. i + 1 \in 2..Len(list) /\ (i + 1) - 1 = i /\ i + 0 + 1 = i + 1 /\ 0 \in 0..n
    OBVIOUS
  <2> HIDE DEF n
  <2>2. QED
    BY <2>1
<1>3. ASSUME NEW k \in 1..n, k - 1 \in P PROVE k \in P
  <2>1. /\ i + k + 1 \in 2..Len(list) /\ (i + k + 1) - 1 = i + (k - 1) + 1
        /\ i + k + 1 \in 1..Len(list) /\ i + (k - 1) + 1 \in 1..Len(list) /\ k \in 0..n
    OBVIOUS
  <2> HIDE DEF n
  <2>2. list[i + (k - 1) + 1].occurred_at < list[i + k + 1].occurred_at
    BY <2>1
  <2>3. list[i].occurred_at < list[i + (k - 1) + 1].occurred_at
    BY <1>3
  <2>4. list[i].occurred_at < list[i + k + 1].occurred_at
    BY <2>1, <2>2, <2>3
  <2>5. QED
    BY <2>1, <2>4
<1>4. n \in P
  <2>1. P \in SUBSET (0..n)
    OBVIOUS
  <2> HIDE DEF P, n
  <2>2. P = 0..n
    BY <1>1, <1>2, <1>3, <2>1, Upward
  <2>3. QED
    BY <1>1, <2>2
<1>5. QED
  <2> HIDE DEF n
  <2> QED BY <1>1, <1>4

\* observe adds what evaluating the rules of the event's category on the longer
\* feed gives, and the rest is as it was (detect.py, observe).
LEMMA ObserveBatch ==
  ASSUME DetectorInv, BatchInv, NEW c \in Categories, NEW e, Fresh(e), e.category = c, observe(c, e)
  PROVE  BatchInv'
<1> DEFINE F == ToSet(feed)
<1>1. /\ DetectorInv' /\ ToSet(feed') = F \union {e}
      /\ feed \in Seq(F) /\ feed' = Append(feed, e) /\ window \in [Categories -> Seq(F)]
      /\ window' = [window EXCEPT ![c] = Enter(window[c], e)]
  <2>1. DetectorInv' /\ ToSet(feed)' = ToSet(feed) \union {e}
    BY ObserveStands
  <2>2. QED
    BY <2>1 DEF observe, DetectorInv
<1>2. Len(feed) \in Nat /\ Len(feed') = Len(feed) + 1 /\ WindowSize \in Nat
  BY <1>1, LenProperties, AppendProperties, DetectorAssumption DEF DetectorAssumption
<1>3. /\ Fed(c)' = Fed(c) \union {e}
      /\ \A k \in Categories : k # c => Fed(k)' = Fed(k)
  BY <1>1 DEF Fed
<1>4. ASSUME Len(feed') <= WindowSize, NEW k \in Categories
      PROVE  ToSet(window'[k]) = Fed(k)' /\ Len(window'[k]) <= Len(feed')
  <2>1. ToSet(window[k]) = Fed(k) /\ Len(window[k]) <= Len(feed) /\ Len(window[k]) < WindowSize
        /\ Len(window[k]) \in Nat /\ window[k] \in Seq(F)
    <3>1. window[k] \in Seq(F)
      BY <1>1
    <3>2. Len(window[k]) \in Nat
      BY <3>1, LenProperties
    <3>3. Len(feed) <= WindowSize
      BY <1>2, <1>4
    <3>4. ToSet(window[k]) = Fed(k) /\ Len(window[k]) <= Len(feed)
      BY <3>3 DEF BatchInv
    <3>5. QED
      BY <1>2, <1>4, <3>1, <3>2, <3>4
  <2>2. CASE k = c
    <3>1. window'[k] = Append(window[k], e)
      BY <1>1, <2>1, <2>2 DEF Enter
    <3>2. ToSet(Append(window[k], e)) = ToSet(window[k]) \union {e}
      BY <2>1, SetOfAppend
    <3>3. Len(Append(window[k], e)) = Len(window[k]) + 1
      BY <2>1, AppendProperties
    <3>4. QED
      BY <1>2, <1>3, <2>1, <2>2, <3>1, <3>2, <3>3
  <2>3. CASE k # c
    <3>1. window'[k] = window[k]
      BY <1>1, <2>3
    <3>2. Fed(k)' = Fed(k)
      BY <1>3, <2>3
    <3>3. QED
      BY <1>2, <2>1, <3>1, <3>2
  <2>4. QED
    BY <2>2, <2>3
<1>5. ASSUME Undisturbed'
      PROVE  seen' = UNION {SignaturesOf(r, Fed(Rules[r].category)') : r \in DOMAIN Rules}
  <2>1. Len(feed') <= WindowSize /\ \A i \in 2..Len(feed') : feed'[i - 1].occurred_at < feed'[i].occurred_at
    BY <1>5 DEF Undisturbed, InOrder
  <2>2. \A i \in 1..Len(feed) : feed'[i] = feed[i]
    BY <1>1, AppendProperties
  <2>3. Undisturbed
    <3>1. Len(feed) <= WindowSize
      BY <1>2, <2>1
    <3>2. ASSUME NEW i \in 2..Len(feed) PROVE feed[i - 1].occurred_at < feed[i].occurred_at
      <4>1. i \in 2..Len(feed') /\ i \in 1..Len(feed) /\ i - 1 \in 1..Len(feed)
        BY <1>2
      <4>2. QED
        BY <2>1, <2>2, <4>1
    <3>3. QED
      BY <3>1, <3>2 DEF Undisturbed, InOrder
  <2>4. seen = UNION {SignaturesOf(r, Fed(Rules[r].category)) : r \in DOMAIN Rules}
    BY <2>3 DEF BatchInv, IncrementalIsBatch, SignaturesOf
  <2>5. Later(Fed(c), e)
    <3>1. EventSet(F \union {e}) /\ e \notin F
      BY <1>1 DEF DetectorInv, Fresh
    <3>2. Fed(c) \in SUBSET F
      BY DEF Fed
    <3>3. EventSet(Fed(c) \union {e})
      BY <3>1, <3>2, EventSubset
    <3>4. ASSUME NEW f \in Fed(c) PROVE Before(f, e)
      <4>1. PICK i \in 1..Len(feed) : f = feed[i]
        BY <3>2, <1>1, ElementOfSeq DEF ToSet
      <4>2. Len(feed') \in 1..Len(feed') /\ i \in 1..Len(feed') /\ i < Len(feed')
            /\ feed'[i] = f /\ feed'[Len(feed')] = e
        BY <1>1, <1>2, <2>2, <4>1, AppendProperties
      <4>3. feed'[i].occurred_at < feed'[Len(feed')].occurred_at
        <5>1. \A k \in 1..Len(feed') : feed'[k].occurred_at \in Int
          <6>1. feed' \in Seq(ToSet(feed')) /\ EventSet(ToSet(feed'))
            BY <1>1 DEF DetectorInv
          <6>2. \A k \in 1..Len(feed') : feed'[k] \in ToSet(feed')
            BY <6>1, ElementOfSeq
          <6>3. QED
            BY <6>1, <6>2 DEF EventSet
        <5>2. \A k, l \in 1..Len(feed') : k < l => feed'[k].occurred_at < feed'[l].occurred_at
          <6>1. Len(feed') \in Nat /\ \A k \in 2..Len(feed') : feed'[k - 1].occurred_at < feed'[k].occurred_at
            BY <1>2, <2>1
          <6>2. QED
            BY <5>1, <6>1, ListIncreases
        <5>3. QED
          BY <4>2, <5>2
      <4>4. QED
        BY <4>2, <4>3 DEF Before
    <3>5. QED
      BY <3>1, <3>2, <3>3, <3>4 DEF Later
  <2>6. ASSUME NEW r \in RulesOf(c) PROVE SignaturesOf(r, Fed(c)) \subseteq SignaturesOf(r, Fed(c) \union {e})
    <3>1. IsDetection(Rules[r].detection)
      BY DetectorAssumption DEF DetectorAssumption, RulesOf
    <3>2. EvaluateRule(Rules[r], Fed(c)) \subseteq EvaluateRule(Rules[r], Fed(c) \union {e})
      BY <2>5, <3>1, EvaluateGrows
    <3>3. QED
      BY <3>2 DEF SignaturesOf
  <2>7. seen' = seen \union UNION {SignaturesOf(r, Fed(c) \union {e}) : r \in RulesOf(c)}
    <3>1. ToSet(window'[c]) = Fed(c) \union {e}
      BY <1>3, <1>4, <2>1
    <3>2. seen' = seen \union MatchesIn(c, window'[c])
      BY DEF observe, NewSignatures
    <3>3. QED
      BY <3>1, <3>2 DEF MatchesIn, SignaturesOf
  <2>8. ASSUME NEW r \in DOMAIN Rules
        PROVE  /\ Rules[r].category = c => Fed(Rules[r].category)' = Fed(c) \union {e} /\ r \in RulesOf(c)
               /\ Rules[r].category # c => Fed(Rules[r].category)' = Fed(Rules[r].category) /\ r \notin RulesOf(c)
    <3>1. Rules[r].category \in Categories
      BY DetectorAssumption DEF DetectorAssumption
    <3>2. QED
      BY <1>3, <3>1 DEF RulesOf
  <2>9. ASSUME NEW s PROVE s \in seen' <=> \E r \in DOMAIN Rules : s \in SignaturesOf(r, Fed(Rules[r].category)')
    <3>1. ASSUME s \in seen' PROVE \E r \in DOMAIN Rules : s \in SignaturesOf(r, Fed(Rules[r].category)')
      <4>1. CASE s \in seen
        <5>1. PICK r \in DOMAIN Rules : s \in SignaturesOf(r, Fed(Rules[r].category))
          BY <2>4, <4>1
        <5>2. s \in SignaturesOf(r, Fed(Rules[r].category)')
          BY <2>6, <2>8, <5>1 DEF RulesOf
        <5>3. QED
          BY <5>2
      <4>2. CASE s \notin seen
        <5>1. PICK r \in RulesOf(c) : s \in SignaturesOf(r, Fed(c) \union {e})
          BY <2>7, <3>1, <4>2
        <5>2. r \in DOMAIN Rules /\ Rules[r].category = c
          BY DEF RulesOf
        <5>3. QED
          BY <2>8, <5>1, <5>2
      <4>3. QED
        BY <4>1, <4>2
    <3>2. ASSUME NEW r \in DOMAIN Rules, s \in SignaturesOf(r, Fed(Rules[r].category)')
          PROVE  s \in seen'
      <4>1. CASE Rules[r].category = c
        BY <2>7, <2>8, <3>2, <4>1
      <4>2. CASE Rules[r].category # c
        BY <2>4, <2>7, <2>8, <3>2, <4>2
      <4>3. QED
        BY <4>1, <4>2
    <3>3. QED
      BY <3>1, <3>2
  <2>10. QED
    BY <2>9
<1>6. IncrementalIsBatch'
  BY <1>5 DEF IncrementalIsBatch, SignaturesOf
<1>7. QED
  BY <1>4, <1>6 DEF BatchInv

\* A detector that was shown nothing has raised nothing.
LEMMA InitBatch == DetectorInit => BatchInv
<1> SUFFICES ASSUME DetectorInit PROVE BatchInv
  OBVIOUS
<1>1. feed = <<>> /\ seen = {} /\ window = [c \in Categories |-> <<>>]
  BY DEF DetectorInit
<1>2. ToSet(<<>>) = {} /\ Len(<<>>) = 0
  BY EmptySeq DEF ToSet
<1>3. \A c : Fed(c) = {}
  BY <1>1, <1>2 DEF Fed
<1>4. \A c \in Categories : ToSet(window[c]) = Fed(c) /\ Len(window[c]) <= Len(feed)
  <2> SUFFICES ASSUME NEW c \in Categories
               PROVE  ToSet(window[c]) = Fed(c) /\ Len(window[c]) <= Len(feed)
    OBVIOUS
  <2>1. window[c] = <<>> /\ Fed(c) = {}
    BY <1>1, <1>3
  <2>2. ToSet(window[c]) = {} /\ Len(window[c]) = 0 /\ Len(feed) = 0
    BY <1>1, <1>2, <2>1, Zenon
  <2>3. QED
    BY <2>1, <2>2
<1>5. \A r \in DOMAIN Rules : EvaluateRule(Rules[r], Fed(Rules[r].category)) = {}
  BY <1>3, NothingOfNothing, DetectorAssumption DEF DetectorAssumption
<1>6. QED
  BY <1>1, <1>4, <1>5 DEF BatchInv, IncrementalIsBatch

\* Nothing else that a step changes matters to it.
LEMMA BatchStays ==
  ASSUME BatchInv, UNCHANGED detectorVars
  PROVE  BatchInv'
<1>1. window' = window /\ seen' = seen /\ feed' = feed
  BY DEF detectorVars
<1>2. IncrementalIsBatch'
  <2>1. Undisturbed' = Undisturbed /\ \A c : Fed(c)' = Fed(c)
    BY <1>1 DEF Undisturbed, InOrder, Fed
  <2>2. \A r \in DOMAIN Rules : Fed(Rules[r].category)' = Fed(Rules[r].category)
    BY <2>1
  <2>3. Undisturbed =>
          seen = UNION {{Signature(r, m) : m \in EvaluateRule(Rules[r], Fed(Rules[r].category))} :
                          r \in DOMAIN Rules}
    BY DEF BatchInv, IncrementalIsBatch
  <2>4. QED
    BY <1>1, <2>1, <2>2, <2>3 DEF IncrementalIsBatch
<1>3. QED
  BY <1>1, <1>2 DEF BatchInv, Fed

\* An event that arrives keeps what is known of the detector.
LEMMA ArrivalsKeep ==
  ASSUME NEW CONSTANT Kinds, \A kind \in Kinds : kind.category \in Categories /\ kind.delay \in Int
  PROVE  DetectorInit /\ [][\E kind \in Kinds : Arrive(kind)]_detectorVars
           => [](DetectorInv /\ Numbered /\ BatchInv)
<1>1. DetectorInit => DetectorInv /\ Numbered /\ BatchInv
  <2>1. DetectorInit => Numbered
    BY DEF DetectorInit, Numbered
  <2>2. QED
    BY <2>1, InitDetector, InitBatch
<1>2. DetectorInv /\ Numbered /\ BatchInv /\ [\E kind \in Kinds : Arrive(kind)]_detectorVars
        => (DetectorInv /\ Numbered /\ BatchInv)'
  <2>1. ASSUME DetectorInv, Numbered, BatchInv, UNCHANGED detectorVars
        PROVE  (DetectorInv /\ Numbered /\ BatchInv)'
    <3>1. window' = window /\ seen' = seen /\ feed' = feed
      BY <2>1 DEF detectorVars
    <3>2. DetectorInv' /\ Numbered'
      BY <2>1, <3>1 DEF DetectorInv, Numbered
    <3>3. BatchInv'
      BY <2>1, BatchStays
    <3>4. QED
      BY <3>2, <3>3
  <2>2. ASSUME DetectorInv, Numbered, BatchInv, NEW kind \in Kinds, Arrive(kind)
        PROVE  (DetectorInv /\ Numbered /\ BatchInv)'
    <3>1. DetectorInv' /\ Numbered'
      BY <2>2, ArrivalKeeps
    <3>2. PICK e : Fresh(e) /\ e.category = kind.category /\ observe(kind.category, e)
      BY <2>2, ArrivalIsFresh
    <3>3. BatchInv'
      BY <2>2, <3>2, ObserveBatch
    <3>4. QED
      BY <3>1, <3>3
  <2>3. QED
    BY <2>1, <2>2
<1>3. QED
  BY <1>1, <1>2, PTL

\* Whatever the rules and the kinds of event: while events come in order and none is
\* evicted, observe, which evaluates again on each event, has alerted on exactly the
\* matches that evaluate_rule gives on all of them at once (detect.py, engine.py).
THEOREM DetectorIncremental ==
  ASSUME NEW CONSTANT Kinds, \A kind \in Kinds : kind.category \in Categories /\ kind.delay \in Int
  PROVE  DetectorInit /\ [][\E kind \in Kinds : Arrive(kind)]_detectorVars => []IncrementalIsBatch
<1>1. BatchInv => IncrementalIsBatch
  BY DEF BatchInv
<1>2. QED
  BY <1>1, ArrivalsKeep, PTL

----------------------------------------------------------------------------
(* Bursts.                                                                 *)

\* The starts that a chain picks from i on: no two of their bursts meet, and every
\* burst that is long enough starts in the burst of one of them.
Picked(f, n, k, stop, cite, i, I) ==
  /\ f[i] = {cite[j] : j \in I}
  /\ \A j \in I : stop[j] - j >= k
  /\ \A j, l \in I : j < l => stop[j] <= l
  /\ \A p \in i..n : stop[p] - p >= k => \E j \in I : j <= p /\ p < stop[j]

\* Every chain picks such starts.
LEMMA ChainPicks ==
  ASSUME NEW n \in Nat, NEW k \in Nat \ {0}, NEW stop \in [1..n -> 1..n + 1], NEW cite,
         NEW f, Chain(f, n, k, stop, cite)
  PROVE  \E I \in SUBSET (1..n) : Picked(f, n, k, stop, cite, 1, I)
<1> DEFINE P == {i \in 1..n + 1 : \E I \in SUBSET (i..n) : Picked(f, n, k, stop, cite, i, I)}
<1>1. /\ f[n + 1] = {}
      /\ \A i \in 1..n : /\ i + 1 \in 1..n + 1 /\ stop[i] \in 1..n + 1
                         /\ stop[i] - i >= k => stop[i] > i /\ f[i] = {cite[i]} \union f[stop[i]]
                         /\ ~(stop[i] - i >= k) => f[i] = f[i + 1]
  <2>1. Links(f, n, k, stop, cite)
    BY ChainLinks
  <2>2. QED
    BY <2>1 DEF Links
<1>2. ASSUME NEW i \in 1..n + 1, \A j \in 1..n + 1 : j > i => j \in P
      PROVE  i \in P
  <2>1. CASE i = n + 1
    <3>1. \A p \in i..n : FALSE
      BY <2>1
    <3>2. f[i] = {cite[j] : j \in {}}
      BY <1>1, <2>1
    <3>3. Picked(f, n, k, stop, cite, i, {})
      BY <3>1, <3>2 DEF Picked
    <3>4. QED
      BY <3>3
  <2>2. CASE i \in 1..n /\ stop[i] - i >= k
    <3>1. stop[i] \in 1..n + 1 /\ stop[i] > i /\ f[i] = {cite[i]} \union f[stop[i]]
      BY <1>1, <2>2
    <3>2. PICK I \in SUBSET (stop[i]..n) : Picked(f, n, k, stop, cite, stop[i], I)
      BY <1>2, <3>1
    <3> DEFINE J == {i} \union I
    <3>3. J \in SUBSET (i..n) /\ \A j \in I : stop[i] <= j /\ i < j /\ j \in 1..n
      BY <2>2, <3>1, <3>2
    <3>4. f[i] = {cite[j] : j \in J}
      BY <3>1, <3>2 DEF Picked
    <3>5. \A j \in J : stop[j] - j >= k
      BY <2>2, <3>2 DEF Picked
    <3>6. \A j, l \in J : j < l => stop[j] <= l
      <4>1. \A j, l \in I : j < l => stop[j] <= l
        BY <3>2 DEF Picked
      <4>2. ~(i < i) /\ \A j \in I : ~(j < i)
        BY <2>2, <3>3
      <4>3. QED
        BY <3>3, <4>1, <4>2
    <3>7. ASSUME NEW p \in i..n, stop[p] - p >= k PROVE \E j \in J : j <= p /\ p < stop[j]
      <4>1. CASE p < stop[i]
        <5>1. i <= p
          BY <2>2
        <5>2. QED
          BY <4>1, <5>1
      <4>2. CASE ~(p < stop[i])
        <5>1. p \in stop[i]..n
          BY <2>2, <3>1, <4>2
        <5>2. QED
          BY <3>2, <3>7, <5>1 DEF Picked
      <4>3. QED
        BY <4>1, <4>2
    <3> HIDE DEF J
    <3>8. Picked(f, n, k, stop, cite, i, J)
      BY <3>4, <3>5, <3>6, <3>7 DEF Picked
    <3>9. QED
      BY <3>3, <3>8
  <2>3. CASE i \in 1..n /\ ~(stop[i] - i >= k)
    <3>1. i + 1 \in 1..n + 1 /\ i + 1 > i /\ f[i] = f[i + 1]
      BY <1>1, <2>3
    <3>2. PICK I \in SUBSET (i + 1..n) : Picked(f, n, k, stop, cite, i + 1, I)
      BY <1>2, <3>1
    <3>3. I \in SUBSET (i..n)
      BY <2>3, <3>2
    <3>4. ASSUME NEW p \in i..n, stop[p] - p >= k PROVE p \in i + 1..n
      BY <2>3, <3>4
    <3>5. Picked(f, n, k, stop, cite, i, I)
      BY <3>1, <3>2, <3>4 DEF Picked
    <3>6. QED
      BY <3>3, <3>5
  <2>4. QED
    BY <2>1, <2>2, <2>3
<1>3. P = 1..n + 1
  <2>1. P \in SUBSET (1..n + 1) /\ n + 1 \in Nat
    OBVIOUS
  <2> HIDE DEF P
  <2>2. QED
    BY <1>2, <2>1, Downward
<1>4. 1 \in P
  <2>1. 1 \in 1..n + 1
    OBVIOUS
  <2>2. QED
    BY <1>3, <2>1
<1>5. QED
  BY <1>4

\* No two events occurred at once.
Strict(E) == \A e, f \in E : e.occurred_at = f.occurred_at => e = f

\* The match m of some events of E begins with a.
Begins(E, m, a) ==
  /\ a \in E /\ a.id \in m /\ m \subseteq {e.id : e \in E}
  /\ \A f \in E : f.id \in m => a.occurred_at <= f.occurred_at

\* a is the earliest event of C, or one of them.
FirstOf(C, a) == a \in C /\ \A f \in C : a.occurred_at <= f.occurred_at

\* Neither starts in the window of the other.
Apart(d, a, b) ==
  \/ b.occurred_at > a.occurred_at + d.within_seconds
  \/ a.occurred_at > b.occurred_at + d.within_seconds

\* Each match has a start of its own, apart from the others', and what the rule
\* describes begins in the window of one.
Bursts(d, E, M) ==
  \E I, start, cite :
    /\ M = {cite[i] : i \in I}
    /\ \A i \in I : Begins(E, cite[i], start[i])
    /\ \A i, j \in I : i # j => Apart(d, start[i], start[j])
    /\ \A C \in SUBSET E : Means(d, C) =>
         \A a \in C : FirstOf(C, a) =>
           \E i \in I : a.occurred_at - start[i].occurred_at \in 0..d.within_seconds

\* As many events as a threshold rule wants, in a window that starts at the i-th,
\* fit before the burst from there stops.
LEMMA BurstHolds ==
  ASSUME NEW d, IsDetection(d), d.type = "threshold", NEW G, EventSet(G), Strict(G),
         NEW i \in 1..Cardinality(G),
         NEW C \in SUBSET G, Means(d, C), FirstOf(C, Ordered(G)[i])
  PROVE  BurstEnd(d, Ordered(G), i) - i >= d.min_count
<1> DEFINE n == Cardinality(G)
           g == Ordered(G)
           b == BurstEnd(d, g, i)
           Q == {p \in i..b - 1 : g[p] \in C}
<1>1. /\ n \in Nat /\ g \in [1..n -> G] /\ Len(g) = n
      /\ \A p, q \in 1..n : p < q => Before(g[p], g[q])
  BY OrderedIsSorted, LengthOfOrdered
<1>2. d.min_count \in Nat /\ d.within_seconds \in Int
  BY DEF IsDetection
<1>3. Cardinality(C) = d.min_count /\ Together(d, C)
  BY DEF Means
<1>4. \A p, q \in 1..n : g[p].occurred_at \in Int /\ (p <= q => g[p].occurred_at <= g[q].occurred_at)
  BY TimesInOrder
<1>5. \A x \in G : \E p \in 1..n : x = g[p]
  BY OrderedOnto
<1>6. \A p, q \in 1..n : g[p] = g[q] => p = q
  BY OrderedOnto
<1> HIDE DEF n, g
<1>7. i \in 1..n /\ g[i] \in C /\ \A f \in C : g[i].occurred_at <= f.occurred_at
  BY DEF n, g, FirstOf
<1>8. /\ b \in i..n + 1
      /\ b <= n => g[b].occurred_at - g[i].occurred_at > d.within_seconds
  BY <1>1, <1>2, <1>4, <1>7, BurstSplits
<1> HIDE DEF b
<1>9. ASSUME NEW x \in C PROVE \E p \in Q : x = g[p]
  <2>1. PICK p \in 1..n : x = g[p]
    BY <1>5
  <2>2. ~(p < i)
    <3>1. SUFFICES ASSUME p < i PROVE FALSE
      OBVIOUS
    <3>2. g[p].occurred_at <= g[i].occurred_at /\ g[i].occurred_at <= g[p].occurred_at
      BY <1>4, <1>7, <2>1, <3>1
    <3>3. g[p].occurred_at = g[i].occurred_at /\ g[p] \in G /\ g[i] \in G
      BY <1>1, <1>4, <1>7, <3>2
    <3>4. g[p] = g[i]
      BY <3>3 DEF Strict
    <3>5. p = i
      BY <1>6, <1>7, <3>4
    <3>6. QED
      BY <3>1, <3>5
  <2>3. p < b
    <3>1. SUFFICES ASSUME ~(p < b) PROVE FALSE
      OBVIOUS
    <3>2. b \in 1..n /\ b <= p /\ b <= n
      BY <1>1, <1>7, <1>8, <3>1
    <3>3. g[b].occurred_at - g[i].occurred_at > d.within_seconds
      BY <1>8, <3>2
    <3>4. g[b].occurred_at <= g[p].occurred_at
      BY <1>4, <3>2
    <3>5. g[p].occurred_at - g[i].occurred_at <= d.within_seconds
      BY <1>3, <1>7, <2>1 DEF Together
    <3>6. g[b].occurred_at \in Int /\ g[p].occurred_at \in Int /\ g[i].occurred_at \in Int
      BY <1>4, <1>7, <3>2
    <3>7. QED
      BY <1>2, <3>3, <3>4, <3>5, <3>6
  <2>4. p \in i..b - 1
    BY <1>1, <1>7, <1>8, <2>2, <2>3
  <2>5. QED
    BY <2>1, <2>4
<1>10. b - i \in Nat /\ IsFiniteSet(i..b - 1) /\ Cardinality(i..b - 1) = b - i
  <2>1. i \in Int /\ b - 1 \in Int /\ b \in Int /\ i <= b
    BY <1>1, <1>7, <1>8
  <2>2. IsFiniteSet(i..b - 1) /\ Cardinality(i..b - 1) = IF i > b - 1 THEN 0 ELSE (b - 1) - i + 1
    BY <2>1, FS_Interval
  <2>3. QED
    BY <2>1, <2>2
<1>11. IsFiniteSet(Q) /\ Cardinality(Q) \in Nat /\ Cardinality(Q) <= b - i
  <2>1. Q \in SUBSET (i..b - 1)
    OBVIOUS
  <2> HIDE DEF Q
  <2>2. IsFiniteSet(Q) /\ Cardinality(Q) <= Cardinality(i..b - 1)
    BY <1>10, <2>1, FS_Subset
  <2>3. QED
    BY <1>10, <2>2, FS_CardinalityType
<1>12. Cardinality(C) <= Cardinality(Q)
  <2> DEFINE h == [p \in Q |-> g[p]]
  <2>1. h \in Surjection(Q, C)
    <3>1. h \in [Q -> C]
      OBVIOUS
    <3>2. \A x \in C : \E p \in Q : h[p] = x
      <4>1. \A p \in Q : h[p] = g[p]
        OBVIOUS
      <4> HIDE DEF h, Q
      <4>2. QED
        BY <1>9, <4>1
    <3> HIDE DEF h, Q
    <3>3. QED
      BY <3>1, <3>2 DEF Surjection
  <2> HIDE DEF h, Q
  <2>2. QED
    BY <1>11, <2>1, FS_Surjection
<1> HIDE DEF Q
<1>13. b - i >= d.min_count
  BY <1>2, <1>3, <1>10, <1>11, <1>12
<1>14. QED
  BY <1>13 DEF b, g

\* The matches that one source's events give a threshold rule are bursts.
LEMMA ThresholdBursts ==
  ASSUME NEW d, IsDetection(d), d.type = "threshold", NEW G, EventSet(G), Strict(G)
  PROVE  Bursts(d, G, ThresholdMatches(d, G))
<1> DEFINE n == Cardinality(G)
           g == Ordered(G)
           k == d.min_count
           stop == BurstStops(d, g, n)
           cite == BurstIds(d, g, n)
<1>1. /\ n \in Nat /\ g \in [1..n -> G] /\ Len(g) = n
  BY OrderedIsSorted, LengthOfOrdered
<1>2. k \in Nat \ {0} /\ d.within_seconds \in Int
  BY DEF IsDetection
<1>3. \A p, q \in 1..n : g[p].occurred_at \in Int /\ (p <= q => g[p].occurred_at <= g[q].occurred_at)
  BY TimesInOrder
<1>4. \A x \in G : \E p \in 1..n : x = g[p]
  BY OrderedOnto
<1>5. stop \in [1..n -> 1..n + 1]
  BY <1>2, BurstsStop
<1>6. PICK f : Chain(f, n, k, stop, cite) /\ ThresholdMatches(d, G) = f[1]
  BY ThresholdIsChain
<1>7. PICK I \in SUBSET (1..n) : Picked(f, n, k, stop, cite, 1, I)
  <2> HIDE DEF n, g, k, stop, cite
  <2> QED BY <1>1, <1>2, <1>5, <1>6, ChainPicks
<1>8. /\ ThresholdMatches(d, G) = {cite[i] : i \in I}
      /\ \A i \in I : stop[i] - i >= k
      /\ \A i, j \in I : i < j => stop[i] <= j
      /\ \A p \in 1..n : stop[p] - p >= k => \E j \in I : j <= p /\ p < stop[j]
  <2> HIDE DEF n, g, k, stop, cite
  <2> QED BY <1>6, <1>7 DEF Picked
<1>9. \A i \in 1..n : stop[i] = BurstEnd(d, g, i) /\ cite[i] = {g[p].id : p \in i..i + k - 1}
  BY DEF BurstStops, BurstIds, BurstCites
<1>11. ASSUME NEW i \in 1..n, NEW C \in SUBSET G, Means(d, C), FirstOf(C, g[i])
       PROVE  stop[i] - i >= k
  <2>1. BurstEnd(d, Ordered(G), i) - i >= d.min_count
    BY <1>11, BurstHolds
  <2>2. QED
    BY <1>9, <2>1
<1> HIDE DEF stop, cite, n, g
<1>12. ASSUME NEW i \in 1..n
       PROVE  /\ stop[i] \in i..n + 1
              /\ \A j \in i..n : j < stop[i] => g[j].occurred_at - g[i].occurred_at <= d.within_seconds
              /\ stop[i] <= n => g[stop[i]].occurred_at - g[i].occurred_at > d.within_seconds
  <2>1. \A j \in 1..n : g[j].occurred_at \in Int
    BY <1>3
  <2>2. /\ BurstEnd(d, g, i) \in i..n + 1
        /\ \A j \in i..n : j < BurstEnd(d, g, i) =>
             g[j].occurred_at - g[i].occurred_at <= d.within_seconds
        /\ BurstEnd(d, g, i) <= n =>
             g[BurstEnd(d, g, i)].occurred_at - g[i].occurred_at > d.within_seconds
    BY <1>1, <1>2, <2>1, BurstSplits
  <2>3. stop[i] = BurstEnd(d, g, i)
    BY <1>9
  <2>4. QED
    BY <2>2, <2>3
<1> DEFINE start == [i \in I |-> g[i]]
<1>13. \A i \in I : start[i] = g[i] /\ i \in 1..n
  OBVIOUS
<1> HIDE DEF start
<1>14. ASSUME NEW i \in I PROVE Begins(G, cite[i], start[i])
  <2>1. i \in i..i + k - 1 /\ start[i] = g[i] /\ g[i] \in G
    BY <1>1, <1>2, <1>13
  <2>2. cite[i] = {g[p].id : p \in i..i + k - 1}
    BY <1>9, <1>13
  <2>3. \A p \in i..i + k - 1 : p \in 1..n /\ i <= p /\ i \in 1..n
    <3>1. i \in 1..n /\ stop[i] \in i..n + 1 /\ stop[i] - i >= k
      BY <1>8, <1>12, <1>13
    <3>2. QED
      BY <1>1, <1>2, <3>1
  <2>4. cite[i] \subseteq {e.id : e \in G}
    BY <1>1, <2>2, <2>3
  <2>5. ASSUME NEW x \in G, x.id \in cite[i] PROVE g[i].occurred_at <= x.occurred_at
    <3>1. PICK p \in i..i + k - 1 : x.id = g[p].id
      BY <2>2, <2>5
    <3>2. p \in 1..n /\ i <= p /\ i \in 1..n
      BY <2>3
    <3>3. g[p] \in G
      BY <1>1, <3>2
    <3>4. x = g[p]
      BY <3>1, <3>3 DEF EventSet
    <3>5. QED
      BY <1>3, <3>2, <3>4
  <2>6. g[i].id \in cite[i]
    BY <2>1, <2>2
  <2>7. QED
    BY <2>1, <2>4, <2>5, <2>6 DEF Begins
<1>15. ASSUME NEW i \in I, NEW j \in I, i < j PROVE start[j].occurred_at > start[i].occurred_at + d.within_seconds
  <2>1. stop[i] <= j /\ i \in 1..n /\ j \in 1..n /\ start[i] = g[i] /\ start[j] = g[j]
    BY <1>8, <1>13, <1>15
  <2>2. stop[i] \in 1..n /\ stop[i] <= n
    BY <1>1, <1>12, <2>1
  <2>3. g[stop[i]].occurred_at - g[i].occurred_at > d.within_seconds
    BY <1>12, <2>1, <2>2
  <2>4. g[stop[i]].occurred_at <= g[j].occurred_at
    BY <1>3, <2>1, <2>2
  <2>5. g[stop[i]].occurred_at \in Int /\ g[j].occurred_at \in Int /\ g[i].occurred_at \in Int
    BY <1>3, <2>1, <2>2
  <2>6. QED
    BY <1>2, <2>1, <2>3, <2>4, <2>5
<1>16. ASSUME NEW i \in I, NEW j \in I, i # j PROVE Apart(d, start[i], start[j])
  <2>1. i < j \/ j < i
    BY <1>1, <1>13, <1>16
  <2>2. QED
    BY <1>15, <2>1 DEF Apart
<1>17. ASSUME NEW C \in SUBSET G, Means(d, C), NEW a \in C, FirstOf(C, a)
       PROVE  \E i \in I : a.occurred_at - start[i].occurred_at \in 0..d.within_seconds
  <2>1. PICK p \in 1..n : a = g[p]
    BY <1>4
  <2>2. stop[p] - p >= k
    BY <1>11, <1>17, <2>1
  <2>3. PICK i \in I : i <= p /\ p < stop[i]
    BY <1>8, <2>2
  <2>4. i \in 1..n /\ start[i] = g[i] /\ p \in i..n
    BY <1>1, <1>13, <2>3
  <2>5. g[p].occurred_at - g[i].occurred_at <= d.within_seconds /\ g[i].occurred_at <= g[p].occurred_at
    BY <1>3, <1>12, <2>3, <2>4
  <2>6. g[p].occurred_at \in Int /\ g[i].occurred_at \in Int
    BY <1>3, <2>4
  <2>7. a.occurred_at - start[i].occurred_at \in 0..d.within_seconds
    BY <1>2, <2>1, <2>4, <2>5, <2>6
  <2>8. QED
    BY <2>7
<1>18. QED
  BY <1>8, <1>14, <1>16, <1>17 DEF Bursts

\* What the window that starts at a cites, when it is full.
CitedFrom(d, E, a) == {e.id : e \in UNION {WindowCites(d, E)[a][i] : i \in 1..Len(d.arms)}}

\* It begins with a.
LEMMA FullBegins ==
  ASSUME NEW d, IsDetection(d), d.type = "correlation", NEW E, EventSet(E), Strict(E),
         NEW a \in Anchors(d, E), ~Lacking(d, E, a)
  PROVE  Begins(E, CitedFrom(d, E, a), a)
<1>1. a \in E /\ a.occurred_at \in Int /\ d.within_seconds \in Nat
  BY DEF Anchors, EventSet, IsDetection
<1>2. PICK k \in 1..Len(d.arms) : Satisfies(a, d.arms[k].match)
  BY DEF Anchors
<1>3. \A i \in 1..Len(d.arms) :
        /\ WindowCites(d, E)[a][i] = ArmCites(d, d.arms[i], E, a.occurred_at)
        /\ WindowCites(d, E)[a][i] # {} /\ d.arms[i].min_count \in Nat \ {0}
  BY DEF WindowCites, Lacking, IsDetection
<1>4. a \in WindowCites(d, E)[a][k]
  <2> DEFINE W == InWindow(d, d.arms[k], E, a.occurred_at)
             m == d.arms[k].min_count
  <2>1. a \in W
    BY <1>1, <1>2 DEF InWindow, Matching
  <2>2. ASSUME NEW f \in W, Before(f, a) PROVE FALSE
    <3>1. f \in E /\ a.occurred_at <= f.occurred_at
      BY DEF InWindow, Matching
    <3>2. f.occurred_at \in Int
      BY <3>1 DEF EventSet
    <3>3. f.occurred_at = a.occurred_at
      BY <1>1, <2>2, <3>1, <3>2 DEF Before
    <3>4. f = a
      BY <1>1, <3>1, <3>3 DEF Strict
    <3>5. QED
      BY <1>1, <2>2, <3>4, BeforeOrders
  <2>3. {f \in W : Before(f, a)} = {}
    BY <2>2
  <2>4. Cardinality({f \in W : Before(f, a)}) < m
    <3>1. Cardinality({f \in W : Before(f, a)}) = 0 /\ m \in Nat \ {0}
      BY <1>3, <2>3, FS_EmptySet
    <3> HIDE DEF W, m
    <3>2. QED
      BY <3>1
  <2>5. ArmCites(d, d.arms[k], E, a.occurred_at) = Earliest(W, m)
    BY <1>3 DEF ArmCites
  <2>6. a \in Earliest(W, m)
    BY <2>1, <2>4 DEF Earliest
  <2>7. QED
    BY <1>3, <2>5, <2>6
<1>5. ASSUME NEW i \in 1..Len(d.arms), NEW x \in WindowCites(d, E)[a][i]
      PROVE  x \in E /\ a.occurred_at <= x.occurred_at
  <2>1. /\ d.arms[i].min_count \in Nat \ {0}
        /\ WindowCites(d, E)[a][i] = ArmCites(d, d.arms[i], E, a.occurred_at)
    BY <1>3
  <2> DEFINE C == WindowCites(d, E)[a][i]
  <2>2. C \in SUBSET E /\ \A e \in C : a.occurred_at <= e.occurred_at
    <3> HIDE DEF C
    <3> QED BY <1>1, <2>1, ArmStands DEF C
  <2>3. QED
    BY <2>2
<1>6. a.id \in CitedFrom(d, E, a)
  BY <1>4 DEF CitedFrom
<1>7. ASSUME NEW f \in E, f.id \in CitedFrom(d, E, a) PROVE a.occurred_at <= f.occurred_at
  <2>1. PICK i \in 1..Len(d.arms) : \E x \in WindowCites(d, E)[a][i] : x.id = f.id
    BY <1>7 DEF CitedFrom
  <2>2. PICK x \in WindowCites(d, E)[a][i] : x.id = f.id
    BY <2>1
  <2>3. x = f /\ a.occurred_at <= x.occurred_at
    BY <1>5, <2>2 DEF EventSet
  <2>4. QED
    BY <2>3
<1>8. CitedFrom(d, E, a) \subseteq {e.id : e \in E}
  BY <1>5 DEF CitedFrom
<1>9. QED
  BY <1>1, <1>6, <1>7, <1>8 DEF Begins

\* What the rule describes fills the window from its first event.
LEMMA MeaningFills ==
  ASSUME NEW d, IsDetection(d), d.type = "correlation", NEW E, EventSet(E),
         NEW C \in SUBSET E, Means(d, C), NEW a \in C, FirstOf(C, a)
  PROVE  a \in Anchors(d, E) /\ ~Lacking(d, E, a)
<1>1. /\ Together(d, C) /\ \A e \in C : \E i \in 1..Len(d.arms) : Satisfies(e, d.arms[i].match)
      /\ \A i \in 1..Len(d.arms) : Cardinality(Hits(C, d.arms[i].match)) >= d.arms[i].min_count
  BY DEF Means
<1>2. a \in Anchors(d, E)
  BY <1>1 DEF Anchors
<1>3. ASSUME NEW i \in 1..Len(d.arms) PROVE ArmCites(d, d.arms[i], E, a.occurred_at) # {}
  <2> DEFINE W == InWindow(d, d.arms[i], E, a.occurred_at)
             H == Hits(C, d.arms[i].match)
  <2>1. ASSUME NEW x \in H PROVE x \in W
    <3>1. x \in C /\ x \in E /\ Satisfies(x, d.arms[i].match)
      BY DEF Hits
    <3>2. a.occurred_at <= x.occurred_at /\ x.occurred_at - a.occurred_at <= d.within_seconds
      BY <1>1, <3>1 DEF FirstOf, Together
    <3>3. x.occurred_at \in Int /\ a.occurred_at \in Int /\ d.within_seconds \in Int
      BY <3>1 DEF EventSet, IsDetection
    <3>4. x.occurred_at <= a.occurred_at + d.within_seconds
      BY <3>2, <3>3
    <3>5. QED
      BY <3>1, <3>2, <3>4 DEF InWindow, Matching
  <2>2. d.arms[i].min_count \in Nat \ {0}
    BY DEF IsDetection
  <2>3. EventSet(W) /\ Cardinality(W) \in Nat
    BY <2>2, ArmFull
  <2>4. IsFiniteSet(W)
    BY <2>3 DEF EventSet
  <2>5. Cardinality(H) >= d.arms[i].min_count
    BY <1>1
  <2> HIDE DEF W, H
  <2>6. Cardinality(H) <= Cardinality(W) /\ Cardinality(H) \in Nat
    <3>1. H \in SUBSET W
      BY <2>1
    <3>2. IsFiniteSet(H) /\ Cardinality(H) <= Cardinality(W)
      BY <2>4, <3>1, FS_Subset
    <3>3. QED
      BY <3>2, FS_CardinalityType
  <2>7. Cardinality(W) >= d.arms[i].min_count
    BY <2>2, <2>3, <2>5, <2>6
  <2>8. QED
    BY <2>2, <2>7, ArmFull DEF W
<1>4. \A i \in 1..Len(d.arms) : WindowCites(d, E)[a][i] = ArmCites(d, d.arms[i], E, a.occurred_at)
  BY <1>2 DEF WindowCites
<1>5. QED
  BY <1>2, <1>3, <1>4 DEF Lacking

\* The anchors at which the walk has matched after the first i.
Matched(d, E, s, i, J) ==
  LET g == Ordered(Anchors(d, E)) IN
  /\ s.matches = {CitedFrom(d, E, g[j]) : j \in J}
  /\ \A j \in J : ~Lacking(d, E, g[j])
  /\ \A j, l \in J : j < l => g[l].occurred_at > g[j].occurred_at + d.within_seconds
  /\ \A p \in 1..i : ~Lacking(d, E, g[p]) =>
       \E j \in J : j <= p /\ g[p].occurred_at - g[j].occurred_at <= d.within_seconds
  /\ \A t \in s.covered_until : \E j \in J : t = g[j].occurred_at + d.within_seconds
  /\ \A j \in J : \E t \in s.covered_until : g[j].occurred_at + d.within_seconds <= t

\* One more anchor.
LEMMA TryMatches ==
  ASSUME NEW d, IsDetection(d), d.type = "correlation", NEW E, EventSet(E),
         NEW i \in 1..Cardinality(Anchors(d, E)), NEW s, NEW J \in SUBSET (1..i - 1),
         Matched(d, E, s, i - 1, J), NEW a, a = Ordered(Anchors(d, E))[i]
  PROVE  \E K \in SUBSET (1..i) : Matched(d, E, Try(d, s, a, WindowCites(d, E)[a]), i, K)
<1> DEFINE A == Anchors(d, E)
           n == Cardinality(A)
           g == Ordered(A)
           t == Try(d, s, a, WindowCites(d, E)[a])
           w == d.within_seconds
<1>1. w \in Nat /\ EventSet(A)
  <2>1. A \in SUBSET E
    BY DEF Anchors
  <2>2. QED
    BY <2>1, EventSubset DEF IsDetection
<1>2. /\ n \in Nat /\ \A p, q \in 1..n : g[p].occurred_at \in Int /\ (p <= q => g[p].occurred_at <= g[q].occurred_at)
  BY <1>1, OrderedIsSorted, TimesInOrder
<1>3. /\ s.matches = {CitedFrom(d, E, g[j]) : j \in J}
      /\ \A j \in J : ~Lacking(d, E, g[j])
      /\ \A j, l \in J : j < l => g[l].occurred_at > g[j].occurred_at + w
      /\ \A p \in 1..i - 1 : ~Lacking(d, E, g[p]) =>
           \E j \in J : j <= p /\ g[p].occurred_at - g[j].occurred_at <= w
      /\ \A x \in s.covered_until : \E j \in J : x = g[j].occurred_at + w
      /\ \A j \in J : \E x \in s.covered_until : g[j].occurred_at + w <= x
  BY DEF Matched
<1> HIDE DEF n
<1>4. i \in 1..n /\ a = g[i] /\ J \in SUBSET (1..i) /\ \A j \in J : j \in 1..n /\ j < i
  <2>1. i \in 1..n
    BY DEF n
  <2>2. QED
    BY <1>2, <2>1
<1>5. \A p \in 1..i : p \in 1..i - 1 \/ p = i
  BY <1>2, <1>4
<1>6. ASSUME t = s,
             ~Lacking(d, E, a) => \E j \in J : j <= i /\ a.occurred_at - g[j].occurred_at <= w
      PROVE  Matched(d, E, t, i, J)
  <2>1. \A p \in 1..i : ~Lacking(d, E, g[p]) =>
           \E j \in J : j <= p /\ g[p].occurred_at - g[j].occurred_at <= w
    <3> HIDE DEF g, w, t
    <3> QED BY <1>3, <1>4, <1>5, <1>6
  <2> HIDE DEF t, w
  <2>2. QED
    BY <1>3, <1>6, <2>1 DEF Matched, w
<1>7. CASE Covered(s, a)
  <2>1. t = s
    BY <1>7 DEF Try
  <2>2. PICK x \in s.covered_until : a.occurred_at <= x
    BY <1>7 DEF Covered
  <2>3. PICK j \in J : x = g[j].occurred_at + w
    <3> HIDE DEF g, w
    <3> QED BY <1>3, <2>2
  <2>4. j <= i /\ a.occurred_at - g[j].occurred_at <= w
    <3>1. j \in 1..n /\ j < i /\ g[j].occurred_at \in Int /\ g[i].occurred_at \in Int
      <4> HIDE DEF g
      <4> QED BY <1>2, <1>4
    <3> HIDE DEF g, w
    <3>2. QED
      BY <1>1, <1>2, <1>4, <2>2, <2>3, <3>1
  <2> HIDE DEF g, w, t
  <2>5. Matched(d, E, t, i, J)
    BY <1>6, <2>1, <2>4
  <2>6. QED
    BY <1>4, <2>5 DEF t
<1>8. CASE ~Covered(s, a) /\ Lacking(d, E, a)
  <2>1. t = s
    BY <1>8 DEF Try, Lacking
  <2> HIDE DEF g, w, t
  <2>2. Matched(d, E, t, i, J)
    BY <1>6, <1>8, <2>1
  <2>3. QED
    BY <1>4, <2>2 DEF t
<1>9. CASE ~Covered(s, a) /\ ~Lacking(d, E, a)
  <2> DEFINE K == J \union {i}
  <2>1. t = [covered_until |-> {a.occurred_at + w}, matches |-> s.matches \union {CitedFrom(d, E, a)}]
    BY <1>9 DEF Try, Lacking, CitedFrom, Ids
  <2>2. t.covered_until = {a.occurred_at + w} /\ t.matches = s.matches \union {CitedFrom(d, E, a)}
    <3> HIDE DEF w, t
    <3> QED BY <2>1
  <2> HIDE DEF g, w, t
  <2>3. ASSUME NEW j \in J PROVE a.occurred_at > g[j].occurred_at + w
    <3>1. PICK x \in s.covered_until : g[j].occurred_at + w <= x
      BY <1>3
    <3>2. ~(a.occurred_at <= x)
      BY <1>9, <3>1 DEF Covered
    <3>3. PICK l \in J : x = g[l].occurred_at + w
      BY <1>3, <3>1
    <3>4. x \in Int /\ a.occurred_at \in Int /\ g[j].occurred_at + w \in Int
      BY <1>1, <1>2, <1>4, <3>3
    <3>5. QED
      BY <3>1, <3>2, <3>4
  <2>4. t.matches = {CitedFrom(d, E, g[j]) : j \in K}
    BY <1>3, <1>4, <2>2
  <2>5. \A j \in K : ~Lacking(d, E, g[j])
    BY <1>3, <1>4, <1>9
  <2>6. \A j, l \in K : j < l => g[l].occurred_at > g[j].occurred_at + w
    <3>1. ~(i < i) /\ \A l \in J : ~(i < l)
      BY <1>2, <1>4
    <3>2. QED
      BY <1>3, <1>4, <2>3, <3>1
  <2>7. \A p \in 1..i : ~Lacking(d, E, g[p]) =>
          \E j \in K : j <= p /\ g[p].occurred_at - g[j].occurred_at <= w
    <3>1. i <= i /\ g[i].occurred_at - g[i].occurred_at <= w
      BY <1>1, <1>2, <1>4
    <3>2. QED
      BY <1>3, <1>5, <3>1
  <2>8. \A x \in t.covered_until : \E j \in K : x = g[j].occurred_at + w
    BY <1>4, <2>2
  <2>9. \A j \in K : \E x \in t.covered_until : g[j].occurred_at + w <= x
    <3>1. ASSUME NEW j \in K PROVE g[j].occurred_at + w <= a.occurred_at + w
      <4>1. j \in 1..n /\ j <= i
        BY <1>2, <1>4
      <4>2. g[j].occurred_at <= a.occurred_at /\ g[j].occurred_at \in Int /\ a.occurred_at \in Int
        BY <1>2, <1>4, <4>1
      <4>3. QED
        BY <1>1, <4>2
    <3>2. QED
      BY <2>2, <3>1
  <2>10. K \in SUBSET (1..i)
    BY <1>2, <1>4
  <2> HIDE DEF K
  <2>11. Matched(d, E, t, i, K)
    BY <2>4, <2>5, <2>6, <2>7, <2>8, <2>9 DEF Matched, g, w
  <2>12. QED
    BY <2>10, <2>11 DEF t
<1>10. QED
  BY <1>7, <1>8, <1>9

\* The matches of a correlation rule are bursts.
LEMMA CorrelationBursts ==
  ASSUME NEW d, IsDetection(d), d.type = "correlation", NEW E, EventSet(E), Strict(E)
  PROVE  Bursts(d, E, EvaluateCorrelation(d, E))
<1> DEFINE A == Anchors(d, E)
           n == Cardinality(A)
           g == Ordered(A)
           f == CHOOSE h : TriedBy(h, d, E)
           P == {i \in 0..n : \E J \in SUBSET (1..i) : Matched(d, E, f[i], i, J)}
<1>1. TriedBy(f, d, E)
  BY TriedExists
<1>2. EvaluateCorrelation(d, E) = f[n].matches
  BY CorrelationIsTried
<1>3. EventSet(A) /\ A \in SUBSET E /\ n \in Nat /\ g \in [1..n -> A]
  <2>1. A \in SUBSET E
    BY DEF Anchors
  <2>2. QED
    BY <2>1, EventSubset, OrderedIsSorted
<1> HIDE DEF f
<1>4. \A i \in 0..n : f[i] = IF i = 0 THEN [covered_until |-> {}, matches |-> {}] ELSE
        Try(d, f[i - 1], g[i], WindowCites(d, E)[g[i]])
  BY <1>1 DEF TriedBy
<1>5. 0 \in P
  <2>1. f[0] = [covered_until |-> {}, matches |-> {}] /\ 0 \in 0..n /\ \A p \in 1..0 : FALSE
    <3> HIDE DEF n
    <3> QED BY <1>3, <1>4
  <2>2. Matched(d, E, f[0], 0, {})
    BY <2>1 DEF Matched
  <2>3. QED
    BY <2>1, <2>2
<1>6. ASSUME NEW i \in 1..n, i - 1 \in P PROVE i \in P
  <2>1. PICK J \in SUBSET (1..i - 1) : Matched(d, E, f[i - 1], i - 1, J)
    BY <1>6
  <2>2. i \in 0..n /\ i # 0
    <3> HIDE DEF n
    <3> QED BY <1>3
  <2>3. f[i] = Try(d, f[i - 1], g[i], WindowCites(d, E)[g[i]])
    BY <1>4, <2>2
  <2>4. \E K \in SUBSET (1..i) : Matched(d, E, Try(d, f[i - 1], g[i], WindowCites(d, E)[g[i]]), i, K)
    BY <2>1, TryMatches
  <2>5. QED
    BY <2>2, <2>3, <2>4
<1>7. n \in P
  <2>1. P \in SUBSET (0..n)
    OBVIOUS
  <2> HIDE DEF P, n
  <2>2. P = 0..n
    BY <1>3, <1>5, <1>6, <2>1, Upward
  <2>3. QED
    BY <1>3, <2>2
<1>8. PICK J \in SUBSET (1..n) : Matched(d, E, f[n], n, J)
  BY <1>7
<1>9. /\ f[n].matches = {CitedFrom(d, E, g[j]) : j \in J}
      /\ \A j \in J : ~Lacking(d, E, g[j])
      /\ \A j, l \in J : j < l => g[l].occurred_at > g[j].occurred_at + d.within_seconds
      /\ \A p \in 1..n : ~Lacking(d, E, g[p]) =>
           \E j \in J : j <= p /\ g[p].occurred_at - g[j].occurred_at <= d.within_seconds
  BY <1>8 DEF Matched
<1> DEFINE start == [j \in J |-> g[j]]
           cite == [j \in J |-> CitedFrom(d, E, g[j])]
<1>10. \A j \in J : start[j] = g[j] /\ cite[j] = CitedFrom(d, E, g[j]) /\ j \in 1..n
  OBVIOUS
<1>11. \A p, q \in 1..n : g[p].occurred_at \in Int /\ (p <= q => g[p].occurred_at <= g[q].occurred_at)
  BY <1>3, TimesInOrder
<1>12. \A x \in A : \E p \in 1..n : x = g[p]
  BY <1>3, OrderedOnto
<1> HIDE DEF start, cite, n, g
<1>13. ASSUME NEW j \in J PROVE Begins(E, cite[j], start[j])
  <2>1. g[j] \in Anchors(d, E) /\ ~Lacking(d, E, g[j])
    BY <1>3, <1>9, <1>10
  <2>2. QED
    BY <1>10, <2>1, FullBegins
<1>14. ASSUME NEW i \in J, NEW j \in J, i # j PROVE Apart(d, start[i], start[j])
  <2>1. i < j \/ j < i
    BY <1>3, <1>10, <1>14
  <2>2. QED
    BY <1>9, <1>10, <2>1 DEF Apart
<1>15. ASSUME NEW C \in SUBSET E, Means(d, C), NEW a \in C, FirstOf(C, a)
       PROVE  \E j \in J : a.occurred_at - start[j].occurred_at \in 0..d.within_seconds
  <2>1. a \in A /\ ~Lacking(d, E, a)
    BY <1>15, MeaningFills
  <2>2. PICK p \in 1..n : a = g[p]
    BY <1>12, <2>1
  <2>3. PICK j \in J : j <= p /\ g[p].occurred_at - g[j].occurred_at <= d.within_seconds
    BY <1>9, <2>1, <2>2
  <2>4. j \in 1..n /\ start[j] = g[j]
    BY <1>10
  <2>5. g[p].occurred_at \in Int /\ g[j].occurred_at \in Int /\ g[j].occurred_at <= g[p].occurred_at
    BY <1>11, <2>3, <2>4
  <2>6. d.within_seconds \in Nat
    BY DEF IsDetection
  <2>7. a.occurred_at - start[j].occurred_at \in 0..d.within_seconds
    BY <2>2, <2>3, <2>4, <2>5, <2>6
  <2>8. QED
    BY <2>7
<1>16. EvaluateCorrelation(d, E) = {cite[j] : j \in J}
  BY <1>2, <1>9, <1>10
<1>17. QED
  BY <1>13, <1>14, <1>15, <1>16 DEF Bursts

\* A threshold rule's groups have bursts of their own.
LEMMA GroupBursts ==
  ASSUME NEW d, IsDetection(d), d.type = "threshold", NEW E, EventSet(E), Strict(E),
         NEW G \in Groups(Matching(E, d.match))
  PROVE  G \in SUBSET E /\ Bursts(d, G, ThresholdMatches(d, G))
<1>1. G \in SUBSET E
  BY GroupOfEvents DEF Matching
<1>2. EventSet(G) /\ Strict(G)
  BY <1>1, EventSubset DEF Strict
<1>3. QED
  BY <1>1, <1>2, ThresholdBursts

\* What begins in a group begins so in the whole window.
LEMMA GroupBegins ==
  ASSUME NEW E, EventSet(E), NEW G \in SUBSET E, NEW x, NEW a, Begins(G, x, a)
  PROVE  Begins(E, x, a)
<1>1. a \in G /\ a.id \in x /\ x \subseteq {e.id : e \in G}
      /\ \A f \in G : f.id \in x => a.occurred_at <= f.occurred_at
  BY DEF Begins
<1>2. ASSUME NEW f \in E, f.id \in x PROVE f \in G
  <2>1. PICK e \in G : f.id = e.id
    BY <1>1, <1>2
  <2>2. f = e
    BY <2>1 DEF EventSet
  <2>3. QED
    BY <2>2
<1>3. QED
  BY <1>1, <1>2 DEF Begins

\* Two matches of a burst rule begin apart, or are of two sources.
LEMMA MatchesApart ==
  ASSUME NEW rule, IsDetection(rule.detection), rule.detection.type \in {"threshold", "correlation"},
         NEW E, EventSet(E), Strict(E),
         NEW m \in EvaluateRule(rule, E), NEW o \in EvaluateRule(rule, E), m # o
  PROVE  \E a, b \in E : /\ Begins(E, m, a) /\ Begins(E, o, b)
                         /\ \/ rule.detection.type = "threshold" /\ a.source # b.source
                            \/ Apart(rule.detection, a, b)
<1> DEFINE d == rule.detection
<1>1. CASE d.type = "correlation"
  <2>1. EvaluateRule(rule, E) = EvaluateCorrelation(d, E)
    BY <1>1 DEF EvaluateRule
  <2>2. Bursts(d, E, EvaluateCorrelation(d, E))
    BY <1>1, CorrelationBursts
  <2>3. PICK I, start, cite :
          /\ EvaluateCorrelation(d, E) = {cite[i] : i \in I}
          /\ \A i \in I : Begins(E, cite[i], start[i])
          /\ \A i, j \in I : i # j => Apart(d, start[i], start[j])
    BY <2>2 DEF Bursts
  <2>4. PICK i \in I : m = cite[i]
    BY <2>1, <2>3
  <2>5. PICK j \in I : o = cite[j]
    BY <2>1, <2>3
  <2>6. i # j
    BY <2>4, <2>5
  <2>7. Begins(E, m, start[i]) /\ Begins(E, o, start[j]) /\ Apart(d, start[i], start[j])
    BY <2>3, <2>4, <2>5, <2>6
  <2>8. start[i] \in E /\ start[j] \in E
    BY <2>7 DEF Begins
  <2>9. QED
    BY <2>7, <2>8
<1>2. CASE d.type = "threshold"
  <2> DEFINE M == Matching(E, d.match)
  <2>1. EvaluateRule(rule, E) = EvaluateThreshold(d, E)
    BY <1>2 DEF EvaluateRule
  <2>2. EvaluateThreshold(d, E) = UNION {ThresholdMatches(d, G) : G \in Groups(M)}
    BY DEF EvaluateThreshold
  <2>3. ASSUME NEW G \in Groups(M)
        PROVE  G \in SUBSET E /\ Bursts(d, G, ThresholdMatches(d, G))
    BY <1>2, GroupBursts
  <2>4. ASSUME NEW G \in Groups(M), NEW x, NEW a, Begins(G, x, a) PROVE Begins(E, x, a)
    BY <2>3, <2>4, GroupBegins
  <2>5. PICK G \in Groups(M) : m \in ThresholdMatches(d, G)
    BY <2>1, <2>2
  <2>6. PICK H \in Groups(M) : o \in ThresholdMatches(d, H)
    BY <2>1, <2>2
  <2>7. PICK I, start, cite :
          /\ ThresholdMatches(d, G) = {cite[i] : i \in I}
          /\ \A i \in I : Begins(G, cite[i], start[i])
          /\ \A i, j \in I : i # j => Apart(d, start[i], start[j])
    BY <2>3 DEF Bursts
  <2>8. PICK i \in I : m = cite[i]
    BY <2>5, <2>7
  <2>9. Begins(G, m, start[i]) /\ Begins(E, m, start[i]) /\ start[i] \in G
    BY <2>4, <2>7, <2>8 DEF Begins
  <2>10. CASE G = H
    <3>1. PICK j \in I : o = cite[j]
      BY <2>6, <2>7, <2>10
    <3>2. i # j
      BY <2>8, <3>1
    <3>3. Begins(E, o, start[j]) /\ Apart(d, start[i], start[j])
      BY <2>4, <2>7, <3>1, <3>2
    <3>4. start[i] \in E /\ start[j] \in E
      BY <2>9, <3>3 DEF Begins
    <3>5. QED
      BY <2>9, <3>3, <3>4
  <2>11. CASE G # H
    <3>1. PICK J, first, cites :
            /\ ThresholdMatches(d, H) = {cites[j] : j \in J}
            /\ \A j \in J : Begins(H, cites[j], first[j])
      BY <2>3 DEF Bursts
    <3>2. PICK j \in J : o = cites[j]
      BY <2>6, <3>1
    <3>3. Begins(E, o, first[j]) /\ first[j] \in H
      BY <2>4, <3>1, <3>2 DEF Begins
    <3>4. start[i].source # first[j].source
      BY <2>9, <2>11, <3>3 DEF Groups
    <3>5. start[i] \in E /\ first[j] \in E
      BY <2>3, <2>9, <3>3
    <3>6. QED
      BY <1>2, <2>9, <3>3, <3>4, <3>5
  <2>12. QED
    BY <2>10, <2>11
<1>3. QED
  BY <1>1, <1>2

\* A category's events, while the feed is in order.
LEMMA FedInOrder ==
  ASSUME DetectorInv, InOrder, NEW c
  PROVE  Fed(c) \in SUBSET ToSet(feed) /\ EventSet(Fed(c)) /\ Strict(Fed(c)) /\ Strict(ToSet(feed))
<1>1. Fed(c) \in SUBSET ToSet(feed) /\ EventSet(ToSet(feed)) /\ feed \in Seq(ToSet(feed))
  BY DEF Fed, DetectorInv
<1>2. EventSet(Fed(c))
  BY <1>1, EventSubset
<1>3. Len(feed) \in Nat /\ \A k \in 1..Len(feed) : feed[k] \in ToSet(feed)
  BY <1>1, LenProperties, ElementOfSeq
<1>4. \A k \in 1..Len(feed) : feed[k].occurred_at \in Int
  BY <1>1, <1>3 DEF EventSet
<1>5. \A k, l \in 1..Len(feed) : k < l => feed[k].occurred_at < feed[l].occurred_at
  <2>1. \A k \in 2..Len(feed) : feed[k - 1].occurred_at < feed[k].occurred_at
    BY DEF InOrder
  <2>2. QED
    BY <1>3, <1>4, <2>1, ListIncreases
<1>6. ASSUME NEW e \in ToSet(feed), NEW f \in ToSet(feed), e.occurred_at = f.occurred_at PROVE e = f
  <2>1. PICK k \in 1..Len(feed) : e = feed[k]
    BY DEF ToSet
  <2>2. PICK l \in 1..Len(feed) : f = feed[l]
    BY DEF ToSet
  <2>3. ~(k < l) /\ ~(l < k)
    BY <1>4, <1>5, <1>6, <2>1, <2>2
  <2>4. k = l
    BY <1>3, <2>3
  <2>5. QED
    BY <2>1, <2>2, <2>4
<1>7. Strict(ToSet(feed))
  BY <1>6 DEF Strict
<1>8. QED
  BY <1>1, <1>2, <1>7 DEF Strict

\* An alert of an undisturbed feed is a match of its rule among its category's events.
LEMMA AlertIsMatch ==
  ASSUME DetectorInv, IncrementalIsBatch, Undisturbed, NEW s \in seen
  PROVE  /\ s = Signature(s.rule, s.ids) /\ s.rule \in DOMAIN Rules
         /\ IsDetection(Rules[s.rule].detection)
         /\ s.ids \in EvaluateRule(Rules[s.rule], Fed(Rules[s.rule].category))
<1>1. seen = UNION {{Signature(r, m) : m \in EvaluateRule(Rules[r], Fed(Rules[r].category))} :
                      r \in DOMAIN Rules}
  BY DEF IncrementalIsBatch
<1>2. PICK r \in DOMAIN Rules : \E m \in EvaluateRule(Rules[r], Fed(Rules[r].category)) : s = Signature(r, m)
  BY <1>1
<1>3. PICK m \in EvaluateRule(Rules[r], Fed(Rules[r].category)) : s = Signature(r, m)
  BY <1>2
<1>4. s.rule = r /\ s.ids = m
  BY <1>3 DEF Signature
<1>5. IsDetection(Rules[r].detection)
  BY DetectorAssumption DEF DetectorAssumption
<1>6. QED
  BY <1>3, <1>4, <1>5

\* Where a match begins is where its alert starts.
LEMMA StartIs ==
  ASSUME DetectorInv, InOrder, NEW c, NEW s, NEW a, Begins(Fed(c), s.ids, a)
  PROVE  Start(s) = a
<1> DEFINE E == Fed(c)
<1>1. E \in SUBSET ToSet(feed) /\ EventSet(ToSet(feed)) /\ Strict(ToSet(feed))
  BY FedInOrder DEF DetectorInv
<1>2. a \in E /\ a.id \in s.ids /\ s.ids \subseteq {e.id : e \in E}
      /\ \A f \in E : f.id \in s.ids => a.occurred_at <= f.occurred_at
  BY DEF Begins
<1>3. Cited(s) \in SUBSET E /\ a \in Cited(s)
  BY <1>1, <1>2 DEF Cited, EventSet
<1>4. \A f \in Cited(s) : a.occurred_at <= f.occurred_at
  BY <1>2, <1>3 DEF Cited
<1>5. \A e \in Cited(s) : e.occurred_at \in Int /\ e \in ToSet(feed)
  BY <1>1 DEF Cited, EventSet
<1>6. ASSUME NEW e \in Cited(s), \A f \in Cited(s) : e.occurred_at <= f.occurred_at PROVE e = a
  <2>1. e.occurred_at <= a.occurred_at /\ a.occurred_at <= e.occurred_at
    BY <1>3, <1>4, <1>6
  <2>2. e.occurred_at = a.occurred_at
    BY <1>3, <1>5, <2>1
  <2>3. QED
    BY <1>1, <1>3, <1>5, <2>2 DEF Strict
<1>7. QED
  BY <1>3, <1>4, <1>6 DEF Start

\* Two alerts of one burst rule start apart, or are of two sources.
LEMMA BatchApart == DetectorInv /\ IncrementalIsBatch => BurstsApart
<1> SUFFICES ASSUME DetectorInv, IncrementalIsBatch, Undisturbed,
                    NEW s \in seen, NEW t \in seen, s # t, s.rule = t.rule,
                    Rules[s.rule].detection.type \in {"threshold", "correlation"}
             PROVE  \/ Rules[s.rule].detection.type = "threshold" /\ Start(s).source # Start(t).source
                    \/ Apart(Rules[s.rule].detection, Start(s), Start(t))
  BY DEF BurstsApart, OneIncidentPerBurst, Apart
<1> DEFINE r == s.rule
           c == Rules[r].category
<1>1. /\ s = Signature(r, s.ids) /\ r \in DOMAIN Rules /\ IsDetection(Rules[r].detection)
      /\ s.ids \in EvaluateRule(Rules[r], Fed(c))
  BY AlertIsMatch
<1>2. t = Signature(r, t.ids) /\ t.ids \in EvaluateRule(Rules[r], Fed(c))
  BY AlertIsMatch
<1>3. s.ids # t.ids
  BY <1>1, <1>2
<1>4. InOrder /\ EventSet(Fed(c)) /\ Strict(Fed(c))
  BY FedInOrder DEF Undisturbed
<1>5. PICK a \in Fed(c) : \E b \in Fed(c) :
        /\ Begins(Fed(c), s.ids, a) /\ Begins(Fed(c), t.ids, b)
        /\ \/ Rules[r].detection.type = "threshold" /\ a.source # b.source
           \/ Apart(Rules[r].detection, a, b)
  <2> HIDE DEF r, c
  <2> QED BY <1>1, <1>2, <1>3, <1>4, MatchesApart DEF r
<1>6. PICK b \in Fed(c) :
        /\ Begins(Fed(c), s.ids, a) /\ Begins(Fed(c), t.ids, b)
        /\ \/ Rules[r].detection.type = "threshold" /\ a.source # b.source
           \/ Apart(Rules[r].detection, a, b)
  BY <1>5
<1>7. Start(s) = a /\ Start(t) = b
  BY <1>4, <1>6, StartIs
<1>8. QED
  BY <1>6, <1>7

\* Whatever the rules and the kinds of event: in an undisturbed feed no two alerts of a
\* burst rule start within its window of each other (engine.py, "start = end" in
\* _evaluate_threshold and covered_until in _evaluate_correlation).
THEOREM DetectorBurstsApart ==
  ASSUME NEW CONSTANT Kinds, \A kind \in Kinds : kind.category \in Categories /\ kind.delay \in Int
  PROVE  DetectorInit /\ [][\E kind \in Kinds : Arrive(kind)]_detectorVars => []BurstsApart
<1>1. BatchInv => IncrementalIsBatch
  BY DEF BatchInv
<1>2. QED
  BY <1>1, BatchApart, ArrivalsKeep, PTL

----------------------------------------------------------------------------
(* Sequences, while events come in order.                                  *)

\* The walk stays at a step or goes on to the next: it passes no step that the event
\* matches or whose count is not reached, and one it has not begun is such.
LEMMA StepForLeast ==
  ASSUME NEW E, NEW steps, IsSteps(steps), NEW s \in DealStates(E, Len(steps)), NEW e
  PROVE  /\ StepFor(steps, s, e) \in s.index..Len(steps) + 1
         /\ \A k \in s.index..Len(steps) : k < StepFor(steps, s, e) =>
              ~Satisfies(e, steps[k].match) /\ ~(Cardinality(s.used[k]) < steps[k].min_count)
         /\ \A k \in 1..Len(steps) : k = StepFor(steps, s, e) =>
              Satisfies(e, steps[k].match) \/ Cardinality(s.used[k]) < steps[k].min_count
<1> DEFINE K == Len(steps)
           S == {k \in s.index..(K + 1) :
                   \/ k > K
                   \/ Satisfies(e, steps[k].match)
                   \/ Cardinality(s.used[k]) < steps[k].min_count}
<1>1. K \in Nat /\ s.index \in 1..K + 1
  BY DEF IsSteps, DealStates
<1>2. StepFor(steps, s, e) = Min(S)
  BY DEF StepFor
<1> HIDE DEF K
<1>3. S \in SUBSET Nat /\ K + 1 \in S
  BY <1>1
<1>4. Min(S) \in S /\ \A y \in S : Min(S) <= y
  <2> HIDE DEF S
  <2> QED BY <1>3, LeastNumber
<1>5. Min(S) \in s.index..K + 1
  BY <1>4
<1>6. ASSUME NEW k \in s.index..K, k < Min(S) PROVE k \notin S /\ k \in s.index..K + 1
  <2>1. k \in Int /\ Min(S) \in Int
    BY <1>1, <1>5
  <2>2. ~(Min(S) <= k)
    BY <1>6, <2>1
  <2>3. QED
    BY <1>1, <1>4, <2>2
<1>7. ASSUME NEW k \in s.index..K, k < Min(S)
      PROVE  ~Satisfies(e, steps[k].match) /\ ~(Cardinality(s.used[k]) < steps[k].min_count)
  BY <1>6, <1>7
<1>8. ASSUME NEW k \in 1..K, k = Min(S)
      PROVE  Satisfies(e, steps[k].match) \/ Cardinality(s.used[k]) < steps[k].min_count
  <2>1. k \in S /\ ~(k > K)
    BY <1>1, <1>4, <1>8
  <2>2. QED
    BY <2>1
<1>9. QED
  BY <1>2, <1>5, <1>7, <1>8 DEF K

\* The events of P can be dealt to the steps, v being the deal, and each is told from
\* those of the next step.
Deals(E, steps, P, v) ==
  /\ P \in SUBSET E /\ v \in [P -> 1..Len(steps)]
  /\ \A e \in P : Satisfies(e, steps[v[e]].match)
  /\ \A e, f \in P : Before(e, f) => v[e] <= v[f]
  /\ \A i \in 1..Len(steps) : Cardinality({e \in P : v[e] = i}) >= steps[i].min_count
  /\ \A i \in 1..Len(steps) - 1 : \A e \in P :
       ~(Satisfies(e, steps[i].match) /\ Satisfies(e, steps[i + 1].match))

\* After the first i events the walk is no less far than the deal, and has used the
\* events of the step under way.
DealtFar(E, steps, P, v, i) ==
  {s \in DealStates(E, Len(steps)) :
     /\ \A k \in 1..Len(steps) : k < s.index => Cardinality(s.used[k]) >= steps[k].min_count
     /\ \A p \in 1..i : Ordered(E)[p] \in P =>
          /\ v[Ordered(E)[p]] <= s.index
          /\ v[Ordered(E)[p]] = s.index => Ordered(E)[p] \in s.used[s.index]
     /\ \A k \in 1..Len(steps) : k > s.index => s.used[k] = {}}

\* The walk uses more and more.
LEMMA AssignUses ==
  ASSUME NEW E, EventSet(E), NEW steps, IsSteps(steps), NEW s \in DealStates(E, Len(steps)), NEW e \in E
  PROVE  /\ Assign(steps, s, e).index = StepFor(steps, s, e)
         /\ \A k \in 1..Len(steps) :
              /\ s.used[k] \subseteq Assign(steps, s, e).used[k]
              /\ Cardinality(s.used[k]) \in Nat
              /\ Cardinality(s.used[k]) <= Cardinality(Assign(steps, s, e).used[k])
              /\ k # StepFor(steps, s, e) => Assign(steps, s, e).used[k] = s.used[k]
         /\ \A k \in 1..Len(steps) : k = StepFor(steps, s, e) /\ Satisfies(e, steps[k].match) =>
              e \in Assign(steps, s, e).used[k]
<1> DEFINE K == Len(steps)
           j == StepFor(steps, s, e)
           t == Assign(steps, s, e)
<1>1. K \in Nat /\ s.used \in [1..K -> SUBSET E]
  BY DEF IsSteps, DealStates
<1>2. /\ t.index = j
      /\ \A k \in 1..K : t.used[k] = IF k = j /\ Satisfies(e, steps[k].match)
                                     THEN s.used[k] \union {e} ELSE s.used[k]
  BY DEF Assign
<1>3. t \in DealStates(E, K)
  BY AssignTyped
<1>4. t.used \in [1..K -> SUBSET E]
  BY <1>3 DEF DealStates
<1> HIDE DEF K, j, t
<1>5. ASSUME NEW k \in 1..K
      PROVE  Cardinality(s.used[k]) \in Nat /\ Cardinality(s.used[k]) <= Cardinality(t.used[k])
  <2>1. s.used[k] \subseteq t.used[k]
    BY <1>2
  <2>2. IsFiniteSet(E) /\ t.used[k] \in SUBSET E
    BY <1>4 DEF EventSet
  <2>3. IsFiniteSet(t.used[k])
    BY <2>2, FS_Subset
  <2>4. IsFiniteSet(s.used[k]) /\ Cardinality(s.used[k]) <= Cardinality(t.used[k])
    BY <2>1, <2>3, FS_Subset
  <2>5. QED
    BY <2>4, FS_CardinalityType
<1>6. QED
  BY <1>2, <1>5 DEF K, j, t

\* What the events of the step under way come to: they are its count.
LEMMA StepReached ==
  ASSUME NEW E, EventSet(E), NEW steps, IsSteps(steps), NEW P, NEW v, Deals(E, steps, P, v),
         NEW s \in DealStates(E, Len(steps)), NEW q \in 1..Len(steps),
         {e \in P : v[e] = q} \subseteq s.used[q]
  PROVE  Cardinality(s.used[q]) >= steps[q].min_count
<1>1. s.used[q] \in SUBSET E /\ IsFiniteSet(E)
  BY DEF DealStates, EventSet
<1>2. IsFiniteSet(s.used[q])
  BY <1>1, FS_Subset
<1>3. /\ Cardinality({e \in P : v[e] = q}) <= Cardinality(s.used[q])
      /\ IsFiniteSet({e \in P : v[e] = q})
  BY <1>2, FS_Subset
<1>4. Cardinality({e \in P : v[e] = q}) >= steps[q].min_count /\ steps[q].min_count \in Int
  BY DEF Deals, IsSteps
<1>5. Cardinality({e \in P : v[e] = q}) \in Int /\ Cardinality(s.used[q]) \in Int
  BY <1>2, <1>3, FS_CardinalityType
<1>6. QED
  BY <1>3, <1>4, <1>5

\* The walk keeps up with the deal.
LEMMA AssignFar ==
  ASSUME NEW E, EventSet(E), NEW steps, IsSteps(steps), NEW P, NEW v, Deals(E, steps, P, v),
         NEW i \in 1..Cardinality(E), NEW s \in DealtFar(E, steps, P, v, i - 1)
  PROVE  Assign(steps, s, Ordered(E)[i]) \in DealtFar(E, steps, P, v, i)
<1> DEFINE K == Len(steps)
           g == Ordered(E)
           e == g[i]
           q == s.index
           j == StepFor(steps, s, e)
           t == Assign(steps, s, e)
<1>1. /\ Cardinality(E) \in Nat /\ g \in [1..Cardinality(E) -> E]
      /\ \A k, l \in 1..Cardinality(E) : k < l => Before(g[k], g[l])
  BY OrderedIsSorted
<1>2. /\ \A x \in E : \E p \in 1..Cardinality(E) : x = g[p]
      /\ \A p, l \in 1..Cardinality(E) : Before(g[p], g[l]) => p < l
  BY OrderedOnto
<1>3. /\ s \in DealStates(E, K)
      /\ \A k \in 1..K : k < q => Cardinality(s.used[k]) >= steps[k].min_count
      /\ \A p \in 1..i - 1 : g[p] \in P =>
           v[g[p]] <= q /\ (v[g[p]] = q => g[p] \in s.used[q])
      /\ \A k \in 1..K : k > q => s.used[k] = {}
  BY DEF DealtFar
<1>4. K \in Nat /\ q \in 1..K + 1 /\ e \in E /\ \A k \in 1..K : steps[k].min_count \in Nat \ {0}
  BY <1>1, <1>3 DEF IsSteps, DealStates
<1>5. /\ j \in q..K + 1
      /\ \A k \in q..K : k < j =>
           ~Satisfies(e, steps[k].match) /\ ~(Cardinality(s.used[k]) < steps[k].min_count)
      /\ \A k \in 1..K : k = j =>
           Satisfies(e, steps[k].match) \/ Cardinality(s.used[k]) < steps[k].min_count
  BY <1>3, StepForLeast
<1>6. /\ t.index = j
      /\ \A k \in 1..K : /\ s.used[k] \subseteq t.used[k]
                         /\ Cardinality(s.used[k]) \in Nat
                         /\ Cardinality(s.used[k]) <= Cardinality(t.used[k])
                         /\ k # j => t.used[k] = s.used[k]
      /\ \A k \in 1..K : k = j /\ Satisfies(e, steps[k].match) => e \in t.used[k]
  BY <1>3, <1>4, AssignUses
<1>7. t \in DealStates(E, K) /\ t.used \in [1..K -> SUBSET E]
  <2>1. t \in DealStates(E, K)
    BY <1>3, <1>4, AssignTyped
  <2>2. QED
    BY <2>1 DEF DealStates
<1>8. /\ P \in SUBSET E /\ v \in [P -> 1..K]
      /\ \A x \in P : Satisfies(x, steps[v[x]].match)
      /\ \A x, y \in P : Before(x, y) => v[x] <= v[y]
      /\ \A k \in 1..K : Cardinality({x \in P : v[x] = k}) >= steps[k].min_count
      /\ \A k \in 1..K - 1 : \A x \in P :
           ~(Satisfies(x, steps[k].match) /\ Satisfies(x, steps[k + 1].match))
  BY DEF Deals
<1> HIDE DEF K, g, e, q, j, t
<1>9. ASSUME NEW k \in 1..K PROVE \E x \in P : v[x] = k
  <2>1. SUFFICES ASSUME {x \in P : v[x] = k} = {} PROVE FALSE
    OBVIOUS
  <2>2. Cardinality({x \in P : v[x] = k}) = 0
    BY <2>1, FS_EmptySet
  <2>3. Cardinality({x \in P : v[x] = k}) >= steps[k].min_count /\ steps[k].min_count \in Nat \ {0}
    BY <1>4, <1>8
  <2>4. QED
    BY <2>2, <2>3
<1>10. j = q \/ j = q + 1
  <2>1. SUFFICES ASSUME j > q + 1 PROVE FALSE
    BY <1>4, <1>5
  <2>2. q + 1 \in q..K /\ q + 1 < j /\ q + 1 > q /\ q + 1 \in 1..K
    BY <1>4, <1>5, <2>1
  <2>3. s.used[q + 1] = {}
    BY <1>3, <2>2
  <2>4. Cardinality(s.used[q + 1]) = 0
    BY <2>3, FS_EmptySet
  <2>5. ~(0 < steps[q + 1].min_count) /\ steps[q + 1].min_count \in Nat \ {0}
    BY <1>4, <1>5, <2>2, <2>4
  <2>6. QED
    BY <2>5
\* The deal is at most a step ahead.
<1>11. ASSUME e \in P
       PROVE  \/ v[e] <= q
              \/ v[e] = q + 1 /\ j = q + 1
  <2> DEFINE m == v[e]
  <2>1. m \in 1..K
    BY <1>8, <1>11
  <2> HIDE DEF m
  <2>2. SUFFICES ASSUME m > q PROVE m = q + 1 /\ j = q + 1
    BY <1>4, <2>1 DEF m
  <2>3. ASSUME NEW x \in P, v[x] < m PROVE \E p \in 1..i - 1 : x = g[p]
    <3>1. PICK p \in 1..Cardinality(E) : x = g[p]
      BY <1>2, <1>8
    <3>2. x # e /\ ~Before(e, x)
      <4>1. v[x] \in 1..K
        BY <1>8
      <4>2. ~(m <= v[x]) /\ v[x] # m
        BY <2>1, <2>3, <4>1
      <4>3. QED
        BY <1>8, <1>11, <4>2 DEF m
    <3>3. Before(x, e)
      BY <1>4, <1>8, <3>2, BeforeOrders
    <3>4. p < i
      BY <1>2, <3>1, <3>3 DEF e
    <3>5. QED
      BY <1>1, <3>1, <3>4
  <2>4. m = q + 1
    <3>1. SUFFICES ASSUME m > q + 1 PROVE FALSE
      BY <1>4, <2>1, <2>2
    <3>2. q + 1 \in 1..K /\ q + 1 < m
      BY <1>4, <2>1, <3>1
    <3>3. PICK x \in P : v[x] = q + 1
      BY <1>9, <3>2
    <3>4. PICK p \in 1..i - 1 : x = g[p]
      BY <2>3, <3>2, <3>3
    <3>5. v[x] <= q
      BY <1>3, <3>4
    <3>6. QED
      BY <1>4, <3>3, <3>5
  <2>5. j # q
    <3>1. SUFFICES ASSUME j = q PROVE FALSE
      OBVIOUS
    <3>2. q \in 1..K /\ q \in 1..K - 1 /\ q < m /\ q + 1 \in 1..K
      BY <1>4, <2>1, <2>4
    <3>3. ~Satisfies(e, steps[q].match)
      BY <1>8, <1>11, <2>4, <3>2 DEF m
    <3>4. {x \in P : v[x] = q} \subseteq s.used[q]
      <4>1. SUFFICES ASSUME NEW x \in P, v[x] = q PROVE x \in s.used[q]
        OBVIOUS
      <4>2. PICK p \in 1..i - 1 : x = g[p]
        BY <2>3, <3>2, <4>1
      <4>3. QED
        BY <1>3, <4>1, <4>2
    <3>5. Cardinality(s.used[q]) >= steps[q].min_count
      BY <1>3, <3>2, <3>4, StepReached DEF K
    <3>6. ~(Cardinality(s.used[q]) < steps[q].min_count)
      BY <1>4, <1>6, <3>2, <3>5
    <3>7. QED
      BY <1>5, <3>1, <3>2, <3>3, <3>6
  <2>6. QED
    BY <1>10, <2>4, <2>5
<1>12. ASSUME NEW k \in 1..K, k < j PROVE Cardinality(t.used[k]) >= steps[k].min_count
  <2>1. Cardinality(s.used[k]) >= steps[k].min_count
    <3>1. CASE k < q
      BY <1>3, <3>1
    <3>2. CASE ~(k < q)
      <4>1. k \in q..K
        BY <1>4, <3>2
      <4>2. ~(Cardinality(s.used[k]) < steps[k].min_count)
        BY <1>5, <1>12, <4>1
      <4>3. QED
        BY <1>4, <1>6, <4>2
    <3>3. QED
      BY <3>1, <3>2
  <2>2. /\ Cardinality(s.used[k]) \in Nat /\ Cardinality(s.used[k]) <= Cardinality(t.used[k])
        /\ steps[k].min_count \in Nat
    BY <1>4, <1>6
  <2>3. Cardinality(t.used[k]) \in Nat
    <3>1. t.used[k] \in SUBSET E /\ IsFiniteSet(E)
      BY <1>7 DEF EventSet
    <3>2. QED
      BY <3>1, FS_Subset, FS_CardinalityType
  <2>4. QED
    BY <2>1, <2>2, <2>3
<1>13. ASSUME NEW p \in 1..i, g[p] \in P
       PROVE  v[g[p]] <= j /\ (v[g[p]] = j => g[p] \in t.used[j])
  <2>1. v[g[p]] \in 1..K
    BY <1>8, <1>13
  <2>2. CASE p \in 1..i - 1
    <3>1. v[g[p]] <= q /\ (v[g[p]] = q => g[p] \in s.used[q])
      BY <1>3, <1>13, <2>2
    <3>2. v[g[p]] <= j
      BY <1>4, <1>5, <2>1, <3>1
    <3>3. ASSUME v[g[p]] = j PROVE g[p] \in t.used[j]
      <4>1. j = q /\ q \in 1..K
        BY <1>4, <1>10, <2>1, <3>1, <3>3
      <4>2. QED
        BY <1>6, <3>1, <3>3, <4>1
    <3>4. QED
      BY <3>2, <3>3
  <2>3. CASE p = i
    <3>1. g[p] = e /\ e \in P
      BY <1>13, <2>3 DEF e
    <3>2. v[e] <= j
      BY <1>4, <1>5, <1>10, <1>11, <2>1, <3>1
    <3>3. ASSUME v[e] = j PROVE e \in t.used[j]
      <4>1. j \in 1..K /\ Satisfies(e, steps[j].match)
        BY <1>8, <2>1, <3>1, <3>3
      <4>2. QED
        BY <1>6, <4>1
    <3>4. QED
      BY <3>1, <3>2, <3>3
  <2>4. p \in 1..i - 1 \/ p = i
    BY <1>1
  <2>5. QED
    BY <2>2, <2>3, <2>4
<1>14. ASSUME NEW k \in 1..K, k > j PROVE t.used[k] = {}
  <2>1. k > q /\ k # j
    BY <1>4, <1>5, <1>14
  <2>2. QED
    BY <1>3, <1>6, <2>1
<1>15. t \in DealtFar(E, steps, P, v, i)
  BY <1>6, <1>7, <1>12, <1>13, <1>14 DEF DealtFar, K, g
<1>16. QED
  BY <1>15 DEF t, e, g

\* When all are dealt the walk has come as far as the deal.
LEMMA DealtIsFar ==
  ASSUME NEW E, EventSet(E), NEW steps, IsSteps(steps), NEW P, NEW v, Deals(E, steps, P, v)
  PROVE  \E s \in DealtFar(E, steps, P, v, Cardinality(E)) : DealtUse(E, steps) = s.used
<1> DEFINE f == CHOOSE h : DealtBy(h, E, steps)
           n == Cardinality(E)
           Good == [i \in 0..n |-> DealtFar(E, steps, P, v, i)]
<1>1. DealtBy(f, E, steps)
  BY DealtExists
<1>2. DealtUse(E, steps) = f[n].used
  BY DEF DealtUse
<1>3. n \in Nat
  BY OrderedIsSorted
<1> HIDE DEF f
<1>4. \A i \in 0..n : f[i] = IF i = 0 THEN [index |-> 1, used |-> [k \in 1..Len(steps) |-> {}]]
                             ELSE Assign(steps, f[i - 1], Ordered(E)[i])
  BY <1>1 DEF DealtBy
<1>5. f[0] \in DealtFar(E, steps, P, v, 0)
  <2>1. f[0] = [index |-> 1, used |-> [k \in 1..Len(steps) |-> {}]]
    <3>1. 0 \in 0..n
      BY <1>3
    <3> HIDE DEF n
    <3>2. QED
      BY <1>4, <3>1
  <2>2. 1 \in 1..Len(steps) + 1
    BY DEF IsSteps
  <2>3. /\ f[0] \in DealStates(E, Len(steps)) /\ f[0].index = 1
        /\ \A k \in 1..Len(steps) : f[0].used[k] = {}
    BY <2>1, <2>2 DEF DealStates
  <2>4. \A k \in 1..Len(steps) : ~(k < 1)
    BY DEF IsSteps
  <2>5. \A p \in 1..0 : FALSE
    OBVIOUS
  <2>6. QED
    BY <2>3, <2>4, <2>5 DEF DealtFar
<1>6. ASSUME NEW i \in 1..n, f[i - 1] \in DealtFar(E, steps, P, v, i - 1)
      PROVE  f[i] \in DealtFar(E, steps, P, v, i)
  <2>1. i \in 0..n /\ i # 0
    BY <1>3
  <2>2. f[i] = Assign(steps, f[i - 1], Ordered(E)[i])
    BY <1>4, <2>1
  <2>3. QED
    BY <1>6, <2>2, AssignFar
<1>7. f[n] \in DealtFar(E, steps, P, v, n)
  <2>1. \A i \in 0..n : Good[i] = DealtFar(E, steps, P, v, i)
    OBVIOUS
  <2>2. 0 \in 0..n /\ n \in 0..n /\ \A i \in 1..n : i \in 0..n /\ i - 1 \in 0..n
    BY <1>3
  <2> HIDE DEF Good, n
  <2>3. \A i \in 1..n : f[i - 1] \in Good[i - 1] => f[i] \in Good[i]
    BY <1>6, <2>1, <2>2
  <2>4. \A i \in 0..n : f[i] \in Good[i]
    BY <1>3, <1>5, <2>1, <2>2, <2>3, StepsKeep
  <2>5. QED
    BY <2>1, <2>2, <2>4
<1>8. QED
  BY <1>2, <1>7

\* What can be dealt to the steps is: Deal finds something.
LEMMA DealCompletes ==
  ASSUME NEW E, EventSet(E), NEW steps, IsSteps(steps), Len(steps) # 0,
         NEW P, NEW v, Deals(E, steps, P, v)
  PROVE  Deal(E, steps) # {}
<1> DEFINE K == Len(steps)
           used == DealtUse(E, steps)
<1>1. K \in Nat \ {0} /\ \A k \in 1..K : steps[k].min_count \in Nat \ {0}
  BY DEF IsSteps
<1>2. PICK s \in DealtFar(E, steps, P, v, Cardinality(E)) : used = s.used
  BY DealtIsFar
<1>3. /\ s \in DealStates(E, K) /\ s.index \in 1..K + 1 /\ s.used \in [1..K -> SUBSET E]
      /\ \A k \in 1..K : k < s.index => Cardinality(s.used[k]) >= steps[k].min_count
      /\ \A p \in 1..Cardinality(E) : Ordered(E)[p] \in P =>
           /\ v[Ordered(E)[p]] <= s.index
           /\ v[Ordered(E)[p]] = s.index => Ordered(E)[p] \in s.used[s.index]
  BY DEF DealtFar, DealStates
<1>4. \A x \in P : v[x] <= s.index /\ (v[x] = s.index => x \in s.used[s.index])
  <2>1. P \in SUBSET E
    BY DEF Deals
  <2>2. QED
    BY <1>3, <2>1, OrderedOnto
<1> HIDE DEF K, used
<1>5. K <= s.index
  <2>1. {x \in P : v[x] = K} # {}
    <3>1. SUFFICES ASSUME {x \in P : v[x] = K} = {} PROVE FALSE
      OBVIOUS
    <3>2. Cardinality({x \in P : v[x] = K}) = 0
      BY <3>1, FS_EmptySet
    <3>3. K \in 1..K
      BY <1>1
    <3>4. Cardinality({x \in P : v[x] = K}) >= steps[K].min_count /\ steps[K].min_count \in Nat \ {0}
      BY <1>1, <3>3 DEF Deals, K
    <3>5. QED
      BY <3>2, <3>4
  <2>2. QED
    BY <1>4, <2>1
<1>6. ASSUME NEW k \in 1..K PROVE Cardinality(used[k]) >= steps[k].min_count
  <2>1. CASE k < s.index
    BY <1>2, <1>3, <2>1
  <2>2. CASE ~(k < s.index)
    <3>1. k = s.index
      BY <1>1, <1>3, <1>5, <2>2
    <3>2. {x \in P : v[x] = k} \subseteq s.used[k]
      BY <1>4, <3>1
    <3>3. QED
      BY <1>2, <1>3, <3>2, StepReached DEF K
  <2>3. QED
    BY <2>1, <2>2
<1>7. Deal(E, steps) = UNION {used[k] : k \in 1..K}
  BY <1>6, DealIsDealt DEF K, used
<1>8. 1 \in 1..K /\ used[1] # {}
  <2>1. 1 \in 1..K
    BY <1>1
  <2>2. Cardinality(used[1]) >= steps[1].min_count /\ steps[1].min_count \in Nat \ {0}
    BY <1>1, <1>6, <2>1
  <2>3. used[1] # {}
    <3>1. SUFFICES ASSUME used[1] = {} PROVE FALSE
      OBVIOUS
    <3>2. Cardinality(used[1]) = 0
      BY <3>1, FS_EmptySet
    <3>3. QED
      BY <2>2, <3>2
  <2>4. QED
    BY <2>1, <2>3
<1>9. QED
  BY <1>7, <1>8

\* No event of P matches two steps in a row before the last.
Told(d, P) ==
  \A i \in 1..Len(d.steps) - 2 : \A e \in P :
    ~(Satisfies(e, d.steps[i].match) /\ Satisfies(e, d.steps[i + 1].match))

\* A prefix is found where one exists that earlier matches have left alone.
LEMMA PrefixFound ==
  ASSUME NEW d, IsDetection(d), d.type = "sequence", NEW G, EventSet(G), NEW t \in G,
         NEW P \in SUBSET G, Leads(d, P, t), Told(d, P),
         NEW consumed, \A e \in P : e.id \notin consumed
  PROVE  AssignPrefix(Segment(d, G, t), Front(d.steps), consumed) # {}
<1> DEFINE steps == Front(d.steps)
           n == Len(d.steps) - 1
           F == {e \in Segment(d, G, t) : e.id \notin consumed}
<1>1. /\ Len(steps) = n /\ n \in Nat \ {0} /\ n - 1 = Len(d.steps) - 2
      /\ \A k \in 1..n : steps[k] = d.steps[k]
      /\ IsSteps(steps)
  <2>1. Len(d.steps) \in Nat
    BY DEF IsDetection
  <2>2. n - 1 = Len(d.steps) - 2
    BY <2>1
  <2>3. Len(steps) = n /\ Len(steps) \in Nat \ {0} /\ IsSteps(steps)
    BY FrontIs
  <2>4. \A k \in 1..n : steps[k] = d.steps[k]
    BY FrontIs
  <2> HIDE DEF n, steps
  <2>5. QED
    BY <2>2, <2>3, <2>4
<1>2. /\ \A e \in P : Before(e, t) /\ t.occurred_at - e.occurred_at <= d.within_seconds
      /\ \E v \in [P -> 1..n] :
           /\ \A e \in P : Satisfies(e, d.steps[v[e]].match)
           /\ \A e, f \in P : Before(e, f) => v[e] <= v[f]
           /\ \A i \in 1..n : Cardinality({e \in P : v[e] = i}) >= d.steps[i].min_count
  BY DEF Leads
<1>3. PICK v \in [P -> 1..n] :
        /\ \A e \in P : Satisfies(e, d.steps[v[e]].match)
        /\ \A e, f \in P : Before(e, f) => v[e] <= v[f]
        /\ \A i \in 1..n : Cardinality({e \in P : v[e] = i}) >= d.steps[i].min_count
  BY <1>2
<1>4. d.within_seconds \in Nat
  BY DEF IsDetection
<1>5. F \in SUBSET G
  BY DEF Segment
<1>6. EventSet(F)
  <2> HIDE DEF F
  <2> QED BY <1>5, EventSubset
<1>7. P \in SUBSET F
  <2>1. SUFFICES ASSUME NEW e \in P PROVE e \in F
    OBVIOUS
  <2>2. e.occurred_at \in Int /\ t.occurred_at \in Int /\ e \in G
    BY DEF EventSet
  <2>3. Before(e, t) /\ t.occurred_at - d.within_seconds <= e.occurred_at
    BY <1>2, <1>4, <2>2
  <2>4. QED
    BY <2>2, <2>3 DEF Segment
<1>8. AssignPrefix(Segment(d, G, t), steps, consumed) = Deal(F, steps)
  BY DEF AssignPrefix
<1> HIDE DEF F, steps, n
<1>9. \A k \in 1..n - 1 : \A e \in P : ~(Satisfies(e, steps[k].match) /\ Satisfies(e, steps[k + 1].match))
  <2>1. SUFFICES ASSUME NEW k \in 1..n - 1, NEW e \in P
                 PROVE  ~(Satisfies(e, steps[k].match) /\ Satisfies(e, steps[k + 1].match))
    OBVIOUS
  <2>2. k \in 1..n /\ k + 1 \in 1..n
    BY <1>1
  <2>3. steps[k] = d.steps[k] /\ steps[k + 1] = d.steps[k + 1]
    BY <1>1, <2>2
  <2>4. k \in 1..Len(d.steps) - 2
    BY <1>1
  <2>5. QED
    BY <2>3, <2>4 DEF Told
<1>10. Deals(F, steps, P, v)
  <2>1. \A e \in P : v[e] \in 1..n /\ Satisfies(e, steps[v[e]].match)
    BY <1>1, <1>3
  <2>2. \A i \in 1..n : Cardinality({e \in P : v[e] = i}) >= steps[i].min_count
    BY <1>1, <1>3
  <2>3. QED
    BY <1>1, <1>3, <1>7, <1>9, <2>1, <2>2 DEF Deals
<1>11. Deal(F, steps) # {}
  BY <1>1, <1>6, <1>10, DealCompletes
<1>12. QED
  BY <1>8, <1>11 DEF steps

\* All of P are events of G before t that no earlier match used.
Precedes(P, G, t, consumed) == P \in SUBSET G /\ \A e \in P : Before(e, t) /\ e.id \notin consumed

\* What is found precedes the terminal, and earlier matches have left it alone.
LEMMA PrefixTaken ==
  ASSUME NEW d, IsDetection(d), d.type = "sequence", NEW G, EventSet(G), NEW t, NEW consumed,
         AssignPrefix(Segment(d, G, t), Front(d.steps), consumed) # {}
  PROVE  Precedes(AssignPrefix(Segment(d, G, t), Front(d.steps), consumed), G, t, consumed)
<1> DEFINE P == AssignPrefix(Segment(d, G, t), Front(d.steps), consumed)
           F == {e \in Segment(d, G, t) : e.id \notin consumed}
<1>1. F \in SUBSET G /\ \A e \in F : Before(e, t) /\ e.id \notin consumed
  BY DEF Segment
<1>2. P = Deal(F, Front(d.steps))
  BY DEF AssignPrefix
<1> HIDE DEF F
<1>3. EventSet(F) /\ IsSteps(Front(d.steps))
  BY <1>1, EventSubset, FrontIs
<1>4. P \in SUBSET F /\ P # {}
  BY <1>2, <1>3, DealtInOrder
<1>5. QED
  BY <1>1, <1>4 DEF Precedes

\* The terminals that matched among the first i, and the prefixes of their matches:
\* no two prefixes meet, and a terminal that a prefix leads to has matched, or a
\* match before it has used up some of that prefix.
Visits(d, G, s, i, J, pre) ==
  LET g == Ordered(G) IN
  /\ s.matches = {Ids(pre[j] \union {g[j]}) : j \in J}
  /\ s.consumed = UNION {Ids(pre[j]) : j \in J}
  /\ \A j \in J : pre[j] # {} /\ pre[j] \in SUBSET G /\ \A e \in pre[j] : Before(e, g[j])
  /\ \A j, l \in J : j # l => pre[j] \intersect pre[l] = {}
  /\ \A p \in 1..i : \A P \in SUBSET G : Leads(d, P, g[p]) /\ Told(d, P) =>
       p \in J \/ \E j \in J : j < p /\ P \intersect pre[j] # {}

\* One more terminal.
LEMMA VisitVisits ==
  ASSUME NEW d, IsDetection(d), d.type = "sequence", NEW G, EventSet(G),
         NEW i \in 1..Cardinality(G), NEW s, NEW J \in SUBSET (1..i - 1), NEW pre,
         Visits(d, G, s, i - 1, J, pre)
  PROVE  \E K \in SUBSET (1..i) : \E q : Visits(d, G, Visit(d, G, s, Ordered(G)[i]), i, K, q)
<1> DEFINE g == Ordered(G)
           t == g[i]
           X == AssignPrefix(Segment(d, G, t), Front(d.steps), s.consumed)
<1>1. Cardinality(G) \in Nat /\ g \in [1..Cardinality(G) -> G] /\ t \in G
  BY OrderedIsSorted
<1>2. /\ s.matches = {Ids(pre[j] \union {g[j]}) : j \in J}
      /\ s.consumed = UNION {Ids(pre[j]) : j \in J}
      /\ \A j \in J : pre[j] # {} /\ pre[j] \in SUBSET G /\ \A e \in pre[j] : Before(e, g[j])
      /\ \A j, l \in J : j # l => pre[j] \intersect pre[l] = {}
      /\ \A p \in 1..i - 1 : \A P \in SUBSET G : Leads(d, P, g[p]) /\ Told(d, P) =>
           p \in J \/ \E j \in J : j < p /\ P \intersect pre[j] # {}
  BY DEF Visits
<1>3. Visit(d, G, s, t) =
        IF Satisfies(t, Last(d.steps).match) /\ X # {}
        THEN [consumed |-> s.consumed \union Ids(X),
              matches |-> s.matches \union {Ids(X \union {t})}]
        ELSE s
  BY DEF Visit
<1>4. J \in SUBSET (1..i) /\ i \in 1..i /\ \A j \in J : j # i /\ j < i
  BY <1>1
<1>5. \A p \in 1..i : p = i \/ p \in 1..i - 1
  BY <1>1
<1> HIDE DEF g
<1>6. CASE ~(Satisfies(t, Last(d.steps).match) /\ X # {})
  <2>1. ASSUME NEW P \in SUBSET G, Leads(d, P, t), Told(d, P)
        PROVE  \E j \in J : j < i /\ P \intersect pre[j] # {}
    <3>1. X = {}
      BY <1>6, <2>1 DEF Leads
    <3>2. \E e \in P : e.id \in s.consumed
      <4> HIDE DEF X, t
      <4> QED BY <1>1, <2>1, <3>1, PrefixFound DEF X
    <3>3. PICK e \in P : e.id \in s.consumed
      BY <3>2
    <3>4. PICK j \in J : e.id \in Ids(pre[j])
      BY <1>2, <3>3
    <3>5. PICK f \in pre[j] : e.id = f.id
      BY <3>4 DEF Ids
    <3>6. e \in G /\ f \in G
      BY <1>2
    <3>7. e = f
      BY <3>5, <3>6 DEF EventSet
    <3>8. j < i /\ e \in P \intersect pre[j]
      BY <1>4, <3>7
    <3>9. QED
      BY <3>8
  <2>2. \A p \in 1..i : \A P \in SUBSET G : Leads(d, P, g[p]) /\ Told(d, P) =>
          p \in J \/ \E j \in J : j < p /\ P \intersect pre[j] # {}
    BY <1>2, <1>5, <2>1
  <2>3. Visits(d, G, s, i, J, pre)
    BY <1>2, <2>2 DEF Visits, g
  <2>4. Visit(d, G, s, t) = s
    BY <1>3, <1>6
  <2>5. QED
    BY <1>4, <2>3, <2>4 DEF t, g
<1>7. CASE Satisfies(t, Last(d.steps).match) /\ X # {}
  <2> DEFINE K == J \union {i}
             q == [j \in K |-> IF j = i THEN X ELSE pre[j]]
             u == Visit(d, G, s, t)
  <2>1. X \in SUBSET G /\ \A e \in X : Before(e, t) /\ e.id \notin s.consumed
    <3>1. X # {}
      BY <1>7
    <3>2. Precedes(X, G, t, s.consumed)
      <4> HIDE DEF t
      <4> QED BY <3>1, PrefixTaken
    <3> HIDE DEF X, t
    <3>3. QED
      BY <3>2 DEF Precedes
  <2>2. u.consumed = s.consumed \union Ids(X) /\ u.matches = s.matches \union {Ids(X \union {t})}
    BY <1>3, <1>7
  <2>3. q[i] = X /\ (\A j \in J : q[j] = pre[j]) /\ X # {} /\ t = g[i]
    BY <1>4, <1>7
  <2>4. K \in SUBSET (1..i) /\ \A j \in K : j = i \/ j \in J
    BY <1>4
  <2>5. i \in K /\ J \subseteq K
    OBVIOUS
  <2> HIDE DEF K, q, u, X, t
  <2>6. u.matches = {Ids(q[j] \union {g[j]}) : j \in K}
    <3>1. \A j \in J : Ids(q[j] \union {g[j]}) = Ids(pre[j] \union {g[j]})
      BY <2>3
    <3>2. Ids(q[i] \union {g[i]}) = Ids(X \union {t})
      BY <2>3
    <3>3. {Ids(q[j] \union {g[j]}) : j \in K}
            = {Ids(q[j] \union {g[j]}) : j \in J} \union {Ids(q[i] \union {g[i]})}
      BY <2>4, <2>5
    <3>4. {Ids(q[j] \union {g[j]}) : j \in J} = {Ids(pre[j] \union {g[j]}) : j \in J}
      BY <3>1
    <3>5. QED
      BY <1>2, <2>2, <3>2, <3>3, <3>4
  <2>7. u.consumed = UNION {Ids(q[j]) : j \in K}
    <3>1. {Ids(q[j]) : j \in K} = {Ids(q[j]) : j \in J} \union {Ids(q[i])}
      BY <2>4, <2>5
    <3>2. {Ids(q[j]) : j \in J} = {Ids(pre[j]) : j \in J}
      BY <2>3
    <3>3. u.consumed = (UNION {Ids(pre[j]) : j \in J}) \union Ids(q[i])
      BY <1>2, <2>2, <2>3
    <3> DEFINE A == {Ids(q[j]) : j \in J}
               B == Ids(q[i])
    <3>4. UNION (A \union {B}) = (UNION A) \union B
      <4> HIDE DEF A, B
      <4> QED OBVIOUS
    <3>5. QED
      BY <3>1, <3>2, <3>3, <3>4
  <2>8. \A j \in K : q[j] # {} /\ q[j] \in SUBSET G /\ \A e \in q[j] : Before(e, g[j])
    BY <1>2, <2>1, <2>3, <2>4
  <2>9. ASSUME NEW j \in J PROVE pre[j] \intersect X = {}
    <3>1. SUFFICES ASSUME NEW e \in pre[j], e \in X PROVE FALSE
      OBVIOUS
    <3>2. e.id \in Ids(pre[j])
      BY DEF Ids
    <3>3. e.id \in s.consumed
      BY <1>2, <3>2
    <3>4. QED
      BY <2>1, <3>1, <3>3
  <2>10. \A j, l \in K : j # l => q[j] \intersect q[l] = {}
    BY <1>2, <2>3, <2>4, <2>9
  <2>11. \A p \in 1..i : \A P \in SUBSET G : Leads(d, P, g[p]) /\ Told(d, P) =>
           p \in K \/ \E j \in K : j < p /\ P \intersect q[j] # {}
    <3>1. SUFFICES ASSUME NEW p \in 1..i, p # i, NEW P \in SUBSET G, Leads(d, P, g[p]), Told(d, P)
                   PROVE  p \in K \/ \E j \in K : j < p /\ P \intersect q[j] # {}
      BY <2>5
    <3>2. p \in J \/ \E j \in J : j < p /\ P \intersect pre[j] # {}
      BY <1>2, <1>5, <3>1
    <3>3. QED
      BY <2>3, <2>5, <3>2
  <2>12. Visits(d, G, u, i, K, q)
    BY <2>6, <2>7, <2>8, <2>10, <2>11 DEF Visits, g
  <2>13. QED
    BY <2>4, <2>12 DEF u, t, g
<1>8. QED
  BY <1>6, <1>7

\* The walk over one source's events comes to such matches.
LEMMA SequenceVisits ==
  ASSUME NEW d, IsDetection(d), d.type = "sequence", NEW E, EventSet(E), NEW G \in Groups(E)
  PROVE  \E s : \E J \in SUBSET (1..Cardinality(G)) : \E pre :
           SequenceMatches(d, G) = s.matches /\ Visits(d, G, s, Cardinality(G), J, pre)
<1> DEFINE f == CHOOSE h : VisitedBy(h, d, G)
           n == Cardinality(G)
           A == {i \in 0..n : \E J \in SUBSET (1..i) : \E pre : Visits(d, G, f[i], i, J, pre)}
<1>1. VisitedBy(f, d, G)
  BY VisitedExists
<1>2. SequenceMatches(d, G) = f[n].matches
  BY SequenceIsVisited
<1>3. n \in Nat /\ EventSet(G)
  BY GroupOfEvents, EventSubset, OrderedIsSorted
<1> HIDE DEF f
<1>4. \A i \in 0..n : f[i] = IF i = 0 THEN [consumed |-> {}, matches |-> {}]
                             ELSE Visit(d, G, f[i - 1], Ordered(G)[i])
  BY <1>1 DEF VisitedBy
<1>5. 0 \in A
  <2>1. 0 \in 0..n
    BY <1>3
  <2>2. f[0] = [consumed |-> {}, matches |-> {}]
    BY <1>4, <2>1
  <2>3. Visits(d, G, f[0], 0, {}, {})
    <3>1. f[0].matches = {} /\ f[0].consumed = {}
      BY <2>2
    <3>2. \A p \in 1..0 : FALSE
      OBVIOUS
    <3>3. QED
      BY <3>1, <3>2 DEF Visits
  <2>4. {} \in SUBSET (1..0)
    OBVIOUS
  <2>5. QED
    BY <2>1, <2>3, <2>4
<1>6. ASSUME NEW i \in 1..n, i - 1 \in A PROVE i \in A
  <2>1. PICK J \in SUBSET (1..i - 1) : \E pre : Visits(d, G, f[i - 1], i - 1, J, pre)
    BY <1>6
  <2>2. PICK pre : Visits(d, G, f[i - 1], i - 1, J, pre)
    BY <2>1
  <2>3. i \in 0..n /\ i # 0 /\ i \in 1..Cardinality(G)
    BY <1>3
  <2>4. f[i] = Visit(d, G, f[i - 1], Ordered(G)[i])
    BY <1>4, <2>3
  <2> HIDE DEF n
  <2>5. \E K \in SUBSET (1..i) : \E q : Visits(d, G, Visit(d, G, f[i - 1], Ordered(G)[i]), i, K, q)
    BY <1>3, <2>2, <2>3, VisitVisits
  <2>6. QED
    BY <2>3, <2>4, <2>5
<1>7. A = 0..n
  <2>1. A \in SUBSET (0..n)
    OBVIOUS
  <2> HIDE DEF A, n
  <2>2. QED
    BY <1>3, <1>5, <1>6, <2>1, Upward
<1>8. n \in A
  BY <1>3, <1>7
<1>9. \E J \in SUBSET (1..n) : \E pre : Visits(d, G, f[n], n, J, pre)
  BY <1>8
<1>10. QED
  BY <1>2, <1>9

\* Two sources' groups share no event.
LEMMA GroupsDisjoint ==
  ASSUME NEW E, NEW G \in Groups(E), NEW H \in Groups(E), G # H
  PROVE  G \intersect H = {}
BY DEF Groups

\* A match m of some events of E: a terminal t, and P before it.
Ends(E, m, P, t) ==
  P \in SUBSET E /\ t \in E /\ m = Ids(P \union {t}) /\ \A e \in P : Before(e, t)

\* A match that the walk over G holds ends at one of its terminals.
LEMMA VisitsEnd ==
  ASSUME NEW d, NEW E, EventSet(E), NEW G \in Groups(E), NEW s,
         NEW J \in SUBSET (1..Cardinality(G)), NEW pre, Visits(d, G, s, Cardinality(G), J, pre)
  PROVE  /\ \A j \in J : Ends(E, Ids(pre[j] \union {Ordered(G)[j]}), pre[j], Ordered(G)[j])
         /\ \A j \in J : pre[j] \in SUBSET G
<1>1. G \in SUBSET E /\ EventSet(G)
  BY GroupOfEvents, EventSubset
<1>2. Ordered(G) \in [1..Cardinality(G) -> G]
  BY <1>1, OrderedIsSorted
<1>3. \A j \in J : pre[j] \in SUBSET G /\ \A e \in pre[j] : Before(e, Ordered(G)[j])
  BY DEF Visits
<1>4. QED
  BY <1>1, <1>2, <1>3 DEF Ends

\* Two matches of a sequence rule have prefixes that share no event.
LEMMA SequencesApart ==
  ASSUME NEW d, IsDetection(d), d.type = "sequence", NEW E, EventSet(E),
         NEW m \in EvaluateSequence(d, E), NEW o \in EvaluateSequence(d, E), m # o
  PROVE  \E P, Q \in SUBSET E : \E t, u \in E :
           Ends(E, m, P, t) /\ Ends(E, o, Q, u) /\ P \intersect Q = {}
<1>1. PICK G \in Groups(E) : m \in SequenceMatches(d, G)
  BY DEF EvaluateSequence
<1>2. PICK H \in Groups(E) : o \in SequenceMatches(d, H)
  BY DEF EvaluateSequence
<1>3. PICK s : \E J \in SUBSET (1..Cardinality(G)) : \E pre :
        SequenceMatches(d, G) = s.matches /\ Visits(d, G, s, Cardinality(G), J, pre)
  BY SequenceVisits
<1>4. PICK J \in SUBSET (1..Cardinality(G)) : \E pre :
        SequenceMatches(d, G) = s.matches /\ Visits(d, G, s, Cardinality(G), J, pre)
  BY <1>3
<1>5. PICK pre : SequenceMatches(d, G) = s.matches /\ Visits(d, G, s, Cardinality(G), J, pre)
  BY <1>4
<1>6. PICK j \in J : m = Ids(pre[j] \union {Ordered(G)[j]})
  <2>1. s.matches = {Ids(pre[i] \union {Ordered(G)[i]}) : i \in J}
    BY <1>5 DEF Visits
  <2>2. QED
    BY <1>1, <1>5, <2>1
<1>7. Ends(E, m, pre[j], Ordered(G)[j]) /\ pre[j] \in SUBSET G
  BY <1>5, <1>6, VisitsEnd
<1>8. CASE G = H
  <2>1. PICK l \in J : o = Ids(pre[l] \union {Ordered(G)[l]})
    <3>1. s.matches = {Ids(pre[i] \union {Ordered(G)[i]}) : i \in J}
      BY <1>5 DEF Visits
    <3>2. QED
      BY <1>2, <1>5, <1>8, <3>1
  <2>2. Ends(E, o, pre[l], Ordered(G)[l])
    BY <1>5, <2>1, VisitsEnd
  <2>3. j # l
    BY <1>6, <2>1
  <2>4. pre[j] \intersect pre[l] = {}
    BY <1>5, <2>3 DEF Visits
  <2>5. QED
    BY <1>7, <2>2, <2>4 DEF Ends
<1>9. CASE G # H
  <2>1. PICK r : \E K \in SUBSET (1..Cardinality(H)) : \E q :
          SequenceMatches(d, H) = r.matches /\ Visits(d, H, r, Cardinality(H), K, q)
    BY SequenceVisits
  <2>2. PICK K \in SUBSET (1..Cardinality(H)) : \E q :
          SequenceMatches(d, H) = r.matches /\ Visits(d, H, r, Cardinality(H), K, q)
    BY <2>1
  <2>3. PICK q : SequenceMatches(d, H) = r.matches /\ Visits(d, H, r, Cardinality(H), K, q)
    BY <2>2
  <2>4. PICK l \in K : o = Ids(q[l] \union {Ordered(H)[l]})
    <3>1. r.matches = {Ids(q[i] \union {Ordered(H)[i]}) : i \in K}
      BY <2>3 DEF Visits
    <3>2. QED
      BY <1>2, <2>3, <3>1
  <2>5. Ends(E, o, q[l], Ordered(H)[l]) /\ q[l] \in SUBSET H
    BY <2>3, <2>4, VisitsEnd
  <2>6. G \intersect H = {}
    BY <1>9, GroupsDisjoint
  <2>7. pre[j] \intersect q[l] = {}
    BY <1>7, <2>5, <2>6
  <2>8. QED
    BY <1>7, <2>5, <2>7 DEF Ends
<1>10. QED
  BY <1>8, <1>9

\* While the feed is in order its events are numbered in the order they occurred.
LEMMA IdsInOrder ==
  ASSUME DetectorInv, Numbered, InOrder
  PROVE  \A e, f \in ToSet(feed) : e.id \in Nat /\ (Before(e, f) => e.id < f.id)
<1>1. feed \in Seq(ToSet(feed)) /\ EventSet(ToSet(feed))
  BY DEF DetectorInv
<1>2. Len(feed) \in Nat /\ \A k \in 1..Len(feed) : feed[k] \in ToSet(feed)
  BY <1>1, LenProperties, ElementOfSeq
<1>3. \A k \in 1..Len(feed) : feed[k].occurred_at \in Int /\ feed[k].id = k
  BY <1>1, <1>2 DEF EventSet, Numbered
<1>4. \A k, l \in 1..Len(feed) : k < l => feed[k].occurred_at < feed[l].occurred_at
  <2>1. \A k \in 2..Len(feed) : feed[k - 1].occurred_at < feed[k].occurred_at
    BY DEF InOrder
  <2>2. QED
    BY <1>2, <1>3, <2>1, ListIncreases
<1>5. ASSUME NEW e \in ToSet(feed), NEW f \in ToSet(feed)
      PROVE  e.id \in Nat /\ (Before(e, f) => e.id < f.id)
  <2>1. PICK k \in 1..Len(feed) : e = feed[k]
    BY DEF ToSet
  <2>2. PICK l \in 1..Len(feed) : f = feed[l]
    BY DEF ToSet
  <2>3. e.id = k /\ f.id = l
    BY <1>3, <2>1, <2>2
  <2>4. l < k => ~Before(e, f)
    <3>1. l < k => f.occurred_at < e.occurred_at
      BY <1>4, <2>1, <2>2
    <3>2. QED
      BY <1>3, <2>1, <2>2, <3>1 DEF Before
  <2>5. k = l => ~Before(e, f)
    BY <1>1, <2>1, <2>2, BeforeOrders
  <2>6. QED
    BY <1>2, <2>3, <2>4, <2>5
<1>6. QED
  BY <1>5

\* So the greatest id that a match cites is its terminal's.
LEMMA LastIs ==
  ASSUME DetectorInv, Numbered, InOrder, NEW c, NEW m, NEW P, NEW t, Ends(Fed(c), m, P, t)
  PROVE  Max(m) = t.id /\ m \ {Max(m)} = Ids(P)
<1>1. /\ P \in SUBSET Fed(c) /\ t \in Fed(c) /\ m = Ids(P \union {t})
      /\ \A e \in P : Before(e, t)
  BY DEF Ends
<1>2. Fed(c) \in SUBSET ToSet(feed)
  BY DEF Fed
<1>3. t.id \in Nat /\ \A e \in P : e.id \in Nat /\ e.id < t.id
  BY <1>1, <1>2, IdsInOrder
<1>4. m = Ids(P) \union {t.id} /\ t.id \notin Ids(P)
  BY <1>1, <1>3 DEF Ids
<1>5. \A x \in m : x \in Nat /\ x <= t.id
  BY <1>3, <1>4 DEF Ids
<1>6. Max(m) = t.id
  <2>1. t.id \in m /\ \A y \in m : t.id >= y
    BY <1>3, <1>4, <1>5
  <2>2. ASSUME NEW x \in m, \A y \in m : x >= y PROVE x = t.id
    BY <1>3, <1>5, <2>1, <2>2
  <2>3. QED
    BY <2>1, <2>2 DEF Max
<1>7. QED
  BY <1>4, <1>6

\* The alerts of a sequence rule share no event of their prefixes.
LEMMA BatchPrefixesApart == DetectorInv /\ Numbered /\ IncrementalIsBatch => PrefixesApart
<1> SUFFICES ASSUME DetectorInv, Numbered, IncrementalIsBatch, Undisturbed,
                    NEW s \in seen, NEW t \in seen, s # t, s.rule = t.rule,
                    Rules[s.rule].detection.type = "sequence"
             PROVE  (s.ids \ {Max(s.ids)}) \intersect (t.ids \ {Max(t.ids)}) = {}
  BY DEF PrefixesApart
<1> DEFINE r == s.rule
           d == Rules[r].detection
           E == Fed(Rules[r].category)
<1>1. /\ s = Signature(r, s.ids) /\ r \in DOMAIN Rules /\ IsDetection(d)
      /\ s.ids \in EvaluateRule(Rules[r], E)
  BY AlertIsMatch
<1>2. t = Signature(r, t.ids) /\ t.ids \in EvaluateRule(Rules[r], E)
  BY AlertIsMatch
<1>3. s.ids # t.ids
  BY <1>1, <1>2
<1>4. InOrder /\ EventSet(E)
  BY FedInOrder DEF Undisturbed
<1>5. s.ids \in EvaluateSequence(d, E) /\ t.ids \in EvaluateSequence(d, E)
  BY <1>1, <1>2 DEF EvaluateRule
<1>6. PICK P \in SUBSET E : \E Q \in SUBSET E : \E e, f \in E :
        Ends(E, s.ids, P, e) /\ Ends(E, t.ids, Q, f) /\ P \intersect Q = {}
  <2> HIDE DEF r, E
  <2> QED BY <1>1, <1>3, <1>4, <1>5, SequencesApart DEF r
<1>7. PICK Q \in SUBSET E : \E e, f \in E :
        Ends(E, s.ids, P, e) /\ Ends(E, t.ids, Q, f) /\ P \intersect Q = {}
  BY <1>6
<1>8. PICK e \in E : \E f \in E :
        Ends(E, s.ids, P, e) /\ Ends(E, t.ids, Q, f) /\ P \intersect Q = {}
  BY <1>7
<1>9. PICK f \in E :
        Ends(E, s.ids, P, e) /\ Ends(E, t.ids, Q, f) /\ P \intersect Q = {}
  BY <1>8
<1>10. s.ids \ {Max(s.ids)} = Ids(P) /\ t.ids \ {Max(t.ids)} = Ids(Q)
  BY <1>4, <1>9, LastIs
<1>11. Ids(P) \intersect Ids(Q) = {}
  <2>1. SUFFICES ASSUME NEW x \in P, NEW y \in Q, x.id = y.id PROVE FALSE
    BY DEF Ids
  <2>2. x = y
    BY <1>4, <2>1 DEF EventSet
  <2>3. QED
    BY <1>9, <2>2
<1>12. QED
  BY <1>10, <1>11

\* Whatever the rules and the kinds of event: in an undisturbed feed no event is of the
\* prefixes of two alerts of a sequence rule (engine.py, consumed in _evaluate_sequence).
THEOREM DetectorPrefixesApart ==
  ASSUME NEW CONSTANT Kinds, \A kind \in Kinds : kind.category \in Categories /\ kind.delay \in Int
  PROVE  DetectorInit /\ [][\E kind \in Kinds : Arrive(kind)]_detectorVars => []PrefixesApart
<1>1. BatchInv => IncrementalIsBatch
  BY DEF BatchInv
<1>2. QED
  BY <1>1, BatchPrefixesApart, ArrivalsKeep, PTL

\* Events of one source agree on it.
LEMMA OneSourceIs ==
  ASSUME NEW C, IsFiniteSet(C), OneSource(C)
  PROVE  \A e, f \in C : e.source = f.source
<1> DEFINE S == {e.source : e \in C}
           h == [e \in C |-> e.source]
<1>1. h \in Surjection(C, S)
  BY DEF Surjection
<1>2. IsFiniteSet(S)
  <2> HIDE DEF h, S
  <2> QED BY <1>1, FS_Surjection
<1>3. Cardinality(S) = 1
  BY DEF OneSource
<1>4. PICK x : S = {x}
  <2> HIDE DEF S
  <2> QED BY <1>2, <1>3, FS_Singleton
<1>5. \A e \in C : e.source \in S
  OBVIOUS
<1>6. QED
  BY <1>4, <1>5

\* What a burst rule describes begins in the window of a match of it.
LEMMA BurstFound ==
  ASSUME NEW rule, IsDetection(rule.detection), rule.detection.type \in {"threshold", "correlation"},
         NEW E, EventSet(E), Strict(E),
         NEW C \in SUBSET E, Means(rule.detection, C), NEW a, FirstOf(C, a)
  PROVE  \E m \in EvaluateRule(rule, E) : \E b \in E :
           Begins(E, m, b) /\ a.occurred_at - b.occurred_at \in 0..rule.detection.within_seconds
<1> DEFINE d == rule.detection
<1>1. CASE d.type = "correlation"
  <2>1. EvaluateRule(rule, E) = EvaluateCorrelation(d, E)
    BY <1>1 DEF EvaluateRule
  <2>2. Bursts(d, E, EvaluateCorrelation(d, E))
    BY <1>1, CorrelationBursts
  <2>3. PICK I, start, cite :
          /\ EvaluateCorrelation(d, E) = {cite[i] : i \in I}
          /\ \A i \in I : Begins(E, cite[i], start[i])
          /\ \A D \in SUBSET E : Means(d, D) =>
               \A x \in D : FirstOf(D, x) =>
                 \E i \in I : x.occurred_at - start[i].occurred_at \in 0..d.within_seconds
    BY <2>2 DEF Bursts
  <2>4. PICK i \in I : a.occurred_at - start[i].occurred_at \in 0..d.within_seconds
    BY <2>3 DEF FirstOf
  <2>5. cite[i] \in EvaluateRule(rule, E) /\ Begins(E, cite[i], start[i])
    BY <2>1, <2>3
  <2>6. QED
    BY <2>4, <2>5 DEF Begins
<1>2. CASE d.type = "threshold"
  <2> DEFINE M == Matching(E, d.match)
             G == {e \in M : e.source = a.source}
  <2>1. EvaluateRule(rule, E) = EvaluateThreshold(d, E)
    BY <1>2 DEF EvaluateRule
  <2>2. OneSource(C) /\ Hits(C, d.match) = C
    BY <1>2 DEF Means
  <2>3. C \in SUBSET M /\ a \in C
    BY <2>2 DEF Hits, Matching, FirstOf
  <2>4. \A e \in C : e.source = a.source
    <3>1. IsFiniteSet(C)
      BY FS_Subset DEF EventSet
    <3>2. QED
      BY <2>2, <2>3, <3>1, OneSourceIs
  <2>5. C \in SUBSET G /\ G \in Groups(M)
    BY <2>3, <2>4 DEF Groups
  <2> HIDE DEF M, G
  <2>6. G \in SUBSET E /\ Bursts(d, G, ThresholdMatches(d, G))
    BY <1>2, <2>5, GroupBursts DEF M
  <2>7. PICK I, start, cite :
          /\ ThresholdMatches(d, G) = {cite[i] : i \in I}
          /\ \A i \in I : Begins(G, cite[i], start[i])
          /\ \A D \in SUBSET G : Means(d, D) =>
               \A x \in D : FirstOf(D, x) =>
                 \E i \in I : x.occurred_at - start[i].occurred_at \in 0..d.within_seconds
    BY <2>6 DEF Bursts
  <2>8. PICK i \in I : a.occurred_at - start[i].occurred_at \in 0..d.within_seconds
    BY <2>3, <2>5, <2>7
  <2>9. Begins(E, cite[i], start[i])
    BY <2>6, <2>7, GroupBegins
  <2>10. cite[i] \in EvaluateThreshold(d, E)
    BY <2>5, <2>7 DEF EvaluateThreshold, M
  <2>11. QED
    BY <2>1, <2>8, <2>9, <2>10 DEF Begins
<1>3. QED
  BY <1>1, <1>2

\* Some event is the first, and with no two at once it is the one.
LEMMA FirstExists ==
  ASSUME NEW E, EventSet(E), Strict(E), NEW C \in SUBSET E, C # {}
  PROVE  \E a : FirstOf(C, a) /\ a = CHOOSE e \in C : \A f \in C : e.occurred_at <= f.occurred_at
<1>1. EventSet(C)
  BY EventSubset
<1>2. /\ \A e \in C : \E i \in 1..Cardinality(C) : e = Ordered(C)[i]
      /\ Ordered(C) \in [1..Cardinality(C) -> C] /\ Cardinality(C) \in Nat
  BY <1>1, OrderedOnto, OrderedIsSorted
<1>3. PICK a : a = Ordered(C)[1]
  OBVIOUS
<1>4. 1 \in 1..Cardinality(C)
  BY <1>2
<1>5. a \in C /\ \A f \in C : a.occurred_at <= f.occurred_at
  <2>1. \A i \in 1..Cardinality(C) : 1 <= i
    OBVIOUS
  <2>2. QED
    BY <1>1, <1>2, <1>3, <1>4, <2>1, TimesInOrder
<1>6. ASSUME NEW e \in C, \A f \in C : e.occurred_at <= f.occurred_at PROVE e = a
  <2>1. e.occurred_at = a.occurred_at
    BY <1>5, <1>6 DEF EventSet
  <2>2. QED
    BY <1>5, <2>1 DEF Strict
<1>7. QED
  BY <1>5, <1>6 DEF FirstOf

\* What a sequence rule describes has a match for its terminal, or one for an earlier
\* terminal that used up some of its events.
LEMMA SequenceFound ==
  ASSUME NEW d, IsDetection(d), d.type = "sequence", NEW E, EventSet(E),
         NEW P \in SUBSET E, NEW t \in E, Leads(d, P, t), Told(d, P)
  PROVE  \E m \in EvaluateSequence(d, E) : \E Q \in SUBSET E : \E u \in E :
           /\ Ends(E, m, Q, u)
           /\ u = t \/ (Before(u, t) /\ P \intersect Q # {})
<1> DEFINE G == {e \in E : e.source = t.source}
           g == Ordered(G)
<1>1. G \in Groups(E) /\ t \in G
  BY DEF Groups
<1>2. P \in SUBSET G
  <2>1. OneSource(P \union {t})
    BY DEF Leads
  <2>2. IsFiniteSet(P \union {t})
    <3>1. P \union {t} \in SUBSET E
      OBVIOUS
    <3>2. QED
      BY <3>1, FS_Subset DEF EventSet
  <2>3. \A e \in P \union {t} : e.source = t.source
    BY <2>1, <2>2, OneSourceIs
  <2>4. QED
    BY <2>3
<1> HIDE DEF G
<1>3. G \in SUBSET E /\ EventSet(G)
  BY <1>1, GroupOfEvents, EventSubset
<1>4. PICK s : \E J \in SUBSET (1..Cardinality(G)) : \E pre :
        SequenceMatches(d, G) = s.matches /\ Visits(d, G, s, Cardinality(G), J, pre)
  BY <1>1, SequenceVisits
<1>5. PICK J \in SUBSET (1..Cardinality(G)) : \E pre :
        SequenceMatches(d, G) = s.matches /\ Visits(d, G, s, Cardinality(G), J, pre)
  BY <1>4
<1>6. PICK pre : SequenceMatches(d, G) = s.matches /\ Visits(d, G, s, Cardinality(G), J, pre)
  BY <1>5
<1>7. PICK p \in 1..Cardinality(G) : t = g[p]
  BY <1>1, <1>3, OrderedOnto
<1>8. p \in J \/ \E j \in J : j < p /\ P \intersect pre[j] # {}
  BY <1>2, <1>6, <1>7 DEF Visits
<1>9. ASSUME NEW j \in J
      PROVE  /\ Ids(pre[j] \union {g[j]}) \in EvaluateSequence(d, E)
             /\ Ends(E, Ids(pre[j] \union {g[j]}), pre[j], g[j])
  <2>1. Ids(pre[j] \union {g[j]}) \in SequenceMatches(d, G)
    <3>1. s.matches = {Ids(pre[i] \union {g[i]}) : i \in J}
      BY <1>6 DEF Visits
    <3> HIDE DEF g
    <3>2. QED
      BY <1>6, <3>1
  <2>2. Ids(pre[j] \union {g[j]}) \in EvaluateSequence(d, E)
    BY <1>1, <2>1 DEF EvaluateSequence
  <2>3. QED
    BY <1>1, <1>6, <2>2, VisitsEnd
<1>10. ASSUME NEW j \in J, j < p PROVE Before(g[j], t)
  BY <1>3, <1>7, <1>10, OrderedIsSorted
<1> HIDE DEF g
<1>11. CASE p \in J
  BY <1>7, <1>9, <1>11 DEF Ends
<1>12. CASE p \notin J
  <2>1. PICK j \in J : j < p /\ P \intersect pre[j] # {}
    BY <1>8, <1>12
  <2>2. Before(g[j], t)
    BY <1>10, <2>1
  <2>3. QED
    BY <1>9, <2>1, <2>2 DEF Ends
<1>13. QED
  BY <1>11, <1>12

\* The detector was shown some events of a category together and has alerted on
\* what the rules match in them.
Alerted(c, E, alerts) ==
  \A r \in RulesOf(c) : \A m \in EvaluateRule(Rules[r], E) : Signature(r, m) \in alerts

\* While the feed is in order, events that fit a window were shown together.
ShownInv ==
  InOrder => \A c \in Categories : \A cited \in SUBSET Fed(c) :
    cited # {} /\ Held(Fed(c), cited) => \E E \in SUBSET Fed(c) : cited \subseteq E /\ Alerted(c, E, seen)

\* An event of a list in order is in the window, unless more than fit it have come
\* from that event on.
LEMMA HeldByWindow ==
  ASSUME NEW list, list \in Seq(ToSet(list)), Len(list) > 0, EventSet(ToSet(list)),
         \A k, l \in 1..Len(list) : k < l => list[k].occurred_at < list[l].occurred_at,
         NEW c, NEW b \in Seq(ToSet(list)), Newest(c, b, list),
         NEW f \in ToSet(list), f.category = c,
         Cardinality({g \in {x \in ToSet(list) : x.category = c} :
                        g.occurred_at \in f.occurred_at..list[Len(list)].occurred_at}) <= WindowSize
  PROVE  f \in ToSet(b)
<1> DEFINE m == Len(b)
           n == Len(list)
           span == {g \in {x \in ToSet(list) : x.category = c} :
                      g.occurred_at \in f.occurred_at..list[n].occurred_at}
<1>1. m \in Nat /\ n \in Nat /\ n \in 1..n /\ WindowSize \in Nat
  BY LenProperties, DetectorAssumption DEF DetectorAssumption
<1>2. \A k \in 1..n : list[k] \in ToSet(list) /\ list[k].occurred_at \in Int
  BY ElementOfSeq DEF EventSet
<1>3. PICK at : NewestAt(at, c, b, list)
  BY DEF Newest
<1>4. /\ at \in [1..m -> 1..n]
      /\ \A k \in 1..m : b[k] = list[at[k]] /\ list[at[k]].category = c
      /\ \A k, l \in 1..m : k < l => at[k] < at[l]
      /\ \A i \in 1..n : list[i].category = c =>
           (\E k \in 1..m : at[k] = i) \/ (m = WindowSize /\ i < at[1])
  BY <1>3 DEF NewestAt
<1>5. PICK i \in 1..n : f = list[i]
  BY DEF ToSet
<1>6. \A k \in 1..m : b[k] \in ToSet(b)
  BY DEF ToSet
<1> HIDE DEF m, n
<1>7. CASE \E k \in 1..m : at[k] = i
  BY <1>4, <1>5, <1>6, <1>7
<1>8. CASE ~\E k \in 1..m : at[k] = i
  <2>1. m = WindowSize /\ i < at[1]
    BY <1>4, <1>5, <1>8
  <2>2. m > 0
    BY <1>1, <2>1, DetectorAssumption DEF DetectorAssumption
  <2>3. \A k \in 1..m : i < at[k] /\ at[k] \in 1..n
    <3>1. 1 \in 1..m
      BY <1>1, <2>2
    <3>2. \A k \in 1..m : k = 1 \/ 1 < k
      BY <1>1
    <3>3. QED
      BY <1>1, <1>4, <1>5, <2>1, <3>1, <3>2
  <2> DEFINE h == [k \in 0..m |-> IF k = 0 THEN f ELSE b[k]]
             t(k) == IF k = 0 THEN i ELSE at[k]
  <2>4. \A k \in 0..m : t(k) \in 1..n /\ i <= t(k) /\ h[k] = list[t(k)] /\ list[t(k)].category = c
    BY <1>1, <1>4, <1>5, <2>3
  <2>5. \A k, l \in 0..m : k < l => t(k) < t(l)
    <3>1. \A k, l \in 0..m : k < l => l \in 1..m /\ l # 0 /\ (k = 0 \/ k \in 1..m)
      BY <1>1
    <3>2. \A k \in 1..m : k # 0
      OBVIOUS
    <3>3. QED
      BY <1>4, <2>3, <3>1, <3>2
  <2>6. \A k \in 1..n : i <= k => list[k].occurred_at \in f.occurred_at..list[n].occurred_at
    <3>1. \A k \in 1..n : (k = n \/ k < n) /\ (i <= k => i = k \/ i < k)
      BY <1>1, <1>5
    <3>2. \A k \in 1..n : list[k].occurred_at <= list[n].occurred_at
      BY <1>1, <1>2, <3>1 DEF n
    <3>3. \A k \in 1..n : i <= k => f.occurred_at <= list[k].occurred_at
      BY <1>2, <1>5, <3>1 DEF n
    <3>4. QED
      BY <1>1, <1>2, <1>5, <3>2, <3>3
  <2> HIDE DEF t
  <2>7. \A k \in 0..m : h[k] \in span
    BY <1>2, <2>4, <2>6
  <2>8. \A k, l \in 0..m : k # l => h[k] # h[l]
    <3>1. \A k, l \in 0..m : k < l => list[t(k)].occurred_at < list[t(l)].occurred_at
      BY <2>4, <2>5 DEF n
    <3>2. \A k \in 0..m : list[t(k)].occurred_at \in Int
      BY <1>2, <2>4
    <3>3. \A k, l \in 0..m : k # l => k < l \/ l < k
      BY <1>1
    <3> HIDE DEF h
    <3>4. QED
      BY <2>4, <3>1, <3>2, <3>3
  <2>9. h \in Injection(0..m, span)
    <3>1. h \in [0..m -> span]
      BY <2>7
    <3> HIDE DEF h, span
    <3>2. QED
      BY <2>8, <3>1 DEF Injection, IsInjective
  <2>10. IsFiniteSet(span)
    <3>1. span \in SUBSET ToSet(list)
      OBVIOUS
    <3> HIDE DEF span
    <3>2. QED
      BY <3>1, FS_Subset DEF EventSet
  <2>11. Cardinality(0..m) <= Cardinality(span)
    <3> HIDE DEF h, span
    <3> QED BY <2>9, <2>10, FS_Injection
  <2>12. Cardinality(0..m) = m + 1
    <3>1. 0 \in Int /\ m \in Int /\ (IF 0 > m THEN 0 ELSE m - 0 + 1) = m + 1
      BY <1>1
    <3>2. QED
      BY <3>1, FS_Interval
  <2>13. Cardinality(span) \in Nat /\ Cardinality(span) <= WindowSize
    <3>1. Cardinality(span) <= WindowSize
      BY DEF n
    <3> HIDE DEF span
    <3>2. QED
      BY <2>10, <3>1, FS_CardinalityType
  <2> HIDE DEF span
  <2>14. QED
    BY <1>1, <2>1, <2>11, <2>12, <2>13
<1>9. QED
  BY <1>7, <1>8

\* observe shows the rules the window that the new event has entered.
LEMMA ObserveShows ==
  ASSUME DetectorInv, ShownInv, NEW c \in Categories, NEW e, Fresh(e), e.category = c, observe(c, e)
  PROVE  ShownInv'
<1> SUFFICES ASSUME InOrder', NEW k \in Categories, NEW cited \in SUBSET Fed(k)', cited # {},
                    Held(Fed(k)', cited)
             PROVE  \E E \in SUBSET Fed(k)' : cited \subseteq E /\ Alerted(k, E, seen')
  BY DEF ShownInv
<1>1. DetectorInv' /\ ToSet(feed)' = ToSet(feed) \union {e}
  BY ObserveStands
<1>2. /\ ToSet(feed') = ToSet(feed) \union {e} /\ EventSet(ToSet(feed')) /\ feed' \in Seq(ToSet(feed'))
      /\ window' \in [Categories -> Seq(ToSet(feed'))] /\ Newest(c, window'[c], feed')
      /\ feed \in Seq(ToSet(feed)) /\ feed' = Append(feed, e)
      /\ seen' = seen \union MatchesIn(c, window'[c])
  BY <1>1 DEF DetectorInv, observe, NewSignatures
<1>3. /\ Len(feed) \in Nat /\ Len(feed') = Len(feed) + 1 /\ feed'[Len(feed')] = e
      /\ \A i \in 1..Len(feed) : feed'[i] = feed[i]
  BY <1>2, LenProperties, AppendProperties
<1>4. InOrder
  <2>1. ASSUME NEW i \in 2..Len(feed) PROVE feed[i - 1].occurred_at < feed[i].occurred_at
    <3>1. i \in 2..Len(feed') /\ i \in 1..Len(feed) /\ i - 1 \in 1..Len(feed)
      BY <1>3
    <3>2. QED
      BY <1>3, <3>1 DEF InOrder
  <2>2. QED
    BY <2>1 DEF InOrder
<1>5. /\ Fed(k) \in SUBSET Fed(k)' /\ Fed(k)' \in SUBSET (Fed(k) \union {e})
      /\ Fed(k)' = {x \in ToSet(feed') : x.category = k}
  BY <1>2 DEF Fed
<1>6. CASE e \in cited
  <2> DEFINE b == window'[c]
             E == ToSet(b)
  <2>1. k = c
    BY <1>5, <1>6
  <2>2. b \in Seq(ToSet(feed')) /\ E \in SUBSET ToSet(feed')
    BY <1>2, SetInSeq
  <2>3. E \in SUBSET Fed(k)'
    <3>1. PICK at : NewestAt(at, c, b, feed')
      BY <1>2 DEF Newest
    <3>2. ASSUME NEW x \in E PROVE x.category = c
      <4>1. PICK j \in 1..Len(b) : x = b[j]
        BY <2>2, LenProperties DEF ToSet
      <4>2. \A i \in 1..Len(b) : b[i].category = c
        BY <3>1 DEF NewestAt
      <4>3. QED
        BY <4>1, <4>2
    <3>3. QED
      BY <1>5, <2>1, <2>2, <3>2
  <2>4. \A i, j \in 1..Len(feed') : i < j => feed'[i].occurred_at < feed'[j].occurred_at
    <3>1. Len(feed') \in Nat /\ \A i \in 2..Len(feed') : feed'[i - 1].occurred_at < feed'[i].occurred_at
      BY <1>3 DEF InOrder
    <3>2. \A i \in 1..Len(feed') : feed'[i].occurred_at \in Int
      BY <1>2, ElementOfSeq DEF EventSet
    <3>3. QED
      BY <3>1, <3>2, ListIncreases
  <2>5. ASSUME NEW f \in cited PROVE f \in E
    <3>1. f \in ToSet(feed') /\ f.category = c
      BY <1>5, <2>1
    <3>2. Cardinality({g \in Fed(k)' : g.occurred_at \in f.occurred_at..e.occurred_at}) <= WindowSize
      BY <1>6 DEF Held
    <3>3. Cardinality({g \in {x \in ToSet(feed') : x.category = c} :
                         g.occurred_at \in f.occurred_at..feed'[Len(feed')].occurred_at}) <= WindowSize
      BY <1>3, <1>5, <2>1, <3>2
    <3>4. Len(feed') > 0
      BY <1>3
    <3>5. /\ Newest(c, b, feed') /\ b \in Seq(ToSet(feed'))
          /\ feed' \in Seq(ToSet(feed')) /\ EventSet(ToSet(feed'))
      BY <1>2, <2>2
    <3> HIDE DEF b
    <3>6. f \in ToSet(b)
      <4> DEFINE list == feed'
      <4>1. /\ list \in Seq(ToSet(list)) /\ Len(list) > 0 /\ EventSet(ToSet(list))
            /\ \A k1, l1 \in 1..Len(list) : k1 < l1 => list[k1].occurred_at < list[l1].occurred_at
            /\ b \in Seq(ToSet(list)) /\ Newest(c, b, list)
            /\ f \in ToSet(list) /\ f.category = c
            /\ Cardinality({g \in {x \in ToSet(list) : x.category = c} :
                              g.occurred_at \in f.occurred_at..list[Len(list)].occurred_at}) <= WindowSize
        BY <2>4, <3>1, <3>3, <3>4, <3>5
      <4> HIDE DEF list
      <4>2. QED
        BY <4>1, HeldByWindow
    <3>7. QED
      BY <3>6 DEF b
  <2>6. Alerted(k, E, seen')
    <3>1. \A r \in RulesOf(c) : \A m \in EvaluateRule(Rules[r], E) : Signature(r, m) \in MatchesIn(c, b)
      BY DEF MatchesIn
    <3>2. QED
      BY <1>2, <2>1, <3>1 DEF Alerted
  <2>7. QED
    BY <2>3, <2>5, <2>6
<1>7. CASE e \notin cited
  <2>1. cited \in SUBSET Fed(k)
    BY <1>5, <1>7
  <2>2. Held(Fed(k), cited)
    <3> SUFFICES ASSUME NEW f \in cited, NEW g \in cited
                 PROVE  Cardinality({x \in Fed(k) : x.occurred_at \in f.occurred_at..g.occurred_at}) <= WindowSize
      BY DEF Held
    <3> DEFINE S == {x \in Fed(k) : x.occurred_at \in f.occurred_at..g.occurred_at}
               T == {x \in Fed(k)' : x.occurred_at \in f.occurred_at..g.occurred_at}
    <3>1. S \in SUBSET T /\ T \in SUBSET ToSet(feed')
      BY <1>5
    <3>2. Cardinality(T) <= WindowSize
      BY DEF Held
    <3> HIDE DEF S, T
    <3>3. IsFiniteSet(T)
      BY <1>2, <3>1, FS_Subset DEF EventSet
    <3>4. Cardinality(S) <= Cardinality(T) /\ IsFiniteSet(S)
      BY <3>1, <3>3, FS_Subset
    <3>5. Cardinality(S) \in Nat /\ Cardinality(T) \in Nat /\ WindowSize \in Nat
      BY <3>3, <3>4, FS_CardinalityType, DetectorAssumption DEF DetectorAssumption
    <3>6. Cardinality(S) <= WindowSize
      BY <3>2, <3>4, <3>5
    <3>7. QED
      BY <3>6 DEF S
  <2>3. PICK E \in SUBSET Fed(k) : cited \subseteq E /\ Alerted(k, E, seen)
    BY <1>4, <2>1, <2>2 DEF ShownInv
  <2>4. Alerted(k, E, seen')
    BY <1>2, <2>3 DEF Alerted
  <2>5. QED
    BY <1>5, <2>3, <2>4
<1>8. QED
  BY <1>6, <1>7

\* So it is of every arrival.
LEMMA ArrivalsShow ==
  ASSUME NEW CONSTANT Kinds, \A kind \in Kinds : kind.category \in Categories /\ kind.delay \in Int
  PROVE  DetectorInit /\ [][\E kind \in Kinds : Arrive(kind)]_detectorVars => []ShownInv
<1>1. DetectorInit => ShownInv
  <2>1. DetectorInit => \A c : Fed(c) = {}
    BY EmptySeq DEF DetectorInit, Fed, ToSet
  <2>2. QED
    BY <2>1 DEF ShownInv
<1>2. DetectorInv /\ Numbered /\ ShownInv /\ [\E kind \in Kinds : Arrive(kind)]_detectorVars => ShownInv'
  <2>1. ASSUME ShownInv, UNCHANGED detectorVars PROVE ShownInv'
    BY <2>1 DEF detectorVars, ShownInv, InOrder, Alerted, Fed
  <2>2. ASSUME DetectorInv, Numbered, ShownInv, NEW kind \in Kinds, Arrive(kind) PROVE ShownInv'
    <3>1. PICK e : Fresh(e) /\ e.category = kind.category /\ observe(kind.category, e)
      BY <2>2, ArrivalIsFresh
    <3>2. QED
      BY <2>2, <3>1, ObserveShows
  <2>3. QED
    BY <2>1, <2>2
<1>3. QED
  BY <1>1, <1>2, ArrivalsKeep, PTL

\* A match among events that were shown together is alerted on.
LEMMA MatchIsAlert ==
  ASSUME NEW r \in DOMAIN Rules, NEW E, Alerted(Rules[r].category, E, seen), NEW m \in EvaluateRule(Rules[r], E)
  PROVE  Signature(r, m) \in Of(r) /\ Signature(r, m).ids = m
  BY DEF Alerted, RulesOf, Signature, Of

\* Whatever has a single-event rule's meaning is alerted on as it is.
LEMMA SingleAnswers ==
  ASSUME NEW r \in DOMAIN Rules, Rules[r].detection.type = "single",
         NEW E, IsFiniteSet(E), Alerted(Rules[r].category, E, seen),
         NEW cited \in SUBSET E, Means(Rules[r].detection, cited)
  PROVE  \E s \in Of(r) : AnswersFor(Rules[r].detection, s, cited)
<1> DEFINE d == Rules[r].detection
<1>1. Cardinality(cited) = 1 /\ Hits(cited, d.match) = cited
  BY DEF Means
<1>2. IsFiniteSet(cited)
  BY FS_Subset
<1>3. PICK e : cited = {e}
  BY <1>1, <1>2, FS_Singleton
<1>4. e \in E /\ Satisfies(e, d.match)
  BY <1>1, <1>3 DEF Hits
<1>5. {e.id} \in EvaluateSingle(d, E)
  BY <1>4 DEF EvaluateSingle, Ids, Matching
<1>6. {e.id} \in EvaluateRule(Rules[r], E)
  BY <1>5 DEF EvaluateRule
<1>7. Signature(r, {e.id}) \in Of(r) /\ Signature(r, {e.id}).ids = {e.id}
  BY <1>6, MatchIsAlert
<1>8. {f.id : f \in cited} = {e.id}
  BY <1>3
<1>9. AnswersFor(d, Signature(r, {e.id}), cited)
  BY <1>7, <1>8 DEF AnswersFor
<1>10. QED
  BY <1>7, <1>9

\* Whatever has a burst rule's meaning begins in the window of an alert.
LEMMA BurstAnswers ==
  ASSUME DetectorInv, InOrder, NEW r \in DOMAIN Rules,
         Rules[r].detection.type \in {"threshold", "correlation"},
         NEW E \in SUBSET Fed(Rules[r].category), Alerted(Rules[r].category, E, seen),
         NEW cited \in SUBSET E, cited # {}, Means(Rules[r].detection, cited)
  PROVE  \E s \in Of(r) : AnswersFor(Rules[r].detection, s, cited)
<1> DEFINE c == Rules[r].category
           d == Rules[r].detection
<1>1. EventSet(E) /\ Strict(E) /\ EventSet(Fed(c))
  <2>1. EventSet(Fed(c)) /\ Strict(Fed(c))
    BY FedInOrder
  <2>2. QED
    BY <2>1, EventSubset DEF Strict
<1>2. IsDetection(d)
  BY DetectorAssumption DEF DetectorAssumption
<1>3. PICK a : FirstOf(cited, a) /\ a = CHOOSE e \in cited : \A f \in cited : e.occurred_at <= f.occurred_at
  BY <1>1, FirstExists
<1>4. PICK m \in EvaluateRule(Rules[r], E) : \E b \in E :
        Begins(E, m, b) /\ a.occurred_at - b.occurred_at \in 0..d.within_seconds
  BY <1>1, <1>2, <1>3, BurstFound
<1>5. PICK b \in E : Begins(E, m, b) /\ a.occurred_at - b.occurred_at \in 0..d.within_seconds
  BY <1>4
<1>6. Signature(r, m) \in Of(r) /\ Signature(r, m).ids = m
  BY MatchIsAlert
<1>7. Begins(Fed(c), m, b)
  <2>1. \A f \in Fed(c) : f.id \in m => f \in E
    BY <1>1, <1>5 DEF Begins, EventSet
  <2>2. QED
    BY <1>5, <2>1 DEF Begins
<1>8. Start(Signature(r, m)) = b
  BY <1>6, <1>7, StartIs
<1>9. AnswersFor(d, Signature(r, m), cited)
  BY <1>3, <1>5, <1>8 DEF AnswersFor
<1>10. QED
  BY <1>6, <1>9

\* Whatever has a sequence rule's meaning is answered for by the alert of its terminal,
\* or of an earlier one that used up some of its events.
LEMMA SequenceAnswers ==
  ASSUME DetectorInv, Numbered, InOrder, NEW r \in DOMAIN Rules,
         Rules[r].detection.type = "sequence",
         NEW E \in SUBSET Fed(Rules[r].category), Alerted(Rules[r].category, E, seen),
         NEW cited \in SUBSET E,
         Means(Rules[r].detection, cited), Telling(Rules[r].detection, cited)
  PROVE  \E s \in Of(r) : AnswersFor(Rules[r].detection, s, cited)
<1> DEFINE c == Rules[r].category
           d == Rules[r].detection
           ids == {e.id : e \in cited}
<1>1. EventSet(E) /\ E \in SUBSET ToSet(feed)
  <2>1. EventSet(Fed(c)) /\ Fed(c) \in SUBSET ToSet(feed)
    BY FedInOrder
  <2>2. QED
    BY <2>1, EventSubset
<1>2. IsDetection(d)
  BY DetectorAssumption DEF DetectorAssumption
<1>3. PICK t \in cited : Leads(d, cited \ {t}, t)
  BY DEF Means
<1>4. PICK P : P = cited \ {t}
  OBVIOUS
<1>5. P \in SUBSET E /\ t \in E /\ cited = P \union {t} /\ Leads(d, P, t)
  BY <1>3, <1>4
<1>6. Told(d, P)
  BY <1>4 DEF Told, Telling, Hits
<1>7. PICK m \in EvaluateSequence(d, E) : \E Q \in SUBSET E : \E u \in E :
        /\ Ends(E, m, Q, u)
        /\ u = t \/ (Before(u, t) /\ P \intersect Q # {})
  BY <1>1, <1>2, <1>5, <1>6, SequenceFound
<1>8. PICK Q \in SUBSET E : \E u \in E :
        /\ Ends(E, m, Q, u)
        /\ u = t \/ (Before(u, t) /\ P \intersect Q # {})
  BY <1>7
<1>9. PICK u \in E : /\ Ends(E, m, Q, u)
                     /\ u = t \/ (Before(u, t) /\ P \intersect Q # {})
  BY <1>8
<1>10. m \in EvaluateRule(Rules[r], E)
  BY <1>7 DEF EvaluateRule
<1>11. Signature(r, m) \in Of(r) /\ Signature(r, m).ids = m
  BY <1>10, MatchIsAlert
<1>12. Ends(E, ids, P, t)
  <2>1. \A e \in P : Before(e, t)
    BY <1>5 DEF Leads
  <2>2. ids = Ids(P \union {t})
    BY <1>5 DEF Ids
  <2>3. QED
    BY <1>5, <2>1, <2>2 DEF Ends
<1> HIDE DEF ids
<1>13. Max(m) = u.id /\ Max(ids) = t.id
  <2>1. Ends(Fed(c), m, Q, u) /\ Ends(Fed(c), ids, P, t)
    BY <1>9, <1>12 DEF Ends
  <2>2. QED
    BY <2>1, LastIs
<1>14. Max(m) = Max(ids) \/ (Max(m) < Max(ids) /\ m \intersect ids # {})
  <2>1. CASE u = t
    BY <1>13, <2>1
  <2>2. CASE Before(u, t) /\ P \intersect Q # {}
    <3>1. u.id < t.id
      BY <1>1, <1>5, <2>2, IdsInOrder
    <3>2. PICK e \in P : e \in Q
      BY <2>2
    <3>3. e.id \in m /\ e.id \in ids
      BY <1>9, <1>12, <3>2 DEF Ends, Ids
    <3>4. QED
      BY <1>13, <3>1, <3>3
  <2>3. QED
    BY <1>9, <2>1, <2>2
<1>15. AnswersFor(d, Signature(r, m), cited)
  BY <1>11, <1>14 DEF AnswersFor, ids
<1>16. QED
  BY <1>11, <1>15

\* Whatever the rule describes is answered for, whichever its type.
LEMMA ShownMissesNothing == DetectorInv /\ Numbered /\ ShownInv => NothingMissed
<1> SUFFICES ASSUME DetectorInv, Numbered, ShownInv, InOrder,
                    NEW r \in DOMAIN Rules, NEW cited \in SUBSET Fed(Rules[r].category), cited # {},
                    Means(Rules[r].detection, cited), Telling(Rules[r].detection, cited),
                    Held(Fed(Rules[r].category), cited)
             PROVE  \E s \in Of(r) : AnswersFor(Rules[r].detection, s, cited)
  BY DEF NothingMissed
<1>1. /\ Rules[r].detection.type \in {"single", "threshold", "sequence", "correlation"}
      /\ Rules[r].category \in Categories
  BY DetectorAssumption DEF DetectorAssumption, IsDetection
<1>2. PICK E \in SUBSET Fed(Rules[r].category) : cited \subseteq E /\ Alerted(Rules[r].category, E, seen)
  BY <1>1 DEF ShownInv
<1>3. IsFiniteSet(E)
  BY FedInOrder, FS_Subset DEF EventSet
<1>4. QED
  BY <1>1, <1>2, <1>3, SingleAnswers, BurstAnswers, SequenceAnswers

\* Whatever the rules and the kinds of event: in a feed in order every set of events
\* that has a rule's meaning, fits the window and leaves the assignment no choice has
\* an alert that answers for it, whatever the window has dropped since or before
\* (engine.py, evaluate_rule; detect.py, observe).
THEOREM DetectorMissesNothing ==
  ASSUME NEW CONSTANT Kinds, \A kind \in Kinds : kind.category \in Categories /\ kind.delay \in Int
  PROVE  DetectorInit /\ [][\E kind \in Kinds : Arrive(kind)]_detectorVars => []NothingMissed
  BY ShownMissesNothing, ArrivalsShow, ArrivalsKeep, PTL

----------------------------------------------------------------------------
(* The vault without its incidents.                                        *)

\* A call that records an incident, seen as one that fails.
Call(r) == IF r \in {"recorded", "duplicate"} THEN "error" ELSE r

Calls == [w \in Workers |-> Call(result[w])]

DiskEvents == [events |-> disk.events, pins |-> disk.pins, incidents |-> <<>>]

\* The vault without its incidents, of which all that EvidenceVaultProofs proves holds.
Table == INSTANCE EvidenceVaultProofs WITH
  Bodies <- Requests, MaxRows <- MaxRequests, MaxIncidents <- 0, Signatures <- {},
  incidents <- <<>>, disk <- DiskEvents, result <- Calls

----------------------------------------------------------------------------
(* The inductive invariant, in parts.                                      *)

\* A request in the hands of a worker.
Jobs == [id : Nat, request : Requests]

\* What a worker is about to write is what its request says.
JobsInv ==
  /\ pc \in [Workers -> Steps] /\ job \in [Workers -> Jobs \union {NoJob}]
  /\ result \in [Workers -> V!Results]
  /\ \A w \in Workers :
       /\ pc[w] # "idle" => job[w] \in Jobs
       /\ pc[w] \in {"bind", "bound"} => Signed(job[w].request)
       /\ pc[w] = "bound" => /\ txn[w].op = "bind"
                             /\ txn[w].ident = job[w].request.ident
                             /\ txn[w].key = job[w].request.key
       /\ pc[w] = "store" =>
            /\ txn[w].op = "append"
            /\ txn[w].row.signer = IF Signed(job[w].request) THEN job[w].request.ident ELSE Nobody
            /\ txn[w].row.pubkey = IF Signed(job[w].request) THEN job[w].request.key ELSE NoKey
            /\ txn[w].row.body = job[w].request

\* Every signed row is signed with a pinned key, what a power failure would
\* leave included, and a request goes on from bind_key only under its pin.
SignedIn(rows, book) ==
  \A i \in 1..Len(rows) : rows[i].signer # Nobody =>
    rows[i].signer \in Identities /\ rows[i].pubkey \in Keys /\ rows[i].pubkey = book[rows[i].signer]

PinnedInv ==
  /\ SignedIn(events, pins) /\ SignedIn(disk.events, disk.pins)
  /\ \A w \in Workers : pc[w] \in {"append", "store"} /\ Signed(job[w].request) =>
       pins[job[w].request.ident] = job[w].request.key

\* The incidents table, and what a power failure would leave of all three.
IncidentsInv ==
  /\ incidents \in Seq(V!Incident)
  /\ disk \in [events : Seq(Table!Row), pins : Table!Pins, incidents : Seq(V!Incident)]

\* There is room for the row that is being stored.
BoundInv ==
  /\ Len(events) <= MaxRequests
  /\ \A w \in Workers : txn[w].op = "append" => Len(events) < MaxRequests

\* What a worker has of its request.
HandsInv ==
  \A w \in Workers :
    /\ pc[w] = "idle" => job[w] = NoJob
    /\ pc[w] # "idle" => job[w].id <= Len(events)

\* What was told, dropped and counted.
SentInv ==
  /\ published \subseteq [event : Nat \ {0}] \union [incident : Signatures]
  /\ dropped \subseteq Signatures
  /\ received \in 0..MaxRequests

\* What was published, and what is about to be, has its row.
PublishInv ==
  /\ PublishedIsStored /\ \A p \in published : "event" \in DOMAIN p => p.event \in Nat
  /\ \A w \in Workers : pc[w] = "publish" => job[w].id \in 1..Len(events)

\* The signatures in hand are of nobody else, and only where the walk records.
TodoInv ==
  /\ todo \in [Workers -> SUBSET seen]
  /\ \A w \in Workers : pc[w] \notin {"record", "announce"} => todo[w] = {}
  /\ \A v, w \in Workers : v # w => todo[v] \intersect todo[w] = {}
  /\ \A s \in seen : V!Recorded(s) \/ s \in dropped \/ \E w \in Workers : s \in todo[w]

\* An event the detector was shown is a row, with some UUID, and what a worker is
\* about to show it is a row of the worker's own.
OfRow(e, rows) ==
  /\ e.id \in 1..Len(rows) /\ e.tie \in Uuids \union {0}
  /\ e = Event(rows[e.id].body, e.id, rows[e.id].body.occurred_at, e.tie)

Stored(j, rows) == j.id \in 1..Len(rows) /\ rows[j.id].body = j.request

Waits(w) == pc[w] \in {"publish", "observe"}

\* The detector was shown rows, and what is about to be shown it is another one.
FeedInv ==
  /\ \A e \in ToSet(feed) : OfRow(e, events)
  /\ \A w \in Workers : Waits(w) =>
       Stored(job[w], events) /\ \A e \in ToSet(feed) : e.id # job[w].id
  /\ \A v, w \in Workers : v # w /\ Waits(v) /\ Waits(w) => job[v].id # job[w].id

\* Every incident is about rows that are what its rule describes, what a power
\* failure would leave included.
RowsCited(rows, cites, tie) ==
  {Event(rows[i].body, i, rows[i].body.occurred_at, tie[i]) : i \in cites}

CitesSoundly(d, cites, rows) ==
  /\ cites \subseteq 1..Len(rows)
  /\ \E tie \in [cites -> Uuids \union {0}] : Means(d, RowsCited(rows, cites, tie))

SoundIn(incs, rows) ==
  \A n \in 1..Len(incs) :
    CitesSoundly(Rules[incs[n].signature.rule].detection, incs[n].cites, rows)

SoundInv == SoundIn(incidents, events) /\ SoundIn(disk.incidents, disk.events)

VaultOK == Table!TypeOK /\ Table!VaultInv

IngestInv ==
  /\ VaultOK /\ JobsInv /\ PinnedInv /\ IncidentsInv /\ PublishInv /\ TodoInv
  /\ DetectorInv /\ FeedInv /\ SoundInv /\ BoundInv /\ HandsInv /\ SentInv

----------------------------------------------------------------------------
(* Every operation of the vault is one of the table's.                     *)

\* The vault's assumption holds of it.
LEMMA TableAssumption == Table!VaultAssumption
BY IngestAssumption DEF Table!VaultAssumption

\* A result that is no incident's is the table's too.
LEMMA Returned ==
  ASSUME result \in [Workers -> V!Results], NEW w \in Workers, NEW r, V!Return(w, r)
  PROVE  Table!Return(w, Call(r))
BY DEF V!Return, Table!Return, Calls

\* An operation of the vault is one of the table.
LEMMA OpsMap ==
  ASSUME result \in [Workers -> V!Results], NEW w \in Workers
  PROVE  /\ \A i, k : V!BindRead(w, i, k) => Table!BindRead(w, i, k)
         /\ V!BindWrite(w) => Table!BindWrite(w)
         /\ \A b, i, k : V!AppendRead(w, b, i, k) => Table!AppendRead(w, b, i, k)
         /\ V!AppendCommit(w) => Table!AppendCommit(w)
         /\ V!WriteFails(w) => Table!WriteFails(w)
         /\ \A s, c : V!RecordIncident(w, s, c) => Table!RecordFails(w)
         /\ V!RecordFails(w) => Table!RecordFails(w)
<1>1. ASSUME NEW i, NEW k, V!BindRead(w, i, k) PROVE Table!BindRead(w, i, k)
  BY <1>1 DEF V!BindRead, Table!BindRead, V!Idle, Table!Idle, V!NoTxn, Table!NoTxn, V!LockFree,
              Table!LockFree, V!tables, Table!tables, DiskEvents, Calls
<1>2. ASSUME V!BindWrite(w) PROVE Table!BindWrite(w)
  <2>1. Call(V!BindOutcome(txn[w])) = V!BindOutcome(txn[w])
    BY DEF Call, V!BindOutcome
  <2>2. V!BindOutcome(txn[w]) = Table!BindOutcome(txn[w])
    BY DEF V!BindOutcome, Table!BindOutcome
  <2>3. Table!Return(w, Table!BindOutcome(txn[w]))
    BY <1>2, <2>1, <2>2, Returned DEF V!BindWrite
  <2>4. Table!Release(w) /\ UNCHANGED <<events, DiskEvents>>
    BY <1>2 DEF V!BindWrite, V!Release, Table!Release, V!NoTxn, Table!NoTxn, DiskEvents
  <2>5. QED
    BY <1>2, <2>2, <2>3, <2>4 DEF V!BindWrite, Table!BindWrite
<1>3. ASSUME NEW b, NEW i, NEW k, V!AppendRead(w, b, i, k) PROVE Table!AppendRead(w, b, i, k)
  <2>1. V!NextRow(events, b, i, k) = Table!NextRow(events, b, i, k)
    BY DEF V!NextRow, Table!NextRow, V!LastSeq, Table!LastSeq, V!LastHash, Table!LastHash,
           V!GenesisPrevHash, Table!GenesisPrevHash, V!ComputeRowHash, Table!ComputeRowHash
  <2>2. QED
    BY <1>3, <2>1
       DEF V!AppendRead, Table!AppendRead, V!Idle, Table!Idle, V!NoTxn, Table!NoTxn, V!LockFree,
           Table!LockFree, V!tables, Table!tables, DiskEvents, Calls
<1>4. ASSUME V!AppendCommit(w) PROVE Table!AppendCommit(w)
  <2>1. Table!Return(w, IF Table!SeqTaken(txn[w].row.seq) THEN "conflict" ELSE "stored")
    BY <1>4, Returned DEF V!AppendCommit, V!SeqTaken, Table!SeqTaken, Call
  <2>2. Table!Release(w) /\ UNCHANGED <<pins, DiskEvents>>
    BY <1>4 DEF V!AppendCommit, V!Release, Table!Release, V!NoTxn, Table!NoTxn, DiskEvents
  <2>3. QED
    BY <1>4, <2>1, <2>2 DEF V!AppendCommit, Table!AppendCommit, V!SeqTaken, Table!SeqTaken
<1>5. ASSUME V!WriteFails(w) PROVE Table!WriteFails(w)
  <2>1. Table!Return(w, "error")
    BY <1>5, Returned DEF V!WriteFails, Call
  <2>2. QED
    BY <1>5, <2>1 DEF V!WriteFails, Table!WriteFails, V!Release, Table!Release, V!NoTxn, Table!NoTxn,
                      V!tables, Table!tables, DiskEvents
<1>6. ASSUME NEW s, NEW c, V!RecordIncident(w, s, c) PROVE Table!RecordFails(w)
  <2>1. Table!Return(w, "error")
    BY <1>6, Returned DEF V!RecordIncident, Call
  <2>2. QED
    BY <1>6, <2>1 DEF V!RecordIncident, Table!RecordFails, V!Idle, Table!Idle, V!NoTxn, Table!NoTxn,
                      Table!tables, DiskEvents
<1>7. ASSUME V!RecordFails(w) PROVE Table!RecordFails(w)
  <2>1. Table!Return(w, "error")
    BY <1>7, Returned DEF V!RecordFails, Call
  <2>2. QED
    BY <1>7, <2>1 DEF V!RecordFails, Table!RecordFails, V!Idle, Table!Idle, V!NoTxn, Table!NoTxn,
                      V!tables, Table!tables, DiskEvents
<1>8. QED
  BY <1>1, <1>2, <1>3, <1>4, <1>5, <1>6, <1>7

\* A failure of the vault is one of the table, the process's and the power's included.
LEMMA FailuresMap ==
  /\ V!Crash => Table!Crash
  /\ V!PowerLoss => Table!PowerLoss
  /\ V!Checkpoint => Table!Checkpoint
<1>1. V!Restart => Table!Restart
  BY DEF V!Restart, Table!Restart, V!NoTxn, Table!NoTxn, Calls, Call
<1>2. QED
  BY <1>1 DEF V!Crash, Table!Crash, V!PowerLoss, Table!PowerLoss, V!Checkpoint, Table!Checkpoint,
              V!tables, Table!tables, DiskEvents, Calls

\* The handlers use the events and the keys only through the vault's operations.
LEMMA StepUsesTable ==
  ASSUME JobsInv, [Next]_vars
  PROVE  [Table!Next]_(Table!vars)
<1>1. ASSUME NEW w \in Workers, Bind(w) PROVE Table!Next
  <2>1. job[w].request \in Requests /\ Signed(job[w].request)
    BY <1>1 DEF Bind, JobsInv, Jobs
  <2>2. job[w].request.ident \in Identities /\ job[w].request.key \in Keys
    BY <2>1, IngestAssumption DEF Signed
  <2>3. Table!BindRead(w, job[w].request.ident, job[w].request.key)
    BY <1>1, OpsMap DEF Bind, JobsInv
  <2>4. QED
    BY <2>2, <2>3 DEF Table!Next, Table!WorkerStep
<1>2. ASSUME NEW w \in Workers, Bound(w) PROVE Table!Next
  BY <1>2, OpsMap DEF Bound, JobsInv, Table!Next, Table!WorkerStep
<1>3. ASSUME NEW w \in Workers, Append_(w) PROVE Table!Next
  <2> DEFINE r == job[w].request
  <2>1. r \in Requests
    BY <1>3 DEF Append_, JobsInv, Jobs
  <2>2. CASE Signed(r)
    <3>1. r.ident \in Identities /\ r.key \in Keys
      BY <2>1, <2>2, IngestAssumption DEF Signed
    <3>2. Table!AppendRead(w, r, r.ident, r.key)
      BY <1>3, <2>2, OpsMap DEF Append_, JobsInv
    <3>3. QED
      BY <2>1, <3>1, <3>2 DEF Table!Next, Table!WorkerStep
  <2>3. CASE ~Signed(r)
    <3>1. Table!AppendRead(w, r, Nobody, NoKey)
      BY <1>3, <2>3, OpsMap DEF Append_, JobsInv
    <3>2. QED
      BY <2>1, <3>1 DEF Table!Next, Table!WorkerStep
  <2>4. QED
    BY <2>2, <2>3
<1>4. ASSUME NEW w \in Workers, Store(w) PROVE Table!Next
  BY <1>4, OpsMap DEF Store, JobsInv, Table!Next, Table!WorkerStep
<1>5. ASSUME NEW w \in Workers, NEW s \in todo[w], Record(w, s) PROVE Table!Next
  BY <1>5, OpsMap DEF Record, JobsInv, Table!Next, Table!WorkerStep
<1>6. ASSUME NEW w \in Workers, Fail(w) \/ RecordFails(w) PROVE Table!Next
  BY <1>6, OpsMap DEF Fail, RecordFails, JobsInv, Table!Next, Table!WorkerStep
<1>7. CASE Crash \/ PowerLoss \/ Checkpoint
  BY <1>7, FailuresMap DEF Crash, PowerLoss, Checkpoint, Table!Next
<1>8. CASE UNCHANGED vaultVars
  BY <1>8 DEF vaultVars, Table!vars, DiskEvents, Calls
<1>9. QED
  BY <1>1, <1>2, <1>3, <1>4, <1>5, <1>6, <1>7, <1>8
     DEF Next, Work, Receive, Publish, Observe, ObserveFails, Announce, Reply, vars

----------------------------------------------------------------------------
(* The walk.                                                               *)

\* What the vault's operations answer.
LEMMA Answers ==
  ASSUME result \in [Workers -> V!Results], NEW w \in Workers,
         \/ Bind(w) \/ Bound(w) \/ Append_(w) \/ Store(w) \/ Fail(w) \/ RecordFails(w)
         \/ \E s \in todo[w] : Record(w, s)
  PROVE  result' \in [Workers -> V!Results]
<1>1. CASE Bind(w)
  BY <1>1 DEF Bind, V!BindRead
<1>2. CASE Bound(w)
  <2>1. V!BindOutcome(txn[w]) \in V!Results
    BY DEF V!BindOutcome, V!Results
  <2>2. QED
    BY <1>2, <2>1 DEF Bound, V!BindWrite, V!Return
<1>3. CASE Append_(w)
  BY <1>3 DEF Append_, V!AppendRead
<1>4. CASE Store(w)
  BY <1>4 DEF Store, V!AppendCommit, V!Return, V!Results
<1>5. CASE Fail(w) \/ RecordFails(w)
  BY <1>5 DEF Fail, RecordFails, V!WriteFails, V!RecordFails, V!Return, V!Results
<1>6. CASE \E s \in todo[w] : Record(w, s)
  BY <1>6 DEF Record, V!RecordIncident, V!Return, V!Results
<1>7. QED
  BY <1>1, <1>2, <1>3, <1>4, <1>5, <1>6

\* One worker's step leaves the others' jobs as they were.
Others(w) ==
  \A v \in Workers \ {w} : pc'[v] = pc[v] /\ job'[v] = job[v] /\ txn'[v] = txn[v]

JobOf(w) ==
  /\ pc[w] # "idle" => job[w] \in Jobs
  /\ pc[w] \in {"bind", "bound"} => Signed(job[w].request)
  /\ pc[w] = "bound" => /\ txn[w].op = "bind"
                        /\ txn[w].ident = job[w].request.ident
                        /\ txn[w].key = job[w].request.key
  /\ pc[w] = "store" =>
       /\ txn[w].op = "append"
       /\ txn[w].row.signer = IF Signed(job[w].request) THEN job[w].request.ident ELSE Nobody
       /\ txn[w].row.pubkey = IF Signed(job[w].request) THEN job[w].request.key ELSE NoKey
       /\ txn[w].row.body = job[w].request

\* A step that leaves the other workers' jobs alone has to answer for its own worker only.
LEMMA JobsByWorker ==
  ASSUME JobsInv, NEW w \in Workers, Others(w), JobOf(w)',
         pc' \in [Workers -> Steps], job' \in [Workers -> Jobs \union {NoJob}],
         result' \in [Workers -> V!Results]
  PROVE  JobsInv'
<1>1. \A v \in Workers : JobOf(v)
  BY DEF JobsInv, JobOf
<1>2. \A v \in Workers \ {w} : JobOf(v)'
  BY <1>1 DEF Others, JobOf
<1>3. \A v \in Workers : JobOf(v)'
  BY <1>2
<1>4. QED
  BY <1>3 DEF JobsInv, JobOf

\* A worker that ends its walk holds no job any more.
LEMMA Finished ==
  ASSUME JobsInv, Table!TypeOK, NEW w \in Workers, Finish(w), UNCHANGED txn \/ V!Release(w),
         result' \in [Workers -> V!Results]
  PROVE  JobsInv'
<1>1. Others(w) /\ pc' \in [Workers -> Steps] /\ job' \in [Workers -> Jobs \union {NoJob}]
      /\ pc'[w] = "idle"
  BY DEF Finish, Goto, V!Release, JobsInv, Others, Steps, Table!TypeOK
<1>2. JobOf(w)'
  BY <1>1 DEF JobOf
<1>3. QED
  BY <1>1, <1>2, JobsByWorker

\* Each step of the walk writes what the request in its worker's hands says.
LEMMA JobsKept ==
  ASSUME JobsInv, Table!TypeOK, [Next]_vars
  PROVE  JobsInv'
<1> USE DEF Goto
<1>1. ASSUME NEW w \in Workers, NEW r \in Requests, Receive(w, r) PROVE JobsInv'
  <2>1. CASE Refused(r)
    BY <1>1, <2>1 DEF Receive, JobsInv, vaultVars
  <2>2. CASE ~Refused(r)
    <3>1. /\ pc' = [pc EXCEPT ![w] = IF Signed(r) THEN "bind" ELSE "append"]
          /\ job' = [job EXCEPT ![w] = [id |-> 0, request |-> r]] /\ UNCHANGED vaultVars
      BY <1>1, <2>2 DEF Receive
    <3>2. Others(w) /\ pc' \in [Workers -> Steps] /\ job' \in [Workers -> Jobs \union {NoJob}]
          /\ result' \in [Workers -> V!Results]
      BY <3>1 DEF JobsInv, Others, Steps, Jobs, vaultVars
    <3>3. JobOf(w)'
      BY <3>1 DEF JobsInv, JobOf, Jobs
    <3>4. QED
      BY <3>2, <3>3, JobsByWorker
  <2>3. QED
    BY <2>1, <2>2
<1>2. ASSUME NEW w \in Workers, Bind(w) PROVE JobsInv'
  <2>1. /\ pc[w] = "bind" /\ pc' = [pc EXCEPT ![w] = "bound"] /\ UNCHANGED job
        /\ txn' = [txn EXCEPT ![w] = [op |-> "bind", ident |-> job[w].request.ident,
                                      key |-> job[w].request.key,
                                      found |-> pins[job[w].request.ident]]]
    BY <1>2 DEF Bind, V!BindRead
  <2>2. Others(w) /\ pc' \in [Workers -> Steps] /\ job' \in [Workers -> Jobs \union {NoJob}]
    BY <2>1 DEF JobsInv, Others, Steps, Table!TypeOK
  <2>3. JobOf(w)'
    BY <2>1 DEF JobsInv, JobOf, Table!TypeOK
  <2>4. QED
    BY <1>2, <2>2, <2>3, JobsByWorker, Answers DEF JobsInv
<1>3. ASSUME NEW w \in Workers, Bound(w) PROVE JobsInv'
  <2>1. V!Release(w) /\ result' \in [Workers -> V!Results]
    BY <1>3, Answers DEF Bound, V!BindWrite, JobsInv
  <2>2. CASE Finish(w)
    BY <2>1, <2>2, Finished
  <2>3. CASE pc' = [pc EXCEPT ![w] = "append"] /\ UNCHANGED job
    <3>1. Others(w) /\ pc' \in [Workers -> Steps] /\ job' \in [Workers -> Jobs \union {NoJob}]
      BY <2>1, <2>3 DEF JobsInv, Others, Steps, Table!TypeOK, V!Release
    <3>2. JobOf(w)'
      BY <1>3, <2>3 DEF Bound, JobsInv, JobOf
    <3>3. QED
      BY <2>1, <3>1, <3>2, JobsByWorker
  <2>4. QED
    BY <1>3, <2>2, <2>3 DEF Bound
<1>4. ASSUME NEW w \in Workers, Append_(w) PROVE JobsInv'
  <2> DEFINE r == job[w].request
             row == V!NextRow(events, r, IF Signed(r) THEN r.ident ELSE Nobody,
                              IF Signed(r) THEN r.key ELSE NoKey)
  <2>1. /\ pc[w] = "append" /\ pc' = [pc EXCEPT ![w] = "store"] /\ UNCHANGED job
        /\ txn' = [txn EXCEPT ![w] = [op |-> "append", row |-> row]]
    BY <1>4 DEF Append_, V!AppendRead
  <2>2. /\ row.signer = IF Signed(r) THEN r.ident ELSE Nobody
        /\ row.pubkey = IF Signed(r) THEN r.key ELSE NoKey
        /\ row.body = r
    BY DEF V!NextRow
  <2> HIDE DEF row
  <2>3. Others(w) /\ pc' \in [Workers -> Steps] /\ job' \in [Workers -> Jobs \union {NoJob}]
    BY <2>1 DEF JobsInv, Others, Steps, Table!TypeOK
  <2>4. JobOf(w)'
    BY <2>1, <2>2 DEF JobsInv, JobOf, Table!TypeOK
  <2>5. QED
    BY <1>4, <2>3, <2>4, JobsByWorker, Answers DEF JobsInv
<1>5. ASSUME NEW w \in Workers, Store(w) PROVE JobsInv'
  <2>1. V!Release(w) /\ result' \in [Workers -> V!Results] /\ pc[w] = "store"
    BY <1>5, Answers DEF Store, V!AppendCommit, JobsInv
  <2>2. CASE Finish(w)
    BY <2>1, <2>2, Finished
  <2>3. CASE pc' = [pc EXCEPT ![w] = "publish"] /\ job' = [job EXCEPT ![w].id = txn[w].row.seq]
    <3>1. job[w] \in Jobs /\ txn[w].row.seq \in Nat
      <4>1. job[w] \in Jobs /\ txn[w].op = "append"
        BY <2>1 DEF JobsInv
      <4>2. txn[w].row \in Table!Row
        BY <4>1 DEF Table!TypeOK, Table!NoTxn, Table!BindTxn, Table!AppendTxn
      <4>3. QED
        BY <4>1, <4>2 DEF Table!Row
    <3>2. job'[w] \in Jobs /\ job' \in [Workers -> Jobs \union {NoJob}]
      BY <2>3, <3>1 DEF JobsInv, Jobs
    <3>3. Others(w) /\ pc' \in [Workers -> Steps]
      BY <2>1, <2>3 DEF JobsInv, Others, Steps, Table!TypeOK, V!Release
    <3>4. JobOf(w)'
      BY <2>3, <3>2 DEF JobsInv, JobOf
    <3>5. QED
      BY <2>1, <3>2, <3>3, <3>4, JobsByWorker
  <2>4. QED
    BY <1>5, <2>2, <2>3 DEF Store
<1>6. ASSUME NEW w \in Workers, Fail(w) PROVE JobsInv'
  BY <1>6, Answers, Finished DEF Fail, V!WriteFails, JobsInv
<1>7. ASSUME NEW w \in Workers, RecordFails(w) PROVE JobsInv'
  BY <1>7, Answers, Finished DEF RecordFails, V!RecordFails, JobsInv
<1>8. ASSUME NEW w \in Workers, Reply(w) \/ ObserveFails(w) PROVE JobsInv'
  BY <1>8, Finished DEF Reply, ObserveFails, vaultVars, JobsInv
<1>9. ASSUME NEW w \in Workers, Publish(w) \/ Observe(w) \/ Announce(w)
      PROVE  JobsInv'
  <2>1. /\ pc[w] # "idle" /\ pc'[w] \in {"observe", "record"} /\ pc' \in [Workers -> Steps]
        /\ \A v \in Workers \ {w} : pc'[v] = pc[v]
        /\ UNCHANGED <<vaultVars, job>>
    BY <1>9 DEF Publish, Observe, Announce, JobsInv, Steps
  <2>2. Others(w) /\ JobOf(w)'
    BY <2>1 DEF Others, JobOf, JobsInv, vaultVars
  <2>3. QED
    BY <2>1, <2>2, JobsByWorker DEF JobsInv, vaultVars
<1>10. ASSUME NEW w \in Workers, NEW s \in todo[w], Record(w, s) PROVE JobsInv'
  <2>1. /\ pc[w] = "record" /\ pc'[w] \in {"record", "announce"} /\ pc' \in [Workers -> Steps]
        /\ \A v \in Workers \ {w} : pc'[v] = pc[v]
        /\ UNCHANGED <<txn, job>>
    BY <1>10 DEF Record, V!RecordIncident, JobsInv, Steps
  <2>2. Others(w) /\ JobOf(w)'
    BY <2>1 DEF Others, JobOf, JobsInv
  <2>3. QED
    BY <1>10, <2>1, <2>2, JobsByWorker, Answers DEF JobsInv
<1>11. CASE Crash \/ PowerLoss
  <2>1. /\ pc' = [v \in Workers |-> "idle"] /\ job' = [v \in Workers |-> NoJob]
        /\ result' = [v \in Workers |-> "none"]
    BY <1>11 DEF Crash, PowerLoss, Restart, V!Crash, V!PowerLoss, V!Restart
  <2>2. QED
    BY <2>1 DEF JobsInv, Steps, V!Results
<1>12. CASE Checkpoint \/ UNCHANGED vars
  BY <1>12 DEF Checkpoint, V!Checkpoint, JobsInv, workerVars, vars, vaultVars
<1>13. QED
  BY <1>1, <1>2, <1>3, <1>4, <1>5, <1>6, <1>7, <1>8, <1>9, <1>10, <1>11, <1>12 DEF Next, Work

----------------------------------------------------------------------------
(* What a step of one worker does to the others, and to the tables.        *)

Step(w) == (\E r \in Requests : Receive(w, r)) \/ Work(w) \/ Fail(w) \/ ObserveFails(w) \/ RecordFails(w)

\* A worker's step leaves the other workers where they are.
LEMMA Aside ==
  ASSUME JobsInv, NEW w \in Workers, Step(w)
  PROVE  \A v \in Workers \ {w} : pc'[v] = pc[v] /\ job'[v] = job[v]
BY DEF Step, Work, Receive, Bind, Bound, Append_, Store, Publish, Observe, Record, Announce, Reply,
       Fail, ObserveFails, RecordFails, Finish, Goto, JobsInv

\* What a store commits is a row of the event table.
LEMMA StoredRow ==
  ASSUME JobsInv, VaultOK, NEW w \in Workers, Store(w)
  PROVE  txn[w].row \in Table!Row /\ events \in Seq(Table!Row)
<1>1. txn[w].op = "append"
  BY DEF Store, JobsInv
<1>2. txn[w].row \in Table!Row
  BY <1>1 DEF VaultOK, Table!TypeOK, Table!NoTxn, Table!BindTxn, Table!AppendTxn
<1>3. QED
  BY <1>2 DEF VaultOK, Table!TypeOK

\* A worker's step adds at most the row it was about to store, and pins in `bind_key` only.
LEMMA TableGrows ==
  ASSUME JobsInv, VaultOK, NEW w \in Workers, Step(w)
  PROVE  /\ UNCHANGED disk
         /\ UNCHANGED events \/ (Store(w) /\ events' = Append(events, txn[w].row))
         /\ UNCHANGED pins \/ Bound(w)
         /\ events' \in Seq(Table!Row) /\ Len(events) \in Nat /\ Len(events)' \in Nat
         /\ Len(events) <= Len(events)'
<1>1. UNCHANGED disk /\ (UNCHANGED pins \/ Bound(w))
  BY DEF Step, Work, Receive, Bind, Bound, Append_, Store, Publish, Observe, Record, Announce, Reply,
         Fail, ObserveFails, RecordFails, V!BindRead, V!BindWrite, V!AppendRead, V!AppendCommit, V!WriteFails,
         V!RecordIncident, V!RecordFails, V!tables, vaultVars
<1>2. UNCHANGED events \/ (Store(w) /\ events' = Append(events, txn[w].row))
  BY DEF Step, Work, Receive, Bind, Bound, Append_, Store, Publish, Observe, Record, Announce, Reply,
         Fail, ObserveFails, RecordFails, V!BindRead, V!BindWrite, V!AppendRead, V!AppendCommit, V!WriteFails,
         V!RecordIncident, V!RecordFails, V!tables, vaultVars
<1>3. events \in Seq(Table!Row) /\ Len(events) \in Nat
  BY LenProperties DEF VaultOK, Table!TypeOK
<1>4. ASSUME Store(w) PROVE txn[w].row \in Table!Row
  BY <1>4, StoredRow
<1>5. QED
  BY <1>1, <1>2, <1>3, <1>4, AppendProperties

\* bind_key pins a key only where there is none, and goes on only under it.
LEMMA BoundPins ==
  ASSUME JobsInv, VaultOK, NEW w \in Workers, Bound(w)
  PROVE  /\ \A i \in Identities : pins[i] # NoKey => pins'[i] = pins[i]
         /\ pc'[w] = "append" => pins'[job[w].request.ident] = job[w].request.key
<1> DEFINE t == txn[w]
<1>1. /\ pc[w] = "bound" /\ t.op = "bind" /\ t.ident = job[w].request.ident
      /\ t.key = job[w].request.key
  BY DEF Bound, JobsInv
<1>2. t.ident \in Identities /\ t.key \in Keys /\ pins \in [Identities -> Keys \union {NoKey}]
      /\ pins[t.ident] = t.found
  BY <1>1 DEF VaultOK, Table!VaultInv, Table!ReadsCurrent, Table!TypeOK, Table!NoTxn,
              Table!BindTxn, Table!AppendTxn, Table!Pins
<1>3. /\ pins' = IF V!BindOutcome(t) = "bound-new" THEN [pins EXCEPT ![t.ident] = t.key] ELSE pins
      /\ result' = [result EXCEPT ![w] = V!BindOutcome(t)]
  BY DEF Bound, V!BindWrite, V!Return
<1> HIDE DEF t
<1>4. /\ V!BindOutcome(t) = "bound-new" => pins[t.ident] = NoKey
      /\ V!BindOutcome(t) = "bound-match" => pins[t.ident] = t.key
  BY <1>2, IngestAssumption DEF V!BindOutcome
<1>5. pc'[w] = "append" => V!BindOutcome(t) \in {"bound-new", "bound-match"}
  <2>1. result'[w] = V!BindOutcome(t)
    BY <1>3 DEF JobsInv
  <2>2. QED
    BY <2>1 DEF Bound, Finish, Goto, JobsInv
<1>6. QED
  BY <1>1, <1>2, <1>3, <1>4, <1>5

\* The row's seq is its place in the table.
LEMMA StoredAtEnd ==
  ASSUME JobsInv, VaultOK, NEW w \in Workers, Store(w), pc'[w] = "publish"
  PROVE  /\ job'[w].id \in 1..Len(events')
         /\ events' = Append(events, txn[w].row)
         /\ job'[w].id = Len(events) + 1 /\ job'[w].request = job[w].request
         /\ events' \in Seq(Table!Row) /\ Len(events') = Len(events) + 1
         /\ events'[Len(events) + 1] = txn[w].row /\ Len(events) \in Nat
<1>1. /\ txn[w].op = "append" /\ txn[w].row \in Table!Row /\ job[w] \in Jobs
  BY DEF Store, JobsInv, VaultOK, Table!TypeOK, Table!NoTxn, Table!BindTxn, Table!AppendTxn
<1>2. /\ txn[w].row.seq = Table!LastSeq(events) + 1
  <2>1. txn[w].row = Table!NextRow(events, txn[w].row.body, txn[w].row.signer, txn[w].row.pubkey)
    BY <1>1 DEF VaultOK, Table!VaultInv, Table!ReadsCurrent
  <2>2. QED
    BY <2>1 DEF Table!NextRow
<1>3. Table!LastSeq(events) = Len(events)
  <2>1. events \in Seq(Table!Row) /\ Table!VerifyChain(events)
    BY DEF VaultOK, Table!TypeOK, Table!VaultInv, Table!ChainVerifies
  <2>2. QED
    BY <2>1, Table!LastSeqIsLength, TableAssumption
<1>4. result'[w] = "stored" /\ job' = [job EXCEPT ![w].id = txn[w].row.seq]
  BY DEF Store, Finish, Goto, JobsInv
<1>5. events' = Append(events, txn[w].row)
  BY <1>4 DEF Store, V!AppendCommit, V!Return, JobsInv
<1>6. /\ Len(events') = Len(events) + 1 /\ Len(events) \in Nat /\ events' \in Seq(Table!Row)
      /\ events'[Len(events) + 1] = txn[w].row
  BY <1>1, <1>5, AppendProperties, LenProperties DEF VaultOK, Table!TypeOK
<1>7. job'[w].id = Len(events) + 1 /\ job'[w].request = job[w].request
  BY <1>1, <1>2, <1>3, <1>4 DEF JobsInv, Jobs
<1>8. job'[w].id \in 1..Len(events')
  BY <1>6, <1>7
<1>9. QED
  BY <1>5, <1>6, <1>7, <1>8

----------------------------------------------------------------------------
(* The keys.                                                               *)

\* A pin, once there, stays, and with it what was signed under it.
LEMMA SignedStays ==
  ASSUME NEW rows, NEW book, NEW book2, SignedIn(rows, book), NoKey \notin Keys,
         \A i \in Identities : book[i] # NoKey => book2[i] = book[i]
  PROVE  SignedIn(rows, book2)
<1> SUFFICES ASSUME NEW i \in 1..Len(rows), rows[i].signer # Nobody
             PROVE  /\ rows[i].signer \in Identities /\ rows[i].pubkey \in Keys
                    /\ rows[i].pubkey = book2[rows[i].signer]
  BY DEF SignedIn
<1>1. /\ rows[i].signer \in Identities /\ rows[i].pubkey \in Keys
      /\ rows[i].pubkey = book[rows[i].signer]
  BY DEF SignedIn
<1>2. book[rows[i].signer] # NoKey
  BY <1>1
<1>3. QED
  BY <1>1, <1>2

\* A key in a row is its signer's pin, before and after any step.
LEMMA PinnedStep ==
  ASSUME JobsInv, VaultOK, PinnedInv, NEW w \in Workers, Step(w), JobsInv'
  PROVE  PinnedInv'
<1> DEFINE Pinned(v) == pc[v] \in {"append", "store"} /\ Signed(job[v].request) =>
                          pins[job[v].request.ident] = job[v].request.key
<1>1. \A i \in Identities : pins[i] # NoKey => pins'[i] = pins[i]
  BY TableGrows, BoundPins
<1>2. ASSUME NEW v \in Workers, pc[v] \in {"bind", "bound", "append", "store"}, Signed(job[v].request)
      PROVE  job[v].request.ident \in Identities /\ job[v].request.key \in Keys
  BY <1>2, IngestAssumption DEF JobsInv, Jobs, Signed
<1>3. SignedIn(disk.events, disk.pins)'
  BY TableGrows DEF PinnedInv
<1>4. SignedIn(events, pins)'
  <2>1. SignedIn(events, pins')
    BY <1>1, SignedStays, IngestAssumption DEF PinnedInv
  <2>2. CASE UNCHANGED events
    BY <2>1, <2>2
  <2>3. CASE Store(w) /\ events' = Append(events, txn[w].row)
    <3>1. /\ pc[w] = "store"
          /\ txn[w].row.signer = IF Signed(job[w].request) THEN job[w].request.ident ELSE Nobody
          /\ txn[w].row.pubkey = IF Signed(job[w].request) THEN job[w].request.key ELSE NoKey
      BY <2>3 DEF Store, JobsInv
    <3>2. UNCHANGED pins
      BY <2>3 DEF Store, V!AppendCommit
    <3>3. txn[w].row.signer # Nobody =>
            /\ txn[w].row.signer \in Identities /\ txn[w].row.pubkey \in Keys
            /\ txn[w].row.pubkey = pins'[txn[w].row.signer]
      BY <1>2, <3>1, <3>2 DEF PinnedInv
    <3>4. /\ Len(events') = Len(events) + 1 /\ Len(events) \in Nat
          /\ events'[Len(events) + 1] = txn[w].row
          /\ \A i \in 1..Len(events) : events'[i] = events[i]
      <4>1. events \in Seq(Table!Row) /\ txn[w].row \in Table!Row
        BY <2>3, StoredRow
      <4>2. QED
        BY <2>3, <4>1, AppendProperties, LenProperties
    <3>5. \A i \in 1..Len(events') : i \in 1..Len(events) \/ i = Len(events) + 1
      BY <3>4
    <3>6. QED
      BY <2>1, <3>3, <3>4, <3>5 DEF SignedIn
  <2>4. QED
    BY <2>2, <2>3, TableGrows
<1>5. \A v \in Workers \ {w} : Pinned(v)'
  <2> SUFFICES ASSUME NEW v \in Workers \ {w}, pc'[v] \in {"append", "store"}, Signed(job'[v].request)
               PROVE  pins'[job'[v].request.ident] = job'[v].request.key
    OBVIOUS
  <2>1. pc[v] \in {"append", "store"} /\ Signed(job[v].request) /\ job'[v] = job[v]
    BY Aside
  <2>2. pins[job[v].request.ident] = job[v].request.key
    BY <2>1 DEF PinnedInv
  <2>3. job[v].request.ident \in Identities /\ job[v].request.key \in Keys
    BY <1>2, <2>1
  <2>4. QED
    BY <1>1, <2>1, <2>2, <2>3, IngestAssumption
<1>6. Pinned(w)'
  <2> SUFFICES ASSUME pc'[w] \in {"append", "store"}, Signed(job'[w].request)
               PROVE  pins'[job'[w].request.ident] = job'[w].request.key
    OBVIOUS
  <2>1. CASE Bound(w)
    <3>1. pc'[w] = "append" /\ UNCHANGED job
      BY <2>1 DEF Bound, Finish, Goto, JobsInv
    <3>2. QED
      BY <2>1, <3>1, BoundPins
  <2>2. CASE Append_(w)
    BY <2>2 DEF Append_, V!AppendRead, V!tables, PinnedInv
  <2>3. CASE UNCHANGED <<pc, job, pins>>
    BY <2>3 DEF PinnedInv
  <2>4. CASE \E r \in Requests : Receive(w, r)
    <3>1. PICK r \in Requests : Receive(w, r)
      BY <2>4
    <3>2. CASE Refused(r)
      BY <2>3, <3>1, <3>2 DEF Receive, vaultVars
    <3>3. CASE ~Refused(r)
      BY <3>1, <3>3 DEF Receive, Goto, JobsInv
    <3>4. QED
      BY <3>2, <3>3
  <2>5. QED
    BY <2>1, <2>2, <2>4
       DEF Step, Work, Bind, Store, Publish, Observe, Record, Announce, Reply, Fail, ObserveFails, RecordFails,
           Finish, Goto, JobsInv
<1>7. QED
  BY <1>3, <1>4, <1>5, <1>6 DEF PinnedInv

----------------------------------------------------------------------------
(* Incidents, and what is published.                                       *)

\* No step of a worker takes an incident away.
LEMMA RecordedStays ==
  ASSUME IncidentsInv, NEW w \in Workers, Step(w)
  PROVE  \A s : V!Recorded(s) => V!Recorded(s)'
<1>1. CASE UNCHANGED incidents
  BY <1>1 DEF V!Recorded
<1>2. CASE \E x : incidents' = Append(incidents, x)
  <2>1. PICK x : incidents' = Append(incidents, x)
    BY <1>2
  <2>2. incidents \in Seq(V!Incident \union {x}) /\ x \in V!Incident \union {x}
    BY DEF IncidentsInv
  <2>3. /\ Len(incidents') = Len(incidents) + 1 /\ Len(incidents) \in Nat
        /\ \A i \in 1..Len(incidents) : incidents'[i] = incidents[i]
    BY <2>1, <2>2, AppendProperties, LenProperties
  <2>4. \A i \in 1..Len(incidents) : i \in 1..Len(incidents')
    BY <2>3
  <2>5. QED
    BY <2>3, <2>4 DEF V!Recorded
<1>3. QED
  BY <1>1, <1>2
     DEF Step, Work, Receive, Bind, Bound, Append_, Store, Publish, Observe, Record, Announce, Reply,
         Fail, ObserveFails, RecordFails, V!BindRead, V!BindWrite, V!AppendRead, V!AppendCommit, V!WriteFails,
         V!RecordIncident, V!RecordFails, V!tables, vaultVars

\* Only Publish publishes, and its event has been stored.
LEMMA PublishStep ==
  ASSUME JobsInv, VaultOK, IncidentsInv, PublishInv, NEW w \in Workers, Step(w)
  PROVE  PublishInv'
<1>1. Len(events) \in Nat /\ Len(events)' \in Nat /\ Len(events) <= Len(events)'
  BY TableGrows
<1>2. \A s : V!Recorded(s) => V!Recorded(s)'
  BY RecordedStays
<1>3. ASSUME NEW p \in published
      PROVE  /\ "event" \in DOMAIN p => p.event \in Nat
             /\ IF "event" \in DOMAIN p THEN p.event <= Len(events') ELSE V!Recorded(p.incident)'
  <2>1. CASE "event" \in DOMAIN p
    <3>1. p.event \in Nat /\ p.event <= Len(events)
      BY <2>1 DEF PublishInv, PublishedIsStored
    <3>2. QED
      BY <1>1, <2>1, <3>1
  <2>2. CASE "event" \notin DOMAIN p
    BY <1>2, <2>2 DEF PublishInv, PublishedIsStored
  <2>3. QED
    BY <2>1, <2>2
<1>4. \A v \in Workers \ {w} : pc'[v] = "publish" => job'[v].id \in 1..Len(events')
  <2> SUFFICES ASSUME NEW v \in Workers \ {w}, pc'[v] = "publish"
               PROVE  job'[v].id \in 1..Len(events')
    OBVIOUS
  <2>1. pc[v] = "publish" /\ job'[v] = job[v]
    BY Aside
  <2>2. job[v].id \in 1..Len(events)
    BY <2>1 DEF PublishInv
  <2>3. QED
    BY <1>1, <2>1, <2>2
<1>5. pc'[w] = "publish" => job'[w].id \in 1..Len(events')
  <2>1. pc'[w] = "publish" => Store(w) \/ UNCHANGED <<pc, job, events>>
    BY DEF Step, Work, Receive, Bind, Bound, Append_, Store, Publish, Observe, Record, Announce, Reply,
           Fail, ObserveFails, RecordFails, Finish, Goto, JobsInv, vaultVars
  <2>2. QED
    BY <2>1, StoredAtEnd DEF PublishInv
<1>6. \A p \in published' : \/ p \in published
                            \/ p = [event |-> job[w].id] /\ pc[w] = "publish"
                            \/ \E s : p = [incident |-> s] /\ V!Recorded(s)'
  <2>1. CASE Publish(w)
    BY <2>1 DEF Publish
  <2>2. CASE Announce(w)
    BY <1>2, <2>2 DEF Announce
  <2>3. CASE UNCHANGED published
    BY <2>3
  <2>4. QED
    BY <2>1, <2>2, <2>3
       DEF Step, Work, Receive, Bind, Bound, Append_, Store, Observe, Record, Reply, Fail, ObserveFails, RecordFails
<1>7. ASSUME NEW p, p = [event |-> job[w].id], pc[w] = "publish"
      PROVE  "event" \in DOMAIN p /\ p.event \in Nat /\ p.event <= Len(events')
  <2>1. job[w].id \in 1..Len(events) /\ p.event = job[w].id
    BY <1>7 DEF PublishInv
  <2>2. QED
    BY <1>1, <1>7, <2>1
<1>8. ASSUME NEW p, NEW s, p = [incident |-> s], V!Recorded(s)'
      PROVE  "event" \notin DOMAIN p /\ V!Recorded(p.incident)'
  <2>1. p.incident = s /\ "event" \notin DOMAIN p
    BY <1>8
  <2>2. QED
    BY <1>8, <2>1
<1>9. PublishedIsStored' /\ \A p \in published' : "event" \in DOMAIN p => p.event \in Nat
  BY <1>3, <1>6, <1>7, <1>8 DEF PublishedIsStored
<1>10. QED
  BY <1>4, <1>5, <1>9 DEF PublishInv

----------------------------------------------------------------------------
(* The signatures in hand.                                                 *)

\* A worker hands over what it has no longer: to the table or to the dropped.
LEMMA TodoByWorker ==
  ASSUME TodoInv, NEW w \in Workers, UNCHANGED seen,
         NEW mine \in SUBSET todo[w], todo' = [todo EXCEPT ![w] = mine],
         pc'[w] \notin {"record", "announce"} => mine = {},
         \A v \in Workers \ {w} : pc'[v] = pc[v],
         \A s : V!Recorded(s) => V!Recorded(s)', dropped \subseteq dropped',
         \A s \in todo[w] \ mine : V!Recorded(s)' \/ s \in dropped'
  PROVE  TodoInv'
<1>1. /\ todo' \in [Workers -> SUBSET seen'] /\ todo'[w] = mine
      /\ \A v \in Workers \ {w} : todo'[v] = todo[v]
  BY DEF TodoInv
<1>2. \A v \in Workers : todo'[v] \subseteq todo[v]
  BY <1>1
<1>3. \A u, v \in Workers : u # v => todo'[u] \intersect todo'[v] = {}
  BY <1>2 DEF TodoInv
<1>4. \A v \in Workers : pc'[v] \notin {"record", "announce"} => todo'[v] = {}
  BY <1>1 DEF TodoInv
<1>5. ASSUME NEW s \in seen'
      PROVE  V!Recorded(s)' \/ s \in dropped' \/ \E v \in Workers : s \in todo'[v]
  <2>1. V!Recorded(s) \/ s \in dropped \/ \E v \in Workers : s \in todo[v]
    BY DEF TodoInv
  <2>2. CASE \E v \in Workers : s \in todo[v]
    <3>1. PICK v \in Workers : s \in todo[v]
      BY <2>2
    <3>2. s \in todo'[v] \/ (v = w /\ s \in todo[w] \ mine)
      BY <1>1, <3>1
    <3>3. QED
      BY <3>1, <3>2
  <2>3. QED
    BY <2>1, <2>2
<1>6. QED
  BY <1>1, <1>3, <1>4, <1>5 DEF TodoInv

\* A signature comes into one worker's hands, and leaves them recorded or dropped.
LEMMA TodoStep ==
  ASSUME JobsInv, IncidentsInv, TodoInv, NEW w \in Workers, Step(w)
  PROVE  TodoInv'
<1>1. \A s : V!Recorded(s) => V!Recorded(s)'
  BY RecordedStays
<1>2. \A v \in Workers \ {w} : pc'[v] = pc[v]
  BY Aside
<1>3. todo[w] \subseteq seen /\ todo \in [Workers -> SUBSET seen]
  BY DEF TodoInv
<1>4. ASSUME UNCHANGED <<todo, seen, dropped>>, pc'[w] \in {"record", "announce"} \/ todo[w] = {}
      PROVE  TodoInv'
  <2>1. todo' = [todo EXCEPT ![w] = todo[w]]
    BY <1>3, <1>4
  <2>2. QED
    BY <1>1, <1>2, <1>4, <2>1, TodoByWorker
<1>5. CASE Bound(w) \/ Store(w) \/ Fail(w)
  <2>1. todo[w] = {} /\ UNCHANGED <<seen, dropped>>
    BY <1>5 DEF Bound, Store, Fail, TodoInv, detectorVars
  <2>2. UNCHANGED todo
    BY <1>3, <1>5, <2>1 DEF Bound, Store, Fail, Finish
  <2>3. QED
    BY <1>4, <2>1, <2>2
<1>6. CASE (\E r \in Requests : Receive(w, r)) \/ Bind(w) \/ Append_(w) \/ Publish(w)
  <2>1. todo[w] = {} /\ UNCHANGED <<todo, seen, dropped>>
    BY <1>6 DEF Receive, Bind, Append_, Publish, TodoInv, detectorVars
  <2>2. QED
    BY <1>4, <2>1
<1>7. CASE Observe(w)
  <2> DEFINE r == job[w].request
             new == NewSignatures(r.category, window'[r.category])
  <2>1. todo[w] = {} /\ pc'[w] = "record" /\ UNCHANGED <<dropped, incidents>>
    BY <1>7 DEF Observe, Goto, TodoInv, JobsInv, vaultVars
  <2>2. CASE r.category = NoCategory
    BY <1>4, <1>7, <2>1, <2>2 DEF Observe, detectorVars
  <2>3. CASE r.category # NoCategory
    <3>1. todo' = [todo EXCEPT ![w] = new] /\ seen' = seen \union new
      BY <1>7, <2>3 DEF Observe, observe
    <3>2. new \intersect seen = {}
      BY DEF NewSignatures
    <3> HIDE DEF new, r
    <3>3. todo' \in [Workers -> SUBSET seen'] /\ todo'[w] = new
          /\ \A v \in Workers \ {w} : todo'[v] = todo[v]
      BY <1>3, <3>1
    <3>4. \A u, v \in Workers : u # v => todo'[u] \intersect todo'[v] = {}
      BY <3>2, <3>3 DEF TodoInv
    <3>5. \A v \in Workers : pc'[v] \notin {"record", "announce"} => todo'[v] = {}
      BY <1>2, <2>1, <3>3 DEF TodoInv
    <3>6. \A s \in seen' : V!Recorded(s)' \/ s \in dropped' \/ \E v \in Workers : s \in todo'[v]
      <4>1. \A s \in new : s \in todo'[w]
        BY <3>3
      <4>2. \A s \in seen : V!Recorded(s)' \/ s \in dropped' \/ \E v \in Workers : s \in todo'[v]
        BY <1>1, <2>1, <3>3 DEF TodoInv
      <4>3. QED
        BY <3>1, <4>1, <4>2
    <3>7. QED
      BY <3>3, <3>4, <3>5, <3>6 DEF TodoInv
  <2>4. QED
    BY <2>2, <2>3
<1>8. ASSUME NEW s \in todo[w], Record(w, s) PROVE TodoInv'
  <2>1. /\ pc[w] = "record" /\ pc' \in [Workers -> Steps] /\ UNCHANGED <<seen, dropped>>
        /\ result'[w] = IF V!Recorded(s) THEN "duplicate" ELSE "recorded"
    BY <1>8 DEF Record, V!RecordIncident, V!Return, Goto, JobsInv, Steps, detectorVars
  <2>2. CASE V!Recorded(s)
    <3>1. todo' = [todo EXCEPT ![w] = todo[w] \ {s}] /\ UNCHANGED pc
      BY <1>8, <2>1, <2>2 DEF Record
    <3>2. QED
      BY <1>1, <1>2, <2>1, <2>2, <3>1, TodoByWorker
  <2>3. CASE ~V!Recorded(s)
    <3>1. pc'[w] = "announce" /\ UNCHANGED todo
      BY <1>8, <2>1, <2>3 DEF Record, Goto, JobsInv
    <3>2. QED
      BY <1>4, <2>1, <3>1
  <2>4. QED
    BY <2>2, <2>3
<1>9. CASE Announce(w)
  <2>1. PICK s \in todo[w] : V!Recorded(s) /\ todo' = [todo EXCEPT ![w] = todo[w] \ {s}]
    BY <1>9 DEF Announce
  <2>2. pc'[w] = "record" /\ UNCHANGED <<seen, dropped>>
    BY <1>9 DEF Announce, Goto, JobsInv, detectorVars
  <2>3. QED
    BY <1>1, <1>2, <2>1, <2>2, TodoByWorker
<1>10. CASE ObserveFails(w) \/ RecordFails(w) \/ Reply(w)
  <2>1. todo' = [todo EXCEPT ![w] = {}] /\ UNCHANGED seen /\ dropped \subseteq dropped'
        /\ todo[w] \subseteq dropped'
    <3>1. pc[w] = "observe" => todo[w] = {}
      BY DEF TodoInv
    <3>2. QED
      BY <1>10, <3>1 DEF ObserveFails, RecordFails, Reply, Finish, detectorVars
  <2>2. QED
    BY <1>1, <1>2, <2>1, TodoByWorker
<1>11. QED
  BY <1>5, <1>6, <1>7, <1>8, <1>9, <1>10 DEF Step, Work

----------------------------------------------------------------------------
(* The detector is shown what the vault holds.                             *)

\* A row is never changed, so what is true of some rows of a table is true of
\* them in a longer one.
LEMMA RowsStay ==
  ASSUME NEW rows, NEW more, Len(rows) \in Nat, Len(more) \in Nat, Len(rows) <= Len(more),
         \A i \in 1..Len(rows) : more[i] = rows[i]
  PROVE  /\ \A e : OfRow(e, rows) => OfRow(e, more)
         /\ \A j : Stored(j, rows) => Stored(j, more)
         /\ \A incs : SoundIn(incs, rows) => SoundIn(incs, more)
<1>1. \A i \in 1..Len(rows) : i \in 1..Len(more)
  OBVIOUS
<1>2. ASSUME NEW e, OfRow(e, rows) PROVE OfRow(e, more)
  BY <1>1, <1>2 DEF OfRow
<1>3. ASSUME NEW j, Stored(j, rows) PROVE Stored(j, more)
  BY <1>1, <1>3 DEF Stored
<1>4. ASSUME NEW incs, SoundIn(incs, rows), NEW n \in 1..Len(incs)
      PROVE  CitesSoundly(Rules[incs[n].signature.rule].detection, incs[n].cites, more)
  <2> DEFINE cites == incs[n].cites
             d == Rules[incs[n].signature.rule].detection
  <2>1. CitesSoundly(d, cites, rows)
    BY <1>4 DEF SoundIn
  <2> HIDE DEF cites, d
  <2>2. PICK tie \in [cites -> Uuids \union {0}] : Means(d, RowsCited(rows, cites, tie))
    BY <2>1 DEF CitesSoundly
  <2>3. cites \subseteq 1..Len(rows)
    BY <2>1 DEF CitesSoundly
  <2>4. RowsCited(more, cites, tie) = RowsCited(rows, cites, tie)
    BY <2>3 DEF RowsCited
  <2>5. QED
    BY <1>1, <2>2, <2>3, <2>4 DEF CitesSoundly, cites, d
<1>5. QED
  BY <1>2, <1>3, <1>4 DEF SoundIn

\* What a step stores comes after the rows there were.
LEMMA RowsGrow ==
  ASSUME JobsInv, VaultOK, NEW w \in Workers, Step(w)
  PROVE  /\ Len(events) \in Nat /\ Len(events') \in Nat /\ Len(events) <= Len(events')
         /\ \A i \in 1..Len(events) : events'[i] = events[i]
<1>1. CASE UNCHANGED events
  BY <1>1, TableGrows
<1>2. CASE Store(w) /\ events' = Append(events, txn[w].row)
  BY <1>2, TableGrows, StoredRow, AppendProperties
<1>3. QED
  BY <1>1, <1>2, TableGrows

\* A step that shows the detector nothing and puts nobody before it.
LEMMA FeedKept ==
  ASSUME JobsInv, VaultOK, FeedInv, NEW w \in Workers, Step(w), UNCHANGED feed,
         Waits(w)' => Waits(w) /\ UNCHANGED job
  PROVE  FeedInv'
<1>1. /\ \A e : OfRow(e, events) => OfRow(e, events')
      /\ \A j : Stored(j, events) => Stored(j, events')
  BY RowsGrow, RowsStay
<1>2. \A v \in Workers : Waits(v)' => Waits(v) /\ job'[v] = job[v]
  BY Aside DEF Waits
<1>3. \A e \in ToSet(feed') : OfRow(e, events')
  BY <1>1 DEF FeedInv
<1>4. \A v \in Workers : Waits(v)' =>
        Stored(job'[v], events') /\ \A e \in ToSet(feed') : e.id # job'[v].id
  BY <1>1, <1>2 DEF FeedInv
<1>5. \A u, v \in Workers : u # v /\ Waits(u)' /\ Waits(v)' => job'[u].id # job'[v].id
  BY <1>2 DEF FeedInv
<1>6. QED
  BY <1>3, <1>4, <1>5 DEF FeedInv

\* The row just stored is new to everybody.
LEMMA FeedStored ==
  ASSUME JobsInv, VaultOK, FeedInv, NEW w \in Workers, Store(w), pc'[w] = "publish"
  PROVE  FeedInv'
<1> DEFINE n == Len(events) + 1
<1>1. Step(w) /\ UNCHANGED feed
  BY DEF Step, Work, Store, detectorVars
<1>2. /\ \A e : OfRow(e, events) => OfRow(e, events')
      /\ \A j : Stored(j, events) => Stored(j, events')
  BY <1>1, RowsGrow, RowsStay
<1>3. /\ events' = Append(events, txn[w].row)
      /\ job'[w].id = n /\ job'[w].request = job[w].request
      /\ events' \in Seq(Table!Row) /\ Len(events') = n
      /\ events'[n] = txn[w].row /\ Len(events) \in Nat
  BY StoredAtEnd
<1>4. txn[w].row.body = job[w].request
  BY DEF Store, JobsInv
<1>5. \A v \in Workers \ {w} : Waits(v)' => Waits(v) /\ job'[v] = job[v]
  BY <1>1, Aside DEF Waits
<1>6. Stored(job'[w], events')
  <2>1. n \in 1..Len(events')
    BY <1>3
  <2> HIDE DEF n
  <2>2. QED
    BY <1>3, <1>4, <2>1 DEF Stored
<1>7. \A i \in 1..Len(events) : i # n
  BY <1>3
<1>8. \A e \in ToSet(feed) : e.id # n
  BY <1>7 DEF FeedInv, OfRow
<1>9. \A v \in Workers : Waits(v) => job[v].id # n
  BY <1>7 DEF FeedInv, Stored
<1> HIDE DEF n
<1>10. \A e \in ToSet(feed') : OfRow(e, events')
  BY <1>1, <1>2 DEF FeedInv
<1>11. \A v \in Workers : Waits(v)' =>
         Stored(job'[v], events') /\ \A e \in ToSet(feed') : e.id # job'[v].id
  <2>1. ASSUME NEW v \in Workers, Waits(v)'
        PROVE  Stored(job'[v], events') /\ \A e \in ToSet(feed') : e.id # job'[v].id
    <3>1. CASE v = w
      BY <1>1, <1>3, <1>6, <1>8, <3>1
    <3>2. CASE v # w
      <4>1. Waits(v) /\ job'[v] = job[v]
        BY <1>5, <2>1, <3>2
      <4>2. QED
        BY <1>1, <1>2, <4>1 DEF FeedInv
    <3>3. QED
      BY <3>1, <3>2
  <2>2. QED
    BY <2>1
<1>12. \A u, v \in Workers : u # v /\ Waits(u)' /\ Waits(v)' => job'[u].id # job'[v].id
  BY <1>3, <1>5, <1>9 DEF FeedInv
<1>13. QED
  BY <1>10, <1>11, <1>12 DEF FeedInv

\* What a worker shows the detector is its row, and no event has been of it.
LEMMA FeedObserved ==
  ASSUME JobsInv, VaultOK, DetectorInv, FeedInv, NEW w \in Workers, Observe(w),
         job[w].request.category # NoCategory
  PROVE  /\ DetectorInv' /\ FeedInv'
         /\ \E e : Fresh(e) /\ e.category \in Categories /\ observe(e.category, e)
<1> DEFINE r == job[w].request
           id == job[w].id
<1>1. r \in Requests /\ pc[w] = "observe" /\ pc' = [pc EXCEPT ![w] = "record"]
      /\ UNCHANGED <<job, events>>
  BY DEF Observe, Goto, JobsInv, Jobs, vaultVars
<1>2. r.category \in Categories /\ r.occurred_at \in Int
  BY <1>1, IngestAssumption
<1>3. PICK tie \in Ties(r.occurred_at) :
        observe(r.category, Event(r, id, r.occurred_at, tie))
  BY DEF Observe
<1> DEFINE e == Event(r, id, r.occurred_at, tie)
<1>4. /\ tie \in Uuids \union {0} /\ tie \in Int
      /\ \A f \in ToSet(feed) : f.occurred_at = r.occurred_at => f.tie # tie
  <2> HIDE DEF r, id
  <2> QED BY <1>3, TiesAreFree
<1>5. Waits(w) /\ Stored(job[w], events) /\ \A f \in ToSet(feed) : f.id # id
  BY <1>1 DEF FeedInv, Waits
<1>6. id \in 1..Len(events) /\ Len(events) \in Nat
  BY <1>5, LenProperties DEF Stored, VaultOK, Table!TypeOK
<1>7. e.id = id /\ e.tie = tie /\ e.occurred_at = r.occurred_at /\ e.category = r.category
  BY DEF Event
<1>8. OfRow(e, events)
  BY <1>4, <1>5, <1>6, <1>7 DEF OfRow, Stored
<1> HIDE DEF e, r, id
<1>9. Fresh(e)
  BY <1>2, <1>4, <1>5, <1>7 DEF Fresh
<1>10. DetectorInv' /\ ToSet(feed)' = ToSet(feed) \union {e}
  BY <1>2, <1>3, <1>7, <1>9, ObserveStands DEF e
<1>11. ToSet(feed') = ToSet(feed) \union {e}
  BY <1>10
<1>12. \A v \in Workers : Waits(v)' => v # w /\ Waits(v)
  BY <1>1 DEF Waits, JobsInv
<1>13. \A f \in ToSet(feed') : OfRow(f, events')
  BY <1>1, <1>8, <1>11 DEF FeedInv
<1>14. \A v \in Workers : Waits(v)' =>
         Stored(job'[v], events') /\ \A f \in ToSet(feed') : f.id # job'[v].id
  <2>1. ASSUME NEW v \in Workers, Waits(v)'
        PROVE  Stored(job[v], events) /\ \A f \in ToSet(feed') : f.id # job[v].id
    <3>1. v # w /\ Waits(v) /\ job[v].id # id
      BY <1>5, <1>12, <2>1 DEF FeedInv, id
    <3>2. QED
      BY <1>7, <1>11, <3>1 DEF FeedInv
  <2>2. QED
    BY <1>1, <2>1
<1>15. \A u, v \in Workers : u # v /\ Waits(u)' /\ Waits(v)' => job'[u].id # job'[v].id
  BY <1>1, <1>12 DEF FeedInv
<1>16. FeedInv'
  BY <1>13, <1>14, <1>15 DEF FeedInv
<1>17. Fresh(e) /\ e.category \in Categories /\ observe(e.category, e)
  BY <1>2, <1>3, <1>7, <1>9 DEF e
<1>18. QED
  BY <1>10, <1>16, <1>17

\* A worker shows the detector its own row, once.
LEMMA FeedStep ==
  ASSUME JobsInv, VaultOK, DetectorInv, FeedInv, NEW w \in Workers, Step(w)
  PROVE  DetectorInv' /\ FeedInv'
<1>1. CASE Observe(w) /\ job[w].request.category # NoCategory
  BY <1>1, FeedObserved
<1>2. CASE ~(Observe(w) /\ job[w].request.category # NoCategory)
  <2>1. UNCHANGED detectorVars
    BY <1>2 DEF Step, Work, Receive, Bind, Bound, Append_, Store, Publish, Observe, Record, Announce,
                Reply, Fail, ObserveFails, RecordFails
  <2>2. DetectorInv'
    BY <2>1 DEF detectorVars, DetectorInv
  <2>3. CASE Store(w) /\ pc'[w] = "publish"
    BY <2>2, <2>3, FeedStored
  <2>4. CASE ~(Store(w) /\ pc'[w] = "publish")
    <3>1. Waits(w)' => Waits(w) /\ UNCHANGED job
      BY <2>4 DEF Waits, Step, Work, Receive, Bind, Bound, Append_, Store, Publish, Observe, Record,
                  Announce, Reply, Fail, ObserveFails, RecordFails, Finish, Goto, JobsInv
    <3>2. QED
      BY <2>1, <2>2, <3>1, FeedKept DEF detectorVars
  <2>5. QED
    BY <2>3, <2>4
<1>3. QED
  BY <1>1, <1>2

\* Incidents are about rows: the events an alert is about are rows, with their UUIDs.
LEMMA AlertCitesRows ==
  ASSUME DetectorInv, FeedInv, NEW s \in seen
  PROVE  CitesSoundly(Rules[s.rule].detection, s.ids, events)
<1> DEFINE F == ToSet(feed)
           tie == [i \in s.ids |-> (CHOOSE e \in F : e.id = i).tie]
<1>1. PICK C \in SUBSET F : /\ s.ids = {e.id : e \in C}
                            /\ Means(Rules[s.rule].detection, C)
  BY DEF DetectorInv, Standing, Stands
<1>2. \A e, f \in F : e.id = f.id => e = f
  BY DEF DetectorInv, EventSet
<1>3. \A e \in F : OfRow(e, events)
  BY DEF FeedInv
<1> HIDE DEF F
<1>4. s.ids \subseteq 1..Len(events)
  BY <1>1, <1>3 DEF OfRow
<1>5. \A e \in C : tie[e.id] = e.tie /\ e.id \in s.ids
  BY <1>1, <1>2
<1>6. tie \in [s.ids -> Uuids \union {0}]
  <2>1. ASSUME NEW i \in s.ids PROVE tie[i] \in Uuids \union {0}
    <3>1. PICK e \in C : i = e.id
      BY <1>1
    <3>2. e \in F /\ tie[i] = e.tie
      BY <1>1, <1>5, <3>1
    <3>3. QED
      BY <1>3, <3>2 DEF OfRow
  <2>2. QED
    BY <2>1
<1>7. ASSUME NEW e \in C
      PROVE  e.id \in s.ids /\ e = Event(events[e.id].body, e.id, events[e.id].body.occurred_at, tie[e.id])
  BY <1>1, <1>3, <1>5 DEF OfRow
<1> HIDE DEF tie
<1>8. RowsCited(events, s.ids, tie) = C
  BY <1>1, <1>7 DEF RowsCited
<1>9. QED
  BY <1>1, <1>4, <1>6, <1>8 DEF CitesSoundly

\* An incident is recorded of rows that the detector has seen.
LEMMA SoundStep ==
  ASSUME JobsInv, VaultOK, IncidentsInv, DetectorInv, FeedInv, TodoInv, SoundInv,
         NEW w \in Workers, Step(w)
  PROVE  SoundInv'
<1>1. /\ SoundIn(incidents, events') /\ UNCHANGED disk
  BY RowsGrow, RowsStay, TableGrows DEF SoundInv
<1>2. CASE UNCHANGED incidents
  BY <1>1, <1>2 DEF SoundInv
<1>3. CASE \E s \in todo[w] : Record(w, s) /\ incidents' # incidents
  <2>1. PICK s \in todo[w] : Record(w, s) /\ incidents' # incidents
    BY <1>3
  <2> DEFINE inc == [signature |-> s, cites |-> s.ids]
  <2>2. incidents' = Append(incidents, inc) /\ UNCHANGED events
    BY <2>1 DEF Record, V!RecordIncident
  <2>3. CitesSoundly(Rules[inc.signature.rule].detection, inc.cites, events)
    BY AlertCitesRows DEF TodoInv
  <2>4. incidents \in Seq(V!Incident)
    BY DEF IncidentsInv
  <2>5. incidents \in Seq(V!Incident \union {inc})
    BY <2>4
  <2> HIDE DEF inc
  <2>6. /\ Len(incidents') = Len(incidents) + 1 /\ Len(incidents) \in Nat
        /\ \A i \in 1..Len(incidents) : incidents'[i] = incidents[i]
        /\ incidents'[Len(incidents) + 1] = inc
    BY <2>2, <2>5, AppendProperties, LenProperties
  <2>7. \A i \in 1..Len(incidents') : i \in 1..Len(incidents) \/ i = Len(incidents) + 1
    BY <2>6
  <2>8. SoundIn(incidents', events')
    BY <1>1, <2>2, <2>3, <2>6, <2>7 DEF SoundIn
  <2>9. QED
    BY <1>1, <2>8 DEF SoundInv
<1>4. QED
  BY <1>2, <1>3
     DEF Step, Work, Receive, Bind, Bound, Append_, Store, Publish, Observe, Announce, Reply,
         Fail, ObserveFails, RecordFails, V!BindRead, V!BindWrite, V!AppendRead, V!AppendCommit, V!WriteFails,
         V!RecordFails, V!tables, vaultVars

----------------------------------------------------------------------------
(* Types.                                                                  *)

\* What the detector has seen names a rule and rows within the bound.
LEMMA SeenTyped ==
  ASSUME VaultOK, DetectorInv, FeedInv, BoundInv
  PROVE  seen \subseteq Signatures
<1> SUFFICES ASSUME NEW s \in seen PROVE s \in Signatures
  OBVIOUS
<1>1. s = [rule |-> s.rule, ids |-> s.ids] /\ s.rule \in DOMAIN Rules
  BY DEF DetectorInv, Signature
<1>2. PICK C \in SUBSET ToSet(feed) : C # {} /\ s.ids = {e.id : e \in C}
  BY DEF DetectorInv, Standing, Stands
<1>3. \A e \in C : e.id \in 1..Len(events)
  BY <1>2 DEF FeedInv, OfRow
<1>4. 1..Len(events) \subseteq 1..MaxRequests
  <2>1. Len(events) \in Nat /\ Len(events) <= MaxRequests /\ MaxRequests \in Nat
    BY LenProperties, IngestAssumption DEF VaultOK, Table!TypeOK, BoundInv
  <2>2. QED
    BY <2>1
<1>5. s.ids \in SUBSET (1..MaxRequests) /\ s.ids # {}
  BY <1>2, <1>3, <1>4
<1>6. [rule |-> s.rule, ids |-> s.ids] \in Signatures
  BY <1>1, <1>5 DEF Signatures
<1>7. QED
  BY <1>1, <1>6

\* Only Record changes the incidents, and what it adds is a signature in hand.
LEMMA IncidentsStep ==
  ASSUME IncidentsInv, TodoInv, seen \subseteq Signatures, NEW w \in Workers, Step(w)
  PROVE  IncidentsInv'
<1>1. CASE UNCHANGED <<incidents, disk>>
  BY <1>1 DEF IncidentsInv
<1>2. CASE \E s \in todo[w] : Record(w, s) /\ incidents' # incidents
  <2>1. PICK s \in todo[w] : Record(w, s) /\ incidents' # incidents
    BY <1>2
  <2>2. UNCHANGED disk /\ incidents' = Append(incidents, [signature |-> s, cites |-> s.ids])
    BY <2>1 DEF Record, V!RecordIncident
  <2>3. s \in Signatures
    BY DEF TodoInv
  <2>4. s.ids \in SUBSET Nat
    <3>1. s.ids \in SUBSET (1..MaxRequests) /\ MaxRequests \in Nat
      BY <2>3, IngestAssumption DEF Signatures
    <3>2. QED
      BY <3>1
  <2>5. [signature |-> s, cites |-> s.ids] \in V!Incident
    BY <2>3, <2>4 DEF V!Incident
  <2>6. QED
    BY <2>2, <2>5, AppendProperties DEF IncidentsInv
<1>3. QED
  BY <1>1, <1>2
     DEF Step, Work, Receive, Bind, Bound, Append_, Store, Publish, Observe, Record, Announce, Reply,
         Fail, ObserveFails, RecordFails, V!BindRead, V!BindWrite, V!AppendRead, V!AppendCommit, V!WriteFails,
         V!RecordIncident, V!RecordFails, V!tables, vaultVars

\* A row is computed where there is room for it, and until it is stored nobody
\* else stores one.
LEMMA BoundStep ==
  ASSUME JobsInv, VaultOK, BoundInv, NEW w \in Workers, Step(w)
  PROVE  BoundInv'
<1>1. Len(events) \in Nat /\ MaxRequests \in Nat /\ txn \in [Workers -> {V!NoTxn} \union {txn[v] : v \in Workers}]
  BY TableGrows, IngestAssumption DEF VaultOK, Table!TypeOK
<1>2. CASE Store(w) /\ events' = Append(events, txn[w].row)
  <2>1. txn[w].op = "append" /\ V!Release(w)
    BY <1>2 DEF Store, JobsInv, V!AppendCommit
  <2>2. Len(events') = Len(events) + 1
    BY <1>2, StoredRow, AppendProperties
  <2>3. Len(events') <= MaxRequests
    BY <1>1, <2>1, <2>2 DEF BoundInv
  <2>4. ASSUME NEW v \in Workers PROVE txn'[v].op # "append"
    <3>1. CASE v = w
      BY <1>1, <2>1, <3>1 DEF V!Release, V!NoTxn
    <3>2. CASE v # w
      <4>1. txn'[v] = txn[v]
        BY <1>1, <2>1, <3>2 DEF V!Release
      <4>2. txn[w] # Table!NoTxn /\ (txn[v].op = "append" => txn[v] # Table!NoTxn)
        BY <2>1 DEF Table!NoTxn
      <4>3. QED
        BY <3>2, <4>1, <4>2 DEF VaultOK, Table!VaultInv, Table!LockHeld
    <3>3. QED
      BY <3>1, <3>2
  <2>5. QED
    BY <2>3, <2>4 DEF BoundInv
<1>3. CASE UNCHANGED events
  <2>1. ASSUME NEW v \in Workers, txn'[v].op = "append"
        PROVE  txn[v].op = "append" \/ Append_(w)
    <3>1. CASE UNCHANGED txn
      BY <2>1, <3>1
    <3>2. CASE V!Release(w)
      BY <1>1, <2>1, <3>2 DEF V!Release, V!NoTxn
    <3>3. CASE Bind(w)
      BY <1>1, <2>1, <3>3 DEF Bind, V!BindRead
    <3>4. QED
      BY <3>1, <3>2, <3>3
         DEF Step, Work, Receive, Bound, Store, Publish, Observe, Record, Announce, Reply, Fail,
             ObserveFails, RecordFails, V!BindWrite, V!AppendCommit, V!WriteFails, V!RecordIncident, V!RecordFails,
             vaultVars
  <2>2. Append_(w) => Len(events) < MaxRequests
    BY DEF Append_, V!AppendRead
  <2>3. QED
    BY <1>3, <2>1, <2>2 DEF BoundInv
<1>4. QED
  BY <1>2, <1>3, TableGrows

\* A worker takes up a request that has no row yet, and lays down all it has.
LEMMA HandsStep ==
  ASSUME JobsInv, VaultOK, HandsInv, NEW w \in Workers, Step(w)
  PROVE  HandsInv'
<1>1. Len(events) \in Nat /\ Len(events') \in Nat /\ Len(events) <= Len(events')
  BY TableGrows
<1>2. ASSUME NEW v \in Workers, UNCHANGED <<pc[v], job[v]>>
      PROVE  (pc'[v] = "idle" => job'[v] = NoJob) /\ (pc'[v] # "idle" => job'[v].id <= Len(events'))
  <2>1. CASE pc[v] = "idle"
    BY <1>2, <2>1 DEF HandsInv
  <2>2. CASE pc[v] # "idle"
    <3>1. job[v].id \in Nat /\ job[v].id <= Len(events)
      BY <2>2 DEF HandsInv, JobsInv, Jobs
    <3>2. QED
      BY <1>1, <1>2, <2>2, <3>1
  <2>3. QED
    BY <2>1, <2>2
<1>3. (pc'[w] = "idle" => job'[w] = NoJob) /\ (pc'[w] # "idle" => job'[w].id <= Len(events'))
  <2>1. CASE Finish(w)
    BY <2>1 DEF Finish, Goto, JobsInv
  <2>2. CASE \E r \in Requests : Receive(w, r)
    <3>1. PICK r \in Requests : Receive(w, r)
      BY <2>2
    <3>2. CASE Refused(r)
      BY <1>2, <3>1, <3>2 DEF Receive
    <3>3. CASE ~Refused(r)
      <4>1. pc'[w] \in {"bind", "append"} /\ job'[w].id = 0
        BY <3>1, <3>3 DEF Receive, Goto, JobsInv
      <4>2. QED
        BY <1>1, <4>1
    <3>4. QED
      BY <3>2, <3>3
  <2>3. CASE Store(w) /\ pc'[w] = "publish"
    <3>1. job'[w].id = Len(events')
      BY <2>3, StoredAtEnd
    <3>2. QED
      BY <1>1, <2>3, <3>1
  <2>4. CASE pc[w] # "idle" /\ pc'[w] # "idle" /\ UNCHANGED job
    <3>1. job[w].id \in Nat /\ job[w].id <= Len(events)
      BY <2>4 DEF HandsInv, JobsInv, Jobs
    <3>2. QED
      BY <1>1, <2>4, <3>1
  <2>5. QED
    BY <2>1, <2>2, <2>3, <2>4
       DEF Step, Work, Bind, Bound, Append_, Store, Publish, Observe, Record, Announce, Reply, Fail,
           ObserveFails, RecordFails, Goto, JobsInv
<1>4. QED
  BY <1>2, <1>3, Aside DEF HandsInv

\* What is told is a row or a signature in hand.
LEMMA SentStep ==
  ASSUME JobsInv, VaultOK, PublishInv, TodoInv, SentInv, seen \subseteq Signatures,
         NEW w \in Workers, Step(w)
  PROVE  SentInv'
<1>1. todo[w] \subseteq Signatures
  BY DEF TodoInv
<1>2. published' \subseteq [event : Nat \ {0}] \union [incident : Signatures]
  <2>1. CASE Publish(w)
    <3>1. job[w].id \in Nat \ {0}
      <4>1. job[w].id \in 1..Len(events) /\ Len(events) \in Nat
        BY <2>1, TableGrows DEF Publish, PublishInv
      <4>2. QED
        BY <4>1
    <3>2. QED
      BY <2>1, <3>1 DEF Publish, SentInv
  <2>2. CASE Announce(w)
    BY <1>1, <2>2 DEF Announce, SentInv
  <2>3. CASE UNCHANGED published
    BY <2>3 DEF SentInv
  <2>4. QED
    BY <2>1, <2>2, <2>3
       DEF Step, Work, Receive, Bind, Bound, Append_, Store, Observe, Record, Reply, Fail, ObserveFails, RecordFails
<1>3. dropped' \subseteq Signatures
  BY <1>1 DEF SentInv, Step, Work, Receive, Bind, Bound, Append_, Store, Publish, Observe, Record,
              Announce, Reply, Fail, ObserveFails, RecordFails
<1>4. received' \in 0..MaxRequests
  <2>1. UNCHANGED received \/ (received < MaxRequests /\ received' = received + 1)
    BY DEF Step, Work, Receive, Bind, Bound, Append_, Store, Publish, Observe, Record, Announce, Reply,
           Fail, ObserveFails, RecordFails
  <2>2. QED
    BY <2>1, IngestAssumption DEF SentInv
<1>5. QED
  BY <1>2, <1>3, <1>4 DEF SentInv

\* The types, from the parts of the invariant.
LEMMA TypesFollow == IngestInv => TypeOK
<1> SUFFICES ASSUME IngestInv PROVE TypeOK
  OBVIOUS
<1> USE DEF IngestInv
<1>1. V!TypeOK
  <2>1. /\ events \in Seq(Table!Row) /\ pins \in Table!Pins /\ lock \in Workers \union {Nobody}
        /\ txn \in [Workers -> {Table!NoTxn} \union Table!BindTxn \union Table!AppendTxn]
    BY DEF VaultOK, Table!TypeOK
  <2>2. /\ V!Row = Table!Row /\ V!Pins = Table!Pins /\ V!NoTxn = Table!NoTxn
        /\ V!BindTxn = Table!BindTxn
    BY DEF V!Row, Table!Row, V!Pins, Table!Pins, V!NoTxn, Table!NoTxn, V!BindTxn, Table!BindTxn,
           V!Digest, Table!Digest
  <2>3. V!AppendTxn = Table!AppendTxn
    BY <2>2 DEF V!AppendTxn, Table!AppendTxn
  <2>4. /\ incidents \in Seq(V!Incident) /\ result \in [Workers -> V!Results]
        /\ disk \in [events : Seq(Table!Row), pins : Table!Pins, incidents : Seq(V!Incident)]
    BY DEF IncidentsInv, JobsInv
  <2>5. QED
    BY <2>1, <2>2, <2>3, <2>4 DEF V!TypeOK
<1>2. DetectorTypeOK
  BY DetectorTypes
<1>3. pc \in [Workers -> Steps]
  BY DEF JobsInv
<1>4. ASSUME NEW w \in Workers
      PROVE  IF pc[w] = "idle" THEN job[w] = NoJob /\ todo[w] = {}
             ELSE job[w].id \in 0..Len(events) /\ job[w].request \in Requests /\ todo[w] \subseteq seen
  <2>1. CASE pc[w] = "idle"
    BY <2>1 DEF HandsInv, TodoInv
  <2>2. CASE pc[w] # "idle"
    <3>1. job[w].id \in Nat /\ job[w].id <= Len(events) /\ job[w].request \in Requests
      BY <2>2 DEF HandsInv, JobsInv, Jobs
    <3>2. job[w].id \in 0..Len(events)
      <4>1. Len(events) \in Nat
        BY LenProperties DEF VaultOK, Table!TypeOK
      <4>2. QED
        BY <3>1, <4>1
    <3>3. QED
      BY <2>2, <3>1, <3>2 DEF TodoInv
  <2>3. QED
    BY <2>1, <2>2
<1>5. published \subseteq [event : 1..Len(events)] \union [incident : Signatures]
  <2> SUFFICES ASSUME NEW p \in published, p \notin [incident : Signatures]
               PROVE  p \in [event : 1..Len(events)]
    OBVIOUS
  <2>1. p \in [event : Nat \ {0}]
    BY DEF SentInv
  <2>2. p.event \in Nat \ {0} /\ "event" \in DOMAIN p /\ p = [event |-> p.event]
    BY <2>1
  <2>3. p.event <= Len(events) /\ Len(events) \in Nat
    BY <2>2, LenProperties DEF PublishInv, PublishedIsStored, VaultOK, Table!TypeOK
  <2>4. p.event \in 1..Len(events)
    BY <2>2, <2>3
  <2>5. QED
    BY <2>2, <2>4
<1>6. dropped \subseteq Signatures /\ received \in 0..MaxRequests
  BY DEF SentInv
<1>7. QED
  BY <1>1, <1>2, <1>3, <1>4, <1>5, <1>6 DEF TypeOK

----------------------------------------------------------------------------
(* The process, and the whole invariant.                                   *)

\* The invariant holds at the start.
LEMMA InitIngest == Init => IngestInv
<1> SUFFICES ASSUME Init PROVE IngestInv
  OBVIOUS
<1>1. /\ events = <<>> /\ incidents = <<>> /\ seen = {} /\ published = {}
      /\ pc = [w \in Workers |-> "idle"] /\ job = [w \in Workers |-> NoJob]
      /\ todo = [w \in Workers |-> {}] /\ result = [w \in Workers |-> "none"]
      /\ disk.events = <<>> /\ disk.incidents = <<>>
  BY DEF Init, V!Init, DetectorInit
<1>2. <<>> \in Seq({}) /\ Len(<<>>) = 0
  BY EmptySeq
<1>3. Table!Init
  BY <1>1 DEF Init, V!Init, Table!Init, DiskEvents, Calls, Call, V!NoTxn, Table!NoTxn
<1>4. VaultOK
  <2>1. Table!TypeOK
    BY <1>3, EmptySeq DEF Table!Init, Table!TypeOK, Table!Pins, Table!Results
  <2>2. Table!VaultInv
    BY <1>3, TableAssumption, Table!VaultInvInit
  <2>3. QED
    BY <2>1, <2>2 DEF VaultOK
<1>5. JobsInv
  BY <1>1 DEF JobsInv, Steps, V!Results
<1>6. PinnedInv
  BY <1>1, <1>2 DEF PinnedInv, SignedIn
<1>7. IncidentsInv
  <2>1. <<>> \in Seq(V!Incident) /\ <<>> \in Seq(Table!Row)
    BY EmptySeq
  <2>2. [i \in Identities |-> NoKey] \in Table!Pins
    BY DEF Table!Pins
  <2>3. QED
    BY <2>1, <2>2 DEF IncidentsInv, Init, V!Init
<1>8. PublishInv /\ TodoInv
  BY <1>1 DEF PublishInv, PublishedIsStored, TodoInv
<1>9. DetectorInv
  BY InitDetector DEF Init
<1>10. FeedInv /\ SoundInv
  <2>1. feed = <<>> /\ ToSet(<<>>) = {}
    BY DEF Init, DetectorInit, ToSet
  <2>2. FeedInv
    BY <1>1, <2>1 DEF FeedInv, Waits
  <2>3. SoundInv
    BY <1>1, <1>2 DEF SoundInv, SoundIn
  <2>4. QED
    BY <2>2, <2>3
<1>11. BoundInv /\ HandsInv /\ SentInv
  <2>1. txn = [w \in Workers |-> V!NoTxn] /\ dropped = {} /\ received = 0 /\ MaxRequests \in Nat
    BY IngestAssumption DEF Init, V!Init
  <2>2. BoundInv
    BY <1>1, <1>2, <2>1 DEF BoundInv, V!NoTxn
  <2>3. HandsInv /\ SentInv
    BY <1>1, <2>1 DEF HandsInv, SentInv
  <2>4. QED
    BY <2>2, <2>3
<1>12. QED
  BY <1>4, <1>5, <1>6, <1>7, <1>8, <1>9, <1>10, <1>11 DEF IngestInv

\* The process stops: what the workers and the detector held is gone.
LEMMA StopKeeps ==
  ASSUME VaultOK, PinnedInv, IncidentsInv, SoundInv, BoundInv, SentInv, Crash \/ PowerLoss
  PROVE  /\ PinnedInv' /\ IncidentsInv' /\ PublishInv' /\ TodoInv'
         /\ DetectorInv' /\ FeedInv' /\ SoundInv' /\ BoundInv' /\ HandsInv' /\ SentInv'
<1>1. /\ pc' = [w \in Workers |-> "idle"] /\ todo' = [w \in Workers |-> {}]
      /\ seen' = {} /\ published' = {} /\ UNCHANGED disk
      /\ \/ UNCHANGED <<events, pins, incidents>>
         \/ events' = disk.events /\ pins' = disk.pins /\ incidents' = disk.incidents
  BY DEF Crash, PowerLoss, Restart, V!Crash, V!PowerLoss, V!tables
<1>2. PinnedInv' /\ IncidentsInv'
  BY <1>1 DEF PinnedInv, IncidentsInv
<1>3. PublishInv' /\ TodoInv'
  BY <1>1 DEF PublishInv, PublishedIsStored, TodoInv
<1>4. DetectorInv'
  <2>1. DetectorInit'
    BY DEF Crash, PowerLoss, Restart, DetectorInit
  <2>2. DetectorInit' => DetectorInv'
    BY InitDetector, PTL
  <2>3. QED
    BY <2>1, <2>2
<1>5. FeedInv'
  <2>1. feed' = <<>> /\ ToSet(<<>>) = {}
    BY DEF Crash, PowerLoss, Restart, ToSet
  <2>2. QED
    BY <1>1, <2>1 DEF FeedInv, Waits
<1>6. SoundInv'
  BY <1>1 DEF SoundInv
<1>7. BoundInv'
  <2>1. txn' = [w \in Workers |-> V!NoTxn]
    BY DEF Crash, PowerLoss, V!Crash, V!PowerLoss, V!Restart
  <2>2. Len(events') <= MaxRequests
    <3>1. Len(disk.events) <= Len(events) /\ Len(disk.events) \in Nat /\ Len(events) \in Nat
      BY LenProperties DEF VaultOK, Table!VaultInv, Table!DurablePast, Table!TypeOK, DiskEvents
    <3>2. QED
      BY <1>1, <3>1, IngestAssumption DEF BoundInv
  <2>3. QED
    BY <2>1, <2>2 DEF BoundInv, V!NoTxn
<1>8. HandsInv' /\ SentInv'
  <2>1. job' = [w \in Workers |-> NoJob] /\ dropped' = {} /\ UNCHANGED received
    BY DEF Crash, PowerLoss, Restart
  <2>2. QED
    BY <1>1, <2>1 DEF HandsInv, SentInv
<1>9. QED
  BY <1>2, <1>3, <1>4, <1>5, <1>6, <1>7, <1>8

\* Every step keeps it.
LEMMA IngestStep == IngestInv /\ [Next]_vars => IngestInv'
<1> SUFFICES ASSUME IngestInv, [Next]_vars PROVE IngestInv'
  OBVIOUS
<1>1. /\ VaultOK /\ JobsInv /\ PinnedInv /\ IncidentsInv /\ PublishInv /\ TodoInv
      /\ DetectorInv /\ FeedInv /\ SoundInv /\ BoundInv /\ HandsInv /\ SentInv
  BY DEF IngestInv
<1>2. VaultOK'
  <2>1. [Table!Next]_(Table!vars)
    BY <1>1, StepUsesTable
  <2>2. Table!TypeOK' /\ Table!VaultInv'
    BY <1>1, <2>1, TableAssumption, Table!VaultTypeStep, Table!VaultInvStep DEF VaultOK
  <2>3. QED
    BY <2>2 DEF VaultOK
<1>3. JobsInv'
  BY <1>1, JobsKept DEF VaultOK
<1>4. CASE \E w \in Workers : Step(w)
  <2> PICK w \in Workers : Step(w)
    BY <1>4
  <2> seen \subseteq Signatures
    BY <1>1, SeenTyped
  <2>1. PinnedInv' /\ IncidentsInv' /\ PublishInv' /\ TodoInv'
    BY <1>1, <1>3, PinnedStep, IncidentsStep, PublishStep, TodoStep
  <2>2. DetectorInv' /\ FeedInv' /\ SoundInv'
    BY <1>1, FeedStep, SoundStep
  <2>3. BoundInv' /\ HandsInv' /\ SentInv'
    BY <1>1, BoundStep, HandsStep, SentStep
  <2>4. QED
    BY <1>2, <1>3, <2>1, <2>2, <2>3 DEF IngestInv
<1>5. CASE Crash \/ PowerLoss
  BY <1>1, <1>2, <1>3, <1>5, StopKeeps DEF IngestInv
<1>6. CASE Checkpoint
  <2>1. /\ UNCHANGED <<events, pins, incidents, detectorVars, workerVars>>
        /\ disk' = [events |-> events, pins |-> pins, incidents |-> incidents] /\ UNCHANGED txn
    BY <1>6 DEF Checkpoint, V!Checkpoint, V!tables
  <2>2. PinnedInv' /\ IncidentsInv'
    BY <1>1, <2>1 DEF PinnedInv, SignedIn, IncidentsInv, workerVars, VaultOK, Table!TypeOK
  <2>3. PublishInv' /\ TodoInv'
    BY <1>1, <2>1 DEF PublishInv, PublishedIsStored, TodoInv, V!Recorded, workerVars, detectorVars
  <2>4. DetectorInv' /\ FeedInv' /\ SoundInv'
    BY <1>1, <2>1 DEF DetectorInv, FeedInv, Waits, SoundInv, workerVars, detectorVars
  <2>5. BoundInv' /\ HandsInv' /\ SentInv'
    BY <1>1, <2>1 DEF BoundInv, HandsInv, SentInv, workerVars
  <2>6. QED
    BY <1>2, <1>3, <2>2, <2>3, <2>4, <2>5 DEF IngestInv
<1>7. CASE UNCHANGED vars
  <2>1. UNCHANGED <<events, pins, incidents, disk, txn, detectorVars, workerVars>>
    BY <1>7 DEF vars, vaultVars
  <2>2. PinnedInv' /\ IncidentsInv' /\ PublishInv' /\ TodoInv'
    BY <1>1, <2>1 DEF PinnedInv, SignedIn, IncidentsInv, PublishInv, PublishedIsStored, TodoInv,
                      V!Recorded, workerVars, detectorVars
  <2>3. DetectorInv' /\ FeedInv' /\ SoundInv'
    BY <1>1, <2>1 DEF DetectorInv, FeedInv, Waits, SoundInv, workerVars, detectorVars
  <2>4. BoundInv' /\ HandsInv' /\ SentInv'
    BY <1>1, <2>1 DEF BoundInv, HandsInv, SentInv, workerVars
  <2>5. QED
    BY <1>2, <1>3, <2>2, <2>3, <2>4 DEF IngestInv
<1>8. QED
  BY <1>4, <1>5, <1>6, <1>7 DEF Next, Step

----------------------------------------------------------------------------
(* The theorems.                                                           *)

\* The inductive invariant of the walk.
THEOREM IngestInvariant == Spec => []IngestInv
BY InitIngest, IngestStep, PTL DEF Spec

\* Every variable keeps its type, each category's window is the newest of what the
\* detector was shown, and a worker that is done holds nothing.
THEOREM IngestTypeCorrect == Spec => []TypeOK
BY TypesFollow, IngestInvariant, PTL

\* The handlers of Sentry use the events table and the pins only through the
\* operations of db.py, in whatever way their threads interleave and fail.
THEOREM IngestUsesVault == Spec => Table!Spec
<1>1. Init => Table!Init
  BY DEF Init, V!Init, Table!Init, DiskEvents, Calls, Call, V!NoTxn, Table!NoTxn
<1>2. IngestInv /\ [Next]_vars => [Table!Next]_(Table!vars)
  BY StepUsesTable DEF IngestInv
<1>3. QED
  BY <1>1, <1>2, IngestInvariant, PTL DEF Spec, Table!Spec

\* Hence the chain of Sentry verifies at every moment, and pins are never
\* replaced: what is proved of the vault is so of the process that uses it.
THEOREM SentryChainVerifies ==
  Spec => [](V!VerifyChain(events) /\ V!VerifyChain(disk.events))
<1>1. IngestInv => V!VerifyChain(events) /\ V!VerifyChain(disk.events)
  BY DEF IngestInv, VaultOK, Table!VaultInv, Table!ChainVerifies, Table!VerifyChain, V!VerifyChain,
         DiskEvents, Table!GenesisPrevHash, V!GenesisPrevHash, Table!ComputeRowHash, V!ComputeRowHash
<1>2. QED
  BY <1>1, IngestInvariant, PTL

\* Every signed row carries the key pinned for its signer, whatever races, fails
\* or stops between bind_key and append_event.
THEOREM AlwaysSignedUnderPin == Spec => []SignedUnderPin
<1>1. IngestInv => SignedUnderPin
  BY DEF IngestInv, PinnedInv, SignedIn, SignedUnderPin
<1>2. QED
  BY <1>1, IngestInvariant, PTL

\* Nothing is told to the subscribers that a reader of the vault would not find.
THEOREM AlwaysPublishedIsStored == Spec => []PublishedIsStored
<1>1. IngestInv => PublishedIsStored
  BY DEF IngestInv, PublishInv
<1>2. QED
  BY <1>1, IngestInvariant, PTL

\* A match marked as seen is recorded, or in the hands of one worker, or was
\* dropped by a failed call, whatever the rules are and whatever they match.
THEOREM AlwaysSeenIsRecorded == Spec => []SeenIsRecorded
<1>1. IngestInv => SeenIsRecorded
  <2> SUFFICES ASSUME IngestInv, NEW s \in seen, NEW w \in Workers, s \in todo[w]
               PROVE  Cardinality({v \in Workers : s \in todo[v]}) = 1
    BY DEF IngestInv, TodoInv, SeenIsRecorded
  <2>1. {v \in Workers : s \in todo[v]} = {w}
    BY DEF IngestInv, TodoInv
  <2>2. QED
    BY <2>1, FS_Singleton
<1>2. QED
  BY <1>1, IngestInvariant, PTL

\* Every alert of Sentry cites stored events that are what its rule describes,
\* in whatever order the threads reach the detector and however late the events
\* are, and so does every incident in the table, after crashes and power
\* failures too.
THEOREM SentryAlertsSound == Spec => []AlertsSound
<1>1. IngestInv => AlertsSound
  BY AlertsStand DEF IngestInv
<1>2. QED
  BY <1>1, IngestInvariant, PTL

\* The incidents table cites stored rows that are what the rule describes.
THEOREM IncidentsAlwaysSound == Spec => []IncidentsSound
<1>1. IngestInv => IncidentsSound
  BY DEF IngestInv, SoundInv, SoundIn, CitesSoundly, RowsCited, IncidentsSound, EventOf
<1>2. QED
  BY <1>1, IngestInvariant, PTL

\* The windows and the alerts of Sentry's detector are kept so by every step: a worker
\* shows it a fresh event, a restart makes a new one, and nothing else touches it.
LEMMA BatchStep == IngestInv /\ BatchInv /\ [Next]_vars => BatchInv'
<1> SUFFICES ASSUME IngestInv, BatchInv, [Next]_vars PROVE BatchInv'
  OBVIOUS
<1>1. JobsInv /\ VaultOK /\ DetectorInv /\ FeedInv
  BY DEF IngestInv
<1>2. CASE \E w \in Workers : Step(w)
  <2> PICK w \in Workers : Step(w)
    BY <1>2
  <2>1. CASE Observe(w) /\ job[w].request.category # NoCategory
    <3>1. PICK e : Fresh(e) /\ e.category \in Categories /\ observe(e.category, e)
      BY <1>1, <2>1, FeedObserved
    <3>2. QED
      BY <1>1, <3>1, ObserveBatch
  <2>2. CASE ~(Observe(w) /\ job[w].request.category # NoCategory)
    <3>1. UNCHANGED detectorVars
      BY <2>2 DEF Step, Work, Receive, Bind, Bound, Append_, Store, Publish, Observe, Record, Announce,
                  Reply, Fail, ObserveFails, RecordFails
    <3>2. QED
      BY <3>1, BatchStays
  <2>3. QED
    BY <2>1, <2>2
<1>3. CASE Crash \/ PowerLoss
  <2>1. DetectorInit'
    BY <1>3 DEF Crash, PowerLoss, Restart, DetectorInit
  <2>2. DetectorInit' => BatchInv'
    BY InitBatch, PTL
  <2>3. QED
    BY <2>1, <2>2
<1>4. CASE Checkpoint \/ UNCHANGED vars
  <2>1. UNCHANGED detectorVars
    BY <1>4 DEF Checkpoint, vars
  <2>2. QED
    BY <2>1, BatchStays
<1>5. QED
  BY <1>2, <1>3, <1>4 DEF Next, Step

\* In whatever order Sentry's threads reach the detector, while what they showed it since
\* it started is in order and fits its windows: what it has alerted on is exactly what each
\* rule says of all of those events.
THEOREM SentryIncremental == Spec => []IncrementalIsBatch
<1>1. Init => BatchInv
  <2>1. Init => DetectorInit
    BY DEF Init
  <2>2. QED
    BY <2>1, InitBatch
<1>2. BatchInv => IncrementalIsBatch
  BY DEF BatchInv
<1>3. QED
  BY <1>1, <1>2, BatchStep, IngestInvariant, PTL DEF Spec

\* And no two of its alerts are of one burst (detect.py, observe under the lock).
THEOREM SentryBurstsApart == Spec => []BurstsApart
<1>1. IngestInv => DetectorInv
  BY DEF IngestInv
<1>2. QED
  BY <1>1, BatchApart, SentryIncremental, IngestInvariant, PTL

\* So every match in the events that the detector was shown since it started, in order and
\* within its windows, is in the incidents table, in the hands of one thread, or was dropped
\* by a failed call (main.py, ingest).
THEOREM SentryRecordsMatches ==
  Spec => [](Undisturbed =>
    \A r \in DOMAIN Rules : \A m \in EvaluateRule(Rules[r], Fed(Rules[r].category)) :
      \/ V!Recorded(Signature(r, m))
      \/ Signature(r, m) \in dropped
      \/ Cardinality({w \in Workers : Signature(r, m) \in todo[w]}) = 1)
<1>1. ASSUME SeenIsRecorded, IncrementalIsBatch, Undisturbed, NEW r \in DOMAIN Rules,
             NEW m \in EvaluateRule(Rules[r], Fed(Rules[r].category))
      PROVE  \/ V!Recorded(Signature(r, m))
             \/ Signature(r, m) \in dropped
             \/ Cardinality({w \in Workers : Signature(r, m) \in todo[w]}) = 1
  <2>1. Signature(r, m) \in seen
    BY <1>1 DEF IncrementalIsBatch
  <2>2. QED
    BY <1>1, <2>1 DEF SeenIsRecorded
<1>2. SeenIsRecorded /\ IncrementalIsBatch =>
        (Undisturbed =>
          \A r \in DOMAIN Rules : \A m \in EvaluateRule(Rules[r], Fed(Rules[r].category)) :
            \/ V!Recorded(Signature(r, m))
            \/ Signature(r, m) \in dropped
            \/ Cardinality({w \in Workers : Signature(r, m) \in todo[w]}) = 1)
  BY <1>1
<1>3. QED
  BY <1>2, AlwaysSeenIsRecorded, SentryIncremental, PTL
=============================================================================
