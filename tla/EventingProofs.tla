--------------------------- MODULE EventingProofs ---------------------------
(***************************************************************************)
(* What the eventing runs tell, and what they save: silence means that     *)
(* nothing has changed, a row follows the record of what was sent, and the *)
(* table agrees with the notification service.                             *)
(*                                                                         *)
(* evaluate folds the lists of all validators; the first part shows what   *)
(* is in such a fold.  StateInv says what rows and readings are, RunInv    *)
(* where the events of a run are, ToldInv what the service knows of each   *)
(* validator on the way from its old row to the new one.                   *)
(***************************************************************************)
EXTENDS Eventing, FiniteSums, FunctionTheorems

LEMMA NoEvents == <<>> \o <<>> = <<>>
  OBVIOUS

(* The next run over a validator that has not changed is silent, in the    *)
(* same epoch: what evaluateDeltas compares is what validatorToState       *)
(* saves, rounding and unknown values included.                            *)
THEOREM SavedIsQuiet ==
    ASSUME NEW vote, NEW v, NEW ep
    PROVE  DeltasOf(vote, v, validatorToState(v, ep), ep) = <<>>
<1> DEFINE row == validatorToState(v, ep)
           funded == solToLamports(v.balance)
           effective == solToLamports(claimableOrBalance(v))
<1>1. AuctionStatusEvents(vote, v, row) = <<>> \o <<>>
  BY DEF AuctionStatusEvents, When, validatorToState
<1>2. CapEvents(vote, v, row) = <<>>
  BY DEF CapEvents, When, validatorToState
<1>3. UnderfundedEvents(vote, v, row) = <<>>
  BY DEF UnderfundedEvents, When, validatorToState
<1>4. buildBondBalanceChangeEvent(vote, row, funded, effective) = <<>>
  BY DEF buildBondBalanceChangeEvent, When, validatorToState
<1>5. buildSettlementAppliedEvent(vote, funded - effective,
                                  row.funded - row.effective) = <<>>
  <2>1. row.funded = funded /\ row.effective = effective
    BY DEF validatorToState
  <2> QED
    BY <2>1 DEF buildSettlementAppliedEvent, When
<1>6. PenaltyEvents(vote, v, row, ep) = <<>>
  BY DEF PenaltyEvents, When, validatorToState
<1>7. EligibleEvents(vote, v, row) = <<>>
  BY DEF EligibleEvents, When, validatorToState
<1> QED
  BY <1>1, <1>2, <1>3, <1>4, <1>5, <1>6, <1>7, NoEvents DEF DeltasOf

-----------------------------------------------------------------------------
(* Lists, whatever they hold                                               *)
IsList(s) == \E S : s \in Seq(S)

LEMMA EmptyParts ==
    ASSUME NEW s, NEW t, IsList(s), IsList(t)
    PROVE  /\ IsList(s \o t)
           /\ s \o t = <<>> => s = <<>> /\ t = <<>>
<1>1. PICK S : s \in Seq(S)
  BY DEF IsList
<1>2. PICK T : t \in Seq(T)
  BY DEF IsList
<1>3. s \in Seq(S \cup T) /\ t \in Seq(S \cup T)
  BY <1>1, <1>2
<1>4. s \o t \in Seq(S \cup T) /\ Len(s \o t) = Len(s) + Len(t)
  BY <1>3
<1>5. ASSUME s \o t = <<>> PROVE s = <<>> /\ t = <<>>
  <2>1. Len(s) = 0 /\ Len(t) = 0
    BY <1>3, <1>4, <1>5
  <2> QED
    BY <1>3, <2>1
<1> QED
  BY <1>4, <1>5 DEF IsList

LEMMA WhenEmpty ==
    ASSUME NEW c \in BOOLEAN, NEW e
    PROVE  /\ IsList(When(c, e))
           /\ When(c, e) = <<>> => ~c
<1>1. CASE c
  <2>1. When(c, e) = <<e>>
    BY <1>1 DEF When
  <2>2. <<e>> \in Seq({e})
    OBVIOUS
  <2>3. IsList(<<e>>)
    BY <2>2 DEF IsList
  <2>4. <<e>> # <<>>
    OBVIOUS
  <2> QED
    BY <2>1, <2>3, <2>4
<1>2. CASE ~c
  <2>1. <<>> \in Seq({e})
    OBVIOUS
  <2> QED
    BY <1>2, <2>1 DEF When, IsList
<1> QED
  BY <1>1, <1>2

(* A run that has nothing to tell of a validator saves what its operators  *)
(* were told before: no difference that evaluateDeltas compares goes       *)
(* silently into the row.                                                  *)
THEOREM SilentIsSame ==
    ASSUME NEW vote, NEW v, NEW prev, NEW ep,
           prev.in_auction \in BOOLEAN,
           DeltasOf(vote, v, prev, ep) = <<>>
    PROVE  LET row == validatorToState(v, ep)
           IN  /\ row.in_auction = prev.in_auction
               /\ row.cap_constraint = prev.cap_constraint
               /\ row.funded = prev.funded
               /\ row.sam_eligible = prev.sam_eligible
               /\ row.bond_good_for_n_epochs \in {Null, prev.bond_good_for_n_epochs}
               /\ computeDeficitMetrics(v) # Null => row.deficit = prev.deficit
<1> DEFINE funded == solToLamports(v.balance)
           effective == solToLamports(claimableOrBalance(v))
           E1 == AuctionStatusEvents(vote, v, prev)
           E2 == CapEvents(vote, v, prev)
           E3 == UnderfundedEvents(vote, v, prev)
           E4 == buildBondBalanceChangeEvent(vote, prev, funded, effective)
           E5 == buildSettlementAppliedEvent(vote, funded - effective,
                                             prev.funded - prev.effective)
           E6 == PenaltyEvents(vote, v, prev, ep)
           E7 == EligibleEvents(vote, v, prev)
<1>1. IsList(E1) /\ (E1 = <<>> => isInAuction(v) = prev.in_auction)
  <2>1. isInAuction(v) \in BOOLEAN
    BY DEF isInAuction
  <2> QED
    BY <2>1, WhenEmpty, EmptyParts DEF AuctionStatusEvents
<1>2. IsList(E2) /\ (E2 = <<>> => prev.cap_constraint = v.cap)
  BY WhenEmpty DEF CapEvents
<1>3. IsList(E3) /\ (E3 = <<>> =>
          /\ roundEpochs(v.epochs) \in {Null, prev.bond_good_for_n_epochs}
          /\ computeDeficitMetrics(v) # Null =>
               solToLamports(computeDeficitMetrics(v)) = prev.deficit)
  BY WhenEmpty DEF UnderfundedEvents
<1>4. IsList(E4) /\ (E4 = <<>> => funded = prev.funded)
  BY WhenEmpty DEF buildBondBalanceChangeEvent
<1>5. IsList(E5)
  BY WhenEmpty DEF buildSettlementAppliedEvent
<1>6. IsList(E6)
  BY WhenEmpty DEF PenaltyEvents
<1>7. IsList(E7) /\ (E7 = <<>> => prev.sam_eligible = v.samEligible)
  BY WhenEmpty DEF EligibleEvents
<1>8. E1 \o E2 \o E3 \o E4 \o E5 \o E6 \o E7 = <<>>
  BY DEF DeltasOf
<1>9. E1 = <<>> /\ E2 = <<>> /\ E3 = <<>> /\ E4 = <<>> /\ E7 = <<>>
  <2> HIDE DEF E1, E2, E3, E4, E5, E6, E7
  <2>1. IsList(E1 \o E2)
    BY <1>1, <1>2, EmptyParts
  <2>2. IsList(E1 \o E2 \o E3)
    BY <2>1, <1>3, EmptyParts
  <2>3. IsList(E1 \o E2 \o E3 \o E4)
    BY <2>2, <1>4, EmptyParts
  <2>4. IsList(E1 \o E2 \o E3 \o E4 \o E5)
    BY <2>3, <1>5, EmptyParts
  <2>5. IsList(E1 \o E2 \o E3 \o E4 \o E5 \o E6)
    BY <2>4, <1>6, EmptyParts
  <2>6. E7 = <<>> /\ E1 \o E2 \o E3 \o E4 \o E5 \o E6 = <<>>
    BY <2>5, <1>7, <1>8, EmptyParts
  <2>7. E1 \o E2 \o E3 \o E4 \o E5 = <<>>
    BY <2>4, <1>6, <2>6, EmptyParts
  <2>8. E1 \o E2 \o E3 \o E4 = <<>>
    BY <2>3, <1>5, <2>7, EmptyParts
  <2>9. E4 = <<>> /\ E1 \o E2 \o E3 = <<>>
    BY <2>2, <1>4, <2>8, EmptyParts
  <2>10. E3 = <<>> /\ E1 \o E2 = <<>>
    BY <2>1, <1>3, <2>9, EmptyParts
  <2> QED
    BY <1>1, <1>2, <2>6, <2>9, <2>10, EmptyParts
<1> QED
  BY <1>1, <1>2, <1>3, <1>4, <1>7, <1>9 DEF validatorToState

-----------------------------------------------------------------------------
(* The events of a run                                                     *)

LEMMA ListOf ==
    ASSUME NEW S, NEW R, NEW s \in Seq(S), \A k \in 1 .. Len(s) : s[k] \in R
    PROVE  s \in Seq(R)
  OBVIOUS

LEMMA ElementsOf ==
    ASSUME NEW S, NEW s \in Seq(S)
    PROVE  /\ s \in Seq(ToSet(s)) /\ ToSet(s) \subseteq S
           /\ DOMAIN s = 1 .. Len(s)
  BY ListOf DEF ToSet

LEMMA ElementsJoined ==
    ASSUME NEW S, NEW s \in Seq(S), NEW t \in Seq(S)
    PROVE  s \o t \in Seq(S) /\ ToSet(s \o t) = ToSet(s) \cup ToSet(t)
<1>1. s \o t \in Seq(S) /\ Len(s \o t) = Len(s) + Len(t)
  OBVIOUS
<1>2. \A k \in 1 .. Len(s) : (s \o t)[k] = s[k]
  OBVIOUS
<1>3. \A k \in 1 .. Len(t) : (s \o t)[Len(s) + k] = t[k] /\ Len(s) + k \in 1 .. Len(s) + Len(t)
  OBVIOUS
<1>4. \A k \in 1 .. Len(s) + Len(t) :
        \/ k \in 1 .. Len(s)
        \/ k - Len(s) \in 1 .. Len(t) /\ (s \o t)[k] = t[k - Len(s)]
  OBVIOUS
<1>5. \A k \in 1 .. Len(s) : k \in 1 .. Len(s) + Len(t)
  OBVIOUS
<1>6. /\ DOMAIN s = 1 .. Len(s) /\ DOMAIN t = 1 .. Len(t)
      /\ DOMAIN (s \o t) = 1 .. Len(s) + Len(t)
  BY <1>1
<1> DEFINE w == s \o t
<1> HIDE DEF w
<1>7. ToSet(w) \subseteq ToSet(s) \cup ToSet(t)
  BY <1>2, <1>4, <1>6, Zenon DEF ToSet, w
<1>8. ToSet(s) \subseteq ToSet(w)
  BY <1>2, <1>5, <1>6, Zenon DEF ToSet, w
<1>9. ToSet(t) \subseteq ToSet(w)
  BY <1>3, <1>6, Zenon DEF ToSet, w
<1> QED
  BY <1>1, <1>7, <1>8, <1>9 DEF w

LEMMA ElementOf ==
    ASSUME NEW S, NEW s \in Seq(S), NEW k \in 1 .. Len(s)
    PROVE  s[k] \in S
  OBVIOUS

(* h folds the lists of s up for every part of the positions up to k.      *)
FoldsUp(h, base, lists, s, k) ==
    \A T \in SUBSET (1 .. k) :
        h[T] = IF T = {} THEN base ELSE h[T \ {Max(T)}] \o lists[s[Max(T)]]

LEMMA FoldExists ==
    ASSUME NEW E, NEW base \in Seq(E), NEW D, NEW lists \in [D -> Seq(E)],
           NEW s \in Seq(D), NEW n \in 0 .. Len(s)
    PROVE  \E h : h \in [SUBSET (1 .. Len(s)) -> Seq(E)] /\ FoldsUp(h, base, lists, s, n)
<1> DEFINE P == SUBSET (1 .. Len(s))
           Good(k) == \E h : h \in [P -> Seq(E)] /\ FoldsUp(h, base, lists, s, k)
           Bad == {k \in 0 .. Len(s) : ~ Good(k)}
<1>1. SUFFICES ASSUME Bad # {} PROVE FALSE
  OBVIOUS
<1>2. PICK k \in Bad : \A j \in Bad : k <= j
  <2>1. Bad \in SUBSET Nat
    OBVIOUS
  <2> HIDE DEF Bad
  <2> QED
    BY <1>1, <2>1, LeastNumber
<1>3. k # 0
  <2>1. [T \in P |-> base] \in [P -> Seq(E)]
    OBVIOUS
  <2>2. FoldsUp([T \in P |-> base], base, lists, s, 0)
    BY DEF FoldsUp
  <2> QED
    BY <2>1, <2>2
<1>4. k \in 1 .. Len(s) /\ k - 1 \in 0 .. Len(s) /\ k - 1 \notin Bad
  <2>1. k \in 0 .. Len(s)
    OBVIOUS
  <2>2. ~ (k <= k - 1)
    BY <2>1
  <2> HIDE DEF Bad
  <2> QED
    BY <1>2, <1>3, <2>1, <2>2
<1> HIDE DEF Bad
<1>5. PICK h : h \in [P -> Seq(E)] /\ FoldsUp(h, base, lists, s, k - 1)
  BY <1>4 DEF Bad
<1> DEFINE g == [T \in P |-> IF T \in SUBSET (1 .. k - 1) THEN h[T]
                             ELSE h[T \ {Max(T)}] \o lists[s[Max(T)]]]
<1>6. ASSUME NEW T \in P, T # {}
      PROVE  /\ Max(T) \in T /\ T \ {Max(T)} \in P
             /\ lists[s[Max(T)]] \in Seq(E) /\ h[T \ {Max(T)}] \in Seq(E)
  <2>1. Len(s) \in Nat
    OBVIOUS
  <2>2. Max(T) \in T
    BY <1>6, <2>1, LargestNumber
  <2>3. T \ {Max(T)} \in P /\ Max(T) \in 1 .. Len(s)
    BY <2>2
  <2>4. s[Max(T)] \in D
    BY <2>3, ElementOf
  <2> QED
    BY <1>5, <2>2, <2>3, <2>4
<1>7. g \in [P -> Seq(E)]
  <2> SUFFICES ASSUME NEW T \in P PROVE g[T] \in Seq(E)
    OBVIOUS
  <2>1. CASE T \in SUBSET (1 .. k - 1)
    BY <2>1, <1>5
  <2>2. CASE T \notin SUBSET (1 .. k - 1)
    <3>1. T # {}
      BY <2>2
    <3>2. h[T \ {Max(T)}] \o lists[s[Max(T)]] \in Seq(E)
      BY <1>6, <3>1, ElementsJoined, Zenon
    <3> QED
      BY <2>2, <3>2
  <2> QED
    BY <2>1, <2>2
<1>8. FoldsUp(g, base, lists, s, k)
  <2> SUFFICES ASSUME NEW T \in SUBSET (1 .. k)
               PROVE  g[T] = IF T = {} THEN base ELSE g[T \ {Max(T)}] \o lists[s[Max(T)]]
    BY DEF FoldsUp
  <2>1. T \in P
    BY <1>4
  <2>2. CASE T = {}
    <3>1. g[T] = h[T] /\ T \in SUBSET (1 .. k - 1)
      BY <2>1, <2>2
    <3> HIDE DEF g
    <3> QED
      BY <1>5, <2>2, <3>1 DEF FoldsUp
  <2>3. CASE T # {}
    <3>1. Max(T) \in T /\ T \ {Max(T)} \in P /\ \A m \in T : Max(T) >= m
      <4>1. k \in Nat
        BY <1>4
      <4> QED
        BY <1>6, <2>1, <2>3, <4>1, LargestNumber
    <3>2. T \ {Max(T)} \in SUBSET (1 .. k - 1)
      <4>0. k \in Nat /\ Max(T) \in 1 .. k
        <5>1. k \in Nat
          BY <1>4
        <5> QED
          BY <3>1, <5>1
      <4>1. k \in Nat /\ Max(T) \in Nat /\ Max(T) <= k
        BY <4>0
      <4>2. ASSUME NEW m \in T, m # Max(T) PROVE m \in 1 .. k - 1
        <5>1. m \in Nat /\ 1 <= m /\ Max(T) >= m
          BY <3>1
        <5> QED
          BY <4>1, <4>2, <5>1
      <4> QED
        BY <4>2
    <3>3. g[T \ {Max(T)}] = h[T \ {Max(T)}]
      BY <3>1, <3>2
    <3>4. CASE T \in SUBSET (1 .. k - 1)
      <4>1. h[T] = h[T \ {Max(T)}] \o lists[s[Max(T)]]
        BY <1>5, <2>3, <3>4 DEF FoldsUp
      <4>2. g[T] = h[T]
        BY <2>1, <3>4
      <4> HIDE DEF g
      <4> QED
        BY <2>3, <3>3, <4>1, <4>2
    <3>5. CASE T \notin SUBSET (1 .. k - 1)
      <4>1. g[T] = h[T \ {Max(T)}] \o lists[s[Max(T)]]
        BY <2>1, <3>5
      <4> HIDE DEF g
      <4> QED
        BY <2>3, <3>3, <4>1
    <3> QED
      BY <3>4, <3>5
  <2> QED
    BY <2>2, <2>3
<1> HIDE DEF g
<1>9. Good(k)
  BY <1>7, <1>8
<1> QED
  BY <1>9 DEF Bad

(* What is folded up is a list of the elements of all lists.               *)
FoldTells(h, base, lists, s, k, E) ==
    /\ h[1 .. k] \in Seq(E)
    /\ ToSet(h[1 .. k]) = ToSet(base) \cup UNION {ToSet(lists[s[i]]) : i \in 1 .. k}

LEMMA FoldElements ==
    ASSUME NEW E, NEW base \in Seq(E), NEW D, NEW lists \in [D -> Seq(E)],
           NEW s \in Seq(D), NEW h,
           FoldsUp(h, base, lists, s, Len(s))
    PROVE  FoldTells(h, base, lists, s, Len(s), E)
<1> DEFINE Good(k) ==
             /\ h[1 .. k] \in Seq(E)
             /\ ToSet(h[1 .. k]) = ToSet(base) \cup UNION {ToSet(lists[s[i]]) : i \in 1 .. k}
           Bad == {k \in 0 .. Len(s) : ~ Good(k)}
<1>1. SUFFICES ASSUME Bad # {} PROVE FALSE
  <2>1. Len(s) \in Nat
    OBVIOUS
  <2>2. Len(s) \in 0 .. Len(s)
    BY <2>1
  <2> SUFFICES ASSUME Bad = {} PROVE Good(Len(s))
    BY DEF FoldTells
  <2> QED
    BY <2>2
<1>2. PICK k \in Bad : \A j \in Bad : k <= j
  <2>1. Bad \in SUBSET Nat
    OBVIOUS
  <2> HIDE DEF Bad
  <2> QED
    BY <1>1, <2>1, LeastNumber
<1>3. k # 0
  <2>1. 1 .. 0 = {} /\ {} \in SUBSET (1 .. Len(s))
    OBVIOUS
  <2>2. h[{}] = base
    BY <2>1 DEF FoldsUp
  <2>3. Good(0)
    BY <2>1, <2>2
  <2> QED
    BY <2>3
<1>4. k \in 1 .. Len(s) /\ k - 1 \in 0 .. Len(s) /\ k - 1 \notin Bad
  <2>1. k \in 0 .. Len(s)
    OBVIOUS
  <2>2. ~ (k <= k - 1)
    BY <2>1
  <2> HIDE DEF Bad
  <2> QED
    BY <1>2, <1>3, <2>1, <2>2
<1> HIDE DEF Bad
<1>5. Good(k - 1)
  BY <1>4 DEF Bad
<1>6. /\ 1 .. k \in SUBSET (1 .. Len(s)) /\ 1 .. k # {} /\ k \in 1 .. k
      /\ (1 .. k) \ {k} = 1 .. k - 1 /\ 1 .. k = (1 .. k - 1) \cup {k}
      /\ 1 .. k - 1 \in SUBSET (1 .. Len(s))
  <2>1. k \in Nat /\ 1 <= k /\ k <= Len(s) /\ Len(s) \in Nat
    BY <1>4
  <2>2. \A i \in 1 .. k : i \in 1 .. Len(s) /\ (i # k => i \in 1 .. k - 1)
    BY <2>1
  <2>3. \A i \in 1 .. k - 1 : i \in 1 .. k /\ i # k
    BY <2>1
  <2>4. k \in 1 .. k
    BY <2>1
  <2> QED
    BY <2>2, <2>3, <2>4, Zenon
<1>7. Max(1 .. k) = k
  <2>1. k \in Nat
    BY <1>4
  <2>2. Max(1 .. k) \in 1 .. k /\ Max(1 .. k) >= k
    BY <1>6, <2>1, LargestNumber
  <2> QED
    BY <2>1, <2>2
<1>8. h[1 .. k] = h[1 .. k - 1] \o lists[s[k]]
  BY <1>6, <1>7, Zenon DEF FoldsUp
<1>9. h[1 .. k - 1] \in Seq(E) /\ lists[s[k]] \in Seq(E)
  BY <1>4, <1>5, ElementOf
<1>10. /\ h[1 .. k] \in Seq(E)
       /\ ToSet(h[1 .. k]) = ToSet(h[1 .. k - 1]) \cup ToSet(lists[s[k]])
  <2> DEFINE x == h[1 .. k - 1]
             y == lists[s[k]]
  <2>1. x \in Seq(E) /\ y \in Seq(E)
    BY <1>9
  <2> HIDE DEF x, y
  <2>2. x \o y \in Seq(E) /\ ToSet(x \o y) = ToSet(x) \cup ToSet(y)
    BY <2>1, ElementsJoined
  <2> QED
    BY <1>8, <2>2 DEF x, y
<1> HIDE DEF Bad
<1>11. UNION {ToSet(lists[s[i]]) : i \in 1 .. k}
          = (UNION {ToSet(lists[s[i]]) : i \in 1 .. k - 1}) \cup ToSet(lists[s[k]])
  BY <1>6
<1>12. Good(k)
  BY <1>5, <1>10, <1>11
<1> QED
  BY <1>12 DEF Bad

LEMMA IsSequence ==
    ASSUME NEW D, NEW n \in Nat, NEW s \in [1 .. n -> D]
    PROVE  s \in Seq(D) /\ Len(s) = n
  OBVIOUS

(* SetToSeq lists the elements of a finite set.                            *)
LEMMA ListOfSet ==
    ASSUME NEW D, IsFiniteSet(D), NEW s, s = SetToSeq(D)
    PROVE  s \in Seq(D) /\ {s[i] : i \in 1 .. Len(s)} = D
<1> DEFINE n == Cardinality(D)
           I == 1 .. n
<1>1. n \in Nat /\ ExistsBijection(I, D)
  BY FS_CardinalityType
<1>2. PICK f : f \in [I -> D] /\ IsInjective(f)
  <2>1. PICK f : f \in Bijection(I, D)
    BY <1>1, Fun_ExistsBij
  <2>2. f \in [I -> D] /\ \A a, b \in I : f[a] = f[b] => a = b
    BY <2>1, Fun_BijectionProperties
  <2>3. IsInjective(f)
    BY <2>2 DEF IsInjective
  <2> QED
    BY <2>2, <2>3
<1>3. s \in [I -> D] /\ IsInjective(s)
  BY <1>2, Zenon DEF SetToSeq
<1>4. \A a, b \in I : s[a] = s[b] => a = b
  BY <1>3 DEF IsInjective
<1>5. s \in Injection(I, D)
  BY <1>3, <1>4, Fun_IsInj
<1>6. IsFiniteSet(I) /\ Cardinality(I) = n
  <2>1. IsFiniteSet(I)
    BY <1>1, FS_Interval
  <2> QED
    BY <1>1, <2>1, FS_Bijection
<1>7. s \in Surjection(I, D)
  BY <1>5, <1>6, FS_Injection
<1>8. \A v \in D : \E i \in I : s[i] = v
  BY <1>7 DEF Surjection
<1>9. s \in Seq(D) /\ Len(s) = n
  BY <1>1, <1>3, IsSequence
<1> QED
  BY <1>3, <1>8, <1>9

(* Followed tells everything that is in the lists, and nothing else.       *)
Tells(list, events, lists, D, E) ==
    /\ list \in Seq(E)
    /\ ToSet(list) = ToSet(events) \cup UNION {ToSet(lists[v]) : v \in D}

LEMMA FollowedElements ==
    ASSUME NEW E, NEW events \in Seq(E), NEW D, IsFiniteSet(D), NEW lists \in [D -> Seq(E)]
    PROVE  Tells(Followed(events, lists), events, lists, D, E)
<1> DEFINE s == SetToSeq(D)
           Positions == DOMAIN s
           Fold(h) == h = [T \in SUBSET Positions |->
                            IF T = {} THEN events ELSE h[T \ {Max(T)}] \o lists[s[Max(T)]]]
           g == CHOOSE h : Fold(h)
<1>1. s \in Seq(D) /\ {s[i] : i \in 1 .. Len(s)} = D
  BY ListOfSet
<1>2. DOMAIN lists = D
  OBVIOUS
<1>3. Followed(events, lists) = g[Positions]
  BY <1>2 DEF Followed, FoldLeft, MapThenFoldSet
<1> HIDE DEF s
<1>4. Positions = 1 .. Len(s) /\ Len(s) \in Nat /\ Len(s) \in 0 .. Len(s)
  <2>1. Positions = 1 .. Len(s) /\ Len(s) \in Nat
    BY <1>1
  <2> QED
    BY <2>1
<1>5. PICK h : h \in [SUBSET (1 .. Len(s)) -> Seq(E)]
               /\ FoldsUp(h, events, lists, s, Len(s))
  BY <1>1, <1>4, FoldExists
<1>6. Fold(h)
  BY <1>4, <1>5, Zenon DEF FoldsUp
<1>7. Fold(g)
  BY <1>6
<1> HIDE DEF g
<1>8. /\ DOMAIN g = SUBSET (1 .. Len(s))
      /\ FoldsUp(g, events, lists, s, Len(s))
  BY <1>4, <1>7 DEF FoldsUp
<1>9. /\ g[Positions] \in Seq(E)
      /\ ToSet(g[Positions]) = ToSet(events) \cup UNION {ToSet(lists[s[i]]) : i \in Positions}
  <2>1. /\ g[1 .. Len(s)] \in Seq(E)
        /\ ToSet(g[1 .. Len(s)])
             = ToSet(events) \cup UNION {ToSet(lists[s[i]]) : i \in 1 .. Len(s)}
    <3>1. FoldTells(g, events, lists, s, Len(s), E)
      BY <1>1, <1>8, FoldElements
    <3> QED
      BY <3>1 DEF FoldTells
  <2> QED
    BY <1>4, <2>1, Zenon
<1>10. UNION {ToSet(lists[s[i]]) : i \in Positions} = UNION {ToSet(lists[v]) : v \in D}
  BY <1>1, <1>4
<1> QED
  BY <1>3, <1>9, <1>10 DEF Tells

-----------------------------------------------------------------------------
(* What the lists of events are made of                                    *)

LEMMA Joins ==
    ASSUME NEW s, NEW t, IsList(s), IsList(t)
    PROVE  IsList(s \o t) /\ ToSet(s \o t) = ToSet(s) \cup ToSet(t)
<1>1. PICK S : s \in Seq(S)
  BY DEF IsList
<1>2. PICK T : t \in Seq(T)
  BY DEF IsList
<1>3. s \in Seq(S \cup T) /\ t \in Seq(S \cup T)
  BY <1>1, <1>2
<1>4. s \o t \in Seq(S \cup T) /\ ToSet(s \o t) = ToSet(s) \cup ToSet(t)
  BY <1>3, ElementsJoined
<1> QED
  BY <1>4 DEF IsList

LEMMA WhenTells ==
    ASSUME NEW c \in BOOLEAN, NEW e
    PROVE  /\ IsList(When(c, e))
           /\ ToSet(When(c, e)) = IF c THEN {e} ELSE {}
<1>1. IsList(When(c, e))
  BY WhenEmpty
<1>2. ToSet(<<e>>) = {e} /\ ToSet(<<>>) = {}
  BY DEF ToSet
<1> QED
  BY <1>1, <1>2 DEF When

LEMMA DeltasTell ==
    ASSUME NEW vote, NEW v, NEW prev, NEW ep
    PROVE  LET funded == solToLamports(v.balance)
               effective == solToLamports(claimableOrBalance(v))
           IN  /\ IsList(DeltasOf(vote, v, prev, ep))
               /\ ToSet(DeltasOf(vote, v, prev, ep)) =
                    ToSet(AuctionStatusEvents(vote, v, prev))
                      \cup ToSet(CapEvents(vote, v, prev))
                      \cup ToSet(UnderfundedEvents(vote, v, prev))
                      \cup ToSet(buildBondBalanceChangeEvent(vote, prev, funded, effective))
                      \cup ToSet(buildSettlementAppliedEvent(vote, funded - effective,
                                    prev.funded - prev.effective))
                      \cup ToSet(PenaltyEvents(vote, v, prev, ep))
                      \cup ToSet(EligibleEvents(vote, v, prev))
<1> DEFINE funded == solToLamports(v.balance)
           effective == solToLamports(claimableOrBalance(v))
           E1 == AuctionStatusEvents(vote, v, prev)
           E2 == CapEvents(vote, v, prev)
           E3 == UnderfundedEvents(vote, v, prev)
           E4 == buildBondBalanceChangeEvent(vote, prev, funded, effective)
           E5 == buildSettlementAppliedEvent(vote, funded - effective,
                                             prev.funded - prev.effective)
           E6 == PenaltyEvents(vote, v, prev, ep)
           E7 == EligibleEvents(vote, v, prev)
<1>1. IsList(E1)
  <2>1. (prev.in_auction /\ ~isInAuction(v)) \in BOOLEAN
        /\ (~prev.in_auction /\ isInAuction(v)) \in BOOLEAN
    OBVIOUS
  <2> QED
    BY <2>1, WhenTells, Joins DEF AuctionStatusEvents
<1>2. IsList(E2)
  BY WhenTells DEF CapEvents
<1>3. IsList(E3)
  BY WhenTells DEF UnderfundedEvents
<1>4. IsList(E4)
  BY WhenTells DEF buildBondBalanceChangeEvent
<1>5. IsList(E5)
  BY WhenTells DEF buildSettlementAppliedEvent
<1>6. IsList(E6)
  BY WhenTells DEF PenaltyEvents
<1>7. IsList(E7)
  BY WhenTells DEF EligibleEvents
<1>8. DeltasOf(vote, v, prev, ep) = E1 \o E2 \o E3 \o E4 \o E5 \o E6 \o E7
  BY DEF DeltasOf
<1> HIDE DEF E1, E2, E3, E4, E5, E6, E7
<1>9. IsList(E1 \o E2) /\ ToSet(E1 \o E2) = ToSet(E1) \cup ToSet(E2)
  BY <1>1, <1>2, Joins
<1> DEFINE F3 == E1 \o E2 \o E3
           F4 == F3 \o E4
           F5 == F4 \o E5
           F6 == F5 \o E6
<1>10. IsList(F3) /\ ToSet(F3) = ToSet(E1) \cup ToSet(E2) \cup ToSet(E3)
  BY <1>3, <1>9, Joins
<1> HIDE DEF F3
<1>11. IsList(F4) /\ ToSet(F4) = ToSet(F3) \cup ToSet(E4)
  BY <1>4, <1>10, Joins
<1> HIDE DEF F4
<1>12. IsList(F5) /\ ToSet(F5) = ToSet(F4) \cup ToSet(E5)
  BY <1>5, <1>11, Joins
<1> HIDE DEF F5
<1>13. IsList(F6) /\ ToSet(F6) = ToSet(F5) \cup ToSet(E6)
  BY <1>6, <1>12, Joins
<1> HIDE DEF F6
<1>14. IsList(F6 \o E7) /\ ToSet(F6 \o E7) = ToSet(F6) \cup ToSet(E7)
  BY <1>7, <1>13, Joins
<1>15. DeltasOf(vote, v, prev, ep) = F6 \o E7
  BY <1>8 DEF F6, F5, F4, F3
<1>16. /\ IsList(DeltasOf(vote, v, prev, ep))
       /\ ToSet(DeltasOf(vote, v, prev, ep)) =
            ToSet(E1) \cup ToSet(E2) \cup ToSet(E3) \cup ToSet(E4)
              \cup ToSet(E5) \cup ToSet(E6) \cup ToSet(E7)
  BY <1>10, <1>11, <1>12, <1>13, <1>14, <1>15
<1> QED
  BY <1>16 DEF E1, E2, E3, E4, E5, E6, E7

(* The event about the deficit of an institutional validator, which the    *)
(* model leaves without a name                                             *)
FlatDeficitEvents(vote, v, prev) ==
    When(computeFlatDeficit(v.stake, v.effective) # prev.deficit,
         [inner_type |-> "bond_underfunded_change", vote |-> vote,
          previous_deficit |-> prev.deficit,
          flat_deficit |-> computeFlatDeficit(v.stake, v.effective)])

LEMMA InstitutionalDeltasTell ==
    ASSUME NEW vote, NEW v, NEW prev
    PROVE  /\ IsList(InstitutionalDeltasOf(vote, v, prev))
           /\ ToSet(InstitutionalDeltasOf(vote, v, prev)) =
                ToSet(FlatDeficitEvents(vote, v, prev))
                  \cup ToSet(buildBondBalanceChangeEvent(vote, prev, v.funded, v.effective))
                  \cup ToSet(buildSettlementAppliedEvent(vote, v.claims,
                                finiteOr(prev.settlement_claims, 0)))
<1> DEFINE E1 == FlatDeficitEvents(vote, v, prev)
           E2 == buildBondBalanceChangeEvent(vote, prev, v.funded, v.effective)
           E3 == buildSettlementAppliedEvent(vote, v.claims, finiteOr(prev.settlement_claims, 0))
<1>1. IsList(E1)
  BY WhenTells DEF FlatDeficitEvents
<1>2. IsList(E2)
  BY WhenTells DEF buildBondBalanceChangeEvent
<1>3. IsList(E3)
  BY WhenTells DEF buildSettlementAppliedEvent
<1>4. InstitutionalDeltasOf(vote, v, prev) = E1 \o E2 \o E3
  BY DEF InstitutionalDeltasOf, FlatDeficitEvents
<1> HIDE DEF E1, E2, E3
<1>5. IsList(E1 \o E2) /\ ToSet(E1 \o E2) = ToSet(E1) \cup ToSet(E2)
  BY <1>1, <1>2, Joins
<1>6. IsList(E1 \o E2 \o E3) /\ ToSet(E1 \o E2 \o E3) = ToSet(E1) \cup ToSet(E2) \cup ToSet(E3)
  BY <1>3, <1>5, Joins
<1>7. /\ IsList(InstitutionalDeltasOf(vote, v, prev))
      /\ ToSet(InstitutionalDeltasOf(vote, v, prev)) = ToSet(E1) \cup ToSet(E2) \cup ToSet(E3)
  BY <1>4, <1>6
<1> QED
  BY <1>7 DEF E1, E2, E3

(* evaluate tells all that it has to tell about a validator.               *)
Reported(input, previous, ep) ==
    (UNION {ToSet(eventsOf(input, previous, ep)[v]) : v \in DOMAIN input})
      \cup UNION {ToSet(delistedOf(input, previous)[v]) : v \in DOMAIN previous \ DOMAIN input}

LEMMA EventListsAre ==
    ASSUME NEW input, NEW previous, NEW ep
    PROVE  /\ \A v \in DOMAIN input : IsList(eventsOf(input, previous, ep)[v])
           /\ \A v \in DOMAIN previous \ DOMAIN input : IsList(delistedOf(input, previous)[v])
<1>1. ASSUME NEW v \in DOMAIN input PROVE IsList(eventsOf(input, previous, ep)[v])
  <2>1. \A e : IsList(<<e>>)
    <3> SUFFICES ASSUME NEW e PROVE IsList(<<e>>)
      OBVIOUS
    <3>1. <<e>> \in Seq({e})
      OBVIOUS
    <3> QED
      BY <3>1 DEF IsList
  <2>2. /\ IsList(DeltasOf(v, input[v], previous[v], ep))
        /\ IsList(InstitutionalDeltasOf(v, input[v], previous[v]))
    BY DeltasTell, InstitutionalDeltasTell
  <2> QED
    BY <2>1, <2>2, Zenon DEF eventsOf
<1>2. ASSUME NEW v \in DOMAIN previous \ DOMAIN input
      PROVE  IsList(delistedOf(input, previous)[v])
  <2>1. IsList(buildValidatorDelistedEvent(v, previous[v]))
    BY WhenTells DEF buildValidatorDelistedEvent
  <2> QED
    BY <2>1 DEF delistedOf
<1> QED
  BY <1>1, <1>2

LEMMA EvaluateTells ==
    ASSUME NEW input, NEW previous, NEW ep,
           IsFiniteSet(DOMAIN input), IsFiniteSet(DOMAIN previous)
    PROVE  /\ IsList(evaluate(input, previous, ep))
           /\ ToSet(evaluate(input, previous, ep)) = Reported(input, previous, ep)
<1> DEFINE D == DOMAIN input
           G == DOMAIN previous \ DOMAIN input
           lists == eventsOf(input, previous, ep)
           gone == delistedOf(input, previous)
           R == Reported(input, previous, ep)
           seen == Followed(<<>>, lists)
<1>1. DOMAIN lists = D /\ DOMAIN gone = G
  BY DEF eventsOf, delistedOf
<1>2. /\ \A v \in D : IsList(lists[v])
      /\ \A v \in G : IsList(gone[v])
  BY EventListsAre
<1>3. R = (UNION {ToSet(lists[v]) : v \in D}) \cup UNION {ToSet(gone[v]) : v \in G}
  BY DEF Reported
<1>4. lists = [v \in D |-> lists[v]] /\ gone = [v \in G |-> gone[v]]
  BY DEF eventsOf, delistedOf
<1>5. evaluate(input, previous, ep) = Followed(seen, gone)
  BY DEF evaluate
<1>6. IsFiniteSet(D) /\ IsFiniteSet(G)
  BY FS_Subset, FS_Difference
<1> HIDE DEF D, G, lists, gone, R
<1>7. lists \in [D -> Seq(R)]
  <2> SUFFICES ASSUME NEW v \in D PROVE lists[v] \in Seq(R)
    BY <1>4
  <2>1. PICK S : lists[v] \in Seq(S)
    BY <1>2 DEF IsList
  <2>2. lists[v] \in Seq(ToSet(lists[v]))
    BY <2>1, ElementsOf
  <2>3. ToSet(lists[v]) \subseteq R
    BY <1>3
  <2> QED
    BY <2>2, <2>3
<1>8. gone \in [G -> Seq(R)]
  <2> SUFFICES ASSUME NEW v \in G PROVE gone[v] \in Seq(R)
    BY <1>4
  <2>1. PICK S : gone[v] \in Seq(S)
    BY <1>2 DEF IsList
  <2>2. gone[v] \in Seq(ToSet(gone[v]))
    BY <2>1, ElementsOf
  <2>3. ToSet(gone[v]) \subseteq R
    BY <1>3
  <2> QED
    BY <2>2, <2>3
<1>9. <<>> \in Seq(R) /\ ToSet(<<>>) = {}
  BY DEF ToSet
<1>10. Tells(seen, <<>>, lists, D, R)
  BY <1>6, <1>7, <1>9, FollowedElements
<1> HIDE DEF seen
<1>11. seen \in Seq(R)
  BY <1>10 DEF Tells
<1>12. Tells(Followed(seen, gone), seen, gone, G, R)
  BY <1>6, <1>8, <1>11, FollowedElements
<1>13. ToSet(Followed(seen, gone)) = R
  BY <1>3, <1>9, <1>10, <1>12 DEF Tells
<1>14. IsList(Followed(seen, gone))
  BY <1>12 DEF Tells, IsList
<1> QED
  BY <1>5, <1>13, <1>14 DEF R

-----------------------------------------------------------------------------
(* The pool of requests                                                    *)

RunFields == {"phase", "mode", "input", "epoch", "queue", "inFlight", "sent",
              "failed", "heard", "recorded"}

IsRun(r) == DOMAIN r = RunFields /\ r = [x \in RunFields |-> r[x]]

Posted(p) == p = [event |-> p.event, attempt |-> p.attempt]

(* The pool before it is filled up                                         *)
Loose(r) ==
    /\ IsRun(r)
    /\ IsList(r.queue)
    /\ IsFiniteSet(r.inFlight) /\ Cardinality(r.inFlight) <= emitConcurrency
    /\ \A p \in r.inFlight : Posted(p)

Pool(r) == Loose(r) /\ (r.inFlight = {} => r.queue = <<>>)

(* Events that have no answer yet                                          *)
OnTheWay(r) == ToSet(r.queue) \cup {p.event : p \in r.inFlight}

(* What is left of a run when its pool is looked away from                 *)
SameRun(f, r) ==
    /\ f.phase = r.phase /\ f.mode = r.mode /\ f.input = r.input /\ f.epoch = r.epoch
    /\ f.sent = r.sent /\ f.failed = r.failed /\ f.heard = r.heard /\ f.recorded = r.recorded

LEMMA RestOfList ==
    ASSUME NEW S, NEW q \in Seq(S), NEW n \in 0 .. Len(q)
    PROVE  /\ SubSeq(q, n + 1, Len(q)) \in Seq(S)
           /\ Len(SubSeq(q, n + 1, Len(q))) = Len(q) - n
           /\ ToSet(q) = ToSet(SubSeq(q, n + 1, Len(q))) \cup {q[i] : i \in 1 .. n}
<1> DEFINE t == SubSeq(q, n + 1, Len(q))
<1>1. /\ t \in Seq(S) /\ Len(t) = Len(q) - n
      /\ \A k \in 1 .. Len(q) - n : t[k] = q[n + k]
  OBVIOUS
<1> HIDE DEF t
<1>2. /\ DOMAIN t = 1 .. Len(q) - n /\ DOMAIN q = 1 .. Len(q)
  BY <1>1
<1>3. ASSUME NEW k \in 1 .. Len(q)
      PROVE  \/ k \in 1 .. n
             \/ k - n \in 1 .. Len(q) - n /\ t[k - n] = q[k]
  <2>1. k \in Nat /\ n \in Nat /\ Len(q) \in Nat
    OBVIOUS
  <2>2. CASE k <= n
    BY <2>1, <2>2
  <2>3. CASE n < k
    <3>1. k - n \in 1 .. Len(q) - n /\ n + (k - n) = k
      BY <2>1, <2>3
    <3> QED
      BY <1>1, <3>1
  <2> QED
    BY <2>1, <2>2, <2>3
<1>4. \A k \in 1 .. Len(q) - n : n + k \in 1 .. Len(q) /\ t[k] = q[n + k]
  BY <1>1
<1>5. \A k \in 1 .. n : k \in 1 .. Len(q)
  OBVIOUS
<1>6. ToSet(q) \subseteq ToSet(t) \cup {q[i] : i \in 1 .. n}
  BY <1>2, <1>3, Zenon DEF ToSet
<1>7. ToSet(t) \cup {q[i] : i \in 1 .. n} \subseteq ToSet(q)
  BY <1>2, <1>4, <1>5, Zenon DEF ToSet
<1> QED
  BY <1>1, <1>6, <1>7 DEF t

LEMMA FirstOfList ==
    ASSUME NEW q, NEW n \in Nat
    PROVE  LET B == {[event |-> q[i], attempt |-> 0] : i \in 1 .. n}
           IN  /\ IsFiniteSet(B) /\ Cardinality(B) <= n
               /\ \A p \in B : Posted(p)
               /\ {p.event : p \in B} = {q[i] : i \in 1 .. n}
<1> DEFINE I == 1 .. n
           B == {[event |-> q[i], attempt |-> 0] : i \in I}
           f == [i \in I |-> [event |-> q[i], attempt |-> 0]]
<1>1. IsFiniteSet(I) /\ Cardinality(I) = n
  <2>1. 1 \in Int /\ n \in Int
    OBVIOUS
  <2> QED
    BY <2>1, FS_Interval
<1>2. f \in Surjection(I, B)
  BY DEF Surjection
<1>3. IsFiniteSet(B) /\ Cardinality(B) <= Cardinality(I)
  BY <1>1, <1>2, FS_Surjection
<1>4. \A p \in B : Posted(p)
  BY DEF Posted
<1>5. {p.event : p \in B} = {q[i] : i \in I}
  <2>1. \A i \in I : [event |-> q[i], attempt |-> 0].event = q[i]
    OBVIOUS
  <2> QED
    BY <2>1, Zenon
<1> QED
  BY <1>1, <1>3, <1>4, <1>5

LEMMA FilledPool ==
    ASSUME NEW r, Loose(r)
    PROVE  /\ Pool(Filled(r)) /\ SameRun(Filled(r), r)
           /\ OnTheWay(Filled(r)) = OnTheWay(r)
<1> DEFINE c == Cardinality(r.inFlight)
           free == emitConcurrency - c
           n == IF free < Len(r.queue) THEN free ELSE Len(r.queue)
           q == SubSeq(r.queue, n + 1, Len(r.queue))
           B == {[event |-> r.queue[i], attempt |-> 0] : i \in 1 .. n}
           A == r.inFlight \cup B
           f == Filled(r)
<1>1. f = [r EXCEPT !.queue = q, !.inFlight = A]
  BY DEF Filled
<1>2. PICK S : r.queue \in Seq(S)
  BY DEF Loose, IsList
<1>3. c \in Nat /\ c <= emitConcurrency /\ emitConcurrency \in Nat /\ emitConcurrency # 0
  BY FS_CardinalityType, EventingAssumption DEF Loose
<1>4. Len(r.queue) \in Nat
  BY <1>2
<1>5. n \in 0 .. Len(r.queue) /\ n <= emitConcurrency - c
  BY <1>3, <1>4
<1>6. n = 0 => c = emitConcurrency \/ Len(r.queue) = 0
  BY <1>3, <1>4
<1> HIDE DEF n
<1>7. /\ q \in Seq(S) /\ Len(q) = Len(r.queue) - n
      /\ ToSet(r.queue) = ToSet(q) \cup {r.queue[i] : i \in 1 .. n}
  BY <1>2, <1>5, RestOfList
<1>8. n \in Nat
  BY <1>5
<1>9. /\ IsFiniteSet(B) /\ Cardinality(B) <= n /\ \A p \in B : Posted(p)
      /\ {p.event : p \in B} = {r.queue[i] : i \in 1 .. n}
  BY <1>8, FirstOfList
<1>10. n # 0 => B # {}
  <2>1. n # 0 => 1 \in 1 .. n
    BY <1>8
  <2> QED
    BY <2>1
<1> HIDE DEF q, B
<1>11. /\ f.queue = q /\ f.inFlight = A /\ SameRun(f, r) /\ IsRun(f)
  BY <1>1 DEF Loose, IsRun, RunFields, SameRun
<1>12. /\ IsFiniteSet(A) /\ Cardinality(A) <= emitConcurrency
  <2>1. /\ IsFiniteSet(r.inFlight) /\ IsFiniteSet(A)
        /\ Cardinality(A) = c + Cardinality(B) - Cardinality(r.inFlight \cap B)
    BY <1>9, FS_Union DEF Loose
  <2>2. Cardinality(r.inFlight \cap B) \in Nat
    <3>1. IsFiniteSet(r.inFlight \cap B)
      BY <2>1, FS_Subset
    <3> QED
      BY <3>1, FS_CardinalityType
  <2>3. Cardinality(B) \in Nat
    BY <1>9, FS_CardinalityType
  <2> QED
    BY <1>3, <1>5, <1>8, <1>9, <2>1, <2>2, <2>3
<1>13. A = {} => q = <<>>
  <2> SUFFICES ASSUME A = {} PROVE q = <<>>
    OBVIOUS
  <2>1. n = 0 /\ r.inFlight = {}
    BY <1>10
  <2>2. c = 0
    BY <2>1, FS_EmptySet
  <2>3. Len(q) = 0
    BY <1>3, <1>4, <1>6, <1>7, <2>1, <2>2
  <2> QED
    BY <1>7, <2>3
<1>14. \A p \in A : Posted(p)
  BY <1>9 DEF Loose
<1>15. IsList(q)
  BY <1>7 DEF IsList
<1>16. {p.event : p \in A} = {p.event : p \in r.inFlight} \cup {r.queue[i] : i \in 1 .. n}
  BY <1>9
<1>17. OnTheWay(f) = OnTheWay(r)
  BY <1>7, <1>11, <1>16 DEF OnTheWay
<1> HIDE DEF A, f
<1>18. Pool(f)
  BY <1>11, <1>12, <1>13, <1>14, <1>15 DEF Pool, Loose
<1> QED
  BY <1>11, <1>17, <1>18 DEF f

-----------------------------------------------------------------------------
(* A run and the table                                                     *)

(* What the rows, the world and the input of a run are made of             *)
StateInv ==
    /\ bondType \in BondTypes
    /\ DOMAIN world \subseteq Votes
    /\ \A v \in DOMAIN world : world[v] \in Readings[bondType]
    /\ DOMAIN rows \subseteq BondTypes \X Votes
    /\ \A v \in DOMAIN Own :
          \E r \in Readings[bondType] : Own[v] = toState(r, Own[v].epoch)
    /\ DOMAIN run.input \subseteq Votes
    /\ \A v \in DOMAIN run.input : run.input[v] \in Readings[bondType]

(* What the run compares its input with, and all that it finds             *)
Compared(r) == IF r.mode = "stateless" THEN Empty ELSE Own

Found(r) == Reported(r.input, Compared(r), r.epoch)

(* Where the events of a run are: on the way, through, or given up; what   *)
(* got through was received                                                *)
Accounted(r) ==
    /\ r.mode \in Modes
    /\ r.mode \in {"live", "stateless"} =>
          /\ OnTheWay(r) \cup r.sent \cup r.failed = Found(r)
          /\ r.sent \subseteq r.heard /\ r.heard \subseteq Found(r)
    /\ r.mode = "mute" =>
          OnTheWay(r) = {} /\ r.failed = Found(r) /\ r.sent = {} /\ r.heard = {}
    /\ r.mode = "dry" => OnTheWay(r) = {} /\ r.heard = {}

RunInv ==
    /\ run.phase \in {"idle", "emitting", "persisted"}
    /\ run.phase = "idle" => run = Idle
    /\ run.phase # "idle" => Pool(run) /\ Accounted(run)
    /\ run.phase = "persisted" => Saves /\ run.inFlight = {} /\ run.recorded = run.sent

LEMMA OwnRows ==
    ASSUME StateInv
    PROVE  /\ DOMAIN Own \subseteq Votes
           /\ \A v : v \in DOMAIN Own <=> <<bondType, v>> \in DOMAIN rows
           /\ \A v \in DOMAIN Own : Own[v] = rows[<<bondType, v>>]
<1>1. DOMAIN Own = {k[2] : k \in {x \in DOMAIN rows : x[1] = bondType}}
  BY DEF Own, loadPreviousState
<1>2. \A k \in DOMAIN rows : k = <<k[1], k[2]>> /\ k[2] \in Votes
  BY DEF StateInv
<1>3. \A v : <<bondType, v>>[1] = bondType /\ <<bondType, v>>[2] = v
  OBVIOUS
<1>4. \A v : v \in DOMAIN Own <=> <<bondType, v>> \in DOMAIN rows
  BY <1>1, <1>2, <1>3, Zenon
<1>5. \A v \in DOMAIN Own : Own[v] = rows[<<bondType, v>>]
  BY <1>1 DEF Own, loadPreviousState
<1> QED
  BY <1>1, <1>2, <1>4, <1>5

LEMMA FoundIsAll ==
    ASSUME StateInv, NEW r, DOMAIN r.input \subseteq Votes
    PROVE  /\ IsList(evaluate(r.input, Compared(r), r.epoch))
           /\ ToSet(evaluate(r.input, Compared(r), r.epoch)) = Found(r)
<1>1. IsFiniteSet(DOMAIN r.input)
  BY EventingAssumption, FS_Subset
<1>2. IsFiniteSet(DOMAIN Compared(r))
  <2>1. IsFiniteSet(DOMAIN Own)
    BY OwnRows, EventingAssumption, FS_Subset
  <2>2. DOMAIN Empty = {}
    BY DEF Empty
  <2> QED
    BY <2>1, <2>2, FS_EmptySet DEF Compared
<1> QED
  BY <1>1, <1>2, EvaluateTells DEF Found

(* The steps of a run keep its rows and what it compares.                  *)
LEMMA FoundSame ==
    ASSUME NEW r, NEW f, f.mode = r.mode, f.input = r.input, f.epoch = r.epoch
    PROVE  Found(f) = Found(r)
  BY DEF Found, Compared

-----------------------------------------------------------------------------
(* The first steps of a run                                                *)

LEMMA EvaluateRun ==
    ASSUME StateInv, NEW mode \in Modes, NEW input, DOMAIN input \subseteq Votes,
           Evaluate(mode, input), Own' = Own, bondType' = bondType
    PROVE  /\ run'.phase = "emitting" /\ run'.input = input
           /\ Pool(run') /\ Accounted(run') /\ run'.mode = mode
           /\ run'.heard = {}
<1> DEFINE previous == IF mode = "stateless" THEN Empty ELSE loadPreviousState
           events == evaluate(input, previous, epoch)
           queue == IF mode \in {"live", "stateless"} THEN events ELSE <<>>
           sent == IF mode = "dry" THEN ToSet(events) ELSE {}
           failed == IF mode = "mute" THEN ToSet(events) ELSE {}
           r == [Idle EXCEPT !.phase = "emitting", !.mode = mode,
                             !.input = input, !.epoch = epoch,
                             !.queue = queue, !.sent = sent, !.failed = failed]
<1>1. run' = Filled(r)
  BY DEF Evaluate
<1> HIDE DEF queue, sent, failed
<1>2. /\ r.phase = "emitting" /\ r.mode = mode /\ r.input = input /\ r.epoch = epoch
      /\ r.queue = queue /\ r.sent = sent /\ r.failed = failed
      /\ r.inFlight = {} /\ r.heard = {} /\ r.recorded = {} /\ IsRun(r)
  <2> DEFINE r1 == [Idle EXCEPT !.phase = "emitting", !.mode = mode]
             r2 == [r1 EXCEPT !.input = input, !.epoch = epoch]
             r3 == [r2 EXCEPT !.queue = queue, !.sent = sent]
  <2>1. /\ r1.phase = "emitting" /\ r1.mode = mode
        /\ r1.inFlight = {} /\ r1.heard = {} /\ r1.recorded = {} /\ IsRun(r1)
    BY DEF Idle, IsRun, RunFields
  <2> HIDE DEF r1
  <2>2. /\ r2.phase = "emitting" /\ r2.mode = mode /\ r2.input = input /\ r2.epoch = epoch
        /\ r2.inFlight = {} /\ r2.heard = {} /\ r2.recorded = {} /\ IsRun(r2)
    BY <2>1 DEF IsRun, RunFields
  <2> HIDE DEF r2
  <2>3. /\ r3.phase = "emitting" /\ r3.mode = mode /\ r3.input = input /\ r3.epoch = epoch
        /\ r3.queue = queue /\ r3.sent = sent
        /\ r3.inFlight = {} /\ r3.heard = {} /\ r3.recorded = {} /\ IsRun(r3)
    BY <2>2 DEF IsRun, RunFields
  <2> HIDE DEF r3
  <2>4. r = [r3 EXCEPT !.failed = failed]
    BY DEF r1, r2, r3
  <2> HIDE DEF r
  <2> QED
    BY <2>3, <2>4 DEF IsRun, RunFields
<1>3. events = evaluate(r.input, Compared(r), r.epoch)
  BY <1>2, Zenon DEF Compared, Own
<1> HIDE DEF r
<1> USE DEF queue, sent, failed
<1> HIDE DEF events
<1>4. IsList(events) /\ ToSet(events) = Found(r)
  BY <1>2, <1>3, FoundIsAll
<1>5. IsList(<<>>) /\ ToSet(<<>>) = {}
  <2>1. <<>> \in Seq({})
    OBVIOUS
  <2> QED
    BY <2>1 DEF IsList, ToSet
<1>6. Loose(r)
  BY <1>2, <1>4, <1>5, FS_EmptySet, EventingAssumption DEF Loose
<1>7. /\ Pool(run') /\ SameRun(run', r) /\ OnTheWay(run') = OnTheWay(r)
  BY <1>1, <1>6, FilledPool
<1>8. OnTheWay(r) = IF mode \in {"live", "stateless"} THEN Found(r) ELSE {}
  BY <1>2, <1>4, <1>5 DEF OnTheWay
<1>9. Found(run') = Found(r)
  BY <1>7, FoundSame DEF SameRun
<1>10. Accounted(run')
  BY <1>2, <1>4, <1>7, <1>8, <1>9 DEF Accounted, SameRun, Modes
<1> QED
  BY <1>2, <1>7, <1>10 DEF SameRun

(* The steps of a run leave the table, so what it found stays what it is.  *)
LEMMA StaysAccounted ==
    ASSUME bondType' = bondType, rows' = rows
    PROVE  /\ Own' = Own
           /\ Found(run)' = Found(run')
           /\ Accounted(run') => Accounted(run)'
           /\ Pool(run') => Pool(run)'
<1>1. Own' = Own
  BY DEF Own, loadPreviousState
<1>2. Found(run)' = Found(run')
  BY <1>1 DEF Found, Compared, Reported, eventsOf, delistedOf
<1>3. Accounted(run') => Accounted(run)'
  BY <1>2 DEF Accounted, OnTheWay, Modes
<1>4. Pool(run') => Pool(run)'
  BY DEF Pool, Loose, IsRun, IsList, Posted
<1> QED
  BY <1>1, <1>2, <1>3, <1>4

(* A request that is through leaves the pool, its events stay accounted.   *)
LEMMA FinishedRun ==
    ASSUME NEW r, Pool(r), Accounted(r), NEW p \in r.inFlight,
           NEW heard \in BOOLEAN, NEW status \in {"sent", "failed"}, status = "sent" => heard
    PROVE  LET f == Finished(r, p, heard, status)
           IN  /\ Pool(f) /\ Accounted(f)
               /\ f.phase = r.phase /\ f.mode = r.mode /\ f.input = r.input /\ f.epoch = r.epoch
               /\ f.heard = IF heard THEN r.heard \cup {p.event} ELSE r.heard
<1> DEFINE A == r.inFlight \ {p}
           sent == IF status = "sent" THEN r.sent \cup {p.event} ELSE r.sent
           failed == IF status = "failed" THEN r.failed \cup {p.event} ELSE r.failed
           ears == IF heard THEN r.heard \cup {p.event} ELSE r.heard
           g == [r EXCEPT !.inFlight = A, !.sent = sent, !.failed = failed, !.heard = ears]
           f == Finished(r, p, heard, status)
<1>1. f = Filled(g)
  BY DEF Finished
<1>2. A \subseteq r.inFlight /\ A \cup {p} = r.inFlight
  OBVIOUS
<1> HIDE DEF A, sent, failed, ears
<1>3. /\ IsRun(g) /\ g.phase = r.phase /\ g.mode = r.mode /\ g.input = r.input
      /\ g.epoch = r.epoch /\ g.queue = r.queue /\ g.inFlight = A /\ g.sent = sent
      /\ g.failed = failed /\ g.heard = ears
  <2> DEFINE g1 == [r EXCEPT !.inFlight = A, !.sent = sent]
  <2>1. IsRun(r)
    BY DEF Pool, Loose
  <2>2. /\ IsRun(g1) /\ g1.phase = r.phase /\ g1.mode = r.mode /\ g1.input = r.input
        /\ g1.epoch = r.epoch /\ g1.queue = r.queue /\ g1.inFlight = A /\ g1.sent = sent
    BY <2>1 DEF IsRun, RunFields
  <2>3. g = [g1 EXCEPT !.failed = failed, !.heard = ears]
    BY DEF g1
  <2> HIDE DEF g, g1
  <2> QED
    BY <2>2, <2>3 DEF IsRun, RunFields
<1> HIDE DEF g
<1>4. Loose(g)
  <2>1. IsFiniteSet(A) /\ Cardinality(A) <= Cardinality(r.inFlight)
    BY <1>2, FS_Subset DEF Pool, Loose
  <2>2. Cardinality(A) \in Nat /\ Cardinality(r.inFlight) \in Nat /\ emitConcurrency \in Nat
    BY <2>1, FS_CardinalityType, EventingAssumption DEF Pool, Loose
  <2>3. Cardinality(A) <= emitConcurrency
    BY <2>1, <2>2 DEF Pool, Loose
  <2> QED
    BY <1>2, <1>3, <2>1, <2>3 DEF Pool, Loose
<1>5. Pool(f) /\ SameRun(f, g) /\ OnTheWay(f) = OnTheWay(g)
  BY <1>1, <1>4, FilledPool
<1> HIDE DEF f
<1>6. OnTheWay(r) = OnTheWay(g) \cup {p.event}
  BY <1>2, <1>3 DEF OnTheWay
<1>7. r.mode \in {"live", "stateless"}
  BY <1>6 DEF Accounted, Modes
<1>8. /\ f.mode = r.mode /\ f.input = r.input /\ f.epoch = r.epoch
      /\ f.sent = sent /\ f.failed = failed /\ f.heard = ears
  BY <1>3, <1>5 DEF SameRun
<1>9. Found(f) = Found(r)
  BY <1>8, FoundSame
<1>10. OnTheWay(f) \cup f.sent \cup f.failed = Found(f)
  <2>1. OnTheWay(r) \cup r.sent \cup r.failed = Found(r)
    BY <1>7 DEF Accounted
  <2>2. sent \cup failed = r.sent \cup r.failed \cup {p.event}
    BY DEF sent, failed
  <2> QED
    BY <1>5, <1>6, <1>8, <1>9, <2>1, <2>2
<1>11. f.sent \subseteq f.heard /\ f.heard \subseteq Found(f)
  <2>1. /\ r.sent \subseteq r.heard /\ r.heard \subseteq Found(r)
        /\ OnTheWay(r) \subseteq Found(r)
    BY <1>7 DEF Accounted
  <2> QED
    BY <1>6, <1>8, <1>9, <2>1 DEF sent, ears
<1>12. Accounted(f)
  BY <1>7, <1>8, <1>10, <1>11 DEF Accounted, Modes
<1> QED
  BY <1>3, <1>5, <1>8, <1>12 DEF SameRun, f, ears

LEMMA RetriedRun ==
    ASSUME NEW r, Pool(r), Accounted(r), NEW p \in r.inFlight, NEW heard \in BOOLEAN
    PROVE  LET f == Retried(r, p, heard)
           IN  /\ Pool(f) /\ Accounted(f)
               /\ f.phase = r.phase /\ f.mode = r.mode /\ f.input = r.input /\ f.epoch = r.epoch
               /\ f.heard = IF heard THEN r.heard \cup {p.event} ELSE r.heard
<1> DEFINE q == [p EXCEPT !.attempt = @ + 1]
           A == (r.inFlight \ {p}) \cup {q}
           ears == IF heard THEN r.heard \cup {p.event} ELSE r.heard
           f == [r EXCEPT !.inFlight = A, !.heard = ears]
<1>1. CASE p.attempt < retryMaxAttempts
  <2>1. Retried(r, p, heard) = f
    BY <1>1 DEF Retried
  <2>2. Posted(q) /\ q.event = p.event
    BY DEF Pool, Loose, Posted
  <2> HIDE DEF q
  <2>3. {x.event : x \in A} = {x.event : x \in r.inFlight}
    BY <2>2
  <2>4. IsFiniteSet(A) /\ Cardinality(A) <= emitConcurrency
    <3>1. /\ IsFiniteSet(r.inFlight \ {p})
          /\ Cardinality(r.inFlight \ {p}) = Cardinality(r.inFlight) - 1
      BY FS_RemoveElement DEF Pool, Loose
    <3>2. IsFiniteSet(A) /\ Cardinality(A) <= Cardinality(r.inFlight \ {p}) + 1
      <4>1. Cardinality(r.inFlight \ {p}) \in Nat
        BY <3>1, FS_CardinalityType
      <4> QED
        BY <3>1, <4>1, FS_AddElement
    <3>3. /\ Cardinality(A) \in Nat /\ Cardinality(r.inFlight) \in Nat /\ emitConcurrency \in Nat
          /\ Cardinality(r.inFlight) <= emitConcurrency
      BY <3>2, FS_CardinalityType, EventingAssumption DEF Pool, Loose
    <3> HIDE DEF A
    <3> QED
      BY <3>1, <3>2, <3>3
  <2>5. A # {} /\ \A x \in A : Posted(x)
    BY <2>2 DEF Pool, Loose
  <2> HIDE DEF A, ears
  <2>6. /\ IsRun(f) /\ f.phase = r.phase /\ f.mode = r.mode /\ f.input = r.input
        /\ f.epoch = r.epoch /\ f.queue = r.queue /\ f.inFlight = A /\ f.sent = r.sent
        /\ f.failed = r.failed /\ f.heard = ears
    BY DEF Pool, Loose, IsRun, RunFields
  <2> HIDE DEF f
  <2>7. Pool(f)
    BY <2>4, <2>5, <2>6 DEF Pool, Loose
  <2>8. OnTheWay(f) = OnTheWay(r) /\ p.event \in OnTheWay(r)
    BY <2>3, <2>6 DEF OnTheWay
  <2>9. r.mode \in {"live", "stateless"}
    BY <2>8 DEF Accounted, Modes
  <2>10. Found(f) = Found(r)
    BY <2>6, FoundSame
  <2>11. Accounted(f)
    <3>1. /\ OnTheWay(r) \cup r.sent \cup r.failed = Found(r)
          /\ r.sent \subseteq r.heard /\ r.heard \subseteq Found(r)
      BY <2>9 DEF Accounted
    <3>2. r.heard \subseteq ears /\ ears \subseteq r.heard \cup {p.event}
      BY DEF ears
    <3>3. /\ OnTheWay(f) \cup f.sent \cup f.failed = Found(f)
          /\ f.sent \subseteq f.heard /\ f.heard \subseteq Found(f)
      BY <2>6, <2>8, <2>10, <3>1, <3>2
    <3> QED
      BY <2>6, <2>9, <3>3 DEF Accounted, Modes
  <2> QED
    BY <2>1, <2>6, <2>7, <2>11 DEF ears
<1>2. CASE ~ (p.attempt < retryMaxAttempts)
  <2>1. Retried(r, p, heard) = Finished(r, p, heard, "failed")
    BY <1>2 DEF Retried
  <2>2. "failed" \in {"sent", "failed"} /\ ("failed" = "sent" => heard)
    OBVIOUS
  <2>3. LET g == Finished(r, p, heard, "failed")
        IN  /\ Pool(g) /\ Accounted(g)
            /\ g.phase = r.phase /\ g.mode = r.mode /\ g.input = r.input /\ g.epoch = r.epoch
            /\ g.heard = IF heard THEN r.heard \cup {p.event} ELSE r.heard
    BY <2>2, FinishedRun
  <2> QED
    BY <2>1, <2>3
<1> QED
  BY <1>1, <1>2

(* A run that keeps the table and gives itself another state               *)
LEMMA RunMoves ==
    ASSUME StateInv, bondType' = bondType, rows' = rows, world' = world,
           DOMAIN run'.input \subseteq Votes,
           \A v \in DOMAIN run'.input : run'.input[v] \in Readings[bondType],
           \/ run' = Idle
           \/ run'.phase = "emitting" /\ Pool(run') /\ Accounted(run')
    PROVE  StateInv' /\ RunInv'
<1>1. /\ Own' = Own
      /\ Accounted(run') => Accounted(run)'
      /\ Pool(run') => Pool(run)'
  BY StaysAccounted
<1>2. StateInv'
  BY <1>1 DEF StateInv, toState
<1>3. CASE run' = Idle
  <2>1. run'.phase = "idle"
    BY <1>3 DEF Idle
  <2>2. (run.phase = "idle" => run = Idle)'
    BY <1>3 DEF Idle
  <2> QED
    BY <1>2, <2>1, <2>2 DEF RunInv
<1>4. CASE run'.phase = "emitting" /\ Pool(run') /\ Accounted(run')
  BY <1>1, <1>2, <1>4 DEF RunInv
<1> QED
  BY <1>2, <1>3, <1>4

LEMMA IdleInput ==
    DOMAIN Idle.input = {} /\ DOMAIN Empty = {} /\ Idle.phase = "idle"
  BY DEF Idle, Empty

LEMMA StartSteps ==
    ASSUME StateInv, RunInv, StartRun \/ StartOddRun
    PROVE  StateInv' /\ RunInv'
<1>1. PICK mode \in Modes, input \in {world, Empty} : Evaluate(mode, input)
  BY DEF StartRun, StartOddRun, Modes
<1>2. UNCHANGED <<bondType, world, rows>>
  BY <1>1 DEF Evaluate
<1>3. /\ DOMAIN input \subseteq Votes
      /\ \A v \in DOMAIN input : input[v] \in Readings[bondType]
  BY IdleInput DEF StateInv
<1>4. Own' = Own
  BY <1>2, StaysAccounted
<1>5. run'.phase = "emitting" /\ run'.input = input /\ Pool(run') /\ Accounted(run')
  BY <1>1, <1>2, <1>3, <1>4, EvaluateRun
<1> QED
  BY <1>2, <1>3, <1>5, RunMoves

LEMMA EmissionSteps ==
    ASSUME StateInv, RunInv, Acknowledged \/ AnswerLost \/ NotReceived \/ Rejected
    PROVE  StateInv' /\ RunInv'
<1>1. Emitting /\ UNCHANGED <<bondType, world, rows>>
  BY DEF Acknowledged, AnswerLost, NotReceived, Rejected
<1>2. run.phase = "emitting" /\ Pool(run) /\ Accounted(run)
  BY <1>1 DEF RunInv, Emitting
<1>3. PICK p \in run.inFlight :
         \/ run' = Finished(run, p, TRUE, "sent")
         \/ \E heard \in BOOLEAN : run' = Retried(run, p, heard)
         \/ run' = Finished(run, p, FALSE, "failed")
  <2>1. CASE Acknowledged
    BY <2>1 DEF Acknowledged
  <2>2. CASE AnswerLost
    BY <2>2 DEF AnswerLost
  <2>3. CASE NotReceived
    BY <2>3 DEF NotReceived
  <2>4. CASE Rejected
    BY <2>4 DEF Rejected
  <2> QED
    BY <2>1, <2>2, <2>3, <2>4
<1>4. /\ Pool(run') /\ Accounted(run') /\ run'.phase = run.phase /\ run'.input = run.input
  <2>1. CASE run' = Finished(run, p, TRUE, "sent")
    BY <1>2, <2>1, FinishedRun
  <2>2. CASE \E heard \in BOOLEAN : run' = Retried(run, p, heard)
    <3>1. PICK heard \in BOOLEAN : run' = Retried(run, p, heard)
      BY <2>2
    <3> QED
      BY <1>2, <3>1, RetriedRun
  <2>3. CASE run' = Finished(run, p, FALSE, "failed")
    BY <1>2, <2>3, FinishedRun
  <2> QED
    BY <1>3, <2>1, <2>2, <2>3
<1> QED
  BY <1>1, <1>2, <1>4, RunMoves DEF StateInv

LEMMA PersistStep ==
    ASSUME StateInv, RunInv, persistEvents
    PROVE  StateInv' /\ RunInv'
<1>1. /\ Emitted /\ Saves /\ UNCHANGED <<bondType, world, rows>>
      /\ run' = [run EXCEPT !.phase = "persisted", !.recorded = run.sent]
  BY DEF persistEvents
<1>2. run.inFlight = {} /\ Pool(run) /\ Accounted(run)
  BY <1>1 DEF RunInv, Emitted, Emitting
<1> DEFINE f == [run EXCEPT !.phase = "persisted", !.recorded = run.sent]
<1>3. /\ IsRun(f) /\ f.phase = "persisted" /\ f.mode = run.mode /\ f.input = run.input
      /\ f.epoch = run.epoch /\ f.queue = run.queue /\ f.inFlight = run.inFlight
      /\ f.sent = run.sent /\ f.failed = run.failed /\ f.heard = run.heard
      /\ f.recorded = run.sent
  BY <1>2 DEF Pool, Loose, IsRun, RunFields
<1>4. run' = f
  BY <1>1
<1> HIDE DEF f
<1>5. Pool(f)
  BY <1>2, <1>3 DEF Pool, Loose
<1>6. Accounted(f)
  <2>1. Found(f) = Found(run) /\ OnTheWay(f) = OnTheWay(run)
    BY <1>3, FoundSame DEF OnTheWay
  <2> QED
    BY <1>2, <1>3, <2>1 DEF Accounted
<1>7. Pool(run)' /\ Accounted(run)' /\ Own' = Own
  BY <1>1, <1>4, <1>5, <1>6, StaysAccounted
<1>8. StateInv'
  BY <1>1, <1>3, <1>4, <1>7 DEF StateInv, toState
<1> QED
  BY <1>1, <1>2, <1>3, <1>4, <1>7, <1>8 DEF RunInv, Saves

LEMMA EndSteps ==
    ASSUME StateInv, RunInv, FinishUnsaved \/ Crash
    PROVE  StateInv' /\ RunInv'
<1>1. run' = Idle /\ UNCHANGED <<bondType, world, rows>>
  BY DEF FinishUnsaved, Crash
<1> QED
  BY <1>1, IdleInput, RunMoves

LEMMA EnvironmentSteps ==
    ASSUME StateInv, RunInv, WorldChanges \/ NextEpoch
    PROVE  StateInv' /\ RunInv'
<1>1. run' = run /\ UNCHANGED <<bondType, rows>>
  BY DEF WorldChanges, NextEpoch
<1>2. /\ DOMAIN world' \subseteq Votes
      /\ \A v \in DOMAIN world' : world'[v] \in Readings[bondType]
  <2>1. CASE NextEpoch
    BY <2>1 DEF NextEpoch, StateInv
  <2>2. CASE WorldChanges
    <3>1. CASE \E v \in Votes, r \in Readings[bondType] :
                 world' = Updated(world, [x \in {v} |-> r])
      BY <3>1 DEF Updated, StateInv
    <3>2. CASE \E v \in DOMAIN world : world' = Without(world, {v})
      BY <3>2 DEF Without, StateInv
    <3> QED
      BY <2>2, <3>1, <3>2 DEF WorldChanges
  <2> QED
    BY <2>1, <2>2
<1>3. Own' = Own /\ (Pool(run) => Pool(run)') /\ (Accounted(run) => Accounted(run)')
  <2>1. Pool(run') = Pool(run) /\ Accounted(run') = Accounted(run)
    BY <1>1
  <2> QED
    BY <1>1, <2>1, StaysAccounted
<1>4. StateInv'
  BY <1>1, <1>2, <1>3 DEF StateInv, toState
<1> QED
  BY <1>1, <1>3, <1>4 DEF RunInv, Saves

-----------------------------------------------------------------------------
(* The transaction                                                         *)

SavedKeys == {bondType} \X succeededVotes

DeletedKeys == {k \in DOMAIN rows \cup SavedKeys : k[1] = bondType /\ k[2] \notin keepVoteAccounts}

LEMMA SavedRows ==
    ASSUME SaveState
    PROVE  /\ DOMAIN rows' = (DOMAIN rows \cup SavedKeys) \ DeletedKeys
           /\ \A k \in DOMAIN rows' :
                 rows'[k] = IF k \in SavedKeys THEN toState(run.input[k[2]], run.epoch)
                            ELSE rows[k]
<1> DEFINE T == saveCurrentState
<1>1. rows' = Without(T, {k \in DOMAIN T : k[1] = bondType /\ k[2] \notin keepVoteAccounts})
  BY DEF SaveState, deleteRemovedValidators
<1>2. DOMAIN T = DOMAIN rows \cup SavedKeys
  BY DEF saveCurrentState, Updated, SavedKeys
<1>3. \A k \in DOMAIN T : T[k] = IF k \in SavedKeys THEN toState(run.input[k[2]], run.epoch)
                                 ELSE rows[k]
  BY DEF saveCurrentState, Updated, SavedKeys
<1> HIDE DEF T
<1>4. rows' = [k \in DOMAIN T \ DeletedKeys |-> T[k]]
  BY <1>1, <1>2, Zenon DEF Without, DeletedKeys
<1> QED
  BY <1>2, <1>3, <1>4

LEMMA RowEpoch ==
    ASSUME NEW r, NEW ep
    PROVE  toState(r, ep).epoch = ep
<1>1. validatorToState(r, ep).epoch = ep
  BY DEF validatorToState
<1>2. institutionalValidatorToState(r, ep).epoch = ep
  BY DEF institutionalValidatorToState
<1> QED
  BY <1>1, <1>2 DEF toState

LEMMA SaveStep ==
    ASSUME StateInv, RunInv, SaveState
    PROVE  StateInv' /\ RunInv'
<1>1. run' = Idle /\ UNCHANGED <<bondType, world>>
  BY DEF SaveState
<1>2. RunInv'
  BY <1>1, IdleInput DEF RunInv
<1>3. succeededVotes \subseteq DOMAIN run.input
  BY DEF succeededVotes
<1>4. DOMAIN rows' \subseteq BondTypes \X Votes
  BY <1>3, SavedRows DEF StateInv, SavedKeys
<1>5. ASSUME NEW v \in DOMAIN Own'
      PROVE  \E r \in Readings[bondType] : Own'[v] = toState(r, Own'[v].epoch)
  <2> DEFINE k == <<bondType, v>>
  <2>1. k \in DOMAIN rows' /\ Own'[v] = rows'[k]
    <3>1. DOMAIN Own' = {x[2] : x \in {y \in DOMAIN rows' : y[1] = bondType}}
      BY <1>1 DEF Own, loadPreviousState
    <3>2. PICK x \in DOMAIN rows' : x[1] = bondType /\ x[2] = v
      BY <3>1
    <3>3. x = k
      BY <1>4, <3>2
    <3>4. Own'[v] = rows'[<<bondType, v>>]
      BY <1>1, <3>1 DEF Own, loadPreviousState
    <3> QED
      BY <3>2, <3>3, <3>4
  <2>2. k[2] = v
    OBVIOUS
  <2>3. CASE k \in SavedKeys
    <3>1. Own'[v] = toState(run.input[v], run.epoch) /\ v \in succeededVotes
      <4>1. Own'[v] = toState(run.input[k[2]], run.epoch)
        BY <2>1, <2>3, SavedRows
      <4> QED
        BY <2>2, <2>3, <4>1 DEF SavedKeys
    <3>2. run.input[v] \in Readings[bondType]
      BY <1>3, <3>1 DEF StateInv
    <3> QED
      BY <3>1, <3>2, RowEpoch
  <2>4. CASE k \notin SavedKeys
    <3>1. k \in DOMAIN rows /\ Own'[v] = rows[k]
      BY <2>1, <2>4, SavedRows
    <3> HIDE DEF k
    <3>2. v \in DOMAIN Own /\ Own[v] = rows[k]
      BY <3>1, OwnRows DEF k
    <3> QED
      BY <3>1, <3>2 DEF StateInv
  <2> QED
    BY <2>3, <2>4
<1>6. StateInv'
  BY <1>1, <1>4, <1>5, IdleInput DEF StateInv, toState
<1> QED
  BY <1>2, <1>6

LEMMA StartState ==
    ASSUME Init
    PROVE  StateInv /\ RunInv
<1>1. bondType \in BondTypes /\ run = Idle /\ world = [v \in Votes |-> FirstReading[bondType]]
      /\ DOMAIN rows = (BondTypes \ {bondType}) \X Votes
  BY DEF Init
<1>2. RunInv
  BY <1>1, IdleInput DEF RunInv
<1>3. DOMAIN Own = {}
  BY <1>1 DEF Own, loadPreviousState
<1>4. \A v \in DOMAIN world : world[v] \in Readings[bondType]
  BY <1>1, EventingAssumption
<1> QED
  BY <1>1, <1>2, <1>3, <1>4, IdleInput DEF StateInv

LEMMA StillState ==
    ASSUME StateInv, RunInv, UNCHANGED vars
    PROVE  StateInv' /\ RunInv'
<1>1. run' = run /\ UNCHANGED <<bondType, rows, world>>
  BY DEF vars
<1>2. Own' = Own /\ (Pool(run) => Pool(run)') /\ (Accounted(run) => Accounted(run)')
  <2>1. Pool(run') = Pool(run) /\ Accounted(run') = Accounted(run)
    BY <1>1
  <2> QED
    BY <1>1, <2>1, StaysAccounted
<1>3. StateInv'
  BY <1>1, <1>2 DEF StateInv, toState
<1> QED
  BY <1>1, <1>2, <1>3 DEF RunInv, Saves

LEMMA AllSteps ==
    ASSUME StateInv, RunInv, [Next]_vars
    PROVE  StateInv' /\ RunInv'
<1>1. CASE WorldChanges \/ NextEpoch
  BY <1>1, EnvironmentSteps
<1>2. CASE RunStep
  <2>1. CASE StartRun \/ StartOddRun
    BY <2>1, StartSteps
  <2>2. CASE Acknowledged \/ AnswerLost \/ NotReceived \/ Rejected
    BY <2>2, EmissionSteps
  <2>3. CASE persistEvents
    BY <2>3, PersistStep
  <2>4. CASE SaveState
    BY <2>4, SaveStep
  <2>5. CASE FinishUnsaved \/ Crash
    BY <2>5, EndSteps
  <2> QED
    BY <1>2, <2>1, <2>2, <2>3, <2>4, <2>5 DEF RunStep
<1>3. CASE UNCHANGED vars
  BY <1>3, StillState
<1> QED
  BY <1>1, <1>2, <1>3 DEF Next

-----------------------------------------------------------------------------
(* What is written or deleted is on record.                                *)

LEMMA RecordedBeforeSaved ==
    ASSUME StateInv, RunInv, SaveState, NEW k \in SavedKeys \cup DeletedKeys
    PROVE  /\ k[1] = bondType
           /\ {e \in Found(run) : e.vote = k[2]} \subseteq run.recorded \cap run.heard
<1>1. k[1] = bondType /\ k[2] \notin failedVoteAccounts
  BY DEF SavedKeys, DeletedKeys, succeededVotes, keepVoteAccounts
<1>2. /\ Saves /\ run.inFlight = {} /\ run.recorded = run.sent
      /\ Pool(run) /\ Accounted(run)
  BY DEF SaveState, RunInv
<1>3. OnTheWay(run) = {}
  BY <1>2 DEF OnTheWay, Pool, ToSet
<1>4. ASSUME NEW e \in Found(run), e.vote = k[2] PROVE e \in run.recorded \cap run.heard
  <2>1. e \notin run.failed
    BY <1>1, <1>4 DEF failedVoteAccounts, VotesIn
  <2>2. run.mode = "live"
    BY <1>2, <2>1 DEF Saves, Accounted
  <2> QED
    BY <1>2, <1>3, <2>1, <2>2 DEF Accounted
<1> QED
  BY <1>1, <1>4

(* The step of SavedOnRecord, as its definition has it                     *)
SavesOnRecord ==
    LET events == ToSet(evaluate(run.input, Own, run.epoch))
        row(table, k) == IF k \in DOMAIN table THEN {table[k]} ELSE {}
    IN  \A k \in DOMAIN rows \cup DOMAIN rows' :
          row(rows, k) # row(rows', k) =>
            /\ k[1] = bondType
            /\ {e \in events : e.vote = k[2]} \subseteq run.recorded \cap run.heard

LEMMA StepSavesOnRecord ==
    ASSUME StateInv, RunInv, [Next]_vars
    PROVE  SavesOnRecord
<1>1. CASE rows' = rows
  BY <1>1 DEF SavesOnRecord
<1>2. CASE SaveState
  <2> DEFINE row(table, k) == IF k \in DOMAIN table THEN {table[k]} ELSE {}
  <2>1. ToSet(evaluate(run.input, Own, run.epoch)) = Found(run)
    <3>1. Compared(run) = Own
      BY <1>2 DEF Compared, SaveState, RunInv, Saves
    <3>2. DOMAIN run.input \subseteq Votes
      BY DEF StateInv
    <3> QED
      BY <3>1, <3>2, FoundIsAll
  <2>2. ASSUME NEW k \in DOMAIN rows \cup DOMAIN rows', row(rows, k) # row(rows', k)
        PROVE  k \in SavedKeys \cup DeletedKeys
    <3> SUFFICES ASSUME k \notin SavedKeys, k \notin DeletedKeys PROVE FALSE
      OBVIOUS
    <3>1. k \in DOMAIN rows <=> k \in DOMAIN rows'
      BY <1>2, SavedRows
    <3>2. k \in DOMAIN rows' => rows'[k] = rows[k]
      BY <1>2, SavedRows
    <3> QED
      BY <2>2, <3>1, <3>2
  <2>3. ASSUME NEW k \in DOMAIN rows \cup DOMAIN rows', row(rows, k) # row(rows', k)
        PROVE  /\ k[1] = bondType
               /\ {e \in Found(run) : e.vote = k[2]} \subseteq run.recorded \cap run.heard
    BY <1>2, <2>2, <2>3, RecordedBeforeSaved
  <2> QED
    BY <2>1, <2>3, Zenon DEF SavesOnRecord
<1>3. [Next]_vars => rows' = rows \/ SaveState
  BY DEF Next, RunStep, WorldChanges, NextEpoch, StartRun, StartOddRun, Evaluate, Acknowledged,
         AnswerLost, NotReceived, Rejected, persistEvents, FinishUnsaved, Crash, vars
<1> QED
  BY <1>1, <1>2, <1>3

(* A row is written or deleted only when every event about its validator   *)
(* was received and is on record as sent, and never a row of the other     *)
(* type (runEventingPipeline), whatever the readings, the number of        *)
(* retries and of requests in flight.                                      *)
THEOREM RowsFollowTheRecord == Spec => SavedOnRecord
<1>1. Init => StateInv /\ RunInv
  BY StartState
<1>2. (StateInv /\ RunInv) /\ [Next]_vars => (StateInv /\ RunInv)'
  BY AllSteps
<1>3. StateInv /\ RunInv /\ [Next]_vars => [SavesOnRecord]_vars
  BY StepSavesOnRecord
<1>4. SavedOnRecord <=> [][SavesOnRecord]_vars
  BY DEF SavedOnRecord, SavesOnRecord
<1> QED
  BY <1>1, <1>2, <1>3, <1>4, PTL DEF Spec

-----------------------------------------------------------------------------
(* What the service knows while a run goes on                              *)

(* What a view can agree with a row on: one aspect for every kind of       *)
(* event, two of which share the auction                                   *)
Aspects == {"auction", "funded", "cap", "eligible", "underfunded", "settlement"}

AgreesOn(a, view, row) ==
    /\ a = "auction" => view.in_auction = row.in_auction
    /\ a = "funded" => view.funded \in {Null, row.funded}
    /\ a = "cap" => view.cap = row.cap_constraint
    /\ a = "eligible" => view.sam_eligible = row.sam_eligible
    /\ a = "underfunded" =>
          /\ row.bond_good_for_n_epochs # Null => view.epochs = row.bond_good_for_n_epochs
          /\ row.deficit # 0 => view.deficit = row.deficit
    /\ a = "settlement" =>
          (Pending(row) >= MIN_SETTLEMENT_LAMPORTS
             => view.settlement \in {Null, Pending(row)})

Touches(e, a) ==
    \/ a = "auction" /\ e.inner_type \in {"auction_entered", "auction_exited"}
    \/ a = "funded" /\ e.inner_type = "bond_balance_change"
    \/ a = "cap" /\ e.inner_type = "cap_changed"
    \/ a = "eligible" /\ e.inner_type = "sam_eligible_change"
    \/ a = "underfunded" /\ e.inner_type = "bond_underfunded_change"
    \/ a = "settlement" /\ e.inner_type = "settlement_applied"

ViewFields == {"in_auction", "funded", "cap", "epochs", "deficit", "settlement", "sam_eligible"}

IsView(view) == DOMAIN view = ViewFields /\ view = [x \in ViewFields |-> view[x]]

(* The events of a run about one validator                                 *)
News(r, v) ==
    IF v \in DOMAIN r.input THEN ToSet(eventsOf(r.input, Compared(r), r.epoch)[v])
    ELSE IF v \in DOMAIN Compared(r) THEN ToSet(delistedOf(r.input, Compared(r))[v])
    ELSE {}

HeardOf(r, v) == {e \in r.heard : e.vote = v}

(* Of what an event has told, the view agrees with the new row, of the     *)
(* rest with the old one.                                                  *)
Between(view, old, new, events) ==
    \A a \in Aspects :
        IF \E e \in events : Touches(e, a) THEN AgreesOn(a, view, new)
        ELSE AgreesOn(a, view, old)

(* InSync of one validator, whatever has been heard of it                  *)
Calm(v, views) ==
    IF v \in DOMAIN Own THEN v \in DOMAIN views /\ Agrees(views[v], Own[v])
    ELSE v \in DOMAIN views => views[v].funded \in {Null, 0} /\ ~views[v].in_auction

FirstOf(v, reading) ==
    IF bondType = "bidding" THEN FirstSeen(v, reading) ELSE InstitutionalFirstSeen(v, reading)

(* Of a validator that a run is telling about, the service knows some of   *)
(* the way from the old row to the new one.                                *)
ToldOf(v, views, r, lost) ==
    /\ v \in DOMAIN Own /\ v \in DOMAIN r.input /\ v \notin lost =>
          /\ v \in DOMAIN views
          /\ Between(views[v], Own[v], toState(r.input[v], r.epoch), HeardOf(r, v))
    /\ v \in DOMAIN r.input /\ v \notin DOMAIN Own /\ HeardOf(r, v) # {} =>
          v \in DOMAIN views /\ views[v] = Known(FirstOf(v, r.input[v]))
    /\ v \notin DOMAIN r.input /\ v \in DOMAIN Own /\ HeardOf(r, v) # {} =>
          v \notin DOMAIN views

Told(views, r, lost) ==
    /\ \A v \in DOMAIN views : IsView(views[v])
    /\ \A v : v \notin lost /\ HeardOf(r, v) = {} => Calm(v, views)
    /\ r.phase # "idle" /\ r.mode \in {"live", "mute"} => \A v : ToldOf(v, views, r, lost)

ToldInv == Told(told, run, astray)

-----------------------------------------------------------------------------
(* What one event changes                                                  *)

FieldsOf(a) ==
    {f \in ViewFields :
        \/ a = "auction" /\ f = "in_auction"
        \/ a = "funded" /\ f = "funded"
        \/ a = "cap" /\ f = "cap"
        \/ a = "eligible" /\ f = "sam_eligible"
        \/ a = "underfunded" /\ f \in {"epochs", "deficit"}
        \/ a = "settlement" /\ f = "settlement"}

SameBut(new, view, a) ==
    IsView(new) /\ \A f \in ViewFields \ FieldsOf(a) : new[f] = view[f]

LEMMA OtherAspects ==
    ASSUME NEW view, NEW new, NEW a \in Aspects, SameBut(new, view, a),
           NEW b \in Aspects, b # a, NEW row, AgreesOn(b, view, row)
    PROVE  AgreesOn(b, new, row)
<1>1. /\ a # "auction" => new.in_auction = view.in_auction
      /\ a # "funded" => new.funded = view.funded
      /\ a # "cap" => new.cap = view.cap
      /\ a # "eligible" => new.sam_eligible = view.sam_eligible
      /\ a # "underfunded" => new.epochs = view.epochs /\ new.deficit = view.deficit
      /\ a # "settlement" => new.settlement = view.settlement
  BY DEF SameBut, FieldsOf, ViewFields
<1> QED
  BY <1>1 DEF AgreesOn

(* The view after an event of a kind                                       *)
LEMMA ChangedView ==
    ASSUME NEW view, IsView(view), NEW e
    PROVE  LET new == Changed(view, e)
           IN  /\ e.inner_type = "auction_entered" =>
                     SameBut(new, view, "auction") /\ new.in_auction = TRUE
               /\ e.inner_type = "auction_exited" =>
                     SameBut(new, view, "auction") /\ new.in_auction = FALSE
               /\ e.inner_type = "cap_changed" =>
                     SameBut(new, view, "cap") /\ new.cap = e.current_cap
               /\ e.inner_type = "bond_balance_change" =>
                     SameBut(new, view, "funded") /\ new.funded = e.current_funded
               /\ e.inner_type = "settlement_applied" =>
                     SameBut(new, view, "settlement") /\ new.settlement = e.settlement_total
               /\ e.inner_type = "sam_eligible_change" =>
                     SameBut(new, view, "eligible")
                     /\ new.sam_eligible = e.current_sam_eligible
               /\ e.inner_type = "bond_underfunded_change" /\ "flat_deficit" \in DOMAIN e =>
                     SameBut(new, view, "underfunded") /\ new.deficit = e.flat_deficit
               /\ e.inner_type = "bond_underfunded_change" /\ "flat_deficit" \notin DOMAIN e =>
                     /\ SameBut(new, view, "underfunded")
                     /\ e.current_epochs # Null => new.epochs = e.current_epochs
                     /\ e.deficit # Null => new.deficit = solToLamports(e.deficit)
               /\ e.inner_type = "penalty_expected" => new = view
<1> DEFINE new == Changed(view, e)
<1>1. CASE e.inner_type = "auction_entered"
  <2>1. new = [view EXCEPT !.in_auction = TRUE]
    BY <1>1 DEF Changed
  <2> HIDE DEF new
  <2>2. SameBut(new, view, "auction") /\ new.in_auction = TRUE
    BY <2>1 DEF SameBut, FieldsOf, IsView, ViewFields
  <2> QED
    BY <1>1, <2>2 DEF new
<1>2. CASE e.inner_type = "auction_exited"
  <2>1. new = [view EXCEPT !.in_auction = FALSE]
    BY <1>2 DEF Changed
  <2> HIDE DEF new
  <2>2. SameBut(new, view, "auction") /\ new.in_auction = FALSE
    BY <2>1 DEF SameBut, FieldsOf, IsView, ViewFields
  <2> QED
    BY <1>2, <2>2 DEF new
<1>3. CASE e.inner_type = "cap_changed"
  <2>1. new = [view EXCEPT !.cap = e.current_cap]
    BY <1>3 DEF Changed
  <2> HIDE DEF new
  <2>2. SameBut(new, view, "cap") /\ new.cap = e.current_cap
    BY <2>1 DEF SameBut, FieldsOf, IsView, ViewFields
  <2> QED
    BY <1>3, <2>2 DEF new
<1>4. CASE e.inner_type = "bond_balance_change"
  <2>1. new = [view EXCEPT !.funded = e.current_funded]
    BY <1>4 DEF Changed
  <2> HIDE DEF new
  <2>2. SameBut(new, view, "funded") /\ new.funded = e.current_funded
    BY <2>1 DEF SameBut, FieldsOf, IsView, ViewFields
  <2> QED
    BY <1>4, <2>2 DEF new
<1>5. CASE e.inner_type = "settlement_applied"
  <2>1. new = [view EXCEPT !.settlement = e.settlement_total]
    BY <1>5 DEF Changed
  <2> HIDE DEF new
  <2>2. SameBut(new, view, "settlement") /\ new.settlement = e.settlement_total
    BY <2>1 DEF SameBut, FieldsOf, IsView, ViewFields
  <2> QED
    BY <1>5, <2>2 DEF new
<1>6. CASE e.inner_type = "sam_eligible_change"
  <2>1. new = [view EXCEPT !.sam_eligible = e.current_sam_eligible]
    BY <1>6 DEF Changed
  <2> HIDE DEF new
  <2>2. SameBut(new, view, "eligible") /\ new.sam_eligible = e.current_sam_eligible
    BY <2>1 DEF SameBut, FieldsOf, IsView, ViewFields
  <2> QED
    BY <1>6, <2>2 DEF new
<1>7. CASE e.inner_type = "bond_underfunded_change" /\ "flat_deficit" \in DOMAIN e
  <2>1. new = [view EXCEPT !.deficit = e.flat_deficit]
    BY <1>7 DEF Changed
  <2> HIDE DEF new
  <2>2. SameBut(new, view, "underfunded") /\ new.deficit = e.flat_deficit
    BY <2>1 DEF SameBut, FieldsOf, IsView, ViewFields
  <2> QED
    BY <1>7, <2>2 DEF new
<1>8. CASE e.inner_type = "bond_underfunded_change" /\ "flat_deficit" \notin DOMAIN e
  <2> DEFINE epochs == finiteOr(e.current_epochs, view.epochs)
             deficit == IF e.deficit = Null THEN view.deficit ELSE solToLamports(e.deficit)
  <2>1. new = [view EXCEPT !.epochs = epochs, !.deficit = deficit]
    BY <1>8 DEF Changed
  <2>2. /\ e.current_epochs # Null => epochs = e.current_epochs
        /\ e.deficit # Null => deficit = solToLamports(e.deficit)
    BY DEF finiteOr
  <2> HIDE DEF new, epochs, deficit
  <2>3. SameBut(new, view, "underfunded") /\ new.epochs = epochs /\ new.deficit = deficit
    BY <2>1 DEF SameBut, FieldsOf, IsView, ViewFields
  <2> QED
    BY <1>8, <2>2, <2>3 DEF new
<1>9. CASE e.inner_type = "penalty_expected"
  <2>1. new = view
    BY <1>9 DEF Changed
  <2> QED
    BY <1>9, <2>1
<1> QED
  BY <1>1, <1>2, <1>3, <1>4, <1>5, <1>6, <1>7, <1>8, <1>9

(* An event of validator v tells its view a bit of the row new.            *)
Improves(v, e, view, new) ==
    /\ e.vote = v /\ e.inner_type \notin {"first_seen", "validator_delisted"}
    /\ IsView(Changed(view, e))
    /\ \A a \in Aspects : Touches(e, a) => AgreesOn(a, Changed(view, e), new)
    /\ \A a \in Aspects : \A row :
          ~Touches(e, a) /\ AgreesOn(a, view, row) => AgreesOn(a, Changed(view, e), row)

LEMMA WhenHas ==
    ASSUME NEW c \in BOOLEAN, NEW e, NEW x \in ToSet(When(c, e))
    PROVE  x = e
  BY WhenTells

LEMMA Improving ==
    ASSUME NEW v, NEW e, NEW view, NEW new, NEW a \in Aspects,
           e.vote = v, e.inner_type \notin {"first_seen", "validator_delisted"},
           SameBut(Changed(view, e), view, a),
           \A b \in Aspects : Touches(e, b) <=> b = a,
           AgreesOn(a, Changed(view, e), new)
    PROVE  Improves(v, e, view, new)
<1>1. IsView(Changed(view, e))
  BY DEF SameBut
<1>2. \A b \in Aspects : \A row :
         ~Touches(e, b) /\ AgreesOn(b, view, row) => AgreesOn(b, Changed(view, e), row)
  BY OtherAspects
<1> QED
  BY <1>1, <1>2 DEF Improves

LEMMA BiddingEventsImprove ==
    ASSUME NEW v, NEW rd, NEW prev, NEW ep, prev.in_auction \in BOOLEAN,
           NEW e \in ToSet(DeltasOf(v, rd, prev, ep)), NEW view, IsView(view)
    PROVE  Improves(v, e, view, validatorToState(rd, ep))
<1> DEFINE funded == solToLamports(rd.balance)
           effective == solToLamports(claimableOrBalance(rd))
           w == Changed(view, e)
           new == validatorToState(rd, ep)
<1>1. CASE e \in ToSet(AuctionStatusEvents(v, rd, prev))
  <2>1. isInAuction(rd) \in BOOLEAN
    BY DEF isInAuction
  <2>2. \/ isInAuction(rd) /\ e = [inner_type |-> "auction_entered", vote |-> v]
        \/ /\ ~isInAuction(rd)
           /\ e = [inner_type |-> "auction_exited", vote |-> v,
                   previous_auction_stake |-> prev.auction_stake]
    <3> DEFINE c1 == ~prev.in_auction /\ isInAuction(rd)
               e1 == [inner_type |-> "auction_entered", vote |-> v]
               c2 == prev.in_auction /\ ~isInAuction(rd)
               e2 == [inner_type |-> "auction_exited", vote |-> v,
                      previous_auction_stake |-> prev.auction_stake]
    <3>1. AuctionStatusEvents(v, rd, prev) = When(c1, e1) \o When(c2, e2)
      BY DEF AuctionStatusEvents
    <3>2. c1 \in BOOLEAN /\ c2 \in BOOLEAN /\ (c1 => isInAuction(rd)) /\ (c2 => ~isInAuction(rd))
      BY <2>1
    <3> HIDE DEF c1, c2
    <3>3. ToSet(When(c1, e1) \o When(c2, e2)) = ToSet(When(c1, e1)) \cup ToSet(When(c2, e2))
      BY <3>2, WhenTells, Joins
    <3> HIDE DEF e1, e2
    <3>4. (c1 /\ e = e1) \/ (c2 /\ e = e2)
      BY <1>1, <3>1, <3>2, <3>3, WhenTells
    <3> QED
      BY <3>2, <3>4 DEF e1, e2
  <2>3. /\ e.inner_type \in {"auction_entered", "auction_exited"} /\ e.vote = v
        /\ e.inner_type = "auction_entered" <=> isInAuction(rd)
    BY <2>2
  <2>4. SameBut(w, view, "auction") /\ w.in_auction = isInAuction(rd)
    BY <2>1, <2>3, ChangedView
  <2>5. AgreesOn("auction", w, new)
    BY <2>4 DEF AgreesOn, validatorToState
  <2>6. "auction" \in Aspects /\ \A b \in Aspects : Touches(e, b) <=> b = "auction"
    BY <2>3 DEF Touches, Aspects
  <2> QED
    BY <2>3, <2>4, <2>5, <2>6, Improving
<1>2. CASE e \in ToSet(CapEvents(v, rd, prev))
  <2> DEFINE c == prev.cap_constraint # rd.cap
             x == [inner_type |-> "cap_changed", vote |-> v,
                   previous_cap |-> prev.cap_constraint, current_cap |-> rd.cap]
  <2>0. e = x
    <3>1. c \in BOOLEAN /\ e \in ToSet(When(c, x))
      BY <1>2 DEF CapEvents
    <3> HIDE DEF c, x
    <3> QED
      BY <3>1, WhenHas
  <2>1. e.inner_type = "cap_changed" /\ e.vote = v /\ e.current_cap = rd.cap
    BY <2>0
  <2> HIDE DEF c, x
  <2>2. SameBut(w, view, "cap") /\ w.cap = rd.cap
    BY <2>1, ChangedView
  <2>3. AgreesOn("cap", w, new)
    BY <2>2 DEF AgreesOn, validatorToState
  <2>4. "cap" \in Aspects /\ \A b \in Aspects : Touches(e, b) <=> b = "cap"
    BY <2>1 DEF Touches, Aspects
  <2> QED
    BY <2>1, <2>2, <2>3, <2>4, Improving
<1>3. CASE e \in ToSet(UnderfundedEvents(v, rd, prev))
  <2> DEFINE c == \/ /\ prev.bond_good_for_n_epochs # Null
                     /\ roundEpochs(rd.epochs) # Null
                     /\ prev.bond_good_for_n_epochs # roundEpochs(rd.epochs)
                  \/ /\ prev.bond_good_for_n_epochs = Null
                     /\ roundEpochs(rd.epochs) # Null
                  \/ /\ computeDeficitMetrics(rd) # Null
                     /\ solToLamports(computeDeficitMetrics(rd)) # prev.deficit
             x == [inner_type |-> "bond_underfunded_change", vote |-> v,
                   previous_epochs |-> prev.bond_good_for_n_epochs,
                   current_epochs |-> roundEpochs(rd.epochs),
                   previous_deficit |-> prev.deficit, deficit |-> computeDeficitMetrics(rd)]
  <2>0. e = x
    <3>1. c \in BOOLEAN /\ e \in ToSet(When(c, x))
      BY <1>3 DEF UnderfundedEvents
    <3> HIDE DEF c, x
    <3> QED
      BY <3>1, WhenHas
  <2>1. /\ e.inner_type = "bond_underfunded_change" /\ e.vote = v
        /\ "flat_deficit" \notin DOMAIN e
        /\ e.current_epochs = roundEpochs(rd.epochs) /\ e.deficit = computeDeficitMetrics(rd)
    BY <2>0
  <2> HIDE DEF c, x
  <2>2. /\ SameBut(w, view, "underfunded")
        /\ roundEpochs(rd.epochs) # Null => w.epochs = roundEpochs(rd.epochs)
        /\ computeDeficitMetrics(rd) # Null => w.deficit = solToLamports(computeDeficitMetrics(rd))
    <3>1. e.inner_type = "bond_underfunded_change" /\ "flat_deficit" \notin DOMAIN e
      BY <2>1
    <3>2. /\ SameBut(w, view, "underfunded")
          /\ e.current_epochs # Null => w.epochs = e.current_epochs
          /\ e.deficit # Null => w.deficit = solToLamports(e.deficit)
      BY <3>1, ChangedView, Zenon
    <3> HIDE DEF w
    <3> QED
      BY <2>1, <3>2
  <2>3. solToLamports(computeDeficitMetrics(rd)) # 0 => computeDeficitMetrics(rd) # Null
    BY DEF solToLamports
  <2>4. AgreesOn("underfunded", w, new)
    BY <2>2, <2>3 DEF AgreesOn, validatorToState
  <2>5. "underfunded" \in Aspects /\ \A b \in Aspects : Touches(e, b) <=> b = "underfunded"
    BY <2>1 DEF Touches, Aspects
  <2> QED
    BY <2>1, <2>2, <2>4, <2>5, Improving
<1>4. CASE e \in ToSet(buildBondBalanceChangeEvent(v, prev, funded, effective))
  <2> DEFINE c == funded # prev.funded
             x == [inner_type |-> "bond_balance_change", vote |-> v,
                   previous_funded |-> prev.funded, current_funded |-> funded]
  <2>0. e = x
    <3>1. c \in BOOLEAN /\ e \in ToSet(When(c, x))
      BY <1>4 DEF buildBondBalanceChangeEvent
    <3> HIDE DEF c, x
    <3> QED
      BY <3>1, WhenHas
  <2>1. e.inner_type = "bond_balance_change" /\ e.vote = v /\ e.current_funded = funded
    BY <2>0
  <2> HIDE DEF c, x
  <2>2. SameBut(w, view, "funded") /\ w.funded = funded
    BY <2>1, ChangedView
  <2>3. AgreesOn("funded", w, new)
    BY <2>2 DEF AgreesOn, validatorToState
  <2>4. "funded" \in Aspects /\ \A b \in Aspects : Touches(e, b) <=> b = "funded"
    BY <2>1 DEF Touches, Aspects
  <2> QED
    BY <2>1, <2>2, <2>3, <2>4, Improving
<1>5. CASE e \in ToSet(buildSettlementAppliedEvent(v, funded - effective,
                                                   prev.funded - prev.effective))
  <2> DEFINE c == /\ funded - effective > 0
                  /\ funded - effective # prev.funded - prev.effective
                  /\ funded - effective >= MIN_SETTLEMENT_LAMPORTS
             x == [inner_type |-> "settlement_applied", vote |-> v,
                   previous_settlement |-> prev.funded - prev.effective,
                   settlement_total |-> funded - effective]
  <2>0. e = x
    <3>1. c \in BOOLEAN /\ e \in ToSet(When(c, x))
      BY <1>5 DEF buildSettlementAppliedEvent
    <3> HIDE DEF c, x
    <3> QED
      BY <3>1, WhenHas
  <2>1. /\ e.inner_type = "settlement_applied" /\ e.vote = v
        /\ e.settlement_total = funded - effective
    BY <2>0
  <2> HIDE DEF c, x
  <2>2. SameBut(w, view, "settlement") /\ w.settlement = funded - effective
    BY <2>1, ChangedView
  <2>3. Pending(new) = funded - effective
    BY DEF Pending, validatorToState, finiteOr
  <2>4. AgreesOn("settlement", w, new)
    BY <2>2, <2>3 DEF AgreesOn
  <2>5. "settlement" \in Aspects /\ \A b \in Aspects : Touches(e, b) <=> b = "settlement"
    BY <2>1 DEF Touches, Aspects
  <2> QED
    BY <2>1, <2>2, <2>4, <2>5, Improving
<1>6. CASE e \in ToSet(PenaltyEvents(v, rd, prev, ep))
  <2> DEFINE c == /\ \/ computePenalties(rd) > DUST_SOL_THRESHOLD
                     \/ activatingStakeFee(rd) > DUST_SOL_THRESHOLD
                  /\ prev.epoch # ep
             x == [inner_type |-> "penalty_expected", vote |-> v,
                   total_penalty |-> computePenalties(rd)]
  <2>0. e = x
    <3>1. c \in BOOLEAN /\ e \in ToSet(When(c, x))
      BY <1>6 DEF PenaltyEvents
    <3> HIDE DEF c, x
    <3> QED
      BY <3>1, WhenHas
  <2>1. e.inner_type = "penalty_expected" /\ e.vote = v
    BY <2>0
  <2> HIDE DEF c, x
  <2>2. w = view
    BY <2>1, ChangedView
  <2>3. \A b \in Aspects : ~Touches(e, b)
    BY <2>1 DEF Touches
  <2> QED
    BY <2>1, <2>2, <2>3 DEF Improves
<1>7. CASE e \in ToSet(EligibleEvents(v, rd, prev))
  <2> DEFINE c == prev.sam_eligible # rd.samEligible
             x == [inner_type |-> "sam_eligible_change", vote |-> v,
                   current_sam_eligible |-> rd.samEligible]
  <2>0. e = x
    <3>1. c \in BOOLEAN /\ e \in ToSet(When(c, x))
      BY <1>7 DEF EligibleEvents
    <3> HIDE DEF c, x
    <3> QED
      BY <3>1, WhenHas
  <2>1. /\ e.inner_type = "sam_eligible_change" /\ e.vote = v
        /\ e.current_sam_eligible = rd.samEligible
    BY <2>0
  <2> HIDE DEF c, x
  <2>2. SameBut(w, view, "eligible") /\ w.sam_eligible = rd.samEligible
    BY <2>1, ChangedView
  <2>3. AgreesOn("eligible", w, new)
    BY <2>2 DEF AgreesOn, validatorToState
  <2>4. "eligible" \in Aspects /\ \A b \in Aspects : Touches(e, b) <=> b = "eligible"
    BY <2>1 DEF Touches, Aspects
  <2> QED
    BY <2>1, <2>2, <2>3, <2>4, Improving
<1> HIDE DEF w, new
<1>8. \/ e \in ToSet(AuctionStatusEvents(v, rd, prev))
      \/ e \in ToSet(CapEvents(v, rd, prev))
      \/ e \in ToSet(UnderfundedEvents(v, rd, prev))
      \/ e \in ToSet(buildBondBalanceChangeEvent(v, prev, funded, effective))
      \/ e \in ToSet(buildSettlementAppliedEvent(v, funded - effective,
                                                 prev.funded - prev.effective))
      \/ e \in ToSet(PenaltyEvents(v, rd, prev, ep))
      \/ e \in ToSet(EligibleEvents(v, rd, prev))
  BY DeltasTell
<1> QED
  BY <1>1, <1>2, <1>3, <1>4, <1>5, <1>6, <1>7, <1>8 DEF new

LEMMA InstitutionalEventsImprove ==
    ASSUME NEW v, NEW rd, NEW prev, NEW ep,
           rd.claims \in Nat, Null \notin Int,
           NEW e \in ToSet(InstitutionalDeltasOf(v, rd, prev)), NEW view, IsView(view)
    PROVE  Improves(v, e, view, institutionalValidatorToState(rd, ep))
<1> DEFINE deficit == computeFlatDeficit(rd.stake, rd.effective)
           w == Changed(view, e)
           new == institutionalValidatorToState(rd, ep)
           E1 == FlatDeficitEvents(v, rd, prev)
           E2 == buildBondBalanceChangeEvent(v, prev, rd.funded, rd.effective)
           E3 == buildSettlementAppliedEvent(v, rd.claims, finiteOr(prev.settlement_claims, 0))
<1>1. CASE e \in ToSet(E1)
  <2> DEFINE c == deficit # prev.deficit
             x == [inner_type |-> "bond_underfunded_change", vote |-> v,
                   previous_deficit |-> prev.deficit, flat_deficit |-> deficit]
  <2>0. e = x
    <3>1. c \in BOOLEAN /\ e \in ToSet(When(c, x))
      BY <1>1 DEF FlatDeficitEvents
    <3> HIDE DEF c, x
    <3> QED
      BY <3>1, WhenHas
  <2>1. /\ e.inner_type = "bond_underfunded_change" /\ e.vote = v
        /\ "flat_deficit" \in DOMAIN e /\ e.flat_deficit = deficit
    BY <2>0
  <2> HIDE DEF c, x
  <2>2. SameBut(w, view, "underfunded") /\ w.deficit = deficit
    BY <2>1, ChangedView
  <2>3. AgreesOn("underfunded", w, new)
    BY <2>2 DEF AgreesOn, institutionalValidatorToState
  <2>4. "underfunded" \in Aspects /\ \A b \in Aspects : Touches(e, b) <=> b = "underfunded"
    BY <2>1 DEF Touches, Aspects
  <2> QED
    BY <2>1, <2>2, <2>3, <2>4, Improving
<1>2. CASE e \in ToSet(E2)
  <2> DEFINE c == rd.funded # prev.funded
             x == [inner_type |-> "bond_balance_change", vote |-> v,
                   previous_funded |-> prev.funded, current_funded |-> rd.funded]
  <2>0. e = x
    <3>1. c \in BOOLEAN /\ e \in ToSet(When(c, x))
      BY <1>2 DEF buildBondBalanceChangeEvent
    <3> HIDE DEF c, x
    <3> QED
      BY <3>1, WhenHas
  <2>1. e.inner_type = "bond_balance_change" /\ e.vote = v /\ e.current_funded = rd.funded
    BY <2>0
  <2> HIDE DEF c, x
  <2>2. SameBut(w, view, "funded") /\ w.funded = rd.funded
    BY <2>1, ChangedView
  <2>3. AgreesOn("funded", w, new)
    BY <2>2 DEF AgreesOn, institutionalValidatorToState
  <2>4. "funded" \in Aspects /\ \A b \in Aspects : Touches(e, b) <=> b = "funded"
    BY <2>1 DEF Touches, Aspects
  <2> QED
    BY <2>1, <2>2, <2>3, <2>4, Improving
<1>3. CASE e \in ToSet(E3)
  <2> DEFINE c == /\ rd.claims > 0
                  /\ rd.claims # finiteOr(prev.settlement_claims, 0)
                  /\ rd.claims >= MIN_SETTLEMENT_LAMPORTS
             x == [inner_type |-> "settlement_applied", vote |-> v,
                   previous_settlement |-> finiteOr(prev.settlement_claims, 0),
                   settlement_total |-> rd.claims]
  <2>0. e = x
    <3>1. c \in BOOLEAN /\ e \in ToSet(When(c, x))
      BY <1>3 DEF buildSettlementAppliedEvent
    <3> HIDE DEF c, x
    <3> QED
      BY <3>1, WhenHas
  <2>1. e.inner_type = "settlement_applied" /\ e.vote = v /\ e.settlement_total = rd.claims
    BY <2>0
  <2> HIDE DEF c, x
  <2>2. SameBut(w, view, "settlement") /\ w.settlement = rd.claims
    BY <2>1, ChangedView
  <2>3. Pending(new) = rd.claims
    BY DEF Pending, institutionalValidatorToState, finiteOr
  <2>4. AgreesOn("settlement", w, new)
    BY <2>2, <2>3 DEF AgreesOn
  <2>5. "settlement" \in Aspects /\ \A b \in Aspects : Touches(e, b) <=> b = "settlement"
    BY <2>1 DEF Touches, Aspects
  <2> QED
    BY <2>1, <2>2, <2>4, <2>5, Improving
<1> HIDE DEF w, new
<1>4. e \in ToSet(E1) \/ e \in ToSet(E2) \/ e \in ToSet(E3)
  BY InstitutionalDeltasTell
<1> QED
  BY <1>1, <1>2, <1>3, <1>4 DEF new

-----------------------------------------------------------------------------
(* What is not told has not changed                                        *)

LEMMA LamportsAre ==
    ASSUME NEW sol \in Nat \cup {Null}
    PROVE  solToLamports(sol) \in Nat
<1>1. CASE sol = Null
  BY <1>1 DEF solToLamports
<1>2. CASE sol # Null
  <2>1. /\ sol \in Nat /\ GRAINS \in Nat /\ GRAINS > 0
    BY <1>2, RoundingAssumption
  <2>2. GRAINS \div 2 \in Nat
    BY <2>1
  <2>3. solToLamports(sol) = (sol + (GRAINS \div 2)) \div GRAINS
    BY <1>2 DEF solToLamports
  <2> DEFINE n == sol + (GRAINS \div 2)
  <2>4. n \in Nat
    BY <2>1, <2>2
  <2> HIDE DEF n
  <2>5. n \div GRAINS \in Nat
    BY <2>1, <2>4
  <2> QED
    BY <2>3, <2>5 DEF n
<1> QED
  BY <1>1, <1>2

LEMMA BiddingSilence ==
    ASSUME NEW v, NEW rd \in Readings["bidding"], NEW old \in Readings["bidding"],
           NEW oep, NEW ep, NEW prev, prev = validatorToState(old, oep),
           NEW a \in Aspects, NEW view, AgreesOn(a, view, prev),
           \A e \in ToSet(DeltasOf(v, rd, prev, ep)) : ~Touches(e, a)
    PROVE  AgreesOn(a, view, validatorToState(rd, ep))
<1> DEFINE funded == solToLamports(rd.balance)
           effective == solToLamports(claimableOrBalance(rd))
           new == validatorToState(rd, ep)
<1>0. /\ prev.in_auction \in BOOLEAN /\ isInAuction(rd) \in BOOLEAN
      /\ prev.funded \in Nat /\ prev.effective \in Nat /\ prev.settlement_claims = Null
      /\ funded \in Nat /\ effective \in Nat
  <2>1. \A r \in Readings["bidding"] :
           r.balance \in Nat \cup {Null} /\ claimableOrBalance(r) \in Nat \cup {Null}
    BY ReadingsAssumption DEF claimableOrBalance, finiteOr
  <2>2. /\ prev.in_auction = isInAuction(old) /\ prev.settlement_claims = Null
        /\ prev.funded = solToLamports(old.balance)
        /\ prev.effective = solToLamports(claimableOrBalance(old))
    BY DEF validatorToState
  <2>3. isInAuction(old) \in BOOLEAN /\ isInAuction(rd) \in BOOLEAN
    BY DEF isInAuction
  <2> QED
    BY <2>1, <2>2, <2>3, LamportsAre
<1>1. CASE a = "auction"
  <2> DEFINE c1 == ~prev.in_auction /\ isInAuction(rd)
             e1 == [inner_type |-> "auction_entered", vote |-> v]
             c2 == prev.in_auction /\ ~isInAuction(rd)
             e2 == [inner_type |-> "auction_exited", vote |-> v,
                    previous_auction_stake |-> prev.auction_stake]
  <2>1. c1 \in BOOLEAN /\ c2 \in BOOLEAN
    OBVIOUS
  <2>2. Touches(e1, "auction") /\ Touches(e2, "auction")
    BY DEF Touches
  <2>3. AuctionStatusEvents(v, rd, prev) = When(c1, e1) \o When(c2, e2)
    BY DEF AuctionStatusEvents
  <2>4. ~c1 /\ ~c2
    <3> HIDE DEF c1, c2, e1, e2
    <3>1. ToSet(When(c1, e1) \o When(c2, e2)) = ToSet(When(c1, e1)) \cup ToSet(When(c2, e2))
      BY <2>1, WhenTells, Joins
    <3>2. (c1 => e1 \in ToSet(When(c1, e1))) /\ (c2 => e2 \in ToSet(When(c2, e2)))
      BY <2>1, WhenTells
    <3>3. ToSet(AuctionStatusEvents(v, rd, prev)) \subseteq ToSet(DeltasOf(v, rd, prev, ep))
      BY DeltasTell
    <3> QED
      BY <1>1, <2>2, <2>3, <3>1, <3>2, <3>3
  <2>5. prev.in_auction = isInAuction(rd)
    BY <1>0, <2>4
  <2> QED
    BY <1>1, <2>5 DEF AgreesOn, validatorToState
<1>2. CASE a = "funded"
  <2> DEFINE c == funded # prev.funded
             x == [inner_type |-> "bond_balance_change", vote |-> v,
                   previous_funded |-> prev.funded, current_funded |-> funded]
  <2>1. ~c
    <3> SUFFICES ASSUME c PROVE FALSE
      OBVIOUS
    <3>1. x \in ToSet(When(c, x))
      <4>1. c \in BOOLEAN
        OBVIOUS
      <4> HIDE DEF c, x
      <4> QED
        BY <4>1, WhenTells
    <3>2. x \in ToSet(DeltasOf(v, rd, prev, ep))
      <4>1. buildBondBalanceChangeEvent(v, prev, funded, effective) = When(c, x)
        BY DEF buildBondBalanceChangeEvent
      <4>2. ToSet(buildBondBalanceChangeEvent(v, prev, funded, effective))
              \subseteq ToSet(DeltasOf(v, rd, prev, ep))
        BY DeltasTell
      <4> HIDE DEF c, x
      <4> QED
        BY <3>1, <4>1, <4>2
    <3>3. Touches(x, "funded")
      BY DEF Touches
    <3> QED
      BY <1>2, <3>2, <3>3
  <2> QED
    BY <1>2, <2>1 DEF AgreesOn, validatorToState
<1>3. CASE a = "cap"
  <2> DEFINE c == prev.cap_constraint # rd.cap
             x == [inner_type |-> "cap_changed", vote |-> v,
                   previous_cap |-> prev.cap_constraint, current_cap |-> rd.cap]
  <2>1. ~c
    <3> SUFFICES ASSUME c PROVE FALSE
      OBVIOUS
    <3>1. x \in ToSet(When(c, x))
      <4>1. c \in BOOLEAN
        OBVIOUS
      <4> HIDE DEF c, x
      <4> QED
        BY <4>1, WhenTells
    <3>2. x \in ToSet(DeltasOf(v, rd, prev, ep))
      <4>1. CapEvents(v, rd, prev) = When(c, x)
        BY DEF CapEvents
      <4>2. ToSet(CapEvents(v, rd, prev))
              \subseteq ToSet(DeltasOf(v, rd, prev, ep))
        BY DeltasTell
      <4> HIDE DEF c, x
      <4> QED
        BY <3>1, <4>1, <4>2
    <3>3. Touches(x, "cap")
      BY DEF Touches
    <3> QED
      BY <1>3, <3>2, <3>3
  <2> QED
    BY <1>3, <2>1 DEF AgreesOn, validatorToState
<1>4. CASE a = "eligible"
  <2> DEFINE c == prev.sam_eligible # rd.samEligible
             x == [inner_type |-> "sam_eligible_change", vote |-> v,
                   current_sam_eligible |-> rd.samEligible]
  <2>1. ~c
    <3> SUFFICES ASSUME c PROVE FALSE
      OBVIOUS
    <3>1. x \in ToSet(When(c, x))
      <4>1. c \in BOOLEAN
        OBVIOUS
      <4> HIDE DEF c, x
      <4> QED
        BY <4>1, WhenTells
    <3>2. x \in ToSet(DeltasOf(v, rd, prev, ep))
      <4>1. EligibleEvents(v, rd, prev) = When(c, x)
        BY DEF EligibleEvents
      <4>2. ToSet(EligibleEvents(v, rd, prev))
              \subseteq ToSet(DeltasOf(v, rd, prev, ep))
        BY DeltasTell
      <4> HIDE DEF c, x
      <4> QED
        BY <3>1, <4>1, <4>2
    <3>3. Touches(x, "eligible")
      BY DEF Touches
    <3> QED
      BY <1>4, <3>2, <3>3
  <2> QED
    BY <1>4, <2>1 DEF AgreesOn, validatorToState
<1>5. CASE a = "underfunded"
  <2> DEFINE c == \/ /\ prev.bond_good_for_n_epochs # Null
                     /\ roundEpochs(rd.epochs) # Null
                     /\ prev.bond_good_for_n_epochs # roundEpochs(rd.epochs)
                  \/ /\ prev.bond_good_for_n_epochs = Null
                     /\ roundEpochs(rd.epochs) # Null
                  \/ /\ computeDeficitMetrics(rd) # Null
                     /\ solToLamports(computeDeficitMetrics(rd)) # prev.deficit
             x == [inner_type |-> "bond_underfunded_change", vote |-> v,
                   previous_epochs |-> prev.bond_good_for_n_epochs,
                   current_epochs |-> roundEpochs(rd.epochs),
                   previous_deficit |-> prev.deficit, deficit |-> computeDeficitMetrics(rd)]
  <2>1. ~c
    <3> SUFFICES ASSUME c PROVE FALSE
      OBVIOUS
    <3>1. x \in ToSet(When(c, x))
      <4>1. c \in BOOLEAN
        OBVIOUS
      <4> HIDE DEF c, x
      <4> QED
        BY <4>1, WhenTells
    <3>2. x \in ToSet(DeltasOf(v, rd, prev, ep))
      <4>1. UnderfundedEvents(v, rd, prev) = When(c, x)
        BY DEF UnderfundedEvents
      <4>2. ToSet(UnderfundedEvents(v, rd, prev))
              \subseteq ToSet(DeltasOf(v, rd, prev, ep))
        BY DeltasTell
      <4> HIDE DEF c, x
      <4> QED
        BY <3>1, <4>1, <4>2
    <3>3. Touches(x, "underfunded")
      BY DEF Touches
    <3> QED
      BY <1>5, <3>2, <3>3
  <2>2. roundEpochs(rd.epochs) \in {Null, prev.bond_good_for_n_epochs}
    BY <2>1
  <2>3. solToLamports(computeDeficitMetrics(rd)) # 0 =>
           solToLamports(computeDeficitMetrics(rd)) = prev.deficit
    BY <2>1 DEF solToLamports
  <2> QED
    BY <1>5, <2>2, <2>3 DEF AgreesOn, validatorToState
<1>6. CASE a = "settlement"
  <2> DEFINE c == /\ funded - effective > 0
                  /\ funded - effective # prev.funded - prev.effective
                  /\ funded - effective >= MIN_SETTLEMENT_LAMPORTS
             x == [inner_type |-> "settlement_applied", vote |-> v,
                   previous_settlement |-> prev.funded - prev.effective,
                   settlement_total |-> funded - effective]
  <2>1. ~c
    <3> SUFFICES ASSUME c PROVE FALSE
      OBVIOUS
    <3>1. x \in ToSet(When(c, x))
      <4>1. c \in BOOLEAN
        OBVIOUS
      <4> HIDE DEF c, x
      <4> QED
        BY <4>1, WhenTells
    <3>2. x \in ToSet(DeltasOf(v, rd, prev, ep))
      <4>1. buildSettlementAppliedEvent(v, funded - effective,
                                        prev.funded - prev.effective) = When(c, x)
        BY DEF buildSettlementAppliedEvent
      <4>2. ToSet(buildSettlementAppliedEvent(v, funded - effective,
                                        prev.funded - prev.effective))
              \subseteq ToSet(DeltasOf(v, rd, prev, ep))
        BY DeltasTell
      <4> HIDE DEF c, x
      <4> QED
        BY <3>1, <4>1, <4>2
    <3>3. Touches(x, "settlement")
      BY DEF Touches
    <3> QED
      BY <1>6, <3>2, <3>3
  <2>2. Pending(new) = funded - effective /\ Pending(prev) = prev.funded - prev.effective
    BY <1>0 DEF Pending, validatorToState, finiteOr
  <2>3. Pending(new) >= MIN_SETTLEMENT_LAMPORTS => Pending(new) = Pending(prev)
    <3>1. MIN_SETTLEMENT_LAMPORTS \in Nat /\ MIN_SETTLEMENT_LAMPORTS > 0
      BY RoundingAssumption
    <3> HIDE DEF new, funded, effective
    <3> QED
      BY <1>0, <2>1, <2>2, <3>1
  <2>4. AgreesOn(a, view, new)
    <3> HIDE DEF new
    <3> QED
      BY <1>6, <2>3 DEF AgreesOn
  <2> QED
    BY <2>4
<1> QED
  BY <1>1, <1>2, <1>3, <1>4, <1>5, <1>6 DEF Aspects

LEMMA InstitutionalSilence ==
    ASSUME NEW v, NEW rd \in Readings["institutional"], NEW old \in Readings["institutional"],
           NEW oep, NEW ep, NEW prev, prev = institutionalValidatorToState(old, oep),
           NEW a \in Aspects, NEW view, AgreesOn(a, view, prev),
           \A e \in ToSet(InstitutionalDeltasOf(v, rd, prev)) : ~Touches(e, a)
    PROVE  AgreesOn(a, view, institutionalValidatorToState(rd, ep))
<1> DEFINE deficit == computeFlatDeficit(rd.stake, rd.effective)
           new == institutionalValidatorToState(rd, ep)
<1>0. prev.settlement_claims \in Nat /\ rd.claims \in Nat /\ Null \notin Int
  BY ReadingsAssumption DEF institutionalValidatorToState
<1>1. CASE a \in {"auction", "cap", "eligible"}
  BY <1>1 DEF AgreesOn, institutionalValidatorToState
<1>2. CASE a = "funded"
  <2> DEFINE c == rd.funded # prev.funded
             x == [inner_type |-> "bond_balance_change", vote |-> v,
                   previous_funded |-> prev.funded, current_funded |-> rd.funded]
  <2>1. ~c
    <3> SUFFICES ASSUME c PROVE FALSE
      OBVIOUS
    <3>1. x \in ToSet(When(c, x))
      <4>1. c \in BOOLEAN
        OBVIOUS
      <4> HIDE DEF c, x
      <4> QED
        BY <4>1, WhenTells
    <3>2. x \in ToSet(InstitutionalDeltasOf(v, rd, prev))
      <4>1. buildBondBalanceChangeEvent(v, prev, rd.funded, rd.effective) = When(c, x)
        BY DEF buildBondBalanceChangeEvent
      <4>2. ToSet(buildBondBalanceChangeEvent(v, prev, rd.funded, rd.effective))
              \subseteq ToSet(InstitutionalDeltasOf(v, rd, prev))
        BY InstitutionalDeltasTell
      <4> HIDE DEF c, x
      <4> QED
        BY <3>1, <4>1, <4>2
    <3>3. Touches(x, "funded")
      BY DEF Touches
    <3> QED
      BY <1>2, <3>2, <3>3
  <2> QED
    BY <1>2, <2>1 DEF AgreesOn, institutionalValidatorToState
<1>3. CASE a = "underfunded"
  <2> DEFINE c == deficit # prev.deficit
             x == [inner_type |-> "bond_underfunded_change", vote |-> v,
                   previous_deficit |-> prev.deficit, flat_deficit |-> deficit]
  <2>1. ~c
    <3> SUFFICES ASSUME c PROVE FALSE
      OBVIOUS
    <3>1. x \in ToSet(When(c, x))
      <4>1. c \in BOOLEAN
        OBVIOUS
      <4> HIDE DEF c, x
      <4> QED
        BY <4>1, WhenTells
    <3>2. x \in ToSet(InstitutionalDeltasOf(v, rd, prev))
      <4>1. FlatDeficitEvents(v, rd, prev) = When(c, x)
        BY DEF FlatDeficitEvents
      <4>2. ToSet(FlatDeficitEvents(v, rd, prev))
              \subseteq ToSet(InstitutionalDeltasOf(v, rd, prev))
        BY InstitutionalDeltasTell
      <4> HIDE DEF c, x
      <4> QED
        BY <3>1, <4>1, <4>2
    <3>3. Touches(x, "underfunded")
      BY DEF Touches
    <3> QED
      BY <1>3, <3>2, <3>3
  <2> QED
    BY <1>3, <2>1 DEF AgreesOn, institutionalValidatorToState
<1>4. CASE a = "settlement"
  <2> DEFINE c == /\ rd.claims > 0
                  /\ rd.claims # finiteOr(prev.settlement_claims, 0)
                  /\ rd.claims >= MIN_SETTLEMENT_LAMPORTS
             x == [inner_type |-> "settlement_applied", vote |-> v,
                   previous_settlement |-> finiteOr(prev.settlement_claims, 0),
                   settlement_total |-> rd.claims]
  <2>1. ~c
    <3> SUFFICES ASSUME c PROVE FALSE
      OBVIOUS
    <3>1. x \in ToSet(When(c, x))
      <4>1. c \in BOOLEAN
        OBVIOUS
      <4> HIDE DEF c, x
      <4> QED
        BY <4>1, WhenTells
    <3>2. x \in ToSet(InstitutionalDeltasOf(v, rd, prev))
      <4>1. buildSettlementAppliedEvent(v, rd.claims, finiteOr(prev.settlement_claims, 0))
              = When(c, x)
        BY DEF buildSettlementAppliedEvent
      <4>2. ToSet(buildSettlementAppliedEvent(v, rd.claims, finiteOr(prev.settlement_claims, 0)))
              \subseteq ToSet(InstitutionalDeltasOf(v, rd, prev))
        BY InstitutionalDeltasTell
      <4> HIDE DEF c, x
      <4> QED
        BY <3>1, <4>1, <4>2
    <3>3. Touches(x, "settlement")
      BY DEF Touches
    <3> QED
      BY <1>4, <3>2, <3>3
  <2>2. /\ Pending(new) = rd.claims /\ Pending(prev) = prev.settlement_claims
        /\ finiteOr(prev.settlement_claims, 0) = prev.settlement_claims
    BY <1>0 DEF Pending, institutionalValidatorToState, finiteOr
  <2>3. Pending(new) >= MIN_SETTLEMENT_LAMPORTS => Pending(new) = Pending(prev)
    <3>1. MIN_SETTLEMENT_LAMPORTS \in Nat /\ MIN_SETTLEMENT_LAMPORTS > 0
      BY RoundingAssumption
    <3> HIDE DEF new
    <3> QED
      BY <1>0, <2>1, <2>2, <3>1
  <2>4. AgreesOn(a, view, new)
    <3> HIDE DEF new
    <3> QED
      BY <1>4, <2>3 DEF AgreesOn
  <2> QED
    BY <2>4
<1> QED
  BY <1>1, <1>2, <1>3, <1>4 DEF Aspects

-----------------------------------------------------------------------------
(* The news of a run                                                       *)

InputOf(r) ==
    /\ DOMAIN r.input \subseteq Votes
    /\ \A v \in DOMAIN r.input : r.input[v] \in Readings[bondType]

LEMMA RowsAreStates ==
    ASSUME StateInv, NEW r, NEW v \in DOMAIN Compared(r)
    PROVE  /\ Compared(r) = Own /\ v \in DOMAIN Own
           /\ Own[v].in_auction \in BOOLEAN
           /\ \E old \in Readings[bondType] : Own[v] = toState(old, Own[v].epoch)
<1>1. Compared(r) = Own /\ v \in DOMAIN Own
  <2>1. Compared(r) # Empty
    BY IdleInput
  <2>2. Compared(r) = Own
    BY <2>1 DEF Compared
  <2> QED
    BY <2>2
<1>2. PICK old \in Readings[bondType] : Own[v] = toState(old, Own[v].epoch)
  <2>1. \A w \in DOMAIN Own :
           \E old \in Readings[bondType] : Own[w] = toState(old, Own[w].epoch)
    BY DEF StateInv
  <2> QED
    BY <1>1, <2>1, Zenon
<1>3. \A ep : toState(old, ep).in_auction \in BOOLEAN
  <2> SUFFICES ASSUME NEW ep PROVE toState(old, ep).in_auction \in BOOLEAN
    OBVIOUS
  <2>1. isInAuction(old) \in BOOLEAN
    BY DEF isInAuction
  <2>2. validatorToState(old, ep).in_auction = isInAuction(old)
    BY DEF validatorToState
  <2>3. institutionalValidatorToState(old, ep).in_auction = FALSE
    BY DEF institutionalValidatorToState
  <2> QED
    BY <2>1, <2>2, <2>3 DEF toState
<1> QED
  BY <1>1, <1>2, <1>3

LEMMA NewsOfKept ==
    ASSUME StateInv, NEW r, InputOf(r), NEW v \in DOMAIN r.input, v \in DOMAIN Compared(r),
           NEW e \in News(r, v), NEW view, IsView(view)
    PROVE  Improves(v, e, view, toState(r.input[v], r.epoch))
<1> DEFINE rd == r.input[v]
           prev == Compared(r)[v]
           ep == r.epoch
<1>1. prev.in_auction \in BOOLEAN /\ rd \in Readings[bondType] /\ bondType \in BondTypes
  BY RowsAreStates DEF InputOf, StateInv
<1>2. e \in ToSet(eventsOf(r.input, Compared(r), r.epoch)[v])
  BY DEF News
<1>3. CASE bondType = "bidding"
  <2>1. e \in ToSet(DeltasOf(v, rd, prev, ep))
    BY <1>2, <1>3 DEF eventsOf
  <2>2. Improves(v, e, view, validatorToState(rd, ep))
    BY <1>1, <2>1, BiddingEventsImprove
  <2> QED
    BY <1>3, <2>2 DEF toState
<1>4. CASE bondType = "institutional"
  <2>1. e \in ToSet(InstitutionalDeltasOf(v, rd, prev))
    BY <1>2, <1>4 DEF eventsOf
  <2>2. rd.claims \in Nat /\ Null \notin Int
    BY <1>1, <1>4, ReadingsAssumption
  <2>3. Improves(v, e, view, institutionalValidatorToState(rd, ep))
    BY <2>1, <2>2, InstitutionalEventsImprove
  <2> QED
    BY <1>4, <2>3 DEF toState
<1> QED
  BY <1>1, <1>3, <1>4 DEF BondTypes

LEMMA SilenceOfKept ==
    ASSUME StateInv, NEW r, InputOf(r), NEW v \in DOMAIN r.input, v \in DOMAIN Compared(r),
           NEW a \in Aspects, NEW view, AgreesOn(a, view, Own[v]),
           \A e \in News(r, v) : ~Touches(e, a)
    PROVE  AgreesOn(a, view, toState(r.input[v], r.epoch))
<1> DEFINE rd == r.input[v]
           prev == Own[v]
           ep == r.epoch
<1>1. /\ Compared(r) = Own /\ rd \in Readings[bondType] /\ bondType \in BondTypes
      /\ \E old \in Readings[bondType] : prev = toState(old, prev.epoch)
  BY RowsAreStates DEF InputOf, StateInv
<1>2. PICK old \in Readings[bondType] : prev = toState(old, prev.epoch)
  BY <1>1
<1>3. News(r, v) = ToSet(eventsOf(r.input, Own, r.epoch)[v])
  BY <1>1 DEF News
<1>4. CASE bondType = "bidding"
  <2>1. News(r, v) = ToSet(DeltasOf(v, rd, prev, ep))
    BY <1>1, <1>3, <1>4 DEF eventsOf
  <2>2. prev = validatorToState(old, prev.epoch)
    BY <1>2, <1>4 DEF toState
  <2> HIDE DEF prev
  <2>3. AgreesOn(a, view, prev)
    BY DEF prev
  <2>4. AgreesOn(a, view, validatorToState(rd, ep))
    BY <1>1, <1>4, <2>1, <2>2, <2>3, BiddingSilence
  <2> QED
    BY <1>4, <2>4 DEF toState
<1>5. CASE bondType = "institutional"
  <2>1. News(r, v) = ToSet(InstitutionalDeltasOf(v, rd, prev))
    BY <1>1, <1>3, <1>5 DEF eventsOf
  <2>2. prev = institutionalValidatorToState(old, prev.epoch)
    BY <1>2, <1>5 DEF toState
  <2> HIDE DEF prev
  <2>3. AgreesOn(a, view, prev)
    BY DEF prev
  <2>4. AgreesOn(a, view, institutionalValidatorToState(rd, ep))
    BY <1>1, <1>5, <2>1, <2>2, <2>3, InstitutionalSilence
  <2> QED
    BY <1>5, <2>4 DEF toState
<1> QED
  BY <1>1, <1>4, <1>5 DEF BondTypes

LEMMA NewsOfNew ==
    ASSUME NEW r, NEW v \in DOMAIN r.input, v \notin DOMAIN Compared(r)
    PROVE  /\ News(r, v) = {FirstOf(v, r.input[v])}
           /\ FirstOf(v, r.input[v]).vote = v
           /\ FirstOf(v, r.input[v]).inner_type = "first_seen"
<1> DEFINE e == FirstOf(v, r.input[v])
<1>1. eventsOf(r.input, Compared(r), r.epoch)[v] = <<e>>
  BY DEF eventsOf, FirstOf
<1>2. e.vote = v /\ e.inner_type = "first_seen"
  BY DEF FirstOf, FirstSeen, InstitutionalFirstSeen
<1> HIDE DEF e
<1>3. ToSet(<<e>>) = {e}
  BY DEF ToSet
<1>4. News(r, v) = {e}
  BY <1>1, <1>3 DEF News
<1> QED
  BY <1>2, <1>4 DEF e

LEMMA NewsOfGone ==
    ASSUME StateInv, NEW r, NEW v \in DOMAIN Compared(r), v \notin DOMAIN r.input
    PROVE  /\ \A e \in News(r, v) : e.vote = v /\ e.inner_type = "validator_delisted"
           /\ Own[v].funded > 0 \/ Own[v].in_auction => News(r, v) # {}
<1> DEFINE prev == Compared(r)[v]
           c == prev.funded > 0 \/ prev.in_auction
           x == [inner_type |-> "validator_delisted", vote |-> v,
                 last_known_funded |-> prev.funded, last_known_epoch |-> prev.epoch]
<1>1. Compared(r) = Own /\ prev.in_auction \in BOOLEAN
  BY RowsAreStates
<1>2. News(r, v) = ToSet(When(c, x))
  <2>1. News(r, v) = ToSet(delistedOf(r.input, Compared(r))[v])
    BY DEF News
  <2>2. delistedOf(r.input, Compared(r))[v] = When(c, x)
    BY DEF delistedOf, buildValidatorDelistedEvent
  <2> QED
    BY <2>1, <2>2
<1>3. c \in BOOLEAN
  BY <1>1
<1>4. x.vote = v /\ x.inner_type = "validator_delisted"
  OBVIOUS
<1>5. News(r, v) = IF c THEN {x} ELSE {}
  <2> HIDE DEF c, x
  <2> QED
    BY <1>2, <1>3, WhenTells
<1>6. c <=> Own[v].funded > 0 \/ Own[v].in_auction
  BY <1>1
<1> HIDE DEF c, x
<1> QED
  BY <1>4, <1>5, <1>6

(* Every event of a run is the news of one validator.                      *)
LEMMA NewsIs ==
    ASSUME StateInv, NEW r, InputOf(r)
    PROVE  /\ \A v : \A e \in News(r, v) : e.vote = v /\ e \in Found(r)
           /\ \A e \in Found(r) : e \in News(r, e.vote)
<1>1. ASSUME NEW v, NEW e \in News(r, v) PROVE e.vote = v
  <2>1. CASE v \in DOMAIN r.input /\ v \in DOMAIN Compared(r)
    <3>1. IsView([x \in ViewFields |-> Null])
      BY DEF IsView
    <3> QED
      BY <1>1, <2>1, <3>1, NewsOfKept DEF Improves
  <2>2. CASE v \in DOMAIN r.input /\ v \notin DOMAIN Compared(r)
    BY <1>1, <2>2, NewsOfNew
  <2>3. CASE v \notin DOMAIN r.input /\ v \in DOMAIN Compared(r)
    BY <1>1, <2>3, NewsOfGone
  <2> QED
    BY <1>1, <2>1, <2>2, <2>3 DEF News
<1>2. ASSUME NEW v, NEW e \in News(r, v) PROVE e \in Found(r)
  BY <1>2 DEF News, Found, Reported
<1>3. ASSUME NEW e \in Found(r) PROVE \E v : e \in News(r, v)
  <2>1. \/ \E v \in DOMAIN r.input : e \in ToSet(eventsOf(r.input, Compared(r), r.epoch)[v])
        \/ \E v \in DOMAIN Compared(r) \ DOMAIN r.input :
              e \in ToSet(delistedOf(r.input, Compared(r))[v])
    BY DEF Found, Reported
  <2> QED
    BY <2>1 DEF News
<1>4. ASSUME NEW e \in Found(r) PROVE e \in News(r, e.vote)
  BY <1>1, <1>3
<1> QED
  BY <1>1, <1>2, <1>4

(* What first_seen tells is the row that is saved.                         *)
LEMMA FirstIsRow ==
    ASSUME NEW v, NEW rd, NEW ep
    PROVE  /\ IsView(Known(FirstOf(v, rd)))
           /\ Agrees(Known(FirstOf(v, rd)), toState(rd, ep))
<1> DEFINE e == FirstOf(v, rd)
           view == Known(e)
           row == toState(rd, ep)
<1>1. CASE bondType = "bidding"
  <2>1. /\ e = FirstSeen(v, rd) /\ row = validatorToState(rd, ep)
    BY <1>1 DEF FirstOf, toState
  <2>2. view = [in_auction |-> isInAuction(rd), funded |-> solToLamports(rd.balance),
                cap |-> rd.cap, epochs |-> roundEpochs(rd.epochs),
                deficit |-> solToLamports(computeDeficitMetrics(rd)), settlement |-> Null,
                sam_eligible |-> rd.samEligible]
    BY <2>1 DEF Known, FirstSeen
  <2>3. IsView(view)
    BY <2>2 DEF IsView, ViewFields
  <2>4. Agrees(view, row)
    BY <2>1, <2>2 DEF Agrees, validatorToState
  <2> QED
    BY <2>3, <2>4
<1>2. CASE bondType # "bidding"
  <2>1. /\ e = InstitutionalFirstSeen(v, rd) /\ row = institutionalValidatorToState(rd, ep)
    BY <1>2 DEF FirstOf, toState
  <2>2. view = [in_auction |-> FALSE, funded |-> Null, cap |-> Null, epochs |-> Null,
                deficit |-> computeFlatDeficit(rd.stake, rd.effective), settlement |-> Null,
                sam_eligible |-> FALSE]
    BY <2>1 DEF Known, InstitutionalFirstSeen
  <2>3. IsView(view)
    BY <2>2 DEF IsView, ViewFields
  <2>4. Agrees(view, row)
    BY <2>1, <2>2 DEF Agrees, institutionalValidatorToState
  <2> QED
    BY <2>3, <2>4
<1> QED
  BY <1>1, <1>2

-----------------------------------------------------------------------------
(* Hearing an event                                                        *)

LEMMA AllAspects ==
    ASSUME NEW view, NEW row
    PROVE  Agrees(view, row) <=> \A a \in Aspects : AgreesOn(a, view, row)
<1>1. Agrees(view, row) => \A a \in Aspects : AgreesOn(a, view, row)
  BY DEF Agrees, AgreesOn, Aspects
<1>2. (\A a \in Aspects : AgreesOn(a, view, row)) => Agrees(view, row)
  <2> SUFFICES ASSUME \A a \in Aspects : AgreesOn(a, view, row) PROVE Agrees(view, row)
    OBVIOUS
  <2>1. /\ AgreesOn("auction", view, row) /\ AgreesOn("funded", view, row)
        /\ AgreesOn("cap", view, row) /\ AgreesOn("eligible", view, row)
        /\ AgreesOn("underfunded", view, row) /\ AgreesOn("settlement", view, row)
    BY DEF Aspects
  <2> QED
    BY <2>1 DEF Agrees, AgreesOn
<1> QED
  BY <1>1, <1>2

LEMMA StaysTold ==
    ASSUME bondType' = bondType, rows' = rows, Told(told', run', astray')
    PROVE  ToldInv'
<1>1. Own' = Own
  BY StaysAccounted
<1> QED
  BY <1>1 DEF ToldInv, Told, ToldOf, Calm, toState, FirstOf, HeardOf

(* What the service makes of an event                                      *)
LEMMA HeardViews ==
    ASSUME NEW views, NEW e
    PROVE  LET after == Heard(views, e)
               special == e.inner_type \in {"first_seen", "validator_delisted"}
           IN  /\ \A x : x # e.vote =>
                     /\ x \in DOMAIN after <=> x \in DOMAIN views
                     /\ x \in DOMAIN views => after[x] = views[x]
               /\ e.inner_type = "first_seen" =>
                     e.vote \in DOMAIN after /\ after[e.vote] = Known(e)
               /\ e.inner_type = "validator_delisted" => e.vote \notin DOMAIN after
               /\ ~special /\ e.vote \in DOMAIN views =>
                     e.vote \in DOMAIN after /\ after[e.vote] = Changed(views[e.vote], e)
               /\ ~special /\ e.vote \notin DOMAIN views => after = views
<1> DEFINE after == Heard(views, e)
<1>1. CASE e.inner_type = "first_seen"
  <2>1. after = Updated(views, [v \in {e.vote} |-> Known(e)])
    BY <1>1 DEF Heard
  <2> HIDE DEF after
  <2>2. /\ DOMAIN after = DOMAIN views \cup {e.vote}
        /\ after[e.vote] = Known(e)
        /\ \A x \in DOMAIN views : x # e.vote => after[x] = views[x]
    BY <2>1 DEF Updated
  <2> QED
    BY <1>1, <2>2 DEF after
<1>2. CASE e.inner_type = "validator_delisted"
  <2>1. after = Without(views, {e.vote})
    BY <1>2 DEF Heard
  <2> HIDE DEF after
  <2>2. /\ DOMAIN after = DOMAIN views \ {e.vote}
        /\ \A x \in DOMAIN views : x # e.vote => after[x] = views[x]
    BY <2>1 DEF Without
  <2> QED
    BY <1>2, <2>2 DEF after
<1>3. CASE e.inner_type \notin {"first_seen", "validator_delisted"} /\ e.vote \in DOMAIN views
  <2>1. after = [views EXCEPT ![e.vote] = Changed(views[e.vote], e)]
    BY <1>3 DEF Heard
  <2> HIDE DEF after
  <2>2. /\ DOMAIN after = DOMAIN views
        /\ after[e.vote] = Changed(views[e.vote], e)
        /\ \A x \in DOMAIN views : x # e.vote => after[x] = views[x]
    BY <1>3, <2>1
  <2> QED
    BY <1>3, <2>2 DEF after
<1>4. CASE e.inner_type \notin {"first_seen", "validator_delisted"} /\ e.vote \notin DOMAIN views
  <2>1. after = views
    BY <1>4 DEF Heard
  <2> QED
    BY <1>4, <2>1
<1> QED
  BY <1>1, <1>2, <1>3, <1>4

(* The kinds of validators that a run has news about                       *)
LEMMA KindsOfNews ==
    ASSUME StateInv, NEW r, InputOf(r), NEW v, NEW e \in News(r, v)
    PROVE  \/ /\ v \in DOMAIN r.input /\ v \in DOMAIN Compared(r) /\ Compared(r) = Own
              /\ \A view : IsView(view) =>
                    Improves(v, e, view, toState(r.input[v], r.epoch))
              /\ e.inner_type \notin {"first_seen", "validator_delisted"}
           \/ /\ v \in DOMAIN r.input /\ v \notin DOMAIN Compared(r)
              /\ e = FirstOf(v, r.input[v]) /\ e.inner_type = "first_seen"
           \/ /\ v \notin DOMAIN r.input /\ v \in DOMAIN Compared(r)
              /\ e.inner_type = "validator_delisted"
<1>1. CASE v \in DOMAIN r.input /\ v \in DOMAIN Compared(r)
  <2>1. \A view : IsView(view) => Improves(v, e, view, toState(r.input[v], r.epoch))
    BY <1>1, NewsOfKept
  <2>2. IsView([x \in ViewFields |-> Null])
    BY DEF IsView
  <2>3. e.inner_type \notin {"first_seen", "validator_delisted"}
    BY <2>1, <2>2 DEF Improves
  <2> QED
    BY <1>1, <2>1, <2>3, RowsAreStates
<1>2. CASE v \in DOMAIN r.input /\ v \notin DOMAIN Compared(r)
  BY <1>2, NewsOfNew
<1>3. CASE v \notin DOMAIN r.input /\ v \in DOMAIN Compared(r)
  BY <1>3, NewsOfGone
<1> QED
  BY <1>1, <1>2, <1>3 DEF News

(* A view on the way comes nearer to the new row.                          *)
LEMMA Nearer ==
    ASSUME NEW v, NEW e, NEW view, NEW old, NEW new, NEW events,
           Improves(v, e, view, new), Between(view, old, new, events)
    PROVE  Between(Changed(view, e), old, new, events \cup {e})
<1> SUFFICES ASSUME NEW a \in Aspects
             PROVE  IF \E x \in events \cup {e} : Touches(x, a)
                    THEN AgreesOn(a, Changed(view, e), new)
                    ELSE AgreesOn(a, Changed(view, e), old)
  BY DEF Between
<1>1. CASE Touches(e, a)
  BY <1>1 DEF Improves
<1>2. CASE ~Touches(e, a)
  <2>1. (\E x \in events \cup {e} : Touches(x, a)) <=> \E x \in events : Touches(x, a)
    BY <1>2
  <2>2. \A row : AgreesOn(a, view, row) => AgreesOn(a, Changed(view, e), row)
    BY <1>2 DEF Improves
  <2>3. IF \E x \in events : Touches(x, a) THEN AgreesOn(a, view, new)
        ELSE AgreesOn(a, view, old)
    BY DEF Between
  <2> QED
    BY <2>1, <2>2, <2>3
<1> QED
  BY <1>1, <1>2

LEMMA HearStep ==
    ASSUME StateInv, NEW views, NEW lost, NEW r, Told(views, r, lost), InputOf(r),
           NEW e \in Found(r), NEW f, f.mode = r.mode, f.input = r.input, f.epoch = r.epoch,
           f.phase = r.phase, f.heard = r.heard \cup {e}
    PROVE  Told(Heard(views, e), f, lost)
<1> DEFINE after == Heard(views, e)
           w == e.vote
           special == e.inner_type \in {"first_seen", "validator_delisted"}
<1>1. /\ \A x : x # w => (x \in DOMAIN after <=> x \in DOMAIN views)
      /\ \A x : x # w /\ x \in DOMAIN views => after[x] = views[x]
      /\ e.inner_type = "first_seen" => w \in DOMAIN after /\ after[w] = Known(e)
      /\ e.inner_type = "validator_delisted" => w \notin DOMAIN after
      /\ ~special /\ w \in DOMAIN views =>
            w \in DOMAIN after /\ after[w] = Changed(views[w], e)
      /\ ~special /\ w \notin DOMAIN views => after = views
  BY HeardViews
<1>2. /\ \A x : x # w => HeardOf(f, x) = HeardOf(r, x)
      /\ HeardOf(f, w) = HeardOf(r, w) \cup {e}
  BY DEF HeardOf
<1>3. e \in News(r, w)
  BY NewsIs
<1>4. \/ /\ w \in DOMAIN r.input /\ w \in DOMAIN Compared(r) /\ Compared(r) = Own
         /\ \A view : IsView(view) => Improves(w, e, view, toState(r.input[w], r.epoch))
         /\ ~special
      \/ /\ w \in DOMAIN r.input /\ w \notin DOMAIN Compared(r)
         /\ e = FirstOf(w, r.input[w]) /\ e.inner_type = "first_seen"
      \/ /\ w \notin DOMAIN r.input /\ w \in DOMAIN Compared(r)
         /\ e.inner_type = "validator_delisted"
  BY <1>3, KindsOfNews
<1>5. \A x \in DOMAIN views : IsView(views[x])
  BY DEF Told
<1> HIDE DEF after, w, special
<1>6. ASSUME NEW x \in DOMAIN after PROVE IsView(after[x])
  <2>1. CASE x # w
    BY <1>1, <1>5, <1>6, <2>1
  <2>2. CASE x = w /\ ~special
    <3>1. CASE w \in DOMAIN views
      <4>1. Improves(w, e, views[w], toState(r.input[w], r.epoch))
        BY <1>4, <1>5, <2>2, <3>1 DEF special
      <4> QED
        BY <1>1, <2>2, <3>1, <4>1 DEF Improves
    <3>2. CASE w \notin DOMAIN views
      BY <1>1, <1>5, <1>6, <2>2, <3>2
    <3> QED
      BY <3>1, <3>2
  <2>3. CASE x = w /\ special
    <3>1. e.inner_type = "first_seen" /\ e = FirstOf(w, r.input[w])
      BY <1>1, <1>4, <1>6, <2>3 DEF special
    <3> QED
      BY <1>1, <2>3, <3>1, FirstIsRow
  <2> QED
    BY <2>1, <2>2, <2>3
<1>7. ASSUME NEW x, x \notin lost, HeardOf(f, x) = {} PROVE Calm(x, after)
  <2>1. x # w /\ HeardOf(r, x) = {}
    BY <1>2, <1>7
  <2>2. Calm(x, views)
    BY <1>7, <2>1 DEF Told
  <2> QED
    BY <1>1, <2>1, <2>2 DEF Calm
<1>8. ASSUME f.phase # "idle", f.mode \in {"live", "mute"}, NEW x
      PROVE  ToldOf(x, after, f, lost)
  <2>1. ToldOf(x, views, r, lost)
    BY <1>8 DEF Told
  <2>2. CASE x # w
    BY <1>1, <1>2, <2>1, <2>2 DEF ToldOf
  <2>3. CASE x = w
    <3>1. Compared(r) = Own
      BY <1>8 DEF Compared
    <3>2. CASE w \in DOMAIN r.input /\ w \in DOMAIN Own
      <4>1. ASSUME w \notin lost
            PROVE  /\ w \in DOMAIN after
                   /\ Between(after[w], Own[w], toState(f.input[w], f.epoch), HeardOf(f, w))
        <5> DEFINE new == toState(r.input[w], r.epoch)
        <5>1. /\ w \in DOMAIN views
              /\ Between(views[w], Own[w], new, HeardOf(r, w))
          BY <2>1, <2>3, <3>2, <4>1 DEF ToldOf
        <5>2. ~special /\ Improves(w, e, views[w], new)
          BY <1>4, <1>5, <3>1, <3>2, <5>1
        <5> HIDE DEF new
        <5>3. Between(Changed(views[w], e), Own[w], new, HeardOf(r, w) \cup {e})
          BY <5>1, <5>2, Nearer
        <5>4. toState(f.input[w], f.epoch) = new
          BY DEF new
        <5> QED
          BY <1>1, <1>2, <5>1, <5>2, <5>3, <5>4
      <4> QED
        BY <2>3, <3>2, <4>1 DEF ToldOf
    <3>3. CASE w \in DOMAIN r.input /\ w \notin DOMAIN Own
      <4>1. e.inner_type = "first_seen" /\ e = FirstOf(w, r.input[w])
        BY <1>4, <3>1, <3>3
      <4>2. w \in DOMAIN after /\ after[w] = Known(FirstOf(w, r.input[w]))
        BY <1>1, <4>1
      <4> QED
        BY <2>3, <3>3, <4>2 DEF ToldOf
    <3>4. CASE w \notin DOMAIN r.input
      <4>1. w \notin DOMAIN after
        BY <1>1, <1>4, <3>4
      <4> QED
        BY <2>3, <3>4, <4>1 DEF ToldOf
    <3> QED
      BY <3>2, <3>3, <3>4
  <2> QED
    BY <2>2, <2>3
<1>9. Told(after, f, lost)
  BY <1>6, <1>7, <1>8 DEF Told
<1> QED
  BY <1>9 DEF after

(* A run that hears nothing new                                            *)
LEMMA NothingHeard ==
    ASSUME NEW views, NEW lost, NEW r, Told(views, r, lost),
           NEW f, f.mode = r.mode, f.input = r.input, f.epoch = r.epoch, f.heard = r.heard,
           r.phase # "idle"
    PROVE  Told(views, f, lost)
<1>1. \A v : HeardOf(f, v) = HeardOf(r, v)
  BY DEF HeardOf
<1>2. \A v : ToldOf(v, views, r, lost) => ToldOf(v, views, f, lost)
  BY <1>1 DEF ToldOf
<1> QED
  BY <1>1, <1>2 DEF Told

(* An answer, or none, to one of the events the run has found              *)
LEMMA EmissionOfOne ==
    ASSUME StateInv, RunInv, Acknowledged \/ AnswerLost \/ NotReceived \/ Rejected
    PROVE  /\ run'.phase = run.phase /\ run'.mode = run.mode /\ run'.input = run.input
           /\ run'.epoch = run.epoch
           /\ \E e \in Found(run) :
                 \/ told' = Heard(told, e) /\ run'.heard = run.heard \cup {e}
                 \/ told' = told /\ run'.heard = run.heard
<1>1. Emitting
  BY DEF Acknowledged, AnswerLost, NotReceived, Rejected
<1>2. run.phase = "emitting" /\ Pool(run) /\ Accounted(run)
  BY <1>1 DEF RunInv, Emitting
<1>3. PICK p \in run.inFlight :
         \/ told' = Heard(told, p.event) /\ run' = Finished(run, p, TRUE, "sent")
         \/ told' = Heard(told, p.event) /\ run' = Retried(run, p, TRUE)
         \/ told' = told /\ run' = Retried(run, p, FALSE)
         \/ told' = told /\ run' = Finished(run, p, FALSE, "failed")
  <2>1. CASE Acknowledged
    BY <2>1 DEF Acknowledged
  <2>2. CASE AnswerLost
    BY <2>2 DEF AnswerLost
  <2>3. CASE NotReceived
    BY <2>3 DEF NotReceived
  <2>4. CASE Rejected
    BY <2>4 DEF Rejected
  <2> QED
    BY <2>1, <2>2, <2>3, <2>4
<1>4. p.event \in Found(run)
  <2>1. p.event \in OnTheWay(run)
    BY DEF OnTheWay
  <2> QED
    BY <1>2, <2>1 DEF Accounted, Modes
<1>5. /\ run'.phase = run.phase /\ run'.mode = run.mode /\ run'.input = run.input
      /\ run'.epoch = run.epoch
      /\ \/ told' = Heard(told, p.event) /\ run'.heard = run.heard \cup {p.event}
         \/ told' = told /\ run'.heard = run.heard
  <2>1. CASE told' = Heard(told, p.event) /\ run' = Finished(run, p, TRUE, "sent")
    BY <1>2, <2>1, FinishedRun
  <2>2. CASE told' = Heard(told, p.event) /\ run' = Retried(run, p, TRUE)
    BY <1>2, <2>2, RetriedRun
  <2>3. CASE told' = told /\ run' = Retried(run, p, FALSE)
    BY <1>2, <2>3, RetriedRun
  <2>4. CASE told' = told /\ run' = Finished(run, p, FALSE, "failed")
    BY <1>2, <2>4, FinishedRun
  <2> QED
    BY <1>3, <2>1, <2>2, <2>3, <2>4
<1> QED
  BY <1>4, <1>5

LEMMA EmissionTells ==
    ASSUME StateInv, RunInv, ToldInv, Acknowledged \/ AnswerLost \/ NotReceived \/ Rejected
    PROVE  ToldInv'
<1>1. Emitting /\ UNCHANGED <<bondType, rows, astray>>
  BY DEF Acknowledged, AnswerLost, NotReceived, Rejected
<1>2. run.phase = "emitting" /\ Pool(run) /\ Accounted(run)
  BY <1>1 DEF RunInv, Emitting
<1>3. PICK e \in Found(run) :
         \/ told' = Heard(told, e) /\ run'.heard = run.heard \cup {e}
         \/ told' = told /\ run'.heard = run.heard
  BY EmissionOfOne
<1>4. /\ run'.phase = run.phase /\ run'.mode = run.mode /\ run'.input = run.input
      /\ run'.epoch = run.epoch
  BY EmissionOfOne
<1>5. InputOf(run) /\ Told(told, run, astray)
  BY DEF StateInv, InputOf, ToldInv
<1>6. Told(told', run', astray)
  <2>1. CASE told' = Heard(told, e) /\ run'.heard = run.heard \cup {e}
    <3>1. Told(Heard(told, e), run', astray)
      BY <1>4, <1>5, <2>1, HearStep
    <3> QED
      BY <2>1, <3>1
  <2>2. CASE told' = told /\ run'.heard = run.heard
    <3>1. Told(told, run', astray)
      BY <1>2, <1>4, <1>5, <2>2, NothingHeard
    <3> QED
      BY <2>2, <3>1
  <2> QED
    BY <1>3, <2>1, <2>2
<1> QED
  BY <1>1, <1>6, StaysTold

LEMMA PersistTells ==
    ASSUME StateInv, RunInv, ToldInv, persistEvents
    PROVE  ToldInv'
<1>1. /\ run.phase = "emitting" /\ UNCHANGED <<bondType, rows, told, astray>>
      /\ run' = [run EXCEPT !.phase = "persisted", !.recorded = run.sent]
  BY DEF persistEvents, Emitted, Emitting
<1>2. IsRun(run)
  BY <1>1 DEF RunInv, Pool, Loose
<1>3. /\ run'.mode = run.mode /\ run'.input = run.input
      /\ run'.epoch = run.epoch /\ run'.heard = run.heard
  BY <1>1, <1>2 DEF IsRun, RunFields
<1>4. Told(told, run', astray)
  BY <1>1, <1>3, NothingHeard DEF ToldInv
<1> QED
  BY <1>1, <1>4, StaysTold

(* A new run has told nothing.                                             *)
LEMMA StartTells ==
    ASSUME StateInv, RunInv, ToldInv, StartRun \/ StartOddRun
    PROVE  ToldInv'
<1>1. PICK mode \in Modes, input \in {world, Empty} : Evaluate(mode, input)
  BY DEF StartRun, StartOddRun, Modes
<1>2. UNCHANGED <<bondType, rows, told, astray>> /\ run.phase = "idle"
  BY <1>1 DEF Evaluate
<1>3. DOMAIN input \subseteq Votes
  BY IdleInput DEF StateInv
<1>4. Own' = Own
  BY <1>2, StaysAccounted
<1>5. run'.heard = {}
  BY <1>1, <1>2, <1>3, <1>4, EvaluateRun
<1>6. run.heard = {}
  BY <1>2 DEF RunInv, Idle
<1>7. \A v : HeardOf(run', v) = {} /\ HeardOf(run, v) = {}
  BY <1>5, <1>6 DEF HeardOf
<1>8. \A v \in DOMAIN told : IsView(told[v])
  BY DEF ToldInv, Told
<1>9. \A v : v \notin astray => Calm(v, told)
  BY <1>7 DEF ToldInv, Told
<1>10. \A v : ToldOf(v, told, run', astray)
  <2> SUFFICES ASSUME NEW v, v \in DOMAIN Own, v \notin astray
               PROVE  /\ v \in DOMAIN told
                      /\ Between(told[v], Own[v], toState(run'.input[v], run'.epoch),
                                 HeardOf(run', v))
    BY <1>7 DEF ToldOf
  <2>1. v \in DOMAIN told /\ Agrees(told[v], Own[v])
    BY <1>9 DEF Calm
  <2>2. \A a \in Aspects : AgreesOn(a, told[v], Own[v])
    BY <2>1, AllAspects
  <2>3. Between(told[v], Own[v], toState(run'.input[v], run'.epoch), {})
    BY <2>2 DEF Between
  <2> QED
    BY <1>7, <2>1, <2>3
<1>11. Told(told, run', astray)
  BY <1>8, <1>9, <1>10 DEF Told
<1> QED
  BY <1>2, <1>11, StaysTold

(* What was heard and not saved is astray.                                 *)
LEMMA EndTells ==
    ASSUME ToldInv, FinishUnsaved \/ Crash
    PROVE  ToldInv'
<1>1. /\ UNCHANGED <<bondType, rows, told>> /\ run' = Idle
      /\ astray' = AstrayAfter({})
  BY DEF FinishUnsaved, Crash
<1>2. astray' = astray \cup VotesIn(run.heard)
  BY <1>1 DEF AstrayAfter
<1>3. \A v : v \notin astray' => v \notin astray /\ HeardOf(run, v) = {}
  BY <1>2 DEF VotesIn, HeardOf
<1>4. Told(told, Idle, astray')
  BY <1>3, IdleInput DEF ToldInv, Told
<1> QED
  BY <1>1, <1>4, StaysTold

LEMMA QuietTells ==
    ASSUME ToldInv, WorldChanges \/ NextEpoch \/ UNCHANGED vars
    PROVE  ToldInv'
<1>1. UNCHANGED <<bondType, rows, told, run, astray>>
  BY DEF WorldChanges, NextEpoch, vars
<1>2. Told(told', run', astray')
  BY <1>1 DEF ToldInv
<1> QED
  BY <1>1, <1>2, StaysTold

LEMMA StartTold ==
    ASSUME Init
    PROVE  ToldInv
<1>1. DOMAIN told = {} /\ run.phase = "idle"
  BY IdleInput DEF Init
<1>2. DOMAIN Own = {}
  BY DEF Init, Own, loadPreviousState
<1> QED
  BY <1>1, <1>2 DEF ToldInv, Told, Calm

-----------------------------------------------------------------------------
(* What is saved has been told.                                            *)

RowsOfOwn ==
    /\ \A v : v \in DOMAIN Own <=> <<bondType, v>> \in DOMAIN rows
    /\ \A v \in DOMAIN Own : Own[v] = rows[<<bondType, v>>]

LEMMA RowsAreOwn == StateInv => RowsOfOwn
  BY OwnRows DEF RowsOfOwn

LEMMA OwnAfter ==
    ASSUME StateInv, RunInv, SaveState
    PROVE  /\ \A v : v \in DOMAIN Own' <=>
                  v \in DOMAIN Own \cup succeededVotes /\ v \in keepVoteAccounts
           /\ \A v \in DOMAIN Own' :
                 Own'[v] = IF v \in succeededVotes THEN toState(run.input[v], run.epoch)
                           ELSE Own[v]
<1>1. StateInv' /\ bondType' = bondType
  BY SaveStep DEF SaveState
<1>2. RowsOfOwn /\ RowsOfOwn'
  BY <1>1, RowsAreOwn, PTL
<1>3. /\ \A v : v \in DOMAIN Own' <=> <<bondType, v>> \in DOMAIN rows'
      /\ \A v \in DOMAIN Own' : Own'[v] = rows'[<<bondType, v>>]
  BY <1>1, <1>2 DEF RowsOfOwn
<1>4. ASSUME NEW v
      PROVE  /\ v \in DOMAIN Own' <=>
                  v \in DOMAIN Own \cup succeededVotes /\ v \in keepVoteAccounts
             /\ v \in DOMAIN Own' =>
                  Own'[v] = IF v \in succeededVotes THEN toState(run.input[v], run.epoch)
                            ELSE Own[v]
  <2> DEFINE k == <<bondType, v>>
  <2>1. k[1] = bondType /\ k[2] = v
    OBVIOUS
  <2>2. k \in SavedKeys <=> v \in succeededVotes
    BY DEF SavedKeys
  <2>3. k \in DOMAIN rows <=> v \in DOMAIN Own
    BY <1>2 DEF RowsOfOwn
  <2>4. v \in DOMAIN Own => Own[v] = rows[k]
    BY <1>2 DEF RowsOfOwn
  <2>5. /\ k \in DOMAIN rows' <=> v \in DOMAIN Own'
        /\ v \in DOMAIN Own' => Own'[v] = rows'[k]
    BY <1>3
  <2> HIDE DEF k
  <2>6. k \in DeletedKeys <=> k \in DOMAIN rows \cup SavedKeys /\ v \notin keepVoteAccounts
    BY <2>1 DEF DeletedKeys
  <2>7. /\ k \in DOMAIN rows' <=> k \in DOMAIN rows \cup SavedKeys /\ k \notin DeletedKeys
        /\ k \in DOMAIN rows' =>
             rows'[k] = IF k \in SavedKeys THEN toState(run.input[k[2]], run.epoch) ELSE rows[k]
    BY SavedRows
  <2>8. v \in DOMAIN Own' <=> v \in DOMAIN Own \cup succeededVotes /\ v \in keepVoteAccounts
    BY <2>2, <2>3, <2>5, <2>6, <2>7
  <2>9. ASSUME v \in DOMAIN Own'
        PROVE  Own'[v] = IF v \in succeededVotes THEN toState(run.input[v], run.epoch)
                         ELSE Own[v]
    BY <2>1, <2>2, <2>3, <2>4, <2>5, <2>7, <2>9
  <2> QED
    BY <2>8, <2>9
<1> QED
  BY <1>4

LEMMA FundedIsNat ==
    ASSUME StateInv, NEW v \in DOMAIN Own
    PROVE  Own[v].funded \in Nat /\ Own[v].in_auction \in BOOLEAN
<1>0. bondType \in BondTypes
      /\ \A w \in DOMAIN Own : \E r \in Readings[bondType] : Own[w] = toState(r, Own[w].epoch)
  BY DEF StateInv
<1>1. PICK r \in Readings[bondType] : Own[v] = toState(r, Own[v].epoch)
  BY <1>0, Zenon
<1>2. CASE bondType = "bidding"
  <2>1. \A ep : /\ toState(r, ep).funded = solToLamports(r.balance)
                /\ toState(r, ep).in_auction = isInAuction(r)
    BY <1>2 DEF toState, validatorToState
  <2>2. solToLamports(r.balance) \in Nat /\ isInAuction(r) \in BOOLEAN
    <3>1. r.balance \in Nat \cup {Null}
      BY <1>2, ReadingsAssumption
    <3>2. isInAuction(r) \in BOOLEAN
      BY DEF isInAuction
    <3> QED
      BY <3>1, <3>2, LamportsAre
  <2> QED
    BY <1>1, <2>1, <2>2
<1>3. CASE bondType = "institutional"
  <2>1. \A ep : /\ toState(r, ep).funded = r.funded /\ toState(r, ep).in_auction = FALSE
    BY <1>3 DEF toState, institutionalValidatorToState
  <2>2. r.funded \in Nat
    BY <1>3, ReadingsAssumption
  <2> QED
    BY <1>1, <2>1, <2>2
<1> QED
  BY <1>0, <1>2, <1>3 DEF BondTypes

LEMMA SaveTells ==
    ASSUME StateInv, RunInv, ToldInv, SaveState
    PROVE  ToldInv'
<1> DEFINE gone == DOMAIN Own \ keepVoteAccounts
           saved == succeededVotes \cup gone
           toldAll == {e.vote : e \in {x \in run.sent :
                          x.inner_type \in {"first_seen", "validator_delisted"}}}
<1>1. /\ run.phase = "persisted" /\ run' = Idle /\ UNCHANGED <<bondType, told>>
      /\ astray' = (astray \cup (VotesIn(run.heard) \ saved)) \ (toldAll \cap saved)
  BY DEF SaveState, AstrayAfter, Own
<1>2. /\ Saves /\ Accounted(run) /\ run.mode \in {"live", "mute"} /\ Compared(run) = Own
      /\ InputOf(run)
  BY <1>1 DEF RunInv, Saves, Compared, StateInv, InputOf
<1>3. run.heard \subseteq Found(run) /\ run.sent \subseteq run.heard
  BY <1>2 DEF Accounted
<1>4. /\ \A v \in DOMAIN told : IsView(told[v])
      /\ \A v : v \notin astray /\ HeardOf(run, v) = {} => Calm(v, told)
      /\ \A v : ToldOf(v, told, run, astray)
  BY <1>1, <1>2 DEF ToldInv, Told
<1>5. /\ \A v : \A e \in News(run, v) : e.vote = v /\ e \in Found(run)
      /\ \A e \in Found(run) : e \in News(run, e.vote)
  BY <1>2, NewsIs
<1>6. ASSUME NEW v \in saved PROVE HeardOf(run, v) = News(run, v)
  <2> DEFINE k == <<bondType, v>>
  <2>1. k \in SavedKeys \cup DeletedKeys /\ k[2] = v
    <3>1. CASE v \in succeededVotes
      BY <3>1 DEF SavedKeys
    <3>2. CASE v \in gone
      BY <3>2, OwnRows DEF DeletedKeys
    <3> QED
      BY <1>6, <3>1, <3>2
  <2>2. {e \in Found(run) : e.vote = k[2]} \subseteq run.recorded \cap run.heard
    BY <2>1, RecordedBeforeSaved
  <2>3. {e \in Found(run) : e.vote = v} \subseteq run.heard
    BY <2>1, <2>2
  <2> QED
    BY <1>3, <1>5, <2>3 DEF HeardOf
<1>7. ASSUME NEW v \in toldAll
      PROVE  HeardOf(run, v) # {} /\ ~ (v \in DOMAIN run.input /\ v \in DOMAIN Own)
  <2>1. PICK e \in run.sent :
             e.vote = v /\ e.inner_type \in {"first_seen", "validator_delisted"}
    OBVIOUS
  <2>2. e \in News(run, v) /\ e \in HeardOf(run, v)
    BY <1>3, <1>5, <2>1 DEF HeardOf
  <2> QED
    BY <1>2, <2>1, <2>2, KindsOfNews
<1>8. \A v : v \in VotesIn(run.heard) <=> HeardOf(run, v) # {}
  BY DEF VotesIn, HeardOf
<1>9. succeededVotes \subseteq DOMAIN run.input /\ DOMAIN run.input \subseteq keepVoteAccounts
  BY DEF succeededVotes, keepVoteAccounts
<1>10. /\ \A v : v \in DOMAIN Own' <=>
              v \in DOMAIN Own \cup succeededVotes /\ v \in keepVoteAccounts
       /\ \A v \in DOMAIN Own' :
             Own'[v] = IF v \in succeededVotes THEN toState(run.input[v], run.epoch)
                       ELSE Own[v]
  BY OwnAfter
<1>11. \A v : v \notin astray' =>
                \/ v \notin astray /\ (HeardOf(run, v) = {} \/ v \in saved)
                \/ v \in toldAll /\ v \in saved
  BY <1>1, <1>8
<1> DEFINE Well(v) == IF v \in DOMAIN Own' THEN v \in DOMAIN told /\ Agrees(told[v], Own'[v])
                      ELSE v \in DOMAIN told =>
                             told[v].funded \in {Null, 0} /\ ~told[v].in_auction
<1> HIDE DEF toldAll
<1>12. ASSUME NEW v \in succeededVotes, v \notin astray' PROVE Well(v)
  <2> DEFINE new == toState(run.input[v], run.epoch)
  <2>1. v \in DOMAIN Own' /\ Own'[v] = new /\ v \in saved /\ v \in DOMAIN run.input
    BY <1>9, <1>10
  <2>2. CASE v \in DOMAIN Own
    <3>1. v \notin astray
      BY <1>7, <1>11, <1>12, <2>1, <2>2
    <3>2. v \in DOMAIN told /\ Between(told[v], Own[v], new, News(run, v))
      <4>1. ToldOf(v, told, run, astray) /\ HeardOf(run, v) = News(run, v)
        BY <1>4, <1>6, <2>1
      <4> QED
        BY <2>1, <2>2, <3>1, <4>1 DEF ToldOf
    <3>3. ASSUME NEW a \in Aspects PROVE AgreesOn(a, told[v], new)
      <4>1. CASE \E e \in News(run, v) : Touches(e, a)
        BY <3>2, <4>1 DEF Between
      <4>2. CASE \A e \in News(run, v) : ~Touches(e, a)
        <5>1. AgreesOn(a, told[v], Own[v])
          BY <3>2, <4>2 DEF Between
        <5> QED
          BY <1>2, <2>1, <2>2, <4>2, <5>1, SilenceOfKept
      <4> QED
        BY <4>1, <4>2
    <3> HIDE DEF new
    <3>4. Agrees(told[v], new)
      BY <3>3, AllAspects
    <3> QED
      BY <2>1, <3>2, <3>4
  <2>3. CASE v \notin DOMAIN Own
    <3>1. HeardOf(run, v) # {}
      BY <1>2, <1>6, <2>1, <2>3, NewsOfNew
    <3>2. v \in DOMAIN told /\ told[v] = Known(FirstOf(v, run.input[v]))
      BY <1>4, <2>1, <2>3, <3>1 DEF ToldOf
    <3>3. Agrees(told[v], new)
      BY <3>2, FirstIsRow
    <3> HIDE DEF new
    <3> QED
      BY <2>1, <3>2, <3>3
  <2> QED
    BY <2>2, <2>3
<1>13. ASSUME NEW v \in gone, v \notin astray' PROVE Well(v)
  <2>1. v \notin DOMAIN Own' /\ v \in saved /\ v \notin DOMAIN run.input
    BY <1>9, <1>10
  <2>2. CASE HeardOf(run, v) # {}
    <3>1. v \notin DOMAIN told
      BY <1>4, <2>1, <2>2 DEF ToldOf
    <3> QED
      BY <2>1, <3>1
  <2>3. CASE HeardOf(run, v) = {}
    <3>1. v \notin astray
      BY <1>7, <1>11, <1>13, <2>3
    <3>2. ~ (Own[v].funded > 0 \/ Own[v].in_auction)
      <4>1. News(run, v) = {} /\ v \in DOMAIN Compared(run)
        BY <1>2, <1>6, <2>1, <2>3
      <4> QED
        BY <2>1, <4>1, NewsOfGone
    <3>3. Agrees(told[v], Own[v])
      BY <1>4, <2>3, <3>1 DEF Calm
    <3>4. Own[v].funded = 0 /\ Own[v].in_auction = FALSE
      BY <3>2, FundedIsNat
    <3>5. told[v].funded \in {Null, 0} /\ ~told[v].in_auction
      BY <3>3, <3>4 DEF Agrees
    <3> QED
      BY <2>1, <3>5
  <2> QED
    BY <2>2, <2>3
<1>14. ASSUME NEW v, v \notin saved, v \notin astray' PROVE Well(v)
  <2>1. v \notin astray /\ HeardOf(run, v) = {}
    BY <1>11, <1>14
  <2>2. Calm(v, told)
    BY <1>4, <2>1
  <2>3. /\ v \in DOMAIN Own' <=> v \in DOMAIN Own
        /\ v \in DOMAIN Own' => Own'[v] = Own[v]
    BY <1>10, <1>14
  <2> QED
    BY <2>2, <2>3 DEF Calm
<1>15. \A v : v \notin astray' => Well(v)
  BY <1>12, <1>13, <1>14
<1>16. \A v : v \notin astray' => Calm(v, told)'
  BY <1>1, <1>15 DEF Calm
<1> QED
  BY <1>1, <1>4, <1>16, IdleInput DEF ToldInv, Told

LEMMA AllStepsTell ==
    ASSUME StateInv, RunInv, ToldInv, [Next]_vars
    PROVE  ToldInv'
<1>1. CASE WorldChanges \/ NextEpoch \/ UNCHANGED vars
  BY <1>1, QuietTells
<1>2. CASE RunStep
  <2>1. CASE StartRun \/ StartOddRun
    BY <2>1, StartTells
  <2>2. CASE Acknowledged \/ AnswerLost \/ NotReceived \/ Rejected
    BY <2>2, EmissionTells
  <2>3. CASE persistEvents
    BY <2>3, PersistTells
  <2>4. CASE SaveState
    BY <2>4, SaveTells
  <2>5. CASE FinishUnsaved \/ Crash
    BY <2>5, EndTells
  <2> QED
    BY <1>2, <2>1, <2>2, <2>3, <2>4, <2>5 DEF RunStep
<1> QED
  BY <1>1, <1>2 DEF Next

(* The table and the notification service agree on every validator of      *)
(* which no more was heard than has been saved (runEventingPipeline keeps  *)
(* the row of a validator one of whose events did not get through),        *)
(* whatever requests fail, are lost or arrive twice, for any readings and  *)
(* any number of validators, retries and requests in flight.               *)
THEOREM TableAndServiceAgree == Spec => []InSync
<1>1. Init => StateInv /\ RunInv /\ ToldInv
  BY StartState, StartTold
<1>2. (StateInv /\ RunInv /\ ToldInv) /\ [Next]_vars => (StateInv /\ RunInv /\ ToldInv)'
  BY AllSteps, AllStepsTell
<1>3. ToldInv => InSync
  <2>1. \A v : v \notin VotesIn(run.heard) => HeardOf(run, v) = {}
    BY DEF VotesIn, HeardOf
  <2> QED
    BY <2>1 DEF ToldInv, Told, Calm, InSync
<1> QED
  BY <1>1, <1>2, <1>3, PTL DEF Spec

-----------------------------------------------------------------------------
(* An empty reading delists nobody.                                        *)

(* An institutional run that is going on has read of some validator.       *)
ReadSome == bondType = "institutional" /\ run.phase # "idle" => run.input # Empty

(* The step of DelistedByOthers, as its definition has it                  *)
DelistsByOthers ==
    bondType = "institutional" =>
      \A v \in (DOMAIN told \ DOMAIN told') \cup (DOMAIN Own \ DOMAIN Own') :
          v \notin DOMAIN run.input /\ run.input # Empty

LEMMA StartReads ==
    ASSUME StateInv, RunInv, StartRun \/ StartOddRun
    PROVE  ReadSome' /\ told' = told /\ rows' = rows /\ bondType' = bondType
<1>1. PICK mode \in Modes, input \in {world, Empty} : Evaluate(mode, input)
  BY DEF StartRun, StartOddRun, Modes
<1>2. UNCHANGED <<bondType, rows, told>> /\ ~Refused(input)
  BY <1>1 DEF Evaluate
<1>3. DOMAIN input \subseteq Votes
  BY IdleInput DEF StateInv
<1>4. Own' = Own
  BY <1>2, StaysAccounted
<1>5. run'.input = input
  BY <1>1, <1>2, <1>3, <1>4, EvaluateRun
<1> QED
  BY <1>2, <1>5 DEF ReadSome, Refused

LEMMA StaysRead ==
    ASSUME StateInv, RunInv, ReadSome, [Next]_vars
    PROVE  ReadSome'
<1>1. CASE StartRun \/ StartOddRun
  BY <1>1, StartReads
<1>2. CASE Acknowledged \/ AnswerLost \/ NotReceived \/ Rejected
  <2>1. bondType' = bondType
    BY <1>2 DEF Acknowledged, AnswerLost, NotReceived, Rejected
  <2>2. run'.phase = run.phase /\ run'.input = run.input
    BY <1>2, EmissionOfOne
  <2> QED
    BY <2>1, <2>2 DEF ReadSome
<1>3. CASE persistEvents
  <2>1. /\ bondType' = bondType /\ Emitted
        /\ run' = [run EXCEPT !.phase = "persisted", !.recorded = run.sent]
    BY <1>3 DEF persistEvents
  <2>2. run.phase = "emitting" /\ Pool(run)
    BY <2>1 DEF RunInv, Emitted, Emitting
  <2>3. run'.input = run.input
    BY <2>1, <2>2 DEF Pool, Loose, IsRun, RunFields
  <2> QED
    BY <2>1, <2>2, <2>3 DEF ReadSome
<1>4. CASE SaveState \/ FinishUnsaved \/ Crash
  <2>1. run' = Idle
    BY <1>4 DEF SaveState, FinishUnsaved, Crash
  <2> QED
    BY <2>1, IdleInput DEF ReadSome
<1>5. CASE WorldChanges \/ NextEpoch \/ UNCHANGED vars
  BY <1>5 DEF WorldChanges, NextEpoch, vars, ReadSome
<1> QED
  BY <1>1, <1>2, <1>3, <1>4, <1>5 DEF Next, RunStep

LEMMA StepDelists ==
    ASSUME StateInv, RunInv, ReadSome, [Next]_vars
    PROVE  DelistsByOthers
<1> SUFFICES ASSUME bondType = "institutional",
                    NEW v \in (DOMAIN told \ DOMAIN told') \cup (DOMAIN Own \ DOMAIN Own')
             PROVE  v \notin DOMAIN run.input /\ run.input # Empty
  BY DEF DelistsByOthers
<1>1. CASE Acknowledged \/ AnswerLost \/ NotReceived \/ Rejected
  <2>1. Emitting /\ UNCHANGED <<bondType, rows>>
    BY <1>1 DEF Acknowledged, AnswerLost, NotReceived, Rejected
  <2>2. Own' = Own
    BY <2>1, StaysAccounted
  <2>3. PICK e \in Found(run) : told' = Heard(told, e) \/ told' = told
    BY <1>1, EmissionOfOne
  <2>4. v \in DOMAIN told /\ v \notin DOMAIN told' /\ told' = Heard(told, e)
    BY <2>2, <2>3
  <2>5. v = e.vote /\ e.inner_type = "validator_delisted"
    BY <2>4, HeardViews
  <2>6. e \in News(run, v) /\ InputOf(run)
    BY <2>5, NewsIs DEF StateInv, InputOf
  <2>7. v \notin DOMAIN run.input
    BY <2>5, <2>6, KindsOfNews
  <2> QED
    BY <2>1, <2>7 DEF ReadSome, Emitting
<1>2. CASE SaveState
  <2>1. run.phase = "persisted" /\ told' = told
    BY <1>2 DEF SaveState
  <2>2. v \in DOMAIN Own /\ v \notin DOMAIN Own'
    BY <2>1
  <2>3. v \notin keepVoteAccounts
    BY <1>2, <2>2, OwnAfter
  <2> QED
    BY <2>1, <2>3 DEF keepVoteAccounts, ReadSome
<1>3. CASE ~(Acknowledged \/ AnswerLost \/ NotReceived \/ Rejected) /\ ~SaveState
  <2>1. told' = told /\ rows' = rows /\ bondType' = bondType
    <3>1. CASE StartRun \/ StartOddRun
      BY <3>1, StartReads
    <3>2. CASE WorldChanges \/ NextEpoch \/ persistEvents \/ FinishUnsaved \/ Crash
               \/ UNCHANGED vars
      BY <3>2 DEF WorldChanges, NextEpoch, persistEvents, FinishUnsaved, Crash, vars
    <3> QED
      BY <1>3, <3>1, <3>2 DEF Next, RunStep
  <2>2. Own' = Own
    BY <2>1, StaysAccounted
  <2> QED
    BY <2>1, <2>2
<1> QED
  BY <1>1, <1>2, <1>3

(* The guard of run-institutional.ts:45 is enough: whatever fails, is lost *)
(* or repeated, and for any readings, validators and retries, no validator *)
(* is reported as delisted and no row deleted but by a run that has read   *)
(* of others.                                                              *)
THEOREM OthersDelist == Spec => DelistedByOthers
<1>1. Init => StateInv /\ RunInv /\ ReadSome
  BY StartState, IdleInput DEF Init, ReadSome
<1>2. (StateInv /\ RunInv /\ ReadSome) /\ [Next]_vars => (StateInv /\ RunInv /\ ReadSome)'
  BY AllSteps, StaysRead
<1>3. StateInv /\ RunInv /\ ReadSome /\ [Next]_vars => [DelistsByOthers]_vars
  BY StepDelists
<1>4. DelistedByOthers <=> [][DelistsByOthers]_vars
  BY DEF DelistedByOthers, DelistsByOthers
<1> QED
  BY <1>1, <1>2, <1>3, <1>4, PTL DEF Spec
=============================================================================
