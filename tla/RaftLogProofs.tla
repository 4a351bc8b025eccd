---------------------------- MODULE RaftLogProofs -----------------------------
(***************************************************************************)
(* What the operators of module RaftLog return, for every log and every    *)
(* request, and what they rest on: a set of naturals has a least element.  *)
(***************************************************************************)
EXTENDS RaftLog, Integers, FiniteSets, FiniteSetTheorems, SequenceTheorems,
        WellFoundedInduction, TLAPS

\* Induction on the naturals in the form of a least counterexample.
LEMMA LeastNatural ==
    ASSUME NEW S \in SUBSET Nat, S # {}
    PROVE  \E n \in S : \A k \in S : n <= k
  <1>1. PICK b \in S : TRUE
    OBVIOUS
  <1> DEFINE Low == {n \in S : n <= b}
             T == {0..n : n \in Low}
  <1>2. T \subseteq FiniteSubsetsOf(0..b)
    <2>1. ASSUME NEW n \in Low PROVE 0..n \in FiniteSubsetsOf(0..b)
      BY FS_Interval DEF FiniteSubsetsOf
    <2>2. QED BY <2>1
  <1>3. T # {}
    BY <1>1
  <1>4. IsWellFoundedOn(StrictSubsetOrdering(0..b), FiniteSubsetsOf(0..b))
    BY FS_StrictSubsetOrderingWellFounded
  <1>5. PICK x \in T : \A y \in T : ~ (<<y, x>> \in StrictSubsetOrdering(0..b))
    BY <1>2, <1>3, <1>4, WFMin
  <1>6. PICK n \in Low : x = 0..n
    BY <1>5
  <1>7. ASSUME NEW k \in S PROVE n <= k
    <2>1. SUFFICES ASSUME k < n PROVE FALSE
      OBVIOUS
    <2>2. k \in Low /\ 0..k \in T
      BY <2>1
    <2>3. 0..k \subseteq 0..n /\ 0..k # 0..n
      BY <2>1
    <2>4. <<0..k, 0..n>> \in StrictSubsetOrdering(0..b)
      BY <2>1, <2>3, <1>2, <2>2 DEF StrictSubsetOrdering
    <2>5. QED BY <1>5, <1>6, <2>2, <2>4
  <1>8. QED BY <1>6, <1>7

\* A bounded set of naturals has a greatest element.
LEMMA GreatestBounded ==
    ASSUME NEW b \in Nat, NEW S \in SUBSET (0..b), S # {}
    PROVE  \E n \in S : \A k \in S : k <= n
  <1> DEFINE T == {j \in 0..b : b - j \in S}
  <1>1. T \in SUBSET Nat /\ T # {}
    <2>1. PICK n \in S : TRUE
      OBVIOUS
    <2>2. b - n \in T
      BY <2>1
    <2>3. QED BY <2>2
  <1>2. PICK j \in T : \A k \in T : j <= k
    BY <1>1, LeastNatural
  <1>3. ASSUME NEW k \in S PROVE k <= b - j
    <2>1. b - k \in T
      OBVIOUS
    <2>2. j <= b - k
      BY <1>2, <2>1
    <2>3. QED BY <2>2
  <1>4. QED BY <1>2, <1>3

-----------------------------------------------------------------------------
\* SkipCount is the number of leading entries the log has already.
LEMMA SkipCountIsGreatest ==
    ASSUME NEW log, NEW entries, Len(entries) \in Nat, NEW prev \in Nat
    PROVE  /\ SkipCount(log, prev, entries) \in Known(log, prev, entries)
           /\ \A j \in Known(log, prev, entries) : j <= SkipCount(log, prev, entries)
  <1> DEFINE K == Known(log, prev, entries)
  <1>1. K \in SUBSET (0..Len(entries))
    BY DEF Known
  <1>2. 0 \in K
    BY DEF Known
  <1>3. \E n \in K : \A k \in K : k <= n
    BY <1>1, <1>2, GreatestBounded
  <1>4. QED BY <1>3 DEF SkipCount

\* What SkipCount says about the two logs.
LEMMA SkipCountIs ==
    ASSUME NEW S, NEW log \in Seq(S), NEW entries \in Seq(S), NEW prev \in 0..Len(log)
    PROVE  LET k == SkipCount(log, prev, entries)
           IN  /\ k \in 0..Len(entries) /\ prev + k <= Len(log)
               /\ \A j \in 1..k : log[prev + j].term = entries[j].term
               /\ k < Len(entries) /\ prev + k < Len(log) =>
                    log[prev + k + 1].term # entries[k + 1].term
  <1> DEFINE k == SkipCount(log, prev, entries)
  <1>1. Len(log) \in Nat /\ Len(entries) \in Nat
    OBVIOUS
  <1>2. k \in Known(log, prev, entries) /\ \A j \in Known(log, prev, entries) : j <= k
    BY <1>1, SkipCountIsGreatest
  <1> HIDE DEF k
  <1>3. k \in 0..Len(entries) /\ \A j \in 1..k : /\ prev + j <= Len(log)
                                                 /\ log[prev + j].term = entries[j].term
    BY <1>2 DEF Known
  <1>4. prev + k <= Len(log)
    <2>1. CASE k = 0
      BY <1>1, <2>1
    <2>2. CASE k # 0
      <3>1. k \in 1..k
        BY <1>1, <1>3, <2>2
      <3>2. QED BY <1>3, <3>1
    <2>3. QED BY <2>1, <2>2
  <1>5. ASSUME k < Len(entries), prev + k < Len(log),
               log[prev + k + 1].term = entries[k + 1].term
        PROVE  FALSE
    <2>1. k + 1 \in 0..Len(entries)
      BY <1>1, <1>3, <1>5
    <2>2. ASSUME NEW j \in 1..(k + 1)
          PROVE  prev + j <= Len(log) /\ log[prev + j].term = entries[j].term
      <3>1. CASE j \in 1..k
        BY <1>3, <3>1
      <3>2. CASE j = k + 1
        BY <1>1, <1>3, <1>5, <3>2
      <3>3. QED BY <1>3, <2>2, <3>1, <3>2
    <2>3. k + 1 \in Known(log, prev, entries)
      BY <2>1, <2>2 DEF Known
    <2>4. k + 1 <= k
      BY <1>2, <2>3
    <2>5. QED BY <1>1, <1>3, <2>4
  <1>6. QED BY <1>3, <1>4, <1>5 DEF k

\* The log that AppendAfter leaves: its own entries up to position prev + k,
\* those of the request from there up to the j-th.
Spliced(log, prev, entries, k, j) ==
    SubSeq(log, 1, prev + k) \o SubSeq(entries, k + 1, j)

\* Where the elements of that log come from.
LEMMA SplicedIs ==
    ASSUME NEW S, NEW log \in Seq(S), NEW entries \in Seq(S), NEW prev \in 0..Len(log),
           NEW k \in 0..Len(entries), prev + k <= Len(log), NEW j \in k..Len(entries)
    PROVE  LET new == Spliced(log, prev, entries, k, j)
           IN  /\ new \in Seq(S) /\ Len(new) = prev + j
               /\ \A r \in 1..(prev + k) : new[r] = log[r]
               /\ \A r \in (prev + k + 1)..(prev + j) : new[r] = entries[r - prev]
  <1> DEFINE a == SubSeq(log, 1, prev + k)
             b == SubSeq(entries, k + 1, j)
  <1>1. Len(log) \in Nat /\ Len(entries) \in Nat /\ k \in Nat /\ j \in Nat /\ prev \in Nat
    OBVIOUS
  <1>2. a \in Seq(S) /\ Len(a) = prev + k /\ \A r \in 1..(prev + k) : a[r] = log[r]
    <2>1. \A i \in 1..(prev + k) : log[i] \in S
      BY <1>1, ElementOfSeq
    <2>2. /\ a \in Seq(S)
          /\ Len(a) = IF 1 <= prev + k THEN (prev + k) - 1 + 1 ELSE 0
          /\ \A i \in 1..((prev + k) - 1 + 1) : a[i] = log[1 + i - 1]
      BY <1>1, <2>1, SubSeqProperties
    <2> HIDE DEF a
    <2>3. Len(a) = prev + k
      BY <1>1, <2>2
    <2>4. QED BY <1>1, <2>2, <2>3
  <1>3. b \in Seq(S) /\ Len(b) = j - k /\ \A r \in 1..(j - k) : b[r] = entries[k + r]
    <2>1. \A i \in (k + 1)..j : entries[i] \in S
      BY <1>1, ElementOfSeq
    <2>2. /\ b \in Seq(S)
          /\ Len(b) = IF k + 1 <= j THEN j - (k + 1) + 1 ELSE 0
          /\ \A i \in 1..(j - (k + 1) + 1) : b[i] = entries[(k + 1) + i - 1]
      BY <1>1, <2>1, SubSeqProperties
    <2> HIDE DEF b
    <2>3. Len(b) = j - k
      BY <1>1, <2>2
    <2>4. ASSUME NEW r \in 1..(j - k) PROVE b[r] = entries[k + r]
      <3>1. r \in 1..(j - (k + 1) + 1) /\ (k + 1) + r - 1 = k + r
        BY <1>1
      <3>2. QED BY <2>2, <3>1
    <2>5. QED BY <2>2, <2>3, <2>4
  <1> HIDE DEF a, b
  <1>4. /\ a \o b \in Seq(S)
        /\ Len(a \o b) = Len(a) + Len(b)
        /\ \A i \in 1..(Len(a) + Len(b)) :
              (a \o b)[i] = IF i <= Len(a) THEN a[i] ELSE b[i - Len(a)]
    BY <1>2, <1>3, ConcatProperties, SMTT(20)
  <1>5. Len(a \o b) = prev + j
    BY <1>1, <1>2, <1>3, <1>4
  <1>6. ASSUME NEW r \in 1..(prev + k) PROVE (a \o b)[r] = log[r]
    BY <1>1, <1>2, <1>3, <1>4
  <1>7. ASSUME NEW r \in (prev + k + 1)..(prev + j) PROVE (a \o b)[r] = entries[r - prev]
    <2>1. r \in 1..(Len(a) + Len(b)) /\ ~(r <= Len(a))
          /\ r - Len(a) \in 1..(j - k) /\ k + (r - Len(a)) = r - prev
      BY <1>1, <1>2, <1>3
    <2>2. QED BY <1>3, <1>4, <2>1
  <1>8. QED
    BY <1>4, <1>5, <1>6, <1>7 DEF Spliced, a, b

\* AppendAfter leaves the log alone or splices the request in after the part
\* the two have in common.
LEMMA AfterAppendSplices ==
    ASSUME NEW log, NEW prev, NEW entries
    PROVE  LET k == SkipCount(log, prev, entries)
           IN  AfterAppend(log, prev, entries) =
                  IF k = Len(entries) THEN log
                  ELSE Spliced(log, prev, entries, k, Len(entries))
  BY DEF AfterAppend, Spliced

\* AppendAfter stores what it was given and nothing before it changes: every
\* entry of the request is in the log afterwards, as far as its term tells.
THEOREM AppendAfterStores ==
    ASSUME NEW S, NEW log \in Seq(S), NEW entries \in Seq(S), NEW prev \in 0..Len(log)
    PROVE  LET new == AfterAppend(log, prev, entries)
           IN  /\ new \in Seq(S) /\ Len(new) >= prev + Len(entries)
               /\ \A r \in 1..prev : new[r] = log[r]
               /\ \A j \in 1..Len(entries) : new[prev + j].term = entries[j].term
  <1> DEFINE k == SkipCount(log, prev, entries)
             new == AfterAppend(log, prev, entries)
  <1>1. Len(log) \in Nat /\ Len(entries) \in Nat /\ prev \in Nat
    OBVIOUS
  <1>2. /\ k \in 0..Len(entries) /\ prev + k <= Len(log)
        /\ \A j \in 1..k : log[prev + j].term = entries[j].term
        /\ k < Len(entries) /\ prev + k < Len(log) =>
             log[prev + k + 1].term # entries[k + 1].term
    BY SkipCountIs
  <1>3. new = IF k = Len(entries) THEN log ELSE Spliced(log, prev, entries, k, Len(entries))
    BY AfterAppendSplices
  <1> HIDE DEF k, new
  <1>4. CASE k = Len(entries)
    BY <1>1, <1>2, <1>3, <1>4 DEF new
  <1>5. CASE k # Len(entries)
    <2>1. /\ new \in Seq(S) /\ Len(new) = prev + Len(entries)
          /\ \A r \in 1..(prev + k) : new[r] = log[r]
          /\ \A r \in (prev + k + 1)..(prev + Len(entries)) : new[r] = entries[r - prev]
      <3>1. Len(entries) \in k..Len(entries)
        BY <1>1, <1>2
      <3>2. LET spliced == Spliced(log, prev, entries, k, Len(entries))
            IN  /\ spliced \in Seq(S) /\ Len(spliced) = prev + Len(entries)
                /\ \A r \in 1..(prev + k) : spliced[r] = log[r]
                /\ \A r \in (prev + k + 1)..(prev + Len(entries)) :
                      spliced[r] = entries[r - prev]
        BY <1>2, <3>1, SplicedIs
      <3>3. QED BY <1>3, <1>5, <3>2
    <2>2. \A r \in 1..prev : new[r] = log[r]
      BY <1>1, <1>2, <2>1
    <2>3. ASSUME NEW j \in 1..Len(entries) PROVE new[prev + j].term = entries[j].term
      <3>1. CASE j <= k
        <4>1. prev + j \in 1..(prev + k) /\ j \in 1..k
          BY <1>1, <1>2, <3>1
        <4>2. QED BY <1>2, <2>1, <4>1
      <3>2. CASE j > k
        <4>1. prev + j \in (prev + k + 1)..(prev + Len(entries)) /\ (prev + j) - prev = j
          BY <1>1, <1>2, <3>2
        <4>2. QED BY <2>1, <4>1
      <3>3. QED BY <1>1, <1>2, <3>1, <3>2
    <2>4. QED BY <1>1, <2>1, <2>2, <2>3 DEF new
  <1>6. QED BY <1>4, <1>5

\* AppendAfter gives up nothing without a conflict: a log that holds all of
\* the request is left as it is, and an entry of the log is only lost when the
\* request has another term somewhere at or before it.
THEOREM AppendAfterCutsConflicts ==
    ASSUME NEW S, NEW log \in Seq(S), NEW entries \in Seq(S), NEW prev \in 0..Len(log),
           NEW r \in 1..Len(log)
    PROVE  LET new == AfterAppend(log, prev, entries)
           IN  \/ r <= Len(new) /\ new[r] = log[r]
               \/ \E j \in 1..Len(entries) : /\ prev + j <= r
                                             /\ log[prev + j].term # entries[j].term
  <1> DEFINE k == SkipCount(log, prev, entries)
             new == AfterAppend(log, prev, entries)
  <1>1. Len(log) \in Nat /\ Len(entries) \in Nat /\ prev \in Nat
    OBVIOUS
  <1>2. /\ k \in 0..Len(entries) /\ prev + k <= Len(log)
        /\ k < Len(entries) /\ prev + k < Len(log) =>
             log[prev + k + 1].term # entries[k + 1].term
    BY SkipCountIs
  <1>3. new = IF k = Len(entries) THEN log ELSE Spliced(log, prev, entries, k, Len(entries))
    BY AfterAppendSplices
  <1> HIDE DEF k, new
  <1>4. CASE k = Len(entries)
    BY <1>1, <1>3, <1>4 DEF new
  <1>5. CASE k # Len(entries) /\ r <= prev + k
    <2>1. /\ Len(new) = prev + Len(entries)
          /\ \A q \in 1..(prev + k) : new[q] = log[q]
      <3>1. Len(entries) \in k..Len(entries)
        BY <1>1, <1>2
      <3>2. LET spliced == Spliced(log, prev, entries, k, Len(entries))
            IN  /\ spliced \in Seq(S) /\ Len(spliced) = prev + Len(entries)
                /\ \A q \in 1..(prev + k) : spliced[q] = log[q]
                /\ \A q \in (prev + k + 1)..(prev + Len(entries)) :
                      spliced[q] = entries[q - prev]
        BY <1>2, <3>1, SplicedIs
      <3>3. QED BY <1>3, <1>5, <3>2
    <2>2. QED BY <1>1, <1>2, <1>5, <2>1 DEF new
  <1>6. CASE k # Len(entries) /\ r > prev + k
    <2>1. /\ k + 1 \in 1..Len(entries) /\ prev + (k + 1) <= r
          /\ prev + k + 1 = prev + (k + 1) /\ prev + k < Len(log) /\ k < Len(entries)
      BY <1>1, <1>2, <1>6
    <2>2. log[prev + (k + 1)].term # entries[k + 1].term
      BY <1>2, <2>1
    <2>3. QED BY <2>1, <2>2
  <1>7. QED BY <1>1, <1>2, <1>4, <1>5, <1>6

-----------------------------------------------------------------------------
\* EntriesFrom, as replicateTo uses it: what follows position prev, nothing
\* when the log does not get there.
LEMMA EntriesFromIs ==
    ASSUME NEW S, NEW log \in Seq(S), NEW prev \in Nat
    PROVE  LET e == EntriesFrom(log, prev + 1)
           IN  /\ e \in Seq(S)
               /\ Len(e) = IF prev <= Len(log) THEN Len(log) - prev ELSE 0
               /\ \A r \in 1..Len(e) : e[r] = log[prev + r]
  <1> DEFINE e == EntriesFrom(log, prev + 1)
  <1>1. Len(log) \in Nat
    OBVIOUS
  <1>2. e = SubSeq(log, prev + 1, Len(log))
    BY DEF EntriesFrom
  <1>3. \A i \in (prev + 1)..Len(log) : log[i] \in S
    BY <1>1, ElementOfSeq
  <1>4. /\ e \in Seq(S)
        /\ Len(e) = IF prev + 1 <= Len(log) THEN Len(log) - (prev + 1) + 1 ELSE 0
        /\ \A i \in 1..(Len(log) - (prev + 1) + 1) : e[i] = log[(prev + 1) + i - 1]
    <2>1. prev + 1 \in Int /\ Len(log) \in Int
      BY <1>1
    <2> HIDE DEF e
    <2> DEFINE m == prev + 1
               n == Len(log)
    <2>2. e = SubSeq(log, m, n) /\ m \in Int /\ n \in Int /\ \A i \in m..n : log[i] \in S
      BY <1>2, <1>3, <2>1
    <2> HIDE DEF m, n
    <2>3. /\ e \in Seq(S)
          /\ Len(e) = IF m <= n THEN n - m + 1 ELSE 0
          /\ \A i \in 1..(n - m + 1) : e[i] = log[m + i - 1]
      BY <2>2, SubSeqProperties
    <2>4. QED BY <2>3 DEF m, n
  <1> HIDE DEF e
  <1>5. Len(e) = IF prev <= Len(log) THEN Len(log) - prev ELSE 0
    BY <1>1, <1>4
  <1>6. ASSUME NEW r \in 1..Len(e) PROVE e[r] = log[prev + r]
    <2>1. r \in 1..(Len(log) - (prev + 1) + 1) /\ (prev + 1) + r - 1 = prev + r
      BY <1>1, <1>5
    <2>2. QED BY <1>4, <2>1
  <1>7. QED BY <1>4, <1>5, <1>6 DEF e
=============================================================================
