-------------------------- MODULE LinkWatch_proof --------------------------
(***************************************************************************)
(* For any number of links, any length of inotify's queue and any number   *)
(* of deaths of the reader.  The queue holds at most the links made, so    *)
(* that a Lossless one is never full when there is one more to report; and *)
(* what is ordered is not the list, where a name may come twice, but what  *)
(* has come before a name when it is its turn.                             *)
(***************************************************************************)
EXTENDS LinkWatch, SequenceTheorems, FiniteSetTheorems, TLAPS

\* LinkWatch.TypeOK, what never changes, and how the phases empty the rest.
StateType ==
    /\ TypeOK
    /\ user \in Users /\ limit \in Limits
    /\ phase # "up" => list = <<>> /\ popped = {}
    /\ phase = "down" => kernel = <<>>

\* Nothing is known to the reader that has not been created, and inotify has
\* not reported more than that: its queue is not full as long as there is
\* something left to report.
Created ==
    /\ popped \cup Range(list) \cup Range(kernel) \subseteq 1 .. made
    /\ Len(kernel) <= made

\* Whatever waits in the directory and is older than a name in the list comes
\* before it there, or is out; and likewise for what the kernel will deliver.
Ordered ==
    Lossless /\ user = "chain" /\ phase = "up" =>
        /\ \A i \in DOMAIN list, m \in dir :
              m < list[i] => m \in popped \/ \E j \in DOMAIN list : j < i /\ list[j] = m
        /\ \A i \in DOMAIN kernel, m \in dir :
              m < kernel[i] =>
                  \/ m \in popped \cup Range(list)
                  \/ \E j \in DOMAIN kernel : j < i /\ kernel[j] = m

LinkInv == StateType /\ Created /\ NoLinkMissed /\ Ordered /\ InCreationOrder

-----------------------------------------------------------------------------
(* Sequences *)

\* scandir returns every link there is, oldest first.
LEMMA ListingHolds ==
    ASSUME NEW d \in SUBSET Names, NEW s \in Listings(d)
    PROVE  s \in Seq(Names) /\ Range(s) = d
<1> DEFINE n == Cardinality(d)
<1>1. IsFiniteSet(d) /\ n \in Nat
  <2>1. IsFiniteSet(1 .. MaxName)
    BY FS_Interval, LinkWatchAssumption
  <2>2. IsFiniteSet(d)
    BY <2>1, FS_Subset DEF Names
  <2> QED
    BY <2>2, FS_CardinalityType
<1>2. IsFiniteSet(1 .. n) /\ Cardinality(1 .. n) = n
  BY <1>1, FS_Interval
<1>3. s \in [1 .. n -> d] /\ \A i, j \in 1 .. n : i < j => s[i] < s[j]
  BY DEF Listings
<1>4. ASSUME NEW i \in 1 .. n, NEW j \in 1 .. n, s[i] = s[j] PROVE i = j
  <2>1. s[i] \in Int /\ s[j] \in Int
    <3>1. s[i] \in d /\ s[j] \in d
      BY <1>3
    <3>2. d \subseteq Int
      BY DEF Names
    <3> QED
      BY <3>1, <3>2
  <2>2. ~(i < j) /\ ~(j < i)
    BY <1>3, <1>4, <2>1
  <2> QED
    BY <1>1, <2>2
<1>5. s \in Injection(1 .. n, d)
  BY <1>3, <1>4 DEF Injection, IsInjective
<1>6. s \in Surjection(1 .. n, d)
  BY <1>1, <1>2, <1>5, FS_Injection
<1>7. Range(s) = d
  BY <1>3, <1>6 DEF Surjection, Range
<1>8. s \in Seq(Names)
  BY <1>1, <1>3
<1> QED
  BY <1>7, <1>8

\* What the list holds when inotify's queue is put behind it, and where.
LEMMA Joined ==
    ASSUME list \in Seq(Names), kernel \in Seq(Names), list' = list \o kernel
    PROVE  /\ list' \in Seq(Names) /\ Range(list') = Range(list) \cup Range(kernel)
           /\ \A i \in DOMAIN list : i \in DOMAIN list' /\ list'[i] = list[i]
           /\ \A i \in DOMAIN kernel :
                 i + Len(list) \in DOMAIN list' /\ list'[i + Len(list)] = kernel[i]
           /\ \A i \in DOMAIN list' : i \in DOMAIN list \/ i - Len(list) \in DOMAIN kernel
           /\ DOMAIN list = 1 .. Len(list) /\ DOMAIN kernel = 1 .. Len(kernel)
<1>1. /\ list' \in Seq(Names) /\ Len(list') = Len(list) + Len(kernel)
      /\ \A i \in 1 .. Len(list) + Len(kernel) : list'[i] = IF i <= Len(list) THEN list[i] ELSE kernel[i - Len(list)]
  BY ConcatProperties
<1>2. /\ DOMAIN list' = 1 .. Len(list') /\ DOMAIN list = 1 .. Len(list) /\ DOMAIN kernel = 1 .. Len(kernel)
      /\ Len(list) \in Nat /\ Len(kernel) \in Nat
  BY <1>1, LenProperties
<1>3. \A i \in DOMAIN list : i \in DOMAIN list' /\ list'[i] = list[i]
  BY <1>1, <1>2
<1>4. \A i \in DOMAIN kernel : i + Len(list) \in DOMAIN list' /\ list'[i + Len(list)] = kernel[i]
  BY <1>1, <1>2
<1>5. \A i \in DOMAIN list' : i \in DOMAIN list \/ i - Len(list) \in DOMAIN kernel
  BY <1>1, <1>2
<1>6. \A i \in DOMAIN list' : list'[i] \in Range(list) \cup Range(kernel)
  <2> TAKE i \in DOMAIN list'
  <2>1. CASE i \in DOMAIN list
    BY <1>3, <2>1 DEF Range
  <2>2. CASE i - Len(list) \in DOMAIN kernel
    <3>1. list'[i] = kernel[i - Len(list)]
      BY <1>1, <1>2, <2>2
    <3> QED
      BY <2>2, <3>1 DEF Range
  <2> QED
    BY <1>5, <2>1, <2>2
<1>7. Range(list') = Range(list) \cup Range(kernel)
  <2>1. Range(list') \subseteq Range(list) \cup Range(kernel)
    BY <1>6 DEF Range
  <2>2. Range(list) \subseteq Range(list')
    BY <1>3 DEF Range
  <2>3. Range(kernel) \subseteq Range(list')
    BY <1>4 DEF Range
  <2> QED
    BY <2>1, <2>2, <2>3
<1> QED
  BY <1>1, <1>2, <1>3, <1>4, <1>5, <1>7

\* inotify queues one more creation.
LEMMA Queued ==
    ASSUME kernel \in Seq(Names), made + 1 \in Names, kernel' = Append(kernel, made + 1)
    PROVE  /\ kernel' \in Seq(Names) /\ Len(kernel') = Len(kernel) + 1
           /\ Range(kernel') = Range(kernel) \cup {made + 1}
           /\ \A i \in DOMAIN kernel : i \in DOMAIN kernel' /\ kernel'[i] = kernel[i]
           /\ \A i \in DOMAIN kernel' : i \in DOMAIN kernel \/ kernel'[i] = made + 1
<1>1. /\ kernel' \in Seq(Names) /\ Len(kernel') = Len(kernel) + 1
      /\ \A i \in 1 .. Len(kernel) : kernel'[i] = kernel[i]
      /\ kernel'[Len(kernel) + 1] = made + 1
  BY AppendProperties
<1>2. DOMAIN kernel' = 1 .. Len(kernel') /\ DOMAIN kernel = 1 .. Len(kernel) /\ Len(kernel) \in Nat
  BY <1>1, LenProperties
<1>3. \A i \in DOMAIN kernel : i \in DOMAIN kernel' /\ kernel'[i] = kernel[i]
  BY <1>1, <1>2
<1>4. \A i \in DOMAIN kernel' : i \in DOMAIN kernel \/ kernel'[i] = made + 1
  BY <1>1, <1>2
<1>5. Len(kernel) + 1 \in DOMAIN kernel'
  BY <1>1, <1>2
<1>6. Range(kernel') = Range(kernel) \cup {made + 1}
  <2>1. Range(kernel') \subseteq Range(kernel) \cup {made + 1}
    BY <1>3, <1>4 DEF Range
  <2>2. Range(kernel) \subseteq Range(kernel')
    BY <1>3 DEF Range
  <2>3. made + 1 \in Range(kernel')
    BY <1>1, <1>5 DEF Range
  <2> QED
    BY <2>1, <2>2, <2>3
<1> QED
  BY <1>1, <1>3, <1>4, <1>6

\* The first name is taken.
LEMMA FirstTaken ==
    ASSUME NEW s \in Seq(Names), s # <<>>, NEW u, u = Tail(s)
    PROVE  /\ u \in Seq(Names) /\ Head(s) \in Range(s) /\ Range(s) = Range(u) \cup {Head(s)}
           /\ \A i \in DOMAIN u : i + 1 \in DOMAIN s /\ u[i] = s[i + 1]
           /\ \A i \in DOMAIN s : i = 1 \/ i - 1 \in DOMAIN u
           /\ 1 \in DOMAIN s /\ s[1] = Head(s)
           /\ DOMAIN s \subseteq Nat /\ DOMAIN u \subseteq Nat
<1>1. /\ u \in Seq(Names) /\ Len(u) = Len(s) - 1
      /\ \A i \in 1 .. Len(u) : u[i] = s[i + 1]
  BY HeadTailProperties
<1>2. DOMAIN u = 1 .. Len(u) /\ DOMAIN s = 1 .. Len(s) /\ Len(s) \in Nat /\ Len(u) \in Nat
  BY <1>1, LenProperties
<1>3. Len(s) # 0 /\ Head(s) = s[1]
  BY EmptySeq
<1>4. \A i \in DOMAIN u : i + 1 \in DOMAIN s /\ u[i] = s[i + 1]
  BY <1>1, <1>2
<1>5. \A i \in DOMAIN s : i = 1 \/ i - 1 \in DOMAIN u
  BY <1>1, <1>2
<1>6. 1 \in DOMAIN s
  BY <1>2, <1>3
<1>7. Head(s) \in Range(s)
  BY <1>3, <1>6 DEF Range
<1>8. Range(u) \subseteq Range(s)
  BY <1>4 DEF Range
<1>9. \A i \in DOMAIN s : s[i] \in Range(u) \cup {Head(s)}
  <2> TAKE i \in DOMAIN s
  <2>1. CASE i = 1
    BY <1>3, <2>1
  <2>2. CASE i - 1 \in DOMAIN u
    <3>1. u[i - 1] = s[i]
      BY <1>2, <1>4, <2>2
    <3> QED
      BY <2>2, <3>1 DEF Range
  <2> QED
    BY <1>5, <2>1, <2>2
<1>10. Range(s) \subseteq Range(u) \cup {Head(s)}
  BY <1>9 DEF Range
<1> QED
  BY <1>1, <1>2, <1>3, <1>4, <1>5, <1>6, <1>7, <1>8, <1>10

\* The last name is taken.
LEMMA LastTaken ==
    ASSUME NEW s \in Seq(Names), s # <<>>, NEW u, u = SubSeq(s, 1, Len(s) - 1)
    PROVE  /\ u \in Seq(Names) /\ s[Len(s)] \in Range(s)
           /\ Range(s) = Range(u) \cup {s[Len(s)]}
<1>1. Len(s) \in Nat \ {0} /\ DOMAIN s = 1 .. Len(s) /\ \A i \in 1 .. Len(s) : s[i] \in Names
  BY LenProperties, EmptySeq
<1>2. /\ u \in Seq(Names) /\ Len(u) = Len(s) - 1
      /\ \A i \in 1 .. Len(s) - 1 : u[i] = s[i]
  <2>1. \A i \in 1 .. Len(s) - 1 : s[i] \in Names
    BY <1>1
  <2>2. /\ SubSeq(s, 1, Len(s) - 1) \in Seq(Names)
        /\ Len(SubSeq(s, 1, Len(s) - 1)) =
              IF 1 <= Len(s) - 1 THEN Len(s) - 1 - 1 + 1 ELSE 0
        /\ \A i \in 1 .. Len(s) - 1 - 1 + 1 : SubSeq(s, 1, Len(s) - 1)[i] = s[1 + i - 1]
    BY <1>1, <2>1, SubSeqProperties
  <2> QED
    BY <1>1, <2>2
<1>3. DOMAIN u = 1 .. Len(s) - 1
  BY <1>2, LenProperties
<1>4. \A i \in DOMAIN s : s[i] \in Range(u) \cup {s[Len(s)]}
  <2> TAKE i \in DOMAIN s
  <2>1. CASE i \in DOMAIN u
    <3>1. u[i] = s[i]
      BY <1>2, <1>3, <2>1
    <3> QED
      BY <2>1, <3>1 DEF Range
  <2>2. CASE i = Len(s)
    BY <2>2
  <2> QED
    BY <1>1, <1>3, <2>1, <2>2
<1>5. \A i \in DOMAIN u : i \in DOMAIN s /\ u[i] = s[i]
  BY <1>1, <1>2, <1>3
<1>6. Range(u) \subseteq Range(s)
  BY <1>5 DEF Range
<1>7. s[Len(s)] \in Range(s)
  BY <1>1 DEF Range
<1>8. Range(s) \subseteq Range(u) \cup {s[Len(s)]}
  BY <1>4 DEF Range
<1> QED
  BY <1>2, <1>6, <1>7, <1>8

-----------------------------------------------------------------------------
(* How often a name is there *)

\* The places of a name.
At(s, n) == { i \in DOMAIN s : s[i] = n }
After(s, n, k) == { i \in At(s, n) : i > k }

\* A name is in a sequence some number of times, none if it is not in it.
LEMMA Counting ==
    ASSUME NEW s \in Seq(Names), NEW n
    PROVE  /\ IsFiniteSet(At(s, n)) /\ Count(s, n) = Cardinality(At(s, n))
           /\ Count(s, n) \in Nat
           /\ n \notin Range(s) <=> Count(s, n) = 0
<1>1. Len(s) \in Nat /\ DOMAIN s = 1 .. Len(s)
  BY LenProperties
<1>2. IsFiniteSet(1 .. Len(s))
  BY <1>1, FS_Interval
<1>3. At(s, n) \subseteq 1 .. Len(s)
  BY <1>1 DEF At
<1>4. IsFiniteSet(At(s, n))
  BY <1>2, <1>3, FS_Subset
<1>5. Count(s, n) = Cardinality(At(s, n))
  BY DEF Count, At
<1>6. n \notin Range(s) <=> At(s, n) = {}
  BY DEF Range, At
<1> QED
  BY <1>4, <1>5, <1>6, FS_CardinalityType, FS_EmptySet

\* scandir returns a link once.
LEMMA ListedOnce ==
    ASSUME NEW d \in SUBSET Names, NEW s \in Listings(d), NEW n \in Names
    PROVE  Count(s, n) = IF n \in d THEN 1 ELSE 0
<1>1. s \in Seq(Names) /\ Range(s) = d
  BY ListingHolds
<1>2. CASE n \notin d
  BY <1>1, <1>2, Counting
<1>3. CASE n \in d
  <2>1. PICK i \in DOMAIN s : s[i] = n
    BY <1>1, <1>3 DEF Range
  <2>2. ASSUME NEW j \in DOMAIN s, s[j] = n PROVE j = i
    <3>1. DOMAIN s \subseteq Int /\ n \in Int
      BY <1>1, LenProperties DEF Names
    <3>2. ~(i < j) /\ ~(j < i)
      BY <2>1, <2>2, <3>1 DEF Listings
    <3> QED
      BY <3>1, <3>2
  <2>3. At(s, n) = {i}
    BY <2>1, <2>2 DEF At
  <2> QED
    BY <1>1, <1>3, <2>3, Counting, FS_Singleton
<1> QED
  BY <1>2, <1>3

\* One more name at the end.
LEMMA CountAppended ==
    ASSUME NEW s \in Seq(Names), NEW e \in Names, NEW n \in Names
    PROVE  Count(Append(s, e), n) = Count(s, n) + (IF n = e THEN 1 ELSE 0)
<1> DEFINE u == Append(s, e)
<1>1. /\ u \in Seq(Names) /\ Len(u) = Len(s) + 1 /\ u[Len(s) + 1] = e
      /\ \A i \in 1 .. Len(s) : u[i] = s[i]
  BY AppendProperties
<1>2. /\ Len(s) \in Nat /\ DOMAIN s = 1 .. Len(s) /\ DOMAIN u = 1 .. Len(s) + 1
  BY <1>1, LenProperties
<1>3. Len(s) + 1 \notin At(s, n)
  BY <1>2 DEF At
<1>4. CASE n = e
  <2>1. At(u, n) = At(s, n) \cup {Len(s) + 1}
    BY <1>1, <1>2, <1>4 DEF At
  <2>2. Cardinality(At(u, n)) = Cardinality(At(s, n)) + 1
    BY <1>3, <2>1, Counting, FS_AddElement
  <2> QED
    BY <1>1, <1>4, <2>2, Counting
<1>5. CASE n # e
  <2>1. At(u, n) = At(s, n)
    BY <1>1, <1>2, <1>5 DEF At
  <2>2. Count(u, n) = Count(s, n) /\ Count(s, n) \in Nat
    BY <2>1, Counting DEF Count, At
  <2> QED
    BY <1>5, <2>2
<1> QED
  BY <1>4, <1>5

\* The last name goes.
LEMMA CountLast ==
    ASSUME NEW s \in Seq(Names), s # <<>>, NEW n \in Names
    PROVE  Count(s, n) = Count(SubSeq(s, 1, Len(s) - 1), n)
                            + (IF n = s[Len(s)] THEN 1 ELSE 0)
<1> DEFINE u == SubSeq(s, 1, Len(s) - 1)
<1>1. Len(s) \in Nat \ {0} /\ DOMAIN s = 1 .. Len(s)
  BY LenProperties, EmptySeq
<1>2. u \in Seq(Names) /\ s[Len(s)] \in Names
  BY <1>1, LastTaken, LenProperties
<1>3. s = Append(u, s[Len(s)])
  <2>1. \A i \in 1 .. Len(s) : s[i] \in Names
    BY LenProperties
  <2>2. Len(u) = Len(s) - 1 /\ \A i \in 1 .. Len(s) - 1 : u[i] = s[i]
    <3>1. /\ Len(SubSeq(s, 1, Len(s) - 1)) = IF 1 <= Len(s) - 1 THEN Len(s) - 1 - 1 + 1 ELSE 0
          /\ \A i \in 1 .. Len(s) - 1 - 1 + 1 : SubSeq(s, 1, Len(s) - 1)[i] = s[1 + i - 1]
      BY <1>1, <2>1, SubSeqProperties
    <3> QED
      BY <1>1, <3>1
  <2> DEFINE v == Append(u, s[Len(s)])
  <2> HIDE DEF u
  <2>3. /\ v \in Seq(Names) /\ Len(v) = Len(s) /\ v[Len(s)] = s[Len(s)]
        /\ \A i \in 1 .. Len(s) - 1 : v[i] = s[i]
    <3>1. /\ v \in Seq(Names) /\ Len(v) = Len(u) + 1 /\ v[Len(u) + 1] = s[Len(s)]
          /\ \A i \in 1 .. Len(u) : v[i] = u[i]
      BY <1>2, AppendProperties
    <3>2. Len(u) + 1 = Len(s)
      BY <1>1, <2>2
    <3> QED
      BY <2>2, <3>1, <3>2
  <2>4. \A i \in 1 .. Len(s) : v[i] = s[i]
    BY <1>1, <2>3
  <2> HIDE DEF v
  <2> QED
    BY <2>3, <2>4, SeqEqual DEF v
<1>4. Count(Append(u, s[Len(s)]), n) = Count(u, n) + (IF n = s[Len(s)] THEN 1 ELSE 0)
  BY <1>2, CountAppended
<1> QED
  BY <1>3, <1>4

\* Names keep their number when their places are shifted.
LEMMA Shifted ==
    ASSUME NEW s \in Seq(Names), NEW u \in Seq(Names), NEW k \in Nat, NEW n \in Names,
           \A i \in DOMAIN u : i + k \in DOMAIN s /\ s[i + k] = u[i],
           \A i \in DOMAIN s : i > k => i - k \in DOMAIN u
    PROVE  IsFiniteSet(After(s, n, k)) /\ Cardinality(After(s, n, k)) = Count(u, n)
<1> DEFINE T == After(s, n, k)
           f == [i \in At(u, n) |-> i + k]
<1>1. DOMAIN s \subseteq Nat /\ DOMAIN u \subseteq Nat \ {0}
  BY LenProperties
<1>2. f \in [At(u, n) -> T]
  BY <1>1 DEF At, After
<1>3. \A i, j \in At(u, n) : f[i] = f[j] => i = j
  BY <1>1 DEF At
<1>4. ASSUME NEW t \in T PROVE \E i \in At(u, n) : f[i] = t
  <2>1. t - k \in DOMAIN u /\ t \in Nat
    BY <1>1, <1>4 DEF At, After
  <2>2. s[t - k + k] = u[t - k] /\ t - k + k = t
    BY <2>1
  <2>3. t - k \in At(u, n)
    BY <1>4, <2>1, <2>2 DEF At, After
  <2> QED
    BY <2>2, <2>3
<1> HIDE DEF f, T
<1>5. f \in Bijection(At(u, n), T)
  BY <1>2, <1>3, <1>4 DEF Bijection, Injection, IsInjective, Surjection
<1>6. ExistsBijection(At(u, n), T)
  BY <1>5 DEF ExistsBijection
<1> QED
  BY <1>6, Counting, FS_Bijection DEF T

\* One sequence behind the other.
LEMMA CountJoined ==
    ASSUME NEW s \in Seq(Names), NEW t \in Seq(Names), NEW n \in Names
    PROVE  Count(s \o t, n) = Count(s, n) + Count(t, n)
<1> DEFINE u == s \o t
           A == After(u, n, Len(s))
<1>1. /\ u \in Seq(Names) /\ Len(u) = Len(s) + Len(t)
      /\ \A i \in 1 .. Len(s) + Len(t) : u[i] = IF i <= Len(s) THEN s[i] ELSE t[i - Len(s)]
  BY ConcatProperties
<1>2. /\ Len(s) \in Nat /\ DOMAIN s = 1 .. Len(s) /\ Len(t) \in Nat /\ DOMAIN t = 1 .. Len(t)
      /\ DOMAIN u = 1 .. Len(s) + Len(t)
  BY <1>1, LenProperties
<1> HIDE DEF u
<1>3. /\ \A i \in DOMAIN t : i + Len(s) \in DOMAIN u /\ u[i + Len(s)] = t[i]
      /\ \A i \in DOMAIN u : i > Len(s) => i - Len(s) \in DOMAIN t
  BY <1>1, <1>2
<1>4. IsFiniteSet(A) /\ Cardinality(A) = Count(t, n)
  BY <1>1, <1>2, <1>3, Shifted
<1>5. At(u, n) = At(s, n) \cup A /\ At(s, n) \cap A = {}
  BY <1>1, <1>2 DEF At, After
<1>6. Cardinality(At(u, n)) = Cardinality(At(s, n)) + Cardinality(A)
  <2>1. /\ IsFiniteSet(At(s, n))
        /\ Cardinality(At(s, n)) \in Nat /\ Cardinality(A) \in Nat
    BY <1>4, Counting, FS_CardinalityType
  <2>2. Cardinality(At(s, n) \cup A) =
            Cardinality(At(s, n)) + Cardinality(A) - Cardinality(At(s, n) \cap A)
    BY <1>4, <2>1, FS_Union
  <2>3. Cardinality(At(s, n) \cap A) = 0
    BY <1>5, FS_EmptySet
  <2> QED
    BY <1>5, <2>1, <2>2, <2>3
<1>7. Count(u, n) = Count(s, n) + Count(t, n)
  BY <1>1, <1>4, <1>6, Counting
<1> QED
  BY <1>7 DEF u

\* The first name goes.
LEMMA CountFirst ==
    ASSUME NEW s \in Seq(Names), s # <<>>, NEW n \in Names
    PROVE  Count(s, n) = Count(Tail(s), n) + (IF n = Head(s) THEN 1 ELSE 0)
<1> DEFINE u == Tail(s)
           A == After(s, n, 1)
<1>1. /\ u \in Seq(Names)
      /\ \A i \in DOMAIN u : i + 1 \in DOMAIN s /\ u[i] = s[i + 1]
      /\ \A i \in DOMAIN s : i = 1 \/ i - 1 \in DOMAIN u
      /\ 1 \in DOMAIN s /\ s[1] = Head(s)
  BY FirstTaken
<1>2. DOMAIN s \subseteq Nat \ {0}
  BY LenProperties
<1> HIDE DEF u
<1>3. IsFiniteSet(A) /\ Cardinality(A) = Count(u, n)
  <2>1. \A i \in DOMAIN s : i > 1 => i - 1 \in DOMAIN u
    BY <1>1
  <2> QED
    BY <1>1, <2>1, Shifted
<1>4. Count(u, n) \in Nat
  BY <1>1, Counting
<1>5. CASE n = Head(s)
  <2>1. At(s, n) = A \cup {1} /\ 1 \notin A
    BY <1>1, <1>2, <1>5 DEF At, After
  <2>2. Cardinality(At(s, n)) = Count(u, n) + 1
    BY <1>3, <2>1, FS_AddElement
  <2>3. Count(s, n) = Count(u, n) + 1
    BY <2>2 DEF Count, At
  <2> QED
    BY <1>5, <2>3 DEF u
<1>6. CASE n # Head(s)
  <2>1. At(s, n) = A
    BY <1>1, <1>2, <1>6 DEF At, After
  <2>2. Count(s, n) = Count(u, n)
    BY <1>3, <2>1 DEF Count, At
  <2> QED
    BY <1>4, <1>6, <2>2 DEF u
<1> QED
  BY <1>5, <1>6

-----------------------------------------------------------------------------
(* The inductive invariant *)

LEMMA Start == Init => LinkInv
<1> SUFFICES ASSUME Init PROVE LinkInv
  OBVIOUS
<1>1. StateType
  BY LinkWatchAssumption DEF Init, StateType, TypeOK, Phases, Names
<1>2. Created
  BY LinkWatchAssumption DEF Init, Created, Range
<1> QED
  BY <1>1, <1>2 DEF Init, LinkInv, NoLinkMissed, Ordered, InCreationOrder

\* The producer makes a link while the reader is anywhere.
LEMMA MakeLinkKeeps == LinkInv /\ MakeLink => LinkInv'
<1> SUFFICES ASSUME LinkInv, MakeLink PROVE LinkInv'
  OBVIOUS
<1> USE DEF LinkInv
<1>1. /\ made \in Nat /\ limit \in Nat /\ MaxName \in Nat /\ made + 1 \in Names
      /\ kernel \in Seq(Names) /\ list \in Seq(Names) /\ Len(kernel) \in Nat
  BY LinkWatchAssumption DEF StateType, TypeOK, MakeLink, Names
<1>2. /\ made' = made + 1 /\ dir' = dir \cup {made + 1}
      /\ UNCHANGED <<phase, list, popped, deaths, user, limit>>
  BY DEF MakeLink, fixed
<1>3. CASE Watched /\ Len(kernel) < limit
  <2>1. kernel' = Append(kernel, made + 1)
    BY <1>3 DEF MakeLink
  <2>2. /\ kernel' \in Seq(Names) /\ Len(kernel') = Len(kernel) + 1
        /\ Range(kernel') = Range(kernel) \cup {made + 1}
        /\ \A i \in DOMAIN kernel : i \in DOMAIN kernel' /\ kernel'[i] = kernel[i]
        /\ \A i \in DOMAIN kernel' : i \in DOMAIN kernel \/ kernel'[i] = made + 1
    BY <1>1, <2>1, Queued
  <2>3. StateType'
    <3>1. made' \in 0 .. MaxName /\ dir' \subseteq 1 .. made'
      BY <1>1, <1>2 DEF StateType, TypeOK, Names
    <3>2. Len(kernel') <= limit'
      BY <1>1, <1>2, <1>3, <2>2
    <3>3. phase' # "down"
      BY <1>2, <1>3 DEF Watched
    <3> QED
      BY <1>2, <2>2, <3>1, <3>2, <3>3 DEF StateType, TypeOK
  <2>4. Created'
    BY <1>1, <1>2, <2>2 DEF Created
  <2>5. NoLinkMissed'
    BY <1>2, <2>2 DEF NoLinkMissed, Lossless
  <2>6. Ordered'
    <3> SUFFICES ASSUME Lossless, user = "chain", phase = "up" PROVE Ordered'
      BY <1>2 DEF Ordered, Lossless
    <3>1. /\ list \in [DOMAIN list -> 1 .. made]
          /\ \A i \in DOMAIN kernel : kernel[i] \in 1 .. made
      BY <1>1 DEF Created, Range
    <3>2. ASSUME NEW i \in DOMAIN list, NEW m \in dir', m < list[i]
          PROVE  m \in popped \/ \E j \in DOMAIN list : j < i /\ list[j] = m
      BY <1>1, <1>2, <3>1, <3>2 DEF Ordered
    <3>3. ASSUME NEW i \in DOMAIN kernel', NEW m \in dir', m < kernel'[i]
          PROVE  \/ m \in popped \cup Range(list)
                 \/ \E j \in DOMAIN kernel' : j < i /\ kernel'[j] = m
      <4>1. CASE i \in DOMAIN kernel
        BY <1>1, <1>2, <2>2, <3>1, <3>3, <4>1 DEF Ordered
      <4>2. CASE i \notin DOMAIN kernel
        <5>1. m \in dir
          BY <1>1, <1>2, <2>2, <3>3, <4>2
        <5>2. CASE m \in Range(kernel)
          <6>1. PICK j \in DOMAIN kernel : kernel[j] = m
            BY <5>2 DEF Range
          <6>2. j < i
            BY <1>1, <2>2, <4>2, LenProperties
          <6> QED
            BY <2>2, <6>1, <6>2
        <5> QED
          BY <5>1, <5>2 DEF NoLinkMissed
      <4> QED
        BY <4>1, <4>2
    <3> QED
      BY <1>2, <3>2, <3>3 DEF Ordered
  <2>7. InCreationOrder'
    BY <1>1, <1>2 DEF InCreationOrder, Lossless, Created
  <2> QED
    BY <2>3, <2>4, <2>5, <2>6, <2>7
<1>4. CASE ~(Watched /\ Len(kernel) < limit)
  <2>1. kernel' = kernel
    BY <1>4 DEF MakeLink
  <2>2. ~(Lossless /\ phase = "up")
    BY <1>1, <1>4 DEF Watched, Lossless, Created, MakeLink
  <2>3. StateType'
    BY <1>1, <1>2, <2>1 DEF StateType, TypeOK, Phases, Names
  <2>4. Created'
    BY <1>1, <1>2, <2>1 DEF Created
  <2>5. NoLinkMissed' /\ Ordered'
    BY <1>2, <2>2 DEF NoLinkMissed, Ordered, Lossless
  <2>6. InCreationOrder'
    BY <1>1, <1>2 DEF InCreationOrder, Lossless, Created
  <2> QED
    BY <2>3, <2>4, <2>5, <2>6
<1> QED
  BY <1>3, <1>4

\* Links go at any time.
LEMMA UnlinkKeeps == ASSUME LinkInv, NEW n \in Names, Unlink(n) PROVE LinkInv'
<1> USE DEF LinkInv
<1>1. dir' \subseteq dir /\ UNCHANGED <<made, phase, kernel, list, popped, deaths, user, limit>>
  BY DEF Unlink, fixed
<1>2. StateType' /\ Created'
  BY <1>1 DEF StateType, TypeOK, Created
<1>3. NoLinkMissed' /\ Ordered' /\ InCreationOrder'
  BY <1>1 DEF NoLinkMissed, Ordered, InCreationOrder, Lossless
<1> QED
  BY <1>2, <1>3

\* The first scan: everything on disk is in the list, once, and what
\* inotify has told in the meantime is not lost.
LEMMA PrepLinkListKeeps == LinkInv /\ PrepLinkList => LinkInv'
<1> SUFFICES ASSUME LinkInv, PrepLinkList PROVE LinkInv'
  OBVIOUS
<1> USE DEF LinkInv
<1>1. PICK s \in Listings(dir) : list' = list \o s
  BY DEF PrepLinkList
<1>2. /\ phase' = "up" /\ list = <<>> /\ popped = {}
      /\ UNCHANGED <<made, dir, kernel, popped, deaths, user, limit>>
  BY DEF PrepLinkList, fixed, StateType
<1>3. dir \subseteq Names /\ dir \subseteq 1 .. made
  BY LinkWatchAssumption DEF StateType, TypeOK, Names
<1>4. s \in Seq(Names) /\ Range(s) = dir
  BY <1>3, ListingHolds
<1>5. list' = s
  BY <1>1, <1>2, <1>4, ConcatEmptySeq
<1>6. StateType'
  BY <1>2, <1>4, <1>5 DEF StateType, TypeOK, Phases
<1>7. Created'
  BY <1>2, <1>3, <1>4, <1>5 DEF Created
<1>8. NoLinkMissed' /\ InCreationOrder'
  BY <1>2, <1>4, <1>5 DEF NoLinkMissed, InCreationOrder
<1>9. Ordered'
  <2>1. ASSUME NEW i \in DOMAIN s, NEW m \in dir, m < s[i]
        PROVE  \E j \in DOMAIN s : j < i /\ s[j] = m
    <3>1. PICK j \in DOMAIN s : s[j] = m
      BY <1>4 DEF Range
    <3>2. /\ DOMAIN s = 1 .. Cardinality(dir)
          /\ \A k, l \in DOMAIN s : k < l => s[k] < s[l]
      BY DEF Listings
    <3>3. s[i] \in Nat /\ m \in Nat /\ i \in Int /\ j \in Int
      <4>1. s[i] \in dir
        BY <1>4 DEF Range
      <4>2. dir \subseteq Nat
        BY <1>3
      <4>3. DOMAIN s \subseteq Int
        BY <3>2
      <4> QED
        BY <4>1, <4>2, <4>3
    <3>4. j < i
      BY <2>1, <3>1, <3>2, <3>3
    <3> QED
      BY <3>1, <3>4
  <2> QED
    BY <1>2, <1>4, <1>5, <2>1 DEF Ordered
<1> QED
  BY <1>6, <1>7, <1>8, <1>9

\* What inotify has queued goes behind the list.
LEMMA CheckLinkDirsKeeps == LinkInv /\ CheckLinkDirs => LinkInv'
<1> SUFFICES ASSUME LinkInv, CheckLinkDirs PROVE LinkInv'
  OBVIOUS
<1> USE DEF LinkInv
<1>1. /\ list' = list \o kernel /\ kernel' = <<>> /\ phase = "up"
      /\ UNCHANGED <<made, dir, phase, popped, deaths, user, limit>>
  BY DEF CheckLinkDirs, fixed
<1>2. list \in Seq(Names) /\ kernel \in Seq(Names) /\ Len(list) \in Nat
  BY DEF StateType, TypeOK
<1>3. /\ list' \in Seq(Names) /\ Range(list') = Range(list) \cup Range(kernel)
      /\ \A i \in DOMAIN list : i \in DOMAIN list' /\ list'[i] = list[i]
      /\ \A i \in DOMAIN kernel : i + Len(list) \in DOMAIN list' /\ list'[i + Len(list)] = kernel[i]
      /\ \A i \in DOMAIN list' : i \in DOMAIN list \/ i - Len(list) \in DOMAIN kernel
      /\ DOMAIN list = 1 .. Len(list) /\ DOMAIN kernel = 1 .. Len(kernel)
  BY <1>1, <1>2, Joined
<1>4. Range(kernel') = {} /\ Len(kernel') = 0
  BY <1>1 DEF Range
<1>5. StateType'
  BY <1>1, <1>3, LinkWatchAssumption DEF StateType, TypeOK
<1>6. Created' /\ NoLinkMissed' /\ InCreationOrder'
  BY <1>1, <1>3, <1>4
     DEF StateType, TypeOK, Created, NoLinkMissed, InCreationOrder, Lossless
<1>7. Ordered'
  <2> SUFFICES ASSUME Lossless, user = "chain" PROVE Ordered'
    BY <1>1 DEF Ordered, Lossless
  <2>1. ASSUME NEW i \in DOMAIN list', NEW m \in dir, m < list'[i]
        PROVE  m \in popped \/ \E j \in DOMAIN list' : j < i /\ list'[j] = m
    <3>1. CASE i \in DOMAIN list
      BY <1>1, <1>3, <2>1, <3>1 DEF Ordered
    <3>2. CASE i \notin DOMAIN list
      <4> DEFINE k == i - Len(list)
      <4>1. k \in DOMAIN kernel /\ i = k + Len(list) /\ list'[i] = kernel[k]
        <5>1. k \in DOMAIN kernel
          BY <1>3, <3>2
        <5>2. i \in Int
          BY <1>3, LenProperties
        <5> QED
          BY <1>2, <1>3, <5>1, <5>2
      <4>2. CASE m \in popped
        BY <4>2
      <4>3. CASE m \in Range(list)
        <5>1. PICK j \in DOMAIN list : list[j] = m
          BY <4>3 DEF Range
        <5>2. j < i
          BY <1>2, <1>3, <4>1
        <5> QED
          BY <1>3, <5>1, <5>2
      <4>4. CASE \E j \in DOMAIN kernel : j < k /\ kernel[j] = m
        <5>1. PICK j \in DOMAIN kernel : j < k /\ kernel[j] = m
          BY <4>4
        <5>2. /\ j + Len(list) \in DOMAIN list' /\ list'[j + Len(list)] = m
              /\ j + Len(list) < i
          BY <1>2, <1>3, <4>1, <5>1
        <5> QED
          BY <5>2
      <4> QED
        BY <1>1, <2>1, <4>1, <4>2, <4>3, <4>4 DEF Ordered
    <3> QED
      BY <3>1, <3>2
  <2> QED
    BY <1>1, <2>1 DEF Ordered
<1> QED
  BY <1>5, <1>6, <1>7

\* A daemon of the chain takes the first name: whatever is older and still
\* there is out.
LEMMA GetFirstKeeps ==
    ASSUME LinkInv, GetFirstLink, phase = "up",
           UNCHANGED <<made, dir, phase, kernel, fixed>>
    PROVE  LinkInv'
<1> USE DEF LinkInv
<1>1. /\ list # <<>> /\ popped' = popped \cup {Head(list)} /\ list' = Tail(list)
      /\ UNCHANGED <<made, dir, phase, kernel, deaths, user, limit>>
  BY DEF GetFirstLink, fixed
<1>2. /\ list' \in Seq(Names) /\ Head(list) \in Range(list)
      /\ Range(list) = Range(list') \cup {Head(list)}
      /\ \A i \in DOMAIN list' : i + 1 \in DOMAIN list /\ list'[i] = list[i + 1]
      /\ \A i \in DOMAIN list : i = 1 \/ i - 1 \in DOMAIN list'
      /\ 1 \in DOMAIN list /\ list[1] = Head(list)
      /\ DOMAIN list \subseteq Nat /\ DOMAIN list' \subseteq Nat
  <2>1. list \in Seq(Names)
    BY DEF StateType, TypeOK
  <2> QED
    BY <1>1, <2>1, FirstTaken
<1>3. StateType'
  <2>1. Head(list) \in Names
    BY <1>1, HeadTailProperties DEF StateType, TypeOK
  <2> QED
    BY <1>1, <1>2, <2>1 DEF StateType, TypeOK
<1>4. Created' /\ NoLinkMissed'
  BY <1>1, <1>2 DEF Created, NoLinkMissed, Lossless
<1>5. Ordered'
  <2> SUFFICES ASSUME Lossless, user = "chain" PROVE Ordered'
    BY <1>1 DEF Ordered, Lossless
  <2>1. ASSUME NEW i \in DOMAIN list', NEW m \in dir, m < list'[i]
        PROVE  m \in popped' \/ \E j \in DOMAIN list' : j < i /\ list'[j] = m
    <3>1. i + 1 \in DOMAIN list /\ m < list[i + 1]
      BY <1>2, <2>1
    <3>2. CASE m \in popped
      BY <1>1, <3>2
    <3>3. CASE \E j \in DOMAIN list : j < i + 1 /\ list[j] = m
      <4>1. PICK j \in DOMAIN list : j < i + 1 /\ list[j] = m
        BY <3>3
      <4>2. CASE j = 1
        BY <1>1, <1>2, <4>1, <4>2
      <4>3. CASE j - 1 \in DOMAIN list'
        <5>1. j \in Nat /\ i \in Nat
          BY <1>2
        <5>2. list'[j - 1] = m /\ j - 1 < i
          BY <1>2, <4>1, <4>3, <5>1
        <5> QED
          BY <4>3, <5>2
      <4> QED
        BY <1>2, <4>2, <4>3
    <3> QED
      BY <3>1, <3>2, <3>3 DEF Ordered
  <2>2. ASSUME NEW i \in DOMAIN kernel, NEW m \in dir, m < kernel[i]
        PROVE  \/ m \in popped' \cup Range(list')
               \/ \E j \in DOMAIN kernel : j < i /\ kernel[j] = m
    BY <1>1, <1>2, <2>2 DEF Ordered
  <2> QED
    BY <1>1, <2>1, <2>2 DEF Ordered
<1>6. InCreationOrder'
  <2> SUFFICES ASSUME Lossless, user = "chain", NEW m \in dir, m < Head(list)
               PROVE  m \in popped
    BY <1>1 DEF InCreationOrder, Lossless
  <2>1. \A j \in DOMAIN list : ~(j < 1)
    <3>1. DOMAIN list = 1 .. Len(list)
      BY LenProperties DEF StateType, TypeOK
    <3> QED
      BY <3>1
  <2> QED
    BY <1>2, <2>1 DEF Ordered
<1> QED
  BY <1>3, <1>4, <1>5, <1>6

\* A downlink takes the last.
LEMMA GetLastKeeps ==
    ASSUME LinkInv, GetLastLink, phase = "up", user = "downlink",
           UNCHANGED <<made, dir, phase, kernel, fixed>>
    PROVE  LinkInv'
<1> USE DEF LinkInv
<1>1. /\ list # <<>> /\ popped' = popped \cup {list[Len(list)]}
      /\ list' = SubSeq(list, 1, Len(list) - 1)
      /\ UNCHANGED <<made, dir, phase, kernel, deaths, user, limit>>
  BY DEF GetLastLink, fixed
<1>2. /\ list' \in Seq(Names) /\ list[Len(list)] \in Range(list)
      /\ Range(list) = Range(list') \cup {list[Len(list)]}
  <2>1. list \in Seq(Names)
    BY DEF StateType, TypeOK
  <2> QED
    BY <1>1, <2>1, LastTaken
<1>3. list[Len(list)] \in Names
  BY <1>1, LenProperties, EmptySeq DEF StateType, TypeOK
<1>4. StateType'
  BY <1>1, <1>2, <1>3 DEF StateType, TypeOK
<1>5. Created' /\ NoLinkMissed'
  BY <1>1, <1>2 DEF Created, NoLinkMissed, Lossless
<1>6. Ordered' /\ InCreationOrder'
  BY <1>1 DEF Ordered, InCreationOrder
<1> QED
  BY <1>4, <1>5, <1>6

\* A rescan takes whatever is on disk.
LEMMA RefreshKeeps == LinkInv /\ RefreshLinkDirs => LinkInv'
<1> SUFFICES ASSUME LinkInv, RefreshLinkDirs PROVE LinkInv'
  OBVIOUS
<1> USE DEF LinkInv
<1>1. PICK s \in Listings(dir) : list' = s
  BY DEF RefreshLinkDirs
<1>2. /\ phase = "up" /\ user = "downlink"
      /\ UNCHANGED <<made, dir, phase, kernel, popped, deaths, user, limit>>
  BY DEF RefreshLinkDirs, fixed
<1>3. dir \subseteq Names /\ dir \subseteq 1 .. made
  BY LinkWatchAssumption DEF StateType, TypeOK, Names
<1>4. list' \in Seq(Names) /\ Range(list') = dir
  BY <1>1, <1>3, ListingHolds
<1>5. StateType' /\ Created'
  BY <1>2, <1>3, <1>4 DEF StateType, TypeOK, Created
<1>6. NoLinkMissed' /\ Ordered' /\ InCreationOrder'
  BY <1>2, <1>4 DEF NoLinkMissed, Ordered, InCreationOrder
<1> QED
  BY <1>5, <1>6

\* Every step keeps the invariant.
LEMMA Inductive == LinkInv /\ [Next]_vars => LinkInv'
<1> SUFFICES ASSUME LinkInv, [Next]_vars PROVE LinkInv'
  OBVIOUS
<1>1. CASE MakeLink
  BY <1>1, MakeLinkKeeps
<1>2. ASSUME NEW n \in Names, Unlink(n) PROVE LinkInv'
  BY <1>2, UnlinkKeeps
<1>3. CASE AddWatch
  <2>1. /\ phase = "down" /\ phase' = "watching"
        /\ UNCHANGED <<made, dir, kernel, list, popped, deaths, user, limit>>
    BY <1>3 DEF AddWatch, fixed
  <2>2. StateType' /\ Created'
    BY <2>1 DEF LinkInv, StateType, TypeOK, Phases, Created
  <2>3. NoLinkMissed' /\ Ordered' /\ InCreationOrder'
    BY <2>1 DEF LinkInv, NoLinkMissed, Ordered, InCreationOrder, Lossless
  <2> QED
    BY <2>2, <2>3 DEF LinkInv
<1>4. CASE PrepLinkList
  BY <1>4, PrepLinkListKeeps
<1>5. CASE CheckLinkDirs
  BY <1>5, CheckLinkDirsKeeps
<1>6. CASE GetLink
  BY <1>6, GetFirstKeeps, GetLastKeeps DEF GetLink
<1>7. CASE RefreshLinkDirs
  BY <1>7, RefreshKeeps
<1>8. CASE Die
  <2>1. /\ phase' = "down" /\ kernel' = <<>> /\ list' = <<>> /\ popped' = {}
        /\ UNCHANGED <<made, dir, user, limit>>
    BY <1>8 DEF Die
  <2>2. StateType'
    BY <2>1, LinkWatchAssumption DEF LinkInv, StateType, TypeOK, Phases
  <2>3. Created'
    BY <2>1 DEF LinkInv, StateType, TypeOK, Created, Range
  <2>4. NoLinkMissed' /\ Ordered' /\ InCreationOrder'
    BY <2>1 DEF NoLinkMissed, Ordered, InCreationOrder
  <2> QED
    BY <2>2, <2>3, <2>4 DEF LinkInv
<1>9. CASE UNCHANGED vars
  BY <1>9 DEF LinkInv, StateType, TypeOK, Created, NoLinkMissed, Ordered, InCreationOrder,
              Lossless, vars, fixed
<1> QED
  BY <1>1, <1>2, <1>3, <1>4, <1>5, <1>6, <1>7, <1>8, <1>9 DEF Next, SetupLinkWatchDir

LEMMA Invariance == Spec => []LinkInv
  BY Start, Inductive, PTL DEF Spec

-----------------------------------------------------------------------------
(* The refinement *)

\* inotify reports a creation once, and the list can have it once more.
Counted ==
    \A n \in Names : Count(kernel, n) <= 1 /\ Count(list, n) + Count(kernel, n) <= 2

FeedStep == Counted' /\ [Feed!FeedNext]_(Feed!feedVars)

LEMMA CountEmpty == \A n \in Names : Count(<<>>, n) = 0
<1>1. <<>> \in Seq(Names) /\ Range(<<>>) = {}
  BY DEF Range
<1> QED
  BY <1>1, Counting

\* What there is to count, and where there is nothing to count.
LEMMA CountType ==
    LinkInv => /\ list \in Seq(Names) /\ kernel \in Seq(Names)
               /\ \A n \in Names : Count(list, n) \in Nat /\ Count(kernel, n) \in Nat
               /\ \A n \in Names : n > made => Count(list, n) = 0 /\ Count(kernel, n) = 0
<1> SUFFICES ASSUME LinkInv
             PROVE  /\ list \in Seq(Names) /\ kernel \in Seq(Names)
                    /\ \A n \in Names : Count(list, n) \in Nat /\ Count(kernel, n) \in Nat
                    /\ \A n \in Names :
                          n > made => Count(list, n) = 0 /\ Count(kernel, n) = 0
  OBVIOUS
<1>1. list \in Seq(Names) /\ kernel \in Seq(Names)
  BY DEF LinkInv, StateType, TypeOK
<1>2. \A n \in Names : n > made => n \notin Range(list) /\ n \notin Range(kernel)
  <2>1. Range(list) \subseteq 1 .. made /\ Range(kernel) \subseteq 1 .. made /\ made \in Nat
    BY DEF LinkInv, StateType, TypeOK, Created
  <2> QED
    BY <2>1 DEF Names
<1> QED
  BY <1>1, <1>2, Counting

\* A creation is reported, or is missed because the reader is not there yet or
\* inotify's queue is full.
LEMMA MakeLinkOffers == LinkInv /\ Counted /\ MakeLink => FeedStep
<1> SUFFICES ASSUME LinkInv, Counted, MakeLink PROVE FeedStep
  OBVIOUS
<1> DEFINE m == made + 1
<1>1. /\ made \in Nat /\ limit \in Nat /\ MaxName \in Nat /\ m \in Names /\ m \notin dir /\ m > made
      /\ kernel \in Seq(Names) /\ Len(kernel) \in Nat /\ Len(kernel) <= made
  <2>1. /\ made \in 0 .. MaxName /\ dir \subseteq 1 .. made /\ limit \in Nat /\ MaxName \in Nat
        /\ made < MaxName /\ kernel \in Seq(Names) /\ Len(kernel) <= made
    BY LinkWatchAssumption DEF LinkInv, StateType, TypeOK, Created, MakeLink
  <2> QED
    BY <2>1, LenProperties DEF Names
<1>2. /\ dir' = dir \cup {m} /\ phase' = phase /\ list' = list /\ limit' = limit
      /\ Lossless' = Lossless
  BY DEF MakeLink, fixed, Lossless
<1>3. /\ \A n \in Names : Count(list, n) \in Nat /\ Count(kernel, n) \in Nat
      /\ Count(list, m) = 0 /\ Count(kernel, m) = 0
  BY <1>1, CountType
<1> HIDE DEF m
<1>4. CASE Watched /\ Len(kernel) < limit
  <2>1. \A n \in Names : Count(kernel', n) = Count(kernel, n) + (IF n = m THEN 1 ELSE 0)
    BY <1>1, <1>4, CountAppended DEF MakeLink, m
  <2>2. Counted'
    BY <1>2, <1>3, <2>1 DEF Counted
  <2> DEFINE offers == [n \in Names |-> Count(list, n) + Count(kernel, n)]
  <2>3. offers' = [offers EXCEPT ![m] = 1]
    <3>1. \A n \in Names : Count(list', n) + Count(kernel', n) =
             IF n = m THEN 1 ELSE Count(list, n) + Count(kernel, n)
      BY <1>2, <1>3, <2>1
    <3> QED
      BY <3>1
  <2>4. offers[m] = 0
    BY <1>1, <1>3
  <2>5. Feed!Create(m)
    BY <1>1, <1>2, <2>3, <2>4 DEF Feed!Create
  <2> QED
    BY <1>1, <2>2, <2>5 DEF FeedStep, Feed!FeedNext
<1>5. CASE ~(Watched /\ Len(kernel) < limit)
  <2>1. kernel' = kernel
    BY <1>5 DEF MakeLink
  <2>2. ~(phase = "up") \/ ~Lossless
    BY <1>1, <1>5 DEF Watched, Lossless, MakeLink
  <2>3. Counted'
    BY <1>2, <2>1 DEF Counted
  <2>4. Feed!Create(m)
    BY <1>1, <1>2, <1>3, <2>1, <2>2 DEF Feed!Create
  <2> QED
    BY <1>1, <2>3, <2>4 DEF FeedStep, Feed!FeedNext
<1> QED
  BY <1>4, <1>5

\* A scan puts into the list what is on disk; what inotify has queued stays.
LEMMA ScanOffers ==
    ASSUME LinkInv, Counted, NEW s \in Listings(dir), list' = s, kernel' = kernel,
           dir' = dir, phase' = "up", Lossless' = Lossless, dir \subseteq Names
    PROVE  FeedStep
<1>1. \A n \in Names : Count(list', n) = IF n \in dir THEN 1 ELSE 0
  BY ListedOnce
<1>2. \A n \in Names : Count(list, n) \in Nat /\ Count(kernel, n) \in Nat
  BY CountType
<1>3. Counted'
  BY <1>1, <1>2 DEF Counted
<1> DEFINE k == [n \in Names |-> Count(kernel, n)]
<1>4. k \in [Names -> 0 .. 1]
  BY <1>2 DEF Counted
<1>5. \A n \in Names : k[n] <= [l \in Names |-> Count(list, l) + Count(kernel, l)][n]
  BY <1>2
<1>6. [n \in Names |-> Count(list', n) + Count(kernel', n)] = Feed!Rescanned(dir, k)
  BY <1>1 DEF Feed!Rescanned
<1> HIDE DEF k
<1>7. Feed!Scan
  BY <1>4, <1>5, <1>6 DEF Feed!Scan
<1> QED
  BY <1>3, <1>7 DEF FeedStep, Feed!FeedNext

\* The first scan adds to what inotify has queued.
LEMMA PrepLinkListOffers == LinkInv /\ Counted /\ PrepLinkList => FeedStep
<1> SUFFICES ASSUME LinkInv, Counted, PrepLinkList PROVE FeedStep
  OBVIOUS
<1>1. PICK s \in Listings(dir) : list' = list \o s
  BY DEF PrepLinkList
<1>2. /\ phase' = "up" /\ list = <<>> /\ dir' = dir /\ kernel' = kernel /\ Lossless' = Lossless
  BY DEF PrepLinkList, fixed, LinkInv, StateType, Lossless
<1>3. dir \subseteq Names
  BY LinkWatchAssumption DEF LinkInv, StateType, TypeOK, Names
<1>4. list' = s
  BY <1>1, <1>2, <1>3, ListingHolds, ConcatEmptySeq
<1> QED
  BY <1>2, <1>3, <1>4, ScanOffers

\* A later scan replaces the list.
LEMMA RefreshOffers == LinkInv /\ Counted /\ RefreshLinkDirs => FeedStep
<1> SUFFICES ASSUME LinkInv, Counted, RefreshLinkDirs PROVE FeedStep
  OBVIOUS
<1>1. PICK s \in Listings(dir) : list' = s
  BY DEF RefreshLinkDirs
<1>2. /\ phase' = "up" /\ dir' = dir /\ kernel' = kernel /\ Lossless' = Lossless
  BY DEF RefreshLinkDirs, fixed, Lossless
<1>3. dir \subseteq Names
  BY LinkWatchAssumption DEF LinkInv, StateType, TypeOK, Names
<1> QED
  BY <1>1, <1>2, <1>3, ScanOffers

\* What moves from inotify's queue to the list is offered as before.
LEMMA CheckLinkDirsOffers == LinkInv /\ Counted /\ CheckLinkDirs => FeedStep
<1> SUFFICES ASSUME LinkInv, Counted, CheckLinkDirs PROVE FeedStep
  OBVIOUS
<1>1. /\ list' = list \o kernel /\ kernel' = <<>>
      /\ dir' = dir /\ phase' = phase /\ Lossless' = Lossless
  BY DEF CheckLinkDirs, fixed, Lossless
<1>2. \A n \in Names :
         /\ Count(list, n) \in Nat /\ Count(kernel, n) \in Nat
         /\ Count(list', n) = Count(list, n) + Count(kernel, n) /\ Count(kernel', n) = 0
  BY <1>1, CountType, CountJoined, CountEmpty
<1>3. Counted'
  BY <1>2 DEF Counted
<1>4. UNCHANGED Feed!feedVars
  BY <1>1, <1>2 DEF Feed!feedVars
<1> QED
  BY <1>3, <1>4 DEF FeedStep

\* The reader takes a link from either end.
LEMMA GetLinkOffers == LinkInv /\ Counted /\ GetLink => FeedStep
<1> SUFFICES ASSUME LinkInv, Counted, GetLink PROVE FeedStep
  OBVIOUS
<1> DEFINE offers == [n \in Names |-> Count(list, n) + Count(kernel, n)]
<1>1. /\ list # <<>> /\ phase = "up"
      /\ UNCHANGED <<dir, phase, kernel, Lossless>>
  BY DEF GetLink, GetFirstLink, GetLastLink, fixed, Lossless
<1>2. \A n \in Names :
         Count(list, n) \in Nat /\ Count(kernel, n) \in Nat /\ Count(list', n) \in Nat
  <2>1. list \in Seq(Names) /\ list' \in Seq(Names)
    BY <1>1, CountType, FirstTaken, LastTaken DEF GetLink, GetFirstLink, GetLastLink
  <2> QED
    BY <2>1, CountType, Counting
<1>3. \E m \in Names : \A n \in Names :
         Count(list, n) = Count(list', n) + (IF n = m THEN 1 ELSE 0)
  <2>1. list \in Seq(Names)
    BY CountType
  <2>2. CASE GetFirstLink
    <3>1. Head(list) \in Names
      BY <1>1, <2>1, HeadTailProperties
    <3>2. \A n \in Names : Count(list, n) = Count(list', n) + (IF n = Head(list) THEN 1 ELSE 0)
      BY <1>1, <2>1, <2>2, CountFirst DEF GetFirstLink
    <3> QED
      BY <3>1, <3>2
  <2>3. CASE GetLastLink
    <3>1. list[Len(list)] \in Names
      BY <1>1, <2>1, LenProperties, EmptySeq
    <3>2. \A n \in Names :
             Count(list, n) = Count(list', n) + (IF n = list[Len(list)] THEN 1 ELSE 0)
      BY <1>1, <2>1, <2>3, CountLast DEF GetLastLink
    <3> QED
      BY <3>1, <3>2
  <2> QED
    BY <2>2, <2>3 DEF GetLink
<1>4. PICK m \in Names : \A n \in Names :
         Count(list, n) = Count(list', n) + (IF n = m THEN 1 ELSE 0)
  BY <1>3
<1>5. Counted'
  BY <1>1, <1>2, <1>4 DEF Counted
<1>6. offers[m] > 0 /\ offers' = [offers EXCEPT ![m] = @ - 1]
  <2>1. Count(list, m) + Count(kernel, m) > 0
    BY <1>2, <1>4
  <2>2. \A n \in Names : Count(list', n) + Count(kernel', n) =
           IF n = m THEN Count(list, n) + Count(kernel, n) - 1
                    ELSE Count(list, n) + Count(kernel, n)
    BY <1>1, <1>2, <1>4
  <2>3. \A n \in Names : offers'[n] = IF n = m THEN offers[m] - 1 ELSE offers[n]
    BY <1>1, <1>2, <2>2
  <2>4. DOMAIN offers = Names /\ offers' = [n \in Names |-> offers'[n]]
    OBVIOUS
  <2>5. offers[m] = Count(list, m) + Count(kernel, m)
    OBVIOUS
  <2> HIDE DEF offers
  <2> QED
    BY <2>1, <2>3, <2>4, <2>5
<1>7. Feed!Take(m)
  BY <1>1, <1>6 DEF Feed!Take
<1> QED
  BY <1>5, <1>7 DEF FeedStep, Feed!FeedNext

\* The reader dies: nothing is offered any more.
LEMMA DieOffers == LinkInv /\ Counted /\ Die => FeedStep
<1> SUFFICES ASSUME LinkInv, Counted, Die PROVE FeedStep
  OBVIOUS
<1>1. /\ list' = <<>> /\ kernel' = <<>> /\ phase' = "down"
      /\ dir' = dir /\ Lossless' = Lossless
  BY DEF Die, Lossless
<1>2. \A n \in Names : Count(list', n) = 0 /\ Count(kernel', n) = 0
  BY <1>1, CountEmpty
<1>3. Counted'
  BY <1>2 DEF Counted
<1>4. [n \in Names |-> Count(list', n) + Count(kernel', n)] = [n \in Names |-> 0]
  BY <1>2
<1>5. Feed!Close
  BY <1>1, <1>4 DEF Feed!Close
<1> QED
  BY <1>3, <1>5 DEF FeedStep, Feed!FeedNext

LEMMA StepOffers == LinkInv /\ Counted /\ [Next]_vars => FeedStep
<1> SUFFICES ASSUME LinkInv, Counted, [Next]_vars PROVE FeedStep
  OBVIOUS
<1>1. ASSUME NEW n \in Names, Unlink(n) PROVE FeedStep
  <2>1. dir' = dir \ {n} /\ UNCHANGED <<phase, kernel, list, Lossless>>
    BY <1>1 DEF Unlink, fixed, Lossless
  <2>2. Counted' /\ Feed!Remove(n)
    BY <2>1 DEF Counted, Feed!Remove
  <2> QED
    BY <2>2 DEF FeedStep, Feed!FeedNext
<1>2. CASE AddWatch
  <2>1. /\ phase = "down" /\ phase' = "watching"
        /\ UNCHANGED <<dir, kernel, list, Lossless>>
    BY <1>2 DEF AddWatch, fixed, Lossless
  <2>2. Counted' /\ UNCHANGED Feed!feedVars
    BY <2>1 DEF Counted, Feed!feedVars
  <2> QED
    BY <2>2 DEF FeedStep
<1>3. CASE UNCHANGED vars
  <2>1. UNCHANGED <<dir, phase, kernel, list, Lossless>>
    BY <1>3 DEF vars, fixed, Lossless
  <2>2. Counted' /\ UNCHANGED Feed!feedVars
    BY <2>1 DEF Counted, Feed!feedVars
  <2> QED
    BY <2>2 DEF FeedStep
<1> QED
  BY <1>1, <1>2, <1>3, MakeLinkOffers, PrepLinkListOffers, CheckLinkDirsOffers,
     GetLinkOffers, RefreshOffers, DieOffers DEF Next, SetupLinkWatchDir

LEMMA StartOffers == Init => Counted /\ Feed!FeedInit
<1> SUFFICES ASSUME Init PROVE Counted /\ Feed!FeedInit
  OBVIOUS
<1>1. dir = {} /\ phase = "down" /\ list = <<>> /\ kernel = <<>>
  BY DEF Init
<1>2. \A n \in Names : Count(list, n) = 0 /\ Count(kernel, n) = 0
  BY <1>1, CountEmpty
<1>3. [n \in Names |-> Count(list, n) + Count(kernel, n)] = [n \in Names |-> 0]
  BY <1>2
<1>4. Lossless \in BOOLEAN
  BY DEF Lossless
<1> QED
  BY <1>1, <1>2, <1>3, <1>4 DEF Counted, Feed!FeedInit

LEMMA CountInvariance == Spec => []Counted
<1>1. Init => Counted
  BY StartOffers
<1>2. LinkInv /\ Counted /\ [Next]_vars => Counted'
  BY StepOffers DEF FeedStep
<1> QED
  BY <1>1, <1>2, Invariance, PTL DEF Spec

-----------------------------------------------------------------------------
(* Theorems *)

\* Every variable stays in its type; inotify's queue holds no more than its limit.
THEOREM Typing == Spec => []TypeOK
<1>1. LinkInv => TypeOK
  BY DEF LinkInv, StateType
<1> QED
  BY <1>1, Invariance, PTL

\* With a queue as long as there are links, no link is missed: because the watch
\* is added before the scan, and a rescan finds again what it throws away.
THEOREM NothingMissed == Spec => []NoLinkMissed
<1>1. LinkInv => NoLinkMissed
  BY DEF LinkInv
<1> QED
  BY <1>1, Invariance, PTL

\* The event chain gets its links in the order of creation, although names from
\* the scan come again from inotify and the files of some are gone.
THEOREM OldestFirst == Spec => []InCreationOrder
<1>1. LinkInv => InCreationOrder
  BY DEF LinkInv
<1> QED
  BY <1>1, Invariance, PTL

\* A name waits at most twice, from the scan and from inotify, however often
\* the directory is rescanned and the reader dies.
THEOREM Twice == Spec => []AtMostTwice
<1>1. Counted => AtMostTwice
  BY DEF Counted, AtMostTwice
<1> QED
  BY <1>1, CountInvariance, PTL

\* inotify, its queue and the linked list implement the feed: a link is offered
\* when it is created or found on disk, and an offer goes when it is taken, when
\* a rescan replaces it or when the reader dies.
THEOREM Implements == Spec => ImplementsFeed
<1>1. Init => Feed!FeedInit
  BY StartOffers
<1>2. LinkInv /\ Counted /\ [Next]_vars => [Feed!FeedNext]_(Feed!feedVars)
  BY StepOffers DEF FeedStep
<1> QED
  BY <1>1, <1>2, Invariance, CountInvariance, PTL DEF Spec, ImplementsFeed, Feed!FeedSpec

=============================================================================
