---------------------------- MODULE SearchProofs ----------------------------
(***************************************************************************)
(* A search for runs is exact, for every history and every run that starts  *)
(* meanwhile, every kind of options, every page size and every number of    *)
(* calls that go on from each other's tokens.                               *)
(*                                                                         *)
(* All lists of runs are newest first, and such a list is told by the runs  *)
(* in it (SameRuns); so the argument is about sets of runs.  The filter     *)
(* asks for what the options ask (BuiltFilterMeans), and what is listed     *)
(* after a cursor is the rest of what was wanted at first (PickedRest),     *)
(* because runs that start meanwhile are newer than any cursor.             *)
(***************************************************************************)
EXTENDS RunSearch, ExecutionTreeProofs

-----------------------------------------------------------------------------
(* Lists of runs, newest first. *)

LEMMA RunIds == \A r \in AllRuns : r.id \in Nat /\ r.id # NoToken
BY SearchConstantsOK DEF SearchConstantsOK, NoToken

(* An older run goes behind a list that is newest first.                     *)
LEMMA OlderRunLast ==
  ASSUME NEW a \in Seq(AllRuns), NewestFirst(a), NEW r \in AllRuns,
         \A x \in ToSet(a) : x.id > r.id
  PROVE  /\ a \o <<r>> \in Seq(AllRuns) /\ NewestFirst(a \o <<r>>)
         /\ ToSet(a \o <<r>>) = ToSet(a) \cup {r}
<1> DEFINE one == <<r>>
<1>1. one \in Seq(AllRuns) /\ ToSet(one) = {r}
  BY DEF ToSet
<1>2. a \o one \in Seq(AllRuns) /\ ToSet(a \o one) = ToSet(a) \cup {r}
  <2> HIDE DEF one
  <2> QED BY <1>1, RangeOfJoin
<1>3. /\ Len(a) \in Nat /\ DOMAIN a = 1..Len(a) /\ DOMAIN (a \o <<r>>) = 1..(Len(a) + 1)
      /\ \A i \in 1..Len(a) : (a \o <<r>>)[i] = a[i]
      /\ (a \o <<r>>)[Len(a) + 1] = r
  BY LenProperties
<1>4. NewestFirst(a \o <<r>>)
  BY <1>3 DEF NewestFirst, ToSet
<1> QED BY <1>2, <1>4

(* What is among a list: the members of the set that are in it, in its order. *)
LEMMA AmongFacts ==
  ASSUME NEW s \in Seq(AllRuns), NewestFirst(s), NEW S
  PROVE  /\ Among(s, S) \in Seq(AllRuns) /\ NewestFirst(Among(s, S))
         /\ ToSet(Among(s, S)) = ToSet(s) \cap S
<1> DEFINE pieces == [i \in DOMAIN s |-> IF s[i] \in S THEN <<s[i]>> ELSE <<>>]
<1>0. /\ Len(s) \in Nat /\ DOMAIN s = 1..Len(s) /\ \A i \in DOMAIN s : s[i] \in AllRuns
  BY LenProperties
<1>1. DOMAIN pieces = 1..Len(s) /\ Len(pieces) = Len(s)
  BY <1>0
<1>2. Among(s, S) = FlattenSeq(pieces)
  BY DEF Among
<1>3. CASE Len(s) = 0
  <2>1. FlattenSeq(pieces) = pieces
    BY <1>1, <1>3 DEF FlattenSeq
  <2>2. pieces = <<>> /\ s = <<>>
    BY <1>0, <1>1, <1>3
  <2> HIDE DEF pieces
  <2>3. Among(s, S) = <<>>
    BY <1>2, <2>1, <2>2
  <2>4. ToSet(<<>>) = {} /\ NewestFirst(<<>>) /\ <<>> \in Seq(AllRuns)
    BY DEF ToSet, NewestFirst
  <2> QED BY <2>2, <2>3, <2>4
<1>4. CASE Len(s) # 0
  <2>1. PICK f : Joins(f, pieces, Len(s)) /\ FlattenSeq(pieces) = f[Len(s)]
    <3> HIDE DEF pieces
    <3> QED BY <1>0, <1>1, <1>4, FlattenJoins
  <2> DEFINE Good(k) == /\ f[k] \in Seq(AllRuns) /\ NewestFirst(f[k])
                        /\ ToSet(f[k]) = {s[i] : i \in 1..k} \cap S
             Bad == {k \in 1..Len(s) : ~Good(k)}
  <2>2. ASSUME NEW k \in 1..Len(s), k # 1 => Good(k - 1) PROVE Good(k)
    <3>1. k \in DOMAIN s /\ s[k] \in AllRuns /\ k \in Nat
      BY <1>0
    <3>2. f[k] = IF k = 1 THEN pieces[k] ELSE f[k-1] \o pieces[k]
      BY <2>1 DEF Joins
    <3>3. pieces[k] = IF s[k] \in S THEN <<s[k]>> ELSE <<>>
      BY <3>1
    <3> HIDE DEF pieces
    <3> DEFINE a == IF k = 1 THEN <<>> ELSE f[k-1]
    <3>4. /\ a \in Seq(AllRuns) /\ NewestFirst(a)
          /\ ToSet(a) = {s[i] : i \in 1..(k-1)} \cap S
      <4>1. CASE k = 1
        <5>1. ToSet(<<>>) = {} /\ NewestFirst(<<>>) /\ <<>> \in Seq(AllRuns)
          BY DEF ToSet, NewestFirst
        <5>2. {s[i] : i \in 1..(k-1)} = {}
          BY <4>1
        <5> QED BY <4>1, <5>1, <5>2
      <4>2. CASE k # 1
        BY <2>2, <4>2
      <4> QED BY <4>1, <4>2
    <3>5. f[k] = a \o pieces[k]
      <4>1. pieces[k] \in Seq(AllRuns)
        BY <3>1, <3>3
      <4> QED BY <3>2, <4>1, ConcatEmptySeq
    <3> HIDE DEF a
    <3>6. {s[i] : i \in 1..k} = {s[i] : i \in 1..(k-1)} \cup {s[k]}
      BY <3>1
    <3>7. CASE s[k] \in S
      <4>1. \A x \in ToSet(a) : x.id > s[k].id
        BY <1>0, <3>1, <3>4 DEF NewestFirst
      <4>2. f[k] = a \o <<s[k]>>
        BY <3>3, <3>5, <3>7
      <4>3. /\ f[k] \in Seq(AllRuns) /\ NewestFirst(f[k])
            /\ ToSet(f[k]) = ToSet(a) \cup {s[k]}
        BY <3>1, <3>4, <4>1, <4>2, OlderRunLast
      <4> QED BY <3>4, <3>6, <3>7, <4>3
    <3>8. CASE s[k] \notin S
      <4>1. f[k] = a
        BY <3>3, <3>4, <3>5, <3>8, ConcatEmptySeq
      <4> QED BY <3>4, <3>6, <3>8, <4>1
    <3> QED BY <3>7, <3>8
  <2>3. ASSUME Bad # {} PROVE FALSE
    <3>0. Bad \in SUBSET Nat
      BY <1>0
    <3>1. PICK k \in Bad : \A j \in Bad : k <= j
      <4> HIDE DEF Bad
      <4> QED BY <2>3, <3>0, LeastOf
    <3>2. k \in 1..Len(s) /\ ~Good(k)
      BY <3>1
    <3>3. k # 1 => k - 1 \in 1..Len(s) /\ ~(k <= k - 1)
      BY <1>0, <3>2
    <3>4. k # 1 => Good(k - 1)
      BY <3>1, <3>3
    <3> QED BY <2>2, <3>2, <3>4
  <2>4. Good(Len(s))
    <3>1. Len(s) \in 1..Len(s)
      BY <1>0, <1>4
    <3> QED BY <2>3, <3>1, Zenon
  <2>5. {s[i] : i \in 1..Len(s)} = ToSet(s)
    BY <1>0 DEF ToSet
  <2> QED BY <1>2, <2>1, <2>4, <2>5
<1> QED BY <1>3, <1>4

(* A list that is newest first is told by the runs in it.                    *)
LEMMA SameRuns ==
  ASSUME NEW a \in Seq(AllRuns), NEW b \in Seq(AllRuns), NewestFirst(a), NewestFirst(b),
         ToSet(a) = ToSet(b)
  PROVE  a = b
<1>1. /\ Len(a) \in Nat /\ DOMAIN a = 1..Len(a) /\ Len(b) \in Nat /\ DOMAIN b = 1..Len(b)
      /\ \A i \in 1..Len(a) : a[i].id \in Nat
      /\ \A i \in 1..Len(b) : b[i].id \in Nat
  BY LenProperties, RunIds
<1>2. /\ \A i \in 1..Len(a) : \E j \in 1..Len(b) : a[i] = b[j]
      /\ \A j \in 1..Len(b) : \E i \in 1..Len(a) : b[j] = a[i]
  BY <1>1 DEF ToSet
<1>3. /\ \A i, j \in 1..Len(a) : i < j => a[i].id > a[j].id
      /\ \A i, j \in 1..Len(b) : i < j => b[i].id > b[j].id
  BY <1>1 DEF NewestFirst
<1> DEFINE Bad == {i \in 1..Len(a) : ~(i \in 1..Len(b) /\ a[i] = b[i])}
<1>4. ASSUME Bad # {} PROVE FALSE
  <2>1. Bad \in SUBSET Nat
    BY <1>1
  <2>2. PICK k \in Bad : \A j \in Bad : k <= j
    <3> HIDE DEF Bad
    <3> QED BY <1>4, <2>1, LeastOf
  <2>3. k \in 1..Len(a) /\ ~(k \in 1..Len(b) /\ a[k] = b[k])
    BY <2>2
  <2>4. \A i \in 1..(k-1) : i \in 1..Len(a) /\ i \in 1..Len(b) /\ a[i] = b[i]
    <3>1. \A i \in 1..(k-1) : i \in 1..Len(a) /\ ~(k <= i)
      BY <1>1, <2>3
    <3> QED BY <2>2, <3>1
  <2>5. PICK j \in 1..Len(b) : a[k] = b[j]
    BY <1>2, <2>3
  <2>6. j >= k
    <3>1. j < k => j \in 1..(k-1)
      BY <1>1, <2>3
    <3> QED BY <1>1, <1>3, <2>3, <2>4, <2>5, <3>1
  <2>7. k \in 1..Len(b)
    BY <1>1, <2>3, <2>6
  <2>8. PICK m \in 1..Len(a) : b[k] = a[m]
    BY <1>2, <2>7
  <2>9. m >= k
    <3>1. m < k => m \in 1..(k-1)
      BY <1>1, <2>3
    <3> QED BY <1>1, <1>3, <2>4, <2>7, <2>8, <3>1
  <2>10. a[k].id >= a[m].id /\ b[k].id >= b[j].id /\ (j > k => b[k].id > b[j].id)
    BY <1>1, <1>3, <2>3, <2>6, <2>7, <2>9
  <2>11. j = k
    BY <1>1, <2>3, <2>5, <2>6, <2>7, <2>8, <2>10
  <2> QED BY <2>3, <2>5, <2>7, <2>11
<1>5. \A i \in 1..Len(a) : i \in 1..Len(b) /\ a[i] = b[i]
  BY <1>4
<1>6. Len(b) <= Len(a)
  <2> SUFFICES ASSUME Len(b) > Len(a) PROVE FALSE
    BY <1>1
  <2>1. PICK m \in 1..Len(a) : b[Len(b)] = a[m]
    BY <1>1, <1>2
  <2>2. m \in 1..Len(b) /\ b[Len(b)] = b[m] /\ m < Len(b)
    BY <1>1, <1>5, <2>1
  <2> QED BY <1>1, <1>3, <2>2
<1>7. Len(a) = Len(b)
  <2>1. Len(a) # 0 => Len(a) \in 1..Len(a)
    BY <1>1
  <2>2. Len(a) # 0 => Len(a) <= Len(b)
    BY <1>1, <1>5, <2>1
  <2>3. Len(a) \in Nat /\ Len(b) \in Nat
    BY <1>1
  <2> QED BY <1>6, <2>2, <2>3
<1> QED BY <1>5, <1>7, SeqEqual

(* The rest of such a list are its runs below the one it starts after.       *)
LEMMA RestOf ==
  ASSUME NEW w \in Seq(AllRuns), NewestFirst(w), NEW k \in 0..Len(w)
  PROVE  /\ SubSeq(w, k + 1, Len(w)) \in Seq(AllRuns) /\ NewestFirst(SubSeq(w, k + 1, Len(w)))
         /\ Len(SubSeq(w, k + 1, Len(w))) = Len(w) - k
         /\ \A i \in 1..(Len(w) - k) : SubSeq(w, k + 1, Len(w))[i] = w[k + i]
         /\ k > 0 => ToSet(SubSeq(w, k + 1, Len(w))) = {r \in ToSet(w) : r.id < w[k].id}
<1> DEFINE s == SubSeq(w, k + 1, Len(w))
<1>1. /\ Len(w) \in Nat /\ DOMAIN w = 1..Len(w) /\ k \in Nat /\ k <= Len(w)
      /\ \A i \in 1..Len(w) : w[i] \in AllRuns /\ w[i].id \in Nat
  BY LenProperties, RunIds
<1>2. /\ s \in Seq(AllRuns) /\ Len(s) = Len(w) - k
      /\ \A i \in 1..(Len(w) - k) : s[i] = w[k + i]
  <2>1. k + 1 \in Int /\ Len(w) \in Int /\ \A i \in (k+1)..Len(w) : w[i] \in AllRuns
    BY <1>1
  <2>2. /\ s \in Seq(AllRuns)
        /\ Len(s) = IF k + 1 <= Len(w) THEN Len(w) - (k + 1) + 1 ELSE 0
        /\ \A i \in 1 .. (Len(w) - (k + 1) + 1) : s[i] = w[k + 1 + i - 1]
    BY <2>1, SubSeqProperties
  <2>3. /\ Len(w) - (k + 1) + 1 = Len(w) - k
        /\ \A i \in 1..(Len(w) - k) : k + 1 + i - 1 = k + i
    BY <1>1
  <2> HIDE DEF s
  <2>4. Len(s) = Len(w) - k
    <3>1. Len(w) \in Nat /\ k \in Nat /\ k <= Len(w)
      BY <1>1
    <3>2. Len(s) = IF k + 1 <= Len(w) THEN Len(w) - (k + 1) + 1 ELSE 0
      BY <2>2
    <3> QED BY <3>1, <3>2
  <2> QED BY <2>2, <2>3, <2>4
<1>3. DOMAIN s = 1..(Len(w) - k)
  <2> HIDE DEF s
  <2> QED BY <1>2, LenProperties
<1> HIDE DEF s
<1>4. \A i, j \in 1..Len(w) : i < j => w[i].id > w[j].id
  BY <1>1 DEF NewestFirst
<1>5. NewestFirst(s)
  <2>1. ASSUME NEW i \in DOMAIN s, NEW j \in DOMAIN s, i < j PROVE s[i].id > s[j].id
    <3>1. i \in 1..(Len(w) - k) /\ j \in 1..(Len(w) - k)
      BY <1>3
    <3>2. k + i \in 1..Len(w) /\ k + j \in 1..Len(w) /\ k + i < k + j
      BY <1>1, <2>1, <3>1
    <3>3. w[k + i].id > w[k + j].id
      BY <1>4, <3>2
    <3> QED BY <1>2, <3>1, <3>3
  <2> QED BY <2>1 DEF NewestFirst
<1>6. ASSUME k > 0 PROVE ToSet(s) = {r \in ToSet(w) : r.id < w[k].id}
  <2>1. ASSUME NEW i \in DOMAIN s PROVE s[i] \in ToSet(w) /\ s[i].id < w[k].id
    <3>1. k + i \in 1..Len(w) /\ k < k + i /\ s[i] = w[k + i] /\ k \in 1..Len(w)
      BY <1>1, <1>2, <1>3, <1>6
    <3> QED BY <1>1, <1>4, <3>1 DEF ToSet
  <2>2. ASSUME NEW i \in DOMAIN w, w[i].id < w[k].id PROVE w[i] \in ToSet(s)
    <3>1. i \in 1..Len(w) /\ k \in 1..Len(w)
      BY <1>1, <1>6
    <3>2. ~(i <= k)
      <4>1. i < k => w[i].id > w[k].id
        BY <1>4, <3>1
      <4> QED BY <1>1, <2>2, <3>1, <4>1
    <3>3. i - k \in DOMAIN s /\ s[i - k] = w[i]
      <4>1. i - k \in 1..(Len(w) - k) /\ k + (i - k) = i
        BY <1>1, <3>1, <3>2
      <4> QED BY <1>2, <1>3, <4>1
    <3> QED BY <3>3 DEF ToSet
  <2>3. /\ \A x \in ToSet(s) : x \in {r \in ToSet(w) : r.id < w[k].id}
        /\ \A x \in {r \in ToSet(w) : r.id < w[k].id} : x \in ToSet(s)
    BY <2>1, <2>2 DEF ToSet
  <2> QED BY <2>3
<1> QED BY <1>2, <1>5, <1>6 DEF s

(* One more sequence is flattened behind the others.                         *)
LEMMA FlattenAppend ==
  ASSUME NEW S, NEW seqs \in Seq(Seq(S)), NEW x \in Seq(S)
  PROVE  FlattenSeq(Append(seqs, x)) = FlattenSeq(seqs) \o x
<1> DEFINE n == Len(seqs)
           more == Append(seqs, x)
<1>1. /\ n \in Nat /\ Len(more) = n + 1 /\ more[n + 1] = x
      /\ \A i \in 1..n : more[i] = seqs[i] /\ seqs[i] \in Seq(S)
  BY LenProperties
<1>2. PICK g : Joins(g, more, n + 1) /\ FlattenSeq(more) = g[n + 1]
  <2> HIDE DEF more
  <2>1. Len(more) \in Nat \ {0}
    BY <1>1
  <2> QED BY <1>1, <2>1, FlattenJoins
<1> HIDE DEF more
<1>3. g[n + 1] = IF n = 0 THEN x ELSE g[n] \o x
  <2>1. n + 1 \in 1..(n + 1) /\ (n + 1) - 1 = n /\ (n + 1 = 1 <=> n = 0)
    BY <1>1
  <2> HIDE DEF n
  <2> QED BY <1>1, <1>2, <2>1 DEF Joins
<1>4. CASE n = 0
  <2>1. FlattenSeq(seqs) = <<>>
    BY <1>1, <1>4, EmptySeq DEF FlattenSeq
  <2>2. <<>> \o x = x
    BY ConcatEmptySeq
  <2> QED BY <1>2, <1>3, <1>4, <2>1, <2>2 DEF more
<1>5. CASE n # 0
  <2>1. PICK f : Joins(f, seqs, n) /\ FlattenSeq(seqs) = f[n]
    BY <1>1, <1>5, FlattenJoins
  <2> HIDE DEF n
  <2> DEFINE Bad == {i \in 1..n : f[i] # g[i]}
  <2>2. ASSUME Bad # {} PROVE FALSE
    <3>1. Bad \in SUBSET Nat
      BY <1>1
    <3>2. PICK k \in Bad : \A j \in Bad : k <= j
      <4> HIDE DEF Bad
      <4> QED BY <2>2, <3>1, LeastOf
    <3>3. k \in 1..n /\ f[k] # g[k] /\ k \in 1..(n+1)
      BY <1>1, <3>2
    <3>4. k # 1 => f[k-1] = g[k-1]
      <4>1. k # 1 => k-1 \in 1..n /\ ~(k <= k-1)
        BY <1>1, <3>3
      <4> QED BY <3>2, <4>1
    <3>5. /\ f[k] = IF k = 1 THEN seqs[k] ELSE f[k-1] \o seqs[k]
          /\ g[k] = IF k = 1 THEN more[k] ELSE g[k-1] \o more[k]
      BY <1>2, <2>1, <3>3 DEF Joins
    <3> QED BY <1>1, <3>3, <3>4, <3>5
  <2>3. f[n] = g[n]
    <3>1. n \in 1..n
      BY <1>1, <1>5
    <3> QED BY <2>2, <3>1
  <2> QED BY <1>2, <1>3, <1>5, <2>1, <2>3 DEF more
<1> QED BY <1>4, <1>5

LEMMA MinOfTwo == \A a, b \in Int : Min({a, b}) = IF a <= b THEN a ELSE b
<1> SUFFICES ASSUME NEW a \in Int, NEW b \in Int PROVE Min({a, b}) = IF a <= b THEN a ELSE b
  OBVIOUS
<1> DEFINE T == {a, b}
           least == IF a <= b THEN a ELSE b
<1>1. least \in T /\ \A y \in T : least <= y
  OBVIOUS
<1>2. \A x \in T : (\A y \in T : x <= y) => x = least
  BY <1>1
<1>3. Min(T) \in T /\ \A y \in T : Min(T) <= y
  <2> HIDE DEF T, least
  <2> QED BY <1>1 DEF Min
<1> QED BY <1>2, <1>3

LEMMA MaxOfTwo == \A a, b \in Int : Max({a, b}) = IF a >= b THEN a ELSE b
<1> SUFFICES ASSUME NEW a \in Int, NEW b \in Int PROVE Max({a, b}) = IF a >= b THEN a ELSE b
  OBVIOUS
<1> DEFINE T == {a, b}
           most == IF a >= b THEN a ELSE b
<1>1. most \in T /\ \A y \in T : most >= y
  OBVIOUS
<1>2. \A x \in T : (\A y \in T : x >= y) => x = most
  BY <1>1
<1>3. Max(T) \in T /\ \A y \in T : Max(T) >= y
  <2> HIDE DEF T, most
  <2> QED BY <1>1 DEF Max
<1> QED BY <1>2, <1>3

(* A search is for one row at least.                                         *)
LEMMA LimitIsPositive == \A o \in Searches : Limit(o) \in Nat \ {0}
<1> SUFFICES ASSUME NEW o \in Searches PROVE Limit(o) \in Nat \ {0}
  OBVIOUS
<1> DEFINE l == IF o.limit = 0 THEN DefaultLimit ELSE o.limit
           m == Min({l, LargestLimit})
<1>1. l \in Int /\ LargestLimit \in Int
  <2>1. o.limit \in Nat
    BY SearchConstantsOK, Zenon DEF SearchConstantsOK, OptionsOK
  <2> QED BY <2>1 DEF DefaultLimit, LargestLimit
<1>2. m \in Int
  <2> HIDE DEF l
  <2> QED BY <1>1, MinOfTwo
<1>3. Limit(o) = Max({1, m})
  BY DEF Limit
<1> HIDE DEF m
<1> QED BY <1>2, <1>3, MaxOfTwo
-----------------------------------------------------------------------------
(* What the predicates ask of a run. *)

LEMMA ContainsMeans ==
  ASSUME NEW r, NEW k, NEW w
  PROVE  Satisfies(r, ValueContains(k, w)) <=> Has(r, k) /\ w \in ValueOf(r, k)
BY DEF Satisfies, ValueContains, Predicate

LEMMA EqualsMeans ==
  ASSUME NEW r, NEW k, NEW w
  PROVE  Satisfies(r, ValueEquals(k, w)) <=> Has(r, k) /\ ValueOf(r, k) = {w} \ {""}
BY DEF Satisfies, ValueEquals, Predicate

LEMMA ExistsMeans ==
  ASSUME NEW r, NEW k
  PROVE  Satisfies(r, KeyExists(k)) <=> Has(r, k)
BY DEF Satisfies, KeyExists, Predicate

LEMMA RangeMeans ==
  ASSUME NEW r, NEW start, NEW end
  PROVE  Satisfies(r, TimeRange(start, end)) <=> /\ start = 0 \/ r.at >= start
                                                 /\ end = 0 \/ r.at <= end
BY DEF Satisfies, TimeRange, Predicate

(* The predicate of an annotation: its key alone, an empty value or a word.  *)
LEMMA NotedMeans ==
  ASSUME NEW r, NEW k, k \notin {"name", "created_by"}, NEW value
  PROVE  Satisfies(r, OfAnnotation(k, value)) <=> Noted(r, k, value)
<1>1. ValueOf(r, k) = r.notes[k] /\ (Has(r, k) <=> k \in DOMAIN r.notes)
  BY DEF ValueOf, Has
<1>2. CASE value = "none"
  BY <1>1, <1>2, ExistsMeans DEF OfAnnotation, Noted
<1>3. CASE value = ""
  <2>1. {""} \ {""} = {}
    OBVIOUS
  <2> QED BY <1>1, <1>3, <2>1, EqualsMeans DEF OfAnnotation, Noted
<1>4. CASE value \notin {"", "none"}
  <2>1. OfAnnotation(k, value) = ValueContains(k, value)
    BY <1>4 DEF OfAnnotation
  <2>2. Noted(r, k, value) <=> k \in DOMAIN r.notes /\ value \in r.notes[k]
    BY <1>4 DEF Noted
  <2> QED BY <1>1, <2>1, <2>2, ContainsMeans
<1> QED BY <1>2, <1>3, <1>4

(* Of the notes with one key there is a last one, and the key has its value. *)
LEMMA LastOfKey ==
  ASSUME NEW S, NEW notes \in Seq(S), NEW k \in {n.key : n \in ToSet(notes)}
  PROVE  \E i \in DOMAIN notes : /\ notes[i].key = k
                                 /\ \A j \in DOMAIN notes : notes[j].key = k => j <= i
                                 /\ ById(notes)[k] = notes[i].value
<1>1. Len(notes) \in Nat /\ DOMAIN notes = 1..Len(notes)
  BY LenProperties
<1> DEFINE T == {d \in Nat : \E i \in DOMAIN notes : d = Len(notes) - i /\ notes[i].key = k}
<1>2. PICK i \in DOMAIN notes : notes[i].key = k
  BY DEF ToSet
<1>3. Len(notes) - i \in T
  BY <1>1, <1>2
<1>4. PICK d \in T : \A e \in T : d <= e
  <2>1. T \in SUBSET Nat /\ T # {}
    BY <1>3
  <2> HIDE DEF T
  <2> QED BY <2>1, LeastOf
<1>5. PICK l \in DOMAIN notes : d = Len(notes) - l /\ notes[l].key = k
  BY <1>4
<1>6. ASSUME NEW j \in DOMAIN notes, notes[j].key = k PROVE j <= l
  <2>1. Len(notes) - j \in T
    BY <1>1, <1>6
  <2>2. d <= Len(notes) - j
    BY <1>4, <2>1
  <2> QED BY <1>1, <1>5, <2>2
<1> DEFINE Latest(x) == notes[x].key = k /\ \A j \in DOMAIN notes : notes[j].key = k => j <= x
           last == CHOOSE x \in DOMAIN notes : Latest(x)
<1>7. Latest(l)
  BY <1>5, <1>6
<1>8. last \in DOMAIN notes /\ Latest(last)
  BY <1>5, <1>7
<1>9. ById(notes)[k] = notes[last].value
  BY DEF ById
<1> HIDE DEF last
<1> QED BY <1>8, <1>9

(* A JSON value replaces the notes of its key, and the last of these the     *)
(* others.                                                                   *)
LEMMA AnnotationsMean ==
  ASSUME NEW o, OptionsOK(o), NEW r
  PROVE  (\A k \in DOMAIN Annotations(o) : Noted(r, k, Annotations(o)[k]))
         <=> /\ \A k \in DOMAIN o.json : Noted(r, k, o.json[k])
             /\ \A i \in DOMAIN o.annotation :
                  LET n == o.annotation[i]
                  IN n.key \notin DOMAIN o.json
                     /\ (\A j \in DOMAIN o.annotation : o.annotation[j].key = n.key => j <= i)
                       => Noted(r, n.key, n.value)
<1> DEFINE notes == o.annotation
           keys == {n.key : n \in ToSet(notes)}
           Latest(i) == \A j \in DOMAIN notes : notes[j].key = notes[i].key => j <= i
<1>1. notes \in Seq(ToSet(notes))
  BY DEF OptionsOK
<1>2. /\ DOMAIN Annotations(o) = keys \cup DOMAIN o.json
      /\ \A k \in keys \cup DOMAIN o.json :
           Annotations(o)[k] = IF k \in DOMAIN o.json THEN o.json[k] ELSE ById(notes)[k]
  BY DEF Annotations, ById
<1>3. \A i \in DOMAIN notes : notes[i].key \in keys
  BY DEF ToSet
<1>4. DOMAIN notes = 1..Len(notes) /\ Len(notes) \in Nat
  BY <1>1, LenProperties
<1>5. ASSUME NEW i \in DOMAIN notes, Latest(i)
      PROVE  ById(notes)[notes[i].key] = notes[i].value
  <2> DEFINE k == notes[i].key
  <2>1. PICK l \in DOMAIN notes : /\ notes[l].key = k
                                  /\ \A j \in DOMAIN notes : notes[j].key = k => j <= l
                                  /\ ById(notes)[k] = notes[l].value
    <3>1. k \in keys
      BY <1>3
    <3> HIDE DEF k, notes
    <3> QED BY <1>1, <3>1, LastOfKey
  <2>2. l <= i /\ i <= l
    BY <1>5, <2>1
  <2>3. l = i
    BY <1>4, <2>2
  <2> QED BY <2>1, <2>3
<1>6. ASSUME NEW k \in keys
      PROVE  \E i \in DOMAIN notes : notes[i].key = k /\ Latest(i) /\ ById(notes)[k] = notes[i].value
  <2>1. PICK l \in DOMAIN notes : /\ notes[l].key = k
                                  /\ \A j \in DOMAIN notes : notes[j].key = k => j <= l
                                  /\ ById(notes)[k] = notes[l].value
    <3> HIDE DEF notes
    <3> QED BY <1>1, LastOfKey
  <2> QED BY <2>1
<1>7. ASSUME \A k \in DOMAIN Annotations(o) : Noted(r, k, Annotations(o)[k])
      PROVE  /\ \A k \in DOMAIN o.json : Noted(r, k, o.json[k])
             /\ \A i \in DOMAIN notes : notes[i].key \notin DOMAIN o.json /\ Latest(i)
                                          => Noted(r, notes[i].key, notes[i].value)
  <2>1. \A k \in DOMAIN o.json : Noted(r, k, o.json[k])
    BY <1>2, <1>7
  <2>2. ASSUME NEW i \in DOMAIN notes, notes[i].key \notin DOMAIN o.json, Latest(i)
        PROVE  Noted(r, notes[i].key, notes[i].value)
    <3>1. notes[i].key \in keys \cup DOMAIN o.json
      BY <1>3
    <3>2. Annotations(o)[notes[i].key] = notes[i].value
      BY <1>2, <1>5, <2>2, <3>1
    <3> HIDE DEF notes, keys
    <3> QED BY <1>2, <1>7, <3>1, <3>2
  <2> QED BY <2>1, <2>2
<1>8. ASSUME /\ \A k \in DOMAIN o.json : Noted(r, k, o.json[k])
             /\ \A i \in DOMAIN notes : notes[i].key \notin DOMAIN o.json /\ Latest(i)
                                          => Noted(r, notes[i].key, notes[i].value),
             NEW k \in DOMAIN Annotations(o)
      PROVE  Noted(r, k, Annotations(o)[k])
  <2>1. k \in keys \cup DOMAIN o.json
    BY <1>2
  <2>2. CASE k \in DOMAIN o.json
    BY <1>2, <1>8, <2>1, <2>2
  <2>3. CASE k \notin DOMAIN o.json
    <3>1. PICK i \in DOMAIN notes : notes[i].key = k /\ Latest(i) /\ ById(notes)[k] = notes[i].value
      BY <1>6, <2>1, <2>3
    <3>2. Annotations(o)[k] = notes[i].value
      BY <1>2, <2>1, <2>3, <3>1
    <3> QED BY <1>8, <2>3, <3>1, <3>2
  <2> QED BY <2>2, <2>3
<1> QED BY <1>7, <1>8

(* One predicate holds both dates, in which 0 stands for no date.            *)
LEMMA DatesMean ==
  ASSUME NEW o, OptionsOK(o), NEW r
  PROVE  (\A d \in {<<o.start, o.end>>} \ {<<NoDate, NoDate>>} :
             Satisfies(r, TimeRange(SentDate(o.start), SentDate(o.end))))
         <=> Within(r, o)
<1>1. \A date \in {o.start, o.end} :
        IF date = NoDate THEN SentDate(date) = 0
        ELSE SentDate(date) = Instant(date) /\ Instant(date) # 0
  BY DEF OptionsOK, SentDate
<1>2. CASE o.start = NoDate /\ o.end = NoDate
  BY <1>2 DEF Within
<1>3. CASE ~(o.start = NoDate /\ o.end = NoDate)
  <2>1. {<<o.start, o.end>>} \ {<<NoDate, NoDate>>} = {<<o.start, o.end>>}
    BY <1>3
  <2>2. Satisfies(r, TimeRange(SentDate(o.start), SentDate(o.end))) <=> Within(r, o)
    BY <1>1, RangeMeans DEF Within
  <2> QED BY <2>1, <2>2
<1> QED BY <1>2, <1>3

(* The filter that is built from the options asks for what the options ask.  *)
LEMMA BuiltFilterMeans ==
  ASSUME NEW o, OptionsOK(o), NEW r
  PROVE  (\A p \in BuildFilter(o, IF IsMe(o.created_by) THEN WhoAmI ELSE o.created_by) : Satisfies(r, p))
         <=> Asked(r, o)
<1> DEFINE by == IF IsMe(o.created_by) THEN WhoAmI ELSE o.created_by
           notes == Annotations(o)
<1>1. (\A n \in {o.name} \ {""} : Satisfies(r, ValueContains("name", n)))
      <=> (o.name # "" => o.name \in r.name)
  <2>1. Has(r, "name") /\ ValueOf(r, "name") = r.name
    BY DEF Has, ValueOf
  <2> QED BY <2>1, ContainsMeans
<1>2. (\A u \in {by} \ {""} : Satisfies(r, ValueEquals("created_by", u)))
      <=> (o.created_by # "" => r.by = by)
  <2>1. Has(r, "created_by") /\ ValueOf(r, "created_by") = {r.by}
    BY DEF Has, ValueOf
  <2>2. by # "" <=> o.created_by # ""
    <3>1. WhoAmI # ""
      BY SearchConstantsOK, Zenon DEF SearchConstantsOK
    <3> QED BY <3>1 DEF IsMe
  <2> HIDE DEF by
  <2>3. by # "" => {by} \ {""} = {by}
    OBVIOUS
  <2>4. Satisfies(r, ValueEquals("created_by", by)) <=> {r.by} = {by} \ {""}
    BY <2>1, EqualsMeans
  <2>5. {r.by} = {by} <=> r.by = by
    OBVIOUS
  <2> QED BY <2>2, <2>3, <2>4, <2>5
<1>3. (\A k \in DOMAIN notes : Satisfies(r, OfAnnotation(k, notes[k])))
      <=> \A k \in DOMAIN notes : Noted(r, k, notes[k])
  <2>1. DOMAIN notes = {n.key : n \in ToSet(o.annotation)} \cup DOMAIN o.json
    BY DEF Annotations, ById
  <2>2. \A k \in DOMAIN notes : k \notin {"name", "created_by"}
    BY <2>1 DEF OptionsOK
  <2> HIDE DEF notes
  <2> QED BY <2>2, NotedMeans
<1>4. (\A p \in BuildFilter(o, by) : Satisfies(r, p))
      <=> /\ \A n \in {o.name} \ {""} : Satisfies(r, ValueContains("name", n))
          /\ \A u \in {by} \ {""} : Satisfies(r, ValueEquals("created_by", u))
          /\ \A k \in DOMAIN notes : Satisfies(r, OfAnnotation(k, notes[k]))
          /\ \A d \in {<<o.start, o.end>>} \ {<<NoDate, NoDate>>} :
               Satisfies(r, TimeRange(SentDate(o.start), SentDate(o.end)))
  <2>1. BuildFilter(o, by) = {ValueContains("name", n) : n \in {o.name} \ {""}}
           \union {ValueEquals("created_by", u) : u \in {by} \ {""}}
           \union {OfAnnotation(k, notes[k]) : k \in DOMAIN notes}
           \union {TimeRange(SentDate(o.start), SentDate(o.end)) : d \in {<<o.start, o.end>>} \ {<<NoDate, NoDate>>}}
    BY DEF BuildFilter
  <2> HIDE DEF by, notes
  <2> QED BY <2>1, Zenon
<1>5. (\A k \in DOMAIN notes : Noted(r, k, notes[k]))
      <=> /\ \A k \in DOMAIN o.json : Noted(r, k, o.json[k])
          /\ \A i \in DOMAIN o.annotation :
               LET n == o.annotation[i]
               IN n.key \notin DOMAIN o.json
                  /\ (\A j \in DOMAIN o.annotation : o.annotation[j].key = n.key => j <= i)
                    => Noted(r, n.key, n.value)
  BY AnnotationsMean
<1>6. (\A d \in {<<o.start, o.end>>} \ {<<NoDate, NoDate>>} :
          Satisfies(r, TimeRange(SentDate(o.start), SentDate(o.end)))) <=> Within(r, o)
  BY DatesMean
<1>7. Asked(r, o) <=> /\ o.name # "" => o.name \in r.name
                      /\ o.created_by # "" => r.by = by
                      /\ \A k \in DOMAIN notes : Noted(r, k, notes[k])
                      /\ Within(r, o)
  <2> HIDE DEF notes
  <2> QED BY <1>5, Zenon DEF Asked
<1> HIDE DEF by, notes
<1>8. (\A p \in BuildFilter(o, by) : Satisfies(r, p)) <=> Asked(r, o)
  BY <1>1, <1>2, <1>3, <1>4, <1>6, <1>7
<1> QED BY <1>8 DEF by
-----------------------------------------------------------------------------
(* What a search with options o finds in a list after a token. *)
Picked(o, list, token) == Among(list, {r \in ToSet(list) : Follows(r, token) /\ Wanted(r, o)})

(* Such a list is newest first and has the runs that are asked for.          *)
LEMMA PickedIs ==
  ASSUME NEW o, NEW list \in Seq(AllRuns), NewestFirst(list), NEW token
  PROVE  /\ Picked(o, list, token) \in Seq(AllRuns) /\ NewestFirst(Picked(o, list, token))
         /\ ToSet(Picked(o, list, token)) = {r \in ToSet(list) : Follows(r, token) /\ Wanted(r, o)}
<1> DEFINE S == {r \in ToSet(list) : Follows(r, token) /\ Wanted(r, o)}
<1>1. ToSet(list) \cap S = S
  OBVIOUS
<1>2. /\ Among(list, S) \in Seq(AllRuns) /\ NewestFirst(Among(list, S))
      /\ ToSet(Among(list, S)) = ToSet(list) \cap S
  <2> HIDE DEF S
  <2> QED BY AmongFacts
<1>3. Picked(o, list, token) = Among(list, S)
  BY DEF Picked
<1> HIDE DEF S
<1>4. ToSet(Picked(o, list, token)) = S
  BY <1>1, <1>2, <1>3
<1> QED BY <1>2, <1>3, <1>4 DEF S

(* A search goes on from the token of a run of its list with what is left of *)
(* the list, whatever newer runs there are by then.                          *)
LEMMA PickedRest ==
  ASSUME NEW o, NEW token \in Nat,
         NEW list \in Seq(AllRuns), NewestFirst(list),
         NEW old \in Seq(AllRuns), NewestFirst(old),
         ToSet(old) \subseteq ToSet(list),
         \A r \in ToSet(list) \ ToSet(old), a \in ToSet(old) : r.id > a.id,
         NEW k \in 1..Len(Picked(o, old, token))
  PROVE  Picked(o, list, Picked(o, old, token)[k].id)
           = SubSeq(Picked(o, old, token), k + 1, Len(Picked(o, old, token)))
<1> DEFINE W == Picked(o, old, token)
           id == W[k].id
           rest == SubSeq(W, k + 1, Len(W))
<1>1. /\ W \in Seq(AllRuns) /\ NewestFirst(W)
      /\ ToSet(W) = {r \in ToSet(old) : Follows(r, token) /\ Wanted(r, o)}
  BY PickedIs
<1>2. /\ Picked(o, list, id) \in Seq(AllRuns) /\ NewestFirst(Picked(o, list, id))
      /\ ToSet(Picked(o, list, id)) = {r \in ToSet(list) : Follows(r, id) /\ Wanted(r, o)}
  <2> HIDE DEF id
  <2> QED BY PickedIs
<1>3. DOMAIN W = 1..Len(W) /\ Len(W) \in Nat
  <2> HIDE DEF W
  <2> QED BY <1>1, LenProperties
<1>4. W[k] \in ToSet(W) /\ W[k] \in AllRuns /\ id \in Nat /\ id # NoToken
  <2>0. k \in 1..Len(W)
    OBVIOUS
  <2>1. W[k] \in ToSet(W)
    <3> HIDE DEF W
    <3> QED BY <1>3, <2>0 DEF ToSet
  <2>2. W[k] \in AllRuns
    <3> HIDE DEF W
    <3> QED BY <1>1, <2>0, ElementOfSeq
  <2> QED BY <2>1, <2>2, RunIds
<1>5. /\ rest \in Seq(AllRuns) /\ NewestFirst(rest)
      /\ ToSet(rest) = {r \in ToSet(W) : r.id < id}
  <2>1. k \in 0..Len(W) /\ k > 0
    BY <1>3
  <2> HIDE DEF W
  <2> QED BY <1>1, <2>1, RestOf
<1> HIDE DEF W, rest
<1>6. \A r \in AllRuns : r.id \in Nat
  BY RunIds
<1>7. \A r \in ToSet(list) : r \in AllRuns
  <2>1. \A i \in DOMAIN list : list[i] \in AllRuns
    BY LenProperties, ElementOfSeq
  <2> QED BY <2>1 DEF ToSet
<1>8. W[k] \in ToSet(old) /\ Follows(W[k], token)
  BY <1>1, <1>4
<1>9. ASSUME NEW r \in ToSet(list), r.id < id
      PROVE  r \in ToSet(old) /\ Follows(r, token)
  <2>1. r \in ToSet(old)
    BY <1>4, <1>6, <1>7, <1>8, <1>9
  <2>2. Follows(r, token)
    BY <1>4, <1>6, <1>7, <1>8, <1>9 DEF Follows
  <2> QED BY <2>1, <2>2
<1>10. \A r : Follows(r, id) <=> r.id < id
  BY <1>4 DEF Follows
<1>11. ToSet(Picked(o, list, id)) = ToSet(rest)
  <2> HIDE DEF id
  <2> QED BY <1>1, <1>2, <1>5, <1>9, <1>10
<1> HIDE DEF id
<1>12. Picked(o, list, id) = rest
  BY <1>2, <1>5, <1>11, SameRuns
<1> QED BY <1>12 DEF W, id, rest

(* A page of what is left after k runs, and the tokens it may come with.     *)
LEMMA PageFacts ==
  ASSUME NEW w \in Seq(AllRuns), NewestFirst(w), NEW k \in 0..Len(w)
  PROVE  LET listed == SubSeq(w, k + 1, Len(w))
             page == PageOf(listed)
         IN /\ page \in Seq(AllRuns) /\ k + Len(page) <= Len(w) /\ Len(listed) = Len(w) - k
            /\ \A i \in 1..Len(page) : page[i] = w[k + i]
            /\ page = <<>> => k = Len(w)
            /\ \A token \in TokensAfter(listed) :
                 IF token = NoToken THEN k + Len(page) = Len(w)
                 ELSE Len(page) > 0 /\ token = w[k + Len(page)].id
<1> DEFINE listed == SubSeq(w, k + 1, Len(w))
           page == PageOf(listed)
           n == Len(w) - k
           p == IF PageSize <= n THEN PageSize ELSE n
<1>1. Len(w) \in Nat /\ k \in Nat /\ k <= Len(w) /\ n \in Nat
  <2>1. Len(w) \in Nat
    BY LenProperties
  <2> QED BY <2>1
<1>2. PageSize \in Nat \ {0}
  BY SearchConstantsOK, Zenon DEF SearchConstantsOK
<1>3. /\ listed \in Seq(AllRuns) /\ Len(listed) = n
      /\ \A i \in 1..n : listed[i] = w[k + i]
  BY RestOf
<1> HIDE DEF listed, n
<1>4. Min({PageSize, n}) = p
  BY <1>1, <1>2, MinOfTwo
<1>5. page = SubSeq(listed, 1, p)
  BY <1>3, <1>4 DEF PageOf
<1>6. p \in Nat /\ p <= n
  BY <1>1, <1>2
<1> HIDE DEF p, page
<1>7. \A i \in 1..p : listed[i] \in AllRuns
  <2>1. \A i \in 1..p : i \in 1..Len(listed)
    BY <1>1, <1>3, <1>6
  <2> QED BY <1>3, <2>1, ElementOfSeq
<1>8. /\ page \in Seq(AllRuns) /\ Len(page) = p
      /\ \A i \in 1..p : page[i] = listed[i]
  <2>1. 1 \in Int /\ p \in Int
    BY <1>6
  <2>2. /\ page \in Seq(AllRuns)
        /\ Len(page) = IF 1 <= p THEN p - 1 + 1 ELSE 0
        /\ \A i \in 1 .. (p - 1 + 1) : page[i] = listed[1 + i - 1]
    BY <1>5, <1>7, <2>1, SubSeqProperties
  <2>3. p - 1 + 1 = p /\ \A i \in 1..p : 1 + i - 1 = i
    BY <1>6
  <2>4. Len(page) = p
    BY <1>6, <2>2
  <2> QED BY <2>2, <2>3, <2>4
<1>9. \A i \in 1..p : page[i] = w[k + i]
  <2>1. \A i \in 1..p : i \in 1..n
    BY <1>1, <1>6
  <2> QED BY <1>3, <1>8, <2>1
<1>10. page = <<>> => k = Len(w)
  <2>1. page = <<>> => p = 0
    BY <1>8, EmptySeq
  <2> QED BY <1>1, <1>2, <2>1 DEF p, n
<1>11. ASSUME NEW token \in TokensAfter(listed)
       PROVE  IF token = NoToken THEN k + p = Len(w) ELSE p > 0 /\ token = w[k + p].id
  <2>1. n >= PageSize => PageSize \in 1..n /\ p = PageSize /\ listed[PageSize] = w[k + p]
    BY <1>1, <1>2, <1>3 DEF p
  <2>2. w[k + p].id # NoToken \/ p = 0
    <3>1. p # 0 => k + p \in 1..Len(w)
      BY <1>1, <1>6 DEF n
    <3>2. p # 0 => w[k + p] \in AllRuns
      BY <3>1, ElementOfSeq
    <3> QED BY <3>2, RunIds
  <2>3. CASE n > PageSize
    <3>1. token = w[k + p].id
      BY <1>1, <1>2, <1>3, <2>1, <2>3 DEF TokensAfter
    <3> QED BY <1>2, <2>1, <2>2, <2>3, <3>1, <1>1
  <2>4. CASE n = PageSize
    <3>1. token = w[k + p].id \/ token = NoToken
      BY <1>1, <1>2, <1>3, <2>1, <2>4 DEF TokensAfter
    <3>2. k + p = Len(w) /\ p > 0
      BY <1>1, <1>2, <2>4 DEF n, p
    <3> QED BY <3>1, <3>2
  <2>5. CASE n < PageSize
    <3>1. token = NoToken
      BY <1>1, <1>2, <1>3, <2>5 DEF TokensAfter
    <3>2. k + p = Len(w)
      BY <1>1, <1>2, <2>5 DEF n, p
    <3> QED BY <3>1, <3>2
  <2> QED BY <1>1, <1>2, <2>3, <2>4, <2>5
<1>12. k + p <= Len(w)
  BY <1>1, <1>6 DEF n
<1> QED BY <1>3, <1>8, <1>9, <1>10, <1>11, <1>12 DEF listed, page, n
-----------------------------------------------------------------------------
(* The invariant of a search. *)
Rows == [index : Nat, id : Nat]
Pages == [rows : Seq(Rows), token : Nat, next : Nat]

RunsAreListed ==
  /\ options \in Searches
  /\ runs \in Seq(AllRuns) /\ NewestFirst(runs)
  /\ starting \in 0..Len(NewRuns)
  /\ \A r \in ToSet(runs), j \in (starting + 1)..Len(NewRuns) : r.id < NewRuns[j].id

\* The runs at the first answer are still there, under those that started since.
SnapshotIsOlder ==
  /\ asOf \in Seq(AllRuns) /\ NewestFirst(asOf)
  /\ ToSet(asOf) \subseteq ToSet(runs)
  /\ \A r \in ToSet(runs) \ ToSet(asOf), a \in ToSet(asOf) : r.id > a.id

ResultTypes ==
  /\ rows \in Seq(Rows) /\ pages \in Seq(Pages)
  /\ cursor \in Nat /\ final \in Nat /\ from \in Nat /\ cut \in Nat
  /\ calling = "idle" => rows = <<>> /\ final = NoToken /\ from = NoToken

Fetching == calling \in {"pages", "simple"}

FilterIsRight ==
  Fetching => \A r \in AllRuns : (\A p \in filter : Satisfies(r, p)) <=> Wanted(r, options)

AtTheStart ==
  Fetching => /\ calling = "pages" <=> RichSearch(options)
              /\ cut = 0 /\ ~hole
              /\ pages = <<>> => rows = <<>> /\ cursor = from
              /\ calling = "simple" => pages = <<>>

Told(wanted) == \A i \in DOMAIN rows : i <= Len(wanted) /\ rows[i] = [index |-> i, id |-> wanted[i].id]
PageRows == [i \in DOMAIN pages |-> pages[i].rows]

\* The rows so far are the first that are wanted, and the cursor names the last.
PagesSoFar ==
  calling = "pages" =>
    LET wanted == WantedAfter(from)
    IN /\ Len(rows) < Limit(options) /\ FlattenSeq(PageRows) = rows
       /\ Told(wanted)
       /\ pages # <<>> => Len(rows) \in 1..Len(wanted) /\ cursor = wanted[Len(rows)].id

TokenIsOfLast ==
  calling = "shown" /\ final # NoToken =>
    LET wanted == WantedAfter(from)
        past == Len(rows) + cut
    IN past \in 1..Len(wanted) /\ final = wanted[past].id

EarlierAreNewer ==
  /\ before \subseteq Nat
  /\ IF from = NoToken THEN before = {} ELSE \A id \in before : id >= from

SearchInv == /\ RunsAreListed /\ SnapshotIsOlder /\ ResultTypes
             /\ FilterIsRight /\ AtTheStart /\ PagesSoFar
             /\ TokenIsOfLast /\ EarlierAreNewer /\ SearchIsExact
-----------------------------------------------------------------------------
(* Every step keeps the invariant. *)

(* The filter of a search, built or given as a query.                        *)
LEMMA FilterMeans ==
  ASSUME NEW o \in Searches, RichSearch(o), NEW r
  PROVE  (\A p \in IF o.query # {} THEN o.query
                   ELSE BuildFilter(o, IF IsMe(o.created_by) THEN WhoAmI ELSE o.created_by) : Satisfies(r, p))
         <=> Wanted(r, o)
<1>1. OptionsOK(o)
  BY SearchConstantsOK, Zenon DEF SearchConstantsOK
<1>2. CASE o.query # {}
  BY <1>2 DEF Wanted
<1>3. CASE o.query = {}
  <2>1. Wanted(r, o) <=> Asked(r, o)
    BY <1>3 DEF Wanted
  <2> QED BY <1>1, <1>3, <2>1, BuiltFilterMeans
<1> QED BY <1>2, <1>3

LEMMA RunOfList ==
  ASSUME NEW list \in Seq(AllRuns), NEW r \in ToSet(list)
  PROVE  r \in AllRuns /\ r.id \in Nat
<1>1. PICK i \in DOMAIN list : r = list[i]
  BY DEF ToSet
<1>2. i \in 1..Len(list)
  BY LenProperties
<1>3. r \in AllRuns
  BY <1>1, <1>2, ElementOfSeq
<1> QED BY <1>3, RunIds

(* What the server lists for the filter is what the options ask for.         *)
LEMMA ListedIsPicked ==
  ASSUME RunsAreListed, FilterIsRight, Fetching
  PROVE  Listed(filter, cursor) = Picked(options, runs, cursor)
<1> DEFINE S == {r \in ToSet(runs) : Follows(r, cursor) /\ \A p \in filter : Satisfies(r, p)}
           a == Among(runs, S)
           b == Picked(options, runs, cursor)
<1>1. runs \in Seq(AllRuns) /\ NewestFirst(runs)
  BY DEF RunsAreListed
<1>2. a \in Seq(AllRuns) /\ NewestFirst(a) /\ ToSet(a) = ToSet(runs) \cap S
  <2> HIDE DEF S
  <2> QED BY <1>1, AmongFacts
<1>3. /\ b \in Seq(AllRuns) /\ NewestFirst(b)
      /\ ToSet(b) = {r \in ToSet(runs) : Follows(r, cursor) /\ Wanted(r, options)}
  BY <1>1, PickedIs
<1>4. \A r \in ToSet(runs) : (\A p \in filter : Satisfies(r, p)) <=> Wanted(r, options)
  <2>1. \A r \in ToSet(runs) : r \in AllRuns
    BY <1>1, RunOfList
  <2>2. \A r \in AllRuns : (\A p \in filter : Satisfies(r, p)) <=> Wanted(r, options)
    BY DEF FilterIsRight
  <2> QED BY <2>1, <2>2
<1>5. S = {r \in ToSet(runs) : Follows(r, cursor) /\ Wanted(r, options)}
  BY <1>4
<1>6. ToSet(a) = ToSet(b)
  <2>1. ToSet(runs) \cap S = S
    OBVIOUS
  <2> HIDE DEF S, a, b
  <2> QED BY <1>2, <1>3, <1>5, <2>1
<1>7. a = b
  <2> HIDE DEF S, a, b
  <2> QED BY <1>2, <1>3, <1>6, SameRuns
<1> QED BY <1>7 DEF Listed

(* While pages are fetched, what the server lists after the cursor is what   *)
(* is left of the runs that were wanted when the call began.                 *)
LEMMA WhatIsLeft ==
  ASSUME SearchInv, calling = "pages",
         NEW old, old = IF pages = <<>> THEN runs ELSE asOf,
         NEW w, w = Picked(options, old, from)
  PROVE  /\ old \in Seq(AllRuns) /\ NewestFirst(old) /\ ToSet(old) \subseteq ToSet(runs)
         /\ \A r \in ToSet(runs) \ ToSet(old), a \in ToSet(old) : r.id > a.id
         /\ w \in Seq(AllRuns) /\ NewestFirst(w)
         /\ Len(rows) \in 0..Len(w) /\ Told(w)
         /\ Listed(filter, cursor) = SubSeq(w, Len(rows) + 1, Len(w))
<1>1. Fetching /\ RunsAreListed /\ FilterIsRight
  BY DEF SearchInv, Fetching
<1>2. Listed(filter, cursor) = Picked(options, runs, cursor)
  BY <1>1, ListedIsPicked
<1>3. runs \in Seq(AllRuns) /\ NewestFirst(runs)
  BY DEF SearchInv, RunsAreListed
<1>4. CASE pages = <<>>
  <2>1. old = runs /\ rows = <<>> /\ cursor = from
    BY <1>1, <1>4 DEF SearchInv, AtTheStart
  <2>2. w \in Seq(AllRuns) /\ NewestFirst(w)
    BY <1>3, <2>1, PickedIs
  <2>3. Len(w) \in Nat /\ Len(rows) = 0 /\ SubSeq(w, 1, Len(w)) = w
    BY <2>1, <2>2, LenProperties, SubSeqFull
  <2>4. Listed(filter, cursor) = SubSeq(w, Len(rows) + 1, Len(w))
    BY <1>2, <2>1, <2>3
  <2>5. Told(w)
    BY <2>1 DEF Told
  <2> QED BY <1>3, <2>1, <2>2, <2>3, <2>4, <2>5
<1>5. CASE pages # <<>>
  <2>1. old = asOf /\ WantedAfter(from) = w
    BY <1>5 DEF WantedAfter, Picked
  <2>2. /\ asOf \in Seq(AllRuns) /\ NewestFirst(asOf) /\ ToSet(asOf) \subseteq ToSet(runs)
        /\ \A r \in ToSet(runs) \ ToSet(asOf), a \in ToSet(asOf) : r.id > a.id
    BY DEF SearchInv, SnapshotIsOlder
  <2>3. w \in Seq(AllRuns) /\ NewestFirst(w)
    BY <2>1, <2>2, PickedIs
  <2>4. Told(w) /\ Len(rows) \in 1..Len(w) /\ cursor = w[Len(rows)].id
    BY <1>5, <2>1 DEF SearchInv, PagesSoFar
  <2>5. from \in Nat
    BY DEF SearchInv, ResultTypes
  <2>6. Picked(options, runs, cursor) = SubSeq(w, Len(rows) + 1, Len(w))
    <3> DEFINE v == Picked(options, asOf, from)
    <3>1. w = v
      BY <2>1
    <3>2. Len(rows) \in 1..Len(v)
      BY <2>4, <3>1
    <3>3. Picked(options, runs, v[Len(rows)].id) = SubSeq(v, Len(rows) + 1, Len(v))
      BY <1>3, <2>2, <2>5, <3>2, PickedRest
    <3> QED BY <2>4, <3>1, <3>3
  <2>7. Len(rows) \in 0..Len(w)
    BY <2>3, <2>4, LenProperties
  <2> QED BY <1>2, <2>1, <2>2, <2>3, <2>4, <2>6, <2>7
<1> QED BY <1>4, <1>5

(* The server has a history, and no call was made.                           *)
LEMMA SearchStarts == SearchInit => SearchInv
<1> SUFFICES ASSUME SearchInit PROVE SearchInv
  OBVIOUS
<1>1. /\ options \in Searches /\ runs \in Histories /\ starting = 0 /\ calling = "idle"
      /\ cursor = NoToken /\ rows = <<>> /\ pages = <<>> /\ final = NoToken
      /\ from = NoToken /\ asOf = <<>> /\ cut = 0 /\ before = {}
  BY DEF SearchInit
<1>2. /\ Histories \subseteq Seq(AllRuns) /\ NewRuns \in Seq(AllRuns)
      /\ \A h \in Histories : /\ NewestFirst(h)
                              /\ \A i \in DOMAIN h, j \in DOMAIN NewRuns : h[i].id < NewRuns[j].id
  BY SearchConstantsOK, Zenon DEF SearchConstantsOK
<1>3. Len(NewRuns) \in Nat /\ DOMAIN NewRuns = 1..Len(NewRuns)
  BY <1>2, LenProperties
<1>4. RunsAreListed
  <2>1. 0 \in 0..Len(NewRuns) /\ (0 + 1)..Len(NewRuns) = DOMAIN NewRuns
    BY <1>3
  <2>2. \A r \in ToSet(runs), j \in DOMAIN NewRuns : r.id < NewRuns[j].id
    BY <1>1, <1>2 DEF ToSet
  <2> QED BY <1>1, <1>2, <2>1, <2>2 DEF RunsAreListed
<1>5. SnapshotIsOlder
  BY <1>1 DEF SnapshotIsOlder, NewestFirst, ToSet
<1>6. ResultTypes
  BY <1>1 DEF ResultTypes, NoToken
<1>7. FilterIsRight /\ AtTheStart /\ PagesSoFar /\ TokenIsOfLast /\ SearchIsExact
  BY <1>1 DEF FilterIsRight, AtTheStart, PagesSoFar, TokenIsOfLast, SearchIsExact, Fetching
<1>8. EarlierAreNewer
  BY <1>1 DEF EarlierAreNewer
<1> QED BY <1>4, <1>5, <1>6, <1>7, <1>8 DEF SearchInv

(* A run starts: it is newer than all there are.                             *)
LEMMA RunStarts == SearchInv /\ StartRun => SearchInv'
<1> SUFFICES ASSUME SearchInv, StartRun PROVE SearchInv'
  OBVIOUS
<1> DEFINE x == NewRuns[starting + 1]
<1>1. /\ starting < Len(NewRuns) /\ starting' = starting + 1
      /\ runs' = <<x>> \o runs
      /\ UNCHANGED <<options, calling, filter, cursor, rows, pages, final, from, asOf, cut, hole, before>>
  BY DEF StartRun, resultVars, historyVars
<1>2. /\ options \in Searches /\ runs \in Seq(AllRuns) /\ NewestFirst(runs)
      /\ starting \in 0..Len(NewRuns)
      /\ \A r \in ToSet(runs), j \in (starting + 1)..Len(NewRuns) : r.id < NewRuns[j].id
  BY DEF SearchInv, RunsAreListed
<1>3. /\ NewRuns \in Seq(AllRuns)
      /\ \A i \in DOMAIN NewRuns, j \in DOMAIN NewRuns : i < j => NewRuns[i].id < NewRuns[j].id
  BY SearchConstantsOK, Zenon DEF SearchConstantsOK
<1>4. Len(NewRuns) \in Nat /\ DOMAIN NewRuns = 1..Len(NewRuns)
  BY <1>3, LenProperties
<1>5. /\ starting + 1 \in 1..Len(NewRuns) /\ x \in AllRuns /\ x.id \in Nat
      /\ \A j \in (starting + 2)..Len(NewRuns) : x.id < NewRuns[j].id
  <2>1. starting + 1 \in 1..Len(NewRuns)
    BY <1>1, <1>2, <1>4
  <2>2. x \in AllRuns
    BY <1>3, <2>1, ElementOfSeq
  <2>3. \A j \in (starting + 2)..Len(NewRuns) : j \in 1..Len(NewRuns) /\ starting + 1 < j
    BY <1>2, <1>4
  <2> QED BY <1>3, <1>4, <2>1, <2>2, <2>3, RunIds
<1>6. \A r \in ToSet(runs) : r.id < x.id /\ r.id \in Nat
  <2>1. starting + 1 \in (starting + 1)..Len(NewRuns)
    BY <1>2, <1>5
  <2> QED BY <1>2, <2>1, RunOfList
<1> HIDE DEF x
<1>7. /\ runs' \in Seq(AllRuns) /\ Len(runs) \in Nat /\ DOMAIN runs = 1..Len(runs)
      /\ DOMAIN runs' = 1..(Len(runs) + 1) /\ runs'[1] = x
      /\ \A i \in 2..(Len(runs) + 1) : i - 1 \in DOMAIN runs /\ runs'[i] = runs[i - 1]
  <2> DEFINE one == <<x>>
  <2>1. one \in Seq(AllRuns) /\ Len(one) = 1 /\ one[1] = x
    BY <1>5
  <2>2. Len(runs) \in Nat /\ DOMAIN runs = 1..Len(runs)
    BY <1>2, LenProperties
  <2>3. runs' = one \o runs
    BY <1>1
  <2> HIDE DEF one
  <2> DEFINE both == one \o runs
  <2>7. /\ both \in Seq(AllRuns) /\ Len(both) = Len(one) + Len(runs)
         /\ \A i \in 1 .. Len(one) + Len(runs) : both[i] =
               IF i <= Len(one) THEN one[i] ELSE runs[i - Len(one)]
    BY <1>2, <2>1, ConcatProperties
  <2> HIDE DEF both
  <2>4. /\ runs' \in Seq(AllRuns) /\ Len(runs') = 1 + Len(runs)
        /\ \A i \in 1..(1 + Len(runs)) : runs'[i] = IF i <= 1 THEN one[i] ELSE runs[i - 1]
    <3>1. runs' = both
      BY <2>3 DEF both
    <3> QED BY <2>1, <2>7, <3>1
  <2>5. DOMAIN runs' = 1..(Len(runs) + 1)
    BY <2>2, <2>4, LenProperties
  <2>6. 1 \in 1..(1 + Len(runs)) /\ \A i \in 2..(Len(runs) + 1) : i \in 1..(1 + Len(runs)) /\ ~(i <= 1) /\ i - 1 \in 1..Len(runs)
    BY <2>2
  <2> QED BY <2>1, <2>2, <2>4, <2>5, <2>6
<1>8. ToSet(runs') = ToSet(runs) \cup {x}
  <2>1. ASSUME NEW i \in DOMAIN runs' PROVE runs'[i] \in ToSet(runs) \cup {x}
    <3>1. i = 1 \/ i \in 2..(Len(runs) + 1)
      BY <1>7
    <3> QED BY <1>7, <3>1 DEF ToSet
  <2>2. ASSUME NEW i \in DOMAIN runs PROVE runs[i] \in ToSet(runs')
    <3>1. i + 1 \in 2..(Len(runs) + 1) /\ i + 1 \in DOMAIN runs' /\ (i + 1) - 1 = i
      BY <1>7
    <3>2. runs'[i + 1] = runs[i]
      BY <1>7, <3>1
    <3> QED BY <3>1, <3>2 DEF ToSet
  <2>3. x \in ToSet(runs')
    <3>1. 1 \in DOMAIN runs'
      BY <1>7
    <3> QED BY <1>7, <3>1 DEF ToSet
  <2> QED BY <2>1, <2>2, <2>3 DEF ToSet
<1>9. NewestFirst(runs')
  <2>1. ASSUME NEW i \in DOMAIN runs', NEW j \in DOMAIN runs', i < j
        PROVE  runs'[i].id > runs'[j].id
    <3>1. j \in 2..(Len(runs) + 1) /\ (i = 1 \/ i \in 2..(Len(runs) + 1))
      BY <1>7, <2>1
    <3>2. CASE i = 1
      <4>1. runs'[j] \in ToSet(runs) /\ runs'[i] = x
        BY <1>7, <3>1, <3>2 DEF ToSet
      <4> QED BY <1>5, <1>6, <4>1
    <3>3. CASE i \in 2..(Len(runs) + 1)
      <4>1. /\ i - 1 \in DOMAIN runs /\ j - 1 \in DOMAIN runs /\ i - 1 < j - 1
            /\ runs'[i] = runs[i - 1] /\ runs'[j] = runs[j - 1]
        BY <1>7, <2>1, <3>1, <3>3
      <4> QED BY <1>2, <4>1 DEF NewestFirst
    <3> QED BY <3>1, <3>2, <3>3
  <2> QED BY <2>1 DEF NewestFirst
<1>10. RunsAreListed'
  <2>1. starting' \in 0..Len(NewRuns)
    BY <1>1, <1>2, <1>4
  <2>2. \A r \in ToSet(runs'), j \in (starting' + 1)..Len(NewRuns) : r.id < NewRuns[j].id
    <3>1. \A j \in (starting' + 1)..Len(NewRuns) :
             j \in (starting + 1)..Len(NewRuns) /\ j \in (starting + 2)..Len(NewRuns)
      BY <1>1, <1>2, <1>4
    <3> QED BY <1>2, <1>5, <1>8, <3>1
  <2> QED BY <1>1, <1>2, <1>7, <1>9, <2>1, <2>2 DEF RunsAreListed
<1>11. SnapshotIsOlder'
  <2>1. /\ asOf \in Seq(AllRuns) /\ NewestFirst(asOf) /\ ToSet(asOf) \subseteq ToSet(runs)
        /\ \A r \in ToSet(runs) \ ToSet(asOf), a \in ToSet(asOf) : r.id > a.id
    BY DEF SearchInv, SnapshotIsOlder
  <2>2. \A a \in ToSet(asOf) : x.id > a.id
    BY <1>5, <1>6, <2>1
  <2> QED BY <1>1, <1>8, <2>1, <2>2 DEF SnapshotIsOlder
<1>12. /\ ResultTypes' /\ FilterIsRight' /\ AtTheStart' /\ PagesSoFar' /\ TokenIsOfLast'
       /\ EarlierAreNewer' /\ SearchIsExact'
  <2>1. ResultTypes' /\ FilterIsRight' /\ AtTheStart' /\ EarlierAreNewer'
    BY <1>1 DEF SearchInv, ResultTypes, FilterIsRight, AtTheStart, EarlierAreNewer, Fetching
  <2>2. PagesSoFar' /\ TokenIsOfLast'
    BY <1>1 DEF SearchInv, PagesSoFar, TokenIsOfLast, Told, PageRows, WantedAfter
  <2>3. SearchIsExact'
    BY <1>1 DEF SearchInv, SearchIsExact, WantedAfter
  <2> QED BY <2>1, <2>2, <2>3
<1> QED BY <1>10, <1>11, <1>12 DEF SearchInv

(* What a call begins with, whether it is a search or a plain listing.       *)
LEMMA CallBegins ==
  ASSUME SearchInv, BeginCall, calling' \in {"pages", "simple"}
  PROVE  RunsAreListed' /\ SnapshotIsOlder' /\ ResultTypes' /\ EarlierAreNewer'
<1>1. /\ CanBegin /\ cursor' = final /\ from' = final
      /\ rows' = <<>> /\ pages' = <<>> /\ final' = NoToken /\ asOf' = <<>> /\ cut' = 0
      /\ before' = before \union {rows[i].id : i \in DOMAIN rows}
      /\ UNCHANGED <<options, runs, starting>>
  BY DEF BeginCall
<1>2. /\ final \in Nat /\ from \in Nat /\ cut \in Nat /\ rows \in Seq(Rows)
      /\ calling = "idle" => rows = <<>> /\ final = NoToken /\ from = NoToken
  BY DEF SearchInv, ResultTypes
<1>3. RunsAreListed'
  BY <1>1 DEF SearchInv, RunsAreListed
<1>4. SnapshotIsOlder'
  <2>1. asOf' \in Seq(AllRuns) /\ NewestFirst(asOf') /\ ToSet(asOf') = {}
    BY <1>1 DEF NewestFirst, ToSet
  <2> QED BY <2>1 DEF SnapshotIsOlder
<1>5. ResultTypes'
  <2>1. <<>> \in Seq(Rows) /\ <<>> \in Seq(Pages) /\ 0 \in Nat /\ NoToken \in Nat
    BY DEF NoToken
  <2>2. calling' # "idle"
    OBVIOUS
  <2> QED BY <1>1, <1>2, <2>1, <2>2 DEF ResultTypes
<1>6. EarlierAreNewer'
  <2>1. /\ before \subseteq Nat
        /\ IF from = NoToken THEN before = {} ELSE \A id \in before : id >= from
    BY DEF SearchInv, EarlierAreNewer
  <2>0. before' \subseteq Nat
    <3>1. \A i \in DOMAIN rows : rows[i].id \in Nat
      <4>1. \A i \in DOMAIN rows : rows[i] \in Rows
        BY <1>2, LenProperties, ElementOfSeq
      <4>2. \A row \in Rows : row.id \in Nat
        BY DEF Rows
      <4> QED BY <4>1, <4>2
    <3> QED BY <1>1, <2>1, <3>1
  <2>2. CASE calling = "idle"
    <3>1. DOMAIN rows = {}
      BY <1>2, <2>2
    <3>2. before = {}
      BY <1>2, <2>1, <2>2
    <3>3. before' = {} /\ from' = NoToken
      BY <1>1, <1>2, <2>2, <3>1, <3>2
    <3> QED BY <2>0, <3>3 DEF EarlierAreNewer
  <2>3. CASE calling = "shown" /\ final # NoToken
    <3> DEFINE w == WantedAfter(from)
               past == Len(rows) + cut
    <3>1. past \in 1..Len(w) /\ final = w[past].id
      BY <2>3 DEF SearchInv, TokenIsOfLast
    <3>2. \A i \in DOMAIN rows : i <= Len(w) /\ rows[i] = [index |-> i, id |-> w[i].id]
      BY <2>3 DEF SearchInv, SearchIsExact
    <3>3. asOf \in Seq(AllRuns) /\ NewestFirst(asOf)
      BY DEF SearchInv, SnapshotIsOlder
    <3>4. /\ w \in Seq(AllRuns) /\ NewestFirst(w)
          /\ ToSet(w) = {r \in ToSet(asOf) : Follows(r, from) /\ Wanted(r, options)}
      <4>1. w = Picked(options, asOf, from)
        BY DEF WantedAfter, Picked
      <4> HIDE DEF w
      <4> QED BY <3>3, <4>1, PickedIs
    <3> HIDE DEF w
    <3>5. /\ DOMAIN w = 1..Len(w) /\ Len(w) \in Nat
          /\ DOMAIN rows = 1..Len(rows) /\ Len(rows) \in Nat
      BY <1>2, <3>4, LenProperties
    <3>6. \A i \in 1..Len(w) : w[i].id \in Nat
      BY <3>4, ElementOfSeq, RunIds
    <3>7. \A i \in DOMAIN rows : rows[i].id >= final
      <4> SUFFICES ASSUME NEW i \in DOMAIN rows PROVE rows[i].id >= final
        OBVIOUS
      <4>1. i \in 1..Len(w) /\ i <= past /\ rows[i].id = w[i].id
        BY <1>2, <3>2, <3>5
      <4>2. i < past => w[i].id > w[past].id
        BY <3>1, <3>4, <3>5, <4>1 DEF NewestFirst
      <4> QED BY <3>1, <3>6, <4>1, <4>2
    <3>8. from # NoToken => from > final
      <4>1. w[past] \in ToSet(w)
        BY <3>1, <3>5 DEF ToSet
      <4>2. Follows(w[past], from)
        BY <3>4, <4>1
      <4> QED BY <1>2, <3>1, <3>6, <4>2 DEF Follows
    <3>9. \A id \in before : id >= final
      <4>1. CASE from = NoToken
        BY <2>1, <4>1
      <4>2. CASE from # NoToken
        <5> SUFFICES ASSUME NEW id \in before PROVE id >= final
          OBVIOUS
        <5>1. id >= from /\ from > final
          BY <2>1, <3>8, <4>2
        <5>2. id \in Int
          BY <2>1
        <5> QED BY <1>2, <5>1, <5>2
      <4> QED BY <4>1, <4>2
    <3>10. \A id \in before' : id >= from'
      BY <1>1, <3>7, <3>9
    <3> QED BY <1>1, <2>0, <2>3, <3>10 DEF EarlierAreNewer
  <2> QED BY <1>1, <2>2, <2>3 DEF CanBegin
<1> QED BY <1>3, <1>4, <1>5, <1>6

(* A plain listing begins with the filter of its options.                    *)
LEMMA SimpleBegins == SearchInv /\ BeginSimple => SearchInv'
<1> SUFFICES ASSUME SearchInv, BeginSimple PROVE SearchInv'
  OBVIOUS
<1>1. /\ ~RichSearch(options) /\ BeginCall /\ calling' = "simple"
      /\ filter' = options.filter_query /\ options' = options
      /\ cursor' = final /\ from' = final /\ rows' = <<>> /\ pages' = <<>> /\ cut' = 0 /\ ~hole'
  BY DEF BeginSimple, BeginCall
<1>2. RunsAreListed' /\ SnapshotIsOlder' /\ ResultTypes' /\ EarlierAreNewer'
  BY <1>1, CallBegins
<1>3. FilterIsRight'
  BY <1>1 DEF FilterIsRight, Wanted
<1>4. AtTheStart'
  <2>1. ~RichSearch(options')
    BY <1>1
  <2> QED BY <1>1, <2>1 DEF AtTheStart
<1>5. PagesSoFar' /\ TokenIsOfLast' /\ SearchIsExact'
  BY <1>1 DEF PagesSoFar, TokenIsOfLast, SearchIsExact
<1> QED BY <1>2, <1>3, <1>4, <1>5 DEF SearchInv

(* A search begins without rows, at the token of the last result.            *)
LEMMA SearchBegins == SearchInv /\ BeginSearch => SearchInv'
<1> SUFFICES ASSUME SearchInv, BeginSearch PROVE SearchInv'
  OBVIOUS
<1>1. /\ RichSearch(options) /\ BeginCall /\ calling' = "pages" /\ options' = options
      /\ filter' = IF options.query # {} THEN options.query
                   ELSE BuildFilter(options, IF IsMe(options.created_by) THEN WhoAmI ELSE options.created_by)
      /\ cursor' = final /\ from' = final /\ rows' = <<>> /\ pages' = <<>> /\ cut' = 0 /\ ~hole'
  BY DEF BeginSearch, BeginCall
<1>2. RunsAreListed' /\ SnapshotIsOlder' /\ ResultTypes' /\ EarlierAreNewer'
  BY <1>1, CallBegins
<1>3. options \in Searches
  BY DEF SearchInv, RunsAreListed
<1>4. FilterIsRight'
  <2>1. \A r : (\A p \in filter' : Satisfies(r, p)) <=> Wanted(r, options)
    BY <1>1, <1>3, FilterMeans
  <2> QED BY <1>1, <2>1 DEF FilterIsRight
<1>5. AtTheStart'
  <2>1. RichSearch(options')
    BY <1>1
  <2> QED BY <1>1, <2>1 DEF AtTheStart
<1>6. PagesSoFar'
  <2>1. Len(rows') < Limit(options')
    <3>1. Limit(options) \in Nat \ {0} /\ Len(rows') = 0
      BY <1>1, <1>3, LimitIsPositive
    <3> QED BY <1>1, <3>1
  <2>2. FlattenSeq(PageRows') = rows'
    <3>1. PageRows' = <<>>
      BY <1>1 DEF PageRows
    <3>2. FlattenSeq(<<>>) = <<>>
      BY EmptySeq DEF FlattenSeq
    <3> QED BY <1>1, <3>1, <3>2
  <2>3. \A w : Told(w)'
    BY <1>1 DEF Told
  <2> QED BY <1>1, <2>1, <2>2, <2>3 DEF PagesSoFar
<1>7. TokenIsOfLast' /\ SearchIsExact'
  BY <1>1 DEF TokenIsOfLast, SearchIsExact
<1> QED BY <1>2, <1>4, <1>5, <1>6, <1>7 DEF SearchInv

(* An error shows no rows.                                                   *)
LEMMA SearchFails == SearchInv /\ (MeIsUnknown \/ FetchFails) => SearchInv'
<1> SUFFICES ASSUME SearchInv, MeIsUnknown \/ FetchFails PROVE SearchInv'
  OBVIOUS
<1>1. /\ calling' = "error"
      /\ UNCHANGED <<options, runs, starting, filter, cursor, final, from, asOf, cut, hole, before>>
      /\ (rows' = <<>> /\ pages' = <<>>) \/ UNCHANGED <<rows, pages>>
  BY DEF MeIsUnknown, FetchFails, resultVars, historyVars
<1>2. RunsAreListed' /\ SnapshotIsOlder' /\ EarlierAreNewer'
  BY <1>1 DEF SearchInv, RunsAreListed, SnapshotIsOlder, EarlierAreNewer
<1>3. ResultTypes'
  <2>1. <<>> \in Seq(Rows) /\ <<>> \in Seq(Pages)
    OBVIOUS
  <2> QED BY <1>1, <2>1 DEF SearchInv, ResultTypes
<1>4. FilterIsRight' /\ AtTheStart' /\ PagesSoFar' /\ TokenIsOfLast' /\ SearchIsExact'
  BY <1>1 DEF FilterIsRight, AtTheStart, PagesSoFar, TokenIsOfLast, SearchIsExact, Fetching
<1> QED BY <1>2, <1>3, <1>4 DEF SearchInv

(* No run that a search may still find was in an earlier result.             *)
LEMMA WantedIsNew ==
  ASSUME SearchInv, NEW o, NEW list \in Seq(AllRuns), NewestFirst(list),
         NEW i \in 1..Len(Picked(o, list, from))
  PROVE  Picked(o, list, from)[i].id \notin before
<1> DEFINE w == Picked(o, list, from)
<1>1. /\ w \in Seq(AllRuns)
      /\ ToSet(w) = {r \in ToSet(list) : Follows(r, from) /\ Wanted(r, o)}
  BY PickedIs
<1>2. i \in 1..Len(w)
  OBVIOUS
<1> HIDE DEF w
<1>3. w[i].id \in Nat /\ Follows(w[i], from)
  <2>1. w[i] \in AllRuns /\ w[i] \in ToSet(w)
    BY <1>1, <1>2, ElementOfSeq, LenProperties DEF ToSet
  <2> QED BY <1>1, <2>1, RunIds
<1>4. /\ before \subseteq Nat /\ from \in Nat
      /\ IF from = NoToken THEN before = {} ELSE \A id \in before : id >= from
  BY DEF SearchInv, EarlierAreNewer, ResultTypes
<1>5. w[i].id \notin before
  BY <1>3, <1>4 DEF Follows
<1> QED BY <1>5 DEF w

(* An empty page ends the search with the rows so far.                       *)
LEMMA EmptyPageComes == SearchInv /\ FetchEmptyPage => SearchInv'
<1> SUFFICES ASSUME SearchInv, FetchEmptyPage PROVE SearchInv'
  OBVIOUS
<1> DEFINE old == IF pages = <<>> THEN runs ELSE asOf
           w == Picked(options, old, from)
           n == Len(rows)
<1>1. /\ calling = "pages" /\ calling' = "shown" /\ final' = NoToken /\ asOf' = old
      /\ hole' = (Listed(filter, cursor) # <<>>)
      /\ UNCHANGED <<options, runs, starting, filter, cursor, rows, pages, from, cut, before>>
  BY DEF FetchEmptyPage
<1>2. /\ old \in Seq(AllRuns) /\ NewestFirst(old) /\ ToSet(old) \subseteq ToSet(runs)
      /\ \A r \in ToSet(runs) \ ToSet(old), a \in ToSet(old) : r.id > a.id
      /\ w \in Seq(AllRuns) /\ NewestFirst(w) /\ n \in 0..Len(w) /\ Told(w)
      /\ Listed(filter, cursor) = SubSeq(w, n + 1, Len(w))
  BY <1>1, WhatIsLeft
<1>3. WantedAfter(from)' = w
  BY <1>1 DEF WantedAfter, Picked
<1> HIDE DEF old
<1>8. \A i \in 1..Len(w) : w[i].id \notin before
  BY <1>2, WantedIsNew
<1> HIDE DEF w
<1>4. RunsAreListed' /\ SnapshotIsOlder' /\ EarlierAreNewer'
  BY <1>1, <1>2 DEF SearchInv, RunsAreListed, SnapshotIsOlder, EarlierAreNewer
<1>5. ResultTypes'
  BY <1>1 DEF SearchInv, ResultTypes, NoToken
<1>6. FilterIsRight' /\ AtTheStart' /\ PagesSoFar' /\ TokenIsOfLast'
  BY <1>1 DEF FilterIsRight, AtTheStart, PagesSoFar, TokenIsOfLast, Fetching
<1>7. SearchIsExact'
  <2>1. /\ cut = 0 /\ n < Limit(options) /\ FlattenSeq(PageRows) = rows /\ RichSearch(options)
    BY <1>1 DEF SearchInv, AtTheStart, PagesSoFar, Fetching
  <2>2. Len(w) \in Nat /\ n \in Nat /\ n + cut = n /\ cut' = 0 /\ rows' = rows
    BY <1>1, <1>2, <2>1, LenProperties
  <2>3. Limit(options) \in Nat
    BY LimitIsPositive DEF SearchInv, RunsAreListed
  <2>4. ~hole' => n = Len(w)
    <3>1. Len(SubSeq(w, n + 1, Len(w))) = Len(w) - n
      BY <1>2, RestOf
    <3>2. ~hole' => Listed(filter, cursor) = <<>>
      BY <1>1, Zenon
    <3>3. ~hole' => Len(w) - n = 0
      BY <1>2, <3>1, <3>2, EmptySeq
    <3> QED BY <2>2, <3>3
  <2>5. \A i \in DOMAIN rows' : i <= Len(w) /\ rows'[i] = [index |-> i, id |-> w[i].id]
    BY <1>1, <1>2 DEF Told
  <2>6. FlattenSeq([i \in DOMAIN pages' |-> pages'[i].rows]) \in {rows', <<>>}
    BY <1>1, <2>1 DEF PageRows
  <2>7. Len(rows') <= Limit(options') /\ (~hole' => Len(rows') = Min({Limit(options'), Len(w)}))
    <3>1. Min({Limit(options), Len(w)}) = IF Limit(options) <= Len(w) THEN Limit(options) ELSE Len(w)
      BY <2>2, <2>3, MinOfTwo
    <3> QED BY <1>1, <2>1, <2>2, <2>3, <2>4, <3>1
  <2>8. {rows'[i].id : i \in DOMAIN rows'} \intersect before' = {}
    <3>1. \A i \in DOMAIN rows' : i \in 1..Len(w)
      BY <1>1, <2>2, <2>5, LenProperties DEF SearchInv, ResultTypes
    <3>2. \A i \in DOMAIN rows' : rows'[i].id \notin before
      BY <1>8, <2>5, <3>1
    <3> QED BY <1>1, <3>2
  <2> QED BY <1>1, <1>3, <2>2, <2>4, <2>5, <2>6, <2>7, <2>8 DEF SearchIsExact
<1> QED BY <1>4, <1>5, <1>6, <1>7 DEF SearchInv

(* A plain listing is one page.                                              *)
LEMMA PlainListComes == SearchInv /\ FetchSimple => SearchInv'
<1> SUFFICES ASSUME SearchInv, FetchSimple PROVE SearchInv'
  OBVIOUS
<1> DEFINE w == Picked(options, runs, from)
           listed == Listed(filter, cursor)
           page == PageOf(listed)
           p == Len(page)
<1>1. /\ calling = "simple" /\ calling' = "shown" /\ asOf' = runs
      /\ rows' = [i \in DOMAIN page |-> [index |-> i, id |-> page[i].id]]
      /\ final' \in TokensAfter(listed)
      /\ UNCHANGED <<options, runs, starting, filter, cursor, pages, from, cut, hole, before>>
  BY DEF FetchSimple
<1>2. /\ RunsAreListed /\ FilterIsRight /\ Fetching /\ ~RichSearch(options)
      /\ cut = 0 /\ ~hole /\ pages = <<>> /\ cursor = from /\ from \in Nat
  BY <1>1 DEF SearchInv, AtTheStart, Fetching, ResultTypes
<1>3. runs \in Seq(AllRuns) /\ NewestFirst(runs)
  BY <1>2 DEF RunsAreListed
<1>4. w \in Seq(AllRuns) /\ NewestFirst(w)
  BY <1>3, PickedIs
<1>5. \A i \in 1..Len(w) : w[i].id \notin before
  BY <1>3, WantedIsNew
<1>6. listed = w
  BY <1>2, ListedIsPicked
<1>7. WantedAfter(from)' = w
  BY <1>1 DEF WantedAfter, Picked
<1>8. WantedAfter(final)' = Picked(options, runs, final')
  BY <1>1 DEF WantedAfter, Picked
<1>9. \A k \in 1..Len(w) : Picked(options, runs, w[k].id) = SubSeq(w, k + 1, Len(w))
  BY <1>2, <1>3, PickedRest
<1> HIDE DEF w, listed
<1>10. /\ page \in Seq(AllRuns) /\ p <= Len(w)
       /\ \A i \in 1..p : page[i] = w[i]
       /\ \A token \in TokensAfter(listed) :
            IF token = NoToken THEN p = Len(w) ELSE p > 0 /\ token = w[p].id
  <2>1. Len(w) \in Nat /\ 0 \in 0..Len(w) /\ SubSeq(w, 0 + 1, Len(w)) = listed
    BY <1>4, <1>6, LenProperties, SubSeqFull
  <2>2. /\ page \in Seq(AllRuns) /\ 0 + p <= Len(w)
        /\ \A i \in 1..p : page[i] = w[0 + i]
        /\ \A token \in TokensAfter(listed) :
             IF token = NoToken THEN 0 + p = Len(w) ELSE p > 0 /\ token = w[0 + p].id
    BY <1>4, <2>1, PageFacts
  <2>3. p \in Nat
    BY <2>2, LenProperties
  <2> QED BY <2>2, <2>3
<1>11. p \in Nat /\ DOMAIN page = 1..p /\ Len(w) \in Nat
  BY <1>4, <1>10, LenProperties
<1> HIDE DEF page, p
<1>12. \A i \in 1..p : i \in 1..Len(w) /\ i \in Nat /\ w[i].id \in Nat
  <2>1. \A i \in 1..p : i \in 1..Len(w) /\ i \in Nat
    BY <1>10, <1>11
  <2> QED BY <1>4, <2>1, ElementOfSeq, RunIds
<1>13. rows' = [i \in 1..p |-> [index |-> i, id |-> w[i].id]]
  BY <1>1, <1>10, <1>11
<1>14. rows' \in Seq(Rows) /\ Len(rows') = p /\ DOMAIN rows' = 1..p
  <2>1. \A i \in 1..p : [index |-> i, id |-> w[i].id] \in Rows
    BY <1>12 DEF Rows
  <2> QED BY <1>11, <1>13, <2>1
<1>15. IF final' = NoToken THEN p = Len(w) ELSE p \in 1..Len(w) /\ final' = w[p].id
  BY <1>1, <1>10, <1>11
<1>16. RunsAreListed' /\ SnapshotIsOlder' /\ EarlierAreNewer'
  BY <1>1, <1>3 DEF SearchInv, RunsAreListed, SnapshotIsOlder, EarlierAreNewer
<1>17. ResultTypes'
  <2>1. final' \in Nat
    BY <1>12, <1>15, <1>11 DEF NoToken
  <2> QED BY <1>1, <1>14, <2>1 DEF SearchInv, ResultTypes
<1>18. FilterIsRight' /\ AtTheStart' /\ PagesSoFar'
  BY <1>1 DEF FilterIsRight, AtTheStart, PagesSoFar, Fetching
<1>19. cut' = 0 /\ p + cut' = p /\ Len(rows') + cut' = p
  BY <1>1, <1>2, <1>11, <1>14
<1>20. TokenIsOfLast'
  BY <1>7, <1>15, <1>19 DEF TokenIsOfLast
<1>21. SearchIsExact'
  <2>1. \A i \in DOMAIN rows' : i <= Len(w) /\ rows'[i] = [index |-> i, id |-> w[i].id]
    BY <1>12, <1>13, <1>14
  <2>2. FlattenSeq([i \in DOMAIN pages' |-> pages'[i].rows]) \in {rows', <<>>}
    <3>1. [i \in DOMAIN pages' |-> pages'[i].rows] = <<>>
      BY <1>1, <1>2
    <3>2. FlattenSeq(<<>>) = <<>>
      BY EmptySeq DEF FlattenSeq
    <3> QED BY <3>1, <3>2
  <2>3. ~RichSearch(options')
    BY <1>1, <1>2
  <2>4. {rows'[i].id : i \in DOMAIN rows'} \intersect before' = {}
    <3>1. \A i \in DOMAIN rows' : rows'[i].id \notin before
      BY <1>5, <1>12, <1>14, <2>1
    <3> QED BY <1>1, <3>1
  <2>5. final' # NoToken => WantedAfter(final)' = SubSeq(w, p + 1, Len(w))
    BY <1>8, <1>9, <1>15
  <2>6. /\ Len(rows') + cut' = p /\ ~(cut' > 0)
        /\ final' = NoToken => p = Len(w)
    BY <1>15, <1>19
  <2> QED BY <1>7, <2>1, <2>2, <2>3, <2>4, <2>5, <2>6, Zenon DEF SearchIsExact
<1> QED BY <1>16, <1>17, <1>18, <1>20, <1>21 DEF SearchInv

(* A page comes: its rows are the next of the wanted runs, and its token     *)
(* names the last of them, shown or cut off.                                 *)
LEMMA PageComes == SearchInv /\ FetchPage => SearchInv'
<1> SUFFICES ASSUME SearchInv, FetchPage PROVE SearchInv'
  OBVIOUS
<1> DEFINE old == IF pages = <<>> THEN runs ELSE asOf
           w == Picked(options, old, from)
           n == Len(rows)
           limit == Limit(options)
           listed == Listed(filter, cursor)
           page == PageOf(listed)
           p == Len(page)
           taken == Taken(page)
           t == IF limit - n <= p THEN limit - n ELSE p
           count == Len(rows')
           stops == Stops(cursor', count)
<1>1. /\ calling = "pages" /\ asOf' = old
      /\ UNCHANGED <<options, runs, starting, filter, from, hole, before>>
  BY DEF FetchPage
<1>2. /\ page # <<>> /\ cursor' \in TokensAfter(listed)
      /\ rows' = rows \o RowsOf(taken)
      /\ pages' = Append(pages, [rows |-> RowsOf(taken), token |-> cursor, next |-> cursor'])
      /\ calling' = IF stops THEN "shown" ELSE "pages"
      /\ final' = IF stops THEN FinalToken(cursor', count) ELSE final
      /\ cut' = p - Len(taken)
  BY DEF FetchPage
<1>3. /\ old \in Seq(AllRuns) /\ NewestFirst(old) /\ ToSet(old) \subseteq ToSet(runs)
      /\ \A r \in ToSet(runs) \ ToSet(old), a \in ToSet(old) : r.id > a.id
      /\ w \in Seq(AllRuns) /\ NewestFirst(w) /\ n \in 0..Len(w) /\ Told(w)
      /\ listed = SubSeq(w, n + 1, Len(w))
  BY <1>1, WhatIsLeft
<1>4. /\ WantedAfter(from)' = w
      /\ WantedAfter(final)' = Picked(options, old, final')
  BY <1>1 DEF WantedAfter, Picked
<1>5. \A i \in 1..Len(w) : w[i].id \notin before
  BY <1>3, WantedIsNew
<1>6. /\ rows \in Seq(Rows) /\ pages \in Seq(Pages) /\ cursor \in Nat /\ from \in Nat
      /\ RichSearch(options) /\ n < limit /\ FlattenSeq(PageRows) = rows
      /\ ~hole /\ options \in Searches
  BY <1>1 DEF SearchInv, ResultTypes, AtTheStart, Fetching, PagesSoFar, RunsAreListed
<1>7. \A k \in 1..Len(w) : Picked(options, old, w[k].id) = SubSeq(w, k + 1, Len(w))
  <2>1. \A r \in ToSet(old) \ ToSet(old), a \in ToSet(old) : r.id > a.id
    OBVIOUS
  <2> HIDE DEF old
  <2> QED BY <1>3, <1>6, <2>1, PickedRest
<1> HIDE DEF old, w
<1>8. /\ page \in Seq(AllRuns) /\ n + p <= Len(w)
      /\ \A i \in 1..p : page[i] = w[n + i]
      /\ IF cursor' = NoToken THEN n + p = Len(w) ELSE cursor' = w[n + p].id
  <2>1. /\ page \in Seq(AllRuns) /\ n + p <= Len(w)
        /\ \A i \in 1..p : page[i] = w[n + i]
        /\ \A token \in TokensAfter(listed) :
             IF token = NoToken THEN n + p = Len(w) ELSE p > 0 /\ token = w[n + p].id
    BY <1>3, PageFacts
  <2> HIDE DEF page, listed
  <2> QED BY <1>2, <2>1
<1>9. /\ n \in Nat /\ p \in Nat \ {0} /\ Len(w) \in Nat /\ limit \in Nat \ {0}
      /\ DOMAIN page = 1..p /\ DOMAIN rows = 1..n
  <2> HIDE DEF page
  <2>1. Len(w) \in Nat /\ n \in Nat /\ DOMAIN rows = 1..n
    BY <1>3, <1>6, LenProperties
  <2>2. p \in Nat \ {0} /\ DOMAIN page = 1..p
    BY <1>2, <1>8, EmptySeq, LenProperties
  <2> QED BY <1>6, <2>1, <2>2, LimitIsPositive
<1> HIDE DEF page, listed, limit, n, p
<1>10. t \in 1..p /\ n + t <= Len(w) /\ n + t <= limit /\ (t # p => n + t = limit)
  BY <1>6, <1>8, <1>9
<1>11. taken \in Seq(AllRuns) /\ Len(taken) = t /\ \A i \in 1..t : taken[i] = w[n + i]
  <2>1. taken = SubSeq(page, 1, t)
    <3>1. Min({limit - n, p}) = t
      BY <1>9, MinOfTwo
    <3> QED BY <3>1 DEF Taken, Left, limit, n, p
  <2> HIDE DEF t, taken
  <2>2. 1 \in Int /\ t \in Int /\ \A i \in 1..t : page[i] \in AllRuns
    <3>1. \A i \in 1..t : i \in 1..Len(page)
      <4>1. \A i \in 1..t : i \in 1..p
        BY <1>9, <1>10
      <4> QED BY <4>1 DEF p
    <3> QED BY <1>8, <1>10, <3>1, ElementOfSeq
  <2>3. /\ taken \in Seq(AllRuns)
        /\ Len(taken) = IF 1 <= t THEN t - 1 + 1 ELSE 0
        /\ \A i \in 1 .. (t - 1 + 1) : taken[i] = page[1 + i - 1]
    BY <2>1, <2>2, SubSeqProperties
  <2>4. /\ t - 1 + 1 = t /\ 1 <= t
        /\ \A i \in 1..t : 1 + i - 1 = i /\ i \in 1..p
    BY <1>9, <1>10
  <2> QED BY <1>8, <2>3, <2>4
<1> HIDE DEF t, taken
<1>12. \A i \in 1..Len(w) : w[i].id \in Nat
  BY <1>3, ElementOfSeq, RunIds
<1>13. RowsOf(taken) = [i \in 1..t |-> [index |-> n + i, id |-> w[n + i].id]]
  <2>1. DOMAIN taken = 1..t
    BY <1>11, LenProperties
  <2> QED BY <1>11, <2>1 DEF RowsOf, n
<1>14. RowsOf(taken) \in Seq(Rows) /\ Len(RowsOf(taken)) = t
  <2>1. \A i \in 1..t : [index |-> n + i, id |-> w[n + i].id] \in Rows
    <3>1. \A i \in 1..t : n + i \in 1..Len(w) /\ n + i \in Nat
      BY <1>9, <1>10
    <3> QED BY <1>12, <3>1 DEF Rows
  <2>2. t \in Nat
    BY <1>9, <1>10
  <2> QED BY <1>13, <2>1, <2>2
<1>15. /\ rows' \in Seq(Rows) /\ count = n + t /\ DOMAIN rows' = 1..(n + t)
       /\ \A i \in 1..(n + t) : rows'[i] = [index |-> i, id |-> w[i].id]
  <2> DEFINE new == RowsOf(taken)
             both == rows \o new
  <2>1. /\ both \in Seq(Rows) /\ Len(both) = n + Len(new)
        /\ \A i \in 1 .. n + Len(new) : both[i] = IF i <= n THEN rows[i] ELSE new[i - n]
    <3> HIDE DEF new
    <3> QED BY <1>6, <1>14, ConcatProperties DEF new, n
  <2>2. DOMAIN both = 1..(n + t)
    <3> HIDE DEF both, new
    <3> QED BY <1>14, <2>1, LenProperties DEF new
  <2>3. \A i \in 1..n : rows[i] = [index |-> i, id |-> w[i].id]
    BY <1>3, <1>9 DEF Told
  <2>4. \A i \in 1..(n + t) : i > n => /\ new[i - n] = [index |-> i, id |-> w[i].id]
    <3>1. \A i \in 1..(n + t) : i > n => i - n \in 1..t /\ n + (i - n) = i
      BY <1>9, <1>10
    <3> QED BY <1>13, <3>1
  <2>5. \A i \in 1..(n + t) : both[i] = [index |-> i, id |-> w[i].id]
    <3> SUFFICES ASSUME NEW i \in 1..(n + t) PROVE both[i] = [index |-> i, id |-> w[i].id]
      OBVIOUS
    <3>1. both[i] = IF i <= n THEN rows[i] ELSE new[i - n]
      BY <1>14, <2>1
    <3>2. i <= n => i \in 1..n
      BY <1>9, <1>10
    <3>3. ~(i <= n) => i > n
      BY <1>9, <1>10
    <3> HIDE DEF both, new
    <3> QED BY <2>3, <2>4, <3>1, <3>2, <3>3
  <2>6. rows' = both
    BY <1>2
  <2> HIDE DEF both
  <2> QED BY <1>14, <2>1, <2>2, <2>5, <2>6
<1>16. FlattenSeq([i \in DOMAIN pages' |-> pages'[i].rows]) = rows' /\ pages' \in Seq(Pages) /\ pages' # <<>>
  <2> DEFINE added == [rows |-> RowsOf(taken), token |-> cursor, next |-> cursor']
             parts == [i \in DOMAIN pages |-> pages[i].rows]
  <2>1. added \in Pages /\ added.rows = RowsOf(taken)
    <3>1. cursor' \in Nat
      <4>1. n + p \in 1..Len(w)
        BY <1>8, <1>9
      <4> QED BY <1>8, <1>12, <4>1 DEF NoToken
    <3> QED BY <1>6, <1>14, <3>1 DEF Pages
  <2>2. pages' = Append(pages, added)
    BY <1>2
  <2> HIDE DEF added
  <2>3. Len(pages) \in Nat /\ DOMAIN pages = 1..Len(pages) /\ \A i \in DOMAIN pages : pages[i] \in Pages
    BY <1>6, LenProperties, ElementOfSeq
  <2>4. parts \in Seq(Seq(Rows)) /\ Len(parts) = Len(pages)
    <3>1. \A i \in DOMAIN pages : pages[i].rows \in Seq(Rows)
      BY <2>3 DEF Pages
    <3> QED BY <2>3, <3>1
  <2>5. [i \in DOMAIN pages' |-> pages'[i].rows] = Append(parts, RowsOf(taken))
    <3>1. /\ DOMAIN pages' = 1..(Len(pages) + 1)
          /\ \A i \in 1..Len(pages) : pages'[i] = pages[i]
          /\ pages'[Len(pages) + 1] = added
      BY <2>2, <2>3, <1>6
    <3>2. /\ Append(parts, RowsOf(taken)) \in Seq(Seq(Rows))
          /\ DOMAIN Append(parts, RowsOf(taken)) = 1..(Len(pages) + 1)
          /\ \A i \in 1..Len(pages) : Append(parts, RowsOf(taken))[i] = parts[i]
          /\ Append(parts, RowsOf(taken))[Len(pages) + 1] = RowsOf(taken)
      <4> HIDE DEF parts
      <4> QED BY <2>3, <2>4, <1>14
    <3>3. \A i \in 1..(Len(pages) + 1) : pages'[i].rows = Append(parts, RowsOf(taken))[i]
      <4> SUFFICES ASSUME NEW i \in 1..(Len(pages) + 1) PROVE pages'[i].rows = Append(parts, RowsOf(taken))[i]
        OBVIOUS
      <4>1. CASE i = Len(pages) + 1
        BY <2>1, <3>1, <3>2, <4>1
      <4>2. CASE i # Len(pages) + 1
        <5>1. i \in 1..Len(pages)
          BY <2>3, <4>2
        <5> QED BY <2>3, <3>1, <3>2, <5>1
      <4> QED BY <4>1, <4>2
    <3> DEFINE more == Append(parts, RowsOf(taken))
    <3>4. more = [i \in 1..(Len(pages) + 1) |-> more[i]]
      <4> HIDE DEF parts
      <4>1. more \in [1..Len(more) -> Seq(Rows)] /\ DOMAIN more = 1..Len(more)
        BY <3>2, LenProperties
      <4> HIDE DEF more
      <4>2. more = [i \in DOMAIN more |-> more[i]]
        BY <4>1
      <4> QED BY <3>2, <4>2 DEF more
    <3> HIDE DEF more
    <3>5. [i \in DOMAIN pages' |-> pages'[i].rows] = [i \in 1..(Len(pages) + 1) |-> more[i]]
      BY <3>1, <3>3 DEF more
    <3> QED BY <3>4, <3>5 DEF more
  <2>6. FlattenSeq(Append(parts, RowsOf(taken))) = FlattenSeq(parts) \o RowsOf(taken)
    <3> HIDE DEF parts
    <3> QED BY <1>14, <2>4, FlattenAppend
  <2>7. FlattenSeq(parts) = rows
    BY <1>6 DEF PageRows
  <2> HIDE DEF parts
  <2>8. pages' \in Seq(Pages) /\ Len(pages') = Len(pages) + 1
    BY <1>6, <2>1, <2>2
  <2>9. pages' # <<>>
    BY <2>3, <2>8, EmptySeq
  <2> QED BY <1>2, <2>5, <2>6, <2>7, <2>8, <2>9
<1>17. RunsAreListed' /\ SnapshotIsOlder' /\ EarlierAreNewer' /\ FilterIsRight'
  <2>1. RunsAreListed' /\ SnapshotIsOlder' /\ EarlierAreNewer'
    BY <1>1, <1>3 DEF SearchInv, RunsAreListed, SnapshotIsOlder, EarlierAreNewer
  <2>2. FilterIsRight'
    BY <1>1 DEF SearchInv, FilterIsRight, Fetching
  <2> QED BY <2>1, <2>2
<1>18. /\ cut' = p - t /\ count + cut' = n + p /\ cut' \in Nat /\ n + p \in 1..Len(w)
       /\ cut' > 0 => count = limit
       /\ count \in 1..Len(w) /\ count <= limit
  <2>1. cut' = p - t /\ count = n + t
    BY <1>2, <1>11, <1>15
  <2>2. /\ n \in Nat /\ p \in Nat /\ t \in Nat /\ Len(w) \in Nat /\ limit \in Nat
        /\ 1 <= t /\ t <= p /\ n + p <= Len(w) /\ n + t <= limit /\ (t # p => n + t = limit)
    BY <1>8, <1>9, <1>10
  <2> HIDE DEF count
  <2> QED BY <2>1, <2>2
<1>19. /\ cursor' \in Nat
       /\ cursor' # NoToken => cursor' = w[n + p].id
  BY <1>8, <1>12, <1>18 DEF NoToken
<1>20. limit = Limit(options) /\ limit = Limit(options')
  BY <1>1 DEF limit
<1>21. /\ stops <=> cursor' = NoToken \/ count >= limit
       /\ stops => final' = IF count >= limit THEN cursor' ELSE NoToken
       /\ calling' = IF stops THEN "shown" ELSE "pages"
  BY <1>2 DEF Stops, FinalToken, limit
<1> HIDE DEF stops
<1>22. ResultTypes'
  <2>1. final' \in Nat
    <3>1. final \in Nat
      BY DEF SearchInv, ResultTypes
    <3> QED BY <1>2, <1>19, <1>21, <3>1 DEF NoToken
  <2>2. calling' # "idle"
    BY <1>21
  <2> QED BY <1>1, <1>6, <1>15, <1>16, <1>18, <1>19, <2>1, <2>2 DEF ResultTypes
<1>23. CASE stops
  <2>1. calling' = "shown" /\ final' = IF count >= limit THEN cursor' ELSE NoToken
    BY <1>21, <1>23
  <2>2. AtTheStart' /\ PagesSoFar'
    BY <2>1 DEF AtTheStart, PagesSoFar, Fetching
  <2>3. final' # NoToken => final' = cursor' /\ final' = w[n + p].id
    BY <1>19, <2>1
  <2>4. TokenIsOfLast'
    BY <1>4, <1>18, <2>3 DEF TokenIsOfLast
  <2>5. count < limit => count = Len(w) /\ n + p = Len(w)
    <3> SUFFICES ASSUME count < limit PROVE count = Len(w) /\ n + p = Len(w)
      OBVIOUS
    <3>1. cursor' = NoToken /\ n + p = Len(w)
      BY <1>8, <1>9, <1>18, <1>21, <1>23
    <3> QED BY <1>9, <1>18, <3>1
  <2>6. SearchIsExact'
    <3>1. \A i \in DOMAIN rows' : i <= Len(w) /\ rows'[i] = [index |-> i, id |-> w[i].id]
      BY <1>9, <1>10, <1>15
    <3>2. FlattenSeq([i \in DOMAIN pages' |-> pages'[i].rows]) \in {rows', <<>>}
      BY <1>16
    <3>3. Len(rows') <= Limit(options') /\ Len(rows') = Min({Limit(options'), Len(w)})
      <4>1. Min({limit, Len(w)}) = IF limit <= Len(w) THEN limit ELSE Len(w)
        BY <1>9, MinOfTwo
      <4>2. count = Min({limit, Len(w)})
        BY <1>9, <1>18, <2>5, <4>1
      <4> QED BY <1>18, <1>20, <4>2
    <3>4. {rows'[i].id : i \in DOMAIN rows'} \intersect before' = {}
      <4>1. \A i \in DOMAIN rows' : rows'[i].id \notin before
        <5>1. \A i \in DOMAIN rows' : i \in 1..Len(w)
          BY <1>9, <1>10, <1>15
        <5> QED BY <1>5, <1>15, <5>1
      <4> QED BY <1>1, <4>1
    <3>5. final' # NoToken => WantedAfter(final)' = SubSeq(w, n + p + 1, Len(w))
      BY <1>4, <1>7, <1>18, <2>3
    <3>6. final' = NoToken => n + p = Len(w)
      <4>1. count >= limit \/ count < limit
        BY <1>9, <1>18
      <4> QED BY <1>8, <2>1, <2>5, <4>1
    <3>7. Len(rows') + cut' = n + p /\ (cut' > 0 => Len(rows') = Limit(options'))
      BY <1>18, <1>20
    <3> QED BY <1>4, <3>1, <3>2, <3>3, <3>4, <3>5, <3>6, <3>7, Zenon DEF SearchIsExact
  <2> QED BY <1>17, <1>22, <2>2, <2>4, <2>6 DEF SearchInv
<1>24. CASE ~stops
  <2>1. calling' = "pages" /\ cursor' # NoToken /\ ~(count >= limit)
    BY <1>21, <1>24
  <2>2. TokenIsOfLast' /\ SearchIsExact'
    BY <2>1 DEF TokenIsOfLast, SearchIsExact
  <2>3. count < limit /\ cut' = 0 /\ n + p = count
    BY <1>9, <1>18, <2>1
  <2>4. AtTheStart'
    <3>1. RichSearch(options') /\ ~hole'
      BY <1>1, <1>6
    <3> QED BY <1>16, <2>1, <2>3, <3>1 DEF AtTheStart
  <2>5. PagesSoFar'
    <3>1. \A i \in DOMAIN rows' : i <= Len(w) /\ rows'[i] = [index |-> i, id |-> w[i].id]
      BY <1>9, <1>10, <1>15
    <3>2. FlattenSeq(PageRows)' = rows'
      BY <1>16 DEF PageRows
    <3>3. cursor' = w[count].id
      BY <1>19, <2>1, <2>3
    <3>4. Len(rows') < Limit(options')
      BY <1>20, <2>3
    <3> QED BY <1>4, <1>18, <3>1, <3>2, <3>3, <3>4, Zenon DEF PagesSoFar, Told
  <2> QED BY <1>17, <1>22, <2>2, <2>4, <2>5 DEF SearchInv
<1> QED BY <1>23, <1>24

(* Every step of a search keeps its invariant.                              *)
LEMMA SearchStays == SearchInv /\ [SearchNext]_searchVars => SearchInv'
<1>1. SearchInv /\ UNCHANGED searchVars => SearchInv'
  <2> SUFFICES ASSUME SearchInv, UNCHANGED searchVars PROVE SearchInv'
    OBVIOUS
  <2>1. UNCHANGED <<options, runs, starting, calling, filter, cursor, rows, pages, final, from, asOf, cut, hole, before>>
    BY DEF searchVars, resultVars, historyVars
  <2>2. RunsAreListed' /\ SnapshotIsOlder' /\ ResultTypes' /\ EarlierAreNewer'
    BY <2>1 DEF SearchInv, RunsAreListed, SnapshotIsOlder, ResultTypes, EarlierAreNewer
  <2>3. FilterIsRight' /\ AtTheStart'
    BY <2>1 DEF SearchInv, FilterIsRight, AtTheStart, Fetching
  <2>4. PagesSoFar' /\ TokenIsOfLast'
    BY <2>1 DEF SearchInv, PagesSoFar, TokenIsOfLast, Told, PageRows, WantedAfter
  <2>5. SearchIsExact'
    BY <2>1 DEF SearchInv, SearchIsExact, WantedAfter
  <2> QED BY <2>2, <2>3, <2>4, <2>5 DEF SearchInv
<1>2. SearchNext => \/ StartRun \/ BeginSimple \/ BeginSearch \/ MeIsUnknown \/ FetchSimple
                    \/ FetchPage \/ FetchEmptyPage \/ FetchFails \/ UNCHANGED searchVars
  BY DEF SearchNext, SearchStep
<1> QED BY <1>1, <1>2, RunStarts, SimpleBegins, SearchBegins, SearchFails, PlainListComes,
           PageComes, EmptyPageComes, Zenon

-----------------------------------------------------------------------------
(* The rows of a search are the newest of the runs that its options ask for, *)
(* as they were at its first answer, in order and as many as allowed; no run *)
(* comes again in a later result, and what a result leaves out follows its   *)
(* token (search, fetch_pipeline_run_search_pages).                          *)
THEOREM SearchesAreExact == SearchSpec => []SearchIsExact
<1>1. SearchInv => SearchIsExact
  BY DEF SearchInv
<1>2. SearchSpec => []SearchInv
  BY SearchStarts, SearchStays, PTL DEF SearchSpec
<1> QED BY <1>1, <1>2, PTL
=============================================================================
