--------------------------- MODULE AnswersProofs ---------------------------
(***************************************************************************)
(* Proofs about ListHandler and Answers, for every list of oids, any       *)
(* sequence of requests and ranges, and items added and set between any    *)
(* two ranges.                                                             *)
(***************************************************************************)
EXTENDS Answers, WellFoundedInduction, SequenceTheorems, TLAPS

-----------------------------------------------------------------------------
(* The order of object identifiers *)

\* A set of natural numbers that is not empty has a least one.
LEMMA LeastNatural ==
  ASSUME NEW S, S # {}, S \subseteq Nat
  PROVE  \E x \in S : \A y \in S : x <= y
<1>1. PICK x \in S : \A y \in S : ~(<<y, x>> \in OpToRel(<, Nat))
  BY WFMin, NatLessThanWellFounded
<1>2. \A y \in S : ~(y < x)
  BY <1>1 DEF OpToRel
<1> QED BY <1>2

\* The first difference decides, whatever comes after it.
LEMMA DifferenceDecides ==
  ASSUME NEW a \in OIDs, NEW b \in OIDs, NEW f \in DOMAIN a, f \in DOMAIN b,
         \A j \in 1 .. f - 1 : a[j] = b[j], a[f] < b[f]
  PROVE  Precedes(a, b) /\ ~Precedes(b, a) /\ a # b
<1>1. /\ DOMAIN a = 1 .. Len(a) /\ DOMAIN b = 1 .. Len(b) /\ Len(a) \in Nat /\ Len(b) \in Nat
      /\ a[f] \in Nat /\ b[f] \in Nat
  BY DEF OIDs
<1>2. Precedes(a, b)
  BY <1>1 DEF Precedes
<1>3. ASSUME NEW k \in 1 .. Len(a), k <= Len(b) + 1, \A j \in 1 .. k - 1 : b[j] = a[j],
             k = Len(b) + 1 \/ b[k] < a[k]
      PROVE  FALSE
  <2>1. f \in 1 .. Len(a) /\ f \in 1 .. Len(b)
    BY <1>1
  <2>2. CASE k > f
    <3>1. f \in 1 .. k - 1
      BY <2>1, <2>2
    <3> QED BY <1>1, <1>3, <3>1
  <2>3. CASE k < f
    <3>1. k \in 1 .. f - 1 /\ k # Len(b) + 1 /\ a[k] \in Nat
      BY <1>1, <2>1, <2>3 DEF OIDs
    <3> QED BY <1>3, <3>1
  <2>4. CASE k = f
    BY <1>1, <1>3, <2>1, <2>4
  <2> QED BY <1>1, <2>1, <2>2, <2>3, <2>4
<1>4. ~Precedes(b, a)
  BY <1>1, <1>3 DEF Precedes
<1> QED BY <1>1, <1>2, <1>4

\* An oid comes before those that extend it.
LEMMA PrefixPrecedes ==
  ASSUME NEW a \in OIDs, NEW b \in OIDs, Len(a) < Len(b), \A j \in 1 .. Len(a) : a[j] = b[j]
  PROVE  Precedes(a, b) /\ ~Precedes(b, a) /\ a # b
<1>1. Len(a) \in Nat /\ Len(b) \in Nat /\ \A j \in 1 .. Len(a) : a[j] \in Nat
  BY DEF OIDs
<1>2. Precedes(a, b)
  <2>1. Len(a) + 1 \in 1 .. Len(b)
    BY <1>1
  <2> QED BY <1>1, <2>1 DEF Precedes
<1>3. ASSUME NEW k \in 1 .. Len(a), k <= Len(b) + 1, k = Len(b) + 1 \/ b[k] < a[k]
      PROVE  FALSE
  BY <1>1, <1>3
<1>4. ~Precedes(b, a)
  BY <1>3 DEF Precedes
<1> QED BY <1>2, <1>4

\* CompareOIDs computes the lexicographic order.
LEMMA CompareIsOrder ==
  ASSUME NEW a \in OIDs, NEW b \in OIDs
  PROVE  /\ CompareOIDs(a, b) \in {-1, 0, 1}
         /\ CompareOIDs(a, b) = -1 <=> Precedes(a, b)
         /\ CompareOIDs(a, b) = 1 <=> Precedes(b, a)
         /\ CompareOIDs(a, b) = 0 <=> a = b
<1> DEFINE common == {i \in DOMAIN a : i \in DOMAIN b}
           differ == {i \in common : a[i] # b[i]}
<1>1. /\ DOMAIN a = 1 .. Len(a) /\ DOMAIN b = 1 .. Len(b) /\ Len(a) \in Nat /\ Len(b) \in Nat
      /\ \A i \in common : a[i] \in Nat /\ b[i] \in Nat
  BY DEF OIDs
<1>2. CASE differ # {}
  <2>1. differ \subseteq Nat
    BY <1>1
  <2>2. \E x \in differ : \A y \in differ : x <= y
    BY <1>2, <2>1, LeastNatural
  <2>3. PICK f : f = CHOOSE i \in differ : \A j \in differ : i <= j
    OBVIOUS
  <2>4. f \in differ /\ \A j \in differ : f <= j
    BY <2>2, <2>3
  <2>5. CompareOIDs(a, b) = IF a[f] < b[f] THEN -1 ELSE IF a[f] > b[f] THEN 1 ELSE 0
    BY <1>2, <2>3 DEF CompareOIDs
  <2>6. /\ f \in DOMAIN a /\ f \in DOMAIN b /\ a[f] \in Nat /\ b[f] \in Nat /\ a[f] # b[f]
        /\ \A j \in 1 .. f - 1 : a[j] = b[j]
    BY <1>1, <2>4
  <2>7. CASE a[f] < b[f]
    BY <2>5, <2>6, <2>7, DifferenceDecides
  <2>8. CASE b[f] < a[f]
    <3>1. CompareOIDs(a, b) = 1
      BY <2>5, <2>6, <2>8
    <3> QED BY <2>6, <2>8, <3>1, DifferenceDecides
  <2> QED BY <2>6, <2>7, <2>8
<1>3. CASE differ = {}
  <2>1. CompareOIDs(a, b) = IF Len(a) < Len(b) THEN -1 ELSE IF Len(a) > Len(b) THEN 1 ELSE 0
    BY <1>3 DEF CompareOIDs
  <2>2. \A j \in 1 .. Len(a) : j \in 1 .. Len(b) => a[j] = b[j]
    BY <1>1, <1>3
  <2>3. CASE Len(a) < Len(b)
    BY <1>1, <2>1, <2>2, <2>3, PrefixPrecedes
  <2>4. CASE Len(b) < Len(a)
    <3>1. CompareOIDs(a, b) = 1 /\ \A j \in 1 .. Len(b) : b[j] = a[j]
      BY <1>1, <2>1, <2>2, <2>4
    <3> QED BY <2>4, <3>1, PrefixPrecedes
  <2>5. CASE Len(a) = Len(b)
    <3>1. a = b
      BY <1>1, <2>2, <2>5 DEF OIDs
    <3>2. \A k \in 1 .. Len(a) : k # Len(a) + 1 /\ ~(a[k] < a[k])
      BY <1>1 DEF OIDs
    <3>3. ~Precedes(a, a)
      BY <3>2 DEF Precedes
    <3>4. CompareOIDs(a, b) = 0
      BY <1>1, <2>1, <2>5
    <3> QED BY <3>1, <3>3, <3>4
  <2>6. Len(a) < Len(b) \/ Len(b) < Len(a) \/ Len(a) = Len(b)
    BY DEF OIDs
  <2> QED BY <2>3, <2>4, <2>5, <2>6
<1> QED BY <1>2, <1>3

\* The order is transitive.
LEMMA PrecedesTransitive ==
  ASSUME NEW a \in OIDs, NEW b \in OIDs, NEW c \in OIDs, Precedes(a, b), Precedes(b, c)
  PROVE  Precedes(a, c)
<1>1. /\ Len(a) \in Nat /\ Len(b) \in Nat /\ Len(c) \in Nat
      /\ \A i \in 1 .. Len(a) : a[i] \in Nat
      /\ \A i \in 1 .. Len(b) : b[i] \in Nat
      /\ \A i \in 1 .. Len(c) : c[i] \in Nat
  BY DEF OIDs
<1>2. PICK k \in 1 .. Len(b) : /\ k <= Len(a) + 1 /\ \A j \in 1 .. k - 1 : a[j] = b[j]
                               /\ k = Len(a) + 1 \/ a[k] < b[k]
  BY DEF Precedes
<1>3. PICK l \in 1 .. Len(c) : /\ l <= Len(b) + 1 /\ \A j \in 1 .. l - 1 : b[j] = c[j]
                               /\ l = Len(b) + 1 \/ b[l] < c[l]
  BY DEF Precedes
<1>4. CASE k <= l
  <2>1. k \in 1 .. Len(c) /\ \A j \in 1 .. k - 1 : j \in 1 .. l - 1
    BY <1>1, <1>2, <1>3, <1>4
  <2>2. \A j \in 1 .. k - 1 : a[j] = c[j]
    BY <1>2, <1>3, <2>1
  <2>3. k = Len(a) + 1 \/ a[k] < c[k]
    <3>1. CASE k = l
      BY <1>1, <1>2, <1>3, <2>1, <3>1
    <3>2. CASE k < l
      <4>1. k \in 1 .. l - 1
        BY <1>2, <1>3, <3>2
      <4> QED BY <1>2, <1>3, <4>1
    <3> QED BY <1>2, <1>3, <1>4, <3>1, <3>2
  <2> QED BY <1>2, <2>1, <2>2, <2>3 DEF Precedes
<1>5. CASE l < k
  <2>1. /\ l <= Len(a) + 1 /\ l # Len(b) + 1 /\ l \in 1 .. k - 1 /\ l \in 1 .. Len(a)
        /\ \A j \in 1 .. l - 1 : j \in 1 .. k - 1
    BY <1>1, <1>2, <1>3, <1>5
  <2>2. \A j \in 1 .. l - 1 : a[j] = c[j]
    BY <1>2, <1>3, <2>1
  <2>3. a[l] < c[l]
    BY <1>2, <1>3, <2>1
  <2> QED BY <1>3, <2>1, <2>2, <2>3 DEF Precedes
<1> QED BY <1>1, <1>2, <1>3, <1>4, <1>5

\* Of two oids that differ, one comes first.
LEMMA PrecedesTotal ==
  ASSUME NEW a \in OIDs, NEW b \in OIDs
  PROVE  /\ a = b \/ Precedes(a, b) \/ Precedes(b, a)
         /\ ~(Precedes(a, b) /\ Precedes(b, a))
         /\ ~Precedes(a, a)
  BY CompareIsOrder

\* oidWithin decides the search range, the excluded start, the excluded end and
\* the null end included.
LEMMA WithinIsInRange ==
  ASSUME NEW o \in OIDs, NEW from \in OIDs, NEW include \in BOOLEAN, NEW to \in OIDs
  PROVE  oidWithin(o, from, include, to) <=> InRange(o, from, include, to)
<1>1. /\ CompareOIDs(from, o) > 0 <=> Precedes(o, from)
      /\ CompareOIDs(from, o) = 0 <=> from = o
      /\ CompareOIDs(to, o) > 0 <=> Precedes(o, to)
  BY CompareIsOrder
<1>2. Len(to) = 0 <=> to = NoTo
  BY DEF OIDs, NoTo
<1> QED BY <1>1, <1>2, PrecedesTotal DEF oidWithin, InRange

-----------------------------------------------------------------------------
(* Sorting and searching the list *)

\* No oid of the list is before a smaller one.
Ordered(list) == \A i, j \in DOMAIN list : i < j => ~Precedes(list[j], list[i])

\* Appending an oid to an ordered list and sorting gives an ordered list of the
\* same oids and the new one; with no repetition if there was none.
LEMMA SortInserts ==
  ASSUME NEW list \in Seq(OIDs), Ordered(list), NEW x \in OIDs
  PROVE  LET out == SortOIDs(Append(list, x))
         IN  /\ out \in Seq(OIDs) /\ Len(out) = Len(list) + 1 /\ Ordered(out)
             /\ Range(out) = Range(list) \cup {x}
             /\ Increasing(list) /\ x \notin Range(list) => Increasing(out)
<1> DEFINE n == Len(list)
           app == Append(list, x)
           Sorts(p) == \A i, j \in 1 .. n + 1 : i < j => CompareOIDs(app[p[i]], app[p[j]]) # 1
<1>1. /\ n \in Nat /\ DOMAIN list = 1 .. n /\ DOMAIN app = 1 .. n + 1
      /\ app[n + 1] = x /\ \A i \in 1 .. n : app[i] = list[i] /\ list[i] \in OIDs
      /\ \A i \in 1 .. n + 1 : app[i] \in OIDs
  OBVIOUS
<1>2. PICK k \in 1 .. n + 1 : /\ k <= n => Precedes(x, list[k])
                              /\ \A i \in 1 .. k - 1 : ~Precedes(x, list[i])
  <2> DEFINE S == {i \in 1 .. n + 1 : i = n + 1 \/ Precedes(x, list[i])}
  <2>1. S # {} /\ S \subseteq Nat
    BY <1>1
  <2>2. PICK k \in S : \A i \in S : k <= i
    BY <2>1, LeastNatural
  <2>3. k \in 1 .. n + 1 /\ (k <= n => Precedes(x, list[k]))
    BY <1>1, <2>2
  <2>4. \A i \in 1 .. k - 1 : i \in 1 .. n + 1 /\ ~(k <= i)
    BY <1>1, <2>3
  <2>5. \A i \in 1 .. k - 1 : ~Precedes(x, list[i])
    BY <2>2, <2>4
  <2> QED BY <2>3, <2>5
<1> DEFINE p == [i \in 1 .. n + 1 |-> IF i < k THEN i ELSE IF i = k THEN n + 1 ELSE i - 1]
<1>3. p \in Bijection(1 .. n + 1, 1 .. n + 1)
  <2>1. p \in [1 .. n + 1 -> 1 .. n + 1]
    BY <1>1
  <2>2. \A i, j \in 1 .. n + 1 : p[i] = p[j] => i = j
    BY <1>1
  <2>3. ASSUME NEW j \in 1 .. n + 1 PROVE \E i \in 1 .. n + 1 : p[i] = j
    <3>1. CASE j < k
      BY <1>1, <3>1
    <3>2. CASE j = n + 1
      BY <1>1, <3>2
    <3>3. CASE k <= j /\ j < n + 1
      <4>1. j + 1 \in 1 .. n + 1 /\ p[j + 1] = j
        BY <1>1, <3>3
      <4> QED BY <4>1
    <3> QED BY <1>1, <3>1, <3>2, <3>3
  <2> QED BY <2>1, <2>2, <2>3 DEF Bijection, Injection, Surjection, IsInjective
<1>4. Sorts(p)
  <2> SUFFICES ASSUME NEW i \in 1 .. n + 1, NEW j \in 1 .. n + 1, i < j
               PROVE  CompareOIDs(app[p[i]], app[p[j]]) # 1
    OBVIOUS
  <2>0. /\ p[i] = IF i < k THEN i ELSE IF i = k THEN n + 1 ELSE i - 1
        /\ p[j] = IF j < k THEN j ELSE IF j = k THEN n + 1 ELSE j - 1
        /\ app[p[i]] \in OIDs /\ app[p[j]] \in OIDs
    BY <1>1
  <2> HIDE DEF p, app
  <2>1. CASE j = k
    <3>1. i \in 1 .. k - 1 /\ app[p[i]] = list[i] /\ app[p[j]] = x
      BY <1>1, <2>0, <2>1
    <3>2. ~Precedes(app[p[j]], app[p[i]])
      BY <1>2, <3>1
    <3> QED BY <2>0, <3>2, CompareIsOrder
  <2>2. CASE i = k
    <3>1. /\ j - 1 \in 1 .. n /\ k \in 1 .. n /\ (k = j - 1 \/ k < j - 1)
          /\ app[p[i]] = x /\ app[p[j]] = list[j - 1]
      BY <1>1, <2>0, <2>2
    <3>2. Precedes(x, list[k]) /\ list[k] \in OIDs /\ list[j - 1] \in OIDs
      BY <1>1, <1>2, <3>1
    <3>3. list[k] = list[j - 1] \/ Precedes(list[k], list[j - 1])
      BY <1>1, <3>1, <3>2, PrecedesTotal DEF Ordered
    <3>4. Precedes(x, list[j - 1])
      BY <3>2, <3>3, PrecedesTransitive
    <3>5. ~Precedes(app[p[j]], app[p[i]])
      BY <3>1, <3>2, <3>4, PrecedesTotal
    <3> QED BY <2>0, <3>5, CompareIsOrder
  <2>3. CASE i # k /\ j # k
    <3>1. PICK a \in 1 .. n : a = p[i]
      BY <1>1, <2>0, <2>3
    <3>2. PICK b \in 1 .. n : b = p[j]
      BY <1>1, <2>0, <2>3
    <3>3. a < b
      BY <1>1, <2>0, <2>3, <3>1, <3>2
    <3>4. ~Precedes(app[p[j]], app[p[i]])
      BY <1>1, <3>1, <3>2, <3>3 DEF Ordered
    <3> QED BY <2>0, <3>4, CompareIsOrder
  <2> QED BY <2>1, <2>2, <2>3
<1> HIDE DEF n, app, Sorts, p
<1>5. PICK q : q = CHOOSE r \in Bijection(1 .. n + 1, 1 .. n + 1) : Sorts(r)
  OBVIOUS
<1>6. q \in Bijection(1 .. n + 1, 1 .. n + 1) /\ Sorts(q)
  BY <1>3, <1>4, <1>5
<1> DEFINE D == 1 .. n + 1
<1> HIDE DEF D
<1>7. /\ q \in [D -> D]
      /\ \A i, j \in D : q[i] = q[j] => i = j
      /\ \A j \in D : \E i \in D : q[i] = j
  BY <1>6 DEF Bijection, Injection, Surjection, IsInjective, D
<1>8. PICK out : out = SortOIDs(app)
  OBVIOUS
<1>9. out = [i \in D |-> app[q[i]]]
  BY <1>1, <1>5, <1>8 DEF SortOIDs, Sorts, D
<1>10. out \in Seq(OIDs) /\ Len(out) = n + 1 /\ DOMAIN out = 1 .. n + 1
  <2>1. \A i \in D : app[i] \in OIDs
    BY <1>1 DEF D
  <2>2. out \in [D -> OIDs]
    BY <1>7, <1>9, <2>1
  <2>3. out \in Seq(OIDs)
    BY <1>1, <2>2, SeqDef DEF D
  <2> QED BY <1>1, <2>2, <2>3 DEF D
<1>11. ASSUME NEW i \in D, NEW j \in D, i < j
       PROVE  /\ out[i] \in OIDs /\ out[j] \in OIDs /\ ~Precedes(out[j], out[i])
              /\ Increasing(list) /\ x \notin Range(list) => Precedes(out[i], out[j])
  <2>0. i # j
    BY <1>1, <1>11 DEF D
  <2>1. q[i] \in D /\ q[j] \in D /\ q[i] # q[j]
    BY <1>7, <2>0
  <2>2. out[i] = app[q[i]] /\ out[j] = app[q[j]] /\ out[i] \in OIDs /\ out[j] \in OIDs
    BY <1>1, <1>9, <2>1 DEF D
  <2>3. CompareOIDs(out[i], out[j]) # 1
    BY <1>6, <1>11, <2>2 DEF Sorts, D
  <2>4. ~Precedes(out[j], out[i])
    BY <2>2, <2>3, CompareIsOrder
  <2>5. ASSUME Increasing(list), x \notin Range(list) PROVE out[i] # out[j]
    <3>1. \A a, b \in 1 .. n : a # b => list[a] # list[b]
      BY <1>1, <2>5, PrecedesTotal DEF Increasing
    <3>2. \A a \in 1 .. n : list[a] # x
      BY <1>1, <2>5 DEF Range
    <3>3. \A a, b \in D : a # b => app[a] # app[b]
      BY <1>1, <3>1, <3>2 DEF D
    <3> QED BY <2>1, <2>2, <3>3
  <2> QED BY <2>2, <2>4, <2>5, PrecedesTotal
<1>12. Range(out) = Range(list) \cup {x}
  <2>1. DOMAIN app = D /\ DOMAIN out = D
    BY <1>1, <1>9 DEF D
  <2>2. Range(out) = Range(app)
    BY <1>7, <1>9, <2>1 DEF Range
  <2>3. Range(app) = Range(list) \cup {x}
    BY <1>1 DEF Range
  <2> QED BY <2>2, <2>3
<1>13. Ordered(out) /\ (Increasing(list) /\ x \notin Range(list) => Increasing(out))
  BY <1>10, <1>11 DEF Ordered, Increasing, D
<1> QED BY <1>8, <1>10, <1>12, <1>13 DEF n, app

-----------------------------------------------------------------------------
(* The list *)

ListInv == oids \in Seq(OIDs) /\ Ordered(oids) /\ ListTypeOK

\* Texts are written without leading zeros, as OID.String writes them.
Plain == Paddings \subseteq {FALSE}

\* The list begins empty.
LEMMA ListBegins == ListInit => ListInv /\ StrictlySorted
<1> SUFFICES ASSUME ListInit PROVE ListInv /\ StrictlySorted
  OBVIOUS
<1>1. oids \in Seq(OIDs) /\ DOMAIN oids = {} /\ DOMAIN items = {}
  BY DEF ListInit
<1>2. ListTypeOK
  BY <1>1 DEF ListTypeOK, Listed, Range
<1> QED BY <1>1, <1>2 DEF ListInv, Ordered, StrictlySorted, Increasing

\* Add keeps the list in order and in step with the items; no oid is lost.
LEMMA AddKeepsList ==
  ASSUME ListInv, NEW text \in Texts, Add(text)
  PROVE  /\ ListInv' /\ Listed \subseteq Listed'
         /\ Plain /\ StrictlySorted => StrictlySorted'
<1>1. PICK x \in Names : x = ParseOID(text) /\ x = text.oid
  BY DEF Texts, ParseOID
<1>2. x \in OIDs
  BY ListHandlerAssumption
<1>3. PICK out : out = oids'
  OBVIOUS
<1>4. out = SortOIDs(Append(oids, x))
  BY <1>1, <1>3 DEF Add
<1>5. /\ out \in Seq(OIDs) /\ Ordered(out) /\ Range(out) = Range(oids) \cup {x}
      /\ Increasing(oids) /\ x \notin Range(oids) => Increasing(out)
  BY <1>2, <1>4, SortInserts DEF ListInv
<1>6. Listed = Range(oids) /\ Listed' = Range(out)
  BY <1>3 DEF Listed, Range
<1>7. /\ DOMAIN items' = DOMAIN items \cup {text} /\ items'[text] = Unset
      /\ \A t \in DOMAIN items \ {text} : items'[t] = items[t]
  BY DEF Add, NewItem
<1>8. ListTypeOK'
  <2>1. Listed' \subseteq Names /\ DOMAIN items' \subseteq Texts
    BY <1>5, <1>6, <1>7 DEF ListInv, ListTypeOK
  <2>2. Range(items') \subseteq Values \cup {Unset}
    <3>1. \A t \in DOMAIN items : items[t] \in Values \cup {Unset}
      BY DEF ListInv, ListTypeOK, Range
    <3>2. \A t \in DOMAIN items' : items'[t] \in Values \cup {Unset}
      BY <1>7, <3>1
    <3> QED BY <3>2 DEF Range
  <2>3. Listed' = {ParseOID(t) : t \in DOMAIN items'}
    <3>1. Listed = {ParseOID(t) : t \in DOMAIN items} /\ Listed' = Listed \cup {x}
      BY <1>5, <1>6 DEF ListInv, ListTypeOK
    <3> QED BY <1>1, <1>7, <3>1 DEF ParseOID
  <2> QED BY <2>1, <2>2, <2>3 DEF ListTypeOK
<1>9. ListInv'
  BY <1>3, <1>5, <1>8 DEF ListInv
<1>10. ASSUME Plain, StrictlySorted PROVE StrictlySorted'
  <2>1. ASSUME x \in Listed PROVE FALSE
    <3>1. PICK t \in DOMAIN items : ParseOID(t) = x
      BY <2>1 DEF ListInv, ListTypeOK
    <3>2. t \in Texts
      BY <3>1 DEF ListInv, ListTypeOK
    <3>3. \A u \in Texts : u.padded = FALSE
      BY <1>10 DEF Texts, Plain
    <3>4. t.oid = x
      BY <3>1 DEF ParseOID
    <3>5. t = String(x) /\ text = String(x)
      <4>1. text \in Texts
        OBVIOUS
      <4>2. \A u \in Texts : u.oid = x /\ u.padded = FALSE => u = String(x)
        BY DEF Texts, String
      <4> QED BY <1>1, <3>2, <3>3, <3>4, <4>1, <4>2
    <3> QED BY <3>1, <3>5 DEF Add
  <2> QED BY <1>3, <1>5, <1>6, <1>10, <2>1 DEF StrictlySorted
<1> QED BY <1>5, <1>6, <1>9, <1>10

\* Set changes a value and nothing else.
LEMMA SetKeepsList ==
  ASSUME ListInv, NEW oid \in Names, NEW v \in Values, Set(oid, v)
  PROVE  /\ ListInv' /\ Listed' = Listed
         /\ StrictlySorted => StrictlySorted'
<1>1. oids' = oids /\ DOMAIN items' = DOMAIN items
  BY DEF Set
<1>2. \A t \in DOMAIN items : items'[t] \in {items[t], v}
  BY DEF Set
<1>3. Listed' = Listed
  BY <1>1 DEF Listed
<1>4. Range(items') \subseteq Values \cup {Unset}
  BY <1>1, <1>2 DEF ListInv, ListTypeOK, Range
<1> QED BY <1>1, <1>3, <1>4 DEF ListInv, ListTypeOK, StrictlySorted

\* What the program does keeps the list.
LEMMA ProgramKeepsList ==
  ASSUME ListInv, Program
  PROVE  /\ ListInv' /\ Listed \subseteq Listed'
         /\ Plain /\ StrictlySorted => StrictlySorted'
  BY AddKeepsList, SetKeepsList DEF Program

\* get finds every listed oid.
LEMMA GetFinds ==
  ASSUME ListInv, Plain, NEW o \in Listed
  PROVE  /\ get(o).name = o /\ get(o).value \in Values \cup {Unset} /\ o # NoOID
<1>1. PICK t \in DOMAIN items : ParseOID(t) = o
  BY DEF ListInv, ListTypeOK
<1>2. t \in Texts /\ t.padded = FALSE /\ t.oid = o
  BY <1>1 DEF ListInv, ListTypeOK, Texts, ParseOID, Plain
<1>3. t = String(o)
  BY <1>2 DEF Texts, String
<1>4. items[t] \in Values \cup {Unset}
  BY <1>1 DEF ListInv, ListTypeOK, Range
<1>5. o \in Seq(Nat)
  BY ListHandlerAssumption DEF ListInv, ListTypeOK, OIDs
<1>6. o # NoOID
  <2>1. NoOID[1] = -1 /\ Len(NoOID) = 1
    BY DEF NoOID
  <2>2. Len(o) = 1 => o[1] \in Nat
    BY <1>5
  <2> QED BY <2>1, <2>2
<1> QED BY <1>1, <1>3, <1>4, <1>6 DEF get

\* The answer f to a search range, in terms of the oids listed when it is given.
IsNext(f, listed, r) ==
  \/ f.name = NoOID /\ \A o \in listed : ~InRange(o, r.from, r.include, r.to)
  \/ /\ f.name \in listed /\ f.name # NoOID /\ f.value \in Values \cup {Unset}
     /\ InRange(f.name, r.from, r.include, r.to)
     /\ \A o \in listed \ {f.name} : InRange(o, r.from, r.include, r.to) => Precedes(f.name, o)

Ranges == [from : OIDs, include : BOOLEAN, to : OIDs]

\* GetNext answers with the least listed oid of the range, for every range.
LEMMA GetNextFindsLeast ==
  ASSUME ListInv, StrictlySorted, Plain, NEW r \in Ranges
  PROVE  IsNext(GetNext(r.from, r.include, r.to), Listed, r)
<1> DEFINE inside == {i \in DOMAIN oids : oidWithin(oids[i], r.from, r.include, r.to)}
<1>0. r.from \in OIDs /\ r.include \in BOOLEAN /\ r.to \in OIDs
  BY DEF Ranges
<1>1. \A i \in DOMAIN oids : oids[i] \in OIDs /\ oids[i] \in Listed /\ i \in Nat
  BY DEF ListInv, Listed
<1>2. \A i \in DOMAIN oids : i \in inside <=> InRange(oids[i], r.from, r.include, r.to)
  BY <1>0, <1>1, WithinIsInRange
<1>3. \A o \in Listed : \E i \in DOMAIN oids : oids[i] = o
  BY DEF Listed
<1>4. CASE inside = {}
  <2>1. GetNext(r.from, r.include, r.to) = NotFound
    BY <1>4 DEF GetNext
  <2> QED BY <1>2, <1>3, <1>4, <2>1 DEF IsNext, NotFound
<1>5. CASE inside # {}
  <2>1. \E i \in inside : \A j \in inside : i <= j
    BY <1>1, <1>5, LeastNatural
  <2>2. PICK k : k = CHOOSE i \in inside : \A j \in inside : i <= j
    OBVIOUS
  <2>3. k \in inside /\ \A j \in inside : k <= j
    BY <2>1, <2>2
  <2>4. GetNext(r.from, r.include, r.to) = get(oids[k])
    BY <1>5, <2>2 DEF GetNext
  <2>5. /\ oids[k] \in Listed /\ InRange(oids[k], r.from, r.include, r.to)
        /\ get(oids[k]).name = oids[k] /\ get(oids[k]).value \in Values \cup {Unset}
        /\ oids[k] # NoOID
    BY <1>1, <1>2, <2>3, GetFinds
  <2>6. ASSUME NEW o \in Listed \ {oids[k]}, InRange(o, r.from, r.include, r.to)
        PROVE  Precedes(oids[k], o)
    <3>1. PICK j \in DOMAIN oids : oids[j] = o
      BY <1>3
    <3>2. j \in inside /\ k <= j /\ j # k /\ k \in DOMAIN oids
      BY <1>2, <2>3, <2>6, <3>1
    <3>3. k < j
      BY <1>1, <3>2
    <3> QED BY <3>1, <3>2, <3>3 DEF StrictlySorted, Increasing
  <2> QED BY <2>4, <2>5, <2>6 DEF IsNext
<1> QED BY <1>4, <1>5

-----------------------------------------------------------------------------
(* Requests and their answers *)

Bindings   == [name : OIDs, value : Values \cup {Unset} \cup Exceptions]
ErrorNames == {"none", "noError", "genErr", "notWritable"}
Responses  == [error : ErrorNames, index : Nat, variables : Seq(Bindings)]

Typed ==
  /\ handler \in {"none", "list", "failing"} /\ phase \in {"idle", "handling", "sending"}
  /\ kind \in {"get", "getNext"} /\ ranges \in Seq(Ranges) /\ asked \in 0 .. MaxRequests
  /\ response \in Responses /\ answer \in Responses

\* What a binding is to the range it answers.
Fits(b, r, k, listed) ==
  /\ k = "get" \/ b.value = "endOfMibView" => b.name = r.from
  /\ k = "getNext" /\ b.value # "endOfMibView" =>
       InRange(b.name, r.from, r.include, r.to) /\ b.name \in listed

\* A response has answered the first ranges of its request, or has failed at one.
ResponseFits ==
  /\ response.index \in 0 .. Len(ranges) /\ Len(response.variables) <= Len(ranges)
  /\ phase = "handling" => response.error = "noError"
  /\ response.error = "noError" => response.index = 0
  /\ response.error # "noError" => response.variables = <<>>
  /\ phase = "sending" /\ response.error = "noError" => Done
  /\ \A i \in DOMAIN response.variables : Fits(response.variables[i], ranges[i], kind, Listed)

\* What the master agent has been sent is the response, or that it cannot be sent.
AnswerIsResponse ==
  phase = "idle" /\ answer # NoAnswer =>
    \/ answer = response /\ Marshals(response) /\ (response.error = "noError" => Done)
    \/ answer = Fallback

Walks == [range : Ranges, seen : Seq(OIDs), at : Nat, due : SUBSET OIDs]

\* The columns of a walk have places in the request.
WalkTyped == walk \in Seq(Walks) /\ \A i \in DOMAIN walk : walk[i].at <= Len(ranges)

RequestInv == ListInv /\ Typed /\ ResponseFits /\ AnswerIsResponse /\ WalkTyped

\* get returns the item of the oid, or nothing.
LEMMA GetReturns ==
  ASSUME ListInv, NEW o \in OIDs
  PROVE  \/ get(o) = NotFound
         \/ get(o).name = o /\ get(o).value \in Values \cup {Unset} /\ o # NoOID
<1>1. ASSUME NEW t \in DOMAIN items PROVE items[t] \in Values \cup {Unset}
  BY <1>1 DEF ListInv, ListTypeOK, Range
<1>2. o # NoOID
  <2>1. NoOID[1] = -1 /\ Len(NoOID) = 1
    BY DEF NoOID
  <2>2. Len(o) = 1 => o[1] \in Nat
    BY DEF OIDs
  <2> QED BY <2>1, <2>2
<1> QED BY <1>1, <1>2 DEF get

\* GetNext returns an item in the range, or nothing, whatever the texts.
LEMMA GetNextReturns ==
  ASSUME ListInv, NEW r \in Ranges
  PROVE  LET f == GetNext(r.from, r.include, r.to)
         IN  \/ f = NotFound
             \/ /\ f.name \in Listed /\ f.value \in Values \cup {Unset} /\ f.name # NoOID
                /\ f.name \in OIDs /\ InRange(f.name, r.from, r.include, r.to)
<1> DEFINE inside == {i \in DOMAIN oids : oidWithin(oids[i], r.from, r.include, r.to)}
<1>0. r.from \in OIDs /\ r.include \in BOOLEAN /\ r.to \in OIDs
  BY DEF Ranges
<1>1. \A i \in DOMAIN oids : oids[i] \in OIDs /\ oids[i] \in Listed /\ i \in Nat
  BY DEF ListInv, Listed
<1>2. CASE inside = {}
  BY <1>2 DEF GetNext
<1>3. CASE inside # {}
  <2>1. \E i \in inside : \A j \in inside : i <= j
    BY <1>1, <1>3, LeastNatural
  <2>2. PICK k \in inside : GetNext(r.from, r.include, r.to) = get(oids[k])
    BY <1>3, <2>1 DEF GetNext
  <2>3. oids[k] \in OIDs /\ oids[k] \in Listed /\ InRange(oids[k], r.from, r.include, r.to)
    BY <1>0, <1>1, <2>2, WithinIsInRange
  <2> QED BY <2>2, <2>3, GetReturns
<1> QED BY <1>2, <1>3

\* The binding for a range is well formed and fits it.
LEMMA AnswerFits ==
  ASSUME ListInv, Typed, NEW r \in Ranges
  PROVE  Answer(r) \in Bindings /\ Fits(Answer(r), r, kind, Listed)
<1> DEFINE found == IF handler = "none" THEN NotFound
                    ELSE IF kind = "get" THEN get(r.from)
                         ELSE GetNext(r.from, r.include, r.to)
<1>0. /\ r.from \in OIDs /\ "endOfMibView" \notin Values \cup {Unset}
      /\ kind \in {"get", "getNext"}
  BY ListHandlerAssumption DEF Ranges, Exceptions, Unset, Typed
<1>1. Answer(r) = IF found.name = NoOID THEN [name |-> r.from, value |-> Exception]
                                        ELSE [name |-> found.name, value |-> found.value]
  BY DEF Answer, Binding
<1>2. CASE found.name = NoOID
  <2>1. Answer(r) = [name |-> r.from, value |-> Exception]
    BY <1>1, <1>2
  <2>2. /\ Exception \in Exceptions /\ (kind = "getNext" => Exception = "endOfMibView")
    BY DEF Exception, Exceptions
  <2> QED BY <1>0, <2>1, <2>2 DEF Bindings, Fits
<1>3. CASE found.name # NoOID
  <2>1. Answer(r) = [name |-> found.name, value |-> found.value] /\ handler # "none"
    BY <1>1, <1>3 DEF NotFound
  <2>2. CASE kind = "get"
    <3>1. found = get(r.from) /\ found # NotFound
      BY <1>3, <2>1, <2>2 DEF NotFound
    <3>2. found.name = r.from /\ found.value \in Values \cup {Unset}
      BY <1>0, <3>1, GetReturns
    <3> QED BY <1>0, <2>1, <2>2, <3>2 DEF Bindings, Fits
  <2>3. CASE kind = "getNext"
    <3>1. found = GetNext(r.from, r.include, r.to) /\ found # NotFound
      BY <1>3, <2>1, <2>3 DEF NotFound
    <3>2. /\ found.name \in Listed /\ found.value \in Values \cup {Unset} /\ found.name \in OIDs
          /\ InRange(found.name, r.from, r.include, r.to)
      BY <3>1, GetNextReturns
    <3> QED BY <1>0, <2>1, <2>3, <3>2 DEF Bindings, Fits
  <2> QED BY <1>0, <2>2, <2>3
<1> QED BY <1>2, <1>3

\* Nothing has been asked at the beginning.
LEMMA RequestInit == Init => RequestInv /\ StrictlySorted
<1> SUFFICES ASSUME Init PROVE RequestInv /\ StrictlySorted
  OBVIOUS
<1>1. ListInv /\ StrictlySorted
  BY ListBegins DEF Init
<1>2. Typed
  BY AnswersAssumption DEF Init, Typed, EmptyResponse, NoAnswer, Responses, ErrorNames
<1>3. ResponseFits /\ AnswerIsResponse /\ WalkTyped
  BY DEF Init, ResponseFits, AnswerIsResponse, WalkTyped, EmptyResponse, Done
<1> QED BY <1>1, <1>2, <1>3 DEF RequestInv

\* A range is answered.
LEMMA HandleNextFits ==
  ASSUME RequestInv, HandleNext
  PROVE  RequestInv' /\ Listed' = Listed
<1> USE DEF listVars
<1>1. /\ UNCHANGED <<oids, items, handler, phase, kind, ranges, answer, asked, walk>>
      /\ phase = "handling" /\ ~Done
  BY DEF HandleNext
<1>2. ListInv /\ Typed /\ ResponseFits /\ WalkTyped
  BY DEF RequestInv
<1>3. ListInv' /\ Listed' = Listed /\ WalkTyped'
  BY <1>1, <1>2 DEF ListInv, ListTypeOK, Listed, ParseOID, WalkTyped
<1>4. PICK vs \in Seq(Bindings) : vs = response.variables
  BY <1>2 DEF Typed, Responses
<1>5. PICK rs \in Seq(Ranges) : rs = ranges
  BY <1>2 DEF Typed
<1>6. Len(vs) + 1 \in 1 .. Len(rs) /\ rs[Len(vs) + 1] \in Ranges
  BY <1>1, <1>2, <1>4, <1>5 DEF Done, ResponseFits
<1>7. PICK b \in Bindings : /\ b = Answer(rs[Len(vs) + 1])
                            /\ Fits(b, rs[Len(vs) + 1], kind, Listed)
  BY <1>2, <1>6, AnswerFits
<1>8. PICK ws : ws = Append(vs, b)
  OBVIOUS
<1>9. ws \in Seq(Bindings) /\ Len(ws) = Len(vs) + 1
  BY <1>8, AppendProperties
<1>10. response' = [response EXCEPT !.variables = ws]
  BY <1>4, <1>5, <1>7, <1>8 DEF HandleNext
<1>11. /\ response' \in Responses /\ response'.variables = ws
       /\ response'.error = response.error /\ response'.index = response.index
  BY <1>2, <1>9, <1>10 DEF Typed, Responses
<1>12. \A i \in DOMAIN ws : Fits(ws[i], ranges[i], kind, Listed)
  <2>1. \A i \in DOMAIN vs : Fits(vs[i], ranges[i], kind, Listed)
    BY <1>2, <1>4 DEF ResponseFits
  <2> QED BY <1>5, <1>7, <1>8, <2>1, AppendProperties
<1>13. response.error = "noError" /\ Len(ws) <= Len(ranges)
  BY <1>1, <1>2, <1>5, <1>6, <1>9 DEF ResponseFits
<1>14. ResponseFits'
  BY <1>1, <1>2, <1>3, <1>11, <1>12, <1>13 DEF ResponseFits
<1>15. Typed' /\ AnswerIsResponse'
  BY <1>1, <1>2, <1>11 DEF Typed, AnswerIsResponse
<1> QED BY <1>3, <1>14, <1>15 DEF RequestInv

\* A failure, the end of a request and its sending.
LEMMA SessionFits ==
  ASSUME RequestInv, HandleFails \/ HandleReturns \/ Send
  PROVE  RequestInv' /\ Listed' = Listed
<1> USE DEF listVars
<1>1. /\ UNCHANGED <<oids, items, handler, kind, ranges, asked, walk>>
  BY DEF HandleFails, HandleReturns, Send
<1>2. ListInv /\ Typed /\ ResponseFits /\ WalkTyped
  BY DEF RequestInv
<1>3. ListInv' /\ Listed' = Listed /\ WalkTyped'
  BY <1>1, <1>2 DEF ListInv, ListTypeOK, Listed, ParseOID, WalkTyped
<1>4. CASE HandleFails
  <2>1. PICK e \in Errors : response' = Failure(getError(e), Len(response.variables) + 1)
    BY <1>4 DEF HandleFails
  <2>2. getError(e) \in {"genErr", "notWritable"}
    BY AnswersAssumption DEF getError
  <2>3. Len(response.variables) \in Nat /\ Len(ranges) \in Nat
    BY <1>2 DEF Typed, Responses
  <2>4. Len(response.variables) + 1 \in 0 .. Len(ranges)
    BY <1>2, <1>4, <2>3 DEF HandleFails, Done, ResponseFits
  <2>5. /\ response'.error \in {"genErr", "notWritable"} /\ response'.variables = <<>>
        /\ response'.index \in 0 .. Len(ranges) /\ response' \in Responses
    BY <2>1, <2>2, <2>4 DEF Failure, Responses, ErrorNames
  <2>6. phase' = "sending" /\ answer' = answer
    BY <1>4 DEF HandleFails
  <2>7. Typed' /\ ResponseFits' /\ AnswerIsResponse'
    BY <1>1, <1>2, <2>3, <2>5, <2>6 DEF Typed, ResponseFits, AnswerIsResponse
  <2> QED BY <1>3, <2>7 DEF RequestInv
<1>5. CASE HandleReturns
  <2>1. phase' = "sending" /\ response' = response /\ answer' = answer /\ Done
    BY <1>5 DEF HandleReturns
  <2>2. Done'
    BY <1>1, <2>1 DEF Done
  <2>3. Typed' /\ ResponseFits' /\ AnswerIsResponse'
    BY <1>1, <1>2, <1>3, <2>1, <2>2 DEF Typed, ResponseFits, AnswerIsResponse
  <2> QED BY <1>3, <2>3 DEF RequestInv
<1>6. CASE Send
  <2>1. /\ phase = "sending" /\ phase' = "idle" /\ response' = response
        /\ answer' = IF Marshals(response) THEN response ELSE Fallback
    BY <1>6 DEF Send
  <2>2. Fallback \in Responses
    BY DEF Fallback, Responses, ErrorNames
  <2>3. Typed' /\ ResponseFits'
    BY <1>1, <1>2, <1>3, <2>1, <2>2 DEF Typed, ResponseFits
  <2>4. (response.error = "noError" => Done) /\ Done' = Done /\ Marshals(response)' = Marshals(response)
    BY <1>1, <1>2, <2>1 DEF ResponseFits, Done, Marshals
  <2>5. AnswerIsResponse'
    BY <2>1, <2>4 DEF AnswerIsResponse, Fallback
  <2> QED BY <1>3, <2>3, <2>5 DEF RequestInv
<1> QED BY <1>4, <1>5, <1>6

\* The program's changes leave requests alone.
LEMMA ProgramFits ==
  ASSUME RequestInv, Program
  PROVE  RequestInv'
<1>1. ListInv' /\ Listed \subseteq Listed'
  BY ProgramKeepsList DEF RequestInv
<1>2. UNCHANGED <<reqVars, walk>>
  BY DEF Program
<1>3. \A b, r, k : Fits(b, r, k, Listed) => Fits(b, r, k, Listed')
  BY <1>1 DEF Fits
<1>4. ResponseFits'
  BY <1>2, <1>3 DEF RequestInv, ResponseFits, reqVars, Done
<1> QED BY <1>1, <1>2, <1>4
      DEF RequestInv, reqVars, Typed, WalkTyped, AnswerIsResponse, Marshals, Done, Fallback

\* A new request finds the session ready for it.
LEMMA AskFits ==
  ASSUME RequestInv, NEW k \in {"get", "getNext"}, NEW r \in Seq(Ranges), Ask(k, r), WalkTyped'
  PROVE  RequestInv' /\ Listed' = Listed
<1> USE DEF listVars
<1>1. /\ UNCHANGED <<oids, items, handler>> /\ kind' = k /\ ranges' = r /\ phase' = "handling"
      /\ response' = EmptyResponse /\ answer' = NoAnswer /\ asked' = asked + 1
      /\ asked < MaxRequests
  BY DEF Ask
<1>2. ListInv' /\ Listed' = Listed
  BY <1>1 DEF RequestInv, ListInv, ListTypeOK, Listed, ParseOID
<1>3. EmptyResponse \in Responses /\ NoAnswer \in Responses
  BY DEF EmptyResponse, NoAnswer, Responses, ErrorNames
<1>4. Typed'
  BY <1>1, <1>3, AnswersAssumption DEF RequestInv, Typed
<1>5. ResponseFits' /\ AnswerIsResponse'
  BY <1>1 DEF ResponseFits, AnswerIsResponse, EmptyResponse
<1> QED BY <1>2, <1>4, <1>5 DEF RequestInv

-----------------------------------------------------------------------------
(* The steps of a walk *)

\* An answer without error is the whole response.
LEMMA GoodAnswer ==
  ASSUME RequestInv, phase = "idle", answer.error = "noError"
  PROVE  /\ answer = response /\ Marshals(response)
         /\ Len(response.variables) = Len(ranges) /\ response.variables \in Seq(Bindings)
<1>1. answer # NoAnswer /\ answer # Fallback
  BY DEF NoAnswer, Fallback
<1> QED BY <1>1 DEF RequestInv, AnswerIsResponse, Done, Typed, Responses

\* What a column makes of its binding.
LEMMA TakenFacts ==
  ASSUME RequestInv, phase = "idle", answer.error = "noError", NEW w \in Walks, w.at <= Len(ranges)
  PROVE  /\ Taken(w) \in Walks /\ Taken(w).range = w.range /\ Taken(w).due = w.due
         /\ w.at = 0 => Taken(w) = w
         /\ w.at # 0 =>
              /\ w.at \in DOMAIN response.variables /\ w.at \in DOMAIN ranges
              /\ response.variables[w.at] \in Bindings
              /\ IF response.variables[w.at].value = "endOfMibView"
                   THEN Taken(w).at = 0 /\ Taken(w).seen = w.seen
                   ELSE /\ Taken(w).at = w.at
                        /\ Taken(w).seen = Append(w.seen, response.variables[w.at].name)
<1>1. /\ answer = response /\ Len(response.variables) = Len(ranges)
      /\ response.variables \in Seq(Bindings) /\ ranges \in Seq(Ranges)
  BY GoodAnswer DEF RequestInv, Typed
<1>2. w.at \in Nat /\ w.seen \in Seq(OIDs)
  BY DEF Walks
<1>3. CASE w.at = 0
  BY <1>3 DEF Taken
<1>4. CASE w.at # 0
  <2>1. w.at \in DOMAIN response.variables /\ w.at \in DOMAIN ranges
    BY <1>1, <1>2, <1>4
  <2>2. PICK b \in Bindings : b = response.variables[w.at]
    BY <1>1, <2>1
  <2>3. Taken(w) = IF b.value = "endOfMibView" THEN [w EXCEPT !.at = 0]
                   ELSE [w EXCEPT !.seen = Append(w.seen, b.name)]
    BY <1>1, <1>4, <2>2 DEF Taken
  <2>4. PICK more \in Seq(OIDs) : more = Append(w.seen, b.name)
    BY <1>2, AppendProperties DEF Bindings
  <2>5. PICK t : t = Taken(w)
    OBVIOUS
  <2>6. CASE b.value = "endOfMibView"
    <3>1. t = [w EXCEPT !.at = 0]
      BY <2>3, <2>5, <2>6
    <3>2. t \in Walks /\ t.range = w.range /\ t.due = w.due /\ t.at = 0 /\ t.seen = w.seen
      BY <3>1 DEF Walks
    <3> QED BY <1>4, <2>1, <2>2, <2>5, <2>6, <3>2
  <2>7. CASE b.value # "endOfMibView"
    <3>1. t = [w EXCEPT !.seen = more]
      BY <2>3, <2>4, <2>5, <2>7
    <3>2. t \in Walks /\ t.range = w.range /\ t.due = w.due /\ t.at = w.at /\ t.seen = more
      BY <3>1 DEF Walks
    <3> QED BY <1>4, <2>1, <2>2, <2>4, <2>5, <2>7, <3>2
  <2> QED BY <2>6, <2>7
<1> QED BY <1>3, <1>4

\* A column that goes on has seen something, and asks for what is after it.
LEMMA OnwardTyped ==
  ASSUME NEW w \in Walks, w.seen # <<>>
  PROVE  Onward(w) \in Ranges
<1>1. w.seen \in Seq(OIDs) /\ w.range.to \in OIDs
  BY DEF Walks, Ranges
<1>2. w.seen[Len(w.seen)] \in OIDs
  BY <1>1
<1> QED BY <1>1, <1>2 DEF Onward, Ranges

\* What a step of the walk does to each column.
LEMMA StepFacts ==
  ASSUME RequestInv, StepWalk
  PROVE  /\ DOMAIN walk' = DOMAIN walk /\ walk' \in Seq(Walks) /\ ranges' \in Seq(Ranges)
         /\ \A i \in DOMAIN walk :
              /\ walk'[i].range = walk[i].range /\ walk'[i].due = walk[i].due
              /\ walk'[i].seen = Taken(walk[i]).seen
              /\ walk'[i].at = 0 <=> Taken(walk[i]).at = 0
              /\ walk'[i].at # 0 => /\ walk'[i].at \in DOMAIN ranges'
                                    /\ ranges'[walk'[i].at] = Onward(Taken(walk[i]))
                                    /\ kind' = "getNext" /\ response' = EmptyResponse
<1>0. phase = "idle" /\ answer.error = "noError"
  BY DEF StepWalk
<1>1. walk \in Seq(Walks) /\ \A i \in DOMAIN walk : walk[i] \in Walks /\ walk[i].at <= Len(ranges)
  BY DEF RequestInv, WalkTyped
<1>2. ASSUME NEW i \in DOMAIN walk
      PROVE  /\ Taken(walk[i]) \in Walks /\ Taken(walk[i]).range = walk[i].range
             /\ Taken(walk[i]).due = walk[i].due
             /\ Taken(walk[i]).at # 0 => Taken(walk[i]).seen # <<>>
  <2>1. PICK w \in Walks : w = walk[i] /\ w.at <= Len(ranges)
    BY <1>1
  <2>2. Taken(w) \in Walks /\ Taken(w).range = w.range /\ Taken(w).due = w.due
    BY <1>0, <2>1, TakenFacts
  <2>3. ASSUME Taken(w).at # 0 PROVE Taken(w).seen # <<>>
    <3>1. w.at # 0 /\ response.variables[w.at] \in Bindings
      BY <1>0, <2>1, <2>3, TakenFacts
    <3>2. Taken(w).seen = Append(w.seen, response.variables[w.at].name)
      BY <1>0, <2>1, <2>3, <3>1, TakenFacts
    <3>3. w.seen \in Seq(OIDs) /\ response.variables[w.at].name \in OIDs
      BY <3>1 DEF Walks, Bindings
    <3>4. Len(Taken(w).seen) = Len(w.seen) + 1 /\ Len(w.seen) \in Nat
      BY <3>2, <3>3, AppendProperties
    <3>5. Len(<<>>) = 0
      OBVIOUS
    <3> QED BY <3>4, <3>5
  <2> QED BY <2>1, <2>2, <2>3
<1>3. /\ DOMAIN Walked = DOMAIN walk /\ \A i \in DOMAIN walk : Walked[i] = Taken(walk[i])
      /\ Going = {i \in DOMAIN walk : Taken(walk[i]).at # 0}
  BY DEF Walked, Going
<1>4. PICK m \in Nat : DOMAIN walk = 1 .. m /\ m = Len(walk)
  BY <1>1
<1>5. CASE Going = {} /\ walk' = Walked /\ ranges' = ranges
  <2>1. walk' \in [1 .. m -> Walks]
    BY <1>2, <1>3, <1>4, <1>5 DEF Walked
  <2>2. walk' \in Seq(Walks)
    BY <2>1, SeqDef
  <2>3. \A i \in DOMAIN walk : walk'[i] = Taken(walk[i]) /\ Taken(walk[i]).at = 0
    BY <1>3, <1>5
  <2> QED BY <1>2, <1>3, <1>5, <2>2, <2>3 DEF RequestInv, Typed
<1>6. ASSUME NEW n \in 1 .. Len(walk), NEW column \in Bijection(1 .. n, Going),
             Ask("getNext", [k \in 1 .. n |-> Onward(Walked[column[k]])]),
             walk' = [i \in DOMAIN walk |->
               IF i \in Going THEN [Walked[i] EXCEPT !.at = CHOOSE k \in 1 .. n : column[k] = i]
                              ELSE Walked[i]]
      PROVE  /\ DOMAIN walk' = DOMAIN walk /\ walk' \in Seq(Walks) /\ ranges' \in Seq(Ranges)
             /\ \A i \in DOMAIN walk :
                  /\ walk'[i].range = walk[i].range /\ walk'[i].due = walk[i].due
                  /\ walk'[i].seen = Taken(walk[i]).seen
                  /\ walk'[i].at = 0 <=> Taken(walk[i]).at = 0
                  /\ walk'[i].at # 0 => /\ walk'[i].at \in DOMAIN ranges'
                                        /\ ranges'[walk'[i].at] = Onward(Taken(walk[i]))
                                        /\ kind' = "getNext" /\ response' = EmptyResponse
  <2>1. /\ column \in [1 .. n -> Going] /\ n \in Nat
        /\ \A i \in Going : \E k \in 1 .. n : column[k] = i
    BY <1>4 DEF Bijection, Injection, Surjection
  <2>2. /\ ranges' = [k \in 1 .. n |-> Onward(Walked[column[k]])]
        /\ kind' = "getNext" /\ response' = EmptyResponse
    BY <1>6 DEF Ask
  <2>3. \A k \in 1 .. n : column[k] \in DOMAIN walk /\ Onward(Walked[column[k]]) \in Ranges
    <3> SUFFICES ASSUME NEW k \in 1 .. n
                 PROVE  column[k] \in DOMAIN walk /\ Onward(Walked[column[k]]) \in Ranges
      OBVIOUS
    <3>1. PICK c \in Going : c = column[k]
      BY <2>1
    <3>2. c \in DOMAIN walk /\ Walked[c] \in Walks /\ Walked[c].seen # <<>>
      BY <1>2, <1>3
    <3> QED BY <3>1, <3>2, OnwardTyped
  <2>4. ranges' \in [1 .. n -> Ranges]
    BY <2>2, <2>3
  <2>5. ranges' \in Seq(Ranges) /\ DOMAIN ranges' = 1 .. n
    BY <2>1, <2>4, SeqDef
  <2>6. ASSUME NEW i \in DOMAIN walk
        PROVE  /\ walk'[i] \in Walks
               /\ walk'[i].range = walk[i].range /\ walk'[i].due = walk[i].due
               /\ walk'[i].seen = Taken(walk[i]).seen
               /\ walk'[i].at = 0 <=> Taken(walk[i]).at = 0
               /\ walk'[i].at # 0 => /\ walk'[i].at \in 1 .. n
                                     /\ ranges'[walk'[i].at] = Onward(Taken(walk[i]))
    <3>1. PICK t \in Walks : t = Taken(walk[i]) /\ t = Walked[i]
      BY <1>2, <1>3
    <3>2. CASE i \in Going
      <4>1. PICK k : k = CHOOSE j \in 1 .. n : column[j] = i
        OBVIOUS
      <4>2. k \in 1 .. n /\ column[k] = i
        BY <2>1, <3>2, <4>1
      <4>3. walk'[i] = [t EXCEPT !.at = k]
        BY <1>6, <3>1, <3>2, <4>1
      <4>4. walk'[i] \in Walks /\ walk'[i].at = k /\ k # 0
        BY <4>2, <4>3 DEF Walks
      <4>5. walk'[i].range = t.range /\ walk'[i].due = t.due /\ walk'[i].seen = t.seen
        BY <4>3 DEF Walks
      <4>6. t.at # 0
        BY <1>3, <3>1, <3>2
      <4>7. ranges'[k] = Onward(t)
        BY <2>2, <3>1, <4>2
      <4> QED BY <1>2, <3>1, <4>2, <4>4, <4>5, <4>6, <4>7
    <3>3. CASE i \notin Going
      <4>1. walk'[i] = t /\ t.at = 0
        BY <1>3, <1>6, <3>1, <3>3
      <4> QED BY <1>2, <3>1, <4>1
    <3> QED BY <3>2, <3>3
  <2>7. walk' \in [1 .. m -> Walks]
    BY <1>4, <1>6, <2>6
  <2>8. walk' \in Seq(Walks) /\ DOMAIN walk' = DOMAIN walk
    BY <1>4, <2>7, SeqDef
  <2> QED BY <2>2, <2>5, <2>6, <2>8
<1>7. CASE \E n \in 1 .. Len(walk) : \E column \in Bijection(1 .. n, Going) :
             /\ Ask("getNext", [k \in 1 .. n |-> Onward(Walked[column[k]])])
             /\ walk' = [i \in DOMAIN walk |->
                  IF i \in Going THEN [Walked[i] EXCEPT !.at = CHOOSE k \in 1 .. n : column[k] = i]
                                 ELSE Walked[i]]
  BY <1>6, <1>7
<1> QED BY <1>5, <1>7 DEF StepWalk

\* The columns of a walk that begins.
LEMMA StartFacts ==
  ASSUME RequestInv, StartWalk
  PROVE  \E c \in Seq(Ranges) :
           /\ Ask("getNext", c) /\ DOMAIN walk' = DOMAIN c /\ walk' \in Seq(Walks)
           /\ \A i \in DOMAIN c :
                /\ i \in Nat \ {0} /\ i <= Len(c)
                /\ walk'[i].range = c[i] /\ walk'[i].seen = <<>> /\ walk'[i].at = i
                /\ walk'[i].due = {o \in Listed : InRange(o, c[i].from, c[i].include, c[i].to)}
<1>1. PICK c \in Columns :
        /\ Ask("getNext", c)
        /\ walk' = [i \in DOMAIN c |->
             [range |-> c[i], seen |-> <<>>, at |-> i,
              due |-> {o \in Listed : InRange(o, c[i].from, c[i].include, c[i].to)}]]
  BY DEF StartWalk
<1>2. c \in Seq(Ranges)
  BY AnswersAssumption DEF Ranges
<1>3. PICK n \in Nat : DOMAIN c = 1 .. n /\ n = Len(c)
  BY <1>2
<1>4. Listed \subseteq OIDs
  BY ListHandlerAssumption DEF RequestInv, ListInv, ListTypeOK
<1>5. ASSUME NEW i \in DOMAIN c
      PROVE  /\ i \in Nat \ {0} /\ i <= Len(c) /\ walk'[i] \in Walks
             /\ walk'[i].range = c[i] /\ walk'[i].seen = <<>> /\ walk'[i].at = i
             /\ walk'[i].due = {o \in Listed : InRange(o, c[i].from, c[i].include, c[i].to)}
  <2>1. i \in Nat \ {0} /\ i <= Len(c) /\ c[i] \in Ranges
    BY <1>2, <1>3
  <2>2. PICK d \in SUBSET OIDs : d = {o \in Listed : InRange(o, c[i].from, c[i].include, c[i].to)}
    BY <1>4
  <2>3. walk'[i] = [range |-> c[i], seen |-> <<>>, at |-> i, due |-> d]
    BY <1>1, <2>2
  <2>4. <<>> \in Seq(OIDs)
    OBVIOUS
  <2> QED BY <2>1, <2>2, <2>3, <2>4 DEF Walks
<1>6. walk' \in [1 .. n -> Walks]
  BY <1>1, <1>3, <1>5
<1>7. walk' \in Seq(Walks) /\ DOMAIN walk' = DOMAIN c
  BY <1>3, <1>6, SeqDef
<1> QED BY <1>1, <1>2, <1>5, <1>7

\* What the master agent does keeps the invariant of the requests.
LEMMA MasterFits ==
  ASSUME RequestInv, MasterGets \/ StartWalk \/ StepWalk
  PROVE  RequestInv' /\ Listed' = Listed
<1>1. CASE MasterGets
  <2>1. PICK c \in Columns : walk = <<>> /\ Ask("get", c) /\ UNCHANGED walk
    BY <1>1 DEF MasterGets
  <2>2. c \in Seq(Ranges)
    BY AnswersAssumption DEF Ranges
  <2>3. WalkTyped'
    BY <2>1 DEF WalkTyped
  <2> QED BY <2>1, <2>2, <2>3, AskFits
<1>2. CASE StartWalk
  <2>1. PICK c \in Seq(Ranges) :
          /\ Ask("getNext", c) /\ DOMAIN walk' = DOMAIN c /\ walk' \in Seq(Walks)
          /\ \A i \in DOMAIN c : walk'[i].at = i /\ i <= Len(c)
    BY <1>2, StartFacts
  <2>2. ranges' = c
    BY <2>1 DEF Ask
  <2>3. WalkTyped'
    BY <2>1, <2>2 DEF WalkTyped
  <2> QED BY <2>1, <2>3, AskFits
<1>3. CASE StepWalk
  <2>1. /\ DOMAIN walk' = DOMAIN walk /\ walk' \in Seq(Walks) /\ ranges' \in Seq(Ranges)
        /\ \A i \in DOMAIN walk : walk'[i].at # 0 => walk'[i].at \in DOMAIN ranges'
    BY <1>3, StepFacts
  <2>2. WalkTyped'
    <3>1. PICK r \in Seq(Ranges) : r = ranges'
      BY <2>1
    <3>2. Len(r) \in Nat /\ \A k \in DOMAIN r : k <= Len(r)
      OBVIOUS
    <3>3. \A i \in DOMAIN walk' : walk'[i].at <= Len(r)
      BY <2>1, <3>1, <3>2
    <3> QED BY <2>1, <3>1, <3>3 DEF WalkTyped
  <2>3. CASE \E r : ranges' = r /\ Ask("getNext", r)
    <3>1. PICK r : ranges' = r /\ Ask("getNext", r)
      BY <2>3
    <3> QED BY <2>1, <2>2, <3>1, AskFits
  <2>4. CASE answer' = NoAnswer /\ UNCHANGED <<listVars, handler, phase, kind, ranges, response, asked>>
    <3>1. ListInv' /\ Listed' = Listed
      BY <2>4 DEF listVars, RequestInv, ListInv, ListTypeOK, Listed, ParseOID
    <3>2. NoAnswer \in Responses
      BY DEF NoAnswer, Responses, ErrorNames
    <3>3. Typed' /\ ResponseFits' /\ AnswerIsResponse'
      BY <2>4, <3>1, <3>2 DEF RequestInv, Typed, ResponseFits, Done, AnswerIsResponse, NoAnswer
    <3> QED BY <2>2, <3>1, <3>3 DEF RequestInv
  <2> QED BY <1>3, <2>3, <2>4 DEF StepWalk, Ask
<1> QED BY <1>1, <1>2, <1>3

\* Every step keeps the invariant of the requests.
LEMMA RequestStep ==
  ASSUME RequestInv, [Next]_vars
  PROVE  RequestInv' /\ (Plain /\ StrictlySorted => StrictlySorted')
<1>1. CASE Session
  <2>1. RequestInv' /\ oids' = oids
    BY <1>1, HandleNextFits, SessionFits
    DEF Session, HandleNext, HandleFails, HandleReturns, Send, listVars
  <2> QED BY <2>1 DEF StrictlySorted
<1>2. CASE Program
  BY <1>2, ProgramFits, ProgramKeepsList DEF RequestInv
<1>3. CASE MasterGets \/ StartWalk \/ StepWalk
  <2>1. RequestInv' /\ oids' = oids
    BY <1>3, MasterFits DEF MasterGets, StartWalk, StepWalk, Ask, listVars
  <2> QED BY <2>1 DEF StrictlySorted
<1>4. CASE UNCHANGED vars
  <2> USE <1>4 DEF vars, reqVars, listVars
  <2>1. ListInv' /\ Listed' = Listed /\ (StrictlySorted => StrictlySorted')
    BY DEF RequestInv, ListInv, ListTypeOK, Listed, ParseOID, StrictlySorted
  <2>2. Typed' /\ ResponseFits' /\ AnswerIsResponse' /\ WalkTyped'
    BY <2>1 DEF RequestInv, Typed, ResponseFits, Done, AnswerIsResponse, Marshals, WalkTyped
  <2> QED BY <2>1, <2>2 DEF RequestInv
<1> QED BY <1>1, <1>2, <1>3, <1>4 DEF Next

\* The invariant of the requests holds throughout.
THEOREM RequestsInvariance == Spec => []RequestInv
<1>1. Init => RequestInv
  BY RequestInit
<1>2. RequestInv /\ [Next]_vars => RequestInv'
  BY RequestStep
<1> QED BY <1>1, <1>2, PTL DEF Spec

\* The list and its items stay in step, whatever texts are added, and a response
\* never has more bindings than there are ranges (ListHandler, Session.handle).
THEOREM AnswersTypesCorrect == Spec => []TypeOK
<1>1. RequestInv => TypeOK
  BY DEF RequestInv, ListInv, Typed, ResponseFits, TypeOK
<1> QED BY <1>1, RequestsInvariance, PTL

\* Every answer without error has one binding per range, in order, each within
\* its range and encodable, or the exception at its start; every failure has no
\* bindings (Session.handle, Client.send): for any ranges, and items added and
\* set at any moment.
THEOREM AnswersFitTheirRanges == Spec => []AnswersFit
<1>1. RequestInv => AnswersFit
  <2> SUFFICES ASSUME RequestInv, phase = "idle", answer # NoAnswer
               PROVE  IF answer.error = "noError"
                      THEN /\ answer.index = 0 /\ Len(answer.variables) = Len(ranges)
                           /\ \A i \in DOMAIN ranges :
                                LET b == answer.variables[i]
                                    r == ranges[i] IN
                                /\ b.value \in Encodable \cup Exceptions
                                /\ kind = "get" \/ b.value = "endOfMibView" => b.name = r.from
                                /\ kind = "getNext" /\ b.value # "endOfMibView" =>
                                     InRange(b.name, r.from, r.include, r.to) /\ b.name \in Listed
                      ELSE answer.index \in 0 .. Len(ranges) /\ answer.variables = <<>>
    BY DEF AnswersFit
  <2>1. CASE answer.error = "noError"
    <3>1. /\ answer = response /\ Marshals(response) /\ Len(response.variables) = Len(ranges)
          /\ response.variables \in Seq(Bindings) /\ ranges \in Seq(Ranges)
      BY <2>1, GoodAnswer DEF RequestInv, Typed
    <3>2. DOMAIN ranges = DOMAIN response.variables
      BY <3>1
    <3>3. ResponseFits
      BY DEF RequestInv
    <3> QED BY <2>1, <3>1, <3>2, <3>3 DEF ResponseFits, Fits, Marshals
  <2>2. CASE answer.error # "noError"
    <3>1. Len(ranges) \in Nat
      BY DEF RequestInv, Typed
    <3> QED BY <2>2, <3>1 DEF RequestInv, AnswerIsResponse, ResponseFits, Fallback
  <2> QED BY <2>1, <2>2
<1> QED BY <1>1, RequestsInvariance, PTL

\* The list stays sorted without repetitions and GetNext answers with the least
\* oid of the range, by the lexicographic order, for every list that can be built
\* from texts without leading zeros and every range (SortOIDs, CompareOIDs,
\* oidWithin, GetNext).
THEOREM GetNextAnswersLeast ==
  ASSUME Plain
  PROVE  Spec => []GetNextIsLeast
<1>1. Init => RequestInv /\ StrictlySorted
  BY RequestInit
<1>2. RequestInv /\ StrictlySorted /\ [Next]_vars => RequestInv' /\ StrictlySorted'
  BY RequestStep
<1>3. RequestInv /\ StrictlySorted => GetNextIsLeast
  <2> SUFFICES ASSUME RequestInv, StrictlySorted PROVE GetNextLeast
    BY DEF GetNextIsLeast
  <2> SUFFICES ASSUME NEW from \in Names \cup {<<>>}, NEW to \in Names \cup {NoTo},
                      NEW include \in BOOLEAN
               PROVE  LET range == {o \in Listed : InRange(o, from, include, to)}
                          next  == GetNext(from, include, to).name
                      IN  IF range = {} THEN next = NoOID
                          ELSE next \in range /\ \A o \in range \ {next} : Precedes(next, o)
    BY DEF GetNextLeast
  <2>1. PICK r \in Ranges : r.from = from /\ r.include = include /\ r.to = to
    <3>1. from \in OIDs /\ to \in OIDs
      <4>1. <<>> \in OIDs
        BY DEF OIDs
      <4> QED BY <4>1, ListHandlerAssumption DEF NoTo
    <3>2. [from |-> from, include |-> include, to |-> to] \in Ranges
      BY <3>1 DEF Ranges
    <3> QED BY <3>2
  <2>2. IsNext(GetNext(from, include, to), Listed, r)
    BY <2>1, GetNextFindsLeast DEF RequestInv
  <2> QED BY <2>1, <2>2 DEF IsNext
<1> QED BY <1>1, <1>2, <1>3, PTL DEF Spec
-----------------------------------------------------------------------------
(* Walks *)

In(o, r) == InRange(o, r.from, r.include, r.to)

\* What a column has still to be asked for.
Rest(w) == IF w.seen = <<>> THEN w.range ELSE Onward(w)

SeenFits(w) ==
  /\ Increasing(w.seen)
  /\ \A n \in DOMAIN w.seen : In(w.seen[n], w.range)

\* The oid d of a column is not passed over by the binding b.
Reaches(b, d) == b.value # "endOfMibView" /\ (d = b.name \/ Precedes(b.name, d))

\* A column has its place in the request for as long as it goes on.  What was
\* there when it began, and has not been seen, is in the range it asks for, and is
\* not passed over by the answer to that range.
Column(w) ==
  /\ SeenFits(w) /\ w.due \subseteq Listed
  /\ w.at = 0 /\ handler # "none" => w.due \subseteq Range(w.seen)
  /\ w.at # 0 => kind = "getNext" /\ w.at \in DOMAIN ranges /\ ranges[w.at] = Rest(w)
  /\ w.at # 0 /\ handler # "none" => \A d \in w.due \ Range(w.seen) : In(d, Rest(w))
  /\ w.at # 0 /\ handler # "none" /\ w.at \in DOMAIN response.variables =>
       \A d \in w.due \ Range(w.seen) : Reaches(response.variables[w.at], d)

WalkInv == \A i \in DOMAIN walk : Column(walk[i])

\* The answer to a range passes over nothing that is listed in it.
LEMMA AnswerReaches ==
  ASSUME ListInv, StrictlySorted, Plain, kind = "getNext", handler # "none",
         NEW r \in Ranges, NEW d \in Listed, In(d, r)
  PROVE  Reaches(Answer(r), d)
<1>1. PICK f : f = GetNext(r.from, r.include, r.to)
  OBVIOUS
<1>2. IsNext(f, Listed, r)
  BY <1>1, GetNextFindsLeast
<1>3. /\ f.name # NoOID /\ f.value \in Values \cup {Unset}
      /\ d # f.name => Precedes(f.name, d)
  BY <1>2 DEF IsNext, In
<1>4. Answer(r) = [name |-> f.name, value |-> f.value]
  BY <1>1, <1>3 DEF Answer, Binding
<1>5. f.value # "endOfMibView"
  BY <1>3, ListHandlerAssumption DEF Exceptions, Unset
<1> QED BY <1>3, <1>4, <1>5 DEF Reaches

\* A column that takes in an oid of what it asked for stays increasing and in its
\* range, and goes on after that oid.
LEMMA TakingFits ==
  ASSUME NEW w \in Walks, NEW v \in Walks, NEW name \in OIDs, SeenFits(w), In(name, Rest(w)),
         v.range = w.range, v.seen = Append(w.seen, name)
  PROVE  /\ SeenFits(v) /\ Range(v.seen) = Range(w.seen) \cup {name}
         /\ Rest(v) = [from |-> name, include |-> FALSE, to |-> w.range.to]
         /\ Rest(w).to = w.range.to
<1>1. PICK s \in Seq(OIDs) : s = w.seen
  BY DEF Walks
<1>2. PICK t \in Seq(OIDs) : t = v.seen
  BY DEF Walks
<1>3. PICK n \in Nat : n = Len(s) /\ DOMAIN s = 1 .. n
  BY <1>1
<1>4. /\ Len(t) = n + 1 /\ DOMAIN t = 1 .. n + 1 /\ t[n + 1] = name
      /\ \A i \in 1 .. n : t[i] = s[i] /\ s[i] \in OIDs
  BY <1>1, <1>2, <1>3
<1>5. w.range.from \in OIDs /\ w.range.to \in OIDs /\ w.range.include \in BOOLEAN
  BY DEF Walks, Ranges
<1>6. Rest(v) = [from |-> name, include |-> FALSE, to |-> w.range.to]
  <2>1. t # <<>>
    BY <1>4
  <2> QED BY <1>2, <1>4, <2>1 DEF Rest, Onward
<1>7. Rest(w).to = w.range.to
  BY DEF Rest, Onward
<1>8. \A i \in 1 .. n : Precedes(s[i], name)
  <2> SUFFICES ASSUME NEW i \in 1 .. n PROVE Precedes(s[i], name)
    OBVIOUS
  <2>1. s # <<>> /\ n \in 1 .. n
    BY <1>3
  <2>2. Rest(w) = [from |-> s[n], include |-> FALSE, to |-> w.range.to]
    BY <1>1, <1>3, <2>1 DEF Rest, Onward
  <2>3. Precedes(s[n], name)
    BY <2>2 DEF In, InRange
  <2>4. i < n => Precedes(s[i], s[n])
    BY <1>1, <1>3, <2>1 DEF SeenFits, Increasing
  <2>5. s[i] \in OIDs /\ s[n] \in OIDs
    BY <1>4, <2>1
  <2>6. CASE i < n
    BY <2>3, <2>4, <2>5, <2>6, PrecedesTransitive
  <2>7. CASE i = n
    BY <2>3, <2>7
  <2> QED BY <2>6, <2>7
<1>9. In(name, w.range)
  <2>1. CASE s = <<>>
    BY <1>1, <2>1 DEF Rest
  <2>2. CASE s # <<>>
    <3>1. 1 \in 1 .. n
      <4>1. n # 0
        BY <1>3, <2>2
      <4> QED BY <4>1
    <3>2. In(s[1], w.range) /\ Precedes(s[1], name) /\ s[1] \in OIDs
      BY <1>1, <1>3, <1>4, <1>8, <3>1 DEF SeenFits
    <3>3. Precedes(w.range.from, name)
      BY <1>5, <3>2, PrecedesTransitive DEF In, InRange
    <3>4. w.range.to = NoTo \/ Precedes(name, w.range.to)
      BY <1>7 DEF In, InRange
    <3> QED BY <3>3, <3>4 DEF In, InRange
  <2> QED BY <2>1, <2>2
<1>10. SeenFits(v)
  <2>1. \A i, j \in 1 .. n + 1 : i < j => Precedes(t[i], t[j])
    <3> SUFFICES ASSUME NEW i \in 1 .. n + 1, NEW j \in 1 .. n + 1, i < j
                 PROVE  Precedes(t[i], t[j])
      OBVIOUS
    <3>1. i \in 1 .. n
      OBVIOUS
    <3>2. CASE j = n + 1
      BY <1>4, <1>8, <3>1, <3>2
    <3>3. CASE j # n + 1
      <4>1. j \in 1 .. n
        BY <3>3
      <4>2. Precedes(s[i], s[j])
        BY <1>1, <1>3, <3>1, <4>1 DEF SeenFits, Increasing
      <4> QED BY <1>4, <3>1, <4>1, <4>2
    <3> QED BY <3>2, <3>3
  <2>2. ASSUME NEW i \in 1 .. n + 1 PROVE In(t[i], v.range)
    <3>1. CASE i = n + 1
      BY <1>4, <1>9, <3>1
    <3>2. CASE i # n + 1
      <4>1. i \in 1 .. n
        BY <3>2
      <4> QED BY <1>1, <1>3, <1>4, <4>1 DEF SeenFits
    <3> QED BY <3>1, <3>2
  <2> QED BY <1>2, <1>4, <2>1, <2>2 DEF SeenFits, Increasing
<1>11. Range(v.seen) = Range(w.seen) \cup {name}
  <2>1. Range(t) = {t[i] : i \in 1 .. n + 1} /\ Range(s) = {s[i] : i \in 1 .. n}
    BY <1>3, <1>4 DEF Range
  <2>2. ASSUME NEW x \in Range(t) PROVE x \in Range(s) \cup {name}
    BY <1>4, <2>1
  <2>3. ASSUME NEW x \in Range(s) \cup {name} PROVE x \in Range(t)
    BY <1>4, <2>1
  <2> QED BY <1>1, <1>2, <2>2, <2>3
<1> QED BY <1>6, <1>7, <1>10, <1>11
\* A range is answered: the column that asked for it learns what comes next.
LEMMA HandleNextWalks ==
  ASSUME RequestInv, StrictlySorted, Plain, WalkInv, HandleNext
  PROVE  WalkInv'
<1> USE DEF listVars
<1>1. UNCHANGED <<oids, items, handler, kind, ranges, walk>> /\ Listed' = Listed
  BY HandleNextFits DEF HandleNext
<1>2. PICK vs \in Seq(Bindings) : vs = response.variables
  BY DEF RequestInv, Typed, Responses
<1>3. PICK b : b = Answer(ranges[Len(vs) + 1])
  OBVIOUS
<1>4. response'.variables = Append(vs, b)
  BY <1>2, <1>3 DEF HandleNext, RequestInv, Typed, Responses
<1>5. ASSUME NEW i \in DOMAIN walk PROVE Column(walk[i])'
  <2>1. PICK w \in Walks : w = walk[i] /\ Column(w)
    BY DEF RequestInv, WalkTyped, WalkInv
  <2>2. ASSUME w.at # 0, handler # "none", w.at \in DOMAIN response'.variables,
               NEW d \in w.due \ Range(w.seen)
        PROVE  Reaches(response'.variables[w.at], d)
    <3>1. /\ kind = "getNext" /\ w.at \in DOMAIN ranges /\ ranges[w.at] = Rest(w)
          /\ In(d, Rest(w)) /\ d \in Listed
      BY <2>1, <2>2 DEF Column
    <3>2. ranges[w.at] \in Ranges
      BY <3>1 DEF RequestInv, Typed
    <3>3. CASE w.at \in DOMAIN vs
      <4>1. response'.variables[w.at] = vs[w.at]
        BY <1>2, <1>4, <3>3
      <4>2. Reaches(vs[w.at], d)
        BY <1>2, <2>1, <2>2, <3>3 DEF Column
      <4> QED BY <4>1, <4>2
    <3>4. CASE w.at = Len(vs) + 1
      <4>1. response'.variables[w.at] = b
        BY <1>2, <1>4, <3>4
      <4>2. Reaches(b, d)
        BY <1>3, <2>2, <3>1, <3>2, <3>4, AnswerReaches DEF RequestInv
      <4> QED BY <4>1, <4>2
    <3> QED BY <1>2, <1>4, <2>2, <3>3, <3>4
  <2> QED BY <1>1, <2>1, <2>2 DEF Column
<1> QED BY <1>1, <1>5 DEF WalkInv

\* Steps that answer no range, and that at most add to the list, leave the
\* columns as they are.
LEMMA QuietWalks ==
  ASSUME WalkInv, Listed \subseteq Listed', UNCHANGED <<handler, kind, ranges, walk>>,
         response'.variables = response.variables \/ response'.variables = <<>>
  PROVE  WalkInv'
<1>1. ASSUME NEW i \in DOMAIN walk PROVE Column(walk[i])'
  <2>1. PICK w : w = walk[i] /\ Column(w)
    BY DEF WalkInv
  <2>2. w.due \subseteq Listed'
    BY <2>1 DEF Column
  <2>3. CASE response'.variables = response.variables
    BY <2>1, <2>2, <2>3 DEF Column
  <2>4. CASE response'.variables = <<>>
    <3>1. DOMAIN response'.variables = {}
      BY <2>4
    <3> QED BY <2>1, <2>2, <3>1 DEF Column
  <2> QED BY <2>3, <2>4
<1> QED BY <1>1 DEF WalkInv

\* A column that begins has everything before it.
LEMMA StartWalks ==
  ASSUME RequestInv, StartWalk
  PROVE  WalkInv'
<1>1. PICK c \in Seq(Ranges) :
         /\ Ask("getNext", c) /\ DOMAIN walk' = DOMAIN c /\ walk' \in Seq(Walks)
         /\ \A i \in DOMAIN c :
              /\ i \in Nat \ {0} /\ i <= Len(c)
              /\ walk'[i].range = c[i] /\ walk'[i].seen = <<>> /\ walk'[i].at = i
              /\ walk'[i].due = {o \in Listed : InRange(o, c[i].from, c[i].include, c[i].to)}
  BY StartFacts
<1>2. /\ kind' = "getNext" /\ ranges' = c /\ response'.variables = <<>> /\ handler' = handler
      /\ Listed' = Listed
  BY <1>1, MasterFits DEF Ask, EmptyResponse
<1>3. ASSUME NEW i \in DOMAIN c PROVE Column(walk[i])'
  <2>1. PICK w \in Walks : w = walk'[i]
    BY <1>1
  <2>2. /\ w.range = c[i] /\ w.seen = <<>> /\ w.at = i /\ i # 0
        /\ \A d \in w.due : d \in Listed' /\ In(d, w.range)
    BY <1>1, <1>2, <2>1 DEF In
  <2>3. Rest(w) = c[i] /\ SeenFits(w)
    BY <2>2 DEF Rest, SeenFits, Increasing
  <2>4. DOMAIN response'.variables = {}
    BY <1>2
  <2> QED BY <1>2, <2>1, <2>2, <2>3, <2>4 DEF Column
<1> QED BY <1>1, <1>3 DEF WalkInv

\* A column that takes in its answer has passed nothing over, and has ended only
\* when nothing was left.
LEMMA StepWalks ==
  ASSUME RequestInv, WalkInv, StepWalk
  PROVE  WalkInv'
<1>0. /\ phase = "idle" /\ answer.error = "noError" /\ handler' = handler /\ Listed' = Listed
  BY MasterFits DEF StepWalk, Ask
<1>1. /\ DOMAIN walk' = DOMAIN walk /\ walk' \in Seq(Walks) /\ ranges' \in Seq(Ranges)
  BY StepFacts
<1>2. ASSUME NEW i \in DOMAIN walk PROVE Column(walk[i])'
  <2>1. PICK w \in Walks : w = walk[i] /\ Column(w) /\ w.at <= Len(ranges)
    BY DEF RequestInv, WalkTyped, WalkInv
  <2>2. PICK v \in Walks : v = walk'[i]
    BY <1>1
  <2>3. /\ v.range = w.range /\ v.due = w.due /\ v.seen = Taken(w).seen
        /\ v.at = 0 <=> Taken(w).at = 0
        /\ v.at # 0 => /\ v.at \in DOMAIN ranges' /\ ranges'[v.at] = Onward(Taken(w))
                       /\ kind' = "getNext" /\ response' = EmptyResponse
    BY <2>1, <2>2, StepFacts
  <2>4. SeenFits(w) /\ w.due \subseteq Listed'
    BY <1>0, <2>1 DEF Column
  <2>5. CASE w.at = 0
    <3>1. v.at = 0 /\ v.seen = w.seen
      BY <1>0, <2>1, <2>3, <2>5, TakenFacts
    <3>2. SeenFits(v) /\ (handler # "none" => v.due \subseteq Range(v.seen))
      BY <2>1, <2>3, <2>4, <2>5, <3>1 DEF SeenFits, Column
    <3> QED BY <1>0, <2>2, <2>3, <2>4, <3>1, <3>2 DEF Column
  <2>6. CASE w.at # 0
    <3>1. PICK b \in Bindings : b = response.variables[w.at]
      BY <1>0, <2>1, <2>6, TakenFacts
    <3>2. w.at \in DOMAIN response.variables
      BY <1>0, <2>1, <2>6, TakenFacts
    <3>3. /\ kind = "getNext" /\ ranges[w.at] = Rest(w)
          /\ handler # "none" => \A d \in w.due \ Range(w.seen) : In(d, Rest(w)) /\ Reaches(b, d)
      BY <2>1, <2>6, <3>1, <3>2 DEF Column
    <3>4. CASE b.value = "endOfMibView"
      <4>1. v.at = 0 /\ v.seen = w.seen
        BY <1>0, <2>1, <2>3, <2>6, <3>1, <3>4, TakenFacts
      <4>2. handler # "none" => v.due \subseteq Range(v.seen)
        BY <2>3, <3>3, <3>4, <4>1 DEF Reaches
      <4>3. SeenFits(v)
        BY <2>3, <2>4, <4>1 DEF SeenFits
      <4> QED BY <1>0, <2>2, <2>3, <2>4, <4>1, <4>2, <4>3 DEF Column
    <3>5. CASE b.value # "endOfMibView"
      <4>1. v.at # 0 /\ v.seen = Append(w.seen, b.name)
        BY <1>0, <2>1, <2>3, <2>6, <3>1, <3>5, TakenFacts
      <4>2. In(b.name, Rest(w)) /\ b.name \in OIDs
        <5>1. Fits(b, ranges[w.at], kind, Listed)
          BY <3>1, <3>2 DEF RequestInv, ResponseFits
        <5> QED BY <3>1, <3>3, <3>5, <5>1 DEF Fits, In, Bindings
      <4>3. /\ SeenFits(v) /\ Range(v.seen) = Range(w.seen) \cup {b.name}
            /\ Rest(v) = [from |-> b.name, include |-> FALSE, to |-> w.range.to]
            /\ Rest(w).to = w.range.to
        BY <2>3, <2>4, <4>1, <4>2, TakingFits
      <4>4. ranges'[v.at] = Rest(v)
        <5>1. v.seen # <<>>
          <6>1. w.seen \in Seq(OIDs)
            BY DEF Walks
          <6>2. Len(v.seen) = Len(w.seen) + 1 /\ Len(w.seen) \in Nat /\ Len(<<>>) = 0
            BY <4>1, <4>2, <6>1, AppendProperties
          <6> QED BY <6>2
        <5>2. Taken(w).seen = v.seen /\ Taken(w).range = v.range
          BY <1>0, <2>1, <2>3, TakenFacts
        <5> QED BY <2>3, <4>1, <5>1, <5>2 DEF Rest, Onward
      <4>5. ASSUME handler # "none", NEW d \in v.due \ Range(v.seen) PROVE In(d, Rest(v))
        <5>1. d \in w.due \ Range(w.seen) /\ d # b.name
          BY <2>3, <4>3, <4>5
        <5>2. In(d, Rest(w)) /\ Precedes(b.name, d)
          BY <3>3, <4>5, <5>1 DEF Reaches
        <5> QED BY <4>3, <5>2 DEF In, InRange
      <4>6. DOMAIN response'.variables = {} /\ kind' = "getNext" /\ v.at \in DOMAIN ranges'
        BY <2>3, <4>1 DEF EmptyResponse
      <4> QED BY <1>0, <2>2, <2>3, <2>4, <4>1, <4>3, <4>4, <4>5, <4>6 DEF Column
    <3> QED BY <3>4, <3>5
  <2> QED BY <2>5, <2>6
<1> QED BY <1>1, <1>2 DEF WalkInv

\* A walk of a table visits each oid of a column at most once, in increasing order
\* and within its range, and has visited all that was there when it began by the
\* time it ends, for any tables, columns and number of requests, whatever is added
\* and set meanwhile (ListHandler.GetNext, Session.handle).  Texts with leading
\* zeros are left out: GetNext finds no item for them, and the walk stops there.
THEOREM WalksAreComplete ==
  ASSUME Plain
  PROVE  Spec => []WalkIsComplete
<1> DEFINE Inv == RequestInv /\ StrictlySorted /\ WalkInv
<1>1. Init => Inv
  <2> SUFFICES ASSUME Init PROVE WalkInv
    BY RequestInit
  <2>1. DOMAIN walk = {}
    BY DEF Init
  <2> QED BY <2>1 DEF WalkInv
<1>2. Inv /\ [Next]_vars => Inv'
  <2> SUFFICES ASSUME Inv, [Next]_vars PROVE WalkInv'
    BY RequestStep
  <2>1. CASE HandleNext
    BY <2>1, HandleNextWalks
  <2>2. CASE HandleFails \/ HandleReturns \/ Send
    <3>1. Listed' = Listed
      BY <2>2, SessionFits
    <3>2. response'.variables = response.variables \/ response'.variables = <<>>
      BY <2>2 DEF HandleFails, HandleReturns, Send, Failure
    <3> QED BY <2>2, <3>1, <3>2, QuietWalks DEF HandleFails, HandleReturns, Send
  <2>3. CASE Program
    <3>1. Listed \subseteq Listed' /\ UNCHANGED <<reqVars, walk>>
      BY <2>3, ProgramKeepsList DEF RequestInv, Program
    <3> QED BY <3>1, QuietWalks DEF reqVars
  <2>4. CASE MasterGets
    <3>1. walk' = <<>>
      BY <2>4 DEF MasterGets
    <3>2. DOMAIN walk' = {}
      BY <3>1
    <3> QED BY <3>2 DEF WalkInv
  <2>5. CASE StartWalk
    BY <2>5, StartWalks
  <2>6. CASE StepWalk
    BY <2>6, StepWalks
  <2>7. CASE UNCHANGED vars
    BY <2>7, QuietWalks DEF vars, reqVars, listVars, Listed
  <2> QED BY <2>1, <2>2, <2>3, <2>4, <2>5, <2>6, <2>7 DEF Next, Session
<1>3. Inv => WalkIsComplete
  BY DEF WalkInv, Column, SeenFits, In, WalkIsComplete
<1> QED BY <1>1, <1>2, <1>3, PTL DEF Spec
=============================================================================
