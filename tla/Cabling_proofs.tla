---------------------------- MODULE Cabling_proofs ----------------------------
(***************************************************************************)
(* The slot arithmetic of cabling.py keeps siblings apart, and the runs    *)
(* that carry it out leave the cables as the design plans them and prune   *)
(* no interface: for any number of pods and racks, any sizes and indexes,  *)
(* any workers, any replaced devices and any dying runs, as long as what   *)
(* has been cabled is not moved.                                           *)
(***************************************************************************)
EXTENDS Cabling, WellFoundedInduction, FiniteSetTheorems, TLAPS

\* No number stands twice in a list.
Distinct(seq) == \A x, y \in 1..Len(seq) : seq[x] = seq[y] => x = y

\* The list a is where b begins.
Prefix(a, b) == Len(a) <= Len(b) /\ \A x \in 1..Len(a) : b[x] = a[x]

-----------------------------------------------------------------------------
(* Lists                                                                    *)

LEMMA ElementsOf ==
    ASSUME NEW seq \in Seq(Nat)
    PROVE  /\ Len(seq) \in Nat /\ ToSet(seq) = {seq[x] : x \in 1..Len(seq)}
           /\ \A x \in 1..Len(seq) : seq[x] \in ToSet(seq) /\ seq[x] \in Nat
<1>1. Len(seq) \in Nat /\ DOMAIN seq = 1..Len(seq) /\ \A x \in 1..Len(seq) : seq[x] \in Nat
  OBVIOUS
<1>. QED
  BY <1>1, Zenon DEF ToSet

LEMMA Appended ==
    ASSUME NEW seq \in Seq(Nat), NEW e \in Nat, NEW new, new = Append(seq, e)
    PROVE  /\ new \in Seq(Nat) /\ Len(new) = Len(seq) + 1
           /\ \A x \in 1..Len(seq) : new[x] = seq[x]
           /\ new[Len(seq) + 1] = e
           /\ ToSet(new) = ToSet(seq) \cup {e}
           /\ Distinct(seq) /\ e \notin ToSet(seq) => Distinct(new)
<1>1. /\ new \in Seq(Nat) /\ Len(new) = Len(seq) + 1 /\ Len(seq) \in Nat
      /\ \A x \in 1..Len(seq) : new[x] = seq[x]
      /\ new[Len(seq) + 1] = e
  OBVIOUS
<1>2. 1..Len(new) = 1..Len(seq) \cup {Len(seq) + 1}
  BY <1>1
<1>3. /\ ToSet(new) = {new[x] : x \in 1..Len(new)}
      /\ ToSet(seq) = {seq[x] : x \in 1..Len(seq)}
  BY <1>1, ElementsOf
<1>4. ToSet(new) = ToSet(seq) \cup {e}
  BY <1>1, <1>2, <1>3
<1>5. ASSUME Distinct(seq), e \notin ToSet(seq), NEW x \in 1..Len(new), NEW y \in 1..Len(new),
             new[x] = new[y]
      PROVE  x = y
  <2>1. \A z \in 1..Len(seq) : new[z] # e
    BY <1>1, <1>3, <1>5
  <2>2. CASE x \in 1..Len(seq) /\ y \in 1..Len(seq)
    BY <1>1, <1>5, <2>2 DEF Distinct
  <2>. QED
    BY <1>1, <1>2, <1>5, <2>1, <2>2
<1>. QED
  BY <1>1, <1>4, <1>5 DEF Distinct

LEMMA Joined ==
    ASSUME NEW a \in Seq(Nat), NEW b \in Seq(Nat), NEW c, c = a \o b
    PROVE  /\ c \in Seq(Nat) /\ Len(c) = Len(a) + Len(b)
           /\ \A x \in 1..Len(a) : x \in 1..Len(c) /\ c[x] = a[x]
           /\ \A x \in 1..Len(b) : x + Len(a) \in 1..Len(c) /\ c[x + Len(a)] = b[x]
           /\ \A x \in 1..Len(c) : x \in 1..Len(a) \/ x - Len(a) \in 1..Len(b)
           /\ ToSet(c) = ToSet(a) \cup ToSet(b)
<1>1. c \in Seq(Nat) /\ Len(c) = Len(a) + Len(b) /\ Len(a) \in Nat /\ Len(b) \in Nat
  OBVIOUS
<1>2. \A x \in 1..Len(a) : x \in 1..Len(c) /\ c[x] = a[x]
  BY <1>1
<1>3. ASSUME NEW x \in 1..Len(b) PROVE x + Len(a) \in 1..Len(c) /\ c[x + Len(a)] = b[x]
  <2>1. x + Len(a) \in 1..(Len(a) + Len(b)) /\ x + Len(a) > Len(a) /\ (x + Len(a)) - Len(a) = x
    BY <1>1
  <2>. QED
    BY <1>1, <2>1
<1>4. \A x \in 1..Len(c) : x \in 1..Len(a) \/ x - Len(a) \in 1..Len(b)
  BY <1>1
<1>5. \A x \in 1..Len(c) : c[x] \in ToSet(a) \cup ToSet(b)
  <2>. SUFFICES ASSUME NEW x \in 1..Len(c) PROVE c[x] \in ToSet(a) \cup ToSet(b)
    OBVIOUS
  <2>1. CASE x \in 1..Len(a)
    BY <1>2, <2>1, ElementsOf
  <2>2. CASE x - Len(a) \in 1..Len(b)
    <3>1. c[(x - Len(a)) + Len(a)] = b[x - Len(a)] /\ (x - Len(a)) + Len(a) = x
      BY <1>1, <1>3, <2>2
    <3>. QED
      BY <2>2, <3>1, ElementsOf
  <2>. QED
    BY <1>4, <2>1, <2>2
<1>6. ToSet(a) \cup ToSet(b) \subseteq ToSet(c)
  <2>1. /\ ToSet(a) = {a[x] : x \in 1..Len(a)} /\ ToSet(b) = {b[x] : x \in 1..Len(b)}
        /\ ToSet(c) = {c[x] : x \in 1..Len(c)}
    BY <1>1, ElementsOf
  <2>2. ASSUME NEW e \in ToSet(a) PROVE e \in ToSet(c)
    BY <1>2, <2>1, <2>2
  <2>3. ASSUME NEW e \in ToSet(b) PROVE e \in ToSet(c)
    BY <1>3, <2>1, <2>3
  <2>. QED
    BY <2>2, <2>3
<1>7. ToSet(c) = {c[x] : x \in 1..Len(c)}
  BY <1>1, ElementsOf
<1>. QED
  BY <1>1, <1>2, <1>3, <1>4, <1>5, <1>6, <1>7

\* What stands in a list stands in one that goes on from it.
LEMMA PrefixKeeps ==
    ASSUME NEW a \in Seq(Nat), NEW b \in Seq(Nat), Prefix(a, b) PROVE ToSet(a) \subseteq ToSet(b)
<1>. SUFFICES ASSUME NEW e \in ToSet(a) PROVE e \in ToSet(b)
  OBVIOUS
<1>1. PICK x \in 1..Len(a) : e = a[x]
  BY ElementsOf
<1>2. x \in 1..Len(b) /\ b[x] = a[x]
  BY ElementsOf DEF Prefix
<1>. QED
  BY <1>1, <1>2, ElementsOf

\* Only(seq, S) after n elements, from what it was before the n-th.
Take(seq, S, f, n) == IF n = 0 THEN << >>
                      ELSE IF seq[n] \in S THEN Append(f[n - 1], seq[n]) ELSE f[n - 1]

\* There is a list for every number of elements looked at.
LEMMA OnlyExists ==
    ASSUME NEW seq \in Seq(Nat), NEW S
    PROVE  \E f : f = [n \in 0..Len(seq) |-> Take(seq, S, f, n)]
<1>. DEFINE Upto(k) == \E f : f = [n \in 0..k |-> Take(seq, S, f, n)]
            Bad == {k \in Nat : ~Upto(k)}
<1>1. Bad = {}
  <2>. SUFFICES ASSUME Bad # {} PROVE FALSE
    OBVIOUS
  <2>1. PICK k \in Bad : \A m \in Bad : ~(<<m, k>> \in OpToRel(<, Nat))
    <3>1. Bad \subseteq Nat
      OBVIOUS
    <3>. HIDE DEF Bad
    <3>. QED
      BY <3>1, NatLessThanWellFounded, WFMin, Zenon
  <2>2. CASE k = 0
    <3>. DEFINE g == [n \in 0..0 |-> << >>]
    <3>1. g = [n \in 0..0 |-> Take(seq, S, g, n)]
      BY DEF Take
    <3>2. Upto(k)
      BY <2>2, <3>1
    <3>. QED
      BY <2>1, <3>2
  <2>3. CASE k # 0
    <3>1. k \in Nat /\ k - 1 \in Nat
      BY <2>3
    <3>2. k - 1 \notin Bad
      <4>. HIDE DEF Bad
      <4>1. k - 1 < k
        BY <3>1
      <4>2. <<k - 1, k>> \in OpToRel(<, Nat)
        BY <3>1, <4>1, Zenon DEF OpToRel
      <4>. QED
        BY <2>1, <4>2, Zenon
    <3>3. PICK f : f = [n \in 0..(k - 1) |-> Take(seq, S, f, n)]
      BY <3>1, <3>2
    <3>. DEFINE g == [n \in 0..k |-> IF n = k THEN Take(seq, S, f, k) ELSE f[n]]
    <3>4. ASSUME NEW n \in 0..k PROVE g[n] = Take(seq, S, g, n)
      <4>1. n # 0 => n - 1 \in 0..(k - 1) /\ g[n - 1] = f[n - 1]
        BY <3>1
      <4>2. n # k => n \in 0..(k - 1) /\ f[n] = Take(seq, S, f, n)
        <5>1. n # k => n \in 0..(k - 1)
          BY <3>1
        <5>. QED
          BY <3>3, <5>1
      <4>. HIDE DEF g
      <4>3. Take(seq, S, g, n) = Take(seq, S, f, n)
        BY <4>1 DEF Take
      <4>4. g[n] = IF n = k THEN Take(seq, S, f, k) ELSE f[n]
        BY DEF g
      <4>. QED
        BY <4>2, <4>3, <4>4
    <3>5. g = [n \in 0..k |-> Take(seq, S, g, n)]
      BY <3>4
    <3>6. Upto(k)
      <4>. HIDE DEF g
      <4>. QED
        BY <3>5
    <3>. QED
      BY <2>1, <3>6
  <2>. QED
    BY <2>2, <2>3
<1>2. Len(seq) \in Nat
  OBVIOUS
<1>3. Upto(Len(seq))
  <2>. HIDE DEF Upto
  <2>. QED
    BY <1>1, <1>2
<1>. QED
  BY <1>3

\* Of the first k elements of seq, those in S stand in new no later than before.
Early(seq, S, new, k) ==
    \A j \in 1..k : seq[j] \in S => \E i \in 1..Len(new) : i <= j /\ new[i] = seq[j]

\* What Only leaves of a list: its elements in S, each as often as before, and
\* all of it if nothing has to go; none moves back.
LEMMA OnlyKeeps ==
    ASSUME NEW seq \in Seq(Nat), NEW S
    PROVE  /\ Only(seq, S) \in Seq(Nat)
           /\ ToSet(Only(seq, S)) = ToSet(seq) \cap S
           /\ Distinct(seq) => Distinct(Only(seq, S))
           /\ ToSet(seq) \subseteq S => Only(seq, S) = seq
           /\ Early(seq, S, Only(seq, S), Len(seq))
<1>. DEFINE kept == CHOOSE f : f = [n \in 0..Len(seq) |-> Take(seq, S, f, n)]
            First(k) == {seq[x] : x \in 1..k}
            Good(k) == /\ kept[k] \in Seq(Nat)
                       /\ ToSet(kept[k]) = First(k) \cap S
                       /\ Distinct(seq) => Distinct(kept[k])
                       /\ ToSet(seq) \subseteq S =>
                            Len(kept[k]) = k /\ \A x \in 1..k : kept[k][x] = seq[x]
                       /\ Len(kept[k]) <= k /\ Early(seq, S, kept[k], k)
            Bad == {k \in 0..Len(seq) : ~Good(k)}
<1>1. kept = [n \in 0..Len(seq) |-> Take(seq, S, kept, n)]
  <2>1. \E f : f = [n \in 0..Len(seq) |-> Take(seq, S, f, n)]
    BY OnlyExists
  <2>. QED
    BY <2>1
<1>2. Only(seq, S) = kept[Len(seq)]
  BY DEF Only, Take
<1>3. Len(seq) \in Nat /\ DOMAIN seq = 1..Len(seq)
  OBVIOUS
<1>. HIDE DEF kept
<1>4. Good(0)
  <2>1. kept[0] = << >>
    BY <1>1, <1>3 DEF Take
  <2>. QED
    BY <2>1 DEF ToSet, Distinct, Early
<1>5. ASSUME NEW k \in 1..Len(seq), Good(k - 1) PROVE Good(k)
  <2>1. k \in 0..Len(seq) /\ k - 1 \in 0..Len(seq) /\ k \in Nat /\ k # 0
    BY <1>3
  <2>2. kept[k] = IF seq[k] \in S THEN Append(kept[k - 1], seq[k]) ELSE kept[k - 1]
    BY <1>1, <2>1 DEF Take
  <2>3. seq[k] \in Nat /\ First(k) = First(k - 1) \cup {seq[k]}
    BY <1>3, <2>1
  <2>4. CASE seq[k] \notin S
    <3>1. kept[k] = kept[k - 1]
      BY <2>2, <2>4
    <3>2. seq[k] \in ToSet(seq)
      BY <1>3 DEF ToSet
    <3>3. Early(seq, S, kept[k], k)
      <4>1. \A j \in 1..k : seq[j] \in S => j \in 1..(k - 1)
        BY <2>1, <2>4
      <4>. QED
        BY <1>5, <3>1, <4>1 DEF Early
    <3>4. Len(kept[k]) <= k /\ kept[k] \in Seq(Nat)
      BY <1>5, <2>1, <3>1
    <3>. QED
      BY <1>5, <2>3, <2>4, <3>1, <3>2, <3>3, <3>4
  <2>5. CASE seq[k] \in S
    <3>. DEFINE before == kept[k - 1]
    <3>1. kept[k] = Append(before, seq[k]) /\ before \in Seq(Nat)
      BY <1>5, <2>2, <2>5
    <3>. HIDE DEF before
    <3>2. /\ kept[k] \in Seq(Nat) /\ Len(kept[k]) = Len(before) + 1 /\ Len(before) \in Nat
          /\ \A x \in 1..Len(before) : kept[k][x] = before[x]
          /\ kept[k][Len(before) + 1] = seq[k]
          /\ ToSet(kept[k]) = ToSet(before) \cup {seq[k]}
          /\ Distinct(before) /\ seq[k] \notin ToSet(before) => Distinct(kept[k])
      <4>1. PICK new, e, b : /\ new = kept[k] /\ e = seq[k] /\ b = before
                             /\ e \in Nat /\ b \in Seq(Nat) /\ new = Append(b, e)
        BY <2>3, <3>1
      <4>2. b \in Seq(Nat) /\ e \in Nat /\ new = Append(b, e)
        BY <4>1
      <4>3. /\ new \in Seq(Nat) /\ Len(new) = Len(b) + 1
            /\ new[Len(b) + 1] = e
            /\ ToSet(new) = ToSet(b) \cup {e}
            /\ Distinct(b) /\ e \notin ToSet(b) => Distinct(new)
        BY <4>2, Appended, Zenon
      <4>4. Len(b) \in Nat /\ \A x \in 1..Len(b) : new[x] = b[x]
        BY <4>2
      <4>. QED
        BY <4>1, <4>3, <4>4
    <3>4. ToSet(before) = First(k - 1) \cap S
      BY <1>5 DEF before
    <3>5. ASSUME Distinct(seq) PROVE Distinct(kept[k])
      <4>1. Distinct(before)
        BY <1>5, <3>5 DEF before
      <4>2. seq[k] \notin First(k - 1)
        BY <1>3, <2>1, <3>5 DEF Distinct
      <4>. QED
        BY <3>2, <3>4, <4>1, <4>2
    <3>6. ASSUME ToSet(seq) \subseteq S
          PROVE  Len(kept[k]) = k /\ \A x \in 1..k : kept[k][x] = seq[x]
      <4>1. Len(before) = k - 1 /\ \A x \in 1..(k - 1) : before[x] = seq[x]
        BY <1>5, <3>6 DEF before
      <4>. QED
        BY <2>1, <3>2, <4>1
    <3>7. Len(kept[k]) <= k /\ Len(before) <= k - 1
      BY <1>5, <2>1, <3>2 DEF before
    <3>8. Early(seq, S, kept[k], k)
      <4>. SUFFICES ASSUME NEW j \in 1..k, seq[j] \in S
                    PROVE  \E i \in 1..Len(kept[k]) : i <= j /\ kept[k][i] = seq[j]
        BY DEF Early
      <4>1. CASE j = k
        <5>1. Len(before) + 1 \in 1..Len(kept[k]) /\ Len(before) + 1 <= j
          BY <2>1, <3>2, <3>7, <4>1
        <5>. QED
          BY <3>2, <4>1, <5>1
      <4>2. CASE j # k
        <5>1. j \in 1..(k - 1)
          BY <2>1, <4>2
        <5>2. PICK i \in 1..Len(before) : i <= j /\ before[i] = seq[j]
          BY <1>5, <5>1 DEF Early, before
        <5>3. i \in 1..Len(kept[k])
          BY <3>2, <5>2
        <5>4. kept[k][i] = seq[j]
          BY <3>2, <5>2, Zenon
        <5>. QED
          BY <5>2, <5>3, <5>4
      <4>. QED
        BY <4>1, <4>2
    <3>. QED
      BY <2>3, <2>5, <3>2, <3>4, <3>5, <3>6, <3>7, <3>8
  <2>. QED
    BY <2>4, <2>5
<1>6. Bad = {}
  <2>. SUFFICES ASSUME Bad # {} PROVE FALSE
    OBVIOUS
  <2>1. Bad \subseteq Nat
    BY <1>3
  <2>2. PICK k \in Bad : \A m \in Bad : ~(<<m, k>> \in OpToRel(<, Nat))
    <3>. HIDE DEF Bad
    <3>. QED
      BY <2>1, NatLessThanWellFounded, WFMin, Zenon
  <2>3. k \in 0..Len(seq) /\ ~Good(k)
    OBVIOUS
  <2>. HIDE DEF Good
  <2>4. k # 0
    BY <1>4, <2>3
  <2>5. k \in 1..Len(seq) /\ k - 1 \in 0..Len(seq) /\ k - 1 < k /\ k \in Nat /\ k - 1 \in Nat
    BY <1>3, <2>3, <2>4
  <2>6. k - 1 \notin Bad
    <3>. HIDE DEF Bad
    <3>1. <<k - 1, k>> \in OpToRel(<, Nat)
      BY <2>5, Zenon DEF OpToRel
    <3>. QED
      BY <2>2, <3>1, Zenon
  <2>7. Good(k - 1)
    BY <2>5, <2>6
  <2>. QED
    BY <1>5, <2>3, <2>5, <2>7
<1>7. Good(Len(seq))
  <2>. HIDE DEF Good
  <2>. QED
    BY <1>3, <1>6
<1>8. First(Len(seq)) = ToSet(seq)
  BY <1>3 DEF ToSet
<1>9. ASSUME ToSet(seq) \subseteq S PROVE Only(seq, S) = seq
  <2>1. Len(Only(seq, S)) = Len(seq) /\ \A x \in 1..Len(seq) : Only(seq, S)[x] = seq[x]
    BY <1>2, <1>7, <1>9
  <2>2. Only(seq, S) \in Seq(Nat)
    BY <1>2, <1>7
  <2>. QED
    BY <2>1, <2>2
<1>. QED
  BY <1>2, <1>7, <1>8, <1>9

\* The numbers a run makes up for: all that miss, none twice.
LEMMA UpsertedIsFull ==
    ASSUME NEW present \in Seq(Nat), Distinct(present), NEW n \in Nat
    PROVE  /\ Upserted(present, n) \in Seq(Nat) /\ Distinct(Upserted(present, n))
           /\ ToSet(Upserted(present, n)) = ToSet(present) \cup 1..n
           /\ 1..n \subseteq ToSet(present) => Upserted(present, n) = present
           /\ Prefix(present, Upserted(present, n))
<1>. DEFINE all == [k \in 1..n |-> k]
            new == Only(all, 1..n \ ToSet(present))
<1>1. all \in Seq(Nat) /\ Distinct(all) /\ ToSet(all) = 1..n
  BY DEF Distinct, ToSet
<1>2. new \in Seq(Nat) /\ Distinct(new) /\ ToSet(new) = 1..n \ ToSet(present)
  <2>. HIDE DEF all
  <2>. QED
    BY <1>1, OnlyKeeps
<1>3. Upserted(present, n) = present \o new
  BY DEF Upserted
<1>. HIDE DEF new, all
<1>. DEFINE whole == present \o new
<1>4. /\ whole \in Seq(Nat) /\ Len(whole) = Len(present) + Len(new)
      /\ \A x \in 1..Len(present) : x \in 1..Len(whole) /\ whole[x] = present[x]
      /\ \A x \in 1..Len(new) : /\ x + Len(present) \in 1..Len(whole)
                               /\ whole[x + Len(present)] = new[x]
      /\ \A x \in 1..Len(whole) : x \in 1..Len(present) \/ x - Len(present) \in 1..Len(new)
      /\ ToSet(whole) = ToSet(present) \cup ToSet(new)
  BY <1>2, Joined
<1>5. Len(present) \in Nat /\ Len(new) \in Nat
  BY <1>2
<1>. HIDE DEF whole
<1>6. Distinct(whole)
  <2>. SUFFICES ASSUME NEW x \in 1..Len(whole), NEW y \in 1..Len(whole), whole[x] = whole[y],
                       x < y
                PROVE  FALSE
    BY <1>4, <1>5 DEF Distinct
  <2>1. CASE y \in 1..Len(present)
    <3>1. x \in 1..Len(present)
      BY <1>5, <2>1
    <3>. QED
      BY <1>4, <2>1, <3>1 DEF Distinct
  <2>2. CASE x - Len(present) \in 1..Len(new)
    <3>1. y - Len(present) \in 1..Len(new)
      BY <1>4, <1>5, <2>2
    <3>2. /\ (x - Len(present)) + Len(present) = x /\ (y - Len(present)) + Len(present) = y
          /\ x - Len(present) # y - Len(present)
      BY <1>5
    <3>3. new[x - Len(present)] = new[y - Len(present)]
      BY <1>4, <2>2, <3>1, <3>2
    <3>. QED
      BY <1>2, <2>2, <3>1, <3>2, <3>3 DEF Distinct
  <2>3. CASE x \in 1..Len(present) /\ y - Len(present) \in 1..Len(new)
    <3>1. (y - Len(present)) + Len(present) = y
      BY <1>5
    <3>2. whole[x] \in ToSet(present) /\ whole[y] \in ToSet(new)
      BY <1>2, <1>4, <2>3, <3>1, ElementsOf
    <3>. QED
      BY <1>2, <3>2
  <2>. QED
    BY <1>4, <2>1, <2>2, <2>3
<1>7. ASSUME 1..n \subseteq ToSet(present) PROVE whole = present
  <2>1. ToSet(new) = {}
    BY <1>2, <1>7
  <2>2. Len(new) = 0
    <3>1. \A x \in 1..Len(new) : new[x] \in ToSet(new)
      BY <1>2, ElementsOf
    <3>. QED
      BY <1>5, <2>1, <3>1
  <2>3. new = << >>
    BY <1>2, <2>2
  <2>. QED
    BY <2>3 DEF whole
<1>8. Prefix(present, whole)
  BY <1>4, <1>5 DEF Prefix
<1>. QED
  BY <1>2, <1>3, <1>4, <1>6, <1>7, <1>8 DEF whole
\* A list of different numbers is as long as they are many.
LEMMA DistinctIsCounted ==
    ASSUME NEW seq \in Seq(Nat), Distinct(seq)
    PROVE  IsFiniteSet(ToSet(seq)) /\ Cardinality(ToSet(seq)) = Len(seq)
<1>. DEFINE n == Len(seq)
<1>1. n \in Nat
  OBVIOUS
<1>2. IsFiniteSet(1..n) /\ Cardinality(1..n) = n
  <2>1. IsFiniteSet(1..n) /\ Cardinality(1..n) = IF 1 > n THEN 0 ELSE n - 1 + 1
    BY <1>1, FS_Interval
  <2>. QED
    BY <1>1, <2>1
<1>3. ToSet(seq) = {seq[x] : x \in 1..n} /\ seq \in [1..n -> ToSet(seq)]
  BY <1>1, ElementsOf
<1>4. seq \in Surjection(1..n, ToSet(seq))
  BY <1>3 DEF Surjection
<1>5. seq \in Injection(1..n, ToSet(seq))
  BY <1>3 DEF Injection, IsInjective, Distinct
<1>. QED
  BY <1>2, <1>4, <1>5, FS_Surjection

\* Different numbers up to n are at most n of them, and n only if they are all.
LEMMA DistinctUpTo ==
    ASSUME NEW seq \in Seq(Nat), Distinct(seq), NEW n \in Nat, ToSet(seq) \subseteq 1..n
    PROVE  /\ Len(seq) <= n
           /\ Len(seq) = n <=> ToSet(seq) = 1..n
<1>1. IsFiniteSet(1..n) /\ Cardinality(1..n) = n
  <2>1. IsFiniteSet(1..n) /\ Cardinality(1..n) = IF 1 > n THEN 0 ELSE n - 1 + 1
    BY FS_Interval
  <2>. QED
    BY <2>1
<1>2. Cardinality(ToSet(seq)) = Len(seq)
  BY DistinctIsCounted
<1>3. ToSet(seq) \in SUBSET (1..n)
  OBVIOUS
<1>4. /\ Cardinality(ToSet(seq)) <= n
      /\ Cardinality(ToSet(seq)) = n => 1..n = ToSet(seq)
  BY <1>1, <1>3, FS_Subset, Zenon
<1>. QED
  BY <1>1, <1>2, <1>4

-----------------------------------------------------------------------------
(* The design stays sound                                                   *)

\* What the operator actions preserve of the design: siblings have indexes of
\* their own, and no pod is wider than the super-spine tier.
DesignOK ==
    /\ index \in [Owners -> Nat]
    /\ \A o \in Owners : index[o] \in Indexes[o]
    /\ amount \in [Targets -> Nat]
    /\ \A t \in Targets : amount[t] \in Sizes[t]
    /\ \A o \in Owners : \A q \in Siblings(o) : index[q] # index[o]
    /\ NotWide(amount)

LEMMA DesignAtFirst == Init => DesignOK
<1>. SUFFICES ASSUME Init PROVE DesignOK
  OBVIOUS
<1>1. \A o \in Owners : \A q \in Siblings(o) : index[q] # index[o]
  BY DesignInputs DEF Init, Siblings, Below
<1>. QED
  BY <1>1, DesignInputs DEF Init, DesignOK, NotWide, Targets, Owners

LEMMA DesignPreserved == DesignOK /\ [Next]_vars => DesignOK'
<1>. SUFFICES ASSUME DesignOK, [Next]_vars PROVE DesignOK'
  OBVIOUS
<1>1. CASE UNCHANGED design
  BY <1>1 DEF design, DesignOK, NotWide, Siblings, Below
<1>2. ASSUME NEW o \in Owners, NEW i \in Indexes[o], Reindex(o, i) PROVE DesignOK'
  <2>1. i \in Nat
    BY DesignInputs
  <2>2. index' \in [Owners -> Nat] /\ \A u \in Owners : index'[u] \in Indexes[u]
    BY <1>2, <2>1 DEF Reindex, DesignOK
  <2>3. \A u \in Owners : \A q \in Siblings(u) : index'[q] # index'[u]
    <3>. SUFFICES ASSUME NEW u \in Owners, NEW q \in Siblings(u) PROVE index'[q] # index'[u]
      OBVIOUS
    <3>1. q \in Owners /\ u \in Siblings(q) /\ u # q
      BY DEF Siblings, Below
    <3>2. \A z \in Siblings(o) : index[z] # i
      BY <1>2 DEF Reindex
    <3>3. index[q] # index[u]
      BY DEF DesignOK
    <3>. QED
      BY <1>2, <3>1, <3>2, <3>3 DEF Reindex, DesignOK
  <2>. QED
    BY <1>2, <2>2, <2>3 DEF Reindex, DesignOK, NotWide, Siblings, Below
<1>3. ASSUME NEW t \in Targets, NEW n \in Sizes[t], Resize(t, n) PROVE DesignOK'
  <2>1. n \in Nat
    BY DesignInputs
  <2>2. amount' \in [Targets -> Nat] /\ \A u \in Targets : amount'[u] \in Sizes[u]
    BY <1>3, <2>1 DEF Resize, DesignOK
  <2>. QED
    BY <1>3, <2>2 DEF Resize, DesignOK, Siblings, Below, NotWide
<1>4. ASSUME NEW o \in Owners, Build(o) \/ RunStep(o) \/ Die(o) PROVE UNCHANGED design
  BY <1>4 DEF Build, RunStep, Die, PlanCables, Connect, Finish, Raise, GiveUp, design
<1>5. ASSUME BuildFabric PROVE UNCHANGED design
  BY <1>5 DEF BuildFabric, design
<1>6. ASSUME NEW t \in Targets, NEW k \in Numbers(t), Replace(t, k) PROVE UNCHANGED design
  BY <1>6 DEF Replace, Edited, design
<1>7. CASE UNCHANGED vars
  BY <1>1, <1>7 DEF vars, design
<1>. QED
  BY <1>1, <1>2, <1>3, <1>4, <1>5, <1>6, <1>7 DEF Next


-----------------------------------------------------------------------------
(* Arithmetic                                                               *)

LEMMA TimesAtLeast == ASSUME NEW d \in Nat \ {0}, NEW n \in Nat PROVE d * n >= n
<1>1. PICK e \in Nat : d = e + 1
  BY SMT
<1>2. d * n = e * n + n
  BY <1>1, SMT
<1>3. e * n \in Nat
  BY <1>1, SMT
<1>. QED
  BY <1>2, <1>3, SMT

(* A pod with fewer spines than there are super-spines stays below the first *)
(* slot of every pod with a greater index (build_pod_cabling_plan).          *)
LEMMA PodSlotsApart ==
    ASSUME NEW i \in Nat, NEW k \in Nat, i >= 2, i < k,
           NEW n \in Nat, NEW x \in 1..n, NEW y \in Nat \ {0}
    PROVE  PodSlot(i, n, x) < PodSlot(k, n, y)
<1>1. k - i \in Nat \ {0}
  BY SMT
<1>2. (k - i) * n >= n
  BY <1>1, TimesAtLeast
<1>3. (k - 2) * n = (i - 2) * n + (k - i) * n
  BY SMT
<1>4. /\ (k - 2) * n \in Int /\ (i - 2) * n \in Int /\ (k - i) * n \in Int
  BY SMT
<1>. QED
  BY <1>2, <1>3, <1>4, SMT DEF PodSlot

(* The two slots of a rack lie below those of every later rack               *)
(* (build_rack_cabling_plan).                                                *)
LEMMA RackSlotsApart ==
    ASSUME NEW i \in Nat, NEW k \in Nat, i < k, NEW x \in 1..2, NEW y \in 1..2
    PROVE  RackSlot(i, x) < RackSlot(k, y)
BY SMT DEF RackSlot

\* Within a pod or a rack every device has slots of its own.
LEMMA PodSlotInjective ==
    ASSUME NEW i \in Nat, NEW n \in Nat, NEW x \in Nat, NEW y \in Nat,
           PodSlot(i, n, x) = PodSlot(i, n, y)
    PROVE  x = y
<1>1. PICK c \in Int : c = (i - 2) * n
  BY SMT
<1>. QED
  BY <1>1, SMT DEF PodSlot

LEMMA RackSlotInjective ==
    ASSUME NEW i \in Nat, NEW x \in Nat, NEW y \in Nat, RackSlot(i, x) = RackSlot(i, y)
    PROVE  x = y
BY SMT DEF RackSlot

(* The bound is tight: one spine more than there are super-spines takes the  *)
(* first slot of the next pod (build_pod_cabling_plan), whatever the index.  *)
THEOREM WidePodsCollide ==
    ASSUME NEW i \in Nat, NEW n \in Nat
    PROVE  PodSlot(i, n, n + 1) = PodSlot(i + 1, n, 1)
<1>1. ((i + 1) - 2) * n = (i - 2) * n + n
  BY SMT
<1>. QED
  BY <1>1, SMT DEF PodSlot

(* Distinct positions have distinct names, in either order of the names.     *)
LEMMA NameAtInjective ==
    ASSUME NEW i \in Int, NEW k \in Int, NEW side, NEW n \in Int,
           NameAt(i, side, n) = NameAt(k, side, n)
    PROVE  i = k
BY SMT DEF NameAt

-----------------------------------------------------------------------------
(* The interfaces a plan is made of                                         *)

LEMMA UpperTier == ASSUME NEW o \in Owners PROVE Above(o) \in Targets /\ o \in Targets /\ Above(o) # o
BY TiersAreTree DEF Above, Targets, Owners

LEMMA SlotIsInt ==
    ASSUME NEW o, NEW i \in Nat, NEW n \in Nat, NEW x \in Nat, NEW k \in Nat
    PROVE  Slot(o, i, n, x, k) \in Int
<1>1. (i - 2) * n \in Int
  BY SMT
<1>. QED
  BY <1>1, SMT DEF Slot, PodSlot, RackSlot

LEMMA FewerIs ==
    ASSUME NEW a \in Nat, NEW b \in Nat
    PROVE  Fewer(a, b) \in Nat /\ Fewer(a, b) <= a /\ Fewer(a, b) <= b
BY DEF Fewer

\* How many interfaces a device has on a side.
Ports(side) == IF side = "up" THEN UpPorts ELSE DownPorts

LEMMA NamesAre ==
    ASSUME NEW side
    PROVE  /\ Ports(side) \in Nat \ {0}
           /\ NameOrder(side) \in Seq(Nat) /\ Len(NameOrder(side)) = Ports(side)
           /\ \A x \in 1..Ports(side) : /\ NameOrder(side)[x] = NameAt(x - 1, side, Ports(side))
                                        /\ NameOrder(side)[x] # 0
<1>. DEFINE n == Ports(side)
            order == [i \in 1..n |-> NameAt(i - 1, side, n)]
<1>1. n \in Nat \ {0}
  BY CablingBounds DEF Ports
<1>2. NameOrder(side) = order
  BY DEF NameOrder, Ports
<1>. HIDE DEF n
<1>3. \A x \in 1..n : order[x] = NameAt(x - 1, side, n) /\ order[x] \in Nat /\ order[x] # 0
  BY <1>1 DEF NameAt
<1>4. order \in Seq(Nat) /\ Len(order) = n
  BY <1>1, <1>3
<1>. QED
  BY <1>1, <1>2, <1>3, <1>4 DEF n

LEMMA PortsAre ==
    ASSUME NEW t, NEW k, NEW side
    PROVE  /\ PortsOf(t, k, side) \in Seq(Nat)
           /\ \A x \in 1..Len(PortsOf(t, k, side)) : PortsOf(t, k, side)[x] \in Nat \ {0}
           /\ pruned = {} => PortsOf(t, k, side) = NameOrder(side)
<1>. DEFINE order == NameOrder(side)
            some == {p \in ToSet(order) : Port(t, k, side, p) \notin pruned}
<1>1. order \in Seq(Nat) /\ 0 \notin ToSet(order)
  BY NamesAre, ElementsOf
<1>2. PortsOf(t, k, side) = Only(order, some)
  BY DEF PortsOf
<1>3. pruned = {} => ToSet(order) \subseteq some
  OBVIOUS
<1>. HIDE DEF order, some
<1>4. /\ Only(order, some) \in Seq(Nat) /\ ToSet(Only(order, some)) = ToSet(order) \cap some
      /\ ToSet(order) \subseteq some => Only(order, some) = order
  BY <1>1, OnlyKeeps
<1>5. \A x \in 1..Len(Only(order, some)) : Only(order, some)[x] \in Nat \ {0}
  BY <1>1, <1>4, ElementsOf
<1>. QED
  BY <1>2, <1>3, <1>4, <1>5 DEF order

(* A plan joins interfaces there are: no port outside its device, no device  *)
(* outside its list (_group_by_device_in_name_order, the cabling plans).     *)
LEMMA PlanIsCables ==
    ASSUME NEW o \in Owners, NEW i \in Nat, NEW lower \in Seq(Nat), NEW upper \in Seq(Nat),
           SlotsInRange(o, i, lower, upper)
    PROVE  CablingPlan(o, i, lower, upper) \subseteq Link
<1>. SUFFICES ASSUME NEW l \in CablingPlan(o, i, lower, upper) PROVE l \in Link
  OBVIOUS
<1>0. PICK x \in 1..Len(lower) : \E j \in 1..Width(o, lower[x], upper) :
         l = <<Lower(o, lower[x], j), Upper(o, upper[j], Slot(o, i, Len(upper), x, lower[x]))>>
  BY DEF CablingPlan
<1>. PICK j \in 1..Width(o, lower[x], upper) :
         l = <<Lower(o, lower[x], j), Upper(o, upper[j], Slot(o, i, Len(upper), x, lower[x]))>>
  BY <1>0
<1>1. Len(upper) \in Nat /\ x \in Nat /\ lower[x] \in Nat
  BY ElementsOf
<1>2. PICK mine \in Seq(Nat) : /\ mine = PortsOf(o, lower[x], "up")
                               /\ \A y \in 1..Len(mine) : mine[y] \in Nat \ {0}
  BY PortsAre
<1>3. Width(o, lower[x], upper) = Fewer(Len(mine), Len(upper)) /\ Len(mine) \in Nat
  BY <1>2 DEF Width
<1>4. j \in 1..Len(mine) /\ j \in 1..Len(upper)
  <2>1. PICK w : w = Fewer(Len(mine), Len(upper))
    OBVIOUS
  <2>2. w \in Nat /\ w <= Len(mine) /\ w <= Len(upper)
    <3>1. \A a, b \in Nat : Fewer(a, b) \in Nat /\ Fewer(a, b) <= a /\ Fewer(a, b) <= b
      BY FewerIs
    <3>. QED
      BY <1>1, <1>3, <2>1, <3>1, Zenon
  <2>3. j \in 1..w
    BY <1>3, <2>1
  <2>4. \A a, b \in Nat : w <= a /\ w <= b => j \in 1..a /\ j \in 1..b
    BY <2>2, <2>3
  <2>. QED
    BY <1>1, <1>3, <2>2, <2>4, Zenon
<1>5. upper[j] \in Nat
  BY <1>4, ElementsOf
<1>6. PICK s : s = Slot(o, i, Len(upper), x, lower[x])
  OBVIOUS
<1>7. s \in Int
  BY <1>1, <1>6, SlotIsInt
<1>8. PICK theirs \in Seq(Nat) : /\ theirs = PortsOf(Above(o), upper[j], "down")
                                 /\ \A y \in 1..Len(theirs) : theirs[y] \in Nat \ {0}
  BY PortsAre
<1>9. (s % Len(theirs)) + 1 \in 1..Len(theirs)
  <2>1. InRange(s, Len(theirs))
    BY <1>6, <1>8, Zenon DEF SlotsInRange
  <2>2. Len(theirs) \in Nat
    OBVIOUS
  <2>3. \A n \in Nat : InRange(s, n) => (s % n) + 1 \in 1..n
    BY <1>7, SMT DEF InRange
  <2>. QED
    BY <2>1, <2>2, <2>3, Zenon
<1>10. Lower(o, lower[x], j) \in Interface
  BY <1>1, <1>2, <1>4, UpperTier DEF Lower, Port, Interface
<1>11. Upper(o, upper[j], s) \in Interface
  BY <1>5, <1>8, <1>9, UpperTier DEF Upper, Port, Interface
<1>. QED
  BY <1>6, <1>10, <1>11 DEF Link

-----------------------------------------------------------------------------
(* Types                                                                    *)

\* The lists of devices are lists of different positive numbers.
Listed(seq) == seq \in Seq(Nat) /\ Distinct(seq) /\ 0 \notin ToSet(seq)

Shape ==
    /\ TypeOK /\ DesignOK
    /\ \A t \in Targets : Listed(devices[t])
    /\ \A o \in Owners : Listed(run[o].upper)

LEMMA ListedOnly ==
    ASSUME NEW seq, Listed(seq), NEW S
    PROVE  /\ Listed(Only(seq, S)) /\ ToSet(Only(seq, S)) = ToSet(seq) \cap S
           /\ ToSet(seq) \subseteq S => Only(seq, S) = seq
           /\ Early(seq, S, Only(seq, S), Len(seq))
BY OnlyKeeps DEF Listed

LEMMA ListedUpserted ==
    ASSUME NEW seq, Listed(seq), NEW n \in Nat
    PROVE  /\ Listed(Upserted(seq, n))
           /\ ToSet(Upserted(seq, n)) = ToSet(seq) \cup 1..n
           /\ 1..n \subseteq ToSet(seq) => Upserted(seq, n) = seq
           /\ Prefix(seq, Upserted(seq, n))
<1>1. seq \in Seq(Nat) /\ Distinct(seq) /\ 0 \notin 1..n
  BY DEF Listed
<1>. QED
  BY <1>1, UpsertedIsFull DEF Listed

LEMMA ListedUpTo ==
    ASSUME NEW seq, Listed(seq), NEW n \in Nat, ToSet(seq) \subseteq 1..n
    PROVE  Len(seq) <= n /\ (Len(seq) = n <=> ToSet(seq) = 1..n)
BY DistinctUpTo DEF Listed

\* The maps of a run hold devices of its tier and of the tier above.
LEMMA MapsAreListed ==
    ASSUME Shape, NEW o \in Owners, NEW a, NEW above, Listed(above)
    PROVE  Listed(Lowers(o, a)) /\ Listed(Uppers(o, above))
<1>1. Listed(devices[o])
  BY UpperTier DEF Shape
<1>2. Listed(Only(devices[o], 1..a)) /\ Listed(Only(above, Numbers(Above(o))))
  BY <1>1, ListedOnly
<1>3. \A t, seq, side : Listed(seq) => Listed(WithPorts(t, seq, side))
  BY ListedOnly DEF WithPorts
<1>. QED
  BY <1>2, <1>3 DEF Lowers, Uppers

\* What a run remembers and what a group holds, as records of their own types.
RunType == [pc: {"idle", "plan", "connect"}, index: Nat, amount: Nat, upper: Seq(Nat),
            plan: SUBSET Link, made: SUBSET Link]
GroupType == [links: SUBSET Link, ends: SUBSET Interface, devices: SUBSET Nat]

LEMMA RunIsRecord ==
    ASSUME TypeOK, NEW o \in Owners
    PROVE  /\ run[o] \in RunType
           /\ run[o].index \in Nat /\ run[o].amount \in Nat /\ run[o].upper \in Seq(Nat)
           /\ run[o].plan \in SUBSET Link /\ run[o].made \in SUBSET Link
           /\ run[o].pc \in {"idle", "plan", "connect"}
<1>1. run[o] \in RunType
  BY DEF TypeOK, RunType
<1>. QED
  BY <1>1 DEF RunType

LEMMA GroupIsRecord ==
    ASSUME TypeOK, NEW o \in Owners
    PROVE  /\ group[o] \in GroupType
           /\ group[o].links \subseteq Link /\ group[o].ends \subseteq Interface
           /\ group[o].devices \subseteq Nat
<1>1. group[o] \in GroupType
  BY DEF TypeOK, GroupType
<1>. QED
  BY <1>1 DEF GroupType

LEMMA IdleIsListed == Idle \in RunType /\ Listed(Idle.upper)
<1>1. << >> \in Seq(Nat) /\ Distinct(<< >>) /\ ToSet(<< >>) = {}
  BY DEF Distinct, ToSet
<1>. QED
  BY <1>1 DEF Idle, RunType, Listed

LEMMA EndsAreInterfaces == ASSUME NEW S \in SUBSET Link PROVE EndsOf(S) \subseteq Interface
BY DEF EndsOf, Link

LEMMA GroupsAreRecords ==
    ASSUME TypeOK, NEW t, NEW S PROVE GroupsWithout(t, S) \in [Owners -> GroupType]
<1>. SUFFICES ASSUME NEW o \in Owners
              PROVE  [group[o] EXCEPT !.ends = Without(@, t, S),
                                      !.devices = IF o = t THEN @ \ S ELSE @] \in GroupType
  BY DEF GroupsWithout
<1>1. group[o] \in GroupType /\ group[o].ends \subseteq Interface /\ group[o].devices \subseteq Nat
  BY GroupIsRecord
<1>2. Without(group[o].ends, t, S) \subseteq Interface
  BY <1>1 DEF Without
<1>3. (IF o = t THEN group[o].devices \ S ELSE group[o].devices) \subseteq Nat
  BY <1>1
<1>. QED
  BY <1>1, <1>2, <1>3 DEF GroupType

LEMMA GiveUpShape ==
    ASSUME Shape, NEW o \in Owners, GiveUp(o), DesignOK', failures' \in Nat PROVE Shape'
<1>1. run' \in [Owners -> RunType]
  BY IdleIsListed DEF GiveUp, Shape, TypeOK, RunType
<1>2. \A u \in Owners : Listed(run'[u].upper)
  BY IdleIsListed DEF GiveUp, Shape, TypeOK
<1>3. \A t \in Targets : Listed(devices'[t])
  BY DEF GiveUp, Shape
<1>4. o \in Targets
  BY DEF Targets
<1>5. TypeOK'
  BY <1>1, <1>4 DEF GiveUp, Shape, TypeOK, RunType, design, cables
<1>. QED
  BY <1>2, <1>3, <1>5 DEF Shape

LEMMA BuildShape ==
    ASSUME Shape, NEW o \in Owners, Build(o), DesignOK' PROVE Shape'
<1>1. /\ o \in Targets /\ Above(o) \in Targets /\ index[o] \in Nat /\ amount[o] \in Nat
      /\ devices[Above(o)] \in Seq(Nat)
  BY UpperTier DEF Shape, DesignOK, TypeOK
<1>2. Listed(Upserted(devices[o], amount[o]))
  BY <1>1, ListedUpserted DEF Shape
<1>3. /\ devices' \in [Targets -> Seq(Nat)] /\ \A t \in Targets : Listed(devices'[t])
  BY <1>1, <1>2 DEF Build, Shape, TypeOK, Listed
<1>4. run' \in [Owners -> RunType] /\ \A u \in Owners : Listed(run'[u].upper)
  <2>1. [pc |-> "plan", index |-> index[o], amount |-> amount[o],
         upper |-> devices[Above(o)], plan |-> {}, made |-> {}] \in RunType
    BY <1>1 DEF RunType
  <2>. QED
    BY <1>1, <2>1 DEF Build, Shape, TypeOK, RunType
<1>5. due' \subseteq Targets
  BY DEF Build, Shape, TypeOK, Below, Targets
<1>6. TypeOK'
  BY <1>3, <1>4, <1>5 DEF Build, Shape, TypeOK, RunType, design, cables
<1>. QED
  BY <1>3, <1>4, <1>6 DEF Shape

LEMMA PlanShape ==
    ASSUME Shape, NEW o \in Owners, PlanCables(o), DesignOK' PROVE Shape'
<1>1. PICK lower, upper : lower = Lowers(o, run[o].amount) /\ upper = Uppers(o, run[o].upper)
  OBVIOUS
<1>2. Listed(lower) /\ Listed(upper)
  BY <1>1, MapsAreListed DEF Shape
<1>3. CASE Raise(o)
  BY <1>3, GiveUpShape DEF Raise, Shape, TypeOK
<1>4. CASE ~Raise(o)
  <2>1. PICK plan : plan = CablingPlan(o, run[o].index, lower, upper)
    OBVIOUS
  <2>2. /\ SlotsInRange(o, run[o].index, lower, upper)
        /\ run' = [run EXCEPT ![o].pc = "connect", ![o].plan = plan]
        /\ UNCHANGED <<design, devices, cables, due, edits, failures>>
    BY <1>1, <1>4, <2>1 DEF PlanCables
  <2>3. plan \subseteq Link
    BY <1>2, <2>1, <2>2, PlanIsCables, RunIsRecord DEF Shape, Listed
  <2>4. [run[o] EXCEPT !.pc = "connect", !.plan = plan] \in RunType
    BY <2>3, RunIsRecord DEF Shape, RunType
  <2>5. run' \in [Owners -> RunType] /\ \A u \in Owners : Listed(run'[u].upper)
    BY <2>2, <2>4 DEF Shape, TypeOK, RunType
  <2>6. TypeOK'
    BY <2>2, <2>5 DEF Shape, TypeOK, RunType, design, cables
  <2>. QED
    BY <2>2, <2>5, <2>6 DEF Shape
<1>. QED
  BY <1>3, <1>4

LEMMA ConnectShape ==
    ASSUME Shape, NEW o \in Owners, Connect(o), DesignOK' PROVE Shape'
<1>1. CASE Raise(o)
  BY <1>1, GiveUpShape DEF Raise, Shape, TypeOK
<1>2. CASE ~Raise(o)
  <2>1. PICK l \in run[o].plan :
           /\ links' = links \cup {l}
           /\ plugged' = {q \in plugged : q[1] \notin {l[1], l[2]}} \cup ({l[1], l[2]} \X {l})
           /\ run' = [run EXCEPT ![o].plan = @ \ {l}, ![o].made = @ \cup {l}]
           /\ UNCHANGED <<design, devices, pruned, group, due, edits, failures>>
    BY <1>2 DEF Connect
  <2>2. l \in Link
    BY RunIsRecord DEF Shape
  <2>3. l[1] \in Interface /\ l[2] \in Interface
    BY <2>2 DEF Link
  <2>4. [run[o] EXCEPT !.plan = @ \ {l}, !.made = @ \cup {l}] \in RunType
    <3>1. /\ run[o] \in RunType /\ run[o].made \cup {l} \in SUBSET Link
          /\ run[o].plan \ {l} \in SUBSET Link
      BY <2>2, RunIsRecord DEF Shape
    <3>. QED
      BY <3>1 DEF RunType
  <2>5. run' \in [Owners -> RunType] /\ \A u \in Owners : Listed(run'[u].upper)
    BY <2>1, <2>4 DEF Shape, TypeOK, RunType
  <2>6. links' \subseteq Link /\ plugged' \subseteq Interface \X Link
    BY <2>1, <2>2, <2>3 DEF Shape, TypeOK
  <2>7. TypeOK'
    BY <2>1, <2>5, <2>6 DEF Shape, TypeOK, RunType, design
  <2>. QED
    BY <2>1, <2>5, <2>7 DEF Shape
<1>. QED
  BY <1>1, <1>2

LEMMA FinishShape ==
    ASSUME Shape, NEW o \in Owners, Finish(o), DesignOK' PROVE Shape'
<1>. DEFINE surplus == group[o].devices \ 1..run[o].amount
            unsaved == group[o].ends \ EndsOf(run[o].made)
            others  == GroupsWithout(o, surplus)
            own     == [links |-> run[o].made, devices |-> 1..run[o].amount,
                        ends |-> {e \in EndsOf(run[o].made) : Exists(e)}]
<1>1. /\ devices' = [devices EXCEPT ![o] = Only(@, Numbers(o) \ surplus)]
      /\ run' = [run EXCEPT ![o] = Idle]
      /\ due' \subseteq due \cup Below(o) /\ links' \subseteq links /\ plugged' \subseteq plugged
      /\ pruned' = Without(pruned \cup unsaved, o, surplus)
      /\ group' = [u \in Owners |-> IF u = o THEN own ELSE [others[u] EXCEPT !.ends = @ \ unsaved]]
      /\ UNCHANGED <<design, edits, failures>>
  BY DEF Finish
<1>2. Listed(Only(devices[o], Numbers(o) \ surplus)) /\ o \in Targets
  <2>. HIDE DEF surplus
  <2>. QED
    BY UpperTier, ListedOnly DEF Shape
<1>3. others \in [Owners -> GroupType] /\ TypeOK
  BY GroupsAreRecords DEF Shape
<1>4. group[o].ends \subseteq Interface /\ run[o].made \in SUBSET Link /\ run[o].amount \in Nat
  BY GroupIsRecord, RunIsRecord DEF Shape
<1>5. own \in GroupType
  BY <1>4, EndsAreInterfaces DEF GroupType
<1>6. pruned' \subseteq Interface
  BY <1>1, <1>3, <1>4 DEF Without, TypeOK
<1>. HIDE DEF surplus, unsaved, others, own
<1>7. group' \in [Owners -> GroupType]
  <2>1. \A u \in Owners : [others[u] EXCEPT !.ends = @ \ unsaved] \in GroupType
    BY <1>3 DEF GroupType
  <2>. QED
    BY <1>1, <1>5, <2>1
<1>8. devices' \in [Targets -> Seq(Nat)] /\ \A t \in Targets : Listed(devices'[t])
  BY <1>1, <1>2 DEF Shape, TypeOK, Listed
<1>9. run' \in [Owners -> RunType] /\ \A u \in Owners : Listed(run'[u].upper)
  BY <1>1, IdleIsListed DEF Shape, TypeOK, RunType
<1>10. due' \subseteq Targets /\ links' \subseteq Link /\ plugged' \subseteq Interface \X Link
  BY <1>1 DEF Shape, TypeOK, Below, Targets
<1>11. TypeOK'
  BY <1>1, <1>6, <1>7, <1>8, <1>9, <1>10 DEF Shape, TypeOK, RunType, GroupType, design
<1>. QED
  BY <1>8, <1>9, <1>11 DEF Shape

LEMMA DevicesGoShape ==
    ASSUME TypeOK, NEW t, NEW S, DevicesGo(t, S)
    PROVE  /\ plugged' \subseteq Interface \X Link /\ pruned' \subseteq Interface
           /\ group' \in [Owners -> GroupType]
<1>1. group' \in [Owners -> GroupType]
  BY GroupsAreRecords DEF DevicesGo
<1>. QED
  BY <1>1 DEF DevicesGo, Without, TypeOK

LEMMA FabricShape == ASSUME Shape, BuildFabric, DesignOK' PROVE Shape'
<1>1. Fabric \in Targets /\ amount[Fabric] \in Nat
  BY DEF Targets, Shape, DesignOK
<1>2. Listed(Upserted(Only(devices[Fabric], 1..amount[Fabric]), amount[Fabric]))
  BY <1>1, ListedOnly, ListedUpserted DEF Shape
<1>3. devices' \in [Targets -> Seq(Nat)] /\ \A t \in Targets : Listed(devices'[t])
  BY <1>1, <1>2 DEF BuildFabric, Shape, TypeOK, Listed
<1>4. /\ plugged' \subseteq Interface \X Link /\ pruned' \subseteq Interface
      /\ group' \in [Owners -> GroupType]
  BY DevicesGoShape DEF BuildFabric, Shape
<1>5. TypeOK'
  BY <1>3, <1>4 DEF BuildFabric, Shape, TypeOK, GroupType, Below, Targets, design
<1>. QED
  BY <1>3, <1>5 DEF BuildFabric, Shape

LEMMA ReplaceShape ==
    ASSUME Shape, NEW t \in Targets, NEW k \in Numbers(t), Replace(t, k), DesignOK' PROVE Shape'
<1>1. Listed(Only(devices[t], Numbers(t) \ {k}))
  BY ListedOnly DEF Shape
<1>2. devices' \in [Targets -> Seq(Nat)] /\ \A u \in Targets : Listed(devices'[u])
  BY <1>1 DEF Replace, Shape, TypeOK, Listed
<1>3. /\ plugged' \subseteq Interface \X Link /\ pruned' \subseteq Interface
      /\ group' \in [Owners -> GroupType]
  BY DevicesGoShape DEF Replace, Shape
<1>4. TypeOK'
  BY <1>2, <1>3 DEF Replace, Edited, Shape, TypeOK, GroupType, Below, Targets, design
<1>. QED
  BY <1>2, <1>4 DEF Replace, Edited, Shape

LEMMA ShapeAtFirst == Init => Shape
<1>. SUFFICES ASSUME Init PROVE Shape
  OBVIOUS
<1>1. DesignOK
  BY DesignAtFirst
<1>2. << >> \in Seq(Nat) /\ Listed(<< >>)
  BY DEF Listed, Distinct, ToSet
<1>3. NoMembers \in GroupType
  BY DEF NoMembers, GroupType
<1>4. TypeOK
  BY <1>2, <1>3, IdleIsListed, DesignInputs DEF Init, TypeOK, RunType, GroupType, Targets
<1>. QED
  BY <1>1, <1>2, <1>4, IdleIsListed DEF Init, Shape

LEMMA ShapePreserved == Shape /\ [Next]_vars => Shape'
<1>. SUFFICES ASSUME Shape, [Next]_vars PROVE Shape'
  OBVIOUS
<1>. USE DEF Shape
<1>1. DesignOK'
  BY DesignPreserved
<1>2. CASE UNCHANGED vars
  BY <1>1, <1>2 DEF vars, TypeOK
<1>3. ASSUME NEW o \in Owners, Build(o) \/ RunStep(o) \/ Die(o) PROVE Shape'
  <2>1. CASE Die(o)
    <3>1. failures' \in Nat
      BY <2>1 DEF Die, TypeOK
    <3>. QED
      BY <1>1, <2>1, <3>1, GiveUpShape DEF Die
  <2>. QED
    BY <1>1, <1>3, <2>1, BuildShape, PlanShape, ConnectShape, FinishShape DEF RunStep
<1>4. CASE BuildFabric
  BY <1>1, <1>4, FabricShape
<1>5. ASSUME NEW o \in Owners, NEW i \in Indexes[o], Reindex(o, i) PROVE Shape'
  <2>1. index' \in [Owners -> Nat] /\ o \in Targets
    BY <1>1, UpperTier DEF DesignOK
  <2>2. TypeOK'
    BY <1>5, <2>1 DEF Reindex, Edited, TypeOK, cables
  <2>. QED
    BY <1>1, <1>5, <2>2 DEF Reindex, Edited
<1>6. ASSUME NEW t \in Targets, NEW n \in Sizes[t], Resize(t, n) PROVE Shape'
  <2>1. amount' \in [Targets -> Nat]
    BY <1>1 DEF DesignOK
  <2>2. TypeOK'
    BY <1>6, <2>1 DEF Resize, Edited, TypeOK, cables, Below, Targets
  <2>. QED
    BY <1>1, <1>6, <2>2 DEF Resize, Edited
<1>7. ASSUME NEW t \in Targets, NEW k \in Numbers(t), Replace(t, k) PROVE Shape'
  BY <1>1, <1>7, ReplaceShape
<1>. QED
  BY <1>2, <1>3, <1>4, <1>5, <1>6, <1>7 DEF Next

(* Whatever is edited or pruned and wherever a run dies, plans and links are *)
(* made of interfaces there are: no port outside its device, no device       *)
(* outside its list (_group_by_device_in_name_order, build_pod_cabling_plan).*)
THEOREM CablingTypeCorrect == Spec => []TypeOK
<1>1. Shape => TypeOK
  BY DEF Shape
<1>. QED
  BY <1>1, ShapeAtFirst, ShapePreserved, PTL DEF Spec

-----------------------------------------------------------------------------
(* Plans while no interface was pruned                                      *)

LowerEnd(o, k, j) == Port(o, k, "up", NameAt(j - 1, "up", UpPorts))
UpperEnd(o, k, s) == Port(Above(o), k, "down", NameAt(s % DownPorts, "down", DownPorts))

\* The plan of o, and whether there is one, when every device has every
\* interface.
Wide(upper) == 1..Fewer(UpPorts, Len(upper))
FullPlan(o, i, lower, upper) ==
    {<<LowerEnd(o, lower[x], j), UpperEnd(o, upper[j], Slot(o, i, Len(upper), x, lower[x]))>> :
        x \in 1..Len(lower), j \in Wide(upper)}
FullRange(o, i, lower, upper) ==
    \A x \in 1..Len(lower) : \A j \in Wide(upper) :
        InRange(Slot(o, i, Len(upper), x, lower[x]), DownPorts)

LEMMA WideIs ==
    ASSUME NEW upper \in Seq(Nat)
    PROVE  /\ Len(upper) \in Nat /\ Fewer(UpPorts, Len(upper)) \in Nat
           /\ \A j \in Wide(upper) : j \in 1..Len(upper) /\ j \in 1..UpPorts /\ j \in Nat
<1>1. PICK n \in Nat : n = Len(upper)
  OBVIOUS
<1>2. PICK w : w = Fewer(UpPorts, n)
  OBVIOUS
<1>3. w \in Nat /\ w <= UpPorts /\ w <= n /\ UpPorts \in Nat
  BY <1>2, CablingBounds, FewerIs
<1>4. \A j \in 1..w : j \in 1..n /\ j \in 1..UpPorts /\ j \in Nat
  BY <1>3
<1>. QED
  BY <1>1, <1>2, <1>3, <1>4 DEF Wide

LEMMA FullMaps ==
    ASSUME pruned = {}, NEW o \in Owners, devices[o] \in Seq(Nat), NEW above \in Seq(Nat), NEW a
    PROVE  /\ Lowers(o, a) = Only(devices[o], 1..a)
           /\ Uppers(o, above) = Only(above, Numbers(Above(o)))
<1>1. ASSUME NEW t, NEW seq \in Seq(Nat), NEW side PROVE WithPorts(t, seq, side) = seq
  <2>1. \A k : PortsOf(t, k, side) # << >>
    <3>. SUFFICES ASSUME NEW k PROVE PortsOf(t, k, side) # << >>
      OBVIOUS
    <3>1. PortsOf(t, k, side) = NameOrder(side)
      BY PortsAre
    <3>2. Len(NameOrder(side)) # 0 /\ Len(<< >>) = 0
      BY NamesAre
    <3>. QED
      BY <3>1, <3>2
  <2>2. {k \in ToSet(seq) : PortsOf(t, k, side) # << >>} = ToSet(seq)
    BY <2>1
  <2>. QED
    BY <2>2, OnlyKeeps DEF WithPorts
<1>2. Only(devices[o], 1..a) \in Seq(Nat) /\ Only(above, Numbers(Above(o))) \in Seq(Nat)
  BY OnlyKeeps
<1>. QED
  BY <1>1, <1>2 DEF Lowers, Uppers

\* Every device has the names of its side, in their order.
LEMMA FullPorts ==
    ASSUME pruned = {}, NEW o, NEW k
    PROVE  /\ Len(PortsOf(o, k, "up")) = UpPorts
           /\ Len(PortsOf(Above(o), k, "down")) = DownPorts
           /\ \A j \in 1..UpPorts : Lower(o, k, j) = LowerEnd(o, k, j)
           /\ \A s \in Int : Upper(o, k, s) = UpperEnd(o, k, s)
<1>1. Ports("up") = UpPorts /\ Ports("down") = DownPorts /\ DownPorts \in Nat \ {0}
  BY CablingBounds DEF Ports
<1>2. PortsOf(o, k, "up") = NameOrder("up") /\ PortsOf(Above(o), k, "down") = NameOrder("down")
  BY PortsAre
<1>3. /\ Len(NameOrder("up")) = UpPorts /\ Len(NameOrder("down")) = DownPorts
      /\ \A x \in 1..UpPorts : NameOrder("up")[x] = NameAt(x - 1, "up", UpPorts)
      /\ \A x \in 1..DownPorts : NameOrder("down")[x] = NameAt(x - 1, "down", DownPorts)
  BY <1>1, NamesAre
<1>4. ASSUME NEW s \in Int
      PROVE  NameOrder("down")[(s % DownPorts) + 1] = NameAt(s % DownPorts, "down", DownPorts)
  <2>1. PICK r : r = s % DownPorts
    OBVIOUS
  <2>2. r + 1 \in 1..DownPorts /\ (r + 1) - 1 = r
    BY <1>1, <2>1
  <2>. QED
    BY <1>3, <2>1, <2>2
<1>. QED
  BY <1>2, <1>3, <1>4 DEF Lower, Upper, LowerEnd, UpperEnd

\* So the plan is the full one (build_pod_cabling_plan, build_rack_cabling_plan).
LEMMA PlanIsFull ==
    ASSUME pruned = {}, NEW o \in Owners, NEW i \in Nat, NEW lower \in Seq(Nat), NEW upper \in Seq(Nat)
    PROVE  /\ CablingPlan(o, i, lower, upper) = FullPlan(o, i, lower, upper)
           /\ SlotsInRange(o, i, lower, upper) <=> FullRange(o, i, lower, upper)
<1>. DEFINE At(x, j) == <<Lower(o, lower[x], j), Upper(o, upper[j], Slot(o, i, Len(upper), x, lower[x]))>>
            Full(x, j) == <<LowerEnd(o, lower[x], j),
                            UpperEnd(o, upper[j], Slot(o, i, Len(upper), x, lower[x]))>>
<1>1. \A x : 1..Width(o, lower[x], upper) = Wide(upper)
  BY FullPorts DEF Width, Wide
<1>2. ASSUME NEW x \in 1..Len(lower), NEW j \in Wide(upper) PROVE At(x, j) = Full(x, j)
  <2>1. lower[x] \in Nat /\ x \in Nat /\ Len(upper) \in Nat /\ j \in 1..UpPorts
    BY ElementsOf, WideIs
  <2>2. PICK s : s = Slot(o, i, Len(upper), x, lower[x])
    OBVIOUS
  <2>3. s \in Int
    BY <2>1, <2>2, SlotIsInt
  <2>. QED
    BY <2>1, <2>2, <2>3, FullPorts
<1>3. \A l : l \in CablingPlan(o, i, lower, upper) <=>
               \E x \in 1..Len(lower) : \E j \in Wide(upper) : l = At(x, j)
  <2>. DEFINE Row(x) == {At(x, j) : j \in 1..Width(o, lower[x], upper)}
  <2>1. CablingPlan(o, i, lower, upper) = UNION {Row(x) : x \in 1..Len(lower)}
    BY DEF CablingPlan
  <2>2. \A x, l : l \in Row(x) <=> \E j \in Wide(upper) : l = At(x, j)
    <3>. SUFFICES ASSUME NEW x, NEW l PROVE l \in Row(x) <=> \E j \in Wide(upper) : l = At(x, j)
      OBVIOUS
    <3>1. PICK w : w = 1..Width(o, lower[x], upper) /\ w = Wide(upper)
      BY <1>1
    <3>2. Row(x) = {At(x, j) : j \in w}
      BY <3>1
    <3>. HIDE DEF At, Full, Row
    <3>. QED
      BY <3>1, <3>2, Zenon
  <2>. HIDE DEF At, Full, Row
  <2>3. \A l : l \in CablingPlan(o, i, lower, upper) <=> \E x \in 1..Len(lower) : l \in Row(x)
    BY <2>1, Zenon
  <2>. SUFFICES ASSUME NEW l
                PROVE  l \in CablingPlan(o, i, lower, upper) <=>
                         \E x \in 1..Len(lower) : \E j \in Wide(upper) : l = At(x, j)
    OBVIOUS
  <2>. QED
    BY <2>2, <2>3, SMT
<1>4. \A l : l \in FullPlan(o, i, lower, upper) <=>
               \E x \in 1..Len(lower) : \E j \in Wide(upper) : l = Full(x, j)
  <2>1. FullPlan(o, i, lower, upper) = {Full(x, j) : x \in 1..Len(lower), j \in Wide(upper)}
    BY DEF FullPlan
  <2>. HIDE DEF At, Full
  <2>. QED
    BY <2>1
<1>. HIDE DEF At, Full
<1>5. CablingPlan(o, i, lower, upper) = FullPlan(o, i, lower, upper)
  <2>1. ASSUME NEW l \in CablingPlan(o, i, lower, upper) PROVE l \in FullPlan(o, i, lower, upper)
    <3>1. PICK x \in 1..Len(lower) : \E j \in Wide(upper) : l = At(x, j)
      BY <1>3, Zenon
    <3>2. PICK j \in Wide(upper) : l = At(x, j)
      BY <3>1, Zenon
    <3>3. l = Full(x, j)
      BY <1>2, <3>2, Zenon
    <3>. QED
      BY <1>4, <3>3, Zenon
  <2>2. ASSUME NEW l \in FullPlan(o, i, lower, upper) PROVE l \in CablingPlan(o, i, lower, upper)
    <3>1. PICK x \in 1..Len(lower) : \E j \in Wide(upper) : l = Full(x, j)
      BY <1>4, Zenon
    <3>2. PICK j \in Wide(upper) : l = Full(x, j)
      BY <3>1, Zenon
    <3>3. l = At(x, j)
      BY <1>2, <3>2, Zenon
    <3>. QED
      BY <1>3, <3>3, Zenon
  <2>. QED
    BY <2>1, <2>2, Zenon
<1>6. SlotsInRange(o, i, lower, upper) <=> FullRange(o, i, lower, upper)
  BY <1>1, FullPorts DEF SlotsInRange, FullRange
<1>. QED
  BY <1>5, <1>6

\* Where a planned cable goes.
LEMMA FullShape ==
    ASSUME NEW o \in Owners, NEW i \in Nat, NEW lower \in Seq(Nat), NEW upper \in Seq(Nat),
           NEW l \in FullPlan(o, i, lower, upper)
    PROVE  /\ l[1].of = o /\ l[1].side = "up" /\ l[1].device \in ToSet(lower)
           /\ l[2].of = Above(o) /\ l[2].side = "down" /\ l[2].device \in ToSet(upper)
<1>1. PICK x \in 1..Len(lower), j \in Wide(upper) :
         l = <<LowerEnd(o, lower[x], j), UpperEnd(o, upper[j], Slot(o, i, Len(upper), x, lower[x]))>>
  BY SMT DEF FullPlan
<1>2. lower[x] \in ToSet(lower) /\ upper[j] \in ToSet(upper)
  BY ElementsOf, WideIs
<1>3. l[1] = LowerEnd(o, lower[x], j) /\ \E s : l[2] = UpperEnd(o, upper[j], s)
  BY <1>1
<1>. QED
  BY <1>2, <1>3 DEF LowerEnd, UpperEnd, Port

-----------------------------------------------------------------------------
(* Cables apart                                                             *)

\* What the runs of o plan from: an index of o's, the devices of the tier in
\* the numbers its slots are made for, and slots there are.
Fits(o, i, lower, upper) ==
    /\ i \in Indexes[o] /\ Listed(lower) /\ Listed(upper)
    /\ o \in Racks => ToSet(lower) \subseteq 1..2
    /\ o \in Pods => Len(lower) <= Len(upper)
    /\ FullRange(o, i, lower, upper)

\* The device and the interface at either end of a planned cable.
IsCable(l, o, i, lower, upper, x, j, s) ==
    /\ s = Slot(o, i, Len(upper), x, lower[x]) /\ s < DownPorts
    /\ l = <<LowerEnd(o, lower[x], j), UpperEnd(o, upper[j], s)>>
    /\ l[1].device = lower[x] /\ l[1].port = NameAt(j - 1, "up", UpPorts)
    /\ l[2].device = upper[j] /\ l[2].port = NameAt(s, "down", DownPorts)

LEMMA FitsShape ==
    ASSUME NEW o \in Owners, NEW i, NEW lower, NEW upper, Fits(o, i, lower, upper)
    PROVE  /\ i \in Nat /\ (o \in Pods => i >= 2) /\ (o \notin Pods => i # 0)
           /\ lower \in Seq(Nat) /\ Len(lower) \in Nat /\ upper \in Seq(Nat) /\ Len(upper) \in Nat
           /\ \A x \in 1..Len(lower) : lower[x] \in Nat /\ lower[x] \in ToSet(lower)
           /\ \A x \in 1..Len(lower) : o \notin Pods => lower[x] \in 1..2
<1>1. lower \in Seq(Nat) /\ upper \in Seq(Nat)
  BY DEF Fits, Listed
<1>2. /\ Len(lower) \in Nat /\ Len(upper) \in Nat
      /\ \A x \in 1..Len(lower) : lower[x] \in Nat /\ lower[x] \in ToSet(lower)
  BY <1>1, ElementsOf
<1>3. i \in Nat /\ (o \in Pods => i >= 2) /\ (o \notin Pods => i # 0)
  BY DesignInputs DEF Fits, Owners
<1>4. \A x \in 1..Len(lower) : o \notin Pods => lower[x] \in 1..2
  BY <1>2 DEF Fits, Owners
<1>. QED
  BY <1>1, <1>2, <1>3, <1>4

LEMMA SlotIsNat ==
    ASSUME NEW o \in Owners, NEW i, NEW lower, NEW upper, Fits(o, i, lower, upper),
           NEW x \in 1..Len(lower), NEW j \in Wide(upper),
           NEW s, s = Slot(o, i, Len(upper), x, lower[x])
    PROVE  s \in Nat /\ s < DownPorts
<1>1. /\ i \in Nat /\ Len(upper) \in Nat /\ x \in Nat \ {0}
      /\ lower[x] \in Nat /\ lower[x] \in ToSet(lower)
  BY ElementsOf, DesignInputs DEF Fits, Listed
<1>2. -DownPorts <= s /\ s < DownPorts
  BY DEF Fits, FullRange, InRange
<1>3. CASE o \in Pods
  <2>1. i - 2 \in Nat
    BY <1>1, <1>3, DesignInputs, SMT DEF Fits
  <2>2. (i - 2) * Len(upper) \in Nat
    BY <1>1, <2>1, SMT
  <2>3. s = (i - 2) * Len(upper) + x - 1
    BY <1>3 DEF Slot, PodSlot
  <2>. QED
    BY <1>1, <1>2, <2>2, <2>3, SMT
<1>4. CASE o \notin Pods
  <2>1. i # 0 /\ lower[x] \in 1..2
    BY <1>1, <1>4, DesignInputs DEF Fits, Owners
  <2>2. s = (i * 2 - 2) + lower[x] - 1
    BY <1>4 DEF Slot, RackSlot
  <2>. QED
    BY <1>1, <1>2, <2>1, <2>2, SMT
<1>. QED
  BY <1>3, <1>4

LEMMA CableAt ==
    ASSUME NEW o \in Owners, NEW i, NEW lower, NEW upper, Fits(o, i, lower, upper),
           NEW l \in FullPlan(o, i, lower, upper)
    PROVE  \E x \in 1..Len(lower), j \in 1..Len(upper), s \in Nat :
             IsCable(l, o, i, lower, upper, x, j, s)
<1>1. PICK x \in 1..Len(lower), j \in Wide(upper) :
         l = <<LowerEnd(o, lower[x], j), UpperEnd(o, upper[j], Slot(o, i, Len(upper), x, lower[x]))>>
  BY SMT DEF FullPlan
<1>2. PICK s : s = Slot(o, i, Len(upper), x, lower[x])
  OBVIOUS
<1>3. s \in Nat /\ s < DownPorts
  BY <1>1, <1>2, SlotIsNat
<1>4. s % DownPorts = s
  BY <1>3, CablingBounds, SMT
<1>5. j \in 1..Len(upper)
  BY WideIs DEF Fits, Listed
<1>6. l[1] = LowerEnd(o, lower[x], j) /\ l[2] = UpperEnd(o, upper[j], s)
  BY <1>1, <1>2
<1>7. /\ l[1].device = lower[x] /\ l[1].port = NameAt(j - 1, "up", UpPorts)
      /\ l[2].device = upper[j] /\ l[2].port = NameAt(s, "down", DownPorts)
  BY <1>4, <1>6 DEF LowerEnd, UpperEnd, Port
<1>. QED
  BY <1>1, <1>2, <1>3, <1>5, <1>7 DEF IsCable

(* No interface is planned for two cables of one run                         *)
(* (build_pod_cabling_plan, build_rack_cabling_plan).                        *)
LEMMA PlanApart ==
    ASSUME NEW o \in Owners, NEW i, NEW lower, NEW upper, Fits(o, i, lower, upper),
           NEW l \in FullPlan(o, i, lower, upper),
           NEW m \in FullPlan(o, i, lower, upper), l # m
    PROVE  l[1] # m[1] /\ l[2] # m[2]
<1>1. PICK x \in 1..Len(lower), j \in 1..Len(upper), s \in Nat :
         IsCable(l, o, i, lower, upper, x, j, s)
  BY CableAt
<1>2. PICK y \in 1..Len(lower), k \in 1..Len(upper), t \in Nat :
         IsCable(m, o, i, lower, upper, y, k, t)
  BY CableAt
<1>3. /\ x \in Int /\ y \in Int /\ j \in Int /\ k \in Int /\ s \in Int /\ t \in Int
      /\ UpPorts \in Int /\ DownPorts \in Int
      /\ lower[x] \in Nat /\ lower[y] \in Nat /\ i \in Nat /\ Len(upper) \in Nat
  <2>1. i \in Nat /\ Len(upper) \in Nat /\ lower[x] \in Nat /\ lower[y] \in Nat
    BY FitsShape
  <2>2. UpPorts \in Nat /\ DownPorts \in Nat
    BY CablingBounds
  <2>. QED
    BY <2>1, <2>2
<1>4. /\ lower[x] = lower[y] => x = y
      /\ upper[j] = upper[k] => j = k
  BY DEF Fits, Listed, Distinct
<1>5. x = y /\ j = k => l = m
  BY <1>1, <1>2 DEF IsCable
<1>6. ASSUME l[1] = m[1] PROVE FALSE
  <2>1. lower[x] = lower[y] /\ NameAt(j - 1, "up", UpPorts) = NameAt(k - 1, "up", UpPorts)
    BY <1>1, <1>2, <1>6 DEF IsCable
  <2>2. j - 1 \in Int /\ k - 1 \in Int
    BY <1>3
  <2>3. j - 1 = k - 1
    BY <1>3, <2>1, <2>2, NameAtInjective
  <2>. QED
    BY <1>3, <1>4, <1>5, <2>1, <2>3
<1>7. ASSUME l[2] = m[2] PROVE FALSE
  <2>1. upper[j] = upper[k] /\ NameAt(s, "down", DownPorts) = NameAt(t, "down", DownPorts)
    BY <1>1, <1>2, <1>7 DEF IsCable
  <2>2. s = t
    BY <1>3, <2>1, NameAtInjective
  <2>3. x = y \/ lower[x] = lower[y]
    <3>1. CASE o \in Pods
      <4>1. PodSlot(i, Len(upper), x) = PodSlot(i, Len(upper), y)
        BY <1>1, <1>2, <2>2, <3>1 DEF IsCable, Slot
      <4>2. x \in Nat /\ y \in Nat
        OBVIOUS
      <4>. QED
        BY <1>3, <4>1, <4>2, PodSlotInjective
    <3>2. CASE o \notin Pods
      <4>1. RackSlot(i, lower[x]) = RackSlot(i, lower[y])
        BY <1>1, <1>2, <2>2, <3>2 DEF IsCable, Slot
      <4>. QED
        BY <1>3, <4>1, RackSlotInjective
    <3>. QED
      BY <3>1, <3>2
  <2>. QED
    BY <1>4, <1>5, <2>1, <2>3
<1>. QED
  BY <1>6, <1>7

(* Cables of two siblings never meet: pods are kept apart by the number of   *)
(* super-spines they both counted, racks by their two slots.                 *)
LEMMA SiblingsApart ==
    ASSUME NEW o \in Owners, NEW i, NEW lower, NEW upper, Fits(o, i, lower, upper),
           NEW q \in Owners, NEW k, NEW below, NEW above, Fits(q, k, below, above),
           Above(o) = Above(q), i # k,
           o \in Pods => Len(upper) = Len(above),
           NEW l \in FullPlan(o, i, lower, upper),
           NEW m \in FullPlan(q, k, below, above)
    PROVE  l[2] # m[2]
<1>1. PICK x \in 1..Len(lower), j \in 1..Len(upper), s \in Nat :
         IsCable(l, o, i, lower, upper, x, j, s)
  BY CableAt
<1>2. PICK y \in 1..Len(below), z \in 1..Len(above), t \in Nat :
         IsCable(m, q, k, below, above, y, z, t)
  BY CableAt
<1>3. /\ i \in Nat /\ (o \in Pods => i >= 2) /\ Len(upper) \in Nat /\ Len(lower) \in Nat
      /\ lower[x] \in Nat /\ (o \notin Pods => lower[x] \in 1..2)
  BY FitsShape
<1>9. /\ k \in Nat /\ (q \in Pods => k >= 2) /\ Len(above) \in Nat /\ Len(below) \in Nat
      /\ below[y] \in Nat /\ (q \notin Pods => below[y] \in 1..2)
  BY FitsShape
<1>10. x \in Nat \ {0} /\ x <= Len(lower) /\ y \in Nat \ {0} /\ y <= Len(below)
  BY <1>3, <1>9
<1>4. SUFFICES ASSUME l[2] = m[2] PROVE FALSE
  OBVIOUS
<1>5. s = t
  <2>1. NameAt(s, "down", DownPorts) = NameAt(t, "down", DownPorts)
    BY <1>1, <1>2, <1>4 DEF IsCable
  <2>2. s \in Int /\ t \in Int /\ DownPorts \in Int
    BY CablingBounds
  <2>. QED
    BY <2>1, <2>2, NameAtInjective
<1>6. o \in Pods <=> q \in Pods
  BY TiersAreTree DEF Above, Owners
<1>7. CASE o \in Pods
  <2>1. PICK n \in Nat : n = Len(upper) /\ n = Len(above)
    BY <1>3, <1>7
  <2>2. x \in 1..n /\ y \in 1..n /\ i >= 2 /\ k >= 2
    <3>1. Len(lower) <= n /\ Len(below) <= n
      BY <1>6, <1>7, <2>1 DEF Fits
    <3>. QED
      BY <1>3, <1>6, <1>7, <1>9, <1>10, <3>1
  <2>3. s = PodSlot(i, n, x) /\ t = PodSlot(k, n, y)
    BY <1>1, <1>2, <1>6, <1>7, <2>1 DEF IsCable, Slot
  <2>4. CASE i < k
    <3>1. PodSlot(i, n, x) < PodSlot(k, n, y)
      BY <1>3, <1>9, <1>10, <2>2, <2>4, PodSlotsApart
    <3>2. s < t
      BY <2>3, <3>1
    <3>. QED
      BY <1>5, <3>2
  <2>5. CASE k < i
    <3>1. PodSlot(k, n, y) < PodSlot(i, n, x)
      BY <1>3, <1>9, <1>10, <2>2, <2>5, PodSlotsApart
    <3>2. t < s
      BY <2>3, <3>1
    <3>. QED
      BY <1>5, <3>2
  <2>. QED
    BY <1>3, <1>9, <2>4, <2>5
<1>8. CASE o \notin Pods
  <2>1. lower[x] \in 1..2 /\ below[y] \in 1..2
    BY <1>3, <1>6, <1>8, <1>9
  <2>2. s = RackSlot(i, lower[x]) /\ t = RackSlot(k, below[y])
    BY <1>1, <1>2, <1>6, <1>8 DEF IsCable, Slot
  <2>. QED
    <3>1. CASE i < k
      <4>1. RackSlot(i, lower[x]) < RackSlot(k, below[y])
        BY <1>3, <1>9, <2>1, <3>1, RackSlotsApart
      <4>2. s < t
        BY <2>2, <4>1
      <4>. QED
        BY <1>5, <4>2
    <3>2. CASE k < i
      <4>1. RackSlot(k, below[y]) < RackSlot(i, lower[x])
        BY <1>3, <1>9, <2>1, <3>2, RackSlotsApart
      <4>2. t < s
        BY <2>2, <4>1
      <4>. QED
        BY <1>5, <4>2
    <3>. QED
      BY <1>3, <1>9, <3>1, <3>2
<1>. QED
  BY <1>7, <1>8

LEMMA OwnApart ==
    ASSUME NEW o \in Owners, NEW i, NEW lower, NEW upper, Fits(o, i, lower, upper),
           NEW l \in FullPlan(o, i, lower, upper),
           NEW m \in FullPlan(o, i, lower, upper), l # m
    PROVE  l[1] \notin {m[1], m[2]} /\ l[2] \notin {m[1], m[2]}
<1>1. i \in Nat /\ lower \in Seq(Nat) /\ upper \in Seq(Nat)
  BY FitsShape
<1>2. /\ l[1].side = "up" /\ l[2].side = "down" /\ m[1].side = "up" /\ m[2].side = "down"
  BY <1>1, FullShape
<1>. QED
  BY <1>2, PlanApart

\* A position reserved for o is one of its slots: no device comes before the
\* first, so the list is never indexed from its end.
LEMMA ReservedIs ==
    ASSUME DesignOK, NEW o \in Owners, NEW e \in Reserved(o)
    PROVE  \E x \in Nat \ {0} :
             /\ x <= amount[o] /\ e = Slot(o, index[o], amount[Above(o)], x, x) /\ e \in Nat
<1>1. /\ amount[o] \in Nat /\ amount[Above(o)] \in Nat /\ index[o] \in Nat
      /\ (o \in Pods => index[o] >= 2) /\ (o \notin Pods => index[o] # 0)
  BY UpperTier, DesignInputs DEF DesignOK, Owners
<1>2. PICK x \in 1..amount[o] :
         /\ e = Slot(o, index[o], amount[Above(o)], x, x) % DownPorts
         /\ InRange(Slot(o, index[o], amount[Above(o)], x, x), DownPorts)
  BY DEF Reserved
<1>3. PICK s : s = Slot(o, index[o], amount[Above(o)], x, x)
  OBVIOUS
<1>4. x \in Nat \ {0} /\ x <= amount[o] /\ DownPorts \in Nat \ {0}
  BY <1>1, CablingBounds
<1>5. s \in Nat
  <2>1. CASE o \in Pods
    <3>1. (index[o] - 2) * amount[Above(o)] \in Nat
      BY <1>1, <2>1, SMT
    <3>2. s = (index[o] - 2) * amount[Above(o)] + x - 1
      BY <1>3, <2>1 DEF Slot, PodSlot
    <3>. QED
      BY <1>4, <3>1, <3>2, SMT
  <2>2. CASE o \notin Pods
    <3>1. s = (index[o] * 2 - 2) + x - 1
      BY <1>3, <2>2 DEF Slot, RackSlot
    <3>. QED
      BY <1>1, <1>4, <2>2, <3>1, SMT
  <2>. QED
    BY <2>1, <2>2
<1>6. s % DownPorts = s
  BY <1>2, <1>3, <1>4, <1>5, SMT DEF InRange
<1>. QED
  BY <1>2, <1>3, <1>4, <1>5, <1>6

LEMMA DesignSeparates == DesignOK => RangesDisjoint
<1>. SUFFICES ASSUME DesignOK, NEW o \in Owners, NEW q \in Siblings(o),
                     NEW e \in Reserved(o), e \in Reserved(q)
              PROVE  FALSE
  BY DEF RangesDisjoint
<1>1. q \in Owners /\ Above(o) = Above(q) /\ index[o] # index[q]
  BY DEF Siblings, Below, DesignOK
<1>2. PICK x \in Nat \ {0} :
         x <= amount[o] /\ e = Slot(o, index[o], amount[Above(o)], x, x) /\ e \in Nat
  BY ReservedIs
<1>3. PICK y \in Nat \ {0} :
         y <= amount[q] /\ e = Slot(q, index[q], amount[Above(q)], y, y) /\ e \in Nat
  BY <1>1, ReservedIs
<1>4. /\ amount[o] \in Nat /\ amount[q] \in Nat /\ amount[Above(o)] \in Nat
      /\ index[o] \in Nat /\ index[q] \in Nat
  BY <1>1, UpperTier DEF DesignOK
<1>5. o \in Pods <=> q \in Pods
  BY <1>1, TiersAreTree DEF Above, Owners
<1>6. CASE o \in Pods
  <2>1. PICK n \in Nat : n = amount[Fabric] /\ Above(o) = Fabric /\ Above(q) = Fabric
    BY <1>4, <1>5, <1>6 DEF Above
  <2>2. amount[o] <= n /\ amount[q] <= n /\ index[o] >= 2 /\ index[q] >= 2
    <3>1. o \in Pods /\ q \in Pods
      BY <1>5, <1>6
    <3>2. \A p \in Pods : amount[p] <= amount[Fabric]
      BY DEF DesignOK, NotWide
    <3>3. \A p \in Pods : p \in Owners /\ index[p] \in Indexes[p]
      BY DEF DesignOK, Owners
    <3>. QED
      BY <2>1, <3>1, <3>2, <3>3, DesignInputs
  <2>3. x \in 1..n /\ y \in 1..n
    BY <1>2, <1>3, <1>4, <2>1, <2>2
  <2>4. e = PodSlot(index[o], n, x) /\ e = PodSlot(index[q], n, y)
    BY <1>2, <1>3, <1>5, <1>6, <2>1 DEF Slot
  <2>5. index[o] < index[q] => PodSlot(index[o], n, x) < PodSlot(index[q], n, y)
    BY <1>4, <2>2, <2>3, PodSlotsApart
  <2>6. index[q] < index[o] => PodSlot(index[q], n, y) < PodSlot(index[o], n, x)
    BY <1>4, <2>2, <2>3, PodSlotsApart
  <2>. QED
    BY <1>1, <1>2, <1>4, <2>4, <2>5, <2>6
<1>7. CASE o \notin Pods
  <2>1. amount[o] \in 1..2 /\ amount[q] \in 1..2
    BY <1>1, <1>5, <1>7, UpperTier, DesignInputs DEF DesignOK, Owners
  <2>2. x \in 1..2 /\ y \in 1..2
    BY <1>2, <1>3, <2>1
  <2>3. e = RackSlot(index[o], x) /\ e = RackSlot(index[q], y)
    BY <1>2, <1>3, <1>5, <1>7 DEF Slot
  <2>4. index[o] < index[q] => e < e
    BY <1>4, <2>2, <2>3, RackSlotsApart
  <2>5. index[q] < index[o] => e < e
    BY <1>4, <2>2, <2>3, RackSlotsApart
  <2>. QED
    BY <1>1, <1>2, <1>4, <2>4, <2>5
<1>. QED
  BY <1>6, <1>7

(* However the operator re-indexes and resizes, no two pods and no two racks *)
(* of a pod are ever given the same position on a device above them          *)
(* (build_pod_cabling_plan, build_rack_cabling_plan).                        *)
THEOREM RangesStayDisjoint == Spec => []RangesDisjoint
<1>1. Init => DesignOK
  BY DesignAtFirst
<1>2. DesignOK /\ [Next]_vars => DesignOK'
  BY DesignPreserved
<1>3. DesignOK => RangesDisjoint
  BY DesignSeparates
<1>. QED
  BY <1>1, <1>2, <1>3, PTL DEF Spec

-----------------------------------------------------------------------------
(* The interfaces that are o's to use                                       *)

\* Is e one of the interfaces that runs of o with index i use, when it has a
\* devices, the tier above is to have n of them and has the devices above?
\* Whatever the order of its own devices; those above are the first ones.
InLower(e, o, a, n) ==
    \E k \in 1..a : \E j \in 1..Fewer(UpPorts, n) : e = LowerEnd(o, k, j)
InUpper(e, o, i, a, n, above) ==
    \E j \in Wide(above) : \E x \in 1..a : e = UpperEnd(o, above[j], Slot(o, i, n, x, x))
InWindow(e, o, i, a, n, above) == InLower(e, o, a, n) \/ InUpper(e, o, i, a, n, above)

LEMMA FewerGrows ==
    ASSUME NEW n \in Nat, NEW m \in Nat, n <= m
    PROVE  \A j \in 1..Fewer(UpPorts, n) : j \in 1..Fewer(UpPorts, m)
<1>1. UpPorts \in Nat
  BY CablingBounds
<1>. QED
  BY <1>1 DEF Fewer

\* More devices on either tier leave what was o's to o. The slots of a pod
\* depend on the number of super-spines.
LEMMA WindowGrows ==
    ASSUME NEW e, NEW o \in Owners, NEW i \in Nat, NEW a \in Nat, NEW b \in Nat, a <= b,
           NEW n \in Nat, NEW m \in Nat, n <= m, o \in Pods => n = m,
           NEW above \in Seq(Nat), NEW beyond \in Seq(Nat), Prefix(above, beyond),
           InWindow(e, o, i, a, n, above)
    PROVE  InWindow(e, o, i, b, m, beyond)
<1>1. \A x \in 1..a : x \in 1..b
  OBVIOUS
<1>2. CASE InLower(e, o, a, n)
  BY <1>1, <1>2, FewerGrows DEF InLower, InWindow
<1>3. CASE InUpper(e, o, i, a, n, above)
  <2>1. PICK j \in Wide(above), x \in 1..a : e = UpperEnd(o, above[j], Slot(o, i, n, x, x))
    BY <1>3 DEF InUpper
  <2>2. j \in Wide(beyond)
    <3>1. Len(above) \in Nat /\ Len(beyond) \in Nat /\ Len(above) <= Len(beyond)
      BY DEF Prefix
    <3>. QED
      BY <3>1, FewerGrows DEF Wide
  <2>3. beyond[j] = above[j]
    BY WideIs DEF Prefix
  <2>4. Slot(o, i, n, x, x) = Slot(o, i, m, x, x)
    BY DEF Slot
  <2>5. e = UpperEnd(o, beyond[j], Slot(o, i, m, x, x))
    BY <2>1, <2>3, <2>4
  <2>. QED
    BY <1>1, <2>2, <2>5 DEF InUpper, InWindow
<1>. QED
  BY <1>2, <1>3 DEF InWindow

\* Fewer devices above leave what is on those that stay: none moves back.
LEMMA WindowThins ==
    ASSUME NEW e, NEW o \in Owners, NEW i \in Nat, NEW a \in Nat, NEW n \in Nat,
           NEW above, Listed(above), NEW S, e.of = Above(o) => e.device \in S,
           InWindow(e, o, i, a, n, above)
    PROVE  InWindow(e, o, i, a, n, Only(above, S))
<1>1. CASE InLower(e, o, a, n)
  BY <1>1 DEF InWindow
<1>2. CASE InUpper(e, o, i, a, n, above)
  <2>1. PICK j \in Wide(above), x \in 1..a : e = UpperEnd(o, above[j], Slot(o, i, n, x, x))
    BY <1>2 DEF InUpper
  <2>2. above[j] \in S
    BY <2>1 DEF UpperEnd, Port
  <2>3. j \in 1..Len(above) /\ j \in 1..UpPorts /\ j \in Nat
    BY WideIs DEF Listed
  <2>4. PICK less \in Seq(Nat) : less = Only(above, S) /\ Early(above, S, less, Len(above))
    BY ListedOnly DEF Listed
  <2>5. PICK y \in 1..Len(less) : y <= j /\ less[y] = above[j]
    BY <2>2, <2>3, <2>4 DEF Early
  <2>6. y \in Wide(less)
    <3>1. UpPorts \in Nat /\ Len(less) \in Nat /\ y \in Nat /\ y <= UpPorts /\ y <= Len(less) /\ y >= 1
      BY <2>3, <2>5, CablingBounds
    <3>. QED
      BY <3>1 DEF Wide, Fewer
  <2>7. e = UpperEnd(o, less[y], Slot(o, i, n, x, x))
    BY <2>1, <2>5
  <2>. QED
    BY <2>4, <2>6, <2>7 DEF InUpper, InWindow
<1>. QED
  BY <1>1, <1>2 DEF InWindow

LEMMA EndsOfAre ==
    ASSUME NEW S, NEW e PROVE e \in EndsOf(S) <=> \E l \in S : e = l[1] \/ e = l[2]
BY DEF EndsOf

\* A run uses all of it and nothing else, in whatever order its devices are.
LEMMA WindowIsPlan ==
    ASSUME NEW e, NEW o \in Owners, NEW i \in Nat, NEW lower, Listed(lower), NEW a \in Nat,
           ToSet(lower) = 1..a, NEW upper \in Seq(Nat)
    PROVE  e \in EndsOf(FullPlan(o, i, lower, upper)) <=> InWindow(e, o, i, a, Len(upper), upper)
<1>. DEFINE n == Len(upper)
            Cable(x, j) == <<LowerEnd(o, lower[x], j), UpperEnd(o, upper[j], Slot(o, i, n, x, lower[x]))>>
<1>1. Len(lower) = a /\ lower \in Seq(Nat)
  BY ListedUpTo DEF Listed
<1>2. \A x \in 1..a : lower[x] \in 1..a
  BY <1>1, ElementsOf
<1>3. \A k \in 1..a : \E x \in 1..a : lower[x] = k
  BY <1>1, ElementsOf
<1>4. \A l : l \in FullPlan(o, i, lower, upper) <=> \E x \in 1..a : \E j \in Wide(upper) : l = Cable(x, j)
  <2>1. FullPlan(o, i, lower, upper) = {Cable(x, j) : x \in 1..a, j \in Wide(upper)}
    BY <1>1 DEF FullPlan
  <2>. HIDE DEF Cable
  <2>. QED
    BY <2>1
<1>5. \A x, j : /\ Cable(x, j)[1] = LowerEnd(o, lower[x], j)
                /\ Cable(x, j)[2] = UpperEnd(o, upper[j], Slot(o, i, n, x, lower[x]))
  OBVIOUS
<1>6. ASSUME NEW x \in 1..a
      PROVE  \E y \in 1..a : Slot(o, i, n, y, lower[y]) = Slot(o, i, n, x, x)
  <2>1. CASE o \in Pods
    BY <2>1 DEF Slot
  <2>2. CASE o \notin Pods
    <3>1. PICK y \in 1..a : lower[y] = x
      BY <1>3
    <3>. QED
      BY <2>2, <3>1 DEF Slot
  <2>. QED
    BY <2>1, <2>2
<1>7. ASSUME NEW x \in 1..a
      PROVE  \E y \in 1..a : Slot(o, i, n, x, lower[x]) = Slot(o, i, n, y, y)
  <2>1. CASE o \in Pods
    BY <2>1 DEF Slot
  <2>2. CASE o \notin Pods
    BY <1>2, <2>2 DEF Slot
  <2>. QED
    BY <2>1, <2>2
<1>. HIDE DEF Cable
<1>8. ASSUME e \in EndsOf(FullPlan(o, i, lower, upper)) PROVE InWindow(e, o, i, a, n, upper)
  <2>1. PICK l \in FullPlan(o, i, lower, upper) : e = l[1] \/ e = l[2]
    BY <1>8, EndsOfAre
  <2>2. PICK x \in 1..a, j \in Wide(upper) : l = Cable(x, j)
    BY <1>4, <2>1
  <2>3. CASE e = l[1]
    BY <1>2, <1>5, <2>2, <2>3 DEF InWindow, InLower, Wide
  <2>4. CASE e = l[2]
    <3>1. PICK y \in 1..a : Slot(o, i, n, x, lower[x]) = Slot(o, i, n, y, y)
      BY <1>7
    <3>2. e = UpperEnd(o, upper[j], Slot(o, i, n, y, y))
      BY <1>5, <2>2, <2>4, <3>1
    <3>. QED
      BY <3>2 DEF InWindow, InUpper
  <2>. QED
    BY <2>1, <2>3, <2>4
<1>9. ASSUME InLower(e, o, a, n) PROVE e \in EndsOf(FullPlan(o, i, lower, upper))
  <2>1. PICK k \in 1..a, j \in Wide(upper) : e = LowerEnd(o, k, j)
    BY <1>9 DEF InLower, Wide
  <2>2. PICK x \in 1..a : lower[x] = k
    BY <1>3
  <2>3. Cable(x, j) \in FullPlan(o, i, lower, upper) /\ e = Cable(x, j)[1]
    BY <1>4, <1>5, <2>1, <2>2
  <2>. QED
    BY <2>3, EndsOfAre
<1>10. ASSUME InUpper(e, o, i, a, n, upper) PROVE e \in EndsOf(FullPlan(o, i, lower, upper))
  <2>1. PICK j \in Wide(upper), x \in 1..a : e = UpperEnd(o, upper[j], Slot(o, i, n, x, x))
    BY <1>10 DEF InUpper
  <2>2. PICK y \in 1..a : Slot(o, i, n, y, lower[y]) = Slot(o, i, n, x, x)
    BY <1>6
  <2>3. Cable(y, j) \in FullPlan(o, i, lower, upper) /\ e = Cable(y, j)[2]
    BY <1>4, <1>5, <2>1, <2>2
  <2>. QED
    BY <2>3, EndsOfAre
<1>. QED
  BY <1>8, <1>9, <1>10 DEF InWindow

-----------------------------------------------------------------------------
(* What every run relies on                                                 *)

\* What the run of o in progress lays, and what the design asks for.
PlanOf(o) == FullPlan(o, index[o], devices[o], run[o].upper)
Goal(o)   == FullPlan(o, index[o], devices[o], devices[Above(o)])
GoalRange(o) == FullRange(o, index[o], devices[o], devices[Above(o)])

\* A run works to the index there is, with as many devices as it asked for, and
\* to devices above it that are still there; a pod's run to the super-spines
\* there are. One that is not due again works to what the design asks for.
CurrentRun(o) == run[o].pc # "idle" =>
    /\ run[o].index = index[o]
    /\ Numbers(o) = 1..run[o].amount /\ run[o].amount <= amount[o]
    /\ run[o].pc = "plan" => run[o].made = {}
    /\ Prefix(run[o].upper, devices[Above(o)]) /\ Len(run[o].upper) <= amount[Above(o)]
    /\ o \in Pods => run[o].upper = devices[Fabric] /\ Len(devices[Fabric]) = amount[Fabric]
    /\ o \notin due => /\ run[o].amount = amount[o] /\ run[o].upper = devices[Above(o)]
                       /\ Len(run[o].upper) = amount[Above(o)]

\* What a run has laid and what it is still to lay is its plan, and what it has
\* laid is in place.
Laying(o) == run[o].pc = "connect" =>
    /\ FullRange(o, index[o], devices[o], run[o].upper)
    /\ run[o].made \cup run[o].plan = PlanOf(o)
    /\ run[o].made \subseteq links
    /\ o \notin due => \A l \in run[o].made : Ends(l) \subseteq plugged

\* An owner with nothing left to do is cabled as planned.
Laid(o) == run[o].pc = "idle" /\ o \notin due =>
    /\ Numbers(o) = 1..amount[o] /\ Len(devices[Above(o)]) = amount[Above(o)]
    /\ GoalRange(o)
    /\ \A l \in Goal(o) : l \in links /\ Ends(l) \subseteq plugged

\* What o is at work on, or will be: how many devices, below which.
Wanted(o) == IF run[o].pc = "idle" THEN amount[o] ELSE run[o].amount
Seen(o)   == IF run[o].pc = "idle" THEN devices[Above(o)] ELSE run[o].upper
Count(o)  == IF run[o].pc = "idle" THEN amount[Above(o)] ELSE Len(run[o].upper)
Mine(o, e) == InWindow(e, o, index[o], Wanted(o), Count(o), Seen(o))

\* The members of o's group are links of its own, interfaces on them and
\* devices it still asks for.
Grouped(o) ==
    /\ \A l \in group[o].links : l \in links /\ l[1].of = o
    /\ group[o].ends \subseteq EndsOf(group[o].links)
    /\ group[o].devices \subseteq 1..Wanted(o)

\* The interfaces that are members of o's group, or plugged on a link of o's,
\* are o's to use: its next run saves every one of them again.
Kept(o)     == \A e \in group[o].ends : Mine(o, e)
InPlace(o)  == \A q \in plugged : q[2][1].of = o => Mine(o, q[1])

\* An interface is on one link, of its own, that exists.
Plugs ==
    /\ \A q \in plugged : q[2] \in links /\ q[1] \in {q[2][1], q[2][2]}
    /\ \A q, z \in plugged : q[1] = z[1] => q = z
    /\ \A l \in links : l[1].of \in Owners

\* No tier has more devices than the design asks for.
Few == \A t \in Targets : Numbers(t) \subseteq 1..amount[t]

CablingInv ==
    /\ Shape /\ Plugs /\ Few /\ pruned = {}
    /\ \A o \in Owners : /\ CurrentRun(o) /\ Laying(o) /\ Laid(o)
                         /\ Grouped(o) /\ Kept(o) /\ InPlace(o)

LEMMA EndsAre ==
    ASSUME NEW l, NEW S
    PROVE  Ends(l) \subseteq S <=> <<l[1], l>> \in S /\ <<l[2], l>> \in S
BY DEF Ends

LEMMA ShapeOf ==
    ASSUME Shape, NEW o \in Owners
    PROVE  /\ index[o] \in Nat /\ index[o] \in Indexes[o]
           /\ amount[o] \in Nat /\ amount[Above(o)] \in Nat
           /\ Listed(devices[o]) /\ Listed(devices[Above(o)]) /\ Listed(run[o].upper)
           /\ devices[o] \in Seq(Nat) /\ devices[Above(o)] \in Seq(Nat)
           /\ run[o].upper \in Seq(Nat) /\ run[o].amount \in Nat
           /\ Len(run[o].upper) \in Nat /\ Len(devices[Above(o)]) \in Nat
           /\ run[o].pc \in {"idle", "plan", "connect"}
<1>1. o \in Targets /\ Above(o) \in Targets
  BY UpperTier
<1>2. /\ index[o] \in Nat /\ index[o] \in Indexes[o]
      /\ amount[o] \in Nat /\ amount[Above(o)] \in Nat
      /\ Listed(devices[o]) /\ Listed(devices[Above(o)]) /\ Listed(run[o].upper)
  BY <1>1 DEF Shape, DesignOK
<1>3. run[o].amount \in Nat /\ run[o].pc \in {"idle", "plan", "connect"}
  BY RunIsRecord DEF Shape
<1>. QED
  BY <1>2, <1>3 DEF Listed

\* A tier of o has at most as many devices as the design asks for.
LEMMA TierIsShort ==
    ASSUME Shape, Few, NEW o \in Owners
    PROVE  /\ Len(devices[o]) \in Nat /\ Len(devices[o]) <= amount[o]
           /\ o \in Racks => Numbers(o) \subseteq 1..2
           /\ o \in Pods => amount[o] <= amount[Fabric] /\ amount[Fabric] \in Nat
           /\ Only(devices[o], 1..amount[o]) = devices[o]
<1>1. o \in Targets /\ amount[o] \in Nat /\ Listed(devices[o]) /\ Numbers(o) \subseteq 1..amount[o]
  BY UpperTier, ShapeOf DEF Few
<1>2. Len(devices[o]) <= amount[o] /\ Len(devices[o]) \in Nat
  BY <1>1, ListedUpTo DEF Numbers, Listed
<1>3. o \in Racks => Numbers(o) \subseteq 1..2
  <2>1. o \in Racks => amount[o] \in 1..2
    BY <1>1, DesignInputs DEF Shape, DesignOK
  <2>. QED
    BY <1>1, <2>1
<1>4. o \in Pods => amount[o] <= amount[Fabric] /\ amount[Fabric] \in Nat
  BY DEF Shape, DesignOK, NotWide, Targets
<1>5. Only(devices[o], 1..amount[o]) = devices[o]
  BY <1>1, ListedOnly DEF Numbers
<1>. QED
  BY <1>2, <1>3, <1>4, <1>5

\* What a run plans for o fits.
LEMMA RunFits ==
    ASSUME CablingInv, NEW o \in Owners, run[o].pc = "connect"
    PROVE  Fits(o, index[o], devices[o], run[o].upper)
<1>1. Shape /\ Few /\ CurrentRun(o) /\ Laying(o)
  BY DEF CablingInv
<1>2. o \in Pods => Len(devices[o]) <= Len(run[o].upper)
  <2>. SUFFICES ASSUME o \in Pods PROVE Len(devices[o]) <= Len(run[o].upper)
    OBVIOUS
  <2>1. Len(run[o].upper) = amount[Fabric]
    BY <1>1 DEF CurrentRun
  <2>. QED
    BY <1>1, <2>1, TierIsShort, ShapeOf
<1>. QED
  BY <1>1, <1>2, TierIsShort, ShapeOf DEF Fits, Laying, Numbers

\* So does what is planned for o, for a pod once the super-spines are counted.
LEMMA GoalFits ==
    ASSUME Shape, Few, NEW o \in Owners, GoalRange(o),
           o \in Pods => Len(devices[Fabric]) = amount[Fabric]
    PROVE  Fits(o, index[o], devices[o], devices[Above(o)])
<1>1. o \in Pods => Len(devices[o]) <= Len(devices[Above(o)])
  <2>. SUFFICES ASSUME o \in Pods PROVE Len(devices[o]) <= Len(devices[Above(o)])
    OBVIOUS
  <2>1. Above(o) = Fabric
    BY DEF Above
  <2>. QED
    BY <2>1, TierIsShort, ShapeOf
<1>. QED
  BY <1>1, TierIsShort, ShapeOf DEF Fits, GoalRange, Numbers

\* What the design asks for is the goal, as long as no interface was pruned.
LEMMA GoalIsPlanned ==
    Shape /\ Few /\ pruned = {} =>
        \A o \in Owners : Planned(o) = IF GoalRange(o) THEN Goal(o) ELSE {}
<1>. SUFFICES ASSUME Shape, Few, pruned = {}, NEW o \in Owners
              PROVE  Planned(o) = IF GoalRange(o) THEN Goal(o) ELSE {}
  OBVIOUS
<1>1. index[o] \in Nat /\ devices[o] \in Seq(Nat) /\ devices[Above(o)] \in Seq(Nat)
  BY ShapeOf
<1>2. Lowers(o, amount[o]) = devices[o]
  BY <1>1, FullMaps, TierIsShort
<1>3. Uppers(o, devices[Above(o)]) = devices[Above(o)]
  <2>1. Only(devices[Above(o)], Numbers(Above(o))) = devices[Above(o)]
    BY ShapeOf, ListedOnly DEF Numbers
  <2>. QED
    BY <1>1, <2>1, FullMaps
<1>4. /\ CablingPlan(o, index[o], devices[o], devices[Above(o)]) = Goal(o)
      /\ SlotsInRange(o, index[o], devices[o], devices[Above(o)]) <=> GoalRange(o)
  BY <1>1, PlanIsFull DEF Goal, GoalRange
<1>. QED
  BY <1>2, <1>3, <1>4 DEF Planned

\* Where the cables of a run and of the goal go.
LEMMA LaidAt ==
    ASSUME CablingInv, NEW o \in Owners, NEW l \in PlanOf(o)
    PROVE  /\ l[1].of = o /\ l[1].side = "up" /\ l[1].device \in Numbers(o)
           /\ l[2].of = Above(o) /\ l[2].side = "down"
           /\ run[o].pc # "idle" => l[2].device \in Numbers(Above(o))
<1>1. Shape /\ CurrentRun(o)
  BY DEF CablingInv
<1>2. /\ index[o] \in Nat /\ devices[o] \in Seq(Nat) /\ run[o].upper \in Seq(Nat)
      /\ devices[Above(o)] \in Seq(Nat)
  BY <1>1, ShapeOf
<1>3. l \in FullPlan(o, index[o], devices[o], run[o].upper)
  BY DEF PlanOf
<1>4. /\ l[1].of = o /\ l[1].side = "up" /\ l[1].device \in ToSet(devices[o])
      /\ l[2].of = Above(o) /\ l[2].side = "down" /\ l[2].device \in ToSet(run[o].upper)
  BY <1>2, <1>3, FullShape
<1>5. ASSUME run[o].pc # "idle" PROVE ToSet(run[o].upper) \subseteq ToSet(devices[Above(o)])
  <2>1. Prefix(run[o].upper, devices[Above(o)])
    BY <1>1, <1>5 DEF CurrentRun
  <2>. QED
    BY <1>2, <2>1, PrefixKeeps
<1>. QED
  BY <1>4, <1>5 DEF Numbers

LEMMA GoalAt ==
    ASSUME Shape, NEW o \in Owners, NEW l \in Goal(o)
    PROVE  /\ l[1].of = o /\ l[1].side = "up" /\ l[1].device \in Numbers(o)
           /\ l[2].of = Above(o) /\ l[2].side = "down" /\ l[2].device \in Numbers(Above(o))
<1>1. index[o] \in Nat /\ devices[o] \in Seq(Nat) /\ devices[Above(o)] \in Seq(Nat)
  BY ShapeOf
<1>2. l \in FullPlan(o, index[o], devices[o], devices[Above(o)])
  BY DEF Goal
<1>. QED
  BY <1>1, <1>2, FullShape DEF Numbers

-----------------------------------------------------------------------------
(* What a step leaves of it                                                 *)

\* The cables o relies on: those its run has laid, or all of the goal.
Safe(o) == IF run[o].pc = "idle" THEN Goal(o) ELSE run[o].made

LEMMA SafeAt ==
    ASSUME CablingInv, NEW o \in Owners, NEW l \in Safe(o)
    PROVE  /\ l[1].of = o /\ l[1].side = "up" /\ l[1].device \in Numbers(o)
           /\ l[2].of = Above(o) /\ l[2].side = "down" /\ l[2].device \in Numbers(Above(o))
           /\ run[o].pc # "idle" => run[o].pc = "connect" /\ l \in PlanOf(o)
<1>1. CASE run[o].pc = "idle"
  BY <1>1, GoalAt DEF Safe, CablingInv
<1>2. CASE run[o].pc # "idle"
  <2>1. run[o].pc \in {"plan", "connect"} /\ l \in run[o].made
    BY <1>2, RunIsRecord DEF Safe, CablingInv, Shape
  <2>2. run[o].pc = "connect"
    BY <2>1 DEF CablingInv, CurrentRun
  <2>3. l \in PlanOf(o)
    BY <2>1, <2>2 DEF CablingInv, Laying
  <2>. QED
    BY <1>2, <2>2, <2>3, LaidAt
<1>. QED
  BY <1>1, <1>2

\* Lists that only grow at their end.
LEMMA PrefixGrows ==
    ASSUME NEW a \in Seq(Nat), NEW b \in Seq(Nat), NEW c \in Seq(Nat), Prefix(a, b), Prefix(b, c)
    PROVE  Prefix(a, c)
<1>1. Len(a) \in Nat /\ Len(b) \in Nat /\ Len(c) \in Nat /\ Len(a) <= Len(b) /\ Len(b) <= Len(c)
  BY DEF Prefix
<1>2. \A x \in 1..Len(a) : x \in 1..Len(b)
  BY <1>1
<1>. QED
  BY <1>1, <1>2 DEF Prefix

\* A step that leaves o's run and its devices alone, and lets the design and
\* the tier above only grow or makes a run of o due, leaves o as it should be.
LEMMA Unmoved ==
    ASSUME CablingInv, Shape', NEW o \in Owners,
           run'[o] = run[o], devices'[o] = devices[o], index'[o] = index[o],
           o \in due => o \in due',
           amount'[o] = amount[o] \/ (o \in due' /\ amount[o] <= amount'[o]),
           amount'[Above(o)] = amount[Above(o)]
             \/ (/\ o \in due' /\ amount[Above(o)] <= amount'[Above(o)]
                 /\ o \in Pods => run[o].pc = "idle"),
           devices'[Above(o)] = devices[Above(o)]
             \/ (/\ o \in due'
                 /\ \/ run[o].pc = "idle"
                    \/ o \notin Pods /\ Prefix(devices[Above(o)], devices'[Above(o)])),
           \A l \in Safe(o) : l \in links => l \in links',
           o \notin due' => \A l \in Safe(o) : Ends(l) \subseteq plugged => Ends(l) \subseteq plugged'
    PROVE  CurrentRun(o)' /\ Laying(o)' /\ Laid(o)'
<1>1. CurrentRun(o) /\ Laying(o) /\ Laid(o) /\ Shape
  BY DEF CablingInv
<1>2. Numbers(o)' = Numbers(o)
  BY DEF Numbers
<1>3. /\ run[o].upper \in Seq(Nat) /\ devices[Above(o)] \in Seq(Nat) /\ devices'[Above(o)] \in Seq(Nat)
      /\ Len(run[o].upper) \in Nat /\ run[o].amount \in Nat
      /\ amount[o] \in Nat /\ amount'[o] \in Nat
      /\ amount[Above(o)] \in Nat /\ amount'[Above(o)] \in Nat
  <2>1. o \in Targets /\ Above(o) \in Targets
    BY UpperTier
  <2>2. \A t \in Targets : devices'[t] \in Seq(Nat) /\ amount'[t] \in Nat
    BY DEF Shape, Listed, DesignOK
  <2>. QED
    BY <1>1, <2>1, <2>2, ShapeOf
<1>4. o \in Pods => Above(o) = Fabric
  BY DEF Above
<1>5. CurrentRun(o)'
  <2>. SUFFICES ASSUME run[o].pc # "idle"
                PROVE  /\ run[o].index = index[o]
                       /\ Numbers(o) = 1..run[o].amount /\ run[o].amount <= amount'[o]
                       /\ run[o].pc = "plan" => run[o].made = {}
                       /\ Prefix(run[o].upper, devices'[Above(o)])
                       /\ Len(run[o].upper) <= amount'[Above(o)]
                       /\ o \in Pods => /\ run[o].upper = devices'[Fabric]
                                        /\ Len(devices'[Fabric]) = amount'[Fabric]
                       /\ o \notin due' => /\ run[o].amount = amount'[o]
                                           /\ run[o].upper = devices'[Above(o)]
                                           /\ Len(run[o].upper) = amount'[Above(o)]
    BY <1>2 DEF CurrentRun
  <2>1. Prefix(run[o].upper, devices'[Above(o)])
    BY <1>1, <1>3, PrefixGrows DEF CurrentRun
  <2>2. run[o].amount <= amount'[o] /\ Len(run[o].upper) <= amount'[Above(o)]
    BY <1>1, <1>3 DEF CurrentRun
  <2>. QED
    BY <1>1, <1>4, <2>1, <2>2 DEF CurrentRun
<1>6. Laying(o)'
  <2>. SUFFICES ASSUME run[o].pc = "connect"
                PROVE  /\ FullRange(o, index[o], devices[o], run[o].upper)
                       /\ run[o].made \cup run[o].plan = PlanOf(o)
                       /\ run[o].made \subseteq links'
                       /\ o \notin due' => \A l \in run[o].made : Ends(l) \subseteq plugged'
    BY DEF Laying, PlanOf
  <2>1. Safe(o) = run[o].made
    BY DEF Safe
  <2>. QED
    BY <1>1, <2>1 DEF Laying
<1>7. Laid(o)'
  <2>. SUFFICES ASSUME run[o].pc = "idle", o \notin due'
                PROVE  /\ Numbers(o) = 1..amount'[o] /\ Len(devices'[Above(o)]) = amount'[Above(o)]
                       /\ GoalRange(o)' /\ \A l \in Goal(o)' : l \in links' /\ Ends(l) \subseteq plugged'
    BY <1>2 DEF Laid
  <2>1. GoalRange(o)' = GoalRange(o) /\ Goal(o)' = Goal(o) /\ Safe(o) = Goal(o)
    BY Zenon DEF GoalRange, Goal, Safe
  <2>. QED
    BY <1>1, <2>1 DEF Laid
<1>. QED
  BY <1>5, <1>6, <1>7

\* An owner at rest, a run of which is due, relies on nothing.
LEMMA DueIsGood ==
    ASSUME NEW o \in Owners, run'[o].pc = "idle", o \in due'
    PROVE  CurrentRun(o)' /\ Laying(o)' /\ Laid(o)'
BY DEF CurrentRun, Laying, Laid

\* What is o's to use stays so when the design and the tier above only grow,
\* and when a device above goes that it is not on.
LEMMA MineStays ==
    ASSUME Shape, Shape', NEW o \in Owners, NEW e, Mine(o, e), index'[o] = index[o],
           \/ run'[o] = run[o] /\ run[o].pc # "idle"
           \/ /\ run[o].pc = "idle" /\ run'[o].pc = "idle"
              /\ amount[o] <= amount'[o] /\ amount[Above(o)] <= amount'[Above(o)]
              /\ o \in Pods => amount'[Above(o)] = amount[Above(o)]
              /\ \/ Prefix(devices[Above(o)], devices'[Above(o)])
                 \/ \E S : /\ devices'[Above(o)] = Only(devices[Above(o)], S)
                           /\ amount'[o] = amount[o] /\ amount'[Above(o)] = amount[Above(o)]
                           /\ e.of = Above(o) => e.device \in S
    PROVE  Mine(o, e)'
<1>1. CASE run'[o] = run[o] /\ run[o].pc # "idle"
  BY <1>1 DEF Mine, Wanted, Seen, Count
<1>2. CASE run[o].pc = "idle" /\ run'[o].pc = "idle" /\ amount[o] <= amount'[o]
  <2>1. InWindow(e, o, index[o], amount[o], amount[Above(o)], devices[Above(o)])
    BY <1>2 DEF Mine, Wanted, Seen, Count
  <2>2. Mine(o, e)' <=> InWindow(e, o, index[o], amount'[o], amount'[Above(o)], devices'[Above(o)])
    BY <1>2 DEF Mine, Wanted, Seen, Count
  <2>3. /\ index[o] \in Nat /\ amount[o] \in Nat /\ amount[Above(o)] \in Nat
        /\ amount'[o] \in Nat /\ amount'[Above(o)] \in Nat
        /\ Listed(devices[Above(o)]) /\ devices[Above(o)] \in Seq(Nat) /\ devices'[Above(o)] \in Seq(Nat)
    <3>1. o \in Targets /\ Above(o) \in Targets
      BY UpperTier
    <3>2. \A t \in Targets : devices'[t] \in Seq(Nat) /\ amount'[t] \in Nat
      BY DEF Shape, Listed, DesignOK
    <3>. QED
      BY <3>1, <3>2, ShapeOf
  <2>4. CASE Prefix(devices[Above(o)], devices'[Above(o)])
    <3>1. InWindow(e, o, index[o], amount'[o], amount'[Above(o)], devices'[Above(o)])
      BY <1>2, <2>1, <2>3, <2>4, WindowGrows
    <3>. QED
      BY <2>2, <3>1
  <2>5. ASSUME NEW S, devices'[Above(o)] = Only(devices[Above(o)], S),
               amount'[o] = amount[o], amount'[Above(o)] = amount[Above(o)],
               e.of = Above(o) => e.device \in S
        PROVE  Mine(o, e)'
    <3>1. InWindow(e, o, index[o], amount[o], amount[Above(o)], Only(devices[Above(o)], S))
      BY <2>1, <2>3, <2>5, WindowThins
    <3>. QED
      BY <2>2, <2>5, <3>1
  <2>. QED
    BY <1>2, <2>4, <2>5
<1>. QED
  BY <1>1, <1>2

\* A step that adds nothing to o's group and to what is plugged on links of
\* o's leaves them as they should be.
LEMMA Unchanged ==
    ASSUME CablingInv, NEW o \in Owners,
           group'[o].links = group[o].links, group'[o].ends \subseteq group[o].ends,
           group'[o].devices \subseteq group[o].devices,
           \A l \in group[o].links : l \in links',
           \A q \in plugged' : q[2][1].of = o => q \in plugged,
           \A k \in 1..Wanted(o) : k \in 1..Wanted(o)',
           \A e : Mine(o, e) => \/ Mine(o, e)'
                                \/ e \notin group'[o].ends /\ \A q \in plugged' : q[1] # e \/ q[2][1].of # o
    PROVE  Grouped(o)' /\ Kept(o)' /\ InPlace(o)'
<1>1. Grouped(o) /\ Kept(o) /\ InPlace(o)
  BY DEF CablingInv
<1>2. Grouped(o)'
  <2>1. group'[o].devices \subseteq 1..Wanted(o)'
    BY <1>1 DEF Grouped
  <2>2. \A l \in group'[o].links : l \in links' /\ l[1].of = o
    BY <1>1 DEF Grouped
  <2>3. group'[o].ends \subseteq EndsOf(group'[o].links)
    BY <1>1 DEF Grouped
  <2>. QED
    BY <2>1, <2>2, <2>3 DEF Grouped, EndsOf
<1>3. Kept(o)'
  <2>. SUFFICES ASSUME NEW e \in group'[o].ends PROVE Mine(o, e)'
    BY DEF Kept
  <2>1. Mine(o, e)
    BY <1>1 DEF Kept
  <2>. QED
    BY <2>1
<1>4. InPlace(o)'
  <2>. SUFFICES ASSUME NEW q \in plugged', q[2][1].of = o PROVE Mine(o, q[1])'
    BY DEF InPlace
  <2>1. Mine(o, q[1])
    BY <1>1 DEF InPlace
  <2>. QED
    BY <2>1
<1>. QED
  BY <1>2, <1>3, <1>4

\* What every step leaves for an owner.
Good(u) == /\ CurrentRun(u) /\ Laying(u) /\ Laid(u)
           /\ Grouped(u) /\ Kept(u) /\ InPlace(u)

LEMMA PrefixOfItself == ASSUME NEW a \in Seq(Nat) PROVE Prefix(a, a)
BY DEF Prefix

\* An owner that a step passes by: its run, its devices and its group stay, and
\* the tier above only grows.
LEMMA PassedBy ==
    ASSUME CablingInv, Shape', NEW u \in Owners,
           run'[u] = run[u], devices'[u] = devices[u], index'[u] = index[u],
           group'[u] = group[u], u \in due => u \in due',
           amount'[u] = amount[u] \/ (u \in due' /\ amount[u] <= amount'[u]),
           \/ amount'[Above(u)] = amount[Above(u)]
           \/ u \in due' /\ amount[Above(u)] <= amount'[Above(u)] /\ u \notin Pods,
           \/ devices'[Above(u)] = devices[Above(u)]
           \/ /\ u \in due' /\ Prefix(devices[Above(u)], devices'[Above(u)])
              /\ u \notin Pods \/ run[u].pc = "idle",
           \A l \in links : l[1].of = u => l \in links',
           \A q \in plugged' : q[2][1].of = u => q \in plugged,
           u \notin due' => \A l \in Safe(u) : Ends(l) \subseteq plugged => Ends(l) \subseteq plugged'
    PROVE  Good(u)'
<1>1. Shape /\ Grouped(u)
  BY DEF CablingInv
<1>2. CurrentRun(u)' /\ Laying(u)' /\ Laid(u)'
  <2>1. \A l \in Safe(u) : l \in links => l \in links'
    BY SafeAt
  <2>. QED
    BY <2>1, Unmoved
<1>3. /\ devices[Above(u)] \in Seq(Nat) /\ amount[u] \in Nat /\ amount[Above(u)] \in Nat
      /\ run[u].amount \in Nat /\ amount'[u] \in Nat
  <2>1. \A t \in Targets : amount'[t] \in Nat
    BY DEF Shape, DesignOK
  <2>. QED
    BY <1>1, <2>1, ShapeOf, UpperTier
<1>4. Grouped(u)' /\ Kept(u)' /\ InPlace(u)'
  <2>1. \A l \in group[u].links : l \in links'
    BY <1>1 DEF Grouped
  <2>2. \A k \in 1..Wanted(u) : k \in 1..Wanted(u)'
    <3>1. Wanted(u) \in Nat /\ Wanted(u)' \in Nat /\ Wanted(u) <= Wanted(u)'
      BY <1>3 DEF Wanted
    <3>. QED
      BY <3>1
  <2>3. Prefix(devices[Above(u)], devices'[Above(u)])
    BY <1>3, PrefixOfItself
  <2>4. amount[u] <= amount'[u] /\ amount[Above(u)] <= amount'[Above(u)]
    BY <1>3
  <2>5. ASSUME NEW e, Mine(u, e) PROVE Mine(u, e)'
    BY <1>1, <2>3, <2>4, <2>5, MineStays
  <2>. QED
    BY <2>1, <2>2, <2>5, Unchanged
<1>. QED
  BY <1>2, <1>4 DEF Good

\* What a run uses is o's to use when it is over.
LEMMA RestMine ==
    ASSUME CablingInv, NEW o \in Owners, run[o].pc # "idle", NEW e, Mine(o, e)
    PROVE  InWindow(e, o, index[o], amount[o], amount[Above(o)], devices[Above(o)])
<1>1. Shape /\ CurrentRun(o)
  BY DEF CablingInv
<1>2. /\ InWindow(e, o, index[o], run[o].amount, Len(run[o].upper), run[o].upper)
      /\ run[o].amount <= amount[o] /\ Len(run[o].upper) <= amount[Above(o)]
      /\ Prefix(run[o].upper, devices[Above(o)])
      /\ o \in Pods => Len(run[o].upper) = amount[Above(o)]
  BY <1>1 DEF CurrentRun, Mine, Wanted, Seen, Count, Above
<1>. QED
  BY <1>1, <1>2, ShapeOf, WindowGrows

\* What o may use when a step has left it at rest and everything else alone.
LEMMA MineAtRest ==
    ASSUME NEW o \in Owners, run'[o].pc = "idle", NEW e,
           UNCHANGED <<index, amount>>, devices'[Above(o)] = devices[Above(o)],
           InWindow(e, o, index[o], amount[o], amount[Above(o)], devices[Above(o)])
    PROVE  Mine(o, e)'
BY DEF Mine, Wanted, Seen, Count

LEMMA GiveUpGood ==
    ASSUME CablingInv, Shape', NEW o \in Owners, run[o].pc # "idle", GiveUp(o), NEW u \in Owners
    PROVE  Good(u)'
<1>1. /\ run' = [run EXCEPT ![o] = Idle] /\ due' = due \cup {o}
      /\ UNCHANGED <<index, amount, devices, links, plugged, group>>
  BY DEF GiveUp, design, cables
<1>2. run \in [Owners -> RunType] /\ Shape
  BY DEF CablingInv, Shape, TypeOK, RunType
<1>3. CASE u = o
  <2>1. run'[o].pc = "idle"
    BY <1>1, <1>2 DEF Idle
  <2>2. CurrentRun(o)' /\ Laying(o)' /\ Laid(o)'
    BY <1>1, <2>1, DueIsGood
  <2>3. \A k \in 1..Wanted(o) : k \in 1..Wanted(o)'
    <3>1. Wanted(o) = run[o].amount /\ Wanted(o)' = amount[o] /\ run[o].amount <= amount[o]
      BY <1>1, <2>1 DEF Wanted, CablingInv, CurrentRun
    <3>2. run[o].amount \in Nat /\ amount[o] \in Nat
      BY <1>2, ShapeOf
    <3>. QED
      BY <3>1, <3>2
  <2>4. ASSUME NEW e, Mine(o, e) PROVE Mine(o, e)'
    BY <1>1, <2>1, <2>4, RestMine, MineAtRest
  <2>5. Grouped(o)' /\ Kept(o)' /\ InPlace(o)'
    <3>1. \A l \in group[o].links : l \in links'
      BY <1>1 DEF CablingInv, Grouped
    <3>. QED
      BY <1>1, <2>3, <2>4, <3>1, Unchanged
  <2>. QED
    BY <1>3, <2>2, <2>5 DEF Good
<1>4. CASE u # o
  <2>1. run'[u] = run[u] /\ (u \in due => u \in due')
    BY <1>1, <1>2, <1>4
  <2>. QED
    BY <1>1, <2>1, PassedBy
<1>. QED
  BY <1>3, <1>4

LEMMA BuildGood ==
    ASSUME CablingInv, Shape', NEW o \in Owners, Build(o), NEW u \in Owners PROVE Good(u)'
<1>1. /\ run[o].pc = "idle" /\ Len(devices[Above(o)]) = amount[Above(o)]
      /\ devices' = [devices EXCEPT ![o] = Upserted(@, amount[o])]
      /\ due' = (due \ {o}) \cup (IF devices' = devices THEN {} ELSE Below(o))
      /\ run' = [run EXCEPT ![o] = [pc |-> "plan", index |-> index[o], amount |-> amount[o],
                                    upper |-> devices[Above(o)], plan |-> {}, made |-> {}]]
      /\ UNCHANGED <<index, amount, links, plugged, group>>
  BY Zenon DEF Build, design, cables
<1>2. /\ run \in [Owners -> RunType] /\ devices \in [Targets -> Seq(Nat)] /\ Shape
      /\ o \in Targets /\ u \in Targets /\ Above(o) # o /\ Above(u) # u /\ Above(u) \in Targets
  BY UpperTier DEF CablingInv, Shape, TypeOK, RunType
<1>3. /\ Listed(Upserted(devices[o], amount[o]))
      /\ ToSet(Upserted(devices[o], amount[o])) = ToSet(devices[o]) \cup 1..amount[o]
      /\ Prefix(devices[o], Upserted(devices[o], amount[o]))
  <2>1. Listed(devices[o]) /\ amount[o] \in Nat
    BY <1>2, ShapeOf
  <2>. QED
    BY <2>1, ListedUpserted
<1>4. CASE u = o
  <2>1. /\ run'[o].pc = "plan" /\ run'[o].index = index[o] /\ run'[o].amount = amount[o]
        /\ run'[o].upper = devices[Above(o)] /\ run'[o].made = {}
    BY <1>1, <1>2
  <2>2. devices'[Above(o)] = devices[Above(o)]
    BY <1>1, <1>2
  <2>3. Numbers(o)' = 1..amount[o]
    <3>1. Numbers(o) \subseteq 1..amount[o]
      BY <1>2 DEF CablingInv, Few
    <3>. QED
      BY <1>1, <1>2, <1>3, <3>1 DEF Numbers
  <2>4. /\ Prefix(devices[Above(o)], devices[Above(o)])
        /\ amount[o] \in Nat /\ amount[Above(o)] \in Nat
    BY <1>2, ShapeOf, PrefixOfItself
  <2>5. CurrentRun(o)'
    <3>1. o \in Pods => Above(o) = Fabric
      BY DEF Above
    <3>2. amount[o] <= amount[o] /\ Len(devices[Above(o)]) <= amount[Above(o)]
      BY <1>1, <2>4
    <3>. QED
      BY <1>1, <2>1, <2>2, <2>3, <2>4, <3>1, <3>2 DEF CurrentRun
  <2>6. Wanted(o)' = Wanted(o) /\ \A e : Mine(o, e) => Mine(o, e)'
    BY <1>1, <2>1 DEF Mine, Wanted, Seen, Count
  <2>7. Grouped(o)' /\ Kept(o)' /\ InPlace(o)'
    <3>1. \A l \in group[o].links : l \in links'
      BY <1>1 DEF CablingInv, Grouped
    <3>. QED
      BY <1>1, <2>6, <3>1, Unchanged
  <2>. QED
    BY <1>4, <2>1, <2>5, <2>7 DEF Laying, Laid, Good
<1>5. CASE u # o
  <2>1. run'[u] = run[u] /\ devices'[u] = devices[u] /\ (u \in due => u \in due')
    BY <1>1, <1>2, <1>5
  <2>2. u \notin Pods \/ Above(u) # o
    BY TiersAreTree DEF Above, Owners
  <2>3. \/ devices'[Above(u)] = devices[Above(u)]
        \/ /\ u \in due' /\ Prefix(devices[Above(u)], devices'[Above(u)])
           /\ u \notin Pods \/ run[u].pc = "idle"
    <3>1. CASE Above(u) = o /\ devices' # devices
      BY <1>1, <1>2, <1>3, <2>2, <3>1 DEF Below
    <3>2. CASE Above(u) # o \/ devices' = devices
      BY <1>1, <1>2, <3>2
    <3>. QED
      BY <3>1, <3>2
  <2>. QED
    BY <1>1, <2>1, <2>3, PassedBy
<1>. QED
  BY <1>4, <1>5

\* What a run plans is the full plan for the devices it made and counted.
LEMMA PlansInFull ==
    ASSUME CablingInv, NEW o \in Owners, run[o].pc # "idle"
    PROVE  /\ Lowers(o, run[o].amount) = devices[o]
           /\ Uppers(o, run[o].upper) = run[o].upper
           /\ CablingPlan(o, run[o].index, devices[o], run[o].upper) = PlanOf(o)
           /\ SlotsInRange(o, run[o].index, devices[o], run[o].upper)
                <=> FullRange(o, index[o], devices[o], run[o].upper)
<1>1. Shape /\ CurrentRun(o) /\ pruned = {}
  BY DEF CablingInv
<1>2. /\ run[o].index = index[o] /\ index[o] \in Nat /\ devices[o] \in Seq(Nat)
      /\ run[o].upper \in Seq(Nat) /\ devices[Above(o)] \in Seq(Nat)
      /\ Listed(devices[o]) /\ Listed(run[o].upper)
  BY <1>1, ShapeOf DEF CurrentRun
<1>3. Only(devices[o], 1..run[o].amount) = devices[o]
  <2>1. ToSet(devices[o]) = 1..run[o].amount
    BY <1>1 DEF CurrentRun, Numbers
  <2>. QED
    BY <1>2, <2>1, ListedOnly
<1>4. Only(run[o].upper, Numbers(Above(o))) = run[o].upper
  <2>1. Prefix(run[o].upper, devices[Above(o)])
    BY <1>1 DEF CurrentRun
  <2>2. ToSet(run[o].upper) \subseteq Numbers(Above(o))
    BY <1>2, <2>1, PrefixKeeps DEF Numbers
  <2>. QED
    BY <1>2, <2>2, ListedOnly
<1>. QED
  BY <1>1, <1>2, <1>3, <1>4, FullMaps, PlanIsFull DEF PlanOf

LEMMA PlanGood ==
    ASSUME CablingInv, Shape', NEW o \in Owners, PlanCables(o), NEW u \in Owners PROVE Good(u)'
<1>1. CASE Raise(o)
  BY <1>1, GiveUpGood DEF Raise, PlanCables
<1>2. CASE ~Raise(o)
  <2>1. /\ run[o].pc = "plan" /\ FullRange(o, index[o], devices[o], run[o].upper)
        /\ run' = [run EXCEPT ![o].pc = "connect", ![o].plan = PlanOf(o)]
        /\ UNCHANGED <<index, amount, devices, links, plugged, group, due>>
    <3>1. run[o].pc = "plan"
      BY DEF PlanCables
    <3>2. PICK lower, upper : lower = Lowers(o, run[o].amount) /\ upper = Uppers(o, run[o].upper)
      OBVIOUS
    <3>3. lower = devices[o] /\ upper = run[o].upper
      BY <3>1, <3>2, PlansInFull
    <3>4. /\ SlotsInRange(o, run[o].index, lower, upper)
          /\ run' = [run EXCEPT ![o].pc = "connect", ![o].plan = CablingPlan(o, run[o].index, lower, upper)]
          /\ UNCHANGED <<design, devices, cables, due>>
      BY <1>2, <3>2 DEF PlanCables
    <3>. QED
      BY <3>1, <3>3, <3>4, PlansInFull DEF design, cables
  <2>2. run \in [Owners -> RunType] /\ CurrentRun(o)
    BY DEF CablingInv, Shape, TypeOK, RunType
  <2>3. CASE u = o
    <3>1. /\ run'[o].pc = "connect" /\ run'[o].index = run[o].index /\ run'[o].amount = run[o].amount
          /\ run'[o].upper = run[o].upper /\ run'[o].plan = PlanOf(o) /\ run'[o].made = {}
      BY <2>1, <2>2 DEF CurrentRun, RunType
    <3>2. CurrentRun(o)'
      BY <2>1, <2>2, <3>1 DEF CurrentRun, Numbers
    <3>3. Laying(o)'
      BY <2>1, <3>1 DEF Laying, PlanOf
    <3>4. Wanted(o)' = Wanted(o) /\ \A e : Mine(o, e) => Mine(o, e)'
      BY <2>1, <3>1 DEF Mine, Wanted, Seen, Count
    <3>5. Grouped(o)' /\ Kept(o)' /\ InPlace(o)'
      <4>1. \A l \in group[o].links : l \in links'
        BY <2>1 DEF CablingInv, Grouped
      <4>. QED
        BY <2>1, <3>4, <4>1, Unchanged
    <3>. QED
      BY <2>3, <3>1, <3>2, <3>3, <3>5 DEF Laid, Good
  <2>4. CASE u # o
    <3>1. run'[u] = run[u]
      BY <2>1, <2>2, <2>4
    <3>. QED
      BY <2>1, <3>1, PassedBy
  <2>. QED
    BY <2>3, <2>4
<1>. QED
  BY <1>1, <1>2

\* What a run is to save is what is o's to use.
LEMMA PlanIsMine ==
    ASSUME CablingInv, NEW o \in Owners, run[o].pc # "idle", NEW e
    PROVE  e \in EndsOf(PlanOf(o)) <=> Mine(o, e)
<1>1. Shape /\ CurrentRun(o)
  BY DEF CablingInv
<1>2. /\ index[o] \in Nat /\ Listed(devices[o]) /\ run[o].upper \in Seq(Nat) /\ run[o].amount \in Nat
      /\ ToSet(devices[o]) = 1..run[o].amount
  BY <1>1, ShapeOf DEF CurrentRun, Numbers
<1>3. e \in EndsOf(FullPlan(o, index[o], devices[o], run[o].upper))
        <=> InWindow(e, o, index[o], run[o].amount, Len(run[o].upper), run[o].upper)
  BY <1>2, WindowIsPlan
<1>. QED
  BY <1>3 DEF PlanOf, Mine, Wanted, Seen, Count

\* No end of a cable that a run lays is an end of a cable of somebody else.
LEMMA ConnectSpares ==
    ASSUME CablingInv, NEW o \in Owners, run[o].pc = "connect", NEW m \in PlanOf(o),
           NEW u \in Owners, u # o, NEW l,
           (l \in Goal(u) /\ GoalRange(u)) \/ (run[u].pc = "connect" /\ l \in PlanOf(u))
    PROVE  l[1] \notin {m[1], m[2]} /\ l[2] \notin {m[1], m[2]}
<1>1. /\ m[1].of = o /\ m[1].side = "up" /\ m[2].of = Above(o) /\ m[2].side = "down"
  BY LaidAt
<1>2. /\ l[1].of = u /\ l[1].side = "up" /\ l[2].of = Above(u) /\ l[2].side = "down"
  BY LaidAt, GoalAt DEF CablingInv
<1>3. l[2] # m[2]
  <2>1. CASE Above(u) # Above(o)
    BY <1>1, <1>2, <2>1
  <2>2. CASE Above(u) = Above(o)
    <3>1. index[u] # index[o]
      BY <2>2 DEF CablingInv, Shape, DesignOK, Siblings, Below
    <3>2. u \in Pods => /\ run[o].upper = devices[Fabric] /\ devices[Above(u)] = devices[Fabric]
                        /\ Len(devices[Fabric]) = amount[Fabric]
      <4>. SUFFICES ASSUME u \in Pods
                    PROVE  /\ run[o].upper = devices[Fabric] /\ devices[Above(u)] = devices[Fabric]
                           /\ Len(devices[Fabric]) = amount[Fabric]
        OBVIOUS
      <4>1. o \in Pods /\ Above(u) = Fabric
        BY <2>2, TiersAreTree DEF Above, Owners
      <4>. QED
        BY <4>1 DEF CablingInv, CurrentRun
    <3>3. Fits(o, index[o], devices[o], run[o].upper)
      BY RunFits
    <3>4. m \in FullPlan(o, index[o], devices[o], run[o].upper)
      BY DEF PlanOf
    <3>5. CASE l \in Goal(u) /\ GoalRange(u)
      <4>1. Fits(u, index[u], devices[u], devices[Above(u)])
        BY <3>2, <3>5, GoalFits DEF CablingInv
      <4>2. l \in FullPlan(u, index[u], devices[u], devices[Above(u)])
        BY <3>5 DEF Goal
      <4>3. u \in Pods => Len(devices[Above(u)]) = Len(run[o].upper)
        BY <3>2
      <4>. QED
        BY <2>2, <3>1, <3>3, <3>4, <4>1, <4>2, <4>3, SiblingsApart
    <3>6. CASE run[u].pc = "connect" /\ l \in PlanOf(u)
      <4>1. l \in FullPlan(u, index[u], devices[u], run[u].upper)
        BY <3>6 DEF PlanOf
      <4>2. Fits(u, index[u], devices[u], run[u].upper)
        BY <3>6, RunFits
      <4>3. u \in Pods => Len(run[u].upper) = Len(run[o].upper)
        BY <3>2, <3>6 DEF CablingInv, CurrentRun
      <4>. QED
        BY <2>2, <3>1, <3>3, <3>4, <4>1, <4>2, <4>3, SiblingsApart
    <3>. QED
      BY <3>5, <3>6
  <2>. QED
    BY <2>1, <2>2
<1>. QED
  BY <1>1, <1>2, <1>3

\* One cable of a run: one that is still to lay, which is o's own.
LEMMA NextCable ==
    ASSUME CablingInv, NEW o \in Owners, Connect(o), ~Raise(o)
    PROVE  \E m \in PlanOf(o) :
             /\ run[o].pc = "connect" /\ m[1].of = o /\ m \in run[o].plan
             /\ links' = links \cup {m}
             /\ plugged' = {q \in plugged : q[1] \notin {m[1], m[2]}} \cup ({m[1], m[2]} \X {m})
             /\ run' = [run EXCEPT ![o].plan = run[o].plan \ {m}, ![o].made = run[o].made \cup {m}]
             /\ UNCHANGED <<index, amount, devices, due, pruned, group>>
<1>1. PICK m \in run[o].plan :
         /\ run[o].pc = "connect" /\ links' = links \cup {m}
         /\ plugged' = {q \in plugged : q[1] \notin {m[1], m[2]}} \cup ({m[1], m[2]} \X {m})
         /\ run' = [run EXCEPT ![o].plan = @ \ {m}, ![o].made = @ \cup {m}]
         /\ UNCHANGED <<index, amount, devices, due, pruned, group>>
  BY DEF Connect, design
<1>2. m \in PlanOf(o)
  BY <1>1 DEF CablingInv, Laying
<1>3. m[1].of = o
  BY <1>2, LaidAt
<1>4. run' = [run EXCEPT ![o].plan = run[o].plan \ {m}, ![o].made = run[o].made \cup {m}]
  BY <1>1
<1>. QED
  BY <1>1, <1>2, <1>3, <1>4

\* A cable whose ends a step leaves alone stays plugged.
LEMMA EndsStay ==
    ASSUME NEW l, NEW S, NEW T, Ends(l) \subseteq S,
           <<l[1], l>> \in S => <<l[1], l>> \in T,
           <<l[2], l>> \in S => <<l[2], l>> \in T
    PROVE  Ends(l) \subseteq T
BY EndsAre

\* The cables that o relies on are planned apart from those of others.
LEMMA SafeIsPlanned ==
    ASSUME CablingInv, NEW o \in Owners, o \notin due, NEW l \in Safe(o)
    PROVE  (l \in Goal(o) /\ GoalRange(o)) \/ (run[o].pc = "connect" /\ l \in PlanOf(o))
<1>1. CASE run[o].pc = "idle"
  BY <1>1 DEF Safe, CablingInv, Laid
<1>. QED
  BY <1>1, SafeAt

LEMMA ConnectGood ==
    ASSUME CablingInv, Shape', NEW o \in Owners, Connect(o), NEW u \in Owners PROVE Good(u)'
<1>1. CASE Raise(o)
  BY <1>1, GiveUpGood DEF Raise, Connect
<1>2. CASE ~Raise(o)
  <2>1. PICK m \in PlanOf(o) :
           /\ run[o].pc = "connect" /\ m[1].of = o /\ m \in run[o].plan
           /\ links' = links \cup {m}
           /\ plugged' = {q \in plugged : q[1] \notin {m[1], m[2]}} \cup ({m[1], m[2]} \X {m})
           /\ run' = [run EXCEPT ![o].plan = run[o].plan \ {m}, ![o].made = run[o].made \cup {m}]
           /\ UNCHANGED <<index, amount, devices, due, pruned, group>>
    BY <1>2, NextCable
  <2>2. run \in [Owners -> RunType]
    BY DEF CablingInv, Shape, TypeOK, RunType
  <2>3. ASSUME NEW l, l[1] \notin {m[1], m[2]}, l[2] \notin {m[1], m[2]}, Ends(l) \subseteq plugged
        PROVE  Ends(l) \subseteq plugged'
    <3>1. <<l[1], l>> \in plugged /\ <<l[2], l>> \in plugged
      BY <2>3, EndsAre
    <3>2. <<l[1], l>>[1] = l[1] /\ <<l[2], l>>[1] = l[2]
      OBVIOUS
    <3>3. <<l[1], l>> \in plugged' /\ <<l[2], l>> \in plugged'
      BY <2>1, <2>3, <3>1, <3>2
    <3>. QED
      BY <3>3, EndsAre
  <2>4. CASE u # o
    <3>1. run'[u] = run[u]
      BY <2>1, <2>2, <2>4
    <3>2. ASSUME u \notin due', NEW l \in Safe(u), Ends(l) \subseteq plugged
          PROVE  Ends(l) \subseteq plugged'
      <4>1. l[1] \notin {m[1], m[2]} /\ l[2] \notin {m[1], m[2]}
        BY <2>1, <2>4, <3>2, SafeIsPlanned, ConnectSpares
      <4>. QED
        BY <2>3, <3>2, <4>1
    <3>3. ASSUME NEW q \in plugged', q[2][1].of = u PROVE q \in plugged
      <4>1. q \in {m[1], m[2]} \X {m} => q[2] = m
        OBVIOUS
      <4>. QED
        BY <2>1, <2>4, <3>3, <4>1
    <3>. QED
      BY <2>1, <3>1, <3>2, <3>3, PassedBy
  <2>5. CASE u = o
    <3>1. /\ run'[o].pc = "connect" /\ run'[o].index = run[o].index /\ run'[o].amount = run[o].amount
          /\ run'[o].upper = run[o].upper /\ run'[o].plan = run[o].plan \ {m}
          /\ run'[o].made = run[o].made \cup {m}
      BY <2>1, <2>2 DEF RunType
    <3>2. /\ CurrentRun(o) /\ Laying(o) /\ Grouped(o) /\ Kept(o) /\ InPlace(o)
          /\ run[o].made \cup run[o].plan = PlanOf(o)
      BY <2>1 DEF CablingInv, Laying
    <3>3. CurrentRun(o)'
      BY <2>1, <3>1, <3>2 DEF CurrentRun, Numbers
    <3>4. PlanOf(o)' = PlanOf(o)
      BY <2>1, <3>1 DEF PlanOf
    <3>5. Laying(o)'
      <4>1. run'[o].made \cup run'[o].plan = PlanOf(o)'
        <5>1. \A A, B : m \in B => (A \cup {m}) \cup (B \ {m}) = A \cup B
          OBVIOUS
        <5>2. run'[o].made \cup run'[o].plan = (run[o].made \cup {m}) \cup (run[o].plan \ {m})
          BY <3>1, Zenon
        <5>3. (run[o].made \cup {m}) \cup (run[o].plan \ {m}) = run[o].made \cup run[o].plan
          BY <2>1, <5>1, Zenon
        <5>. QED
          BY <3>2, <3>4, <5>2, <5>3, Zenon
      <4>2. run'[o].made \subseteq links'
        BY <2>1, <3>1, <3>2 DEF Laying
      <4>3. FullRange(o, index'[o], devices'[o], run'[o].upper)
        BY <2>1, <3>1, <3>2 DEF Laying
      <4>4. ASSUME o \notin due', NEW l \in run'[o].made PROVE Ends(l) \subseteq plugged'
        <5>1. CASE l = m
          BY <2>1, <5>1, Zenon DEF Ends
        <5>2. CASE l # m
          <6>1. l \in run[o].made /\ l \in PlanOf(o) /\ Ends(l) \subseteq plugged
            BY <2>1, <3>1, <3>2, <4>4, <5>2 DEF Laying
          <6>2. l[1] \notin {m[1], m[2]} /\ l[2] \notin {m[1], m[2]}
            BY <2>1, <5>2, <6>1, RunFits, OwnApart DEF PlanOf
          <6>. QED
            BY <2>3, <6>1, <6>2
        <5>. QED
          BY <5>1, <5>2
      <4>. QED
        BY <3>1, <4>1, <4>2, <4>3, <4>4 DEF Laying
    <3>6. Wanted(o)' = Wanted(o) /\ \A e : Mine(o, e) => Mine(o, e)'
      BY <2>1, <3>1 DEF Mine, Wanted, Seen, Count
    <3>7. Grouped(o)' /\ Kept(o)'
      BY <2>1, <3>2, <3>6 DEF Grouped, Kept
    <3>8. InPlace(o)'
      <4>. SUFFICES ASSUME NEW q \in plugged', q[2][1].of = o PROVE Mine(o, q[1])
        BY <3>6 DEF InPlace
      <4>1. CASE q \in plugged
        BY <3>2, <4>1 DEF InPlace
      <4>2. CASE q \in {m[1], m[2]} \X {m}
        <5>1. q[1] = m[1] \/ q[1] = m[2]
          BY <4>2
        <5>2. q[1] \in EndsOf(PlanOf(o))
          BY <5>1, EndsOfAre
        <5>. QED
          BY <2>1, <5>2, PlanIsMine
      <4>. QED
        BY <2>1, <4>1, <4>2
    <3>. QED
      BY <2>5, <3>1, <3>3, <3>5, <3>7, <3>8 DEF Laid, Good
  <2>. QED
    BY <2>4, <2>5
<1>. QED
  BY <1>1, <1>2

\* Deleting no device deletes nothing.
LEMMA NothingGoes ==
    ASSUME TypeOK, NEW t
    PROVE  /\ GroupsWithout(t, {}) = group
           /\ \A ends : Without(ends, t, {}) = ends
<1>1. \A ends : Without(ends, t, {}) = ends
  BY DEF Without
<1>2. ASSUME NEW o \in Owners
      PROVE  [group[o] EXCEPT !.ends = Without(@, t, {}),
                              !.devices = IF o = t THEN @ \ {} ELSE @] = group[o]
  <2>1. group[o] \in GroupType
    BY GroupIsRecord
  <2>2. Without(group[o].ends, t, {}) = group[o].ends
    BY <1>1
  <2>3. (IF o = t THEN group[o].devices \ {} ELSE group[o].devices) = group[o].devices
    OBVIOUS
  <2>. QED
    BY <2>1, <2>2, <2>3 DEF GroupType
<1>3. GroupsWithout(t, {}) = [o \in Owners |-> group[o]]
  BY <1>2 DEF GroupsWithout
<1>4. group \in [Owners -> GroupType]
  BY DEF TypeOK, GroupType
<1>. QED
  BY <1>1, <1>3, <1>4

(* A run that finishes has saved every interface and asked for every device  *)
(* in its group: it prunes nothing but links of its own                      *)
(* (assign_ip_addresses_to_p2p_connections, get_pod_digest).                 *)
LEMMA FinishFacts ==
    ASSUME CablingInv, NEW o \in Owners, Finish(o)
    PROVE  /\ run[o].pc = "connect" /\ run[o].made = PlanOf(o)
           /\ run' = [run EXCEPT ![o] = Idle]
           /\ UNCHANGED <<index, amount, devices, due>> /\ pruned' = {}
           /\ links' = links \ (group[o].links \ run[o].made)
           /\ plugged' = {q \in plugged : q[2] \notin group[o].links \ run[o].made}
           /\ \A u \in Owners \ {o} : group'[u] = group[u]
           /\ group'[o].links = run[o].made /\ group'[o].devices = 1..run[o].amount
           /\ group'[o].ends \subseteq EndsOf(run[o].made)
<1>. DEFINE surplus == group[o].devices \ 1..run[o].amount
            unsaved == group[o].ends \ EndsOf(run[o].made)
            own     == [links |-> run[o].made, devices |-> 1..run[o].amount,
                        ends |-> {e \in EndsOf(run[o].made) : Exists(e)}]
<1>1. Shape /\ TypeOK /\ Laying(o) /\ Grouped(o) /\ Kept(o) /\ pruned = {}
  BY DEF CablingInv, Shape
<1>2. /\ run[o].pc = "connect" /\ run[o].plan = {} /\ run' = [run EXCEPT ![o] = Idle]
      /\ devices' = [devices EXCEPT ![o] = Only(@, Numbers(o) \ surplus)]
      /\ due' = IF surplus = {} THEN due ELSE due \cup Below(o)
      /\ links' = links \ (group[o].links \ run[o].made)
      /\ pruned' = Without(pruned \cup unsaved, o, surplus)
      /\ plugged' = {q \in plugged : /\ q[2] \notin group[o].links \ run[o].made
                                     /\ q[1] \in Without({q[1]}, o, surplus) \ unsaved}
      /\ group' = [u \in Owners |->
                     IF u = o THEN own ELSE [GroupsWithout(o, surplus)[u] EXCEPT !.ends = @ \ unsaved]]
      /\ UNCHANGED <<index, amount>>
  BY DEF Finish, design
<1>3. run[o].made = PlanOf(o)
  BY <1>1, <1>2 DEF Laying
<1>4. surplus = {}
  BY <1>1, <1>2 DEF Grouped, Wanted
<1>5. unsaved = {}
  BY <1>1, <1>2, <1>3, PlanIsMine DEF Kept
<1>. HIDE DEF surplus, unsaved
<1>6. devices' = devices
  <2>1. o \in Targets /\ devices \in [Targets -> Seq(Nat)] /\ Listed(devices[o])
    BY <1>1, UpperTier DEF Shape, TypeOK
  <2>2. Only(devices[o], Numbers(o) \ {}) = devices[o]
    BY <2>1, ListedOnly DEF Numbers
  <2>. QED
    BY <1>2, <1>4, <2>1, <2>2
<1>7. pruned' = {}
  BY <1>1, <1>2, <1>4, <1>5, NothingGoes
<1>8. plugged' = {q \in plugged : q[2] \notin group[o].links \ run[o].made}
  <2>1. \A q : q[1] \in Without({q[1]}, o, {}) \ {}
    BY DEF Without
  <2>. QED
    BY <1>2, <1>4, <1>5, <2>1
<1>9. ASSUME NEW u \in Owners, u # o PROVE group'[u] = group[u]
  <2>1. group'[u] = [group[u] EXCEPT !.ends = @ \ {}]
    BY <1>1, <1>2, <1>4, <1>5, <1>9, NothingGoes
  <2>2. group[u] \in GroupType
    BY <1>1, GroupIsRecord
  <2>. QED
    BY <2>1, <2>2 DEF GroupType
<1>10. group'[o] = own
  BY <1>2
<1>11. own.links = run[o].made /\ own.devices = 1..run[o].amount /\ own.ends \subseteq EndsOf(run[o].made)
  OBVIOUS
<1>. HIDE DEF own
<1>. QED
  BY <1>2, <1>3, <1>4, <1>6, <1>7, <1>8, <1>9, <1>10, <1>11

LEMMA FinishGood ==
    ASSUME CablingInv, Shape', NEW o \in Owners, Finish(o), NEW u \in Owners PROVE Good(u)'
<1>. DEFINE obsolete == group[o].links \ run[o].made
<1>1. /\ run[o].pc = "connect" /\ run[o].made = PlanOf(o) /\ run' = [run EXCEPT ![o] = Idle]
      /\ UNCHANGED <<index, amount, devices, due>>
      /\ links' = links \ obsolete /\ plugged' = {q \in plugged : q[2] \notin obsolete}
      /\ \A v \in Owners \ {o} : group'[v] = group[v]
      /\ group'[o].links = run[o].made /\ group'[o].devices = 1..run[o].amount
      /\ group'[o].ends \subseteq EndsOf(run[o].made)
  BY FinishFacts
<1>2. run \in [Owners -> RunType] /\ Shape /\ CurrentRun(o) /\ Laying(o) /\ InPlace(o) /\ Grouped(o)
  BY DEF CablingInv, Shape, TypeOK, RunType
<1>3. \A l \in obsolete : l[1].of = o /\ l \notin run[o].made
  BY <1>2 DEF Grouped
<1>. HIDE DEF obsolete
<1>4. ASSUME NEW l, l \notin obsolete, Ends(l) \subseteq plugged PROVE Ends(l) \subseteq plugged'
  <2>1. <<l[1], l>>[2] = l /\ <<l[2], l>>[2] = l
    OBVIOUS
  <2>2. <<l[1], l>> \in plugged /\ <<l[2], l>> \in plugged
    BY <1>4, EndsAre
  <2>3. <<l[1], l>> \in plugged' /\ <<l[2], l>> \in plugged'
    BY <1>1, <1>4, <2>1, <2>2
  <2>. QED
    BY <2>3, EndsAre
<1>5. CASE u # o
  <2>1. run'[u] = run[u]
    BY <1>1, <1>2, <1>5
  <2>2. ASSUME u \notin due', NEW l \in Safe(u), Ends(l) \subseteq plugged
        PROVE  Ends(l) \subseteq plugged'
    BY <1>3, <1>4, <1>5, <2>2, SafeAt
  <2>3. \A l \in links : l[1].of = u => l \in links'
    BY <1>1, <1>3, <1>5
  <2>. QED
    BY <1>1, <1>5, <2>1, <2>2, <2>3, PassedBy
<1>6. CASE u = o
  <2>1. run'[o].pc = "idle"
    BY <1>1, <1>2 DEF Idle
  <2>2. Laid(o)'
    <3>. SUFFICES ASSUME o \notin due
                  PROVE  /\ Numbers(o)' = 1..amount[o] /\ Len(devices[Above(o)]) = amount[Above(o)]
                         /\ GoalRange(o)' /\ \A l \in Goal(o)' : l \in links' /\ Ends(l) \subseteq plugged'
      BY <1>1 DEF Laid
    <3>1. /\ run[o].amount = amount[o] /\ run[o].upper = devices[Above(o)]
          /\ Len(devices[Above(o)]) = amount[Above(o)] /\ Numbers(o) = 1..amount[o]
      BY <1>1, <1>2 DEF CurrentRun
    <3>2. Goal(o)' = run[o].made
      BY <1>1, <3>1 DEF Goal, PlanOf
    <3>3. GoalRange(o)'
      BY <1>1, <1>2, <3>1 DEF GoalRange, Laying
    <3>4. Numbers(o)' = Numbers(o)
      BY <1>1 DEF Numbers
    <3>5. \A l \in run[o].made : l \in links' /\ Ends(l) \subseteq plugged'
      BY <1>1, <1>2, <1>3, <1>4 DEF Laying
    <3>. QED
      BY <3>1, <3>2, <3>3, <3>4, <3>5
  <2>3. ASSUME NEW e, Mine(o, e) PROVE Mine(o, e)'
    BY <1>1, <2>1, <2>3, RestMine, MineAtRest
  <2>4. Kept(o)'
    BY <1>1, <2>3, PlanIsMine DEF Kept
  <2>5. InPlace(o)'
    BY <1>1, <1>2, <2>3 DEF InPlace
  <2>6. Grouped(o)'
    <3>1. \A l \in run[o].made : l \in links' /\ l[1].of = o
      BY <1>1, <1>2, <1>3, LaidAt DEF Laying
    <3>2. 1..run[o].amount \subseteq 1..Wanted(o)'
      <4>1. Wanted(o)' = amount[o] /\ run[o].amount <= amount[o]
        BY <1>1, <1>2, <2>1 DEF Wanted, CurrentRun
      <4>2. run[o].amount \in Nat /\ amount[o] \in Nat
        BY <1>2, ShapeOf
      <4>. QED
        BY <4>1, <4>2
    <3>. QED
      BY <1>1, <3>1, <3>2 DEF Grouped, EndsOf
  <2>. QED
    BY <1>6, <2>1, <2>2, <2>4, <2>5, <2>6 DEF CurrentRun, Laying, Good
<1>. QED
  BY <1>5, <1>6

\* The fabric's run deletes nothing, and creates nothing when all are there.
LEMMA FabricFacts ==
    ASSUME CablingInv, BuildFabric
    PROVE  /\ devices' = [devices EXCEPT ![Fabric] = devices'[Fabric]]
           /\ Prefix(devices[Fabric], devices'[Fabric])
           /\ Numbers(Fabric)' = 1..amount[Fabric]
           /\ Len(devices[Fabric]) = amount[Fabric] => devices' = devices
           /\ due' = (due \ {Fabric}) \cup (IF devices' = devices THEN {} ELSE Below(Fabric))
           /\ pruned' = {} /\ UNCHANGED <<index, amount, links, plugged, group, run>>
<1>1. /\ Fabric \in Targets /\ amount[Fabric] \in Nat /\ Listed(devices[Fabric])
      /\ devices \in [Targets -> Seq(Nat)] /\ TypeOK /\ pruned = {}
      /\ Numbers(Fabric) \subseteq 1..amount[Fabric]
  BY DEF CablingInv, Shape, TypeOK, Targets, Few
<1>2. Only(devices[Fabric], 1..amount[Fabric]) = devices[Fabric]
  BY <1>1, ListedOnly DEF Numbers
<1>3. devices' = [devices EXCEPT ![Fabric] = Upserted(devices[Fabric], amount[Fabric])]
  BY <1>2 DEF BuildFabric
<1>4. /\ ToSet(Upserted(devices[Fabric], amount[Fabric])) = ToSet(devices[Fabric]) \cup 1..amount[Fabric]
      /\ 1..amount[Fabric] \subseteq ToSet(devices[Fabric])
           => Upserted(devices[Fabric], amount[Fabric]) = devices[Fabric]
      /\ Prefix(devices[Fabric], Upserted(devices[Fabric], amount[Fabric]))
  BY <1>1, ListedUpserted
<1>5. Len(devices[Fabric]) = amount[Fabric] => Numbers(Fabric) = 1..amount[Fabric]
  BY <1>1, ListedUpTo DEF Numbers
<1>6. Numbers(Fabric) \ 1..amount[Fabric] = {}
  BY <1>1
<1>7. DevicesGo(Fabric, {})
  BY <1>6 DEF BuildFabric
<1>8. pruned' = {} /\ UNCHANGED <<plugged, group>>
  <2>1. plugged' = {q \in plugged : ~(q[1].of = Fabric /\ q[1].device \in {})}
    BY <1>7 DEF DevicesGo
  <2>2. plugged' = plugged
    BY <2>1
  <2>. QED
    BY <1>1, <1>7, <2>2, NothingGoes DEF DevicesGo
<1>9. /\ due' = (due \ {Fabric}) \cup (IF devices' = devices THEN {} ELSE Below(Fabric))
      /\ UNCHANGED <<index, amount, links, run>>
  BY DEF BuildFabric, design
<1>10. Numbers(Fabric)' = 1..amount[Fabric]
  BY <1>1, <1>3, <1>4 DEF Numbers
<1>11. Len(devices[Fabric]) = amount[Fabric] => devices' = devices
  BY <1>1, <1>3, <1>4, <1>5 DEF Numbers
<1>12. devices' = [devices EXCEPT ![Fabric] = devices'[Fabric]] /\ Prefix(devices[Fabric], devices'[Fabric])
  BY <1>1, <1>3, <1>4
<1>. QED
  BY <1>8, <1>9, <1>10, <1>11, <1>12

LEMMA FabricGood ==
    ASSUME CablingInv, Shape', BuildFabric, NEW u \in Owners PROVE Good(u)'
<1>1. /\ devices' = [devices EXCEPT ![Fabric] = devices'[Fabric]]
      /\ Prefix(devices[Fabric], devices'[Fabric])
      /\ Len(devices[Fabric]) = amount[Fabric] => devices' = devices
      /\ due' = (due \ {Fabric}) \cup (IF devices' = devices THEN {} ELSE Below(Fabric))
      /\ UNCHANGED <<index, amount, links, plugged, group, run>>
  BY FabricFacts
<1>2. /\ devices \in [Targets -> Seq(Nat)] /\ Fabric \in Targets /\ u \in Targets
      /\ u # Fabric /\ (u \in Pods <=> Above(u) = Fabric) /\ Above(u) \in Targets
  BY TiersAreTree, UpperTier DEF CablingInv, Shape, TypeOK, Targets, Above, Owners
<1>3. devices'[u] = devices[u] /\ (u \in due => u \in due')
  BY <1>1, <1>2
<1>4. \/ devices'[Above(u)] = devices[Above(u)]
      \/ /\ u \in due' /\ Prefix(devices[Above(u)], devices'[Above(u)])
         /\ u \notin Pods \/ run[u].pc = "idle"
  <2>1. CASE u \notin Pods
    BY <1>1, <1>2, <2>1
  <2>2. CASE u \in Pods /\ run[u].pc = "idle"
    BY <1>1, <1>2, <2>2 DEF Below
  <2>3. CASE u \in Pods /\ run[u].pc # "idle"
    BY <1>1, <2>3 DEF CablingInv, CurrentRun
  <2>. QED
    BY <2>1, <2>2, <2>3
<1>. QED
  BY <1>1, <1>3, <1>4, PassedBy

\* An owner that has no link has nothing to keep.
LEMMA NothingKept ==
    ASSUME CablingInv, NEW o \in Owners, Unbuilt(o), run[o].pc = "idle",
           run'[o] = run[o], amount'[o] = amount[o], UNCHANGED <<links, plugged, group>>
    PROVE  Grouped(o)' /\ Kept(o)' /\ InPlace(o)'
<1>1. Grouped(o) /\ Plugs
  BY DEF CablingInv
<1>2. group[o].links = {}
  BY <1>1 DEF Grouped, Unbuilt
<1>3. group[o].ends = {}
  BY <1>1, <1>2 DEF Grouped, EndsOf
<1>4. \A q \in plugged : q[2][1].of # o
  BY <1>1 DEF Plugs, Unbuilt
<1>5. Wanted(o)' = Wanted(o)
  BY DEF Wanted
<1>6. Grouped(o)'
  BY <1>1, <1>2, <1>3, <1>5 DEF Grouped
<1>7. Kept(o)' /\ InPlace(o)'
  BY <1>3, <1>4 DEF Kept, InPlace
<1>. QED
  BY <1>6, <1>7

LEMMA ReindexGood ==
    ASSUME CablingInv, Shape', ~MayActDuringRun, ~MayMove,
           NEW o \in Owners, NEW i \in Indexes[o], Reindex(o, i), NEW u \in Owners
    PROVE  Good(u)'
<1>1. /\ run[o].pc = "idle" /\ Unbuilt(o) /\ index' = [index EXCEPT ![o] = i] /\ due' = due \cup {o}
      /\ UNCHANGED <<run, amount, devices, links, plugged, group>>
  BY DEF Reindex, Edited, Resting, cables
<1>2. CASE u = o
  <2>1. CurrentRun(o)' /\ Laying(o)' /\ Laid(o)'
    BY <1>1, DueIsGood
  <2>. QED
    BY <1>1, <1>2, <2>1, NothingKept DEF Good
<1>3. CASE u # o
  <2>1. index'[u] = index[u]
    BY <1>1, <1>3 DEF CablingInv, Shape, TypeOK
  <2>. QED
    BY <1>1, <2>1, PassedBy
<1>. QED
  BY <1>2, <1>3

LEMMA ResizeGood ==
    ASSUME CablingInv, Shape', ~MayActDuringRun, ~MayMove,
           NEW t \in Targets, NEW n \in Sizes[t], Resize(t, n), NEW u \in Owners
    PROVE  Good(u)'
<1>1. /\ t = Fabric => \A p \in Pods : run[p].pc = "idle" /\ Unbuilt(p)
      /\ n > amount[t] /\ amount' = [amount EXCEPT ![t] = n] /\ due' = due \cup {t} \cup Below(t)
      /\ UNCHANGED <<run, index, devices, links, plugged, group>>
  BY DEF Resize, Edited, Resting, cables
<1>2. /\ amount \in [Targets -> Nat] /\ u \in Targets /\ Above(u) \in Targets /\ Above(u) # u
      /\ (u \in Pods <=> Above(u) = Fabric) /\ n \in Nat
  BY UpperTier, TiersAreTree, DesignInputs DEF CablingInv, Shape, TypeOK, Above, Owners
<1>3. CASE u \in Pods /\ t = Fabric
  <2>1. run'[u].pc = "idle" /\ u \in due' /\ amount'[u] = amount[u]
    BY <1>1, <1>2, <1>3 DEF Below
  <2>2. CurrentRun(u)' /\ Laying(u)' /\ Laid(u)'
    BY <2>1, DueIsGood
  <2>. QED
    BY <1>1, <1>3, <2>1, <2>2, NothingKept DEF Good
<1>4. CASE ~(u \in Pods /\ t = Fabric)
  <2>1. amount'[u] = amount[u] \/ (u \in due' /\ amount[u] <= amount'[u])
    BY <1>1, <1>2
  <2>2. \/ amount'[Above(u)] = amount[Above(u)]
        \/ u \in due' /\ amount[Above(u)] <= amount'[Above(u)] /\ u \notin Pods
    BY <1>1, <1>2, <1>4 DEF Below
  <2>. QED
    BY <1>1, <2>1, <2>2, PassedBy
<1>. QED
  BY <1>3, <1>4

\* What an owner at rest may use is on its own devices or on those above.
LEMMA MineIsNear ==
    ASSUME Shape, NEW o \in Owners, NEW e, Mine(o, e)
    PROVE  /\ e.of = o \/ e.of = Above(o)
           /\ run[o].pc = "idle" /\ e.of = Above(o) => e.device \in Numbers(Above(o))
<1>1. PICK i, a, n, above : /\ InWindow(e, o, i, a, n, above) /\ above \in Seq(Nat)
                            /\ run[o].pc = "idle" => above = devices[Above(o)]
  <2>1. Seen(o) \in Seq(Nat) /\ (run[o].pc = "idle" => Seen(o) = devices[Above(o)])
    BY ShapeOf DEF Seen
  <2>. QED
    BY <2>1 DEF Mine
<1>2. CASE InLower(e, o, a, n)
  BY <1>2, UpperTier DEF InLower, LowerEnd, Port
<1>3. CASE InUpper(e, o, i, a, n, above)
  <2>1. PICK j \in Wide(above) : \E s : e = UpperEnd(o, above[j], s)
    BY <1>3 DEF InUpper
  <2>2. e.of = Above(o) /\ e.device = above[j]
    BY <2>1 DEF UpperEnd, Port
  <2>3. above[j] \in ToSet(above)
    BY <1>1, WideIs, ElementsOf
  <2>. QED
    BY <1>1, <2>2, <2>3 DEF Numbers
<1>. QED
  BY <1>1, <1>2, <1>3 DEF InWindow

LEMMA ReplaceGood ==
    ASSUME CablingInv, Shape', ~MayActDuringRun,
           NEW t \in Targets, NEW k \in Numbers(t), Replace(t, k), NEW u \in Owners
    PROVE  Good(u)'
<1>1. /\ \A v \in (Owners \cap {t}) \cup Below(t) : run[v].pc = "idle"
      /\ devices' = [devices EXCEPT ![t] = Only(@, Numbers(t) \ {k})]
      /\ plugged' = {q \in plugged : ~(q[1].of = t /\ q[1].device \in {k})}
      /\ group' = GroupsWithout(t, {k})
      /\ due' = due \cup {t} \cup Below(t)
      /\ UNCHANGED <<run, index, amount, links>>
  BY DEF Replace, Edited, Resting, design, DevicesGo
<1>2. /\ devices \in [Targets -> Seq(Nat)] /\ u \in Targets /\ Above(u) \in Targets /\ Above(u) # u
      /\ Shape /\ TypeOK /\ amount[u] \in Nat /\ amount[Above(u)] \in Nat
      /\ devices[Above(u)] \in Seq(Nat)
  BY UpperTier, ShapeOf DEF CablingInv, Shape, TypeOK
<1>3. /\ group'[u].links = group[u].links
      /\ group'[u].ends = Without(group[u].ends, t, {k})
      /\ group'[u].devices \subseteq group[u].devices
  <2>1. group[u] \in GroupType
    BY <1>2, GroupIsRecord
  <2>2. group'[u] = [group[u] EXCEPT !.ends = Without(@, t, {k}),
                                     !.devices = IF u = t THEN @ \ {k} ELSE @]
    BY <1>1 DEF GroupsWithout
  <2>. QED
    BY <2>1, <2>2 DEF GroupType
<1>4. CurrentRun(u)' /\ Laying(u)' /\ Laid(u)'
  <2>1. CASE u = t \/ Above(u) = t
    <3>1. u \in due' /\ run'[u].pc = "idle"
      BY <1>1, <2>1 DEF Below
    <3>. QED
      BY <3>1, DueIsGood
  <2>2. CASE u # t /\ Above(u) # t
    <3>1. devices'[u] = devices[u] /\ devices'[Above(u)] = devices[Above(u)]
      BY <1>1, <1>2, <2>2
    <3>2. ASSUME NEW l \in Safe(u), Ends(l) \subseteq plugged PROVE Ends(l) \subseteq plugged'
      <4>1. l[1].of # t /\ l[2].of # t
        BY <2>2, SafeAt
      <4>2. <<l[1], l>>[1] = l[1] /\ <<l[2], l>>[1] = l[2]
        OBVIOUS
      <4>3. <<l[1], l>> \in plugged => <<l[1], l>> \in plugged'
        BY <1>1, <4>1, <4>2
      <4>4. <<l[2], l>> \in plugged => <<l[2], l>> \in plugged'
        BY <1>1, <4>1, <4>2
      <4>. QED
        BY <3>2, <4>3, <4>4, EndsStay
    <3>. QED
      BY <1>1, <3>1, <3>2, Unmoved
  <2>. QED
    BY <2>1, <2>2
<1>5. ASSUME NEW e, Mine(u, e), ~(e.of = t /\ e.device = k) PROVE Mine(u, e)'
  <2>1. CASE run[u].pc # "idle"
    BY <1>1, <1>2, <1>5, <2>1, MineStays
  <2>2. CASE run[u].pc = "idle" /\ Above(u) # t
    <3>1. Prefix(devices[Above(u)], devices'[Above(u)])
      BY <1>1, <1>2, <2>2, PrefixOfItself
    <3>2. amount[u] <= amount'[u] /\ amount[Above(u)] <= amount'[Above(u)] /\ run'[u].pc = "idle"
      BY <1>1, <1>2, <2>2
    <3>. QED
      BY <1>1, <1>2, <1>5, <2>2, <3>1, <3>2, MineStays
  <2>3. CASE run[u].pc = "idle" /\ Above(u) = t
    <3>1. PICK S : S = Numbers(t) \ {k}
      OBVIOUS
    <3>2. devices'[Above(u)] = Only(devices[Above(u)], S) /\ (e.of = Above(u) => e.device \in S)
      BY <1>1, <1>2, <1>5, <2>3, <3>1, MineIsNear
    <3>3. amount[u] <= amount'[u] /\ amount[Above(u)] <= amount'[Above(u)] /\ run'[u].pc = "idle"
      BY <1>1, <1>2, <2>3
    <3>. QED
      BY <1>1, <1>2, <1>5, <2>3, <3>2, <3>3, MineStays
  <2>. QED
    BY <2>1, <2>2, <2>3
<1>6. Grouped(u)' /\ Kept(u)' /\ InPlace(u)'
  <2>1. \A l \in group[u].links : l \in links'
    BY <1>1 DEF CablingInv, Grouped
  <2>2. Wanted(u)' = Wanted(u)
    BY <1>1 DEF Wanted
  <2>3. group'[u].ends \subseteq group[u].ends /\ plugged' \subseteq plugged
    BY <1>1, <1>3 DEF Without
  <2>4. \A e : e.of = t /\ e.device = k => e \notin group'[u].ends /\ \A q \in plugged' : q[1] # e
    BY <1>1, <1>3 DEF Without
  <2>. QED
    BY <1>3, <1>5, <2>1, <2>2, <2>3, <2>4, Unchanged
<1>. QED
  BY <1>4, <1>6 DEF Good

\* The links that a step deletes leave no interface on them, an interface that
\* is plugged anew leaves its link, no tier outgrows the design, and nothing is
\* pruned.
LEMMA RestPreserved ==
    ASSUME CablingInv, ~MayMove, [Next]_vars PROVE Plugs' /\ Few' /\ pruned' = {}
<1>1. /\ Plugs /\ Few /\ pruned = {} /\ Shape /\ DesignOK
      /\ devices \in [Targets -> Seq(Nat)] /\ amount \in [Targets -> Nat]
  BY DEF CablingInv, Shape, TypeOK
<1>2. CASE UNCHANGED <<amount, devices, links, plugged, pruned>>
  BY <1>1, <1>2 DEF Plugs, Few, Numbers
<1>3. ASSUME NEW o \in Owners, Build(o) PROVE Plugs' /\ Few' /\ pruned' = {}
  <2>1. /\ devices' = [devices EXCEPT ![o] = Upserted(@, amount[o])]
        /\ UNCHANGED <<amount, links, plugged, pruned>>
    BY <1>3 DEF Build, design, cables
  <2>2. ToSet(Upserted(devices[o], amount[o])) = ToSet(devices[o]) \cup 1..amount[o]
    BY <1>1, ShapeOf, ListedUpserted
  <2>3. Few'
    BY <1>1, <2>1, <2>2, UpperTier DEF Few, Numbers
  <2>. QED
    BY <1>1, <2>1, <2>3 DEF Plugs
<1>4. ASSUME NEW o \in Owners, Connect(o), ~Raise(o) PROVE Plugs' /\ Few' /\ pruned' = {}
  <2>1. PICK m \in PlanOf(o) :
           /\ m[1].of = o /\ links' = links \cup {m}
           /\ plugged' = {q \in plugged : q[1] \notin {m[1], m[2]}} \cup ({m[1], m[2]} \X {m})
           /\ UNCHANGED <<amount, devices, pruned>>
    BY <1>4, NextCable
  <2>2. ASSUME NEW q \in plugged'
        PROVE  \/ q \in plugged /\ q[1] \notin {m[1], m[2]}
               \/ q = <<q[1], m>> /\ q[1] \in {m[1], m[2]} /\ q[2] = m
    BY <2>1
  <2>3. \A q \in plugged' : q[2] \in links' /\ q[1] \in {q[2][1], q[2][2]}
    BY <1>1, <2>1, <2>2 DEF Plugs
  <2>4. ASSUME NEW q \in plugged', NEW z \in plugged', q[1] = z[1] PROVE q = z
    <3>1. CASE q \in plugged /\ z \in plugged
      BY <1>1, <2>4, <3>1 DEF Plugs
    <3>2. CASE q[1] \in {m[1], m[2]}
      <4>1. q = <<q[1], m>> /\ z = <<z[1], m>>
        BY <2>2, <2>4, <3>2
      <4>. QED
        BY <2>4, <4>1, Zenon
    <3>. QED
      BY <2>2, <2>4, <3>1, <3>2
  <2>5. \A l \in links' : l[1].of \in Owners
    BY <1>1, <2>1 DEF Plugs
  <2>. QED
    BY <1>1, <2>1, <2>3, <2>4, <2>5 DEF Plugs, Few, Numbers
<1>5. ASSUME NEW o \in Owners, Finish(o) PROVE Plugs' /\ Few' /\ pruned' = {}
  <2>1. PICK obsolete :
           /\ links' = links \ obsolete /\ plugged' = {q \in plugged : q[2] \notin obsolete}
           /\ UNCHANGED <<amount, devices>> /\ pruned' = {}
    BY <1>5, FinishFacts
  <2>. QED
    BY <1>1, <2>1 DEF Plugs, Few, Numbers
<1>6. ASSUME BuildFabric PROVE Plugs' /\ Few' /\ pruned' = {}
  <2>1. /\ devices' = [devices EXCEPT ![Fabric] = devices'[Fabric]]
        /\ Numbers(Fabric)' = 1..amount[Fabric]
        /\ pruned' = {} /\ UNCHANGED <<amount, links, plugged>>
    BY <1>6, FabricFacts
  <2>2. Few'
    BY <1>1, <2>1 DEF Few, Numbers
  <2>. QED
    BY <1>1, <2>1, <2>2 DEF Plugs
<1>7. ASSUME NEW t \in Targets, NEW n \in Sizes[t], Resize(t, n) PROVE Plugs' /\ Few' /\ pruned' = {}
  <2>1. /\ n > amount[t] /\ amount' = [amount EXCEPT ![t] = n] /\ n \in Nat
        /\ UNCHANGED <<devices, links, plugged, pruned>>
    BY <1>7, DesignInputs DEF Resize, cables
  <2>2. ASSUME NEW u \in Targets PROVE Numbers(u)' \subseteq 1..amount'[u]
    <3>1. Numbers(u)' = Numbers(u) /\ Numbers(u) \subseteq 1..amount[u]
      BY <1>1, <2>1 DEF Few, Numbers
    <3>2. amount[u] \in Nat /\ amount'[u] \in Nat /\ amount[u] <= amount'[u]
      BY <1>1, <2>1
    <3>. QED
      BY <3>1, <3>2
  <2>3. Few'
    BY <2>2 DEF Few
  <2>. QED
    BY <1>1, <2>1, <2>3 DEF Plugs
<1>8. ASSUME NEW t \in Targets, NEW k \in Numbers(t), Replace(t, k) PROVE Plugs' /\ Few' /\ pruned' = {}
  <2>1. /\ devices' = [devices EXCEPT ![t] = Only(@, Numbers(t) \ {k})]
        /\ plugged' \subseteq plugged /\ pruned' = Without({}, t, {k})
        /\ UNCHANGED <<amount, links>>
    BY <1>1, <1>8 DEF Replace, DevicesGo, design
  <2>2. ToSet(Only(devices[t], Numbers(t) \ {k})) \subseteq ToSet(devices[t])
    BY <1>1, ListedOnly DEF Shape
  <2>3. Few'
    BY <1>1, <2>1, <2>2 DEF Few, Numbers
  <2>4. pruned' = {}
    BY <2>1 DEF Without
  <2>. QED
    BY <1>1, <2>1, <2>3, <2>4 DEF Plugs
<1>9. ASSUME NEW o \in Owners, PlanCables(o) \/ Die(o) \/ Raise(o)
      PROVE  UNCHANGED <<amount, devices, links, plugged, pruned>>
  BY <1>9 DEF PlanCables, Die, Raise, GiveUp, design, cables
<1>10. ASSUME NEW o \in Owners, NEW i \in Indexes[o], Reindex(o, i)
       PROVE  UNCHANGED <<amount, devices, links, plugged, pruned>>
  BY <1>10 DEF Reindex, cables
<1>11. UNCHANGED vars => UNCHANGED <<amount, devices, links, plugged, pruned>>
  BY DEF vars
<1>. QED
  BY <1>2, <1>3, <1>4, <1>5, <1>6, <1>7, <1>8, <1>9, <1>10, <1>11 DEF Next, RunStep

-----------------------------------------------------------------------------
(* The theorems                                                             *)

LEMMA CablingInvAtFirst == Init => CablingInv
<1>. SUFFICES ASSUME Init PROVE CablingInv
  OBVIOUS
<1>1. \A o \in Owners : run[o].pc = "idle" /\ o \in due
  BY UpperTier DEF Init, Idle
<1>2. \A o \in Owners : Grouped(o) /\ Kept(o) /\ InPlace(o)
  BY DEF Init, NoMembers, Grouped, Kept, InPlace
<1>3. Few
  BY DEF Init, Few, Numbers, ToSet
<1>. QED
  BY <1>1, <1>2, <1>3, ShapeAtFirst DEF Init, CablingInv, Plugs, CurrentRun, Laying, Laid

LEMMA CablingInvPreserved ==
    ASSUME ~MayActDuringRun, ~MayMove PROVE CablingInv /\ [Next]_vars => CablingInv'
<1>. SUFFICES ASSUME CablingInv, [Next]_vars PROVE CablingInv'
  OBVIOUS
<1>1. Shape'
  BY ShapePreserved DEF CablingInv
<1>2. ASSUME NEW u \in Owners PROVE Good(u)'
  <2>1. CASE UNCHANGED vars
    <3>1. UNCHANGED <<index, amount, devices, links, plugged, group, due, run>>
      BY <2>1 DEF vars
    <3>. QED
      BY <1>1, <3>1, PassedBy
  <2>2. ASSUME NEW o \in Owners, Build(o) \/ RunStep(o) \/ Die(o) PROVE Good(u)'
    BY <1>1, <2>2, BuildGood, PlanGood, ConnectGood, FinishGood, GiveUpGood DEF RunStep, Die
  <2>. QED
    BY <1>1, <2>1, <2>2, FabricGood, ReindexGood, ResizeGood, ReplaceGood DEF Next
<1>3. Plugs' /\ Few' /\ pruned' = {}
  BY RestPreserved
<1>. QED
  BY <1>1, <1>2, <1>3 DEF CablingInv, Good

LEMMA InvIsCabled == CablingInv => QuietMeansCabled
<1>. SUFFICES ASSUME CablingInv, Quiet
              PROVE  \E planned : /\ planned = UNION {Planned(o) : o \in Owners}
                                  /\ planned \subseteq links
                                  /\ plugged = UNION {Ends(l) : l \in planned}
                                  /\ \A o \in Owners : Numbers(o) = 1..amount[o]
  BY DEF QuietMeansCabled
<1>1. PICK planned : planned = UNION {Planned(o) : o \in Owners}
  OBVIOUS
<1>2. Shape /\ Plugs /\ Few /\ pruned = {} /\ \A o \in Owners : Laid(o) /\ InPlace(o)
  BY DEF CablingInv
<1>3. \A o \in Owners : /\ run[o].pc = "idle" /\ Numbers(o) = 1..amount[o]
                        /\ Len(devices[Above(o)]) = amount[Above(o)] /\ Planned(o) = Goal(o)
                        /\ \A l \in Goal(o) : l \in links /\ Ends(l) \subseteq plugged
  BY <1>2, GoalIsPlanned DEF Laid, Quiet
<1>4. \A l : l \in planned <=> \E o \in Owners : l \in Goal(o)
  BY <1>1, <1>3
<1>5. planned \subseteq links /\ \A l \in planned : Ends(l) \subseteq plugged
  BY <1>3, <1>4
<1>6. ASSUME NEW q \in plugged PROVE \E l \in planned : q \in Ends(l)
  <2>1. PICK o \in Owners : o = q[2][1].of
    BY <1>2 DEF Plugs
  <2>2. Mine(o, q[1])
    BY <1>2, <2>1 DEF InPlace
  <2>3. InWindow(q[1], o, index[o], amount[o], Len(devices[Above(o)]), devices[Above(o)])
    BY <1>3, <2>2 DEF Mine, Wanted, Seen, Count
  <2>4. /\ index[o] \in Nat /\ amount[o] \in Nat /\ Listed(devices[o]) /\ devices[Above(o)] \in Seq(Nat)
        /\ ToSet(devices[o]) = 1..amount[o]
    BY <1>2, <1>3, ShapeOf DEF Numbers
  <2>5. q[1] \in EndsOf(Goal(o))
    BY <2>3, <2>4, WindowIsPlan DEF Goal
  <2>6. PICK l \in Goal(o) : q[1] = l[1] \/ q[1] = l[2]
    BY <2>5, EndsOfAre
  <2>7. Ends(l) \subseteq plugged /\ l \in planned
    BY <1>3, <1>4
  <2>8. <<q[1], l>> \in plugged /\ <<q[1], l>> \in Ends(l)
    BY <2>6, <2>7 DEF Ends
  <2>9. <<q[1], l>>[1] = q[1]
    OBVIOUS
  <2>10. q = <<q[1], l>>
    BY <1>2, <2>8, <2>9 DEF Plugs
  <2>. QED
    BY <2>7, <2>8, <2>10
<1>7. plugged = UNION {Ends(l) : l \in planned}
  BY <1>5, <1>6
<1>. QED
  BY <1>1, <1>3, <1>5, <1>7

(* As long as nothing that was cabled is moved, whichever device is replaced *)
(* or added and wherever a run dies: once every target has been run, the     *)
(* interfaces are plugged as the design plans and no others                  *)
(* (connect_interface_maps, build_pod_cabling_plan, the group's pruning).    *)
THEOREM QuietIsCabled ==
    ASSUME ~MayActDuringRun, ~MayMove PROVE Spec => []QuietMeansCabled
<1>1. Init => CablingInv
  BY CablingInvAtFirst
<1>2. CablingInv /\ [Next]_vars => CablingInv'
  BY CablingInvPreserved
<1>3. CablingInv => QuietMeansCabled
  BY InvIsCabled
<1>. QED
  BY <1>1, <1>2, <1>3, PTL DEF Spec

(* The runs of a pod or a rack save every interface their group holds again, *)
(* whatever happened above and beside them: none of a device that stays is   *)
(* ever pruned (assign_ip_addresses_to_p2p_connections).                     *)
THEOREM PortsAreLeft ==
    ASSUME ~MayActDuringRun, ~MayMove PROVE Spec => []PortsStay
<1>1. Init => CablingInv
  BY CablingInvAtFirst
<1>2. CablingInv /\ [Next]_vars => CablingInv'
  BY CablingInvPreserved
<1>3. CablingInv => PortsStay
  BY DEF CablingInv, PortsStay
<1>. QED
  BY <1>1, <1>2, <1>3, PTL DEF Spec

\* A step unplugs the interfaces of devices it deletes, those of links it
\* deletes, and those a cable that it lays takes over.
LEMMA WholeStays ==
    ASSUME CablingInv, [Next]_vars, NEW q \in plugged, NEW l, l = q[2],
           Exists(l[1])', Exists(l[2])', l \in Planned(l[1].of), ~Overtaken(l[1].of)
    PROVE  q \in plugged'
<1>1. PICK o \in Owners : o = l[1].of
  BY DEF CablingInv, Plugs
<1>2. /\ Shape /\ Plugs /\ Few /\ pruned = {} /\ devices \in [Targets -> Seq(Nat)]
      /\ q[1] \in {l[1], l[2]} /\ q = <<q[1], l>>
  <2>1. Shape /\ Plugs /\ Few /\ pruned = {}
    BY DEF CablingInv
  <2>2. devices \in [Targets -> Seq(Nat)] /\ q \in Interface \X Link
    BY <2>1 DEF Shape, TypeOK
  <2>3. q[1] \in {l[1], l[2]}
    BY <2>1 DEF Plugs
  <2>. QED
    BY <2>1, <2>2, <2>3
<1>3. l \in Goal(o) /\ GoalRange(o)
  BY <1>1, <1>2, GoalIsPlanned
<1>4. ASSUME run[o].pc # "idle" PROVE l \in PlanOf(o)
  <2>1. run[o].upper = devices[Above(o)]
    BY <1>1, <1>4 DEF Overtaken
  <2>. QED
    BY <1>3, <2>1 DEF PlanOf, Goal
<1>5. CASE plugged' = plugged
  BY <1>5
<1>6. ASSUME NEW v \in Owners, Connect(v), ~Raise(v) PROVE q \in plugged'
  <2>1. PICK m \in PlanOf(v) :
           /\ run[v].pc = "connect"
           /\ plugged' = {z \in plugged : z[1] \notin {m[1], m[2]}} \cup ({m[1], m[2]} \X {m})
    BY <1>6, NextCable
  <2>2. CASE l = m
    BY <1>2, <2>1, <2>2
  <2>3. CASE l # m
    <3>1. l[1] \notin {m[1], m[2]} /\ l[2] \notin {m[1], m[2]}
      <4>1. CASE v # o
        BY <1>3, <2>1, <4>1, ConnectSpares
      <4>2. CASE v = o
        <5>1. l \in PlanOf(o)
          BY <1>4, <2>1, <4>2
        <5>. QED
          BY <2>1, <2>3, <4>2, <5>1, RunFits, OwnApart DEF PlanOf
      <4>. QED
        BY <4>1, <4>2
    <3>. QED
      BY <1>2, <2>1, <3>1
  <2>. QED
    BY <2>2, <2>3
<1>7. ASSUME NEW v \in Owners, Finish(v) PROVE q \in plugged'
  <2>1. /\ run[v].pc = "connect" /\ run[v].made = PlanOf(v)
        /\ plugged' = {z \in plugged : z[2] \notin group[v].links \ run[v].made}
    BY <1>7, FinishFacts
  <2>2. l \notin group[v].links \ run[v].made
    <3>1. CASE v # o
      BY <1>1, <3>1 DEF CablingInv, Grouped
    <3>2. CASE v = o
      BY <1>4, <2>1, <3>2
    <3>. QED
      BY <3>1, <3>2
  <2>. QED
    BY <2>1, <2>2
<1>8. ASSUME NEW t \in Targets, NEW k \in Numbers(t), Replace(t, k) PROVE q \in plugged'
  <2>1. /\ devices' = [devices EXCEPT ![t] = Only(@, Numbers(t) \ {k})]
        /\ plugged' = {z \in plugged : ~(z[1].of = t /\ z[1].device \in {k})}
    BY <1>8 DEF Replace, DevicesGo
  <2>2. ToSet(Only(devices[t], Numbers(t) \ {k})) = ToSet(devices[t]) \cap (Numbers(t) \ {k})
    BY <1>2, ListedOnly DEF Shape
  <2>3. k \notin Numbers(t)'
    BY <1>2, <2>1, <2>2 DEF Numbers
  <2>4. q[1].device \in Numbers(q[1].of)'
    BY <1>2 DEF Exists
  <2>. QED
    BY <2>1, <2>3, <2>4
<1>9. ASSUME BuildFabric PROVE plugged' = plugged
  BY <1>9, FabricFacts
<1>10. ASSUME NEW v \in Owners, Build(v) \/ PlanCables(v) \/ Die(v) \/ Raise(v)
       PROVE  plugged' = plugged
  BY <1>10 DEF Build, PlanCables, Die, Raise, GiveUp, cables
<1>11. ASSUME NEW v \in Owners, NEW i \in Indexes[v], Reindex(v, i) PROVE plugged' = plugged
  BY <1>11 DEF Reindex, cables
<1>12. ASSUME NEW t \in Targets, NEW n \in Sizes[t], Resize(t, n) PROVE plugged' = plugged
  BY <1>12 DEF Resize, cables
<1>13. UNCHANGED vars => plugged' = plugged
  BY DEF vars
<1>. QED
  BY <1>5, <1>6, <1>7, <1>8, <1>9, <1>10, <1>11, <1>12, <1>13 DEF Next, RunStep

(* A cable that is laid as planned is not unplugged while both of its        *)
(* devices exist, whoever runs, whatever is edited elsewhere and whatever    *)
(* another run prunes, except by a run of its own that was overtaken         *)
(* (build_pod_cabling_plan, build_rack_cabling_plan, connect_interface_maps).*)
THEOREM CablesAreLeft ==
    ASSUME ~MayActDuringRun, ~MayMove PROVE Spec => CablesStay
<1>1. Init => CablingInv
  BY CablingInvAtFirst
<1>2. CablingInv /\ [Next]_vars => CablingInv'
  BY CablingInvPreserved
<1>3. CablingInv /\ [Next]_vars =>
        [\A q \in plugged \ plugged' :
           LET l == q[2]
           IN  /\ Whole(l) /\ Exists(l[1])' /\ Exists(l[2])'
               /\ l \in Planned(l[1].of) /\ l \in Planned(l[1].of)'
               => Overtaken(l[1].of)]_vars
  <2>. SUFFICES ASSUME CablingInv, [Next]_vars, NEW q \in plugged \ plugged', NEW l, l = q[2],
                       Exists(l[1])', Exists(l[2])', l \in Planned(l[1].of), ~Overtaken(l[1].of)
                PROVE  FALSE
    OBVIOUS
  <2>. QED
    BY WholeStays
<1>. QED
  BY <1>1, <1>2, <1>3, PTL DEF Spec, CablesStay

=============================================================================
