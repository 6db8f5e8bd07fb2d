--------------------------- MODULE HashMapProofs ----------------------------
(***************************************************************************)
(* hashmap.h for any keys, values, hash function and capacities: the probe *)
(* loop ends and finds what is there, a rehash moves every entry and never *)
(* nests, and the map implements Dictionary.                               *)
(***************************************************************************)
EXTENDS LibraryProofs, FiniteSetTheorems

Entries == [state : {"EMPTY", "USED", "TOMB"}, key : Keys \cup {NoKey},
            val : Vals \cup {NoVal}]

\* The slot visited after j steps, for a hash f.
StepSlot(f, n, k, j) == (f[k] + j) % n

\* The probe for k comes to slot i before it has seen an empty one.
Reaches(f, t, n, k, i) ==
    \E j \in 0 .. n - 1 :
        /\ StepSlot(f, n, k, j) = i
        /\ \A l \in 0 .. j - 1 : t[StepSlot(f, n, k, l)].state # "EMPTY"

\* A table: every used entry is reached by its own probe, and has a key of its
\* own.
Table(f, t, n) ==
    /\ n \in Nat \ {0} /\ f \in [Keys -> Nat] /\ t \in [0 .. n - 1 -> Entries]
    /\ \A i \in 0 .. n - 1 :
         t[i].state = "USED" =>
           t[i].key \in Keys /\ t[i].val \in Vals /\ Reaches(f, t, n, t[i].key, i)
    /\ \A i, j \in 0 .. n - 1 :
         t[i].state = "USED" /\ t[j].state = "USED" /\ t[i].key = t[j].key => i = j

InTab(t, n, s) == {i \in 0 .. n - 1 : t[i].state = s}
HasRoom(t, n) == \E i \in 0 .. n - 1 : t[i].state = "EMPTY"
HasKey(t, n, k) == \E i \in 0 .. n - 1 : t[i].state = "USED" /\ t[i].key = k
Binds(t, n, k, v) == \E i \in 0 .. n - 1 : t[i].state = "USED" /\ t[i].key = k /\ t[i].val = v

-----------------------------------------------------------------------------
\* Every non-empty set of numbers has a least element: the induction used below.
LEMMA LeastNumber ==
    ASSUME NEW T, T \subseteq Nat, T # {}
    PROVE  \E x \in T : \A y \in T : x <= y
<1> DEFINE R == OpToRel(<, Nat)
<1>1. IsWellFoundedOn(R, Nat)
  BY NatLessThanWellFounded, Zenon
<1> HIDE DEF R
<1>2. \E x \in T : \A y \in T : ~(<<y, x>> \in R)
  BY <1>1, WFMin
<1>3. \A x, y \in Nat : <<y, x>> \in R <=> y < x
  BY DEF R, OpToRel
<1>4. \A x, y \in Nat : ~(y < x) => x <= y
  OBVIOUS
<1> QED BY <1>2, <1>3, <1>4

\* Min, for numbers.
LEMMA LeastIsMin ==
    ASSUME NEW T, T \subseteq Nat, T # {}
    PROVE  H!Min(T) \in T /\ \A y \in T : H!Min(T) <= y
<1>1. PICK x \in T : \A y \in T : x <= y
  BY LeastNumber
<1> QED BY <1>1 DEF H!Min

\* Linear probing stays in the table,
LEMMA SlotInside ==
    ASSUME NEW x \in Nat, NEW n \in Nat \ {0}
    PROVE  x % n \in 0 .. n - 1
OBVIOUS

\* and comes to every slot.
LEMMA SlotsCovered ==
    ASSUME NEW x \in Nat, NEW n \in Nat \ {0}, NEW s \in 0 .. n - 1
    PROVE  \E j \in 0 .. n - 1 : (x + j) % n = s
<1>1. PICK q, r : q = x \div n /\ r = x % n
  OBVIOUS
<1>2. q \in Nat /\ r \in 0 .. n - 1 /\ x = q * n + r
  BY <1>1
<1>3. \A p \in Nat : (p * n + s) % n = s
  OBVIOUS
<1>4. CASE s >= r
  <2>1. s - r \in 0 .. n - 1 /\ x + (s - r) = q * n + s
    BY <1>2, <1>4
  <2> QED BY <1>2, <1>3, <2>1
<1>5. CASE s < r
  <2>1. (s - r) + n \in 0 .. n - 1 /\ x + ((s - r) + n) = (q + 1) * n + s /\ q + 1 \in Nat
    BY <1>2, <1>5
  <2> QED BY <1>3, <2>1
<1> QED BY <1>2, <1>4, <1>5

-----------------------------------------------------------------------------
\* hmap_probe on a table with an empty slot.
LEMMA ProbeFinds ==
    ASSUME NEW t, NEW n, Table(hash, t, n), HasRoom(t, n), NEW k \in Keys
    PROVE  /\ H!ProbeEnds(t, n, k)
           /\ H!Found(t, n, k) <=> HasKey(t, n, k)
           /\ H!Probe(t, n, k) \in 0 .. n - 1
           /\ H!Found(t, n, k) =>
                /\ t[H!Probe(t, n, k)].state = "USED"
                /\ t[H!Probe(t, n, k)].key = k
           /\ ~H!Found(t, n, k) =>
                /\ t[H!Probe(t, n, k)].state # "USED"
                /\ Reaches(hash, t, n, k, H!Probe(t, n, k))
<1> DEFINE s(j) == H!Slot(n, k, j)
           J == {j \in 0 .. n - 1 : H!Stops(t, n, k, j)}
           z == H!LastStep(t, n, k)
           passed == {j \in 0 .. z : t[s(j)].state = "TOMB"}
           p == H!Probe(t, n, k)
<1>1. n \in Nat \ {0} /\ hash[k] \in Nat /\ t \in [0 .. n - 1 -> Entries]
  BY DEF Table
<1>2. \A j \in Nat : s(j) \in 0 .. n - 1 /\ s(j) = StepSlot(hash, n, k, j)
  <2> SUFFICES ASSUME NEW j \in Nat PROVE s(j) \in 0 .. n - 1 /\ s(j) = StepSlot(hash, n, k, j)
    OBVIOUS
  <2>1. hash[k] + j \in Nat
    BY <1>1
  <2> QED BY <1>1, <2>1, SlotInside DEF H!Slot, StepSlot
<1>3. \A j : H!Stops(t, n, k, j) <=> \/ t[s(j)].state = "EMPTY"
                                     \/ t[s(j)].state = "USED" /\ t[s(j)].key = k
  BY DEF H!Stops, H!Holds
<1>4. J \subseteq Nat /\ J # {}
  <2>1. PICK i \in 0 .. n - 1 : t[i].state = "EMPTY"
    BY DEF HasRoom
  <2>2. PICK j \in 0 .. n - 1 : (hash[k] + j) % n = i
    BY <1>1, SlotsCovered
  <2>3. s(j) = i
    BY <2>2 DEF H!Slot
  <2>4. j \in J
    BY <1>3, <2>1, <2>3
  <2> QED BY <1>1, <2>4
<1>5. z \in J /\ \A j \in J : z <= j
  <2>1. z = H!Min(J)
    BY DEF H!LastStep
  <2> HIDE DEF z, J
  <2> QED BY <1>4, <2>1, LeastIsMin
<1>6. z \in 0 .. n - 1 /\ H!Stops(t, n, k, z)
  BY <1>5
<1>7. \A l \in 0 .. z - 1 : /\ l \in 0 .. n - 1 /\ l \in Nat
                            /\ t[s(l)].state # "EMPTY"
                            /\ ~(t[s(l)].state = "USED" /\ t[s(l)].key = k)
  <2> SUFFICES ASSUME NEW l \in 0 .. z - 1
               PROVE  /\ l \in 0 .. n - 1 /\ l \in Nat
                      /\ ~H!Stops(t, n, k, l)
    BY <1>3
  <2>1. l \in 0 .. n - 1 /\ l \in Nat /\ ~(z <= l)
    BY <1>1, <1>6
  <2> QED BY <1>5, <2>1
<1>8. H!Found(t, n, k) <=> t[s(z)].state = "USED" /\ t[s(z)].key = k
  BY DEF H!Found, H!Holds
<1>9. s(z) \in 0 .. n - 1 /\ z \in Nat
  BY <1>2, <1>6
<1>10. H!ProbeEnds(t, n, k)
  BY <1>6 DEF H!ProbeEnds
<1> HIDE DEF z, J
<1>11. HasKey(t, n, k) => H!Found(t, n, k)
  <2> SUFFICES ASSUME NEW i \in 0 .. n - 1, t[i].state = "USED", t[i].key = k
               PROVE  H!Found(t, n, k)
    BY DEF HasKey
  <2>1. Reaches(hash, t, n, k, i)
    BY DEF Table
  <2>2. PICK j \in 0 .. n - 1 :
          /\ StepSlot(hash, n, k, j) = i
          /\ \A l \in 0 .. j - 1 : t[StepSlot(hash, n, k, l)].state # "EMPTY"
    BY <2>1 DEF Reaches
  <2>3. j \in Nat /\ s(j) = i
    BY <1>1, <1>2, <2>2
  <2>4. j \in J
    BY <1>3, <2>3 DEF J
  <2>5. z <= j
    BY <1>5, <2>4
  <2>6. CASE z = j
    BY <1>8, <2>3, <2>6
  <2>7. CASE z # j
    <3>1. z \in 0 .. j - 1
      BY <1>9, <2>3, <2>5, <2>7
    <3>2. t[s(z)].state # "EMPTY"
      BY <1>2, <1>9, <2>2, <3>1
    <3> QED BY <1>3, <1>6, <1>8, <3>2
  <2> QED BY <2>6, <2>7
<1>12. H!Found(t, n, k) => HasKey(t, n, k)
  BY <1>8, <1>9 DEF HasKey
<1>13. p = s(IF ~H!Found(t, n, k) /\ passed # {} THEN H!Min(passed) ELSE z)
  BY DEF H!Probe, z
<1> HIDE DEF p, s
<1>14. CASE H!Found(t, n, k)
  <2>1. p = s(z)
    BY <1>13, <1>14
  <2> QED BY <1>8, <1>9, <1>10, <1>11, <1>12, <1>14, <2>1 DEF p
<1>15. CASE ~H!Found(t, n, k) /\ passed = {}
  <2>1. p = s(z)
    BY <1>13, <1>15
  <2>2. t[s(z)].state = "EMPTY"
    BY <1>3, <1>6, <1>8, <1>15
  <2>3. \A l \in 0 .. z - 1 : t[StepSlot(hash, n, k, l)].state # "EMPTY"
    BY <1>2, <1>7
  <2>4. Reaches(hash, t, n, k, p)
    BY <1>2, <1>6, <1>9, <2>1, <2>3 DEF Reaches
  <2> QED BY <1>9, <1>10, <1>11, <1>12, <1>15, <2>1, <2>2, <2>4 DEF p
<1>16. CASE ~H!Found(t, n, k) /\ passed # {}
  <2>1. PICK m : m = H!Min(passed)
    OBVIOUS
  <2>2. m \in passed
    <3>1. passed \subseteq Nat
      BY <1>9
    <3> HIDE DEF passed
    <3> QED BY <1>16, <2>1, <3>1, LeastIsMin
  <2>3. p = s(m)
    BY <1>13, <1>16, <2>1
  <2>4. m \in 0 .. z /\ t[s(m)].state = "TOMB"
    BY <2>2
  <2>5. m \in 0 .. n - 1 /\ m \in Nat /\ \A l \in 0 .. m - 1 : l \in 0 .. z - 1
    BY <1>1, <1>6, <1>9, <2>4
  <2>6. \A l \in 0 .. m - 1 : t[StepSlot(hash, n, k, l)].state # "EMPTY"
    BY <1>2, <1>7, <2>5
  <2>7. s(m) \in 0 .. n - 1 /\ s(m) = StepSlot(hash, n, k, m)
    BY <1>2, <2>5
  <2>8. Reaches(hash, t, n, k, p)
    BY <2>3, <2>5, <2>6, <2>7 DEF Reaches
  <2> QED BY <1>10, <1>11, <1>12, <1>16, <2>3, <2>4, <2>7, <2>8 DEF p
<1> QED BY <1>14, <1>15, <1>16

-----------------------------------------------------------------------------
\* Slots that stay filled keep every entry within reach.
LEMMA ReachesKept ==
    ASSUME NEW f, NEW t, NEW r, NEW n \in Nat \ {0}, NEW k, f[k] \in Nat, NEW i,
           \A j \in 0 .. n - 1 : r[j].state = "EMPTY" => t[j].state = "EMPTY",
           Reaches(f, t, n, k, i)
    PROVE  Reaches(f, r, n, k, i)
<1>1. PICK j \in 0 .. n - 1 :
        /\ StepSlot(f, n, k, j) = i
        /\ \A l \in 0 .. j - 1 : t[StepSlot(f, n, k, l)].state # "EMPTY"
  BY DEF Reaches
<1>2. \A l \in 0 .. j - 1 : StepSlot(f, n, k, l) \in 0 .. n - 1
  <2> SUFFICES ASSUME NEW l \in 0 .. j - 1 PROVE StepSlot(f, n, k, l) \in 0 .. n - 1
    OBVIOUS
  <2>1. f[k] + l \in Nat
    OBVIOUS
  <2> QED BY <2>1, SlotInside DEF StepSlot
<1>3. \A l \in 0 .. j - 1 : r[StepSlot(f, n, k, l)].state # "EMPTY"
  BY <1>1, <1>2
<1> QED BY <1>1, <1>3 DEF Reaches

\* Slot p of table t overwritten with e.
Over(t, p, e) == [t EXCEPT ![p] = e]

\* A used entry written over the key's slot, or, when the key is not there,
\* over a free slot its probe reaches.
LEMMA StoreTable ==
    ASSUME NEW f, NEW t, NEW n, Table(f, t, n),
           NEW k \in Keys, NEW v \in Vals, NEW p \in 0 .. n - 1,
           \/ t[p].state = "USED" /\ t[p].key = k
           \/ ~HasKey(t, n, k) /\ t[p].state # "USED" /\ Reaches(f, t, n, k, p),
           NEW r, r = Over(t, p, H!Used(k, v))
    PROVE  /\ Table(f, r, n)
           /\ \A x, y : Binds(r, n, x, y) <=>
                          (x = k /\ y = v) \/ (x # k /\ Binds(t, n, x, y))
           /\ InTab(r, n, "USED") = InTab(t, n, "USED") \cup {p}
           /\ InTab(r, n, "TOMB") = InTab(t, n, "TOMB") \ {p}
<1>1. n \in Nat \ {0} /\ f \in [Keys -> Nat] /\ t \in [0 .. n - 1 -> Entries]
  BY DEF Table
<1>2. r[p].state = "USED" /\ r[p].key = k /\ r[p].val = v
  BY <1>1 DEF Over, H!Used
<1>3. \A i \in 0 .. n - 1 : i # p => r[i] = t[i]
  BY <1>1 DEF Over
<1>4. r \in [0 .. n - 1 -> Entries]
  BY <1>1 DEF Entries, Over, H!Used
<1>5. \A i \in 0 .. n - 1 : r[i].state = "EMPTY" => t[i].state = "EMPTY"
  BY <1>2, <1>3
<1>6. \A i \in 0 .. n - 1 : t[i].state = "USED" /\ t[i].key = k => i = p
  BY DEF Table, HasKey
<1>7. Reaches(f, t, n, k, p)
  BY DEF Table
<1>8. ASSUME NEW i \in 0 .. n - 1, r[i].state = "USED"
      PROVE  r[i].key \in Keys /\ r[i].val \in Vals /\ Reaches(f, r, n, r[i].key, i)
  <2>1. CASE i = p
    <3>1. Reaches(f, r, n, k, p)
      BY <1>1, <1>5, <1>7, ReachesKept
    <3> QED BY <1>2, <2>1, <3>1
  <2>2. CASE i # p
    <3>1. t[i].state = "USED" /\ r[i] = t[i]
      BY <1>3, <1>8, <2>2
    <3>2. t[i].key \in Keys /\ t[i].val \in Vals /\ Reaches(f, t, n, t[i].key, i)
      BY <3>1 DEF Table
    <3>3. f[t[i].key] \in Nat
      BY <1>1, <3>2
    <3>4. Reaches(f, r, n, t[i].key, i)
      BY <1>1, <1>5, <3>2, <3>3, ReachesKept
    <3> QED BY <3>1, <3>2, <3>4
  <2> QED BY <2>1, <2>2
<1>9. \A i, j \in 0 .. n - 1 :
         r[i].state = "USED" /\ r[j].state = "USED" /\ r[i].key = r[j].key => i = j
  <2>1. \A i, j \in 0 .. n - 1 :
         t[i].state = "USED" /\ t[j].state = "USED" /\ t[i].key = t[j].key => i = j
    BY DEF Table
  <2> QED BY <1>2, <1>3, <1>6, <2>1
<1>10. Table(f, r, n)
  BY <1>1, <1>4, <1>8, <1>9 DEF Table
<1>11. \A x, y : Binds(r, n, x, y) <=> (x = k /\ y = v) \/ (x # k /\ Binds(t, n, x, y))
  BY <1>2, <1>3, <1>6 DEF Binds
<1>12. InTab(r, n, "USED") = InTab(t, n, "USED") \cup {p}
  BY <1>2, <1>3 DEF InTab
<1>13. InTab(r, n, "TOMB") = InTab(t, n, "TOMB") \ {p}
  BY <1>2, <1>3 DEF InTab
<1> QED BY <1>10, <1>11, <1>12, <1>13

\* A tombstone written over the key's slot.
LEMMA DeleteTable ==
    ASSUME NEW f, NEW t, NEW n, Table(f, t, n),
           NEW k \in Keys, NEW p \in 0 .. n - 1, t[p].state = "USED" /\ t[p].key = k,
           NEW r, r = Over(t, p, H!Tomb(k))
    PROVE  /\ Table(f, r, n)
           /\ \A x, y : Binds(r, n, x, y) <=> x # k /\ Binds(t, n, x, y)
           /\ InTab(r, n, "USED") = InTab(t, n, "USED") \ {p}
           /\ InTab(r, n, "TOMB") = InTab(t, n, "TOMB") \cup {p}
<1>1. n \in Nat \ {0} /\ f \in [Keys -> Nat] /\ t \in [0 .. n - 1 -> Entries]
  BY DEF Table
<1>2. r[p].state = "TOMB"
  BY <1>1 DEF Over, H!Tomb
<1>3. \A i \in 0 .. n - 1 : i # p => r[i] = t[i]
  BY <1>1 DEF Over
<1>4. r \in [0 .. n - 1 -> Entries]
  BY <1>1 DEF Entries, Over, H!Tomb
<1>5. \A i \in 0 .. n - 1 : r[i].state = "EMPTY" => t[i].state = "EMPTY"
  BY <1>2, <1>3
<1>6. \A i \in 0 .. n - 1 : t[i].state = "USED" /\ t[i].key = k => i = p
  BY DEF Table
<1>7. ASSUME NEW i \in 0 .. n - 1, r[i].state = "USED"
      PROVE  r[i].key \in Keys /\ r[i].val \in Vals /\ Reaches(f, r, n, r[i].key, i)
  <2>1. t[i].state = "USED" /\ r[i] = t[i]
    BY <1>2, <1>3, <1>7
  <2>2. t[i].key \in Keys /\ t[i].val \in Vals /\ Reaches(f, t, n, t[i].key, i)
    BY <2>1 DEF Table
  <2>3. f[t[i].key] \in Nat
    BY <1>1, <2>2
  <2>4. Reaches(f, r, n, t[i].key, i)
    BY <1>1, <1>5, <2>2, <2>3, ReachesKept
  <2> QED BY <2>1, <2>2, <2>4
<1>8. \A i, j \in 0 .. n - 1 :
         r[i].state = "USED" /\ r[j].state = "USED" /\ r[i].key = r[j].key => i = j
  <2>1. \A i, j \in 0 .. n - 1 :
         t[i].state = "USED" /\ t[j].state = "USED" /\ t[i].key = t[j].key => i = j
    BY DEF Table
  <2> QED BY <1>2, <1>3, <2>1
<1>9. Table(f, r, n)
  BY <1>1, <1>4, <1>7, <1>8 DEF Table
<1>10. \A x, y : Binds(r, n, x, y) <=> x # k /\ Binds(t, n, x, y)
  BY <1>2, <1>3, <1>6 DEF Binds
<1>11. InTab(r, n, "USED") = InTab(t, n, "USED") \ {p}
  BY <1>2, <1>3 DEF InTab
<1>12. InTab(r, n, "TOMB") = InTab(t, n, "TOMB") \cup {p}
  BY <1>2, <1>3 DEF InTab
<1> QED BY <1>9, <1>10, <1>11, <1>12

\* calloc's table.
LEMMA NewTable ==
    ASSUME NEW n \in Nat, NEW f \in [Keys -> Nat]
    PROVE  /\ \A i \in 0 .. n - 1 : H!NewTab(n)[i].state = "EMPTY"
           /\ n # 0 => Table(f, H!NewTab(n), n)
           /\ InTab(H!NewTab(n), n, "USED") = {}
           /\ InTab(H!NewTab(n), n, "TOMB") = {}
           /\ \A x, y : ~Binds(H!NewTab(n), n, x, y)
<1>1. \A i \in 0 .. n - 1 : H!NewTab(n)[i] = [state |-> "EMPTY", key |-> NoKey, val |-> NoVal]
  BY DEF H!NewTab, H!Empty
<1>2. H!NewTab(n) \in [0 .. n - 1 -> Entries]
  BY DEF H!NewTab, H!Empty, Entries
<1>3. \A i \in 0 .. n - 1 : H!NewTab(n)[i].state = "EMPTY"
  BY <1>1
<1> QED BY <1>2, <1>3 DEF Table, InTab, Binds
-----------------------------------------------------------------------------
\* Slots are used, tombstones or empty: when the first two do not add up to
\* the capacity, an empty one is left.
LEMMA RoomLeft ==
    ASSUME NEW f, NEW t, NEW n, Table(f, t, n)
    PROVE  /\ IsFiniteSet(InTab(t, n, "USED")) /\ IsFiniteSet(InTab(t, n, "TOMB"))
           /\ Cardinality(InTab(t, n, "USED")) \in Nat
           /\ Cardinality(InTab(t, n, "TOMB")) \in Nat
           /\ Cardinality(InTab(t, n, "USED")) + Cardinality(InTab(t, n, "TOMB")) < n
                => HasRoom(t, n)
<1> DEFINE U == InTab(t, n, "USED")
           B == InTab(t, n, "TOMB")
<1>1. n \in Nat \ {0} /\ t \in [0 .. n - 1 -> Entries]
  BY DEF Table
<1>2. IsFiniteSet(0 .. n - 1) /\ Cardinality(0 .. n - 1) = n
  <2>1. Cardinality(0 .. n - 1) = IF 0 > n - 1 THEN 0 ELSE (n - 1) - 0 + 1
    BY <1>1, FS_Interval
  <2> QED BY <1>1, <2>1, FS_Interval
<1>3. U \subseteq 0 .. n - 1 /\ B \subseteq 0 .. n - 1 /\ U \cap B = {}
  BY DEF InTab
<1>4. IsFiniteSet(U) /\ IsFiniteSet(B) /\ Cardinality(U) \in Nat /\ Cardinality(B) \in Nat
  BY <1>2, <1>3, FS_Subset, FS_CardinalityType
<1>5. Cardinality(U \cup B) = Cardinality(U) + Cardinality(B)
  <2>1. Cardinality(U \cap B) = 0
    BY <1>3, FS_EmptySet
  <2>2. Cardinality(U \cup B) = Cardinality(U) + Cardinality(B) - Cardinality(U \cap B)
    BY <1>4, FS_Union
  <2> HIDE DEF U, B
  <2> QED BY <1>4, <2>1, <2>2
<1>6. ASSUME Cardinality(U) + Cardinality(B) < n
      PROVE  HasRoom(t, n)
  <2>1. U \cup B # 0 .. n - 1
    <3>1. PICK a, b : a = Cardinality(U) /\ b = Cardinality(B)
      OBVIOUS
    <3>2. U \cup B = 0 .. n - 1 => n = a + b
      BY <1>2, <1>5, <3>1
    <3>3. a + b < n /\ a + b \in Nat /\ n \in Nat
      BY <1>1, <1>4, <1>6, <3>1
    <3> QED BY <3>2, <3>3
  <2>2. PICK i \in 0 .. n - 1 : i \notin U \cup B
    BY <1>3, <2>1
  <2>3. t[i].state \in {"EMPTY", "USED", "TOMB"}
    BY <1>1, <2>2 DEF Entries
  <2> QED BY <2>2, <2>3 DEF InTab, HasRoom
<1> QED BY <1>4, <1>6

\* hmap_put after the load check: the binding is there, the counters follow.
LEMMA PutStep ==
    ASSUME NEW t, NEW n, Table(hash, t, n), HasRoom(t, n), NEW k \in Keys, NEW v \in Vals,
           NEW r, r = Over(t, H!Probe(t, n, k), H!Used(k, v))
    PROVE  /\ Table(hash, r, n)
           /\ \A x, y : Binds(r, n, x, y) <=>
                          (x = k /\ y = v) \/ (x # k /\ Binds(t, n, x, y))
           /\ Cardinality(InTab(r, n, "USED")) =
                IF H!Found(t, n, k) THEN Cardinality(InTab(t, n, "USED"))
                                    ELSE Cardinality(InTab(t, n, "USED")) + 1
           /\ Cardinality(InTab(r, n, "TOMB")) =
                IF ~H!Found(t, n, k) /\ t[H!Probe(t, n, k)].state = "TOMB"
                  THEN Cardinality(InTab(t, n, "TOMB")) - 1
                  ELSE Cardinality(InTab(t, n, "TOMB"))
           /\ InTab(t, n, "TOMB") = {} => InTab(r, n, "TOMB") = {}
<1>1. PICK p : p = H!Probe(t, n, k)
  OBVIOUS
<1>2. /\ H!Found(t, n, k) <=> HasKey(t, n, k)
      /\ p \in 0 .. n - 1
      /\ H!Found(t, n, k) => t[p].state = "USED" /\ t[p].key = k
      /\ ~H!Found(t, n, k) => t[p].state # "USED" /\ Reaches(hash, t, n, k, p)
  BY <1>1, ProbeFinds
<1>3. r = Over(t, p, H!Used(k, v))
  BY <1>1
<1>4. /\ Table(hash, r, n)
      /\ \A x, y : Binds(r, n, x, y) <=> (x = k /\ y = v) \/ (x # k /\ Binds(t, n, x, y))
      /\ InTab(r, n, "USED") = InTab(t, n, "USED") \cup {p}
      /\ InTab(r, n, "TOMB") = InTab(t, n, "TOMB") \ {p}
  BY <1>2, <1>3, StoreTable
<1>5. IsFiniteSet(InTab(t, n, "USED")) /\ IsFiniteSet(InTab(t, n, "TOMB"))
  BY RoomLeft
<1>6. p \in InTab(t, n, "USED") <=> H!Found(t, n, k)
  BY <1>2 DEF InTab
<1>7. p \in InTab(t, n, "TOMB") <=> ~H!Found(t, n, k) /\ t[p].state = "TOMB"
  BY <1>2 DEF InTab
<1>8. Cardinality(InTab(r, n, "USED")) =
        IF p \in InTab(t, n, "USED") THEN Cardinality(InTab(t, n, "USED"))
                                     ELSE Cardinality(InTab(t, n, "USED")) + 1
  BY <1>4, <1>5, FS_AddElement
<1>9. Cardinality(InTab(r, n, "TOMB")) =
        IF p \in InTab(t, n, "TOMB") THEN Cardinality(InTab(t, n, "TOMB")) - 1
                                     ELSE Cardinality(InTab(t, n, "TOMB"))
  BY <1>4, <1>5, FS_RemoveElement
<1>10. InTab(t, n, "TOMB") = {} => InTab(r, n, "TOMB") = {}
  BY <1>4
<1> QED BY <1>1, <1>4, <1>6, <1>7, <1>8, <1>9, <1>10

\* hmap_del of a key that is there.
LEMMA DelStep ==
    ASSUME NEW t, NEW n, Table(hash, t, n), HasRoom(t, n), NEW k \in Keys, H!Found(t, n, k),
           NEW r, r = Over(t, H!Probe(t, n, k), H!Tomb(k))
    PROVE  /\ Table(hash, r, n)
           /\ \A x, y : Binds(r, n, x, y) <=> x # k /\ Binds(t, n, x, y)
           /\ Cardinality(InTab(r, n, "USED")) = Cardinality(InTab(t, n, "USED")) - 1
           /\ Cardinality(InTab(r, n, "TOMB")) = Cardinality(InTab(t, n, "TOMB")) + 1
<1>1. PICK p : p = H!Probe(t, n, k)
  OBVIOUS
<1>2. p \in 0 .. n - 1 /\ t[p].state = "USED" /\ t[p].key = k
  BY <1>1, ProbeFinds
<1>3. r = Over(t, p, H!Tomb(k))
  BY <1>1
<1>4. /\ Table(hash, r, n)
      /\ \A x, y : Binds(r, n, x, y) <=> x # k /\ Binds(t, n, x, y)
      /\ InTab(r, n, "USED") = InTab(t, n, "USED") \ {p}
      /\ InTab(r, n, "TOMB") = InTab(t, n, "TOMB") \cup {p}
  BY <1>2, <1>3, DeleteTable
<1>5. IsFiniteSet(InTab(t, n, "USED")) /\ IsFiniteSet(InTab(t, n, "TOMB"))
  BY RoomLeft
<1>6. p \in InTab(t, n, "USED") /\ p \notin InTab(t, n, "TOMB")
  BY <1>2 DEF InTab
<1>7. Cardinality(InTab(r, n, "USED")) = Cardinality(InTab(t, n, "USED")) - 1
  BY <1>4, <1>5, <1>6, FS_RemoveElement
<1>8. Cardinality(InTab(r, n, "TOMB")) = Cardinality(InTab(t, n, "TOMB")) + 1
  BY <1>4, <1>5, <1>6, FS_AddElement
<1> QED BY <1>4, <1>7, <1>8

-----------------------------------------------------------------------------
(***************************************************************************)
(* hmap_rehash.  Its table after i slots is a recursive function; that one *)
(* exists, and what it holds, follow by induction (LeastNumber).           *)
(***************************************************************************)

\* One turn of the loop: the entry e moved into table u of m slots.
Moved(u, m, e) ==
    IF e.state = "USED" THEN Over(u, H!Probe(u, m, e.key), e) ELSE u

\* g gives the new table after every number of slots up to b.
Loop(g, t, b, m) ==
    g = [i \in 0 .. b |-> IF i = 0 THEN H!NewTab(m) ELSE Moved(g[i - 1], m, t[i - 1])]

LEMMA LoopExists ==
    ASSUME NEW t, NEW m, NEW b \in Nat
    PROVE  \E g : Loop(g, t, b, m)
<1> DEFINE Bad == {x \in Nat : ~\E g : Loop(g, t, x, m)}
<1> SUFFICES ASSUME Bad # {} PROVE FALSE
  OBVIOUS
<1>1. PICK x \in Bad : \A y \in Bad : x <= y
  BY LeastNumber
<1>2. CASE x = 0
  <2>1. PICK g : g = [i \in 0 .. 0 |-> H!NewTab(m)]
    OBVIOUS
  <2>2. Loop(g, t, 0, m)
    BY <2>1 DEF Loop
  <2> QED BY <1>1, <1>2, <2>2
<1>3. CASE x # 0
  <2>1. x - 1 \in Nat /\ ~(x <= x - 1)
    BY <1>1, <1>3
  <2>2. PICK g : Loop(g, t, x - 1, m)
    BY <1>1, <2>1
  <2>3. PICK h : h = [i \in 0 .. x |-> IF i = x THEN Moved(g[x - 1], m, t[x - 1]) ELSE g[i]]
    OBVIOUS
  <2>4. \A i \in 0 .. x - 1 :
          g[i] = IF i = 0 THEN H!NewTab(m) ELSE Moved(g[i - 1], m, t[i - 1])
    BY <1>1, <2>2 DEF Loop
  <2>5. \A i \in 0 .. x - 1 : h[i] = g[i]
    BY <1>1, <2>3
  <2>6. \A i \in 0 .. x :
          h[i] = IF i = 0 THEN H!NewTab(m) ELSE Moved(h[i - 1], m, t[i - 1])
    <3> SUFFICES ASSUME NEW i \in 0 .. x
                 PROVE  h[i] = IF i = 0 THEN H!NewTab(m) ELSE Moved(h[i - 1], m, t[i - 1])
      OBVIOUS
    <3>1. CASE i = x
      <4>1. h[x] = Moved(g[x - 1], m, t[x - 1]) /\ x - 1 \in 0 .. x - 1
        BY <1>1, <1>3, <2>3
      <4>2. h[x] = Moved(h[x - 1], m, t[x - 1])
        BY <2>5, <4>1
      <4> QED BY <1>3, <3>1, <4>2
    <3>2. CASE i # x
      <4>1. i \in 0 .. x - 1 /\ (i # 0 => i - 1 \in 0 .. x - 1)
        BY <1>1, <3>2
      <4> QED BY <2>4, <2>5, <4>1
    <3> QED BY <3>1, <3>2
  <2>7. h = [i \in 0 .. x |-> h[i]]
    BY <2>3
  <2>8. Loop(h, t, x, m)
    BY <2>6, <2>7 DEF Loop
  <2> QED BY <1>1, <2>8
<1> QED BY <1>2, <1>3

\* The table hmap_rehash ends with is the last of the loop's.
LEMMA RehashLoop ==
    ASSUME NEW t, NEW m, NEW n \in Nat
    PROVE  \E g : Loop(g, t, n, m) /\ H!Rehashed(t, n, m) = g[n]
<1>1. PICK g : g = CHOOSE h : Loop(h, t, n, m)
  OBVIOUS
<1>2. Loop(g, t, n, m)
  BY <1>1, LoopExists
<1>3. H!Rehashed(t, n, m) = g[n]
  BY <1>1 DEF H!Rehashed, Loop, Moved, Over
<1> QED BY <1>2, <1>3

\* The new table holds the same bindings, and no tombstones.
LEMMA RehashKeeps ==
    ASSUME NEW t, NEW n, Table(hash, t, n),
           NEW m \in Nat, Cardinality(InTab(t, n, "USED")) < m,
           NEW r, r = H!Rehashed(t, n, m)
    PROVE  /\ Table(hash, r, m)
           /\ InTab(r, m, "TOMB") = {}
           /\ Cardinality(InTab(r, m, "USED")) = Cardinality(InTab(t, n, "USED"))
           /\ \A x, y : Binds(r, m, x, y) <=> Binds(t, n, x, y)
<1> DEFINE Filled(u, i) ==
             /\ Table(hash, u, m)
             /\ InTab(u, m, "TOMB") = {}
             /\ Cardinality(InTab(u, m, "USED")) = Cardinality(InTab(t, i, "USED"))
             /\ \A x, y : Binds(u, m, x, y) <=> Binds(t, i, x, y)
<1>1. n \in Nat \ {0} /\ hash \in [Keys -> Nat] /\ t \in [0 .. n - 1 -> Entries]
  BY DEF Table
<1>2. PICK g : Loop(g, t, n, m) /\ r = g[n]
  BY <1>1, RehashLoop
<1>3. \A i \in 0 .. n : g[i] = IF i = 0 THEN H!NewTab(m) ELSE Moved(g[i - 1], m, t[i - 1])
  BY <1>2 DEF Loop
<1>4. \A i \in 0 .. n : /\ IsFiniteSet(InTab(t, i, "USED"))
                        /\ Cardinality(InTab(t, i, "USED")) \in Nat
                        /\ Cardinality(InTab(t, i, "USED")) < m
  <2> SUFFICES ASSUME NEW i \in 0 .. n
               PROVE  /\ IsFiniteSet(InTab(t, i, "USED"))
                      /\ Cardinality(InTab(t, i, "USED")) \in Nat
                      /\ Cardinality(InTab(t, i, "USED")) < m
    OBVIOUS
  <2>1. InTab(t, i, "USED") \subseteq InTab(t, n, "USED")
    BY <1>1 DEF InTab
  <2>2. IsFiniteSet(InTab(t, n, "USED")) /\ Cardinality(InTab(t, n, "USED")) \in Nat
    BY RoomLeft
  <2>3. /\ IsFiniteSet(InTab(t, i, "USED"))
        /\ Cardinality(InTab(t, i, "USED")) <= Cardinality(InTab(t, n, "USED"))
    BY <2>1, <2>2, FS_Subset
  <2>4. Cardinality(InTab(t, i, "USED")) \in Nat
    BY <2>3, FS_CardinalityType
  <2> QED BY <2>2, <2>3, <2>4
<1>5. m # 0
  BY <1>1, <1>4
<1> DEFINE Bad == {i \in 0 .. n : ~Filled(g[i], i)}
<1>6. Bad = {}
  <2> SUFFICES ASSUME Bad # {} PROVE FALSE
    OBVIOUS
  <2>1. PICK x \in Bad : \A y \in Bad : x <= y
    <3>1. Bad \subseteq Nat
      BY <1>1
    <3> HIDE DEF Bad
    <3> QED BY <3>1, LeastNumber
  <2>2. x \in 0 .. n /\ ~Filled(g[x], x)
    BY <2>1
  <2>3. CASE x = 0
    <3>1. g[0] = H!NewTab(m)
      BY <1>1, <1>3
    <3>2. /\ Table(hash, g[0], m) /\ InTab(g[0], m, "TOMB") = {}
          /\ InTab(g[0], m, "USED") = {} /\ \A a, b : ~Binds(g[0], m, a, b)
      BY <1>1, <1>5, <3>1, NewTable
    <3>3. InTab(t, 0, "USED") = {} /\ \A a, b : ~Binds(t, 0, a, b)
      BY DEF InTab, Binds
    <3> QED BY <2>2, <2>3, <3>2, <3>3
  <2>4. CASE x # 0
    <3>1. x - 1 \in 0 .. n - 1 /\ x - 1 \in 0 .. n /\ ~(x <= x - 1)
      BY <1>1, <2>2, <2>4
    <3>2. x - 1 \notin Bad
      BY <2>1, <3>1
    <3>3. PICK w, u, e, k, v : /\ w = x - 1 /\ u = g[w] /\ e = t[w]
                               /\ k = e.key /\ v = e.val
      OBVIOUS
    <3>4. Filled(u, w)
      BY <3>1, <3>2, <3>3
    <3>5. g[x] = Moved(u, m, e)
      BY <1>3, <2>2, <2>4, <3>3
    <3>6. w \in 0 .. n - 1 /\ w \in 0 .. n /\ e \in Entries
      BY <1>1, <3>1, <3>3
    <3>7. \A i : i \in 0 .. x - 1 <=> i \in 0 .. w - 1 \/ i = w
      BY <1>1, <2>2, <2>4, <3>3
    <3>8. CASE e.state # "USED"
      <4>1. g[x] = u
        BY <3>5, <3>8 DEF Moved
      <4>2. InTab(t, x, "USED") = InTab(t, w, "USED")
        BY <3>3, <3>7, <3>8 DEF InTab
      <4>3. \A a, b : Binds(t, x, a, b) <=> Binds(t, w, a, b)
        BY <3>3, <3>7, <3>8 DEF Binds
      <4> QED BY <2>2, <3>4, <4>1, <4>2, <4>3
    <3>9. CASE e.state = "USED"
      <4>1. k \in Keys /\ v \in Vals /\ e = H!Used(k, v)
        <5>1. k \in Keys /\ v \in Vals
          BY <3>3, <3>6, <3>9 DEF Table
        <5>2. e = H!Used(k, v)
          BY <3>3, <3>6, <3>9 DEF Entries, H!Used
        <5> QED BY <5>1, <5>2
      <4>2. g[x] = Over(u, H!Probe(u, m, k), H!Used(k, v))
        BY <3>3, <3>5, <3>9, <4>1 DEF Moved
      <4>3. \A b : ~Binds(t, w, k, b)
        <5> SUFFICES ASSUME NEW i \in 0 .. w - 1, t[i].state = "USED", t[i].key = k
                     PROVE  FALSE
          BY DEF Binds
        <5>1. i \in 0 .. n - 1 /\ i # w
          BY <1>1, <3>6
        <5> QED BY <3>3, <3>6, <3>9, <5>1 DEF Table
      <4>4. ~HasKey(u, m, k)
        <5>1. HasKey(u, m, k) => \E b : Binds(u, m, k, b)
          BY DEF HasKey, Binds
        <5> QED BY <3>4, <4>3, <5>1
      <4>5. HasRoom(u, m)
        <5>1. Cardinality(InTab(u, m, "TOMB")) = 0
          BY <3>4, FS_EmptySet
        <5>2. PICK c : c = Cardinality(InTab(u, m, "USED"))
          OBVIOUS
        <5>3. c \in Nat /\ c < m
          BY <1>4, <3>4, <3>6, <5>2
        <5>4. c + 0 < m
          BY <5>3
        <5> QED BY <3>4, <5>1, <5>2, <5>4, RoomLeft
      <4>6. ~H!Found(u, m, k)
        BY <3>4, <4>1, <4>4, <4>5, ProbeFinds
      <4>7. /\ Table(hash, g[x], m)
            /\ \A a, b : Binds(g[x], m, a, b) <=>
                           (a = k /\ b = v) \/ (a # k /\ Binds(u, m, a, b))
            /\ Cardinality(InTab(g[x], m, "USED")) = Cardinality(InTab(u, m, "USED")) + 1
            /\ InTab(g[x], m, "TOMB") = {}
        BY <3>4, <4>1, <4>2, <4>5, <4>6, PutStep
      <4>8. Cardinality(InTab(t, x, "USED")) = Cardinality(InTab(t, w, "USED")) + 1
        <5>1. InTab(t, x, "USED") = InTab(t, w, "USED") \cup {w}
          BY <3>3, <3>7, <3>9 DEF InTab
        <5>2. w \notin InTab(t, w, "USED")
          BY <1>1, <3>6 DEF InTab
        <5> QED BY <1>4, <3>6, <5>1, <5>2, FS_AddElement
      <4>9. \A a, b : Binds(t, x, a, b) <=> (a = k /\ b = v) \/ Binds(t, w, a, b)
        BY <3>3, <3>7, <3>9 DEF Binds
      <4>10. \A a, b : Binds(g[x], m, a, b) <=> Binds(t, x, a, b)
        BY <3>4, <4>3, <4>7, <4>9
      <4> QED BY <2>2, <3>4, <4>7, <4>8, <4>10
    <3> QED BY <3>8, <3>9
  <2> QED BY <2>3, <2>4
<1>7. Filled(g[n], n)
  <2>1. n \in 0 .. n
    BY <1>1
  <2> HIDE DEF Filled
  <2> QED BY <1>6, <2>1
<1> QED BY <1>2, <1>7

-----------------------------------------------------------------------------
(***************************************************************************)
(* The invariant: an allocated table is one in which every entry is        *)
(* reached, the counters count, and together they leave a slot empty.      *)
(***************************************************************************)
Counted(t, n, c, d) ==
    /\ Table(hash, t, n)
    /\ c = Cardinality(InTab(t, n, "USED"))
    /\ d = Cardinality(InTab(t, n, "TOMB"))
    /\ c + d < n

MapInv ==
    /\ hash \in [Keys -> Nat]
    /\ live \in BOOLEAN
    /\ live => Counted(tab, cap, count, tombs)
    /\ ~live => tab = H!NewTab(0)

LEMMA CountedRoom ==
    ASSUME NEW t, NEW n, NEW c, NEW d, Counted(t, n, c, d)
    PROVE  /\ Table(hash, t, n) /\ HasRoom(t, n)
           /\ n \in Nat \ {0} /\ c \in Nat /\ d \in Nat /\ c + d < n
<1>1. Table(hash, t, n) /\ HasRoom(t, n) /\ c \in Nat /\ d \in Nat /\ c + d < n
  BY RoomLeft DEF Counted
<1> QED BY <1>1 DEF Table

\* The load check leaves a slot for one more.
LEMMA LoadCheck ==
    ASSUME NEW c \in Nat, NEW d \in Nat, NEW n \in Nat \ {0}
    PROVE  /\ ~H!Loaded(c, d, n) => (c + 1) + d < n
           /\ H!Grown(n) \in Nat \ {0}
           /\ c < n => c < H!Grown(n) /\ c + 1 < H!Grown(n)
           /\ c < n => ~H!Loaded(c, 0, H!Grown(n))
BY DEF H!Loaded, H!Grown

\* Every hmap_put that does not fail, from the table it stores into.
LEMMA StoreStep ==
    ASSUME NEW t, NEW n, NEW c, NEW d, Counted(t, n, c, d), (c + 1) + d < n,
           NEW k \in Keys, NEW v \in Vals, live, MapInv, H!Store(t, n, c, d, k, v)
    PROVE  /\ MapInv'
           /\ \A x, y : Binds(tab', cap', x, y) <=>
                          (x = k /\ y = v) \/ (x # k /\ Binds(t, n, x, y))
<1>1. /\ tab' = Over(t, H!Probe(t, n, k), H!Used(k, v)) /\ cap' = n
      /\ count' = IF H!Found(t, n, k) THEN c ELSE c + 1
      /\ tombs' = IF ~H!Found(t, n, k) /\ t[H!Probe(t, n, k)].state = "TOMB"
                    THEN d - 1 ELSE d
      /\ hash' = hash /\ live' = live
  BY DEF H!Store, Over
<1>2. Table(hash, t, n) /\ HasRoom(t, n) /\ n \in Nat \ {0} /\ c \in Nat /\ d \in Nat
  BY CountedRoom
<1>3. c = Cardinality(InTab(t, n, "USED")) /\ d = Cardinality(InTab(t, n, "TOMB"))
  BY DEF Counted
<1>4. /\ Table(hash, tab', n)
      /\ \A x, y : Binds(tab', n, x, y) <=>
                     (x = k /\ y = v) \/ (x # k /\ Binds(t, n, x, y))
      /\ Cardinality(InTab(tab', n, "USED")) = count'
      /\ Cardinality(InTab(tab', n, "TOMB")) = tombs'
  BY <1>1, <1>2, <1>3, PutStep
<1>5. (count' = c \/ count' = c + 1) /\ (tombs' = d \/ tombs' = d - 1)
  BY <1>1
<1>6. count' + tombs' < n
  <2>1. PICK a, b : a = count' /\ b = tombs'
    OBVIOUS
  <2>2. (a = c \/ a = c + 1) /\ (b = d \/ b = d - 1)
    BY <1>5, <2>1
  <2>3. a + b < n
    BY <1>2, <2>2
  <2> QED BY <2>1, <2>3
<1>7. Counted(tab, cap, count, tombs)'
  BY <1>1, <1>4, <1>6 DEF Counted
<1> QED BY <1>1, <1>4, <1>7 DEF MapInv

LEMMA InitMapInv == H!Init => MapInv
<1> SUFFICES ASSUME H!Init PROVE MapInv
  OBVIOUS
<1>1. hash \in [Keys -> HashValues] /\ live = FALSE /\ tab = H!NewTab(0)
  BY DEF H!Init
<1>2. hash \in [Keys -> Nat]
  BY <1>1, CapAssumption
<1> QED BY <1>1, <1>2 DEF MapInv

\* hmap_rehash before the store.
LEMMA RehashStep ==
    ASSUME NEW t, NEW n, NEW c, NEW d, Counted(t, n, c, d),
           NEW r, r = H!Rehashed(t, n, H!Grown(n))
    PROVE  /\ Counted(r, H!Grown(n), c, 0) /\ (c + 1) + 0 < H!Grown(n)
           /\ \A x, y : Binds(r, H!Grown(n), x, y) <=> Binds(t, n, x, y)
<1>1. PICK m : m = H!Grown(n)
  OBVIOUS
<1>2. Table(hash, t, n) /\ n \in Nat \ {0} /\ c \in Nat /\ d \in Nat /\ c + d < n
  BY CountedRoom
<1>3. c < n
  BY <1>2
<1>4. m \in Nat /\ c < m /\ c + 1 < m
  BY <1>1, <1>2, <1>3, LoadCheck
<1>5. c = Cardinality(InTab(t, n, "USED"))
  BY DEF Counted
<1>6. /\ Table(hash, r, m)
      /\ InTab(r, m, "TOMB") = {}
      /\ Cardinality(InTab(r, m, "USED")) = c
      /\ \A x, y : Binds(r, m, x, y) <=> Binds(t, n, x, y)
  BY <1>1, <1>2, <1>4, <1>5, RehashKeeps
<1>7. Cardinality(InTab(r, m, "TOMB")) = 0
  BY <1>6, FS_EmptySet
<1>8. c + 0 < m /\ (c + 1) + 0 < m
  BY <1>2, <1>4
<1> QED BY <1>1, <1>6, <1>7, <1>8 DEF Counted

LEMMA DeleteStep ==
    ASSUME NEW k \in Keys, MapInv, H!Del(k)
    PROVE  /\ MapInv'
           /\ \A x, y : Binds(tab', cap', x, y) <=> x # k /\ Binds(tab, cap, x, y)
<1>1. /\ live /\ H!Found(tab, cap, k)
      /\ tab' = Over(tab, H!Probe(tab, cap, k), H!Tomb(k))
      /\ count' = count - 1 /\ tombs' = tombs + 1
      /\ hash' = hash /\ live' = live /\ cap' = cap
  BY DEF H!Del, Over
<1>2. Counted(tab, cap, count, tombs)
  BY <1>1 DEF MapInv
<1>3. /\ Table(hash, tab, cap) /\ HasRoom(tab, cap)
      /\ cap \in Nat \ {0} /\ count \in Nat /\ tombs \in Nat /\ count + tombs < cap
  BY <1>2, CountedRoom
<1>4. count = Cardinality(InTab(tab, cap, "USED")) /\ tombs = Cardinality(InTab(tab, cap, "TOMB"))
  BY <1>2 DEF Counted
<1>5. /\ Table(hash, tab', cap)
      /\ \A x, y : Binds(tab', cap, x, y) <=> x # k /\ Binds(tab, cap, x, y)
      /\ Cardinality(InTab(tab', cap, "USED")) = count'
      /\ Cardinality(InTab(tab', cap, "TOMB")) = tombs'
  BY <1>1, <1>3, <1>4, DelStep
<1>6. count' + tombs' < cap
  BY <1>1, <1>3
<1>7. Counted(tab, cap, count, tombs)'
  BY <1>1, <1>5, <1>6 DEF Counted
<1> QED BY <1>1, <1>5, <1>7 DEF MapInv

LEMMA MapStep == MapInv /\ [H!Next]_(H!vars) => MapInv'
<1> SUFFICES ASSUME MapInv, [H!Next]_(H!vars) PROVE MapInv'
  OBVIOUS
<1>1. ASSUME NEW ok \in BOOLEAN, H!InitMap(ok) PROVE MapInv'
  <2>1. live' = ok /\ tab' = H!NewTab(IF ok THEN InitCap ELSE 0) /\ cap' = InitCap
        /\ count' = 0 /\ tombs' = 0 /\ hash' = hash
    BY <1>1 DEF H!InitMap
  <2>2. InitCap \in Nat \ {0} /\ hash \in [Keys -> Nat]
    BY CapAssumption DEF MapInv
  <2>3. CASE ok
    <3>1. Table(hash, tab', InitCap) /\ InTab(tab', InitCap, "USED") = {}
          /\ InTab(tab', InitCap, "TOMB") = {}
      BY <2>1, <2>2, <2>3, NewTable
    <3>2. Counted(tab, cap, count, tombs)'
      BY <2>1, <2>2, <3>1, FS_EmptySet DEF Counted
    <3> QED BY <2>1, <2>2, <2>3, <3>2 DEF MapInv
  <2>4. CASE ~ok
    BY <2>1, <2>2, <2>4 DEF MapInv
  <2> QED BY <2>3, <2>4
<1>2. ASSUME NEW k \in Keys, NEW v \in Vals, H!PutInPlace(k, v) PROVE MapInv'
  <2>1. /\ live /\ ~H!Loaded(count, tombs, cap) /\ H!Store(tab, cap, count, tombs, k, v)
        /\ Counted(tab, cap, count, tombs)
    BY <1>2 DEF H!PutInPlace, MapInv
  <2>2. (count + 1) + tombs < cap
    BY <2>1, CountedRoom, LoadCheck
  <2> QED BY <2>1, <2>2, StoreStep
<1>3. ASSUME NEW k \in Keys, NEW v \in Vals, H!PutRehash(k, v) PROVE MapInv'
  <2>1. PICK r : r = H!Rehashed(tab, cap, H!Grown(cap))
    OBVIOUS
  <2>2. /\ live /\ Counted(tab, cap, count, tombs)
        /\ H!Store(r, H!Grown(cap), count, 0, k, v)
    BY <1>3, <2>1 DEF H!PutRehash, MapInv
  <2>3. Counted(r, H!Grown(cap), count, 0) /\ (count + 1) + 0 < H!Grown(cap)
    BY <2>1, <2>2, RehashStep
  <2> QED BY <2>2, <2>3, StoreStep
<1>4. ASSUME NEW k \in Keys, H!Del(k) PROVE MapInv'
  BY <1>4, DeleteStep
<1>5. ASSUME H!Free PROVE MapInv'
  BY <1>5 DEF H!Free, MapInv
<1>6. ASSUME UNCHANGED <<hash, live, tab, cap, count, tombs>> PROVE MapInv'
  BY <1>6 DEF MapInv, Counted
<1>7. ASSUME NEW k \in Keys, NEW v \in Vals, H!PutFail(k, v) PROVE MapInv'
  BY <1>6, <1>7 DEF H!PutFail
<1>8. ASSUME NEW k \in Keys, H!Get(k) \/ H!DelMissing(k) PROVE MapInv'
  BY <1>6, <1>8 DEF H!Get, H!DelMissing
<1>9. CASE UNCHANGED H!vars
  BY <1>6, <1>9 DEF H!vars
<1> QED BY <1>1, <1>2, <1>3, <1>4, <1>5, <1>7, <1>8, <1>9 DEF H!Next

\* In every state of a run of hashmap.h the table is as the probe needs it.
THEOREM MapAlwaysSound == H!Spec => []MapInv
<1>1. H!Spec => H!Init /\ [][H!Next]_(H!vars)
  BY DEF H!Spec
<1> QED BY <1>1, InitMapInv, MapStep, PTL

-----------------------------------------------------------------------------
(***************************************************************************)
(* The refinement: the contents of the table, step by step.                *)
(***************************************************************************)
UsedSlots(t) == {i \in DOMAIN t : t[i].state = "USED"}
ContentsOf(t) ==
    [k \in Keys |->
        IF \E i \in UsedSlots(t) : t[i].key = k
          THEN t[CHOOSE i \in UsedSlots(t) : t[i].key = k].val
          ELSE NoVal]

LEMMA ContentsNow == H!Contents = ContentsOf(tab) /\ (H!Contents)' = ContentsOf(tab')
BY DEF H!Contents, H!InState, ContentsOf, UsedSlots

\* The contents say what the used entries bind, and nothing else.
LEMMA ContentsRight ==
    ASSUME NEW f, NEW t, NEW n, Table(f, t, n)
    PROVE  /\ ContentsOf(t) \in [Keys -> Vals \cup {NoVal}]
           /\ \A k \in Keys, v \in Vals : ContentsOf(t)[k] = v <=> Binds(t, n, k, v)
<1>1. t \in [0 .. n - 1 -> Entries]
  BY DEF Table
<1>2. UsedSlots(t) = InTab(t, n, "USED")
  BY <1>1 DEF UsedSlots, InTab
<1>3. ASSUME NEW k \in Keys
      PROVE  /\ ContentsOf(t)[k] \in Vals \cup {NoVal}
             /\ \A v \in Vals : ContentsOf(t)[k] = v <=> Binds(t, n, k, v)
  <2>1. CASE \E i \in UsedSlots(t) : t[i].key = k
    <3>1. PICK i : i = CHOOSE j \in UsedSlots(t) : t[j].key = k
      OBVIOUS
    <3>2. i \in UsedSlots(t) /\ t[i].key = k
      BY <2>1, <3>1
    <3>3. ContentsOf(t)[k] = t[i].val
      BY <2>1, <3>1 DEF ContentsOf
    <3>4. i \in 0 .. n - 1 /\ t[i].state = "USED"
      BY <1>2, <3>2 DEF InTab
    <3>5. t[i].val \in Vals
      BY <3>4 DEF Table
    <3>6. \A j \in 0 .. n - 1 : t[j].state = "USED" /\ t[j].key = k => j = i
      BY <3>2, <3>4 DEF Table
    <3>7. \A v : Binds(t, n, k, v) <=> t[i].val = v
      BY <3>2, <3>4, <3>6 DEF Binds
    <3> QED BY <3>3, <3>5, <3>7
  <2>2. CASE ~\E i \in UsedSlots(t) : t[i].key = k
    <3>1. ContentsOf(t)[k] = NoVal
      BY <2>2 DEF ContentsOf
    <3>2. \A v : ~Binds(t, n, k, v)
      BY <1>2, <2>2 DEF Binds, InTab
    <3> QED BY <3>1, <3>2, NoneAssumption
  <2> QED BY <2>1, <2>2
<1>4. ContentsOf(t) = [k \in Keys |-> ContentsOf(t)[k]]
  BY DEF ContentsOf
<1>5. ContentsOf(t) \in [Keys -> Vals \cup {NoVal}]
  BY <1>3, <1>4
<1> QED BY <1>3, <1>5

LEMMA EmptyContents ==
    ASSUME NEW n \in Nat
    PROVE  ContentsOf(H!NewTab(n)) = [k \in Keys |-> NoVal]
<1>1. UsedSlots(H!NewTab(n)) = {}
  BY DEF UsedSlots, H!NewTab, H!Empty
<1> QED BY <1>1 DEF ContentsOf

\* Two maps to values that agree on every value but at k.
LEMMA SameBut ==
    ASSUME NEW a \in [Keys -> Vals \cup {NoVal}], NEW b \in [Keys -> Vals \cup {NoVal}],
           NEW k \in Keys,
           \A x \in Keys, y \in Vals : x # k => (b[x] = y <=> a[x] = y)
    PROVE  b = [a EXCEPT ![k] = b[k]]
<1>1. \A x \in Keys : x # k => b[x] = a[x]
  BY NoneAssumption
<1> QED BY <1>1

\* A live map, between calls.
LEMMA MapContents ==
    ASSUME MapInv, live
    PROVE  /\ Table(hash, tab, cap) /\ HasRoom(tab, cap)
           /\ H!Contents \in [Keys -> Vals \cup {NoVal}]
           /\ \A k \in Keys, v \in Vals : H!Contents[k] = v <=> Binds(tab, cap, k, v)
<1>1. Table(hash, tab, cap) /\ HasRoom(tab, cap)
  BY CountedRoom DEF MapInv
<1> QED BY <1>1, ContentsRight, ContentsNow

\* What hmap_get looks at, and whether hmap_del finds anything.
LEMMA LookUp ==
    ASSUME MapInv, NEW k \in Keys
    PROVE  /\ live /\ H!Found(tab, cap, k) =>
                /\ H!Contents[k] = tab[H!Probe(tab, cap, k)].val
                /\ H!Contents[k] \in Vals
           /\ ~(live /\ H!Found(tab, cap, k)) => H!Contents[k] = NoVal
<1>1. CASE ~live
  <2>1. tab = H!NewTab(0)
    BY <1>1 DEF MapInv
  <2> QED BY <1>1, <2>1, EmptyContents, ContentsNow
<1>2. CASE live
  <2>1. PICK p : p = H!Probe(tab, cap, k)
    OBVIOUS
  <2>2. /\ Table(hash, tab, cap) /\ HasRoom(tab, cap)
        /\ H!Contents \in [Keys -> Vals \cup {NoVal}]
        /\ \A v \in Vals : H!Contents[k] = v <=> Binds(tab, cap, k, v)
    BY <1>2, MapContents
  <2>3. /\ H!Found(tab, cap, k) <=> HasKey(tab, cap, k)
        /\ p \in 0 .. cap - 1
        /\ H!Found(tab, cap, k) => tab[p].state = "USED" /\ tab[p].key = k
    BY <2>1, <2>2, ProbeFinds
  <2>4. CASE H!Found(tab, cap, k)
    <3>1. tab[p].val \in Vals
      BY <2>2, <2>3, <2>4 DEF Table
    <3>2. Binds(tab, cap, k, tab[p].val)
      BY <2>3, <2>4 DEF Binds
    <3> QED BY <1>2, <2>1, <2>2, <2>4, <3>1, <3>2
  <2>5. CASE ~H!Found(tab, cap, k)
    <3>1. \A v : ~Binds(tab, cap, k, v)
      BY <2>3, <2>5 DEF Binds, HasKey
    <3>2. H!Contents[k] \in Vals \cup {NoVal}
      BY <2>2
    <3> QED BY <2>2, <2>5, <3>1, <3>2
  <2> QED BY <2>4, <2>5
<1> QED BY <1>1, <1>2

\* A successful put is the dictionary's.
LEMMA PutBinds ==
    ASSUME MapInv, live, MapInv', live', NEW k \in Keys, NEW v \in Vals,
           \A x, y : Binds(tab', cap', x, y) <=>
                       (x = k /\ y = v) \/ (x # k /\ Binds(tab, cap, x, y))
    PROVE  (H!Contents)' = [H!Contents EXCEPT ![k] = v]
<1>1. PICK a, b : a = H!Contents /\ b = (H!Contents)'
  OBVIOUS
<1>2. /\ a \in [Keys -> Vals \cup {NoVal}]
      /\ \A x \in Keys, y \in Vals : a[x] = y <=> Binds(tab, cap, x, y)
  BY <1>1, MapContents
<1>3. /\ b \in [Keys -> Vals \cup {NoVal}]
      /\ \A x \in Keys, y \in Vals : b[x] = y <=> Binds(tab', cap', x, y)
  <2>1. Table(hash', tab', cap')
    BY DEF MapInv, Counted
  <2> QED BY <1>1, <2>1, ContentsRight, ContentsNow
<1>4. b = [a EXCEPT ![k] = b[k]]
  BY <1>2, <1>3, SameBut
<1>5. b[k] = v
  BY <1>3
<1> QED BY <1>1, <1>4, <1>5

LEMMA DelUnbinds ==
    ASSUME MapInv, live, MapInv', live', NEW k \in Keys,
           \A x, y : Binds(tab', cap', x, y) <=> x # k /\ Binds(tab, cap, x, y)
    PROVE  (H!Contents)' = [H!Contents EXCEPT ![k] = NoVal]
<1>1. PICK a, b : a = H!Contents /\ b = (H!Contents)'
  OBVIOUS
<1>2. /\ a \in [Keys -> Vals \cup {NoVal}]
      /\ \A x \in Keys, y \in Vals : a[x] = y <=> Binds(tab, cap, x, y)
  BY <1>1, MapContents
<1>3. /\ b \in [Keys -> Vals \cup {NoVal}]
      /\ \A x \in Keys, y \in Vals : b[x] = y <=> Binds(tab', cap', x, y)
  <2>1. Table(hash', tab', cap')
    BY DEF MapInv, Counted
  <2> QED BY <1>1, <2>1, ContentsRight, ContentsNow
<1>4. b = [a EXCEPT ![k] = b[k]]
  BY <1>2, <1>3, SameBut
<1>5. b[k] = NoVal
  BY <1>3
<1> QED BY <1>1, <1>4, <1>5

LEMMA DictInit == H!Init => H!Dict!Init
<1> SUFFICES ASSUME H!Init PROVE H!Dict!Init
  OBVIOUS
<1>1. tab = H!NewTab(0) /\ call = <<"init">> /\ answer = "ok"
  BY DEF H!Init
<1>2. H!Contents = [k \in Keys |-> NoVal]
  BY <1>1, EmptyContents, ContentsNow
<1> QED BY <1>1, <1>2 DEF H!Dict!Init, H!Dict!Nothing

\* Every call of hashmap.h is one of the dictionary's, or changes nothing.
LEMMA DictStep ==
    MapInv /\ MapInv' /\ [H!Next]_(H!vars) => [H!Dict!Next]_(H!Dict!vars)
<1> SUFFICES ASSUME MapInv, MapInv', [H!Next]_(H!vars)
             PROVE  [H!Dict!Next]_(H!Dict!vars)
  OBVIOUS
<1>1. ASSUME NEW ok \in BOOLEAN, H!InitMap(ok) PROVE H!Dict!Clear
  <2>1. /\ tab' = H!NewTab(IF ok THEN InitCap ELSE 0)
        /\ call' = <<"init">> /\ answer' = IF ok THEN "ok" ELSE "fail"
    BY <1>1 DEF H!InitMap
  <2>2. (IF ok THEN InitCap ELSE 0) \in Nat
    BY CapAssumption
  <2>3. (H!Contents)' = [k \in Keys |-> NoVal]
    BY <2>1, <2>2, EmptyContents, ContentsNow
  <2> QED BY <2>1, <2>3 DEF H!Dict!Clear, H!Dict!Nothing
<1>2. ASSUME H!Free PROVE H!Dict!Clear
  <2>1. tab' = H!NewTab(0) /\ call' = <<"free">> /\ answer' = "ok"
    BY <1>2 DEF H!Free
  <2>2. (H!Contents)' = [k \in Keys |-> NoVal]
    BY <2>1, EmptyContents, ContentsNow
  <2> QED BY <2>1, <2>2 DEF H!Dict!Clear, H!Dict!Nothing
<1>3. ASSUME NEW k \in Keys, NEW v \in Vals, H!PutInPlace(k, v) PROVE H!Dict!Put(k, v)
  <2>1. /\ live /\ ~H!Loaded(count, tombs, cap) /\ H!Store(tab, cap, count, tombs, k, v)
        /\ Counted(tab, cap, count, tombs)
    BY <1>3 DEF H!PutInPlace, MapInv
  <2>2. (count + 1) + tombs < cap
    BY <2>1, CountedRoom, LoadCheck
  <2>3. \A x, y : Binds(tab', cap', x, y) <=>
                    (x = k /\ y = v) \/ (x # k /\ Binds(tab, cap, x, y))
    BY <2>1, <2>2, StoreStep
  <2>4. live' /\ call' = <<"put", k, v>> /\ answer' = "ok"
    BY <2>1 DEF H!Store
  <2>5. (H!Contents)' = [H!Contents EXCEPT ![k] = v]
    BY <2>1, <2>3, <2>4, PutBinds
  <2> QED BY <2>4, <2>5 DEF H!Dict!Put
<1>4. ASSUME NEW k \in Keys, NEW v \in Vals, H!PutRehash(k, v) PROVE H!Dict!Put(k, v)
  <2>1. PICK r : r = H!Rehashed(tab, cap, H!Grown(cap))
    OBVIOUS
  <2>2. /\ live /\ Counted(tab, cap, count, tombs)
        /\ H!Store(r, H!Grown(cap), count, 0, k, v)
    BY <1>4, <2>1 DEF H!PutRehash, MapInv
  <2>3. /\ Counted(r, H!Grown(cap), count, 0) /\ (count + 1) + 0 < H!Grown(cap)
        /\ \A x, y : Binds(r, H!Grown(cap), x, y) <=> Binds(tab, cap, x, y)
    BY <2>1, <2>2, RehashStep
  <2>4. \A x, y : Binds(tab', cap', x, y) <=>
                    (x = k /\ y = v) \/ (x # k /\ Binds(r, H!Grown(cap), x, y))
    BY <2>2, <2>3, StoreStep
  <2>5. \A x, y : Binds(tab', cap', x, y) <=>
                    (x = k /\ y = v) \/ (x # k /\ Binds(tab, cap, x, y))
    BY <2>3, <2>4
  <2>6. live' /\ call' = <<"put", k, v>> /\ answer' = "ok"
    BY <2>2 DEF H!Store
  <2>7. (H!Contents)' = [H!Contents EXCEPT ![k] = v]
    BY <2>2, <2>5, <2>6, PutBinds
  <2> QED BY <2>6, <2>7 DEF H!Dict!Put
<1>5. ASSUME NEW k \in Keys, NEW v \in Vals, H!PutFail(k, v) PROVE H!Dict!PutFail(k, v)
  <2>1. tab' = tab /\ call' = <<"put", k, v>> /\ answer' = "fail"
    BY <1>5 DEF H!PutFail
  <2> QED BY <2>1, ContentsNow DEF H!Dict!PutFail
<1>6. ASSUME NEW k \in Keys, H!Get(k) PROVE H!Dict!Get(k)
  <2>1. /\ tab' = tab /\ call' = <<"get", k>>
        /\ answer' = IF live /\ H!Found(tab, cap, k) THEN tab[H!Probe(tab, cap, k)].val
                                                     ELSE NoVal
    BY <1>6 DEF H!Get
  <2>2. answer' = H!Contents[k]
    BY <2>1, LookUp
  <2> QED BY <2>1, <2>2, ContentsNow DEF H!Dict!Get
<1>7. ASSUME NEW k \in Keys, H!Del(k) PROVE H!Dict!Del(k)
  <2>1. live /\ H!Found(tab, cap, k) /\ live' /\ call' = <<"del", k>> /\ answer' = "ok"
    BY <1>7 DEF H!Del
  <2>2. \A x, y : Binds(tab', cap', x, y) <=> x # k /\ Binds(tab, cap, x, y)
    BY <1>7, DeleteStep
  <2>3. (H!Contents)' = [H!Contents EXCEPT ![k] = NoVal]
    BY <2>1, <2>2, DelUnbinds
  <2>4. H!Contents[k] # NoVal
    BY <2>1, LookUp, NoneAssumption
  <2> QED BY <2>1, <2>3, <2>4 DEF H!Dict!Del
<1>8. ASSUME NEW k \in Keys, H!DelMissing(k) PROVE H!Dict!Del(k)
  <2>1. /\ ~(live /\ H!Found(tab, cap, k)) /\ tab' = tab
        /\ call' = <<"del", k>> /\ answer' = "fail"
    BY <1>8 DEF H!DelMissing
  <2>2. H!Contents[k] = NoVal
    BY <2>1, LookUp
  <2>3. (H!Contents)' = [H!Contents EXCEPT ![k] = NoVal]
    <3>1. H!Contents = [x \in Keys |-> H!Contents[x]]
      BY DEF H!Contents
    <3>2. (H!Contents)' = H!Contents
      BY <2>1, ContentsNow
    <3>3. PICK a : a = H!Contents
      OBVIOUS
    <3>4. a = [a EXCEPT ![k] = NoVal]
      BY <2>2, <3>1, <3>3
    <3> QED BY <3>2, <3>3, <3>4
  <2> QED BY <2>1, <2>2, <2>3 DEF H!Dict!Del
<1>9. CASE UNCHANGED H!vars
  <2>1. tab' = tab /\ call' = call /\ answer' = answer
    BY <1>9 DEF H!vars
  <2> QED BY <2>1, ContentsNow DEF H!Dict!vars
<1> QED BY <1>1, <1>2, <1>3, <1>4, <1>5, <1>6, <1>7, <1>8, <1>9 DEF H!Next, H!Dict!Next

\* Across tombstone reuse, growth and out-of-memory, for any hash function:
\* puts, gets and deletes behave and answer like a dictionary (hashmap.h).
THEOREM MapIsDictionary == H!Spec => ImplementsDictionary
<1>1. H!Spec => H!Init /\ [][H!Next]_(H!vars)
  BY DEF H!Spec
<1>2. H!Spec => [][H!Dict!Next]_(H!Dict!vars)
  BY <1>1, MapAlwaysSound, DictStep, PTL
<1> QED BY <1>1, <1>2, DictInit, PTL DEF H!Dict!Spec, ImplementsDictionary, H!ImplementsDictionary

\* Probing ends, finds every entry, and a rehash never meets a loaded table.
MapServes == H!ProbeTerminates /\ H!RehashNeverNests /\ H!EveryEntryReachable

LEMMA SoundMapServes == MapInv => MapServes
<1> SUFFICES ASSUME MapInv PROVE MapServes
  OBVIOUS
<1>1. CASE ~live
  <2>1. H!InState("USED") = {}
    BY <1>1 DEF MapInv, H!InState, H!NewTab
  <2> QED BY <1>1, <2>1 DEF MapServes, H!ProbeTerminates, H!RehashNeverNests,
                            H!EveryEntryReachable
<1>2. CASE live
  <2>1. /\ Table(hash, tab, cap) /\ HasRoom(tab, cap)
        /\ cap \in Nat \ {0} /\ count \in Nat /\ tombs \in Nat /\ count + tombs < cap
    BY <1>2, CountedRoom DEF MapInv
  <2>2. H!ProbeTerminates
    BY <2>1, ProbeFinds DEF H!ProbeTerminates
  <2>3. H!RehashNeverNests
    <3>1. \A c \in 0 .. count - 1 : c \in Nat /\ c < cap
      BY <2>1
    <3>2. \A c \in 0 .. count - 1 : ~H!Loaded(c, 0, H!Grown(cap))
      BY <2>1, <3>1, LoadCheck
    <3> QED BY <3>2 DEF H!RehashNeverNests
  <2>4. ASSUME NEW x \in H!InState("USED")
        PROVE  H!Found(tab, cap, tab[x].key) /\ H!Probe(tab, cap, tab[x].key) = x
    <3>1. x \in 0 .. cap - 1 /\ tab[x].state = "USED"
      BY <2>1 DEF H!InState, Table
    <3>2. PICK k, p : k = tab[x].key /\ p = H!Probe(tab, cap, k)
      OBVIOUS
    <3>3. k \in Keys /\ HasKey(tab, cap, k)
      BY <2>1, <3>1, <3>2 DEF Table, HasKey
    <3>4. /\ H!Found(tab, cap, k) /\ p \in 0 .. cap - 1
          /\ tab[p].state = "USED" /\ tab[p].key = k
      BY <2>1, <3>2, <3>3, ProbeFinds
    <3>5. p = x
      BY <2>1, <3>1, <3>2, <3>4 DEF Table
    <3> QED BY <3>2, <3>4, <3>5
  <2> QED BY <2>2, <2>3, <2>4 DEF MapServes, H!EveryEntryReachable
<1> QED BY <1>1, <1>2

\* What can be served is: hashmap.h probes to an end, finds every entry and
\* never rehashes inside a rehash; arena.h refuses only what does not fit.
THEOREM RequestsAlwaysServed ==
    ASSUME Rounded
    PROVE  Spec /\ H!Spec => RequestsServed
<1>1. H!Spec => []MapServes
  BY MapAlwaysSound, SoundMapServes, PTL
<1>2. Spec => RefusedOnlyWhenFull
  BY NeverRefusesWhatFits
<1> QED BY <1>1, <1>2, PTL DEF RequestsServed, MapServes
=============================================================================
