---------------------------- MODULE HashMapProofs ----------------------------
(***************************************************************************)
(* A search in the hash table always ends and finds the keys that were put *)
(* and not deleted, for every set of keys, every hash function and every   *)
(* size of 4 or more. A key that is put again behind a tombstone is the    *)
(* one way for the table to hold more than its caller believes.            *)
(***************************************************************************)
EXTENDS HashMap, TLAPS, FiniteSetTheorems, WellFoundedInduction

-----------------------------------------------------------------------------
(* Numbers. *)

(* A nonempty set of naturals has a least element, and Least is it. *)
LEMMA LeastIs ==
    ASSUME NEW S \in SUBSET Nat, S # {}
    PROVE  Least(S) \in S /\ \A y \in S : Least(S) <= y
<1> DEFINE R == {ss \in Nat \X Nat : ss[1] < ss[2]}
<1>1. IsWellFoundedOn(R, Nat)
  BY NatLessThanWellFounded, Zenon DEF OpToRel
<1>2. \E x \in S : \A y \in S : ~ (<<y, x>> \in R)
  <2> HIDE DEF R
  <2> QED BY <1>1, WFMin
<1>3. ASSUME NEW x \in S, NEW y \in S, ~ (<<y, x>> \in R) PROVE x <= y
  BY <1>3
<1>4. \E x \in S : \A y \in S : x <= y
  BY <1>2, <1>3
<1> QED BY <1>4 DEF Least

(* h % c, and the probes that start there: around the table once. *)
LEMMA DivisionIs ==
    ASSUME NEW c \in Nat \ {0}, NEW h \in Nat
    PROVE  \E q \in Nat, r \in 0 .. c - 1 : h = q * c + r
<1> DEFINE S == {x \in Nat : \E q \in Nat : h = q * c + x}
<1>1. h \in S
  <2>1. 0 \in Nat /\ h = 0 * c + h
    OBVIOUS
  <2> QED BY <2>1
<1>2. S \in SUBSET Nat /\ S # {}
  BY <1>1
<1>3. PICK r : r = Least(S)
  OBVIOUS
<1>4. r \in S /\ \A y \in S : r <= y
  <2> HIDE DEF S
  <2> QED BY <1>2, <1>3, LeastIs
<1>5. PICK q \in Nat : r \in Nat /\ h = q * c + r
  BY <1>4
<1>6. r < c
  <2> SUFFICES ASSUME r >= c PROVE FALSE
    BY <1>5
  <2>1. r - c \in Nat /\ h = (q + 1) * c + (r - c) /\ q + 1 \in Nat
    BY <1>5
  <2>2. r - c \in S
    BY <2>1
  <2>3. r <= r - c
    <3> HIDE DEF S
    <3> QED BY <2>2, <1>4
  <2> QED BY <2>3, <1>5
<1> QED BY <1>5, <1>6

LEMMA RemainderIs ==
    ASSUME NEW c \in Nat \ {0}, NEW q \in Int, NEW r \in 0 .. c - 1
    PROVE  (q * c + r) % c = r
  OBVIOUS

LEMMA GoesRound ==
    ASSUME NEW c \in Nat \ {0}, NEW h \in Nat
    PROVE  \E r \in 0 .. c - 1 : \A i \in 0 .. c - 1 : (h + i) % c = IF r + i < c THEN r + i ELSE r + i - c
<1>1. PICK q \in Nat, r \in 0 .. c - 1 : h = q * c + r
  BY DivisionIs
<1>2. PICK p \in Int : p = q * c /\ p + c = (q + 1) * c
  OBVIOUS
<1>3. ASSUME NEW i \in 0 .. c - 1 PROVE (h + i) % c = IF r + i < c THEN r + i ELSE r + i - c
  <2>1. CASE r + i < c
    <3>1. PICK x \in 0 .. c - 1 : x = r + i
      BY <2>1
    <3>2. (q * c + x) % c = x
      BY RemainderIs
    <3>3. h + i = p + x
      BY <1>1, <1>2, <3>1
    <3> QED BY <3>1, <3>2, <3>3, <1>2, <2>1
  <2>2. CASE ~(r + i < c)
    <3>1. PICK x \in 0 .. c - 1 : x = r + i - c
      BY <2>2
    <3>2. PICK t \in Int : t = q + 1
      OBVIOUS
    <3>3. (t * c + x) % c = x
      BY RemainderIs
    <3>4. t * c = p + c
      BY <1>2, <3>2
    <3>5. h + i = p + c + x
      BY <1>1, <1>2, <3>1
    <3> QED BY <3>1, <3>3, <3>4, <3>5, <2>2
  <2> QED BY <2>1, <2>2
<1> QED BY <1>3

-----------------------------------------------------------------------------
(* Tables. *)

Bucket == {NULL, TOMBSTONE} \cup [kind : {"entry"}, key : Keys, val : Values]

IsTable(b, c) == c \in Nat \ {0} /\ b \in [0 .. c - 1 -> Bucket]

Occupied(b) == {i \in DOMAIN b : b[i] # NULL}

LEMMA BucketIs ==
    ASSUME NEW e \in Bucket
    PROVE  /\ e.kind \in {"null", "tombstone", "entry"}
           /\ e = NULL <=> e.kind = "null"
           /\ e.kind = "entry" => e.key \in Keys /\ e.val \in Values
  BY DEF Bucket, NULL, TOMBSTONE

LEMMA EntryIs ==
    ASSUME NEW k \in Keys, NEW v \in Values
    PROVE  /\ Entry(k, v) \in Bucket /\ Entry(k, v) # NULL
           /\ Entry(k, v).kind = "entry" /\ Entry(k, v).key = k /\ Entry(k, v).val = v
  BY DEF Bucket, NULL, Entry

LEMMA TombstoneIs ==
    TOMBSTONE \in Bucket /\ TOMBSTONE # NULL /\ TOMBSTONE.kind = "tombstone"
  BY DEF Bucket, NULL, TOMBSTONE

LEMMA TableIs ==
    ASSUME NEW b, NEW c, IsTable(b, c)
    PROVE  /\ DOMAIN b = 0 .. c - 1 /\ Capacity(b) = c /\ b # <<>>
           /\ IsFiniteSet(0 .. c - 1) /\ Cardinality(0 .. c - 1) = c
           /\ \A i \in 0 .. c - 1 : b[i] \in Bucket
<1>1. DOMAIN b = 0 .. c - 1 /\ \A i \in 0 .. c - 1 : b[i] \in Bucket
  BY DEF IsTable
<1>2. c \in Nat /\ c # 0 /\ 0 \in Int /\ c - 1 \in Int
  BY DEF IsTable
<1>3. IsFiniteSet(0 .. c - 1) /\ Cardinality(0 .. c - 1) = c
  <2>1. /\ IsFiniteSet(0 .. c - 1)
        /\ Cardinality(0 .. c - 1) = IF 0 > c - 1 THEN 0 ELSE c - 1 - 0 + 1
    BY <1>2, FS_Interval
  <2> QED BY <2>1, <1>2
<1>4. b # <<>>
  <2>1. 0 \in DOMAIN b
    BY <1>1, <1>2
  <2>2. DOMAIN <<>> = {}
    OBVIOUS
  <2> QED BY <2>1, <2>2
<1> QED BY <1>1, <1>3, <1>4 DEF Capacity

(* The probes of a key are all buckets, each of them once. *)
LEMMA ProbeIs ==
    ASSUME HashMapAssumption, NEW b, NEW c, IsTable(b, c), NEW k \in Keys
    PROVE  /\ \A i \in 0 .. c - 1 : Probe(b, k, i) \in 0 .. c - 1
           /\ \A x \in 0 .. c - 1 : \E i \in 0 .. c - 1 : Probe(b, k, i) = x
<1>1. c \in Nat \ {0} /\ Hash[k] \in Nat
  BY DEF IsTable, HashMapAssumption
<1>2. PICK r \in 0 .. c - 1 : \A i \in 0 .. c - 1 : (Hash[k] + i) % c = IF r + i < c THEN r + i ELSE r + i - c
  BY <1>1, GoesRound
<1>3. \A i \in 0 .. c - 1 : Probe(b, k, i) = IF r + i < c THEN r + i ELSE r + i - c
  BY <1>2, TableIs DEF Probe
<1>4. \A i \in 0 .. c - 1 : Probe(b, k, i) \in 0 .. c - 1
  BY <1>1, <1>3
<1>5. ASSUME NEW x \in 0 .. c - 1 PROVE \E i \in 0 .. c - 1 : Probe(b, k, i) = x
  <2>1. CASE x >= r
    <3>1. PICK y \in 0 .. c - 1 : y = x - r
      BY <1>1, <2>1
    <3>2. r + y < c /\ r + y = x
      BY <3>1, <1>1
    <3>3. Probe(b, k, y) = x
      BY <3>2, <1>3
    <3> QED BY <3>3
  <2>2. CASE x < r
    <3>1. PICK y \in 0 .. c - 1 : y = x - r + c
      BY <1>1, <2>2
    <3>2. ~(r + y < c) /\ r + y - c = x
      BY <3>1, <1>1
    <3>3. Probe(b, k, y) = x
      BY <3>2, <1>3
    <3> QED BY <3>3
  <2> QED BY <2>1, <2>2, <1>1
<1> QED BY <1>4, <1>5

(* They depend on the capacity alone. *)
LEMMA SameProbes ==
    ASSUME NEW b, NEW d, NEW c, IsTable(b, c), IsTable(d, c)
    PROVE  \A k, i : Probe(b, k, i) = Probe(d, k, i)
  BY TableIs DEF Probe

(* one bucket written *)
Written(b, at, e) == [b EXCEPT ![at] = e]

LEMMA WrittenIs ==
    ASSUME NEW b, NEW c, IsTable(b, c), NEW at \in 0 .. c - 1, NEW e \in Bucket
    PROVE  /\ IsTable(Written(b, at, e), c)
           /\ \A i \in 0 .. c - 1 : Written(b, at, e)[i] = IF i = at THEN e ELSE b[i]
  BY DEF IsTable, Written

-----------------------------------------------------------------------------
(* Counting. *)

LEMMA OccupiedIs ==
    ASSUME NEW b, NEW c, IsTable(b, c)
    PROVE  /\ Occupied(b) \in SUBSET (0 .. c - 1) /\ IsFiniteSet(Occupied(b))
           /\ Cardinality(Occupied(b)) \in Nat /\ Cardinality(Occupied(b)) <= c
           /\ Cardinality(Occupied(b)) < c => \E i \in 0 .. c - 1 : b[i] = NULL
<1>1. /\ DOMAIN b = 0 .. c - 1 /\ IsFiniteSet(0 .. c - 1) /\ Cardinality(0 .. c - 1) = c
  BY TableIs
<1>2. Occupied(b) \in SUBSET (0 .. c - 1)
  BY <1>1 DEF Occupied
<1>3. IsFiniteSet(Occupied(b)) /\ Cardinality(Occupied(b)) <= c
  <2>1. IsFiniteSet(Occupied(b)) /\ Cardinality(Occupied(b)) <= Cardinality(0 .. c - 1)
    BY <1>1, <1>2, FS_Subset, Zenon
  <2> QED BY <2>1, <1>1
<1>4. Cardinality(Occupied(b)) \in Nat
  BY <1>3, FS_CardinalityType
<1>5. ASSUME Cardinality(Occupied(b)) < c PROVE \E i \in 0 .. c - 1 : b[i] = NULL
  <2>1. c \in Nat
    BY DEF IsTable
  <2>2. Occupied(b) # 0 .. c - 1
    BY <1>1, <1>4, <1>5, <2>1
  <2> QED BY <2>2, <1>1, <1>2 DEF Occupied
<1> QED BY <1>2, <1>3, <1>4, <1>5

LEMMA LiveIs ==
    ASSUME NEW b, NEW c, IsTable(b, c)
    PROVE  /\ Live(b) \in SUBSET Occupied(b) /\ IsFiniteSet(Live(b))
           /\ Cardinality(Live(b)) \in Nat /\ Cardinality(Live(b)) <= Cardinality(Occupied(b))
<1>1. Live(b) \in SUBSET Occupied(b)
  BY TableIs, BucketIs DEF Live, Occupied
<1>2. IsFiniteSet(Occupied(b))
  BY OccupiedIs
<1>3. IsFiniteSet(Live(b)) /\ Cardinality(Live(b)) <= Cardinality(Occupied(b))
  BY <1>1, <1>2, FS_Subset
<1>4. Cardinality(Live(b)) \in Nat
  BY <1>3, FS_CardinalityType
<1> QED BY <1>1, <1>3, <1>4

LEMMA OneOccupied ==
    ASSUME NEW b, NEW c, IsTable(b, c), NEW at \in 0 .. c - 1, NEW e \in Bucket, e # NULL
    PROVE  Cardinality(Occupied(Written(b, at, e))) =
             Cardinality(Occupied(b)) + IF b[at] = NULL THEN 1 ELSE 0
<1>1. PICK d : d = Written(b, at, e)
  OBVIOUS
<1>2. IsTable(d, c) /\ \A i \in 0 .. c - 1 : d[i] = IF i = at THEN e ELSE b[i]
  BY <1>1, WrittenIs
<1>3. DOMAIN b = 0 .. c - 1 /\ DOMAIN d = 0 .. c - 1
  BY <1>2, TableIs
<1>4. Occupied(d) = Occupied(b) \cup {at}
  BY <1>2, <1>3 DEF Occupied
<1>5. at \in Occupied(b) <=> b[at] # NULL
  BY <1>3 DEF Occupied
<1>6. IsFiniteSet(Occupied(b)) /\ Cardinality(Occupied(b)) \in Nat
  BY OccupiedIs
<1>7. Cardinality(Occupied(b) \cup {at}) = IF at \in Occupied(b) THEN Cardinality(Occupied(b)) ELSE Cardinality(Occupied(b)) + 1
  BY <1>6, FS_AddElement, Zenon
<1>8. CASE at \in Occupied(b)
  <2>1. Cardinality(Occupied(d)) = Cardinality(Occupied(b)) /\ b[at] # NULL
    BY <1>4, <1>5, <1>7, <1>8
  <2> QED BY <2>1, <1>1, <1>6
<1>9. CASE at \notin Occupied(b)
  <2>1. Cardinality(Occupied(d)) = Cardinality(Occupied(b)) + 1 /\ b[at] = NULL
    BY <1>4, <1>5, <1>7, <1>9
  <2> QED BY <2>1, <1>1, <1>6
<1> QED BY <1>8, <1>9

-----------------------------------------------------------------------------
(* Searching. *)

(* a key is where its probes come before they come to NULL *)
Reachable(b, c, k, j) ==
    \E i \in 0 .. c - 1 : Probe(b, k, i) = j /\ \A q \in 0 .. i - 1 : b[Probe(b, k, q)] # NULL

WellPlaced(b, c) == \A k \in Keys : \A j \in 0 .. c - 1 : match(b[j], k) => Reachable(b, c, k, j)
OneEach(b, c) == \A k \in Keys : \A i, j \in 0 .. c - 1 : match(b[i], k) /\ match(b[j], k) => i = j
HasNull(b, c) == \E i \in 0 .. c - 1 : b[i] = NULL
NoTombstone(b, c) == \A i \in 0 .. c - 1 : b[i].kind # "tombstone"

Holds(b, c, k) == \E j \in 0 .. c - 1 : match(b[j], k)
Single(b, c, k) == \A i, j \in 0 .. c - 1 : match(b[i], k) /\ match(b[j], k) => i = j

(* the probes of k come to an entry of k with v before NULL *)
Leads(b, c, k, v) ==
    \E i \in 0 .. c - 1 :
      /\ match(b[Probe(b, k, i)], k) /\ b[Probe(b, k, i)].val = v
      /\ \A q \in 0 .. i - 1 : b[Probe(b, k, q)] # NULL /\ ~match(b[Probe(b, k, q)], k)

(* a search of k ends at its probe i *)
EndsAt(b, c, k, kinds, i) ==
    /\ i \in 0 .. c - 1 /\ i = Least(Stops(b, k, kinds)) /\ Probe(b, k, i) \in 0 .. c - 1
    /\ match(b[Probe(b, k, i)], k) \/ b[Probe(b, k, i)].kind \in kinds
    /\ \A q \in 0 .. i - 1 : /\ Probe(b, k, q) \in 0 .. c - 1 /\ b[Probe(b, k, q)] # NULL
                             /\ ~match(b[Probe(b, k, q)], k) /\ b[Probe(b, k, q)].kind \notin kinds

LEMMA StopsIs ==
    ASSUME HashMapAssumption, NEW b, NEW c, IsTable(b, c), HasNull(b, c), NEW k \in Keys, NEW kinds, "null" \in kinds
    PROVE  \E i : EndsAt(b, c, k, kinds, i)
<1>1. c \in Nat \ {0} /\ Capacity(b) = c /\ \A x \in 0 .. c - 1 : b[x] \in Bucket
  BY TableIs DEF IsTable
<1>2. PICK S : S = Stops(b, k, kinds)
  OBVIOUS
<1>3. \A i : i \in S <=> i \in 0 .. c - 1 /\ (match(b[Probe(b, k, i)], k) \/ b[Probe(b, k, i)].kind \in kinds)
  BY <1>1, <1>2 DEF Stops
<1>4. \A i \in 0 .. c - 1 : Probe(b, k, i) \in 0 .. c - 1
  BY ProbeIs
<1>5. S # {}
  <2>1. PICK x \in 0 .. c - 1 : b[x] = NULL
    BY DEF HasNull
  <2>2. PICK i \in 0 .. c - 1 : Probe(b, k, i) = x
    BY ProbeIs
  <2>3. NULL.kind = "null"
    BY DEF NULL
  <2> QED BY <2>1, <2>2, <2>3, <1>3
<1>6. S \in SUBSET Nat
  <2>1. \A i \in 0 .. c - 1 : i \in Nat
    BY <1>1
  <2> QED BY <2>1, <1>3
<1>7. PICK i \in S : i = Least(S) /\ \A y \in S : i <= y
  BY <1>5, <1>6, LeastIs
<1>8. i \in 0 .. c - 1
  BY <1>3
<1>9. ASSUME NEW q \in 0 .. i - 1
      PROVE  /\ Probe(b, k, q) \in 0 .. c - 1 /\ b[Probe(b, k, q)] # NULL
             /\ ~match(b[Probe(b, k, q)], k) /\ b[Probe(b, k, q)].kind \notin kinds
  <2>1. q \in 0 .. c - 1 /\ ~(i <= q)
    BY <1>1, <1>8
  <2>2. q \notin S
    BY <2>1, <1>7
  <2>3. ~match(b[Probe(b, k, q)], k) /\ b[Probe(b, k, q)].kind \notin kinds
    BY <2>1, <2>2, <1>3
  <2>4. NULL.kind = "null"
    BY DEF NULL
  <2> QED BY <2>1, <2>3, <2>4, <1>4
<1> QED BY <1>2, <1>3, <1>4, <1>7, <1>8, <1>9 DEF EndsAt

LEMMA SearchIs ==
    ASSUME HashMapAssumption, NEW b, NEW c, IsTable(b, c), HasNull(b, c), NEW k \in Keys
    PROVE  \E i : /\ EndsAt(b, c, k, {"null"}, i)
                  /\ Probe(b, k, Least(SearchStops(b, k))) = Probe(b, k, i)
                  /\ Found(b, k) <=> match(b[Probe(b, k, i)], k)
                  /\ match(b[Probe(b, k, i)], k) \/ b[Probe(b, k, i)] = NULL
<1>1. "null" \in {"null"}
  OBVIOUS
<1>2. PICK i : EndsAt(b, c, k, {"null"}, i)
  BY <1>1, StopsIs
<1>3. i = Least(SearchStops(b, k))
  BY <1>2 DEF EndsAt, SearchStops
<1>4. Found(b, k) <=> match(b[Probe(b, k, i)], k)
  BY <1>3, TableIs DEF Found
<1>5. PICK at \in 0 .. c - 1 : at = Probe(b, k, i) /\ (match(b[at], k) \/ b[at].kind \in {"null"})
  BY <1>2 DEF EndsAt
<1>6. match(b[at], k) \/ b[at] = NULL
  <2>1. b[at] \in Bucket
    BY TableIs
  <2> QED BY <2>1, <1>5, BucketIs
<1> QED BY <1>2, <1>3, <1>4, <1>5, <1>6

LEMMA LeadsIs ==
    ASSUME HashMapAssumption, NEW b, NEW c, IsTable(b, c), HasNull(b, c), NEW k \in Keys, NEW v, Leads(b, c, k, v)
    PROVE  Found(b, k) /\ b[Probe(b, k, Least(SearchStops(b, k)))].val = v
<1>1. PICK i : /\ EndsAt(b, c, k, {"null"}, i)
               /\ Probe(b, k, Least(SearchStops(b, k))) = Probe(b, k, i)
               /\ Found(b, k) <=> match(b[Probe(b, k, i)], k)
               /\ match(b[Probe(b, k, i)], k) \/ b[Probe(b, k, i)] = NULL
  BY SearchIs
<1>2. i \in 0 .. c - 1 /\ \A q \in 0 .. i - 1 : ~match(b[Probe(b, k, q)], k)
  BY <1>1 DEF EndsAt
<1>3. PICK n \in 0 .. c - 1 :
        /\ match(b[Probe(b, k, n)], k) /\ b[Probe(b, k, n)].val = v
        /\ \A q \in 0 .. n - 1 : b[Probe(b, k, q)] # NULL /\ ~match(b[Probe(b, k, q)], k)
  BY DEF Leads
<1>4. ~(i < n)
  <2>1. i < n => i \in 0 .. n - 1
    BY <1>2
  <2> QED BY <2>1, <1>1, <1>3
<1>5. ~(n < i)
  <2>1. n < i => n \in 0 .. i - 1
    BY <1>2
  <2> QED BY <2>1, <1>2, <1>3
<1>6. n = i
  BY <1>2, <1>4, <1>5
<1> QED BY <1>1, <1>3, <1>6

(* Where a key has one entry that its probes reach, they lead to it. *)
LEMMA PlacedLeads ==
    ASSUME HashMapAssumption, NEW b, NEW c, IsTable(b, c), HasNull(b, c), WellPlaced(b, c), OneEach(b, c),
           NEW k \in Keys, NEW j \in 0 .. c - 1, match(b[j], k)
    PROVE  Leads(b, c, k, b[j].val)
<1>1. PICK i : /\ EndsAt(b, c, k, {"null"}, i)
               /\ match(b[Probe(b, k, i)], k) \/ b[Probe(b, k, i)] = NULL
  BY SearchIs
<1>2. /\ i \in 0 .. c - 1 /\ Probe(b, k, i) \in 0 .. c - 1
      /\ \A q \in 0 .. i - 1 : b[Probe(b, k, q)] # NULL /\ ~match(b[Probe(b, k, q)], k)
  BY <1>1 DEF EndsAt
<1>3. PICK n \in 0 .. c - 1 : Probe(b, k, n) = j /\ \A q \in 0 .. n - 1 : b[Probe(b, k, q)] # NULL
  BY DEF WellPlaced, Reachable
<1>4. ~(n < i)
  <2>1. n < i => n \in 0 .. i - 1
    BY <1>2
  <2> QED BY <2>1, <1>2, <1>3
<1>5. match(b[Probe(b, k, i)], k)
  <2> SUFFICES ASSUME b[Probe(b, k, i)] = NULL PROVE FALSE
    BY <1>1
  <2>1. ~(i < n)
    <3>1. i < n => i \in 0 .. n - 1
      BY <1>2
    <3> QED BY <3>1, <1>3
  <2>2. n = i
    BY <2>1, <1>2, <1>4
  <2> QED BY <2>2, <1>3 DEF match, NULL
<1>6. Probe(b, k, i) = j
  BY <1>2, <1>5 DEF OneEach
<1> QED BY <1>2, <1>5, <1>6 DEF Leads

-----------------------------------------------------------------------------
(* Inserting. *)

Place(b, k) == Probe(b, k, Least(InsertStops(b, k)))

LEMMA PlaceIs ==
    ASSUME HashMapAssumption, NEW b, NEW c, IsTable(b, c), HasNull(b, c), NEW k \in Keys
    PROVE  \E i : EndsAt(b, c, k, {"null", "tombstone"}, i) /\ Place(b, k) = Probe(b, k, i) /\ Place(b, k) \in 0 .. c - 1
<1>1. "null" \in {"null", "tombstone"}
  OBVIOUS
<1>2. PICK i : EndsAt(b, c, k, {"null", "tombstone"}, i)
  BY <1>1, StopsIs
<1> QED BY <1>2 DEF EndsAt, InsertStops, Place

(* A put that ends at NULL is of a key that the table has not. *)
LEMMA NullNotHeld ==
    ASSUME HashMapAssumption, NEW b, NEW c, IsTable(b, c), HasNull(b, c), WellPlaced(b, c), NEW k \in Keys,
           b[Place(b, k)] = NULL
    PROVE  ~Holds(b, c, k)
<1> SUFFICES ASSUME NEW j \in 0 .. c - 1, match(b[j], k) PROVE FALSE
  BY DEF Holds
<1>1. PICK i : EndsAt(b, c, k, {"null", "tombstone"}, i) /\ Place(b, k) = Probe(b, k, i)
  BY PlaceIs
<1>2. i \in 0 .. c - 1 /\ \A q \in 0 .. i - 1 : ~match(b[Probe(b, k, q)], k)
  BY <1>1 DEF EndsAt
<1>3. PICK n \in 0 .. c - 1 : Probe(b, k, n) = j /\ \A q \in 0 .. n - 1 : b[Probe(b, k, q)] # NULL
  BY DEF WellPlaced, Reachable
<1>4. ~(i < n)
  <2>1. i < n => i \in 0 .. n - 1
    BY <1>2
  <2> QED BY <2>1, <1>1, <1>3
<1>5. ~(n < i)
  <2>1. n < i => n \in 0 .. i - 1
    BY <1>2
  <2> QED BY <2>1, <1>2, <1>3
<1>6. n = i
  BY <1>2, <1>4, <1>5
<1>7. b[j] = NULL
  BY <1>1, <1>3, <1>6
<1> QED BY <1>7 DEF match, NULL

LEMMA InsertedIs ==
    ASSUME NEW map, NEW k, NEW v
    PROVE  /\ Inserted(map, k, v).buckets = [map.buckets EXCEPT ![Place(map.buckets, k)] = Entry(k, v)]
           /\ Inserted(map, k, v).used = map.used + IF map.buckets[Place(map.buckets, k)] = NULL THEN 1 ELSE 0
  BY DEF Inserted, Place

LEMMA InsertCounts ==
    ASSUME HashMapAssumption, NEW map, NEW c, IsTable(map.buckets, c), HasNull(map.buckets, c),
           map.used = Cardinality(Occupied(map.buckets)), NEW k \in Keys, NEW v \in Values
    PROVE  /\ IsTable(Inserted(map, k, v).buckets, c)
           /\ Inserted(map, k, v).used = Cardinality(Occupied(Inserted(map, k, v).buckets))
           /\ Inserted(map, k, v).used \in Nat /\ Inserted(map, k, v).used <= map.used + 1
<1>1. PICK b : b = map.buckets
  OBVIOUS
<1>2. PICK at \in 0 .. c - 1 : at = Place(b, k)
  BY <1>1, PlaceIs
<1>3. PICK e \in Bucket : e = Entry(k, v) /\ e # NULL
  BY EntryIs
<1>4. PICK d : d = Written(b, at, e)
  OBVIOUS
<1>5. IsTable(b, c)
  BY <1>1
<1>6. IsTable(d, c)
  BY <1>4, <1>5, WrittenIs
<1>7. Cardinality(Occupied(d)) = Cardinality(Occupied(b)) + IF b[at] = NULL THEN 1 ELSE 0
  BY <1>3, <1>4, <1>5, OneOccupied
<1>8. /\ Inserted(map, k, v).buckets = d
      /\ Inserted(map, k, v).used = map.used + IF b[at] = NULL THEN 1 ELSE 0
  BY <1>1, <1>2, <1>3, <1>4, InsertedIs DEF Written
<1>9. Cardinality(Occupied(b)) \in Nat
  BY <1>5, OccupiedIs
<1>10. PICK n \in Nat : n = map.used /\ n = Cardinality(Occupied(b))
  BY <1>1, <1>9
<1>11. Inserted(map, k, v).used = n + IF b[at] = NULL THEN 1 ELSE 0
  BY <1>8, <1>10
<1> QED BY <1>6, <1>7, <1>8, <1>10, <1>11

(* d is b with k, and what it holds elsewhere is as before *)
Inserts(b, d, c, k, v) ==
    /\ WellPlaced(d, c) /\ OneEach(d, c) /\ Holds(d, c, k)
    /\ \A j \in 0 .. c - 1 : match(d[j], k) => d[j].val = v
    /\ \A x \in Keys \ {k} : \A j \in 0 .. c - 1 : match(d[j], x) <=> match(b[j], x)
    /\ \A x \in Keys \ {k} : \A j \in 0 .. c - 1 : match(d[j], x) => d[j] = b[j]
    /\ NoTombstone(b, c) => NoTombstone(d, c)
    /\ NoTombstone(b, c) /\ ~Holds(b, c, k) => b[Place(b, k)] = NULL

(* A key that is put where tombstones are must not be in the table. *)
LEMMA InsertKeeps ==
    ASSUME HashMapAssumption, NEW b, NEW c, IsTable(b, c), WellPlaced(b, c), OneEach(b, c), HasNull(b, c),
           NEW k \in Keys, NEW v \in Values, NoTombstone(b, c) \/ ~Holds(b, c, k),
           NEW d, d = Written(b, Place(b, k), Entry(k, v))
    PROVE  IsTable(d, c) /\ Inserts(b, d, c, k, v)
<1>1. PICK i : EndsAt(b, c, k, {"null", "tombstone"}, i) /\ Place(b, k) = Probe(b, k, i)
  BY PlaceIs
<1>2. i \in 0 .. c - 1
  BY <1>1 DEF EndsAt
<1>3. PICK at \in 0 .. c - 1 : at = Place(b, k) /\ at = Probe(b, k, i)
  BY <1>1 DEF EndsAt
<1>4. /\ match(b[at], k) \/ b[at].kind \in {"null", "tombstone"}
      /\ \A q \in 0 .. i - 1 : /\ Probe(b, k, q) \in 0 .. c - 1 /\ b[Probe(b, k, q)] # NULL
                               /\ ~match(b[Probe(b, k, q)], k)
  BY <1>1, <1>3 DEF EndsAt
<1>5. PICK e \in Bucket : e = Entry(k, v) /\ e # NULL /\ e.kind = "entry" /\ e.key = k /\ e.val = v
  BY EntryIs
<1>6. d = Written(b, at, e)
  BY <1>3, <1>5
<1>7. IsTable(d, c) /\ \A j \in 0 .. c - 1 : d[j] = IF j = at THEN e ELSE b[j]
  BY <1>6, WrittenIs
<1>8. \A x, j : Probe(d, x, j) = Probe(b, x, j)
  BY <1>7, SameProbes
<1>9. \A j \in 0 .. c - 1 : b[j] # NULL => d[j] # NULL
  BY <1>5, <1>7
<1>10. match(e, k) /\ \A x : match(e, x) => x = k
  BY <1>5 DEF match
<1>11. \A x \in Keys \ {k} : ~match(b[at], x)
  BY <1>4 DEF match
<1>12. \A x \in Keys \ {k} : \A j \in 0 .. c - 1 : (match(d[j], x) <=> match(b[j], x)) /\ (match(d[j], x) => d[j] = b[j])
  BY <1>7, <1>10, <1>11
(* elsewhere there is no k *)
<1>13. ASSUME NEW j \in 0 .. c - 1, match(b[j], k) PROVE j = at
  <2>1. NoTombstone(b, c)
    BY <1>13 DEF Holds
  <2>2. CASE match(b[at], k)
    BY <2>2, <1>13 DEF OneEach
  <2>3. CASE ~match(b[at], k)
    <3>1. b[at] \in Bucket
      BY TableIs
    <3>2. b[at] = NULL
      BY <2>1, <2>3, <3>1, <1>4, BucketIs DEF NoTombstone
    <3>3. PICK n \in 0 .. c - 1 : Probe(b, k, n) = j /\ \A q \in 0 .. n - 1 : b[Probe(b, k, q)] # NULL
      BY <1>13 DEF WellPlaced, Reachable
    <3>4. ~(i < n)
      <4>1. i < n => i \in 0 .. n - 1
        BY <1>2
      <4> QED BY <4>1, <3>2, <3>3, <1>3
    <3>5. ~(n < i)
      <4>1. n < i => n \in 0 .. i - 1
        BY <1>2
      <4> QED BY <4>1, <3>3, <1>4, <1>13
    <3>6. n = i
      BY <3>4, <3>5, <1>2
    <3> QED BY <3>3, <3>6, <1>3
  <2> QED BY <2>2, <2>3
<1>14. \A j \in 0 .. c - 1 : match(d[j], k) <=> j = at
  BY <1>7, <1>10, <1>13
<1>15. WellPlaced(d, c)
  <2> SUFFICES ASSUME NEW x \in Keys, NEW j \in 0 .. c - 1, match(d[j], x) PROVE Reachable(d, c, x, j)
    BY DEF WellPlaced
  <2>1. CASE x = k
    <3>1. j = at
      BY <2>1, <1>14
    <3>2. \A q \in 0 .. i - 1 : d[Probe(d, k, q)] # NULL
      BY <1>4, <1>8, <1>9
    <3> QED BY <2>1, <3>1, <3>2, <1>2, <1>3, <1>8 DEF Reachable
  <2>2. CASE x # k
    <3>1. match(b[j], x)
      BY <2>2, <1>12
    <3>2. PICK n \in 0 .. c - 1 : Probe(b, x, n) = j /\ \A q \in 0 .. n - 1 : b[Probe(b, x, q)] # NULL
      BY <3>1 DEF WellPlaced, Reachable
    <3>3. \A q \in 0 .. n - 1 : q \in 0 .. c - 1
      BY DEF IsTable
    <3>4. \A q \in 0 .. n - 1 : Probe(b, x, q) \in 0 .. c - 1
      BY <3>3, ProbeIs
    <3>5. \A q \in 0 .. n - 1 : d[Probe(d, x, q)] # NULL
      BY <3>2, <3>4, <1>8, <1>9
    <3> QED BY <3>2, <3>5, <1>8 DEF Reachable
  <2> QED BY <2>1, <2>2
<1>16. OneEach(d, c)
  <2> SUFFICES ASSUME NEW x \in Keys, NEW j1 \in 0 .. c - 1, NEW j2 \in 0 .. c - 1, match(d[j1], x), match(d[j2], x)
               PROVE  j1 = j2
    BY DEF OneEach
  <2>1. CASE x = k
    BY <2>1, <1>14
  <2>2. CASE x # k
    BY <2>2, <1>12 DEF OneEach
  <2> QED BY <2>1, <2>2
<1>17. \A j \in 0 .. c - 1 : match(d[j], k) => d[j].val = v
  BY <1>5, <1>7, <1>14
<1>18. Holds(d, c, k)
  BY <1>14 DEF Holds
<1>19. NoTombstone(b, c) => NoTombstone(d, c)
  BY <1>5, <1>7 DEF NoTombstone
<1>20. ASSUME NoTombstone(b, c), ~Holds(b, c, k) PROVE b[Place(b, k)] = NULL
  <2>1. ~match(b[at], k)
    BY <1>20 DEF Holds
  <2>2. b[at] \in Bucket
    BY TableIs
  <2> QED BY <2>1, <2>2, <1>3, <1>4, <1>20, BucketIs DEF NoTombstone
<1> QED BY <1>7, <1>12, <1>15, <1>16, <1>17, <1>18, <1>19, <1>20 DEF Inserts

-----------------------------------------------------------------------------
(* Deleting. *)

Deletes(b, d, c, at, k) ==
    /\ IsTable(d, c) /\ Cardinality(Occupied(d)) = Cardinality(Occupied(b))
    /\ \A x, j : Probe(d, x, j) = Probe(b, x, j)
    /\ \A j \in 0 .. c - 1 : b[j] # NULL => d[j] # NULL
    /\ \A j \in 0 .. c - 1 : match(d[j], k) => match(b[j], k) /\ j # at
    /\ \A x \in Keys \ {k} : \A j \in 0 .. c - 1 : match(d[j], x) <=> match(b[j], x)
    /\ \A x \in Keys \ {k} : \A j \in 0 .. c - 1 : match(d[j], x) => d[j] = b[j]

LEMMA DeleteKeeps ==
    ASSUME HashMapAssumption, NEW b, NEW c, IsTable(b, c), NEW at \in 0 .. c - 1, NEW k \in Keys, match(b[at], k),
           NEW d, d = Written(b, at, TOMBSTONE)
    PROVE  Deletes(b, d, c, at, k)
<1>1. PICK e \in Bucket : e = TOMBSTONE /\ e # NULL /\ e.kind = "tombstone"
  BY TombstoneIs
<1>2. d = Written(b, at, e)
  BY <1>1
<1>3. IsTable(d, c) /\ \A j \in 0 .. c - 1 : d[j] = IF j = at THEN e ELSE b[j]
  BY <1>2, WrittenIs
<1>4. b[at] # NULL
  BY DEF match, NULL
<1>5. Cardinality(Occupied(d)) = Cardinality(Occupied(b))
  <2>1. Cardinality(Occupied(b)) \in Nat
    BY OccupiedIs
  <2>2. Cardinality(Occupied(d)) = Cardinality(Occupied(b)) + 0
    BY <1>1, <1>2, <1>4, OneOccupied
  <2> QED BY <2>1, <2>2
<1>6. \A x, j : Probe(d, x, j) = Probe(b, x, j)
  BY <1>3, SameProbes
<1>7. \A j \in 0 .. c - 1 : b[j] # NULL => d[j] # NULL
  BY <1>1, <1>3
<1>8. \A x : ~match(e, x)
  BY <1>1 DEF match
<1>9. \A x : \A j \in 0 .. c - 1 : match(d[j], x) => match(b[j], x) /\ d[j] = b[j] /\ j # at
  BY <1>3, <1>8
<1>10. \A x \in Keys \ {k} : ~match(b[at], x)
  BY DEF match
<1>11. \A x \in Keys \ {k} : \A j \in 0 .. c - 1 : match(b[j], x) => match(d[j], x)
  BY <1>3, <1>10
<1> QED BY <1>3, <1>5, <1>6, <1>7, <1>9, <1>11 DEF Deletes

-----------------------------------------------------------------------------
(* The empty table. *)

LEMMA EmptyTable ==
    ASSUME NEW c \in Nat \ {0}
    PROVE  /\ IsTable(Empty(c), c) /\ HasNull(Empty(c), c) /\ NoTombstone(Empty(c), c)
           /\ WellPlaced(Empty(c), c) /\ OneEach(Empty(c), c)
           /\ Cardinality(Occupied(Empty(c))) = 0
           /\ \A k : \A j \in 0 .. c - 1 : ~match(Empty(c)[j], k)
<1>1. PICK e : e = Empty(c)
  OBVIOUS
<1>2. DOMAIN e = 0 .. c - 1 /\ \A i \in 0 .. c - 1 : e[i] = NULL
  BY <1>1 DEF Empty
<1>3. IsTable(e, c)
  BY <1>1 DEF IsTable, Empty, Bucket
<1>4. 0 \in 0 .. c - 1
  OBVIOUS
<1>5. HasNull(e, c)
  BY <1>2, <1>4 DEF HasNull
<1>6. NULL.kind = "null"
  BY DEF NULL
<1>7. NoTombstone(e, c) /\ \A k : \A j \in 0 .. c - 1 : ~match(e[j], k)
  BY <1>2, <1>6 DEF NoTombstone, match
<1>8. WellPlaced(e, c) /\ OneEach(e, c)
  BY <1>7 DEF WellPlaced, OneEach
<1>9. Occupied(e) = {}
  BY <1>2 DEF Occupied
<1>10. Cardinality(Occupied(e)) = 0
  BY <1>9, FS_EmptySet
<1> QED BY <1>1, <1>3, <1>5, <1>7, <1>8, <1>10

-----------------------------------------------------------------------------
(* When the table grows, and how far. *)

LEMMA QuotientIs ==
    ASSUME NEW c \in Nat \ {0}, NEW q \in Nat, NEW r \in 0 .. c - 1
    PROVE  (q * c + r) \div c = q
  OBVIOUS

LEMMA Product ==
    ASSUME NEW c \in Nat, NEW p \in Nat, NEW q \in Nat, p <= q
    PROVE  p * c <= q * c /\ p * c \in Nat /\ q * c \in Nat
<1>1. PICK d \in Nat : d = q - p
  OBVIOUS
<1>2. d * c \in Nat /\ p * c \in Nat
  OBVIOUS
<1>3. q * c = p * c + d * c
  <2>1. q = p + d
    BY <1>1
  <2>2. (p + d) * c = p * c + d * c
    OBVIOUS
  <2> QED BY <2>1, <2>2
<1> QED BY <1>2, <1>3

LEMMA QuotientBelow ==
    ASSUME NEW c \in Nat \ {0}, NEW x \in Nat, NEW m \in Nat
    PROVE  x \div c < m <=> x < m * c
<1>1. PICK q \in Nat, r \in 0 .. c - 1 : x = q * c + r
  BY DivisionIs
<1>2. x \div c = q
  BY <1>1, QuotientIs
<1>3. PICK y \in Nat : y = q * c
  OBVIOUS
<1>4. PICK z \in Nat : z = m * c
  OBVIOUS
<1>5. CASE q < m
  <2>1. q + 1 \in Nat /\ q + 1 <= m /\ c \in Nat
    BY <1>5
  <2>2. (q + 1) * c <= m * c
    BY <2>1, Product
  <2>3. (q + 1) * c = y + c
    BY <1>3
  <2> QED BY <1>1, <1>2, <1>3, <1>4, <1>5, <2>2, <2>3
<1>6. CASE ~(q < m)
  <2>1. m <= q /\ c \in Nat
    BY <1>6
  <2>2. m * c <= q * c
    BY <2>1, Product
  <2> QED BY <1>1, <1>2, <1>3, <1>4, <1>6, <2>2
<1> QED BY <1>5, <1>6

(* a put that does not rehash leaves a bucket NULL *)
LEMMA NotFull ==
    ASSUME NEW size \in Nat, NEW c \in Nat, c >= 4, ~FullEnough(size, c)
    PROVE  size + 1 < c
<1>1. size * 100 \in Nat /\ c \in Nat \ {0} /\ 70 \in Nat /\ (size * 100) \div c \in Int
  OBVIOUS
<1>2. (size * 100) \div c < 70
  BY <1>1 DEF FullEnough, HIGH_WATERMARK
<1>3. size * 100 < 70 * c
  BY <1>1, <1>2, QuotientBelow
<1> QED BY <1>3

(* the capacities that are tried *)
Doubles(d, n, cap) ==
    /\ d = [j \in 0 .. n |-> IF j = 0 THEN cap ELSE d[j - 1] * 2]
    /\ Grown(n, cap) = d[Least({j \in 0 .. n : (n * 100) \div d[j] < LOW_WATERMARK})]

LEMMA DoubledIs ==
    ASSUME NEW n \in Nat, NEW cap
    PROVE  \E d : Doubles(d, n, cap)
<1> DEFINE Step(f, j) == IF j = 0 THEN cap ELSE f[j - 1] * 2
           Right(f, m) == f = [j \in 0 .. n |-> f[j]] /\ \A j \in 0 .. n : j <= m => f[j] = Step(f, j)
           Wrong == {m \in 0 .. n : ~ \E f : Right(f, m)}
<1>1. ASSUME NEW m \in Nat, \A y \in 0 .. m - 1 : \E f : Right(f, y) PROVE \E f : Right(f, m)
  <2>1. CASE m = 0
    <3>1. PICK f : f = [j \in 0 .. n |-> cap]
      OBVIOUS
    <3>2. Right(f, 0)
      BY <3>1
    <3> QED BY <2>1, <3>2
  <2>2. CASE m # 0
    <3>1. m - 1 \in 0 .. m - 1
      BY <2>2
    <3>2. PICK f : Right(f, m - 1)
      BY <1>1, <3>1
    <3>3. PICK g : g = [j \in 0 .. n |-> IF j = m THEN Step(f, m) ELSE f[j]]
      OBVIOUS
    <3>4. g = [j \in 0 .. n |-> g[j]]
      BY <3>3
    <3>5. ASSUME NEW j \in 0 .. n, j <= m PROVE g[j] = Step(g, j)
      <4>1. j # 0 => j - 1 \in 0 .. n /\ j - 1 # m
        BY <3>5
      <4>2. Step(g, j) = Step(f, j)
        BY <3>3, <4>1
      <4>3. j # m => f[j] = Step(f, j)
        <5>1. j # m => j <= m - 1
          BY <3>5
        <5> QED BY <5>1, <3>2
      <4> QED BY <3>3, <4>2, <4>3
    <3> QED BY <3>4, <3>5
  <2> QED BY <2>1, <2>2
<1> HIDE DEF Right
<1>2. Wrong = {}
  <2> SUFFICES ASSUME Wrong # {} PROVE FALSE
    OBVIOUS
  <2>1. Wrong \in SUBSET Nat
    OBVIOUS
  <2>2. PICK m \in Wrong : m = Least(Wrong) /\ \A y \in Wrong : m <= y
    <3> HIDE DEF Wrong
    <3> QED BY <2>1, LeastIs
  <2>3. m \in 0 .. n
    OBVIOUS
  <2>4. \A y \in 0 .. m - 1 : y \in 0 .. n /\ ~(m <= y)
    BY <2>3
  <2>5. \A y \in 0 .. m - 1 : \E f : Right(f, y)
    BY <2>2, <2>4
  <2> QED BY <1>1, <2>3, <2>5
<1>3. PICK f : Right(f, n)
  BY <1>2
<1>4. f = [j \in 0 .. n |-> Step(f, j)]
  <2>1. ASSUME NEW j \in 0 .. n PROVE f[j] = Step(f, j)
    <3>1. j <= n
      OBVIOUS
    <3> QED BY <3>1, <1>3 DEF Right
  <2>2. f = [j \in 0 .. n |-> f[j]]
    BY <1>3 DEF Right
  <2> QED BY <2>1, <2>2
<1> DEFINE d == CHOOSE g : g = [j \in 0 .. n |-> Step(g, j)]
<1>5. d = [j \in 0 .. n |-> Step(d, j)]
  BY <1>4
<1>6. Grown(n, cap) = d[Least({j \in 0 .. n : (n * 100) \div d[j] < LOW_WATERMARK})]
  BY DEF Grown
<1> QED BY <1>5, <1>6 DEF Doubles

(* the doubling ends at once or after one step *)
LEMMA GrownIs ==
    ASSUME NEW n \in Nat, NEW cap \in Nat, cap >= 4, n < cap
    PROVE  /\ Grown(n, cap) \in Nat /\ Grown(n, cap) >= 4
           /\ 2 * n < Grown(n, cap)
<1>1. PICK d : Doubles(d, n, cap)
  BY DoubledIs
<1>3. d = [j \in 0 .. n |-> IF j = 0 THEN cap ELSE d[j - 1] * 2]
  BY <1>1 DEF Doubles
<1>4. PICK S : S = {j \in 0 .. n : (n * 100) \div d[j] < LOW_WATERMARK}
  OBVIOUS
<1>5. Grown(n, cap) = d[Least(S)]
  BY <1>1, <1>4 DEF Doubles
<1>6. d[0] = cap
  BY <1>3
<1>7. n >= 1 => d[1] = 2 * cap
  <2>1. n >= 1 => 1 \in 0 .. n /\ 0 \in 0 .. n
    OBVIOUS
  <2> QED BY <1>3, <1>6, <2>1
<1>8. \A j : j \in S <=> j \in 0 .. n /\ (n * 100) \div d[j] < 50
  BY <1>4 DEF LOW_WATERMARK
<1>9. ASSUME NEW x \in Nat, x >= 4 PROVE (n * 100) \div x < 50 <=> n * 100 < 50 * x
  <2>1. x \in Nat \ {0} /\ n * 100 \in Nat /\ 50 \in Nat
    BY <1>9
  <2> QED BY <2>1, QuotientBelow
<1>10. IF n >= 1 THEN 1 \in S ELSE 0 \in S
  <2>1. CASE n >= 1
    <3>1. PICK x \in Nat : x = 2 * cap /\ x >= 4
      OBVIOUS
    <3>2. (n * 100) \div x < 50
      BY <1>9, <3>1
    <3> QED BY <2>1, <3>1, <3>2, <1>7, <1>8
  <2>2. CASE ~(n >= 1)
    <3>1. 0 \in 0 .. n /\ n * 100 < 50 * cap
      BY <2>2
    <3> QED BY <2>2, <3>1, <1>6, <1>8, <1>9
  <2> QED BY <2>1, <2>2
<1>11. S \in SUBSET Nat /\ S # {}
  <2>1. S \in SUBSET Nat
    BY <1>8
  <2> QED BY <2>1, <1>10
<1>12. PICK l \in S : l = Least(S) /\ \A y \in S : l <= y
  BY <1>11, LeastIs
<1>13. l = 0 \/ (l = 1 /\ n >= 1)
  <2>1. l \in 0 .. n
    BY <1>8
  <2> QED BY <2>1, <1>10, <1>12
<1>14. PICK x \in Nat : x = d[l] /\ x >= 4
  BY <1>6, <1>7, <1>13
<1>15. n * 100 < 50 * x
  BY <1>8, <1>9, <1>14
<1> QED BY <1>5, <1>12, <1>14, <1>15

-----------------------------------------------------------------------------
(* The rehash, bucket by bucket of the old table. *)

(* g[i] is the new table when i buckets of b were looked at *)
Copies(g, b) ==
    /\ g[0] = [buckets |-> Empty(Grown(Cardinality(Live(b)), Capacity(b))), used |-> 0]
    /\ \A i \in 1 .. Capacity(b) :
         g[i] = IF i - 1 \in Live(b) THEN Inserted(g[i - 1], b[i - 1].key, b[i - 1].val) ELSE g[i - 1]
    /\ Rehashed(b) = g[Capacity(b)]

LEMMA CopiesIs ==
    ASSUME NEW b, Capacity(b) \in Nat
    PROVE  \E g : Copies(g, b)
<1>0. PICK n \in Nat : n = Capacity(b)
  OBVIOUS
<1> DEFINE Step(f, i) == IF i = 0 THEN [buckets |-> Empty(Grown(Cardinality(Live(b)), Capacity(b))), used |-> 0]
                         ELSE IF i - 1 \in Live(b) THEN Inserted(f[i - 1], b[i - 1].key, b[i - 1].val)
                         ELSE f[i - 1]
           Right(f, m) == f = [j \in 0 .. n |-> f[j]] /\ \A j \in 0 .. n : j <= m => f[j] = Step(f, j)
           Wrong == {m \in 0 .. n : ~ \E f : Right(f, m)}
<1>1. ASSUME NEW m \in Nat, \A y \in 0 .. m - 1 : \E f : Right(f, y) PROVE \E f : Right(f, m)
  <2>1. CASE m = 0
    <3>1. PICK f : f = [j \in 0 .. n |-> [buckets |-> Empty(Grown(Cardinality(Live(b)), Capacity(b))), used |-> 0]]
      OBVIOUS
    <3>2. Right(f, 0)
      BY <3>1
    <3> QED BY <2>1, <3>2
  <2>2. CASE m # 0
    <3>1. m - 1 \in 0 .. m - 1
      BY <2>2
    <3>2. PICK f : Right(f, m - 1)
      BY <1>1, <3>1
    <3>3. PICK g : g = [j \in 0 .. n |-> IF j = m THEN Step(f, m) ELSE f[j]]
      OBVIOUS
    <3>4. g = [j \in 0 .. n |-> g[j]]
      BY <3>3
    <3>5. ASSUME NEW j \in 0 .. n, j <= m PROVE g[j] = Step(g, j)
      <4>1. j # 0 => j - 1 \in 0 .. n /\ j - 1 # m
        BY <3>5
      <4>2. Step(g, j) = Step(f, j)
        BY <3>3, <4>1
      <4>3. j # m => f[j] = Step(f, j)
        <5>1. j # m => j <= m - 1
          BY <3>5
        <5> HIDE DEF Step
        <5> QED BY <5>1, <3>2
      <4> HIDE DEF Step
      <4> QED BY <3>3, <4>2, <4>3
    <3> HIDE DEF Step
    <3> QED BY <3>4, <3>5
  <2> QED BY <2>1, <2>2
<1> HIDE DEF Right
<1>2. Wrong = {}
  <2> SUFFICES ASSUME Wrong # {} PROVE FALSE
    OBVIOUS
  <2>1. Wrong \in SUBSET Nat
    OBVIOUS
  <2>2. PICK m \in Wrong : m = Least(Wrong) /\ \A y \in Wrong : m <= y
    <3> HIDE DEF Wrong
    <3> QED BY <2>1, LeastIs
  <2>3. m \in 0 .. n
    OBVIOUS
  <2>4. \A y \in 0 .. m - 1 : y \in 0 .. n /\ ~(m <= y)
    BY <2>3
  <2>5. \A y \in 0 .. m - 1 : \E f : Right(f, y)
    BY <2>2, <2>4
  <2> QED BY <1>1, <2>3, <2>5
<1>3. PICK f : Right(f, n)
  BY <1>2
<1>4. f = [j \in 0 .. n |-> Step(f, j)]
  <2>1. ASSUME NEW j \in 0 .. n PROVE f[j] = Step(f, j)
    <3>1. j <= n
      OBVIOUS
    <3> HIDE DEF Step
    <3> QED BY <3>1, <1>3 DEF Right
  <2>2. f = [j \in 0 .. n |-> f[j]]
    BY <1>3 DEF Right
  <2> HIDE DEF Step
  <2> QED BY <2>1, <2>2
<1> DEFINE d == CHOOSE g : g = [j \in 0 .. n |-> Step(g, j)]
<1>5. d = [j \in 0 .. n |-> Step(d, j)]
  <2> HIDE DEF Step
  <2> QED BY <1>4
<1>6. Rehashed(b) = d[n]
  BY <1>0 DEF Rehashed
<1> HIDE DEF d
<1>7. \A j \in 0 .. n : d[j] = Step(d, j)
  <2> HIDE DEF Step
  <2> QED BY <1>5
<1>8. d[0] = [buckets |-> Empty(Grown(Cardinality(Live(b)), Capacity(b))), used |-> 0]
  BY <1>7
<1>9. ASSUME NEW i \in 1 .. n
      PROVE  d[i] = IF i - 1 \in Live(b) THEN Inserted(d[i - 1], b[i - 1].key, b[i - 1].val) ELSE d[i - 1]
  <2>1. i \in 0 .. n /\ i # 0
    OBVIOUS
  <2>2. d[i] = Step(d, i)
    <3> HIDE DEF Step
    <3> QED BY <1>7, <2>1
  <2> QED BY <2>1, <2>2
<1> QED BY <1>0, <1>6, <1>8, <1>9 DEF Copies

(* the entries among the first i buckets *)
Before(b, i) == {j \in Live(b) : j < i}

LEMMA BeforeIs ==
    ASSUME NEW b, NEW n, IsTable(b, n), NEW i \in 0 .. n
    PROVE  /\ IsFiniteSet(Before(b, i)) /\ Cardinality(Before(b, i)) \in Nat
           /\ Cardinality(Before(b, i)) <= Cardinality(Live(b))
           /\ i = 0 => Before(b, i) = {} /\ Cardinality(Before(b, i)) = 0
           /\ i = n => Before(b, i) = Live(b)
<1>1. Before(b, i) \in SUBSET Live(b)
  BY DEF Before
<1>2. IsFiniteSet(Live(b))
  BY LiveIs
<1>3. IsFiniteSet(Before(b, i)) /\ Cardinality(Before(b, i)) <= Cardinality(Live(b))
  BY <1>1, <1>2, FS_Subset, Zenon
<1>4. Cardinality(Before(b, i)) \in Nat
  BY <1>3, FS_CardinalityType
<1>5. \A j \in Live(b) : j \in 0 .. n - 1
  BY TableIs DEF Live
<1>6. n \in Nat
  BY DEF IsTable
<1>7. i = 0 => Before(b, i) = {}
  BY <1>5, <1>6 DEF Before
<1>8. i = n => Before(b, i) = Live(b)
  BY <1>5, <1>6 DEF Before
<1> QED BY <1>3, <1>4, <1>7, <1>8, FS_EmptySet

LEMMA BeforeNext ==
    ASSUME NEW b, NEW n, IsTable(b, n), NEW i \in 0 .. n - 1
    PROVE  /\ i \in Live(b) => /\ Before(b, i + 1) = Before(b, i) \cup {i} /\ i \notin Before(b, i)
                               /\ Cardinality(Before(b, i + 1)) = Cardinality(Before(b, i)) + 1
           /\ i \notin Live(b) => Before(b, i + 1) = Before(b, i)
<1>1. \A j \in Live(b) : j \in 0 .. n - 1
  BY TableIs DEF Live
<1>2. n \in Nat
  BY DEF IsTable
<1>3. i \in Live(b) => Before(b, i + 1) = Before(b, i) \cup {i} /\ i \notin Before(b, i)
  <2>1. \A j \in Live(b) : j < i + 1 <=> j < i \/ j = i
    BY <1>1, <1>2
  <2>2. ~(i < i)
    BY <1>2
  <2> QED BY <2>1, <2>2, Zenon DEF Before
<1>4. i \notin Live(b) => Before(b, i + 1) = Before(b, i)
  BY <1>1, <1>2 DEF Before
<1>5. i \in 0 .. n
  BY <1>2
<1>6. IsFiniteSet(Before(b, i))
  BY <1>5, BeforeIs
<1>7. i \notin Before(b, i) => Cardinality(Before(b, i) \cup {i}) = Cardinality(Before(b, i)) + 1
  BY <1>6, FS_AddElement, Zenon
<1> QED BY <1>3, <1>4, <1>7


(* What the new table is, whatever the old one holds: it never fills. *)
Copied(b, m, i, c) ==
    /\ IsTable(m.buckets, c) /\ m.used = Cardinality(Occupied(m.buckets))
    /\ m.used \in Nat /\ m.used <= Cardinality(Before(b, i))

(* What it holds, when each key was met once. *)
HoldsBefore(b, mb, i, c) ==
    \A k \in Keys :
      /\ Holds(mb, c, k) <=> \E j \in Before(b, i) : match(b[j], k)
      /\ \A j \in Before(b, i), y \in 0 .. c - 1 :
           match(b[j], k) /\ match(mb[y], k) => mb[y].val = b[j].val

Faithful(b, m, i, c) ==
    /\ NoTombstone(m.buckets, c) /\ WellPlaced(m.buckets, c) /\ OneEach(m.buckets, c)
    /\ m.used = Cardinality(Before(b, i))
    /\ HoldsBefore(b, m.buckets, i, c)

LEMMA CopiedHasNull ==
    ASSUME NEW b, NEW m, NEW n, NEW i \in 0 .. n, NEW c \in Nat, IsTable(b, n), Copied(b, m, i, c),
           c >= 4, 2 * Cardinality(Live(b)) < c
    PROVE  HasNull(m.buckets, c) /\ m.used + 1 < c
<1>1. PICK x \in Nat : x = Cardinality(Live(b))
  BY LiveIs
<1>2. PICK y \in Nat : y = Cardinality(Before(b, i)) /\ y <= x
  BY <1>1, BeforeIs
<1>3. m.used \in Nat /\ m.used <= y
  BY <1>2 DEF Copied
<1>4. m.used + 1 < c /\ m.used < c
  BY <1>1, <1>2, <1>3
<1>5. Cardinality(Occupied(m.buckets)) < c /\ IsTable(m.buckets, c)
  BY <1>4 DEF Copied
<1>6. \E z \in 0 .. c - 1 : m.buckets[z] = NULL
  BY <1>5, OccupiedIs
<1> QED BY <1>4, <1>6 DEF HasNull

LEMMA CopyCounts ==
    ASSUME HashMapAssumption, NEW b, NEW m, NEW n, NEW i \in 0 .. n - 1, NEW c \in Nat, IsTable(b, n),
           Copied(b, m, i, c), c >= 4, 2 * Cardinality(Live(b)) < c
    PROVE  Copied(b, IF i \in Live(b) THEN Inserted(m, b[i].key, b[i].val) ELSE m, i + 1, c)
<1>1. i \in 0 .. n /\ i + 1 \in 0 .. n
  BY DEF IsTable
<1>2. HasNull(m.buckets, c)
  BY <1>1, CopiedHasNull
<1>3. CASE i \in Live(b)
  <2>1. PICK k \in Keys, v \in Values : k = b[i].key /\ v = b[i].val
    <3>1. b[i] \in Bucket /\ b[i].kind = "entry"
      BY <1>3, TableIs DEF Live
    <3> QED BY <3>1, BucketIs
  <2>2. /\ IsTable(m.buckets, c) /\ m.used = Cardinality(Occupied(m.buckets))
        /\ m.used \in Nat /\ m.used <= Cardinality(Before(b, i))
    BY DEF Copied
  <2>3. PICK p : p = Inserted(m, k, v)
    OBVIOUS
  <2>4. /\ IsTable(p.buckets, c) /\ p.used = Cardinality(Occupied(p.buckets))
        /\ p.used \in Nat /\ p.used <= m.used + 1
    BY <1>2, <2>2, <2>3, InsertCounts
  <2>5. Cardinality(Before(b, i + 1)) = Cardinality(Before(b, i)) + 1 /\ Cardinality(Before(b, i)) \in Nat
    BY <1>1, <1>3, BeforeIs, BeforeNext
  <2>6. p.used <= Cardinality(Before(b, i + 1))
    BY <2>2, <2>4, <2>5
  <2>7. Copied(b, p, i + 1, c)
    BY <2>4, <2>6 DEF Copied
  <2> QED BY <1>3, <2>1, <2>3, <2>7
<1>4. CASE i \notin Live(b)
  <2>1. Before(b, i + 1) = Before(b, i)
    BY <1>4, BeforeNext
  <2>2. Copied(b, m, i + 1, c)
    BY <2>1 DEF Copied
  <2> QED BY <1>4, <2>2
<1> QED BY <1>3, <1>4

(* The count is right in the end only if it always was. *)
LEMMA CountBefore ==
    ASSUME HashMapAssumption, NEW b, NEW m, NEW n, NEW i \in 0 .. n - 1, NEW c \in Nat, IsTable(b, n),
           Copied(b, m, i, c), c >= 4, 2 * Cardinality(Live(b)) < c,
           NEW g, g = IF i \in Live(b) THEN Inserted(m, b[i].key, b[i].val) ELSE m,
           g.used = Cardinality(Before(b, i + 1))
    PROVE  m.used = Cardinality(Before(b, i))
<1>1. i \in 0 .. n
  BY DEF IsTable
<1>2. PICK u \in Nat : u = m.used
  BY DEF Copied
<1>3. PICK y \in Nat : y = Cardinality(Before(b, i)) /\ u <= y
  BY <1>1, <1>2, BeforeIs DEF Copied
<1>4. CASE i \in Live(b)
  <2>1. PICK p : p = Inserted(m, b[i].key, b[i].val) /\ g = p
    BY <1>4
  <2>2. PICK one \in {0, 1} : p.used = m.used + one
    <3>1. PICK k, v : k = b[i].key /\ v = b[i].val
      OBVIOUS
    <3>2. CASE m.buckets[Place(m.buckets, k)] = NULL
      <4>1. Inserted(m, k, v).used = m.used + 1
        BY <3>2, InsertedIs
      <4> QED BY <2>1, <3>1, <4>1
    <3>3. CASE m.buckets[Place(m.buckets, k)] # NULL
      <4>1. Inserted(m, k, v).used = m.used + 0
        BY <3>3, InsertedIs
      <4> QED BY <2>1, <3>1, <4>1
    <3> QED BY <3>2, <3>3
  <2>3. p.used = y + 1
    BY <1>3, <1>4, <2>1, BeforeNext
  <2> QED BY <1>2, <1>3, <2>2, <2>3
<1>5. CASE i \notin Live(b)
  BY <1>5, BeforeNext
<1> QED BY <1>4, <1>5

LEMMA CopyIsFaithful ==
    ASSUME HashMapAssumption, NEW b, NEW m, NEW n, NEW i \in 0 .. n - 1, NEW c \in Nat, IsTable(b, n),
           Copied(b, m, i, c), c >= 4, 2 * Cardinality(Live(b)) < c, Faithful(b, m, i, c),
           NEW g, g = IF i \in Live(b) THEN Inserted(m, b[i].key, b[i].val) ELSE m,
           OneEach(b, n) \/ g.used = Cardinality(Before(b, i + 1))
    PROVE  Faithful(b, g, i + 1, c)
<1>1. i \in 0 .. n /\ i + 1 \in 0 .. n
  BY DEF IsTable
<1>2. HasNull(m.buckets, c)
  BY <1>1, CopiedHasNull
<1>3. CASE i \in Live(b)
  <2>1. PICK k \in Keys, v \in Values : k = b[i].key /\ v = b[i].val
    <3>1. b[i] \in Bucket /\ b[i].kind = "entry"
      BY <1>3, TableIs DEF Live
    <3> QED BY <3>1, BucketIs
  <2>2. match(b[i], k)
    BY <1>3, <2>1 DEF match, Live
  <2>3. Before(b, i + 1) = Before(b, i) \cup {i} /\ i \notin Before(b, i)
    BY <1>3, BeforeNext
  <2>4. \A j \in Before(b, i) : ~match(b[j], k)
    <3>1. \A j \in Before(b, i) : j \in 0 .. n - 1
      BY TableIs DEF Before, Live
    <3>2. CASE OneEach(b, n)
      BY <2>2, <2>3, <3>1, <3>2 DEF OneEach
    <3>3. CASE g.used = Cardinality(Before(b, i + 1))
      <4>1. PICK u \in Nat : u = m.used /\ u = Cardinality(Before(b, i))
        BY DEF Copied, Faithful
      <4>2. g.used = u + 1
        BY <1>3, <3>3, <4>1, BeforeNext
      <4>3. PICK p : p = Inserted(m, k, v) /\ g = p
        BY <1>3, <2>1
      <4>4. m.buckets[Place(m.buckets, k)] = NULL
        <5> SUFFICES ASSUME m.buckets[Place(m.buckets, k)] # NULL PROVE FALSE
          OBVIOUS
        <5>1. Inserted(m, k, v).used = m.used + 0
          BY InsertedIs
        <5> QED BY <4>1, <4>2, <4>3, <5>1
      <4>5. PICK mb : mb = m.buckets
        OBVIOUS
      <4>6. IsTable(mb, c) /\ HasNull(mb, c) /\ WellPlaced(mb, c) /\ mb[Place(mb, k)] = NULL
        BY <1>2, <4>4, <4>5 DEF Copied, Faithful
      <4>7. ~Holds(mb, c, k)
        BY <4>6, NullNotHeld
      <4> QED BY <4>5, <4>7 DEF Faithful, HoldsBefore
    <3> QED BY <3>2, <3>3
  <2>5. PICK mb : mb = m.buckets
    OBVIOUS
  <2>6. /\ IsTable(mb, c) /\ HasNull(mb, c) /\ NoTombstone(mb, c) /\ WellPlaced(mb, c) /\ OneEach(mb, c)
        /\ ~Holds(mb, c, k)
    BY <1>2, <2>4, <2>5 DEF Copied, Faithful, HoldsBefore
  <2>7. PICK d : d = Written(mb, Place(mb, k), Entry(k, v))
    OBVIOUS
  <2>8. /\ WellPlaced(d, c) /\ OneEach(d, c)
        /\ \A j \in 0 .. c - 1 : match(d[j], k) => d[j].val = v
        /\ \A x \in Keys \ {k} : \A j \in 0 .. c - 1 : match(d[j], x) <=> match(mb[j], x)
        /\ \A x \in Keys \ {k} : \A j \in 0 .. c - 1 : match(d[j], x) => d[j] = mb[j]
        /\ Holds(d, c, k) /\ NoTombstone(d, c) /\ mb[Place(mb, k)] = NULL
    <3>1. Inserts(mb, d, c, k, v)
      BY <2>6, <2>7, InsertKeeps
    <3> QED BY <2>6, <3>1 DEF Inserts
  <2>9. PICK p : p = Inserted(m, k, v)
    OBVIOUS
  <2>10. p.buckets = d /\ p.used = m.used + 1
    BY <2>5, <2>7, <2>8, <2>9, InsertedIs DEF Written
  <2>11. p.used = Cardinality(Before(b, i + 1))
    BY <1>3, <2>10, BeforeNext DEF Faithful
  <2>12. ASSUME NEW x \in Keys
         PROVE  /\ Holds(d, c, x) <=> \E j \in Before(b, i + 1) : match(b[j], x)
                /\ \A j \in Before(b, i + 1), y \in 0 .. c - 1 :
                     match(b[j], x) /\ match(d[y], x) => d[y].val = b[j].val
    <3>1. CASE x = k
      BY <2>1, <2>2, <2>3, <2>4, <2>8, <3>1
    <3>2. CASE x # k
      <4>1. ~match(b[i], x)
        BY <2>2, <3>2 DEF match
      <4>2. Holds(d, c, x) <=> Holds(mb, c, x)
        BY <2>8, <3>2 DEF Holds
      <4>3. Holds(mb, c, x) <=> \E j \in Before(b, i) : match(b[j], x)
        BY <2>5 DEF Faithful, HoldsBefore
      <4>4. \A j \in Before(b, i), y \in 0 .. c - 1 : match(b[j], x) /\ match(mb[y], x) => mb[y].val = b[j].val
        BY <2>5 DEF Faithful, HoldsBefore
      <4>5. \A j \in Before(b, i + 1), y \in 0 .. c - 1 : match(b[j], x) /\ match(d[y], x) => d[y].val = b[j].val
        BY <2>3, <2>8, <3>2, <4>1, <4>4
      <4> QED BY <2>3, <4>1, <4>2, <4>3, <4>5
    <3> QED BY <3>1, <3>2
  <2>13. Faithful(b, p, i + 1, c)
    <3>1. HoldsBefore(b, d, i + 1, c)
      BY <2>12 DEF HoldsBefore
    <3> QED BY <2>8, <2>10, <2>11, <3>1 DEF Faithful
  <2> QED BY <1>3, <2>1, <2>9, <2>13
<1>4. CASE i \notin Live(b)
  <2>1. Before(b, i + 1) = Before(b, i)
    BY <1>4, BeforeNext
  <2>2. Faithful(b, m, i + 1, c)
    BY <2>1 DEF Faithful, HoldsBefore
  <2> QED BY <1>4, <2>2
<1> QED BY <1>3, <1>4


(* The new table: less than half used, and faithful when the old one had  *)
(* one entry of each key, which is when the assertion holds.              *)
LEMMA RehashIs ==
    ASSUME HashMapAssumption, NEW b, NEW n, IsTable(b, n), n >= 4, Cardinality(Live(b)) < n
    PROVE  \E c \in Nat : /\ c >= 4 /\ 2 * Cardinality(Live(b)) < c
                          /\ Copied(b, Rehashed(b), n, c)
                          /\ OneEach(b, n) \/ Rehashed(b).used = Cardinality(Live(b))
                               => Faithful(b, Rehashed(b), n, c)
<1>1. n \in Nat /\ Capacity(b) = n
  BY TableIs DEF IsTable
<1>2. PICK size \in Nat : size = Cardinality(Live(b))
  BY LiveIs
<1>3. PICK c \in Nat : c = Grown(size, n) /\ c >= 4 /\ 2 * size < c
  <2>1. Grown(size, n) \in Nat /\ Grown(size, n) >= 4 /\ 2 * size < Grown(size, n)
    BY <1>1, <1>2, GrownIs
  <2> QED BY <2>1
<1>4. PICK g : Copies(g, b)
  BY <1>1, CopiesIs
<1>5. /\ g[0] = [buckets |-> Empty(c), used |-> 0] /\ Rehashed(b) = g[n]
      /\ \A i \in 1 .. n : g[i] = IF i - 1 \in Live(b) THEN Inserted(g[i - 1], b[i - 1].key, b[i - 1].val) ELSE g[i - 1]
  BY <1>1, <1>2, <1>3, <1>4 DEF Copies
<1>6. 0 \in 0 .. n /\ n \in 0 .. n /\ c \in Nat \ {0}
  BY <1>1, <1>3
<1>7. Copied(b, g[0], 0, c) /\ Faithful(b, g[0], 0, c)
  <2>1. PICK m : m = g[0] /\ m.buckets = Empty(c) /\ m.used = 0
    BY <1>5
  <2>2. PICK mb : mb = Empty(c)
    OBVIOUS
  <2>3. /\ IsTable(mb, c) /\ NoTombstone(mb, c) /\ WellPlaced(mb, c) /\ OneEach(mb, c)
        /\ Cardinality(Occupied(mb)) = 0 /\ \A k : \A j \in 0 .. c - 1 : ~match(mb[j], k)
    BY <1>6, <2>2, EmptyTable
  <2>4. Before(b, 0) = {} /\ Cardinality(Before(b, 0)) = 0
    BY <1>6, BeforeIs
  <2>5. m.buckets = mb /\ 0 \in Nat /\ 0 <= 0
    BY <2>1, <2>2
  <2>6. Copied(b, m, 0, c)
    BY <2>1, <2>3, <2>4, <2>5 DEF Copied
  <2>7. \A k \in Keys : ~Holds(mb, c, k)
    BY <2>3 DEF Holds
  <2>8. Faithful(b, m, 0, c)
    BY <2>1, <2>3, <2>4, <2>5, <2>7 DEF Faithful, HoldsBefore
  <2> QED BY <2>1, <2>6, <2>8
<1> DEFINE Good(i) == /\ Copied(b, g[i], i, c)
                      /\ OneEach(b, n) \/ g[i].used = Cardinality(Before(b, i)) => Faithful(b, g[i], i, c)
           Wrong == {i \in 0 .. n : ~Good(i)}
<1>8. ASSUME NEW i \in 0 .. n - 1, Good(i) PROVE Good(i + 1)
  <2>1. i + 1 \in 1 .. n /\ i + 1 - 1 = i
    BY <1>1
  <2>2. g[i + 1] = IF i \in Live(b) THEN Inserted(g[i], b[i].key, b[i].val) ELSE g[i]
    BY <1>5, <2>1
  <2>3. PICK m : m = g[i]
    OBVIOUS
  <2>4. 2 * Cardinality(Live(b)) < c
    BY <1>2, <1>3
  <2>5. PICK p : p = IF i \in Live(b) THEN Inserted(m, b[i].key, b[i].val) ELSE m
    OBVIOUS
  <2>6. Copied(b, p, i + 1, c)
    BY <1>3, <1>8, <2>3, <2>4, <2>5, CopyCounts
  <2>7. ASSUME OneEach(b, n) PROVE Faithful(b, p, i + 1, c)
    BY <1>3, <1>8, <2>3, <2>4, <2>5, <2>7, CopyIsFaithful
  <2>8. ASSUME p.used = Cardinality(Before(b, i + 1)) PROVE Faithful(b, p, i + 1, c)
    <3>1. m.used = Cardinality(Before(b, i))
      BY <1>3, <1>8, <2>3, <2>4, <2>5, <2>8, CountBefore
    <3>2. Faithful(b, m, i, c)
      BY <1>8, <2>3, <3>1
    <3> QED BY <1>3, <1>8, <2>3, <2>4, <2>5, <2>8, <3>2, CopyIsFaithful
  <2> QED BY <2>2, <2>3, <2>5, <2>6, <2>7, <2>8
<1>9. Good(0)
  BY <1>7
<1>10. Wrong = {}
  <2> SUFFICES ASSUME Wrong # {} PROVE FALSE
    OBVIOUS
  <2>1. Wrong \in SUBSET Nat
    BY <1>1
  <2> HIDE DEF Good
  <2>2. PICK i \in Wrong : i = Least(Wrong) /\ \A y \in Wrong : i <= y
    <3> HIDE DEF Wrong
    <3> QED BY <2>1, LeastIs
  <2>3. i \in 0 .. n /\ ~Good(i) /\ i # 0
    BY <2>2, <1>9
  <2>4. PICK j \in 0 .. n - 1 : i = j + 1
    <3>1. i - 1 \in 0 .. n - 1 /\ i = (i - 1) + 1
      BY <1>1, <2>3
    <3> QED BY <3>1
  <2>5. j \in 0 .. n /\ ~(i <= j)
    BY <1>1, <2>4
  <2>6. Good(j)
    BY <2>2, <2>5
  <2> QED BY <1>8, <2>3, <2>4, <2>6
<1>11. Good(n)
  <2> HIDE DEF Good
  <2> QED BY <1>6, <1>10
<1>12. Before(b, n) = Live(b)
  BY <1>6, BeforeIs
<1> QED BY <1>2, <1>3, <1>5, <1>11, <1>12

(* The dictionary d in a table: the probes of each of its keys lead to the *)
(* value. But for the keys in twice, a key has one entry, and none if it   *)
(* is not in d.                                                            *)
IsDictionary(b, c, d, twice) ==
    /\ \A k \in Keys : k \in DOMAIN d => Leads(b, c, k, d[k])
    /\ \A k \in Keys : k \notin twice => Single(b, c, k) /\ (k \notin DOMAIN d => ~Holds(b, c, k))

(* a faithful copy of all holds what the old table held *)
LEMMA RehashKeeps ==
    ASSUME HashMapAssumption, NEW b, NEW n, NEW m, NEW c, NEW d, NEW twice, IsTable(b, n), Faithful(b, m, n, c),
           IsDictionary(b, n, d, twice), IsTable(m.buckets, c), HasNull(m.buckets, c)
    PROVE  IsDictionary(m.buckets, c, d, twice)
<1>1. n \in 0 .. n
  BY DEF IsTable
<1>2. Before(b, n) = Live(b)
  BY <1>1, BeforeIs
<1>3. \A k \in Keys : \A j : j \in 0 .. n - 1 /\ match(b[j], k) <=> j \in Live(b) /\ match(b[j], k)
  BY TableIs DEF Live, match
<1>4. PICK mb : mb = m.buckets
  OBVIOUS
<1>5. IsTable(mb, c) /\ HasNull(mb, c) /\ WellPlaced(mb, c) /\ OneEach(mb, c)
  BY <1>4 DEF Faithful
<1>6. ASSUME NEW k \in Keys PROVE Holds(mb, c, k) <=> \E j \in Live(b) : match(b[j], k)
  BY <1>2, <1>4 DEF Faithful, HoldsBefore
<1>7. ASSUME NEW k \in Keys, k \in DOMAIN d PROVE Leads(mb, c, k, d[k])
  <2>1. PICK i \in 0 .. n - 1 : match(b[Probe(b, k, i)], k) /\ b[Probe(b, k, i)].val = d[k]
    BY <1>7 DEF IsDictionary, Leads
  <2>2. PICK j \in 0 .. n - 1 : j = Probe(b, k, i)
    BY ProbeIs
  <2>3. j \in Live(b) /\ match(b[j], k) /\ b[j].val = d[k]
    BY <1>3, <2>1, <2>2
  <2>4. PICK y \in 0 .. c - 1 : match(mb[y], k)
    BY <1>6, <2>3 DEF Holds
  <2>5. mb[y].val = d[k]
    BY <1>2, <1>4, <2>3, <2>4 DEF Faithful, HoldsBefore
  <2>6. Leads(mb, c, k, mb[y].val)
    BY <1>5, <2>4, PlacedLeads
  <2> QED BY <2>5, <2>6
<1>8. ASSUME NEW k \in Keys, k \notin twice PROVE Single(mb, c, k) /\ (k \notin DOMAIN d => ~Holds(mb, c, k))
  <2>1. Single(mb, c, k)
    BY <1>5 DEF OneEach, Single
  <2>2. k \notin DOMAIN d => ~Holds(b, n, k)
    BY <1>8 DEF IsDictionary
  <2> QED BY <1>3, <1>6, <2>1, <2>2 DEF Holds
<1> QED BY <1>4, <1>7, <1>8 DEF IsDictionary

-----------------------------------------------------------------------------
(***************************************************************************)
(* The inductive invariants. The first is about the number of buckets in   *)
(* use: at least four, used counts those that are not NULL, and one is     *)
(* NULL. The second relates the entries to the caller's dictionary and to  *)
(* the keys that may be in twice.                                          *)
(***************************************************************************)
Counted(b, u, c) ==
    /\ IsTable(b, c) /\ c \in Nat /\ c >= 4
    /\ u = Cardinality(Occupied(b)) /\ u \in Nat /\ u < c

CountInv == buckets = <<>> \/ \E c : Counted(buckets, used, c)

MapInv ==
    /\ ~assertion => doubled # {}
    /\ \/ buckets = <<>> /\ \A k \in Keys : k \notin DOMAIN dictionary
       \/ \E c : Counted(buckets, used, c) /\ IsDictionary(buckets, c, dictionary, doubled)

LEMMA CountedHasNull ==
    ASSUME NEW b, NEW u, NEW c, Counted(b, u, c)
    PROVE  HasNull(b, c) /\ b # <<>> /\ DOMAIN b = 0 .. c - 1 /\ Capacity(b) = c
<1>1. IsTable(b, c) /\ Cardinality(Occupied(b)) < c
  BY DEF Counted
<1>2. \E i \in 0 .. c - 1 : b[i] = NULL
  BY <1>1, OccupiedIs
<1> QED BY <1>1, <1>2, TableIs DEF HasNull

(* What a put finds after the check of the watermark. *)
PreparedFrom(b, u) ==
    IF b = <<>> THEN [buckets |-> Empty(InitSize), used |-> 0]
    ELSE IF FullEnough(u, Capacity(b)) THEN Rehashed(b)
    ELSE [buckets |-> b, used |-> u]

LEMMA FirstTable ==
    ASSUME HashMapAssumption, NEW u, NEW d, NEW twice, \A k \in Keys : k \notin DOMAIN d
    PROVE  LET m == PreparedFrom(<<>>, u)
           IN \E c : /\ Counted(m.buckets, m.used, c) /\ m.used + 1 < c
                     /\ IsDictionary(m.buckets, c, d, twice)
<1>1. PICK c \in Nat \ {0} : c = InitSize /\ c >= 4
  BY DEF HashMapAssumption
<1>2. PICK b : b = Empty(c)
  OBVIOUS
<1>3. IsTable(b, c) /\ Cardinality(Occupied(b)) = 0 /\ \A k : \A j \in 0 .. c - 1 : ~match(b[j], k)
  BY <1>2, EmptyTable
<1>4. Counted(b, 0, c) /\ 0 + 1 < c
  BY <1>1, <1>3 DEF Counted
<1>5. IsDictionary(b, c, d, twice)
  BY <1>3 DEF IsDictionary, Single, Holds
<1>6. PreparedFrom(<<>>, u) = [buckets |-> b, used |-> 0]
  BY <1>1, <1>2, Zenon DEF PreparedFrom
<1>7. PICK m : m = [buckets |-> b, used |-> 0]
  OBVIOUS
<1>8. m.buckets = b /\ m.used = 0
  BY <1>7
<1> QED BY <1>4, <1>5, <1>6, <1>7, <1>8

(* The count that rehash asserts comes out when each key is in once; and  *)
(* when it comes out, the new table holds what the old one held.          *)
LEMMA Prepares ==
    ASSUME HashMapAssumption, NEW b, NEW u, NEW n, Counted(b, u, n)
    PROVE  LET m == PreparedFrom(b, u)
               kept == FullEnough(u, Capacity(b)) => m.used = Cardinality(Live(b))
           IN /\ OneEach(b, n) => kept
              /\ \E c : /\ Counted(m.buckets, m.used, c) /\ m.used + 1 < c
                        /\ \A d, twice : IsDictionary(b, n, d, twice) /\ kept => IsDictionary(m.buckets, c, d, twice)
<1>1. b # <<>> /\ Capacity(b) = n
  BY CountedHasNull
<1>2. IsTable(b, n) /\ n \in Nat /\ n >= 4 /\ u \in Nat /\ u < n /\ u = Cardinality(Occupied(b))
  BY DEF Counted
<1>3. PICK m : m = PreparedFrom(b, u)
  OBVIOUS
<1>4. CASE FullEnough(u, n)
  <2>1. m = Rehashed(b)
    BY <1>1, <1>3, <1>4 DEF PreparedFrom
  <2>2. Cardinality(Live(b)) < n
    <3>1. Cardinality(Live(b)) \in Nat /\ Cardinality(Live(b)) <= u
      BY <1>2, LiveIs
    <3> QED BY <1>2, <3>1
  <2>3. PICK c \in Nat : /\ c >= 4 /\ 2 * Cardinality(Live(b)) < c /\ Copied(b, m, n, c)
                         /\ OneEach(b, n) \/ m.used = Cardinality(Live(b)) => Faithful(b, m, n, c)
    BY <1>2, <2>1, <2>2, RehashIs
  <2>4. n \in 0 .. n
    BY <1>2
  <2>5. HasNull(m.buckets, c) /\ m.used + 1 < c
    BY <1>2, <2>3, <2>4, CopiedHasNull
  <2>6. Counted(m.buckets, m.used, c)
    BY <2>3, <2>5 DEF Counted, Copied
  <2>7. ASSUME OneEach(b, n) PROVE m.used = Cardinality(Live(b))
    <3>1. m.used = Cardinality(Before(b, n))
      BY <2>3, <2>7 DEF Faithful
    <3> QED BY <1>2, <2>4, <3>1, BeforeIs
  <2>8. ASSUME NEW d, NEW twice, IsDictionary(b, n, d, twice), m.used = Cardinality(Live(b))
        PROVE  IsDictionary(m.buckets, c, d, twice)
    <3>1. Faithful(b, m, n, c) /\ IsTable(m.buckets, c)
      BY <2>3, <2>8 DEF Copied
    <3> QED BY <1>2, <2>5, <2>8, <3>1, RehashKeeps
  <2> QED BY <1>1, <1>3, <1>4, <2>5, <2>6, <2>7, <2>8
<1>5. CASE ~FullEnough(u, n)
  <2>1. m.buckets = b /\ m.used = u
    BY <1>1, <1>3, <1>5 DEF PreparedFrom
  <2>2. u + 1 < n
    BY <1>2, <1>5, NotFull
  <2> QED BY <1>1, <1>3, <1>5, <2>1, <2>2
<1> QED BY <1>4, <1>5

(* b with k put at the place where its search for one ends *)
Puts(b, d, c, k, v) ==
    /\ IsTable(d, c)
    /\ Leads(d, c, k, v)
    /\ \A j \in 0 .. c - 1 : match(d[j], k) => j = Place(b, k) \/ match(b[j], k)
    /\ \A x \in Keys \ {k} : /\ \A j \in 0 .. c - 1 : match(d[j], x) <=> match(b[j], x)
                             /\ \A w : Leads(b, c, x, w) => Leads(d, c, x, w)

LEMMA PutWrites ==
    ASSUME HashMapAssumption, NEW b, NEW c, IsTable(b, c), HasNull(b, c), NEW k \in Keys, NEW v \in Values,
           NEW d, d = Written(b, Place(b, k), Entry(k, v))
    PROVE  Puts(b, d, c, k, v)
<1>1. PICK i : EndsAt(b, c, k, {"null", "tombstone"}, i) /\ Place(b, k) = Probe(b, k, i)
  BY PlaceIs
<1>2. i \in 0 .. c - 1
  BY <1>1 DEF EndsAt
<1>3. PICK at \in 0 .. c - 1 : at = Place(b, k) /\ at = Probe(b, k, i)
  BY <1>1 DEF EndsAt
<1>4. /\ match(b[at], k) \/ b[at].kind \in {"null", "tombstone"}
      /\ \A q \in 0 .. i - 1 : /\ Probe(b, k, q) \in 0 .. c - 1 /\ b[Probe(b, k, q)] # NULL
                               /\ ~match(b[Probe(b, k, q)], k)
                               /\ b[Probe(b, k, q)].kind \notin {"null", "tombstone"}
  BY <1>1, <1>3 DEF EndsAt
<1>5. PICK e \in Bucket : e = Entry(k, v) /\ e # NULL /\ e.kind = "entry" /\ e.key = k /\ e.val = v
  BY EntryIs
<1>6. d = Written(b, at, e)
  BY <1>3, <1>5
<1>7. IsTable(d, c) /\ \A j \in 0 .. c - 1 : d[j] = IF j = at THEN e ELSE b[j]
  BY <1>6, WrittenIs
<1>8. \A x, j : Probe(d, x, j) = Probe(b, x, j)
  BY <1>7, SameProbes
<1>9. match(e, k) /\ \A x : match(e, x) => x = k
  BY <1>5 DEF match
<1>10. \A x \in Keys \ {k} : ~match(b[at], x)
  BY <1>4 DEF match
<1>11. Leads(d, c, k, v)
  <2>1. match(d[Probe(d, k, i)], k) /\ d[Probe(d, k, i)].val = v
    BY <1>3, <1>5, <1>7, <1>8, <1>9
  <2>2. ASSUME NEW q \in 0 .. i - 1 PROVE d[Probe(d, k, q)] # NULL /\ ~match(d[Probe(d, k, q)], k)
    <3>1. PICK y \in 0 .. c - 1 : y = Probe(b, k, q)
      BY <1>4
    <3>2. b[y] # NULL /\ ~match(b[y], k) /\ b[y].kind \notin {"null", "tombstone"}
      BY <1>4, <3>1
    <3>3. y # at
      BY <1>4, <3>2
    <3> QED BY <1>7, <1>8, <3>1, <3>2, <3>3
  <2> QED BY <1>2, <2>1, <2>2 DEF Leads
<1>12. \A j \in 0 .. c - 1 : match(d[j], k) => j = Place(b, k) \/ match(b[j], k)
  BY <1>3, <1>7
<1>13. \A x \in Keys \ {k} : \A j \in 0 .. c - 1 : match(d[j], x) <=> match(b[j], x)
  BY <1>7, <1>9, <1>10
<1>14. ASSUME NEW x \in Keys \ {k}, NEW w, Leads(b, c, x, w) PROVE Leads(d, c, x, w)
  <2>1. PICK n \in 0 .. c - 1 :
          /\ match(b[Probe(b, x, n)], x) /\ b[Probe(b, x, n)].val = w
          /\ \A q \in 0 .. n - 1 : b[Probe(b, x, q)] # NULL /\ ~match(b[Probe(b, x, q)], x)
    BY <1>14 DEF Leads
  <2>2. \A q \in 0 .. c - 1 : Probe(b, x, q) \in 0 .. c - 1
    BY ProbeIs
  <2>3. match(d[Probe(d, x, n)], x) /\ d[Probe(d, x, n)].val = w
    <3>1. PICK y \in 0 .. c - 1 : y = Probe(b, x, n)
      BY <2>2
    <3>2. y # at
      BY <1>10, <2>1, <3>1
    <3> QED BY <1>7, <1>8, <2>1, <3>1, <3>2
  <2>4. ASSUME NEW q \in 0 .. n - 1 PROVE d[Probe(d, x, q)] # NULL /\ ~match(d[Probe(d, x, q)], x)
    <3>1. q \in 0 .. c - 1
      BY DEF IsTable
    <3>2. PICK y \in 0 .. c - 1 : y = Probe(b, x, q)
      BY <2>2, <3>1
    <3>3. d[y] # NULL
      BY <1>5, <1>7, <2>1, <3>2
    <3>4. ~match(d[y], x)
      BY <1>13, <2>1, <3>2
    <3> QED BY <1>8, <3>2, <3>3, <3>4
  <2> QED BY <2>3, <2>4 DEF Leads
<1> QED BY <1>7, <1>11, <1>12, <1>13, <1>14 DEF Puts

(* One put into a table that has room. *)
With(d, k, v) == [x \in DOMAIN d \cup {k} |-> IF x = k THEN v ELSE d[x]]

LEMMA PutIs ==
    ASSUME HashMapAssumption, NEW m, NEW c, Counted(m.buckets, m.used, c), m.used + 1 < c,
           NEW k \in Keys, NEW v \in Values
    PROVE  LET p == Inserted(m, k, v)
           IN /\ Counted(p.buckets, p.used, c)
              /\ \A d, twice : IsDictionary(m.buckets, c, d, twice) =>
                   IsDictionary(p.buckets, c, With(d, k, v), IF Shadows(m.buckets, k) THEN twice \cup {k} ELSE twice)
<1>1. PICK b : b = m.buckets
  OBVIOUS
<1>2. HasNull(b, c) /\ IsTable(b, c) /\ m.used = Cardinality(Occupied(b)) /\ m.used \in Nat /\ c \in Nat /\ c >= 4
  BY <1>1, CountedHasNull DEF Counted
<1>3. PICK p : p = Inserted(m, k, v)
  OBVIOUS
<1>4. /\ IsTable(p.buckets, c) /\ p.used = Cardinality(Occupied(p.buckets))
      /\ p.used \in Nat /\ p.used <= m.used + 1
  BY <1>1, <1>2, <1>3, InsertCounts
<1>5. Counted(p.buckets, p.used, c)
  BY <1>2, <1>4 DEF Counted
<1>6. PICK pb : pb = p.buckets /\ pb = Written(b, Place(b, k), Entry(k, v))
  <2>1. Inserted(m, k, v).buckets = [m.buckets EXCEPT ![Place(m.buckets, k)] = Entry(k, v)]
    BY InsertedIs
  <2>2. Inserted(m, k, v).buckets = Written(m.buckets, Place(m.buckets, k), Entry(k, v))
    BY <2>1, Zenon DEF Written
  <2> QED BY <1>1, <1>3, <2>2
<1>7. Puts(b, pb, c, k, v)
  BY <1>2, <1>6, PutWrites
<1>8. ASSUME NEW d, NEW twice, IsDictionary(b, c, d, twice),
             NEW t, t = IF Shadows(b, k) THEN twice \cup {k} ELSE twice
      PROVE  IsDictionary(pb, c, With(d, k, v), t)
  <2>1. PICK e : e = With(d, k, v)
    OBVIOUS
  <2>2. DOMAIN e = DOMAIN d \cup {k} /\ e[k] = v /\ \A x \in DOMAIN d : x # k => e[x] = d[x]
    BY <2>1 DEF With
  <2>3. ASSUME NEW x \in Keys, x \in DOMAIN e PROVE Leads(pb, c, x, e[x])
    <3>1. CASE x = k
      BY <1>7, <2>2, <3>1 DEF Puts
    <3>2. CASE x # k
      <4>1. Leads(b, c, x, d[x])
        BY <1>8, <2>2, <2>3, <3>2 DEF IsDictionary
      <4>2. Leads(pb, c, x, d[x])
        BY <1>7, <3>2, <4>1 DEF Puts
      <4> QED BY <2>2, <2>3, <3>2, <4>2
    <3> QED BY <3>1, <3>2
  <2>4. ASSUME NEW x \in Keys, x \notin t
        PROVE  Single(pb, c, x) /\ (x \notin DOMAIN e => ~Holds(pb, c, x))
    <3>1. x \notin twice
      BY <1>8, <2>4
    <3>2. Single(b, c, x) /\ (x \notin DOMAIN d => ~Holds(b, c, x))
      BY <1>8, <3>1 DEF IsDictionary
    <3>3. CASE x = k
      <4>1. ~Shadows(b, k)
        BY <1>8, <2>4, <3>3
      <4>2. ASSUME NEW j \in 0 .. c - 1, match(pb[j], k) PROVE j = Place(b, k)
        <5> SUFFICES ASSUME j # Place(b, k) PROVE FALSE
          OBVIOUS
        <5>1. match(b[j], k)
          BY <1>7, <4>2 DEF Puts
        <5>2. k \in DOMAIN d
          BY <3>2, <3>3, <5>1 DEF Holds
        <5>3. Leads(b, c, k, d[k])
          BY <1>8, <5>2 DEF IsDictionary
        <5>4. Found(b, k)
          BY <1>2, <5>3, LeadsIs
        <5>5. match(b[Place(b, k)], k)
          BY <4>1, <5>4 DEF Shadows, Place
        <5>6. Place(b, k) \in 0 .. c - 1
          BY <1>2, PlaceIs
        <5> QED BY <3>2, <3>3, <5>1, <5>5, <5>6 DEF Single
      <4> QED BY <2>2, <3>3, <4>2 DEF Single
    <3>4. CASE x # k
      <4>1. \A j \in 0 .. c - 1 : match(pb[j], x) <=> match(b[j], x)
        BY <1>7, <3>4 DEF Puts
      <4>2. x \in DOMAIN e <=> x \in DOMAIN d
        BY <2>2, <3>4
      <4> QED BY <3>2, <4>1, <4>2 DEF Single, Holds
    <3> QED BY <3>3, <3>4
  <2> QED BY <2>1, <2>3, <2>4 DEF IsDictionary
<1> QED BY <1>1, <1>3, <1>5, <1>6, <1>8

Without(d, k) == [x \in DOMAIN d \ {k} |-> d[x]]

LEMMA DeleteIs ==
    ASSUME HashMapAssumption, NEW b, NEW u, NEW c, Counted(b, u, c), NEW k \in Keys,
           NEW nb, nb = IF Found(b, k) THEN Written(b, Probe(b, k, Least(SearchStops(b, k))), TOMBSTONE) ELSE b
    PROVE  /\ Counted(nb, u, c)
           /\ \A d, twice : IsDictionary(b, c, d, twice) =>
                IsDictionary(nb, c, Without(d, k), IF Holds(nb, c, k) THEN twice ELSE twice \ {k})
<1>1. HasNull(b, c) /\ IsTable(b, c) /\ c \in Nat /\ c >= 4 /\ u = Cardinality(Occupied(b)) /\ u \in Nat /\ u < c
  BY CountedHasNull DEF Counted
<1>2. PICK at \in 0 .. c - 1 : at = Probe(b, k, Least(SearchStops(b, k))) /\ (Found(b, k) <=> match(b[at], k))
  <2>1. PICK i : /\ EndsAt(b, c, k, {"null"}, i)
                 /\ Probe(b, k, Least(SearchStops(b, k))) = Probe(b, k, i)
                 /\ Found(b, k) <=> match(b[Probe(b, k, i)], k)
    BY <1>1, SearchIs
  <2> QED BY <2>1 DEF EndsAt
<1>3. Found(b, k) => Deletes(b, nb, c, at, k)
  <2>1. Found(b, k) => nb = Written(b, at, TOMBSTONE)
    BY <1>2
  <2> QED BY <1>1, <1>2, <2>1, DeleteKeeps
<1>4. Counted(nb, u, c)
  BY <1>1, <1>3 DEF Counted, Deletes
<1>5. ASSUME NEW d, NEW twice, IsDictionary(b, c, d, twice), NEW t, t = IF Holds(nb, c, k) THEN twice ELSE twice \ {k}
      PROVE  IsDictionary(nb, c, Without(d, k), t)
  <2>1. PICK e : e = Without(d, k)
    OBVIOUS
  <2>2. DOMAIN e = DOMAIN d \ {k} /\ \A x \in DOMAIN d : x # k => e[x] = d[x]
    BY <2>1 DEF Without
  <2>3. ASSUME NEW x \in Keys, x # k
        PROVE  /\ \A j \in 0 .. c - 1 : match(nb[j], x) <=> match(b[j], x)
               /\ \A w : Leads(b, c, x, w) => Leads(nb, c, x, w)
    <3>1. CASE Found(b, k)
      <4>1. /\ \A j \in 0 .. c - 1 : match(nb[j], x) <=> match(b[j], x)
            /\ \A j \in 0 .. c - 1 : match(nb[j], x) => nb[j] = b[j]
            /\ \A j \in 0 .. c - 1 : b[j] # NULL => nb[j] # NULL
            /\ \A y, j : Probe(nb, y, j) = Probe(b, y, j)
        BY <1>3, <2>3, <3>1 DEF Deletes
      <4>2. ASSUME NEW w, Leads(b, c, x, w) PROVE Leads(nb, c, x, w)
        <5>1. PICK n \in 0 .. c - 1 :
                /\ match(b[Probe(b, x, n)], x) /\ b[Probe(b, x, n)].val = w
                /\ \A q \in 0 .. n - 1 : b[Probe(b, x, q)] # NULL /\ ~match(b[Probe(b, x, q)], x)
          BY <4>2 DEF Leads
        <5>2. \A q \in 0 .. c - 1 : Probe(b, x, q) \in 0 .. c - 1
          BY <1>1, ProbeIs
        <5>3. match(nb[Probe(nb, x, n)], x) /\ nb[Probe(nb, x, n)].val = w
          BY <4>1, <5>1, <5>2
        <5>4. \A q \in 0 .. n - 1 : q \in 0 .. c - 1
          BY <1>1
        <5>5. ASSUME NEW q \in 0 .. n - 1 PROVE nb[Probe(nb, x, q)] # NULL /\ ~match(nb[Probe(nb, x, q)], x)
          <6>1. PICK y \in 0 .. c - 1 : y = Probe(b, x, q) /\ y = Probe(nb, x, q)
            BY <4>1, <5>2, <5>4
          <6> QED BY <4>1, <5>1, <6>1
        <5> QED BY <5>3, <5>5 DEF Leads
      <4> QED BY <4>1, <4>2
    <3>2. CASE ~Found(b, k)
      BY <3>2
    <3> QED BY <3>1, <3>2
  <2>4. ASSUME NEW x \in Keys, x \in DOMAIN e PROVE Leads(nb, c, x, e[x])
    <3>1. x # k /\ x \in DOMAIN d /\ e[x] = d[x]
      BY <2>2, <2>4
    <3>2. Leads(b, c, x, d[x])
      BY <1>5, <3>1 DEF IsDictionary
    <3> QED BY <2>3, <3>1, <3>2
  <2>5. ASSUME NEW x \in Keys, x \notin t
        PROVE  Single(nb, c, x) /\ (x \notin DOMAIN e => ~Holds(nb, c, x))
    <3>1. CASE x = k
      <4>1. ~Holds(nb, c, k)
        <5> SUFFICES ASSUME Holds(nb, c, k) PROVE FALSE
          OBVIOUS
        <5>1. k \notin twice
          BY <1>5, <2>5, <3>1
        <5>2. Single(b, c, k) /\ (k \notin DOMAIN d => ~Holds(b, c, k))
          BY <1>5, <5>1 DEF IsDictionary
        <5>3. PICK j \in 0 .. c - 1 : match(nb[j], k)
          BY DEF Holds
        <5>4. CASE Found(b, k)
          <6>1. match(b[j], k) /\ j # at
            BY <1>3, <5>3, <5>4 DEF Deletes
          <6> QED BY <1>2, <5>2, <5>4, <6>1 DEF Single
        <5>5. CASE ~Found(b, k)
          <6>1. k \notin DOMAIN d
            <7> SUFFICES ASSUME k \in DOMAIN d PROVE FALSE
              OBVIOUS
            <7>1. Leads(b, c, k, d[k])
              BY <1>5 DEF IsDictionary
            <7> QED BY <1>1, <5>5, <7>1, LeadsIs
          <6> QED BY <5>2, <5>3, <5>5, <6>1 DEF Holds
        <5> QED BY <5>4, <5>5
      <4> QED BY <3>1, <4>1 DEF Single, Holds
    <3>2. CASE x # k
      <4>1. x \notin twice
        BY <1>5, <2>5, <3>2
      <4>2. Single(b, c, x) /\ (x \notin DOMAIN d => ~Holds(b, c, x))
        BY <1>5, <4>1 DEF IsDictionary
      <4> QED BY <2>2, <2>3, <3>2, <4>2 DEF Single, Holds
    <3> QED BY <3>1, <3>2
  <2> QED BY <2>1, <2>4, <2>5 DEF IsDictionary
<1> QED BY <1>4, <1>5

-----------------------------------------------------------------------------
(* Each operation keeps the invariants. *)

LEMMA DeleteKeepsInvariants ==
    ASSUME HashMapAssumption, NEW k \in Keys, hashmap_delete(k)
    PROVE  (CountInv => CountInv') /\ (assertion /\ MapInv => MapInv')
<1>1. PICK b : b = buckets
  OBVIOUS
<1>2. PICK nb : nb = buckets'
  OBVIOUS
<1>3. nb = IF Found(b, k) THEN Written(b, Probe(b, k, Least(SearchStops(b, k))), TOMBSTONE) ELSE b
  BY <1>1, <1>2 DEF hashmap_delete, Written
<1>4. PICK u : u = used /\ u = used'
  BY DEF hashmap_delete
<1>5. PICK d : d = dictionary
  OBVIOUS
<1>6. PICK e : e = dictionary' /\ e = Without(d, k)
  BY <1>5 DEF hashmap_delete, Without
<1>7. assertion' = assertion
  BY DEF hashmap_delete
<1>8. doubled' = IF \E i \in DOMAIN b : match(nb[i], k) THEN doubled ELSE doubled \ {k}
  BY <1>1, <1>2 DEF hashmap_delete
<1>9. b = <<>> => nb = <<>>
  BY <1>3 DEF Found
<1>10. ASSUME CountInv PROVE CountInv'
  <2>1. CASE b = <<>>
    BY <1>2, <1>9, <2>1 DEF CountInv
  <2>2. CASE b # <<>>
    <3>1. PICK c : Counted(b, u, c)
      BY <1>1, <1>4, <1>10, <2>2 DEF CountInv
    <3>2. Counted(nb, u, c)
      BY <1>3, <3>1, DeleteIs
    <3> QED BY <1>2, <1>4, <3>2 DEF CountInv
  <2> QED BY <2>1, <2>2
<1>11. ASSUME assertion, MapInv PROVE MapInv'
  <2>1. CASE b = <<>> /\ \A x \in Keys : x \notin DOMAIN d
    <3>1. \A x \in Keys : x \notin DOMAIN e
      BY <1>6, <2>1 DEF Without
    <3> QED BY <1>2, <1>6, <1>7, <1>9, <1>11, <2>1, <3>1 DEF MapInv
  <2>2. CASE ~(b = <<>> /\ \A x \in Keys : x \notin DOMAIN d)
    <3>1. PICK twice : twice = doubled
      OBVIOUS
    <3>2. PICK c : Counted(b, u, c) /\ IsDictionary(b, c, d, twice)
      BY <1>1, <1>4, <1>5, <1>11, <2>2, <3>1 DEF MapInv
    <3>3. DOMAIN b = 0 .. c - 1
      BY <3>2, CountedHasNull
    <3>4. PICK t : t = doubled' /\ t = IF Holds(nb, c, k) THEN twice ELSE twice \ {k}
      BY <1>8, <3>1, <3>3 DEF Holds
    <3>5. Counted(nb, u, c) /\ IsDictionary(nb, c, e, t)
      BY <1>3, <1>6, <3>2, <3>4, DeleteIs
    <3> QED BY <1>2, <1>4, <1>6, <1>7, <1>11, <3>4, <3>5 DEF MapInv
  <2> QED BY <2>1, <2>2
<1> QED BY <1>10, <1>11

LEMMA PutKeepsInvariants ==
    ASSUME HashMapAssumption, NEW k \in Keys, NEW v \in Values, hashmap_put(k, v)
    PROVE  (CountInv => CountInv') /\ (assertion /\ MapInv => MapInv')
<1>1. PICK b : b = buckets
  OBVIOUS
<1>2. PICK u : u = used
  OBVIOUS
<1>3. PICK m : m = Prepared /\ m = PreparedFrom(b, u)
  BY <1>1, <1>2 DEF Prepared, PreparedFrom, Rehashes
<1>4. PICK p : p = Inserted(m, k, v) /\ p.buckets = buckets' /\ p.used = used'
  BY <1>3 DEF hashmap_put
<1>5. PICK d : d = dictionary
  OBVIOUS
<1>6. PICK e : e = dictionary' /\ e = With(d, k, v)
  BY <1>5 DEF hashmap_put, With
<1>7. PICK twice : twice = doubled
  OBVIOUS
<1>8. PICK t : t = doubled' /\ t = IF Shadows(m.buckets, k) THEN twice \cup {k} ELSE twice
  BY <1>3, <1>7 DEF hashmap_put
<1>9. assertion' = assertion
  BY DEF hashmap_put
<1>10. b # <<>> => (FullEnough(u, Capacity(b)) => m.used = Cardinality(Live(b)))
  BY <1>1, <1>2, <1>3 DEF hashmap_put, CountIsKept, Rehashes
<1>11. ASSUME CountInv PROVE CountInv'
  <2>1. PICK c : Counted(m.buckets, m.used, c) /\ m.used + 1 < c
    <3>1. CASE b = <<>>
      <4>1. PICK empty : \A x \in Keys : x \notin DOMAIN empty
        <5>1. \A x \in Keys : x \notin DOMAIN [y \in {} |-> 0]
          OBVIOUS
        <5> QED BY <5>1
      <4> QED BY <1>3, <3>1, <4>1, FirstTable
    <3>2. CASE b # <<>>
      <4>1. PICK n : Counted(b, u, n)
        BY <1>1, <1>2, <1>11, <3>2 DEF CountInv
      <4> QED BY <1>3, <4>1, Prepares
    <3> QED BY <3>1, <3>2
  <2>2. Counted(p.buckets, p.used, c)
    BY <1>4, <2>1, PutIs
  <2> QED BY <1>4, <2>2 DEF CountInv
<1>12. ASSUME assertion, MapInv PROVE MapInv'
  <2>1. PICK c : /\ Counted(m.buckets, m.used, c) /\ m.used + 1 < c
                 /\ IsDictionary(m.buckets, c, d, twice)
    <3>1. CASE b = <<>> /\ \A x \in Keys : x \notin DOMAIN d
      BY <1>3, <3>1, FirstTable
    <3>2. CASE ~(b = <<>> /\ \A x \in Keys : x \notin DOMAIN d)
      <4>1. PICK n : Counted(b, u, n) /\ IsDictionary(b, n, d, twice)
        BY <1>1, <1>2, <1>5, <1>7, <1>12, <3>2 DEF MapInv
      <4>2. b # <<>>
        BY <4>1, CountedHasNull
      <4> QED BY <1>3, <1>10, <4>1, <4>2, Prepares
    <3> QED BY <3>1, <3>2
  <2>2. Counted(p.buckets, p.used, c) /\ IsDictionary(p.buckets, c, e, t)
    BY <1>4, <1>6, <1>8, <2>1, PutIs
  <2> QED BY <1>4, <1>6, <1>8, <1>9, <1>12, <2>2 DEF MapInv
<1> QED BY <1>11, <1>12

(* The count comes out wrong only when a key is in twice. *)
LEMMA AbortKeepsInvariants ==
    ASSUME HashMapAssumption, Abort
    PROVE  (CountInv => CountInv') /\ (MapInv => MapInv')
<1>1. UNCHANGED <<buckets, used, dictionary, doubled>> /\ ~CountIsKept
  BY DEF Abort
<1>2. CountInv => CountInv'
  BY <1>1 DEF CountInv
<1>3. ASSUME MapInv PROVE MapInv'
  <2>1. PICK b : b = buckets
    OBVIOUS
  <2>2. PICK u : u = used
    OBVIOUS
  <2>3. PICK d : d = dictionary
    OBVIOUS
  <2>4. PICK twice : twice = doubled
    OBVIOUS
  <2>5. PICK m : m = Prepared /\ m = PreparedFrom(b, u)
    BY <2>1, <2>2 DEF Prepared, PreparedFrom, Rehashes
  <2>6. b # <<>> /\ FullEnough(u, Capacity(b)) /\ m.used # Cardinality(Live(b))
    BY <1>1, <2>1, <2>2, <2>5 DEF CountIsKept, Rehashes
  <2>7. PICK n : Counted(b, u, n) /\ IsDictionary(b, n, d, twice)
    BY <1>3, <2>1, <2>2, <2>3, <2>4, <2>6 DEF MapInv
  <2>8. ~OneEach(b, n)
    BY <2>5, <2>6, <2>7, Prepares
  <2>9. PICK k \in Keys : ~Single(b, n, k)
    BY <2>8 DEF OneEach, Single
  <2>10. k \in twice
    BY <2>7, <2>9 DEF IsDictionary
  <2>11. doubled' # {}
    BY <1>1, <2>4, <2>10
  <2> QED BY <1>1, <1>3, <2>11 DEF MapInv
<1> QED BY <1>2, <1>3

-----------------------------------------------------------------------------
(* used counts the buckets that are not NULL, and the table never fills:   *)
(* CountInv is inductive.                                                  *)
THEOREM CountInvariance ==
    ASSUME HashMapAssumption
    PROVE  MapSpec => []CountInv
<1>1. MapInit => CountInv
  BY DEF MapInit, CountInv
<1>2. CountInv /\ [MapNext \/ Aborted]_mapVars => CountInv'
  <2> SUFFICES ASSUME CountInv, [MapNext \/ Aborted]_mapVars PROVE CountInv'
    OBVIOUS
  <2>1. ASSUME NEW k \in Keys, hashmap_delete(k) PROVE CountInv'
    BY <2>1, DeleteKeepsInvariants
  <2>2. ASSUME NEW k \in Keys, NEW v \in Values, hashmap_put(k, v) PROVE CountInv'
    BY <2>2, PutKeepsInvariants
  <2>3. CASE Abort
    BY <2>3, AbortKeepsInvariants
  <2>4. CASE UNCHANGED mapVars
    BY <2>4 DEF mapVars, CountInv
  <2> QED BY <2>1, <2>2, <2>3, <2>4 DEF MapNext, Operation, Aborted
<1> QED BY <1>1, <1>2, PTL DEF MapSpec

(***************************************************************************)
(* unreachable() at the end of get_entry and get_or_insert_entry is never  *)
(* reached: a search or an insertion always comes to a NULL bucket, for    *)
(* every hash function, every size from 4 on and every sequence of puts    *)
(* and deletes.                                                            *)
(***************************************************************************)
THEOREM SearchesEnd ==
    ASSUME HashMapAssumption
    PROVE  MapSpec => []NeverUnreachable
<1>1. CountInv => NeverUnreachable
  <2> SUFFICES ASSUME CountInv, buckets # <<>>
               PROVE  /\ used = Cardinality({i \in DOMAIN buckets : buckets[i] # NULL})
                      /\ \E i \in DOMAIN buckets : buckets[i] = NULL
    BY DEF NeverUnreachable
  <2>1. PICK c : Counted(buckets, used, c)
    BY DEF CountInv
  <2>2. PICK b : b = buckets
    OBVIOUS
  <2>3. HasNull(b, c) /\ DOMAIN b = 0 .. c - 1
    BY <2>1, <2>2, CountedHasNull
  <2>4. used = Cardinality(Occupied(b))
    BY <2>1, <2>2 DEF Counted
  <2> QED BY <2>2, <2>3, <2>4 DEF HasNull, Occupied
<1> QED BY <1>1, CountInvariance, PTL

(* Every key of the dictionary is found with its value, only a key that    *)
(* was put in front of an entry of its own can be in twice or be left over *)
(* by a delete, and rehash's assertion fails for no other: MapInv is       *)
(* inductive, whatever keys are put again and deleted.                     *)
THEOREM MapInvariance ==
    ASSUME HashMapAssumption
    PROVE  MapSpec => []MapInv
<1>1. MapInit => MapInv
  BY DEF MapInit, MapInv
<1>2. MapInv /\ [MapNext \/ Aborted]_mapVars => MapInv'
  <2> SUFFICES ASSUME MapInv, [MapNext \/ Aborted]_mapVars PROVE MapInv'
    OBVIOUS
  <2>1. ASSUME assertion, NEW k \in Keys, hashmap_delete(k) PROVE MapInv'
    BY <2>1, DeleteKeepsInvariants
  <2>2. ASSUME assertion, NEW k \in Keys, NEW v \in Values, hashmap_put(k, v) PROVE MapInv'
    BY <2>2, PutKeepsInvariants
  <2>3. CASE Abort
    BY <2>3, AbortKeepsInvariants
  <2>4. CASE UNCHANGED mapVars
    BY <2>4 DEF mapVars, MapInv
  <2> QED BY <2>1, <2>2, <2>3, <2>4 DEF MapNext, Operation, Aborted
<1> QED BY <1>1, <1>2, PTL DEF MapSpec

(***************************************************************************)
(* hashmap_get finds every key that was put and not deleted, with its last *)
(* value, for every hash function, across collisions, tombstones, puts of  *)
(* keys that are there and rehashes. It finds another key, and rehash's    *)
(* assertion fails, only when some key was put in front of an entry it had *)
(* behind a tombstone.                                                     *)
(***************************************************************************)
THEOREM TableIsDictionary ==
    ASSUME HashMapAssumption
    PROVE  MapSpec => []MapIsDictionary
<1>1. ASSUME MapInv, NEW k \in Keys
      PROVE  /\ k \in DOMAIN dictionary => Found(buckets, k) /\ hashmap_get(k) = dictionary[k]
             /\ Found(buckets, k) => k \in DOMAIN dictionary \cup doubled
  <2>1. CASE buckets = <<>> /\ k \notin DOMAIN dictionary
    BY <2>1 DEF Found
  <2>2. CASE ~(buckets = <<>> /\ k \notin DOMAIN dictionary)
    <3>1. PICK b : b = buckets
      OBVIOUS
    <3>2. PICK d, twice, u : d = dictionary /\ twice = doubled /\ u = used
      OBVIOUS
    <3>3. PICK c : Counted(b, u, c) /\ IsDictionary(b, c, d, twice)
      BY <1>1, <2>2, <3>1, <3>2 DEF MapInv
    <3>4. IsTable(b, c) /\ HasNull(b, c)
      BY <3>3, CountedHasNull DEF Counted
    <3>5. ASSUME k \in DOMAIN d
          PROVE  Found(b, k) /\ b[Probe(b, k, Least(SearchStops(b, k)))].val = d[k]
      <4>1. Leads(b, c, k, d[k])
        BY <3>3, <3>5 DEF IsDictionary
      <4> QED BY <3>4, <4>1, LeadsIs
    <3>6. ASSUME Found(b, k), k \notin twice PROVE k \in DOMAIN d
      <4>1. PICK i : EndsAt(b, c, k, {"null"}, i) /\ (Found(b, k) <=> match(b[Probe(b, k, i)], k))
        BY <3>4, SearchIs
      <4>2. Holds(b, c, k)
        BY <3>6, <4>1 DEF EndsAt, Holds
      <4> QED BY <3>3, <3>6, <4>2 DEF IsDictionary
    <3> QED BY <3>1, <3>2, <3>5, <3>6 DEF hashmap_get
  <2> QED BY <2>1, <2>2
<1>2. MapInv => FindsWhatWasPut /\ FindsNothingElse
  BY <1>1 DEF FindsWhatWasPut, FindsNothingElse
<1>3. MapInv => MapIsDictionary
  BY <1>2 DEF MapIsDictionary, RehashKeepsCount, MapInv
<1> QED BY <1>3, MapInvariance, PTL
=============================================================================
