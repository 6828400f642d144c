------------------------------- MODULE HashMap -------------------------------
(***************************************************************************)
(* The hash table of the compiler, cc/hashmap.c: open addressing, deletion *)
(* by tombstones, and a rehash before an insertion that finds the table    *)
(* 70% used. The compiler keeps its macros, scopes, keywords and types in  *)
(* such tables; #undef is the caller of delete.                            *)
(*                                                                         *)
(* "dictionary" is what the caller believes: the value it last put for     *)
(* each key and did not delete. A key that is in the table behind a        *)
(* tombstone when it is put again gets a second entry before the first;    *)
(* "doubled" keeps such a key until a delete leaves no entry of it. The    *)
(* rehash that finds such a pair fails its assertion, and the program      *)
(* aborts.                                                                 *)
(***************************************************************************)
EXTENDS Integers, FiniteSets

CONSTANTS
    Keys, Values,
    Hash,         \* [Keys -> Nat], fnv_hash
    InitSize,     \* INIT_SIZE, 16 in the source; below 4 the table could fill up
    MaxCapacity   \* bound: no put once the table would grow past it

HashMapAssumption ==
    /\ Hash \in [Keys -> Nat] /\ InitSize \in Nat /\ InitSize >= 4
    /\ MaxCapacity \in Nat

VARIABLES
    buckets,      \* 0 .. capacity - 1 |-> an entry, or <<>> before the first put
    used,         \* buckets that are not NULL
    dictionary,   \* ghost
    doubled,      \* ghost
    assertion     \* what assert(map2.used == nkeys) found

mapVars == <<buckets, used, dictionary, doubled, assertion>>

HIGH_WATERMARK == 70
LOW_WATERMARK == 50

NULL == [kind |-> "null"]
TOMBSTONE == [kind |-> "tombstone"]
Entry(k, v) == [kind |-> "entry", key |-> k, val |-> v]

Capacity(b) == Cardinality(DOMAIN b)
Empty(capacity) == [i \in 0 .. capacity - 1 |-> NULL]
Least(S) == CHOOSE i \in S : \A j \in S : i <= j

Probe(b, k, i) == (Hash[k] + i) % Capacity(b)
match(ent, k) == ent.kind = "entry" /\ ent.key = k

(* Where the loops of get_entry and get_or_insert_entry stop: at the key or *)
(* at a bucket of these kinds; unreachable() is a set without a member.     *)
Stops(b, k, kinds) ==
    {i \in 0 .. Capacity(b) - 1 :
        LET e == b[Probe(b, k, i)] IN match(e, k) \/ e.kind \in kinds}

(* mutant: a search ends at a deleted entry *)
StopsAtTombstone(b, k) == Stops(b, k, {"null", "tombstone"})
SearchStops(b, k) == Stops(b, k, {"null"})

InsertStops(b, k) == Stops(b, k, {"null", "tombstone"})

Found(b, k) ==     \* get_entry # NULL
    /\ b # <<>>
    /\ match(b[Probe(b, k, Least(SearchStops(b, k)))], k)

hashmap_get(k) == buckets[Probe(buckets, k, Least(SearchStops(buckets, k)))].val

-----------------------------------------------------------------------------
(* get_or_insert_entry and the assignment of hashmap_put2, without rehash  *)
Inserted(map, k, v) ==
    LET at == Probe(map.buckets, k, Least(InsertStops(map.buckets, k)))
    IN [buckets |-> [map.buckets EXCEPT ![at] = Entry(k, v)],
        used |-> map.used + IF map.buckets[at] = NULL THEN 1 ELSE 0]

Live(b) == {i \in DOMAIN b : b[i].kind = "entry"}

(* mutant: the table only grows when it is full of live keys *)
FullEnoughOnlyWhenFull(size, capacity) == size >= capacity
FullEnough(size, capacity) == (size * 100) \div capacity >= HIGH_WATERMARK

(* the capacity is doubled until it is less than half used *)
Grown(nkeys, cap) ==
    LET capacity[j \in 0 .. nkeys] == IF j = 0 THEN cap ELSE capacity[j - 1] * 2
    IN capacity[Least({j \in 0 .. nkeys : (nkeys * 100) \div capacity[j] < LOW_WATERMARK})]

(* the insertions into the new table never rehash: it is below 50% *)
Rehashed(b) ==
    LET copied[i \in 0 .. Capacity(b)] ==
            IF i = 0 THEN [buckets |-> Empty(Grown(Cardinality(Live(b)), Capacity(b))), used |-> 0]
            ELSE IF i - 1 \in Live(b) THEN Inserted(copied[i - 1], b[i - 1].key, b[i - 1].val)
            ELSE copied[i - 1]
    IN copied[Capacity(b)]

Rehashes == buckets # <<>> /\ FullEnough(used, Capacity(buckets))

Prepared ==
    IF buckets = <<>> THEN [buckets |-> Empty(InitSize), used |-> 0]
    ELSE IF Rehashes THEN Rehashed(buckets)
    ELSE [buckets |-> buckets, used |-> used]

(* k is put in front of an entry that it has *)
Shadows(b, k) == Found(b, k) /\ ~match(b[Probe(b, k, Least(InsertStops(b, k)))], k)

CountIsKept == Rehashes => Prepared.used = Cardinality(Live(buckets))

hashmap_put(k, v) ==
    /\ Capacity(Prepared.buckets) <= MaxCapacity
    /\ CountIsKept
    /\ LET map == Inserted(Prepared, k, v)
       IN buckets' = map.buckets /\ used' = map.used
    /\ dictionary' = [x \in DOMAIN dictionary \cup {k} |-> IF x = k THEN v ELSE dictionary[x]]
    /\ doubled' = IF Shadows(Prepared.buckets, k) THEN doubled \cup {k} ELSE doubled
    /\ UNCHANGED assertion

hashmap_delete(k) ==
    /\ buckets' = IF Found(buckets, k)
                    THEN [buckets EXCEPT ![Probe(buckets, k, Least(SearchStops(buckets, k)))] = TOMBSTONE]
                    ELSE buckets
    /\ dictionary' = [x \in DOMAIN dictionary \ {k} |-> dictionary[x]]
    /\ doubled' = IF \E i \in DOMAIN buckets : match(buckets'[i], k) THEN doubled ELSE doubled \ {k}
    /\ UNCHANGED <<used, assertion>>

(* a put whose rehash fails assert(map2.used == nkeys) *)
Abort ==
    /\ ~CountIsKept
    /\ assertion' = FALSE
    /\ UNCHANGED <<buckets, used, dictionary, doubled>>

MapInit ==
    /\ buckets = <<>> /\ used = 0 /\ dictionary = <<>> /\ doubled = {} /\ assertion = TRUE

Operation ==
    \/ \E k \in Keys : hashmap_delete(k) \/ \E v \in Values : hashmap_put(k, v)
    \/ Abort

MapNext == assertion /\ Operation

Aborted == ~assertion /\ UNCHANGED mapVars

MapSpec == MapInit /\ [][MapNext \/ Aborted]_mapVars

-----------------------------------------------------------------------------
(***************************************************************************)
(* The table finds the keys that were put and not deleted, with their last *)
(* values, across collisions, tombstones and rehashes.                     *)
(***************************************************************************)
FindsWhatWasPut ==
    \A k \in Keys : k \in DOMAIN dictionary => Found(buckets, k) /\ hashmap_get(k) = dictionary[k]

(* And no other key, unless it once had two entries. *)
FindsNothingElse ==
    \A k \in Keys : Found(buckets, k) => k \in DOMAIN dictionary \cup doubled

(***************************************************************************)
(* Every search and insertion comes to an end before unreachable(): "used" *)
(* counts the tombstones too, and the rehash in time keeps a NULL bucket.  *)
(***************************************************************************)
NeverUnreachable ==
    buckets # <<>> =>
        /\ used = Cardinality({i \in DOMAIN buckets : buckets[i] # NULL})
        /\ \E i \in DOMAIN buckets : buckets[i] = NULL

(***************************************************************************)
(* assert(map2.used == nkeys) in rehash: the live entries that were        *)
(* counted are as many as the new table holds, so no key is in it twice.   *)
(***************************************************************************)
RehashKeepsCount == assertion

(***************************************************************************)
(* The table is the dictionary its caller believes in, but for one thing:  *)
(* a key that is put again behind a tombstone has two entries. The last    *)
(* value is the one that is found, and a later delete leaves the other     *)
(* one. Without such a key rehash's assertion holds.                       *)
(***************************************************************************)
MapIsDictionary ==
    /\ FindsWhatWasPut
    /\ FindsNothingElse
    /\ ~RehashKeepsCount => doubled # {}
===============================================================================
