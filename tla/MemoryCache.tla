------------------------------ MODULE MemoryCache ------------------------------
(***************************************************************************)
(* The in-process store of packs/cache: a map under a mutex, and a list of *)
(* keys in the order they were stored, from which put evicts.  Deleting a  *)
(* key, or finding it expired, leaves the list alone.  What an item holds  *)
(* is left out, but for whether it has expired.                            *)
(***************************************************************************)
EXTENDS Integers, Sequences, FiniteSets

CONSTANTS
    Keys,
    Prefixed,   \* the keys DeletePrefix is called for
    MaxItems,   \* m.max
    MaxOrder    \* bound on the list

VARIABLES
    items,      \* the keys of m.items
    expired,    \* those whose time is over
    order       \* m.order

cacheVars == <<items, expired, order>>

TypeOK ==
    /\ items \subseteq Keys
    /\ expired \subseteq items
    /\ order \in Seq(Keys)

Init ==
    /\ items = {}
    /\ expired = {}
    /\ order = <<>>

\* Mutant of Evict: one entry of the list goes for one that comes.
EvictOne(known, list) ==
    IF Cardinality(known) >= MaxItems /\ list # <<>>
    THEN [known |-> known \ {Head(list)}, list |-> Tail(list)]
    ELSE [known |-> known, list |-> list]

Dropped(list, k) == {list[h] : h \in 1..k}

\* The loop of put: entries go until there is room or none is left.
Cut(known, list) ==
    LET enough == {k \in 0..Len(list) : Cardinality(known \ Dropped(list, k)) < MaxItems}
                      \cup {Len(list)}
    IN  CHOOSE k \in enough : \A h \in enough : k <= h

Evict(known, list) ==
    [known |-> known \ Dropped(list, Cut(known, list)),
     list  |-> SubSeq(list, Cut(known, list) + 1, Len(list))]

\* put of a key, under the lock.
Put(key) ==
    IF key \in items
    THEN UNCHANGED <<items, order>>
    ELSE LET left == Evict(items, order)
         IN  /\ items' = left.known \cup {key}
             /\ order' = Append(left.list, key)

Get(key) ==
    /\ key \in expired
    /\ items' = items \ {key}
    /\ expired' = expired \ {key}
    /\ UNCHANGED order

\* Set gives the key a new expiry.
Set(key) ==
    /\ Len(order) < MaxOrder
    /\ Put(key)
    /\ expired' = (expired \cap items') \ {key}

\* Incr of a key that has expired begins a new window in its place; one that has not
\* keeps its expiry.  A value that is no integer is an error and changes nothing.
Incr(key) ==
    /\ Len(order) < MaxOrder
    /\ Put(key)
    /\ expired' = (expired \cap items') \ {key}

Expire(key) ==
    /\ key \in items \ expired
    /\ expired' = expired \cup {key}
    /\ UNCHANGED <<items, order>>

Delete(keys) ==
    /\ items' = items \ keys
    /\ expired' = expired \ keys
    /\ UNCHANGED order

DeletePrefix == Delete(Prefixed)

Next ==
    \/ \E key \in Keys : Get(key) \/ Set(key) \/ Incr(key) \/ Expire(key) \/ Delete({key})
    \/ DeletePrefix

Spec == Init /\ [][Next]_cacheVars

-----------------------------------------------------------------------------

\* "NewMemory returns a backend holding at most max entries" (cache.go:188): the list has
\* an entry for every key of the map, stale ones notwithstanding, so that the eviction
\* always finds one to remove.
Bounded ==
    /\ Cardinality(items) <= MaxItems
    /\ \A key \in items : \E k \in 1..Len(order) : order[k] = key

\* "Memory is the bounded in-process backend" (cache.go:175), the list included.
OrderBounded == Len(order) <= MaxItems
=============================================================================
