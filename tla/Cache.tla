-------------------------------- MODULE Cache --------------------------------
(***************************************************************************)
(* The entry cache (libzlog/cache.cc) and its two eviction policies, LRU   *)
(* (eviction/lru.cc) and ARC (eviction/arc.cc), used by one thread.        *)
(*                                                                         *)
(* A policy keeps lists of positions and, per list, a hash map from        *)
(* positions to list nodes.  The code consults sometimes the one and       *)
(* sometimes the other, so both are kept: a list is a sequence, most       *)
(* recent first, and a hash map the set of its keys.  The maps lead to     *)
(* the right nodes as long as no list holds a position twice.              *)
(*                                                                         *)
(* arc_p is a double that no constructor sets; here it is an integer in    *)
(* units of 1 / Scale, or NaN.                                             *)
(***************************************************************************)
EXTENDS Integers, SequencesExt

CONSTANTS
    Positions,
    CacheSizes,   \* options.cache_size: entries, and the size no datum may reach
    DataSizes,    \* sizes of the data
    Scale,        \* a multiple of every possible size of a ghost list
    NaN,          \* the double that is no number
    WildP         \* uninitialised values of arc_p

ASSUME CacheAssumption ==
    /\ CacheSizes \subseteq Nat
    /\ DataSizes \subseteq Nat
    /\ Scale \in Nat \ {0}
    /\ WildP \subseteq Int \cup {NaN}

VARIABLES
    eviction,    \* options.eviction
    cache_size,  \* options.cache_size
    cache_map,   \* the positions that are cached
    lists,       \* the policy's lists, by name
    maps,        \* the keys of the hash map of each list
    arc_p,
    removed,     \* positions removed from the cache; they are not put again
    popped,      \* an empty list was popped, and anything may happen now
    used         \* history, for LRU: positions put or hit, most recent first

vars == <<eviction, cache_size, cache_map, lists, maps, arc_p, removed, popped, used>>

Names == {"lru", "t1", "t2", "b1", "b2"}

Empty == [lists |-> [l \in Names |-> <<>>], maps |-> [l \in Names |-> {}],
          cached |-> {}, p |-> 0, popped |-> FALSE]

Init ==
    /\ eviction \in {"LRU", "ARC"}
    /\ cache_size \in CacheSizes
    /\ cache_map = {}
    /\ lists = Empty.lists
    /\ maps = Empty.maps
    /\ arc_p \in IF eviction = "ARC" THEN WildP ELSE {0}
    /\ removed = {}
    /\ popped = FALSE
    /\ used = <<>>

\* The state a policy's functions pass on.
State == [lists |-> lists, maps |-> maps, cached |-> cache_map, p |-> arc_p, popped |-> popped]

Size(s, l) == Cardinality(s.maps[l])
Has(s, l, x) == x \in s.maps[l]

\* list.push_front(x), map[x] = list.begin()
PushFront(s, l, x) ==
    [s EXCEPT !.lists[l] = <<x>> \o @, !.maps[l] = @ \cup {x}]

\* splice of x's node to the front of list m, map entries following
Splice(s, l, m, x) ==
    PushFront([s EXCEPT !.lists[l] = RemoveFirst(@, x), !.maps[l] = @ \ {x}], m, x)

\* list.back(), map.erase, list.pop_back(); back() of an empty list is undefined.
PopBack(s, l) ==
    IF s.lists[l] = <<>> THEN [s EXCEPT !.popped = TRUE]
    ELSE [s EXCEPT !.lists[l] = Front(@), !.maps[l] = @ \ {Last(s.lists[l])}]

\* cache_ref->cache_map.erase(r)
Uncache(s, r) == [s EXCEPT !.cached = @ \ {r}]

(* LRU *)
\* Seeded fault: a hit does not count as a use.
FaultyLruGetHit(s, x) == s

LruGetHit(s, x) == Splice(s, "lru", "lru", x)

LruPutMiss(s, x) ==
    LET t == PushFront(s, "lru", x) IN
    IF Size(t, "lru") > cache_size
    THEN PopBack(Uncache(t, Last(t.lists["lru"])), "lru") ELSE t

(* ARC *)
ArcGetHit(s, x) ==
    IF Has(s, "t1", x) THEN Splice(s, "t1", "t2", x)
    ELSE IF Has(s, "t2", x) THEN Splice(s, "t2", "t2", x) ELSE s

\* get_delta_1 and get_delta_2: 1 or the ratio of the ghost lists
Delta(s, l, m) ==
    IF Size(s, l) >= Size(s, m) THEN Scale ELSE (Scale * Size(s, m)) \div Size(s, l)

\* std::min and std::max return their first argument when it is NaN.
Plus(p, d) == IF p = NaN THEN NaN ELSE IF cache_size * Scale < p + d THEN cache_size * Scale ELSE p + d
Minus(p, d) == IF p = NaN THEN NaN ELSE IF p - d < 0 THEN 0 ELSE p - d

\* A comparison with NaN is false.
AboveP(s) == s.p # NaN /\ Size(s, "t1") * Scale > s.p
NotAboveP(s) == s.p # NaN /\ Size(s, "t1") * Scale <= s.p

\* The last entry of list l leaves the cache and becomes a ghost.
Demote(s, l, ghosts) ==
    IF s.lists[l] = <<>> THEN PopBack(s, l)
    ELSE LET r == Last(s.lists[l]) IN PushFront(Uncache(PopBack(s, l), r), ghosts, r)

\* Seeded fault: an empty first list is not excepted.
FaultyReplace(s, x) ==
    IF AboveP(s) \/ (Has(s, "b2", x) /\ NotAboveP(s))
    THEN Demote(s, "t1", "b1") ELSE Demote(s, "t2", "b2")

replace(s, x) ==
    IF Size(s, "t1") > 0 /\ (AboveP(s) \/ (Has(s, "b2", x) /\ NotAboveP(s)))
    THEN Demote(s, "t1", "b1") ELSE Demote(s, "t2", "b2")

\* Seeded fault: one ghost too many.
FaultyMakeRoom(s, x) ==
    LET ghosted == Size(s, "t1") + Size(s, "b1")
        total == ghosted + Size(s, "t2") + Size(s, "b2")
    IN  IF ghosted >= cache_size THEN
             IF Size(s, "t1") < cache_size THEN replace(PopBack(s, "b1"), x)
             ELSE PopBack(Uncache(s, Last(s.lists["t1"])), "t1")
        ELSE IF total > 2 * cache_size THEN replace(PopBack(s, "b2"), x)
        ELSE IF total >= cache_size THEN replace(s, x)
        ELSE s

\* A position in none of the lists: make room for it.
MakeRoom(s, x) ==
    LET ghosted == Size(s, "t1") + Size(s, "b1")
        total == ghosted + Size(s, "t2") + Size(s, "b2")
    IN  IF ghosted >= cache_size THEN
             IF Size(s, "t1") < cache_size THEN replace(PopBack(s, "b1"), x)
             ELSE PopBack(Uncache(s, Last(s.lists["t1"])), "t1")
        ELSE IF total >= 2 * cache_size THEN replace(PopBack(s, "b2"), x)
        ELSE IF total >= cache_size THEN replace(s, x)
        ELSE s

ArcPutMiss(s, x) ==
    IF Has(s, "b1", x) THEN
         Splice(replace([s EXCEPT !.p = Plus(@, Delta(s, "b1", "b2"))], x), "b1", "t2", x)
    ELSE IF Has(s, "b2", x) THEN
         Splice(replace([s EXCEPT !.p = Minus(@, Delta(s, "b2", "b1"))], x), "b2", "t2", x)
    ELSE PushFront(MakeRoom(s, x), "t1", x)

(* Cache *)
Becomes(s) ==
    /\ lists' = s.lists /\ maps' = s.maps
    /\ cache_map' = s.cached
    /\ arc_p' = s.p
    /\ popped' = s.popped

Use(x) == used' = IF eviction = "LRU" THEN <<x>> \o RemoveFirst(used, x) ELSE used

\* Cache::put; the entry is cached after the policy has made room.
Put(x, size) ==
    /\ ~popped /\ x \notin removed
    /\ IF cache_size > 0 /\ size < cache_size /\ x \notin cache_map
       THEN /\ LET s == IF eviction = "LRU" THEN LruPutMiss(State, x) ELSE ArcPutMiss(State, x)
               IN  Becomes([s EXCEPT !.cached = @ \cup {x}])
            /\ Use(x)
       ELSE UNCHANGED <<cache_map, lists, maps, arc_p, popped, used>>
    /\ UNCHANGED <<eviction, cache_size, removed>>

\* Cache::get
Get(x) ==
    /\ ~popped
    /\ IF x \in cache_map
       THEN /\ Becomes(IF eviction = "LRU" THEN LruGetHit(State, x) ELSE ArcGetHit(State, x))
            /\ Use(x)
       ELSE UNCHANGED <<cache_map, lists, maps, arc_p, popped, used>>
    /\ UNCHANGED <<eviction, cache_size, removed>>

\* Cache::remove leaves the policy's lists alone.
RemoveEntry(x) ==
    /\ ~popped
    /\ cache_map' = cache_map \ {x}
    /\ removed' = removed \cup {x}
    /\ UNCHANGED <<eviction, cache_size, lists, maps, arc_p, popped, used>>

Next ==
    \E x \in Positions :
      \/ Get(x)
      \/ RemoveEntry(x)
      \/ \E n \in DataSizes : Put(x, n)

Spec == Init /\ [][Next]_vars

(* Properties *)
\* SizesBounded: every cached entry is in a list that can still evict it, these
\* lists never exceed cache_size, nor do ARC's ghosts exceed that many beside
\* them, whatever was put, hit or removed and whatever arc_p happened to be (the
\* cases of ARC::cache_put_miss decide by the sizes of the hash maps).
SizesBounded ==
    ~popped =>
        /\ cache_map \subseteq ToSet(lists["lru"] \o lists["t1"] \o lists["t2"])
        /\ Len(lists["lru"]) <= cache_size
        /\ Len(lists["t1"]) + Len(lists["t2"]) <= cache_size
        /\ Len(lists["t1"]) + Len(lists["b1"]) <= cache_size
        /\ Len(lists["t1"]) + Len(lists["t2"]) + Len(lists["b1"]) + Len(lists["b2"])
              <= 2 * cache_size

\* PopsOnlyFilled: an empty list is popped only if arc_p, which nothing initialises, started as
\* NaN: then ARC::replace always turns to the second list.
PopsOnlyFilled == popped => arc_p = NaN

\* MostRecentKept: the LRU cache forgets in the order of use: it tracks exactly the cache_size
\* positions used last, hits included.
MostRecentKept ==
    eviction = "LRU" =>
        lists["lru"] = SubSeq(used, 1, IF Len(used) < cache_size THEN Len(used) ELSE cache_size)
==============================================================================
