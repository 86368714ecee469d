----------------------------- MODULE HeadsProofs -----------------------------
(***************************************************************************)
(* Creating and opening a log, for any number of clients, head objects and *)
(* crashes, on the RAM, LMDB and Ceph backends.                            *)
(***************************************************************************)
EXTENDS Heads, FiniteSetTheorems, WellFoundedInduction, TLAPS

-----------------------------------------------------------------------------
(* The inductive invariant *)

Seqs == [epoch : Nat, token : Int]
ViewData == [seq : Seqs]
CachedViews == [epoch : Nat, seq : Seqs]

ClientState ==
    [pc : Busy \cup Idle, task : {"open", "expand"}, hoid : 0 .. MaxHeads, id : Int,
     options : SUBSET {"create_if_missing", "error_if_exists"}, created : BOOLEAN,
     view : CachedViews, cur : CachedViews, retries : Int, ret : {"OK", "ESPIPE"}]

\* The head objects of the three backends
RamHead(x) ==
    /\ x = [epoch |-> x.epoch, projections |-> x.projections]
    /\ x.epoch \in Nat \ {0} /\ x.projections \in [1 .. x.epoch -> ViewData]

CephHead(x) ==
    /\ x = [epoch |-> x.epoch, views |-> x.views, unique_id |-> x.unique_id]
    /\ x.epoch \in Nat /\ x.unique_id \in Nat
    /\ x.views \in [1 .. x.epoch -> ViewData]

LmdbHead(x) == x \in [epoch : Nat \ {0}, unique_id : Nat]

\* LMDB's views are those of the epochs 1 to the head's, the last of which may
\* be missing.
LmdbViews ==
    /\ \A k \in DOMAIN store : k[1] = "view" =>
         /\ k[2] \in Heads /\ k[3] \in 1 .. Epoch(k[2])
         /\ store[k] \in ViewData
    /\ \A h \in Heads : \A e \in 1 .. Epoch(h) :
         e = 1 \/ e < Epoch(h) => Present(L!ProjectionKey(h, e))

\* A link leads to a head that has its first view.
LinkOK ==
    Present(LinkKey) => store[LinkKey] \in Heads /\ 1 \in DOMAIN Stored(store[LinkKey])

StoreInv ==
    /\ kind \in {"ram", "lmdb", "ceph"}
    /\ kind = "ram"  => \A h \in Heads : RamHead(store[HeadKey(h)])
    /\ kind = "ceph" => \A h \in Heads : CephHead(store[HeadKey(h)])
    /\ kind = "lmdb" => (\A h \in Heads : LmdbHead(store[HeadKey(h)])) /\ LmdbViews
    /\ LinkOK

\* create_or_open has returned the log's head.
Past == {"uid", "uid_write", "refresh", "propose", "wait", "open"} \cup Committing

\* and the reader has a view
HasViewPcs == {"propose", "propose_commit", "wait", "open"}

\* What the state of a client's call says of the store
Fits(me) ==
    /\ me.pc \in Past \cup {"get_head"} => Present(LinkKey) /\ me.hoid = store[LinkKey]
    /\ me.pc \in {"first_view", "link"} => me.hoid \in Heads
    /\ me.pc = "link" => kind # "lmdb" /\ 1 \in DOMAIN Stored(me.hoid)
    /\ me.pc \notin Past => me.id = -1 /\ ~me.created
    /\ me.pc \in Past /\ "error_if_exists" \in me.options => me.created
    /\ me.pc \in HasViewPcs => me.view.epoch \in DOMAIN Stored(me.hoid)
    /\ me.pc \in Committing => kind = "lmdb"
    /\ me.pc \in {"get_head", "first_view", "uid_write"} => kind = "ceph"
    /\ me.pc = "propose_commit" =>
         /\ Epoch(me.hoid) = me.view.epoch + 1
         /\ ~Present(L!ProjectionKey(me.hoid, me.view.epoch + 1))

\* One write transaction, and one creator
OneWriter == \A c, d \in Clients : cl[c].pc \in Committing /\ cl[d].pc \in Committing => c = d
OneCreator == \A c, d \in Clients : cl[c].created /\ cl[d].created => c = d

ClientInv ==
    /\ cl \in [Clients -> ClientState]
    /\ \A c \in Clients : Fits(cl[c])
    /\ OneWriter
    /\ OneCreator

\* A token of the head was handed out before the counter reached where it is.
Spent(h, id) ==
    IF kind = "ram" THEN id < R!NextId(store)
    ELSE h \in Heads /\ IF kind = "lmdb" THEN id < store[HeadKey(h)].unique_id
                        ELSE id <= store[HeadKey(h)].unique_id

\* LMDB: the token of a client whose transaction has still to commit
HeldToken(me) ==
    me.pc = "uid_commit" =>
        Spent(me.hoid, me.id) /\ <<me.hoid, me.id>> \notin tokens.issued

TokenInv ==
    /\ R!NextId(store) \in Nat
    /\ tokens.issued \subseteq Uuids \X Int
    /\ \A x \in tokens.issued : Spent(x[1], x[2])
    /\ tokens.twice = {}
    /\ \A c \in Clients : HeldToken(cl[c])

HeadsInv == StoreInv /\ ClientInv /\ TokenInv

-----------------------------------------------------------------------------
(* Keys and maps *)

\* Records of different kinds have different keys.
LEMMA Keys ==
    ASSUME NEW h, NEW g, NEW e, NEW f
    PROVE  /\ HeadKey(h) # LinkKey /\ R!IdKey # LinkKey /\ R!IdKey # HeadKey(h)
           /\ L!ProjectionKey(h, e) # LinkKey /\ L!ProjectionKey(h, e) # HeadKey(g)
           /\ L!ProjectionKey(h, e) # R!IdKey
           /\ HeadKey(h) = HeadKey(g) <=> h = g
           /\ L!ProjectionKey(h, e) = L!ProjectionKey(g, f) <=> h = g /\ e = f
           /\ HeadKey(h)[1] # "view" /\ LinkKey[1] # "view" /\ R!IdKey[1] # "view"
           /\ L!ProjectionKey(h, e)[1] = "view"
           /\ L!ProjectionKey(h, e)[2] = h /\ L!ProjectionKey(h, e)[3] = e
BY DEF HeadKey, LinkKey, R!IdKey, L!ProjectionKey

\* The three backends name heads and links alike.
LEMMA SameKeys ==
    /\ \A h : R!HeadKey(h) = HeadKey(h) /\ L!HeadKey(h) = HeadKey(h)
    /\ R!LinkKey(Name) = LinkKey /\ L!LinkKey(Name) = LinkKey
BY DEF HeadKey, LinkKey, R!HeadKey, L!HeadKey, R!LinkKey, L!LinkKey

\* The step changes the store at the keys K only, which are then present.
Touches(K) ==
    /\ DOMAIN store' = DOMAIN store \cup K
    /\ \A k \in DOMAIN store \ K : store'[k] = store[k]

\* What stays when heads, links and views are left alone.
LEMMA TouchedHeads ==
    ASSUME NEW K, Touches(K)
    PROVE  /\ \A h \in Uuids : h \in Heads' <=> h \in Heads \/ HeadKey(h) \in K
           /\ \A h \in Heads : HeadKey(h) \notin K => store'[HeadKey(h)] = store[HeadKey(h)]
           /\ Present(LinkKey) => Present(LinkKey)'
           /\ Present(LinkKey) /\ LinkKey \notin K => store'[LinkKey] = store[LinkKey]
           /\ Present(LinkKey)' /\ LinkKey \notin K => Present(LinkKey)
BY DEF Touches, Heads, Present

\* The views of a head, for each backend
LEMMA StoredViews ==
    ASSUME StoreInv, NEW h \in Heads
    PROVE  /\ Epoch(h) \in Nat
           /\ kind # "lmdb" => DOMAIN Stored(h) = 1 .. Epoch(h)
           /\ kind = "lmdb" =>
                DOMAIN Stored(h) = {e \in 1 .. Epoch(h) : Present(L!ProjectionKey(h, e))}
           /\ \A e \in DOMAIN Stored(h) :
                e \in 1 .. Epoch(h) /\ Stored(h)[e] \in ViewData
<1>1. CASE kind = "ram"
  <2>1. RamHead(store[HeadKey(h)]) /\ Stored(h) = store[HeadKey(h)].projections
    BY <1>1 DEF StoreInv, Stored
  <2> QED BY <1>1, <2>1 DEF RamHead, Epoch
<1>2. CASE kind = "ceph"
  <2>1. CephHead(store[HeadKey(h)]) /\ Stored(h) = store[HeadKey(h)].views
    BY <1>2 DEF StoreInv, Stored
  <2> QED BY <1>2, <2>1 DEF CephHead, Epoch
<1>3. CASE kind = "lmdb"
  <2>1. LmdbHead(store[HeadKey(h)]) /\ LmdbViews
    BY <1>3 DEF StoreInv
  <2>2. Epoch(h) \in Nat
    BY <2>1 DEF LmdbHead, Epoch
  <2> DEFINE es == {e \in 1 .. Epoch(h) : Present(L!ProjectionKey(h, e))}
  <2>3. Stored(h) = [e \in es |-> store[L!ProjectionKey(h, e)]]
    BY <1>3 DEF Stored
  <2>4. \A e \in es : store[L!ProjectionKey(h, e)] \in ViewData
    BY <2>1, Keys DEF LmdbViews, Present
  <2> QED BY <1>3, <2>2, <2>3, <2>4
<1> QED BY <1>1, <1>2, <1>3 DEF StoreInv

\* What a step that adds to the store leaves as it was: the link, and of every
\* head the views.
Grows ==
    /\ kind' = kind
    /\ Present(LinkKey) => Present(LinkKey)' /\ store'[LinkKey] = store[LinkKey]
    /\ \A h \in Heads : h \in Heads' /\ Epoch(h)' >= Epoch(h)
                        /\ \A e \in DOMAIN Stored(h) : e \in DOMAIN Stored(h)'
                             /\ Stored(h)'[e] = Stored(h)[e]

\* The views of a head that the step leaves alone
LEMMA SameHead ==
    ASSUME StoreInv, kind' = kind, NEW h \in Heads,
           store'[HeadKey(h)] = store[HeadKey(h)], h \in Heads',
           kind = "lmdb" => \A e \in 1 .. Epoch(h) :
             LET k == L!ProjectionKey(h, e)
             IN  (Present(k)' <=> Present(k)) /\ (Present(k) => store'[k] = store[k])
    PROVE  Epoch(h)' = Epoch(h) /\ Stored(h)' = Stored(h) /\ Epoch(h)' >= Epoch(h)
<1>1. Epoch(h)' = Epoch(h) /\ Epoch(h) \in Nat
  BY StoredViews DEF Epoch
<1>2. CASE kind = "ram" \/ kind = "ceph"
  BY <1>1, <1>2 DEF Stored
<1>3. CASE kind = "lmdb"
  <2> DEFINE es == {e \in 1 .. Epoch(h) : Present(L!ProjectionKey(h, e))}
  <2>1. Stored(h) = [e \in es |-> store[L!ProjectionKey(h, e)]]
    BY <1>3 DEF Stored
  <2>2. Stored(h)' = [e \in es |-> store'[L!ProjectionKey(h, e)]]
    <3>1. Stored(h)' = [e \in {e \in 1 .. Epoch(h)' : Present(L!ProjectionKey(h, e))'} |->
                          store'[L!ProjectionKey(h, e)]]
      BY <1>3 DEF Stored, L!ProjectionKey
    <3>2. {e \in 1 .. Epoch(h)' : Present(L!ProjectionKey(h, e))'} = es
      BY <1>1, <1>3
    <3> QED BY <3>1, <3>2
  <2>3. \A e \in es : store'[L!ProjectionKey(h, e)] = store[L!ProjectionKey(h, e)]
    BY <1>3
  <2> QED BY <1>1, <2>1, <2>2, <2>3
<1> QED BY <1>1, <1>2, <1>3 DEF StoreInv

-----------------------------------------------------------------------------
(* Steps of the store *)

\* The heads that the step leaves alone, with their views
LEMMA UntouchedHead ==
    ASSUME StoreInv, kind' = kind, NEW K, Touches(K), NEW h \in Heads, HeadKey(h) \notin K,
           kind = "lmdb" => \A e \in Nat : L!ProjectionKey(h, e) \notin K
    PROVE  /\ h \in Heads' /\ store'[HeadKey(h)] = store[HeadKey(h)]
           /\ Epoch(h)' = Epoch(h) /\ Stored(h)' = Stored(h) /\ Epoch(h)' >= Epoch(h)
           /\ Epoch(h) \in Nat
<1>1. h \in Heads' /\ store'[HeadKey(h)] = store[HeadKey(h)]
  BY TouchedHeads DEF Heads
<1>2. Epoch(h) \in Nat
  BY StoredViews
<1>3. ASSUME kind = "lmdb", NEW e \in 1 .. Epoch(h)
      PROVE  LET k == L!ProjectionKey(h, e)
             IN  (Present(k)' <=> Present(k)) /\ (Present(k) => store'[k] = store[k])
  <2>1. L!ProjectionKey(h, e) \notin K
    BY <1>2, <1>3
  <2>2. PICK k : k = L!ProjectionKey(h, e)
    OBVIOUS
  <2>3. (Present(k)' <=> Present(k)) /\ (Present(k) => store'[k] = store[k])
    BY <2>1, <2>2 DEF Touches, Present
  <2>4. (Present(L!ProjectionKey(h, e)))' <=> k \in DOMAIN store'
    BY <2>2 DEF Present, L!ProjectionKey
  <2> QED BY <2>2, <2>3, <2>4 DEF Present
<1> QED BY <1>1, <1>2, <1>3, SameHead

\* Where no head changes, the store only needs its views looked at.
LEMMA OtherKeysStep ==
    ASSUME StoreInv, kind' = kind, NEW K, Touches(K), K = {} \/ K = {R!IdKey}
    PROVE  /\ StoreInv' /\ Grows /\ Heads' = Heads
           /\ \A h \in Heads : Epoch(h)' = Epoch(h) /\ Stored(h)' = Stored(h)
                               /\ store'[HeadKey(h)] = store[HeadKey(h)]
           /\ \A h, e : Present(L!ProjectionKey(h, e))' <=> Present(L!ProjectionKey(h, e))
<1>1. \A h, e : HeadKey(h) \notin K /\ L!ProjectionKey(h, e) \notin K
  BY Keys
<1>2. LinkKey \notin K
  BY Keys
<1>3. Heads' = Heads
  BY <1>1, TouchedHeads DEF Heads
<1>4. \A h \in Heads : /\ store'[HeadKey(h)] = store[HeadKey(h)]
                       /\ Epoch(h)' = Epoch(h) /\ Stored(h)' = Stored(h)
                       /\ Epoch(h)' >= Epoch(h)
  BY <1>1, UntouchedHead
<1>5. Present(LinkKey)' <=> Present(LinkKey)
  BY <1>2 DEF Touches, Present
<1>6. Present(LinkKey) => store'[LinkKey] = store[LinkKey]
  BY <1>2, TouchedHeads
<1>7. Grows
  BY <1>3, <1>4, <1>5, <1>6 DEF Grows
<1>8. LinkOK'
  <2> SUFFICES ASSUME Present(LinkKey)'
               PROVE  store'[LinkKey] \in Heads' /\ 1 \in DOMAIN (Stored(store[LinkKey])')
    BY DEF LinkOK
  <2>1. PICK h : h = store[LinkKey]
    OBVIOUS
  <2>2. h \in Heads /\ 1 \in DOMAIN Stored(h) /\ store'[LinkKey] = h
    BY <1>5, <1>6, <2>1 DEF StoreInv, LinkOK
  <2>3. 1 \in DOMAIN Stored(h)'
    BY <1>4, <2>2
  <2> QED BY <1>3, <2>2, <2>3
<1>9. ASSUME kind = "lmdb" PROVE LmdbViews'
  <2>1. LmdbViews
    BY <1>9 DEF StoreInv
  <2>2. ASSUME NEW k \in DOMAIN store', k[1] = "view"
        PROVE  k[2] \in Heads' /\ k[3] \in 1 .. Epoch(k[2])' /\ store'[k] \in ViewData
    <3>1. k \in DOMAIN store /\ store'[k] = store[k]
      BY <2>2, Keys DEF Touches
    <3>2. PICK g : g = k[2]
      OBVIOUS
    <3>3. g \in Heads /\ k[3] \in 1 .. Epoch(g) /\ store[k] \in ViewData
      BY <2>1, <2>2, <3>1, <3>2 DEF LmdbViews
    <3> QED BY <1>3, <1>4, <3>1, <3>2, <3>3
  <2>3. ASSUME NEW h \in Heads', NEW e \in 1 .. Epoch(h)', e = 1 \/ e < Epoch(h)'
        PROVE  Present(L!ProjectionKey(h, e))'
    <3>1. Present(L!ProjectionKey(h, e))
      BY <1>3, <1>4, <2>1, <2>3 DEF LmdbViews
    <3> QED BY <1>1, <3>1 DEF Present, Touches, L!ProjectionKey
  <2> QED BY <2>2, <2>3 DEF LmdbViews
<1>10. StoreInv'
  BY <1>3, <1>4, <1>8, <1>9 DEF StoreInv, RamHead, CephHead, LmdbHead
<1>11. \A h, e : Present(L!ProjectionKey(h, e))' <=> Present(L!ProjectionKey(h, e))
  BY <1>1 DEF Present, Touches, L!ProjectionKey
<1> QED BY <1>3, <1>4, <1>7, <1>10, <1>11

\* A head is created or changed.
LEMMA HeadStep ==
    ASSUME StoreInv, kind' = kind, NEW g \in Uuids, Touches({HeadKey(g)}),
           kind = "ram" => RamHead(store'[HeadKey(g)]),
           kind = "ceph" => CephHead(store'[HeadKey(g)]),
           kind = "lmdb" =>
             /\ g \in Heads /\ LmdbHead(store'[HeadKey(g)])
             /\ \A e \in 1 .. Epoch(g)' :
                  e = 1 \/ e < Epoch(g)' => Present(L!ProjectionKey(g, e)),
           g \in Heads =>
             /\ Epoch(g)' >= Epoch(g)
             /\ \A e \in DOMAIN Stored(g) : e \in DOMAIN Stored(g)'
                                            /\ Stored(g)'[e] = Stored(g)[e]
    PROVE  /\ StoreInv' /\ Grows /\ Heads' = Heads \cup {g}
           /\ \A h \in Heads \ {g} :
                Epoch(h)' = Epoch(h) /\ Stored(h)' = Stored(h)
                /\ store'[HeadKey(h)] = store[HeadKey(h)]
           /\ \A h, e : Present(L!ProjectionKey(h, e))' <=> Present(L!ProjectionKey(h, e))
<1> DEFINE K == {HeadKey(g)}
<1>1. \A h, e : (HeadKey(h) \in K <=> h = g) /\ L!ProjectionKey(h, e) \notin K
  BY Keys
<1>2. LinkKey \notin K
  BY Keys
<1>3. Heads' = Heads \cup {g}
  BY <1>1, TouchedHeads DEF Heads
<1>4. ASSUME NEW h \in Heads \ {g}
      PROVE  /\ store'[HeadKey(h)] = store[HeadKey(h)]
             /\ Epoch(h)' = Epoch(h) /\ Stored(h)' = Stored(h) /\ Epoch(h)' >= Epoch(h)
  <2>1. HeadKey(h) \notin {HeadKey(g)}
        /\ \A e \in Nat : L!ProjectionKey(h, e) \notin {HeadKey(g)}
    BY Keys
  <2> QED BY <2>1, UntouchedHead
<1>5. (Present(LinkKey)' <=> Present(LinkKey))
      /\ (Present(LinkKey) => store'[LinkKey] = store[LinkKey])
  BY <1>2 DEF Touches, Present
<1> HIDE DEF K
<1>6. Grows
  BY <1>3, <1>4, <1>5 DEF Grows
<1>7. LinkOK'
  <2> SUFFICES ASSUME Present(LinkKey)'
               PROVE  store'[LinkKey] \in Heads' /\ 1 \in DOMAIN (Stored(store[LinkKey])')
    BY DEF LinkOK
  <2>1. PICK h : h = store[LinkKey]
    OBVIOUS
  <2>2. h \in Heads /\ 1 \in DOMAIN Stored(h) /\ store'[LinkKey] = h
    BY <1>5, <2>1 DEF StoreInv, LinkOK
  <2>3. 1 \in DOMAIN Stored(h)'
    BY <1>4, <2>2
  <2> QED BY <1>3, <2>2, <2>3
<1>8. \A h, e : Present(L!ProjectionKey(h, e))' <=> Present(L!ProjectionKey(h, e))
  BY <1>1 DEF Present, Touches, L!ProjectionKey, K
<1>9. ASSUME kind = "lmdb" PROVE LmdbViews'
  <2>1. LmdbViews
    BY <1>9 DEF StoreInv
  <2>2. ASSUME NEW k \in DOMAIN store', k[1] = "view"
        PROVE  k[2] \in Heads' /\ k[3] \in 1 .. Epoch(k[2])' /\ store'[k] \in ViewData
    <3>1. k \in DOMAIN store /\ store'[k] = store[k]
      BY <2>2, Keys DEF Touches
    <3>2. PICK h : h = k[2]
      OBVIOUS
    <3>3. h \in Heads /\ k[3] \in 1 .. Epoch(h) /\ store[k] \in ViewData
      BY <2>1, <2>2, <3>1, <3>2 DEF LmdbViews
    <3>4. Epoch(h)' >= Epoch(h) /\ Epoch(h)' \in Int /\ Epoch(h) \in Int
      <4>1. Epoch(h) \in Nat
        BY <3>3, StoredViews
      <4>2. CASE h = g
        BY <1>9, <3>3, <4>1, <4>2 DEF LmdbHead, Epoch
      <4>3. CASE h # g
        BY <1>4, <3>3, <4>1, <4>3
      <4> QED BY <4>2, <4>3
    <3>5. k[3] \in 1 .. Epoch(h)'
      BY <3>3, <3>4
    <3> QED BY <1>3, <3>1, <3>2, <3>3, <3>5
  <2>3. ASSUME NEW h \in Heads', NEW e \in 1 .. Epoch(h)', e = 1 \/ e < Epoch(h)'
        PROVE  Present(L!ProjectionKey(h, e))'
    <3>1. Present(L!ProjectionKey(h, e))
      <4>1. CASE h = g
        BY <1>9, <2>3, <4>1
      <4>2. CASE h # g
        BY <1>3, <1>4, <2>1, <2>3, <4>2 DEF LmdbViews
      <4> QED BY <4>1, <4>2
    <3> QED BY <1>8, <3>1
  <2> QED BY <2>2, <2>3 DEF LmdbViews
<1>10. StoreInv'
  <2>1. ASSUME kind = "ram", NEW h \in Heads' PROVE RamHead(store'[HeadKey(h)])
    BY <1>3, <1>4, <2>1 DEF StoreInv
  <2>2. ASSUME kind = "ceph", NEW h \in Heads' PROVE CephHead(store'[HeadKey(h)])
    BY <1>3, <1>4, <2>2 DEF StoreInv
  <2>3. ASSUME kind = "lmdb", NEW h \in Heads' PROVE LmdbHead(store'[HeadKey(h)])
    BY <1>3, <1>4, <2>3 DEF StoreInv
  <2> QED BY <1>7, <1>9, <2>1, <2>2, <2>3 DEF StoreInv, RamHead, CephHead, LmdbHead
<1> QED BY <1>3, <1>4, <1>6, <1>8, <1>10

\* The link is created, to a head that has its first view.
LEMMA LinkStep ==
    ASSUME StoreInv, kind' = kind, NEW g \in Heads, 1 \in DOMAIN Stored(g),
           Touches({LinkKey}), ~Present(LinkKey), store'[LinkKey] = g
    PROVE  /\ StoreInv' /\ Grows /\ Heads' = Heads /\ Present(LinkKey)'
           /\ \A h \in Heads : Epoch(h)' = Epoch(h) /\ Stored(h)' = Stored(h)
                               /\ store'[HeadKey(h)] = store[HeadKey(h)]
           /\ \A h, e : Present(L!ProjectionKey(h, e))' <=> Present(L!ProjectionKey(h, e))
<1> DEFINE K == {LinkKey}
<1>1. \A h, e : HeadKey(h) \notin K /\ L!ProjectionKey(h, e) \notin K
  BY Keys
<1>2. Heads' = Heads
  BY <1>1, TouchedHeads DEF Heads
<1>3. \A h \in Heads : /\ store'[HeadKey(h)] = store[HeadKey(h)]
                       /\ Epoch(h)' = Epoch(h) /\ Stored(h)' = Stored(h)
                       /\ Epoch(h)' >= Epoch(h)
  BY <1>1, UntouchedHead
<1>4. Grows
  BY <1>2, <1>3 DEF Grows
<1>5. LinkOK'
  <2>1. 1 \in DOMAIN Stored(g)'
    BY <1>3
  <2> QED BY <1>2, <2>1 DEF LinkOK
<1>6. \A h, e : Present(L!ProjectionKey(h, e))' <=> Present(L!ProjectionKey(h, e))
  BY <1>1 DEF Present, Touches, L!ProjectionKey
<1>7. ASSUME kind = "lmdb" PROVE LmdbViews'
  <2>1. LmdbViews
    BY <1>7 DEF StoreInv
  <2>2. ASSUME NEW k \in DOMAIN store', k[1] = "view"
        PROVE  k[2] \in Heads' /\ k[3] \in 1 .. Epoch(k[2])' /\ store'[k] \in ViewData
    <3>1. k \in DOMAIN store /\ store'[k] = store[k]
      BY <2>2, Keys DEF Touches
    <3>2. PICK h : h = k[2]
      OBVIOUS
    <3>3. h \in Heads /\ k[3] \in 1 .. Epoch(h) /\ store[k] \in ViewData
      BY <2>1, <2>2, <3>1, <3>2 DEF LmdbViews
    <3> QED BY <1>2, <1>3, <3>1, <3>2, <3>3
  <2>3. ASSUME NEW h \in Heads', NEW e \in 1 .. Epoch(h)', e = 1 \/ e < Epoch(h)'
        PROVE  Present(L!ProjectionKey(h, e))'
    BY <1>2, <1>3, <1>6, <2>1, <2>3 DEF LmdbViews
  <2> QED BY <2>2, <2>3 DEF LmdbViews
<1>8. StoreInv'
  BY <1>2, <1>3, <1>5, <1>7 DEF StoreInv, RamHead, CephHead, LmdbHead
<1>9. Present(LinkKey)'
  BY DEF Touches, Present
<1> QED BY <1>2, <1>3, <1>4, <1>6, <1>8, <1>9

\* LMDB creates head, first view and link in one transaction.
LEMMA LogStep ==
    ASSUME StoreInv, kind = "lmdb", kind' = kind, NEW g \in Uuids,
           ~Present(HeadKey(g)), ~Present(LinkKey),
           Touches({HeadKey(g), L!ProjectionKey(g, 1), LinkKey}),
           store'[HeadKey(g)] = [epoch |-> 1, unique_id |-> 0],
           store'[L!ProjectionKey(g, 1)] \in ViewData, store'[LinkKey] = g
    PROVE  /\ StoreInv' /\ Grows /\ Heads' = Heads \cup {g} /\ Present(LinkKey)'
           /\ \A h \in Heads : Epoch(h)' = Epoch(h) /\ Stored(h)' = Stored(h)
                               /\ store'[HeadKey(h)] = store[HeadKey(h)]
<1> DEFINE K == {HeadKey(g), L!ProjectionKey(g, 1), LinkKey}
<1>1. g \notin Heads /\ (\A h : HeadKey(h) \in K <=> h = g)
  BY Keys DEF Heads
<1>2. Heads' = Heads \cup {g}
  BY <1>1, TouchedHeads DEF Heads
<1>3. ASSUME NEW h \in Heads
      PROVE  /\ store'[HeadKey(h)] = store[HeadKey(h)]
             /\ Epoch(h)' = Epoch(h) /\ Stored(h)' = Stored(h) /\ Epoch(h)' >= Epoch(h)
  <2>1. HeadKey(h) \notin K /\ \A e \in Nat : L!ProjectionKey(h, e) \notin K
    BY <1>1, Keys
  <2> HIDE DEF K
  <2> QED BY <2>1, UntouchedHead DEF K
<1>4. Grows
  BY <1>2, <1>3 DEF Grows
<1>5. Epoch(g)' = 1
  BY DEF Epoch
<1>6. L!ProjectionKey(g, 1) \in DOMAIN store' /\ LinkKey \in DOMAIN store'
  BY DEF Touches
<1>7. LinkOK'
  <2>1. Stored(g)' = [e \in {e \in 1 .. Epoch(g)' : Present(L!ProjectionKey(g, e))'} |->
                        store'[L!ProjectionKey(g, e)]]
    BY DEF Stored, L!ProjectionKey
  <2>2. 1 \in {e \in 1 .. Epoch(g)' : Present(L!ProjectionKey(g, e))'}
    BY <1>5, <1>6 DEF Present, L!ProjectionKey
  <2>3. 1 \in DOMAIN Stored(g)'
    BY <2>1, <2>2
  <2> QED BY <1>2, <2>3 DEF LinkOK
<1>8. LmdbViews'
  <2>1. LmdbViews
    BY DEF StoreInv
  <2>2. ASSUME NEW k \in DOMAIN store', k[1] = "view"
        PROVE  k[2] \in Heads' /\ k[3] \in 1 .. Epoch(k[2])' /\ store'[k] \in ViewData
    <3>1. CASE k = L!ProjectionKey(g, 1)
      <4>1. k[2] = g /\ k[3] = 1
        BY <3>1, Keys
      <4> QED BY <1>2, <1>5, <3>1, <4>1
    <3>2. CASE k # L!ProjectionKey(g, 1)
      <4>1. k \in DOMAIN store /\ store'[k] = store[k]
        BY <2>2, <3>2, Keys DEF Touches
      <4>2. PICK h : h = k[2]
        OBVIOUS
      <4>3. h \in Heads /\ k[3] \in 1 .. Epoch(h) /\ store[k] \in ViewData
        BY <2>1, <2>2, <4>1, <4>2 DEF LmdbViews
      <4> QED BY <1>2, <1>3, <4>1, <4>2, <4>3
    <3> QED BY <3>1, <3>2
  <2>3. ASSUME NEW h \in Heads', NEW e \in 1 .. Epoch(h)', e = 1 \/ e < Epoch(h)'
        PROVE  Present(L!ProjectionKey(h, e))'
    <3>1. CASE h = g
      <4>1. e = 1
        BY <1>5, <2>3, <3>1
      <4> QED BY <1>6, <3>1, <4>1 DEF Present, L!ProjectionKey
    <3>2. CASE h # g
      <4>1. Present(L!ProjectionKey(h, e))
        BY <1>2, <1>3, <2>1, <2>3, <3>2 DEF LmdbViews
      <4> QED BY <4>1 DEF Present, Touches, L!ProjectionKey
    <3> QED BY <3>1, <3>2
  <2> QED BY <2>2, <2>3 DEF LmdbViews
<1>9. ASSUME NEW h \in Heads' PROVE LmdbHead(store'[HeadKey(h)])
  BY <1>2, <1>3 DEF StoreInv, LmdbHead
<1>10. StoreInv'
  BY <1>7, <1>8, <1>9 DEF StoreInv, LmdbHead
<1>11. Present(LinkKey)'
  BY <1>6 DEF Present
<1> QED BY <1>2, <1>3, <1>4, <1>10, <1>11

\* LMDB commits the view whose epoch the head has already.
LEMMA ViewStep ==
    ASSUME StoreInv, kind = "lmdb", kind' = kind, NEW g \in Heads, NEW n \in Nat,
           n = Epoch(g), ~Present(L!ProjectionKey(g, n)),
           Touches({L!ProjectionKey(g, n)}), store'[L!ProjectionKey(g, n)] \in ViewData
    PROVE  /\ StoreInv' /\ Grows /\ Heads' = Heads
           /\ \A h \in Heads : store'[HeadKey(h)] = store[HeadKey(h)]
           /\ n \in DOMAIN Stored(g)'
<1> DEFINE K == {L!ProjectionKey(g, n)}
<1>1. (\A h : HeadKey(h) \notin K) /\ LinkKey \notin K
  BY Keys
<1>2. Heads' = Heads
  BY <1>1, TouchedHeads DEF Heads
<1>3. \A h \in Heads : store'[HeadKey(h)] = store[HeadKey(h)] /\ Epoch(h)' = Epoch(h)
  BY <1>1, TouchedHeads DEF Epoch
<1>4. \A h \in Heads : Epoch(h) \in Nat
  BY StoredViews
<1>5. n \in 1 .. Epoch(g)'
  BY <1>3, <1>4 DEF StoreInv, LmdbHead, Epoch
<1>6. Stored(g)' = [e \in {e \in 1 .. Epoch(g)' : Present(L!ProjectionKey(g, e))'} |->
                      store'[L!ProjectionKey(g, e)]]
  BY DEF Stored, L!ProjectionKey
<1>7. \A h, e : Present(L!ProjectionKey(h, e)) =>
        /\ Present(L!ProjectionKey(h, e))'
        /\ store'[L!ProjectionKey(h, e)] = store[L!ProjectionKey(h, e)]
  BY DEF Present, Touches, L!ProjectionKey
<1>8. n \in DOMAIN Stored(g)'
  <2>1. Present(L!ProjectionKey(g, n))'
    BY DEF Present, Touches, L!ProjectionKey
  <2> QED BY <1>5, <1>6, <2>1
<1>9. ASSUME NEW e \in DOMAIN Stored(g)
      PROVE  e \in DOMAIN Stored(g)' /\ Stored(g)'[e] = Stored(g)[e]
  <2>1. e \in 1 .. Epoch(g) /\ Present(L!ProjectionKey(g, e))
        /\ Stored(g)[e] = store[L!ProjectionKey(g, e)]
    BY <1>9, StoredViews DEF Stored
  <2> QED BY <1>3, <1>6, <1>7, <2>1
<1>10. ASSUME NEW h \in Heads, h # g PROVE Stored(h)' = Stored(h)
  <2>1. HeadKey(h) \notin K /\ \A e \in Nat : L!ProjectionKey(h, e) \notin K
    BY <1>10, Keys
  <2> HIDE DEF K
  <2> QED BY <2>1, UntouchedHead DEF K
<1>11. (Present(LinkKey)' <=> Present(LinkKey))
       /\ (Present(LinkKey) => store'[LinkKey] = store[LinkKey])
  BY <1>1 DEF Touches, Present
<1>12. Grows
  BY <1>2, <1>3, <1>4, <1>9, <1>10, <1>11 DEF Grows
<1>13. LinkOK'
  <2> SUFFICES ASSUME Present(LinkKey)'
               PROVE  store'[LinkKey] \in Heads' /\ 1 \in DOMAIN (Stored(store[LinkKey])')
    BY DEF LinkOK
  <2>1. PICK h : h = store[LinkKey]
    OBVIOUS
  <2>2. h \in Heads /\ 1 \in DOMAIN Stored(h) /\ store'[LinkKey] = h
    BY <1>11, <2>1 DEF StoreInv, LinkOK
  <2>3. 1 \in DOMAIN Stored(h)'
    BY <1>9, <1>10, <2>2
  <2> QED BY <1>2, <2>2, <2>3
<1>14. LmdbViews'
  <2>1. LmdbViews
    BY DEF StoreInv
  <2>2. ASSUME NEW k \in DOMAIN store', k[1] = "view"
        PROVE  k[2] \in Heads' /\ k[3] \in 1 .. Epoch(k[2])' /\ store'[k] \in ViewData
    <3>1. CASE k = L!ProjectionKey(g, n)
      <4>1. k[2] = g /\ k[3] = n
        BY <3>1, Keys
      <4> QED BY <1>2, <1>5, <3>1, <4>1
    <3>2. CASE k # L!ProjectionKey(g, n)
      <4>1. k \in DOMAIN store /\ store'[k] = store[k]
        BY <2>2, <3>2 DEF Touches
      <4>2. PICK h : h = k[2]
        OBVIOUS
      <4>3. h \in Heads /\ k[3] \in 1 .. Epoch(h) /\ store[k] \in ViewData
        BY <2>1, <2>2, <4>1, <4>2 DEF LmdbViews
      <4> QED BY <1>2, <1>3, <4>1, <4>2, <4>3
    <3> QED BY <3>1, <3>2
  <2>3. ASSUME NEW h \in Heads', NEW e \in 1 .. Epoch(h)', e = 1 \/ e < Epoch(h)'
        PROVE  Present(L!ProjectionKey(h, e))'
    BY <1>2, <1>3, <1>7, <2>1, <2>3 DEF LmdbViews
  <2> QED BY <2>2, <2>3 DEF LmdbViews
<1>15. StoreInv'
  BY <1>2, <1>3, <1>13, <1>14 DEF StoreInv, LmdbHead
<1> QED BY <1>2, <1>3, <1>8, <1>12, <1>15

-----------------------------------------------------------------------------
(* Steps of the clients *)

\* The steps, for a client that is not writing a transaction
LEMMA Pcs ==
    /\ Past \subseteq Busy \cup Idle /\ Committing \subseteq Past
    /\ {"get_head", "first_view", "link", "open_log", "create", "closed", "aborted"}
         \cap Past = {}
    /\ "uid" \notin Committing /\ "uid_write" \notin Committing
    /\ "refresh" \notin Committing /\ "propose" \notin Committing
    /\ "wait" \notin Committing /\ "open" \notin Committing
BY DEF Past, Committing, Busy, Idle

\* A growing store still fits a client that did nothing, unless it is about to
\* commit a view.
LEMMA FitsKeeps ==
    ASSUME StoreInv, StoreInv', Grows, NEW r \in ClientState, Fits(r),
           Touches({}) \/ r.pc # "propose_commit"
    PROVE  Fits(r)'
<1>1. PICK g : g = r.hoid
  OBVIOUS
<1>2. g \in Heads => g \in Heads' /\ \A e \in DOMAIN Stored(g) : e \in DOMAIN Stored(g)'
  BY DEF Grows
<1>3. kind' = kind
  BY DEF Grows
<1>4. r.pc \in Past \cup {"get_head"} => Present(LinkKey)' /\ g = store'[LinkKey]
  BY <1>1 DEF Fits, Grows
<1>5. r.pc \in Past => g \in Heads
  BY <1>1 DEF Fits, StoreInv, LinkOK
<1>6. r.pc \in {"first_view", "link"} => g \in Heads'
  BY <1>1, <1>2 DEF Fits
<1>7. r.pc = "link" => kind' # "lmdb" /\ 1 \in DOMAIN Stored(g)'
  BY <1>1, <1>2, <1>3 DEF Fits
<1>8. r.pc \in HasViewPcs => r.view.epoch \in DOMAIN Stored(g)'
  <2>1. HasViewPcs \subseteq Past
    BY DEF HasViewPcs, Past, Committing
  <2> QED BY <1>1, <1>2, <1>5, <2>1 DEF Fits
<1>9. r.pc = "propose_commit" =>
        Epoch(g)' = r.view.epoch + 1 /\ ~Present(L!ProjectionKey(g, r.view.epoch + 1))'
  <2>1. "propose_commit" \in Past
    BY DEF Past, Committing
  <2> QED BY <1>1, <1>5, <2>1 DEF Fits, Epoch, Present, Touches, Heads
<1> QED BY <1>1, <1>3, <1>4, <1>6, <1>7, <1>8, <1>9 DEF Fits

\* A closed client fits any store.
LEMMA ClosedFits ==
    ASSUME NEW pc \in {"closed", "aborted", "open_log", "create"}
    PROVE  /\ [Closed EXCEPT !.pc = pc] \in ClientState
           /\ [Closed EXCEPT !.pc = pc].pc = pc /\ Closed.pc = "closed"
           /\ Closed \in ClientState /\ ~Closed.created /\ Closed.id = -1
           /\ ~[Closed EXCEPT !.pc = pc].created /\ [Closed EXCEPT !.pc = pc].id = -1
<1>1. NoView \in CachedViews
  <2>1. NoSeq \in Seqs
    BY DEF NoSeq, Seqs
  <2> QED BY <2>1 DEF NoView, CachedViews
<1>2. 0 \in 0 .. MaxHeads /\ {"closed", "aborted", "open_log", "create"} \subseteq Busy \cup Idle
  BY HeadsAssumption DEF Busy, Idle
<1>3. /\ Closed \in ClientState /\ ~Closed.created /\ Closed.id = -1
      /\ Closed.pc = "closed"
  BY <1>1, <1>2 DEF Closed, ClientState, NoHead
<1>4. [Closed EXCEPT !.pc = pc] \in ClientState
  BY <1>2, <1>3 DEF ClientState
<1>5. /\ [Closed EXCEPT !.pc = pc].pc = pc
      /\ ~[Closed EXCEPT !.pc = pc].created /\ [Closed EXCEPT !.pc = pc].id = -1
  BY <1>3 DEF ClientState
<1> QED BY <1>3, <1>4, <1>5

\* Calls that have no head yet fit any store.
LEMMA NoHeadFits ==
    ASSUME NEW r, r.pc \in {"closed", "aborted", "open_log", "create"},
           r.id = -1, ~r.created
    PROVE  Fits(r) /\ Fits(r)'
BY DEF Fits, Past, Committing, HasViewPcs

\* One client takes a step.
LEMMA ClientStep ==
    ASSUME StoreInv, ClientInv, StoreInv', Grows, NEW c \in Clients, NEW r \in ClientState,
           cl' = [cl EXCEPT ![c] = r], Fits(r)',
           Touches({}) \/ \A d \in Clients \ {c} : cl[d].pc # "propose_commit",
           r.pc \in Committing => \A d \in Clients \ {c} : cl[d].pc \notin Committing,
           r.created => \A d \in Clients \ {c} : ~cl[d].created
    PROVE  ClientInv'
<1>1. cl' \in [Clients -> ClientState] /\ cl'[c] = r
      /\ \A d \in Clients \ {c} : cl'[d] = cl[d]
  BY DEF ClientInv
<1>2. ASSUME NEW d \in Clients PROVE Fits(cl[d])'
  <2>1. PICK q : q = cl'[d]
    OBVIOUS
  <2>2. Fits(q)'
    <3>1. CASE d = c
      BY <1>1, <2>1, <3>1
    <3>2. CASE d # c
      <4>1. q = cl[d] /\ q \in ClientState /\ (Touches({}) \/ q.pc # "propose_commit")
        BY <1>1, <2>1, <3>2 DEF ClientInv
      <4>2. Fits(q)
        BY <4>1 DEF ClientInv
      <4> QED BY <4>1, <4>2, FitsKeeps
    <3> QED BY <3>1, <3>2
  <2>3. Fits(cl[d])' <=> Fits(q)'
    BY <2>1 DEF Fits, Present, Stored, Epoch, Heads, L!ProjectionKey
  <2> QED BY <2>2, <2>3
<1>3. OneWriter'
  BY <1>1 DEF ClientInv, OneWriter
<1>4. OneCreator'
  BY <1>1 DEF ClientInv, OneCreator
<1> QED BY <1>1, <1>2, <1>3, <1>4 DEF ClientInv

-----------------------------------------------------------------------------
(* Tokens *)

\* The counters do not go back.
UidsKept ==
    /\ R!NextId(store') \in Nat /\ R!NextId(store') >= R!NextId(store)
    /\ kind # "ram" => \A h \in Heads :
         store'[HeadKey(h)].unique_id >= store[HeadKey(h)].unique_id

\* The counter of RAM depends on one key.
LEMMA NextIdKept ==
    ASSUME TokenInv, NEW K, Touches(K), R!IdKey \notin K
    PROVE  R!NextId(store') \in Nat /\ R!NextId(store') >= R!NextId(store)
<1>1. R!NextId(store') = R!NextId(store)
  BY DEF R!NextId, Touches
<1> QED BY <1>1 DEF TokenInv

\* A token once spent stays so.
LEMMA SpentKeeps ==
    ASSUME StoreInv, StoreInv', TokenInv, Grows, UidsKept, NEW h, NEW id \in Int, Spent(h, id)
    PROVE  Spent(h, id)'
<1>1. kind' = kind /\ (h \in Heads => h \in Heads')
  BY DEF Grows
<1>2. R!NextId(store) \in Nat
  BY DEF TokenInv
<1>3. CASE kind = "ram"
  <2>1. id < R!NextId(store)
    BY <1>3 DEF Spent
  <2>2. id < R!NextId(store')
    BY <1>2, <2>1 DEF UidsKept
  <2> QED BY <1>1, <1>3, <2>2 DEF Spent, R!NextId
<1>4. CASE kind # "ram"
  <2>1. h \in Heads /\ h \in Heads'
    BY <1>1, <1>4 DEF Spent
  <2>2. kind = "lmdb" \/ kind = "ceph"
    BY <1>4 DEF StoreInv
  <2>3. store[HeadKey(h)].unique_id \in Nat
    BY <2>1, <2>2 DEF StoreInv, LmdbHead, CephHead
  <2>4. store'[HeadKey(h)].unique_id \in Nat
    BY <1>1, <2>1, <2>2 DEF StoreInv, LmdbHead, CephHead
  <2>5. store'[HeadKey(h)].unique_id >= store[HeadKey(h)].unique_id
    BY <1>4, <2>1 DEF UidsKept
  <2> QED BY <1>1, <1>4, <2>1, <2>2, <2>3, <2>4, <2>5 DEF Spent
<1> QED BY <1>3, <1>4

\* A step that hands out no token
LEMMA TokensRest ==
    ASSUME StoreInv, StoreInv', ClientInv, TokenInv, Grows, UidsKept, tokens' = tokens,
           NEW Cs, \A d \in Clients \ Cs : cl'[d] = cl[d], Cs \subseteq Clients,
           \A d \in Cs : HeldToken(cl[d])'
    PROVE  TokenInv'
<1>1. ASSUME NEW x \in tokens.issued PROVE Spent(x[1], x[2])'
  <2>1. PICK h, id : h = x[1] /\ id = x[2]
    OBVIOUS
  <2>2. id \in Int /\ Spent(h, id)
    BY <2>1 DEF TokenInv
  <2>3. Spent(h, id)'
    BY <2>2, SpentKeeps
  <2> QED BY <2>1, <2>3
<1>2. ASSUME NEW d \in Clients \ Cs PROVE HeldToken(cl[d])'
  <2>1. PICK r : r = cl[d] /\ r = cl'[d]
    OBVIOUS
  <2>2. HeldToken(r) /\ r.id \in Int
    BY <2>1 DEF TokenInv, ClientInv, ClientState
  <2>3. HeldToken(r)'
    <3>1. CASE r.pc = "uid_commit"
      <4>1. PICK h, id : h = r.hoid /\ id = r.id
        OBVIOUS
      <4>2. Spent(h, id)' /\ <<h, id>> \notin tokens'.issued
        BY <2>2, <3>1, <4>1, SpentKeeps DEF HeldToken
      <4> QED BY <4>1, <4>2 DEF HeldToken
    <3>2. CASE r.pc # "uid_commit"
      BY <3>2 DEF HeldToken
    <3> QED BY <3>1, <3>2
  <2> QED BY <2>1, <2>3 DEF HeldToken, Spent
<1>3. \A d \in Clients : HeldToken(cl[d])'
  BY <1>2
<1>4. R!NextId(store') \in Nat
  BY DEF UidsKept
<1> QED BY <1>1, <1>3, <1>4 DEF TokenInv, R!NextId

\* A step that hands out a new token
LEMMA TokenIssued ==
    ASSUME StoreInv, StoreInv', ClientInv, TokenInv, Grows, UidsKept,
           NEW h \in Uuids, NEW id \in Int, Issue(h, id),
           <<h, id>> \notin tokens.issued, Spent(h, id)',
           \A d \in Clients : cl'[d].pc # "uid_commit"
    PROVE  TokenInv'
<1>1. /\ tokens'.issued = tokens.issued \cup {<<h, id>>}
      /\ tokens'.twice = {}
  BY DEF Issue, TokenInv
<1>2. ASSUME NEW x \in tokens'.issued PROVE Spent(x[1], x[2])'
  <2>1. PICK g, n : g = x[1] /\ n = x[2]
    OBVIOUS
  <2>2. CASE x \in tokens.issued
    <3>1. n \in Int /\ Spent(g, n)
      BY <2>1, <2>2 DEF TokenInv
    <3>2. Spent(g, n)'
      BY <3>1, SpentKeeps
    <3> QED BY <2>1, <3>2
  <2>3. CASE x = <<h, id>>
    <3>1. x[1] = h /\ x[2] = id
      BY <2>3
    <3> QED BY <3>1
  <2> QED BY <1>1, <2>2, <2>3
<1>3. \A d \in Clients : HeldToken(cl[d])'
  BY DEF HeldToken
<1>4. R!NextId(store') \in Nat
  BY DEF UidsKept
<1> QED BY <1>1, <1>2, <1>3, <1>4 DEF TokenInv, R!NextId

-----------------------------------------------------------------------------
(* Actions *)

\* A client takes a step that hands out no token.
LEMMA ActStep ==
    ASSUME HeadsInv, StoreInv', Grows, UidsKept, NEW c \in Clients, NEW r \in ClientState,
           cl' = [cl EXCEPT ![c] = r], tokens' = tokens, Fits(r)', HeldToken(r)',
           Touches({}) \/ \A d \in Clients \ {c} : cl[d].pc # "propose_commit",
           r.pc \in Committing => \A d \in Clients \ {c} : cl[d].pc \notin Committing,
           r.created => \A d \in Clients \ {c} : ~cl[d].created
    PROVE  HeadsInv'
<1>1. StoreInv /\ ClientInv /\ TokenInv
  BY DEF HeadsInv
<1>2. ClientInv'
  BY <1>1, ClientStep
<1>3. PICK Cs : Cs = {c}
  OBVIOUS
<1>4. Cs \subseteq Clients /\ \A d \in Clients \ Cs : cl'[d] = cl[d]
  BY <1>1, <1>3 DEF ClientInv
<1>5. ASSUME NEW d \in Cs PROVE HeldToken(cl[d])'
  <2>1. cl'[d] = r
    BY <1>1, <1>3 DEF ClientInv
  <2> QED BY <2>1 DEF HeldToken
<1>6. TokenInv'
  BY <1>1, <1>4, <1>5, TokensRest
<1> QED BY <1>2, <1>6 DEF HeadsInv

\* A client goes on and the store stays as it is.
LEMMA QuietStep ==
    ASSUME HeadsInv, NEW c \in Clients, NEW r \in ClientState,
           cl' = [cl EXCEPT ![c] = r], kind' = kind, tokens' = tokens, Touches({}),
           Fits(r), r.pc \notin Committing, r.created => cl[c].created
    PROVE  HeadsInv' /\ Grows
<1>1. StoreInv /\ ClientInv /\ TokenInv
  BY DEF HeadsInv
<1>2. StoreInv' /\ Grows /\ \A h \in Heads : store'[HeadKey(h)] = store[HeadKey(h)]
  BY <1>1, OtherKeysStep
<1>3. r.pc # "propose_commit" /\ r.pc # "uid_commit"
  BY DEF Committing
<1>4. Fits(r)'
  BY <1>1, <1>2, <1>3, FitsKeeps
<1>5. r.created => \A d \in Clients \ {c} : ~cl[d].created
  BY <1>1 DEF ClientInv, OneCreator
<1>6. UidsKept
  <2>1. kind # "ram" => \A h \in Heads : store[HeadKey(h)].unique_id \in Nat
    BY <1>1 DEF StoreInv, LmdbHead, CephHead
  <2> QED BY <1>1, <1>2, <2>1, NextIdKept DEF UidsKept
<1>7. HeldToken(r)'
  BY <1>3 DEF HeldToken
<1>8. HeadsInv'
  BY <1>2, <1>4, <1>5, <1>6, <1>7, ActStep
<1> QED BY <1>2, <1>8

\* A client gives up.
LEMMA FailStep ==
    ASSUME HeadsInv, NEW c \in Clients, cl' = [cl EXCEPT ![c] = Closed], kind' = kind,
           tokens' = tokens, Touches({})
    PROVE  HeadsInv' /\ Grows
<1>1. Closed \in ClientState /\ ~Closed.created /\ Closed.id = -1 /\ Closed.pc = "closed"
  BY ClosedFits
<1>2. Fits(Closed)
  BY <1>1, NoHeadFits
<1>3. Closed.pc \notin Committing
  BY <1>1 DEF Committing
<1> QED BY <1>1, <1>2, <1>3, QuietStep

\* A client's process ends, with the other clients of the RAM backend.
LEMMA AbortStep ==
    ASSUME HeadsInv, NEW c \in Clients, Abort(c), kind' = kind, tokens' = tokens, Touches({})
    PROVE  HeadsInv' /\ Grows
<1>1. StoreInv /\ ClientInv /\ TokenInv
  BY DEF HeadsInv
<1>2. StoreInv' /\ Grows /\ \A h \in Heads : store'[HeadKey(h)] = store[HeadKey(h)]
  BY <1>1, OtherKeysStep
<1> DEFINE r == [Closed EXCEPT !.pc = "aborted"]
<1>3. r \in ClientState /\ ~r.created /\ r.id = -1 /\ r.pc = "aborted"
  BY ClosedFits
<1> HIDE DEF r
<1>4. r.pc \notin Committing
  BY <1>3 DEF Committing
<1>5. cl' = [d \in Clients |-> IF d = c \/ kind = "ram" THEN r ELSE cl[d]]
  BY DEF Abort, r
<1>6. Fits(r)'
  BY <1>3, NoHeadFits
<1>7. ASSUME NEW d \in Clients PROVE Fits(cl[d])' /\ HeldToken(cl[d])'
  <2>1. PICK q : q = cl'[d]
    OBVIOUS
  <2>2. CASE q = r
    <3>1. q.pc \in {"closed", "aborted", "open_log", "create"} /\ q.id = -1 /\ ~q.created
          /\ q.pc # "uid_commit"
      BY <1>3, <2>2
    <3>2. Fits(q)' /\ HeldToken(q)'
      BY <3>1, NoHeadFits DEF HeldToken
    <3> QED BY <2>1, <3>2 DEF Fits, Present, Stored, Epoch, Heads, L!ProjectionKey, HeldToken
  <2>3. CASE q = cl[d]
    <3>1. q \in ClientState /\ Fits(q)
      BY <1>1, <2>3 DEF ClientInv
    <3>2. Fits(q)'
      BY <1>1, <1>2, <3>1, FitsKeeps
    <3>3. HeldToken(q)'
      <4>1. CASE q.pc # "uid_commit"
        BY <4>1 DEF HeldToken
      <4>2. CASE q.pc = "uid_commit"
        <5>1. PICK h, id : h = q.hoid /\ id = q.id
          OBVIOUS
        <5>2. Spent(h, id) /\ <<h, id>> \notin tokens.issued /\ id \in Int
          BY <1>1, <2>3, <3>1, <4>2, <5>1 DEF TokenInv, HeldToken, ClientState
        <5>3. UidsKept
          <6>1. kind # "ram" => \A g \in Heads : store[HeadKey(g)].unique_id \in Nat
            BY <1>1 DEF StoreInv, LmdbHead, CephHead
          <6> QED BY <1>1, <1>2, <6>1, NextIdKept DEF UidsKept
        <5>4. Spent(h, id)'
          BY <1>1, <1>2, <5>2, <5>3, SpentKeeps
        <5> QED BY <5>1, <5>2, <5>4 DEF HeldToken
      <4> QED BY <4>1, <4>2
    <3> QED BY <2>1, <3>2, <3>3
          DEF Fits, Present, Stored, Epoch, Heads, L!ProjectionKey, HeldToken
  <2> QED BY <1>5, <2>1, <2>2, <2>3
<1>8. cl' \in [Clients -> ClientState]
  BY <1>1, <1>3, <1>5 DEF ClientInv
<1>9. OneWriter' /\ OneCreator'
  BY <1>1, <1>3, <1>4, <1>5 DEF ClientInv, OneWriter, OneCreator
<1>10. ClientInv'
  BY <1>7, <1>8, <1>9 DEF ClientInv
<1>11. UidsKept
  <2>1. kind # "ram" => \A g \in Heads : store[HeadKey(g)].unique_id \in Nat
    BY <1>1 DEF StoreInv, LmdbHead, CephHead
  <2> QED BY <1>1, <1>2, <2>1, NextIdKept DEF UidsKept
<1>12. TokenInv'
  <2>1. \A d \in Clients \ Clients : cl'[d] = cl[d]
    OBVIOUS
  <2> QED BY <1>1, <1>2, <1>7, <1>11, <2>1, TokensRest
<1> QED BY <1>2, <1>10, <1>12 DEF HeadsInv

-----------------------------------------------------------------------------
(* The latest view *)

\* What get_latest_view finds is the view of the head's epoch.
LEMMA LatestRead ==
    ASSUME StoreInv, NEW h \in Heads, NEW r, r = ReadViews(h, 0, 1),
           r.ret = "OK", DOMAIN r.views # {}
    PROVE  /\ DOMAIN r.views = {Epoch(h)} /\ Epoch(h) \in DOMAIN Stored(h)
           /\ r.views[Epoch(h)] = Stored(h)[Epoch(h)]
<1>1. Epoch(h) \in Nat /\ Epoch(h) = store[HeadKey(h)].epoch
  BY StoredViews DEF Epoch
<1>2. CASE kind = "ram"
  <2>1. PICK x : x = store[HeadKey(h)]
    OBVIOUS
  <2>2. RamHead(x) /\ Stored(h) = x.projections /\ x.epoch = Epoch(h)
    BY <1>1, <1>2, <2>1 DEF StoreInv, Stored
  <2>3. DOMAIN x.projections = 1 .. x.epoch /\ x.epoch \in Nat \ {0}
    BY <2>2 DEF RamHead
  <2>4. (CHOOSE e \in DOMAIN x.projections : \A f \in DOMAIN x.projections : f <= e) = x.epoch
    <3>1. x.epoch \in DOMAIN x.projections /\ \A f \in DOMAIN x.projections : f <= x.epoch
      BY <2>3
    <3>2. \A e \in DOMAIN x.projections :
            (\A f \in DOMAIN x.projections : f <= e) => e = x.epoch
      BY <2>3
    <3> QED BY <3>1, <3>2
  <2>5. HeadKey(h) \in DOMAIN store
    BY DEF Heads, Present
  <2>6. r = R!Views("OK", R!Single(x.epoch, x.projections[x.epoch]))
    <3>1. r = R!ReadViews(store, h, 0, 1)
      BY <1>2 DEF ReadViews
    <3>2. ~(0 > x.epoch) /\ DOMAIN x.projections # {}
      BY <2>3
    <3> QED BY <2>1, <2>4, <2>5, <3>1, <3>2, SameKeys DEF R!ReadViews
  <2>7. r.views = [j \in {x.epoch} |-> x.projections[x.epoch]]
    BY <2>6 DEF R!Views, R!Single
  <2> QED BY <2>2, <2>3, <2>7
<1>3. CASE kind = "lmdb"
  <2>1. PICK n : n = Epoch(h)
    OBVIOUS
  <2>2. n \in Nat \ {0} /\ n = store[HeadKey(h)].epoch
    BY <1>1, <1>3, <2>1 DEF StoreInv, LmdbHead
  <2>3. L!Present(store, L!HeadKey(h))
    BY SameKeys DEF Heads, Present, L!Present
  <2>4. r = IF L!Present(store, L!ProjectionKey(h, n))
            THEN [ret |-> "OK", views |-> L!Single(n, store[L!ProjectionKey(h, n)])]
            ELSE [ret |-> "EIO", views |-> <<>>]
    <3>1. r = L!ReadViews(store, h, 0, 1)
      BY <1>3 DEF ReadViews
    <3>2. ~(0 > n) /\ n # 0
      BY <2>2
    <3> QED BY <2>2, <2>3, <3>1, <3>2, SameKeys DEF L!ReadViews
  <2>5. /\ Present(L!ProjectionKey(h, n))
        /\ r.views = [j \in {n} |-> store[L!ProjectionKey(h, n)]]
    BY <2>4 DEF L!Present, Present, L!Single
  <2>6. Stored(h) = [e \in {e \in 1 .. Epoch(h) : Present(L!ProjectionKey(h, e))} |->
                       store[L!ProjectionKey(h, e)]]
    BY <1>3 DEF Stored
  <2>7. n \in {e \in 1 .. Epoch(h) : Present(L!ProjectionKey(h, e))}
    BY <2>1, <2>2, <2>5
  <2> QED BY <2>1, <2>5, <2>6, <2>7
<1>4. CASE kind = "ceph"
  <2>1. PICK x : x = store[HeadKey(h)]
    OBVIOUS
  <2>2. CephHead(x) /\ Stored(h) = x.views /\ x.epoch = Epoch(h)
    BY <1>1, <1>4, <2>1 DEF StoreInv, Stored
  <2>3. DOMAIN x.views = 1 .. x.epoch /\ x.epoch \in Nat
    BY <2>2 DEF CephHead
  <2> DEFINE asked == {e \in x.epoch .. x.epoch : e > 0 /\ e < x.epoch + 1}
  <2>4. asked = {x.epoch} \ {0} /\ asked \subseteq DOMAIN x.views
    BY <2>3
  <2>5. r = [ret |-> "OK", views |-> [e \in asked |-> x.views[e]]]
    <3>1. r = C!view_read(x, 0, 1)
      BY <1>4, <2>1 DEF ReadViews, CephReadViews
    <3>2. (IF 1 < MaxViewReads THEN 1 ELSE MaxViewReads) = 1
      BY HeadsAssumption
    <3> QED BY <2>4, <3>1, <3>2 DEF C!view_read
  <2> HIDE DEF asked
  <2>6. asked # {} /\ DOMAIN r.views = asked
    BY <2>5
  <2> QED BY <2>2, <2>3, <2>4, <2>5, <2>6
<1> QED BY <1>2, <1>3, <1>4 DEF StoreInv

\* The reader caches the latest view with its epoch.
LEMMA LatestFacts ==
    ASSUME StoreInv, NEW c \in Clients, cl[c].hoid \in Heads, HasLatest(c)
    PROVE  /\ LatestView(c) \in CachedViews
           /\ LatestView(c).epoch = Epoch(cl[c].hoid)
           /\ Epoch(cl[c].hoid) \in DOMAIN Stored(cl[c].hoid)
<1>1. PICK h, r : h = cl[c].hoid /\ r = Latest(c)
  OBVIOUS
<1>2. h \in Heads /\ r = ReadViews(h, 0, 1) /\ r.ret = "OK" /\ DOMAIN r.views # {}
  BY <1>1 DEF HasLatest, Latest
<1>3. PICK n : n = Epoch(h)
  OBVIOUS
<1>4. DOMAIN r.views = {n} /\ n \in DOMAIN Stored(h) /\ r.views[n] = Stored(h)[n]
  BY <1>2, <1>3, LatestRead
<1>5. n \in Nat /\ Stored(h)[n] \in ViewData
  BY <1>2, <1>3, <1>4, StoredViews
<1>6. Max(DOMAIN r.views) = n
  <2>1. n \in {n} /\ \A y \in {n} : n >= y
    BY <1>5
  <2> QED BY <1>4, <2>1 DEF Max
<1>7. LatestView(c) = [epoch |-> n, seq |-> Stored(h)[n].seq]
  BY <1>1, <1>4, <1>6 DEF LatestView
<1>8. Stored(h)[n].seq \in Seqs
  BY <1>5 DEF ViewData
<1> QED BY <1>1, <1>3, <1>4, <1>5, <1>7, <1>8 DEF CachedViews

-----------------------------------------------------------------------------
(* Calls that change no head *)

\* A store that stays as it is
LEMMA Untouched == store' = store => Touches({})
BY DEF Touches

\* Log::Open begins.
LEMMA OpenStep ==
    ASSUME HeadsInv, NEW c \in Clients, Open(c)
    PROVE  HeadsInv' /\ Grows
<1>1. PICK o \in OptionSet : Set(c, [Closed EXCEPT !.pc = "open_log", !.options = o])
  BY DEF Open
<1>2. PICK q : q = [Closed EXCEPT !.pc = "open_log"]
  OBVIOUS
<1>3. q \in ClientState /\ q.pc = "open_log" /\ ~q.created /\ q.id = -1
  BY <1>2, ClosedFits
<1>4. PICK r : r = [Closed EXCEPT !.pc = "open_log", !.options = o]
  OBVIOUS
<1>5. r = [q EXCEPT !.options = o]
  BY <1>2, <1>4 DEF Closed
<1>6. r \in ClientState /\ r.pc = "open_log" /\ ~r.created /\ r.id = -1
  BY <1>3, <1>5, HeadsAssumption DEF ClientState
<1>7. Fits(r) /\ r.pc \notin Committing
  BY <1>6, NoHeadFits DEF Committing
<1>8. cl' = [cl EXCEPT ![c] = r]
  BY <1>1, <1>4 DEF Set
<1>9. kind' = kind /\ tokens' = tokens /\ Touches({})
  BY Untouched DEF Open
<1> QED BY <1>6, <1>7, <1>8, <1>9, QuietStep

\* OpenLog has returned.
LEMMA OpenedStep ==
    ASSUME HeadsInv, NEW c \in Clients, NEW ret, cl[c].pc \in {"open_log", "get_head"},
           ret = "OK" => Present(LinkKey), Opened(c, ret),
           kind' = kind, tokens' = tokens, Touches({})
    PROVE  HeadsInv' /\ Grows
<1>1. PICK me : me = cl[c]
  OBVIOUS
<1>2. StoreInv /\ me \in ClientState /\ Fits(me)
  BY <1>1 DEF HeadsInv, ClientInv
<1>3. me.id = -1 /\ ~me.created
  BY <1>1, <1>2, Pcs DEF Fits
<1>4. CASE Fail(c, ret) \/ Fail(c, "ENOENT") \/ Fail(c, "EEXIST")
  BY <1>4, FailStep DEF Fail, Set
<1>5. CASE Goto(c, "create")
  <2>1. PICK r : r = [me EXCEPT !.pc = "create"]
    OBVIOUS
  <2>2. r \in ClientState /\ r.pc = "create" /\ ~r.created /\ r.id = -1
    BY <1>2, <1>3, <2>1 DEF ClientState, Busy
  <2>3. Fits(r) /\ r.pc \notin Committing
    BY <2>2, NoHeadFits DEF Committing
  <2>4. cl' = [cl EXCEPT ![c] = r]
    BY <1>1, <1>5, <2>1 DEF Goto, Set
  <2> QED BY <2>2, <2>3, <2>4, QuietStep
<1>6. CASE ret = "OK" /\ "error_if_exists" \notin me.options
           /\ Set(c, [cl[c] EXCEPT !.pc = "uid", !.hoid = store[LinkKey]])
  <2>1. PICK g : g = store[LinkKey]
    OBVIOUS
  <2>2. g \in Heads /\ Present(LinkKey)
    BY <1>2, <1>6, <2>1 DEF StoreInv, LinkOK
  <2>3. g \in 0 .. MaxHeads
    BY <2>2, HeadsAssumption DEF Heads, Uuids
  <2>4. PICK r : r = [me EXCEPT !.pc = "uid", !.hoid = g]
    OBVIOUS
  <2>5. /\ r \in ClientState /\ r.pc = "uid" /\ ~r.created /\ r.hoid = g
        /\ r.options = me.options
    BY <1>2, <1>3, <2>3, <2>4 DEF ClientState, Busy
  <2>6. Fits(r) /\ r.pc \notin Committing
    BY <1>6, <2>1, <2>2, <2>5, Pcs DEF Fits, Past, Committing, HasViewPcs
  <2>7. cl' = [cl EXCEPT ![c] = r]
    BY <1>1, <1>6, <2>1, <2>4 DEF Set
  <2> QED BY <2>5, <2>6, <2>7, QuietStep
<1> QED BY <1>1, <1>4, <1>5, <1>6 DEF Opened

\* OpenLog, or its first request
LEMMA OpenLogStep ==
    ASSUME HeadsInv, NEW c \in Clients, OpenLog(c)
    PROVE  HeadsInv' /\ Grows
<1>1. cl[c].pc \in {"open_log", "get_head"} /\ kind' = kind /\ tokens' = tokens /\ Touches({})
  BY Untouched DEF OpenLog
<1>2. CASE kind = "ram"
  <2>1. PICK ret : ret = R!OpenLog(store, Name)
    OBVIOUS
  <2>2. Opened(c, ret)
    BY <1>2, <2>1 DEF OpenLog
  <2>3. ret = "OK" => Present(LinkKey)
    BY <2>1, SameKeys DEF R!OpenLog, Present
  <2> QED BY <1>1, <2>2, <2>3, OpenedStep
<1>3. CASE kind = "lmdb"
  <2>1. PICK ret : ret = L!OpenLog(store, Name)
    OBVIOUS
  <2>2. Opened(c, ret)
    BY <1>3, <2>1 DEF OpenLog
  <2>3. ret = "OK" => Present(LinkKey)
    BY <2>1, SameKeys DEF L!OpenLog, L!Get, L!Present, Present
  <2> QED BY <1>1, <2>2, <2>3, OpenedStep
<1>4. CASE kind = "ceph"
  <2>1. CephReadLink(c)
    BY <1>4 DEF OpenLog
  <2>2. CASE ~Present(LinkKey)
    <3>1. PICK ret : ret = "ENOENT"
      OBVIOUS
    <3>2. Opened(c, ret) /\ ret # "OK"
      BY <2>1, <2>2, <3>1 DEF CephReadLink
    <3> QED BY <1>1, <3>2, OpenedStep
  <2>3. CASE Present(LinkKey)
    <3>1. PICK me, g : me = cl[c] /\ g = store[LinkKey]
      OBVIOUS
    <3>2. StoreInv /\ me \in ClientState /\ Fits(me) /\ me.pc = "open_log"
      BY <3>1 DEF HeadsInv, ClientInv, OpenLog
    <3>3. me.id = -1 /\ ~me.created
      BY <3>2, Pcs DEF Fits
    <3>4. g \in Heads /\ g \in 0 .. MaxHeads
      BY <2>3, <3>1, <3>2, HeadsAssumption DEF StoreInv, LinkOK, Heads, Uuids
    <3>5. PICK r : r = [me EXCEPT !.pc = "get_head", !.hoid = g]
      OBVIOUS
    <3>6. /\ r \in ClientState /\ r.pc = "get_head" /\ ~r.created /\ r.hoid = g
          /\ r.id = -1
      BY <3>2, <3>3, <3>4, <3>5 DEF ClientState, Busy
    <3>7. Fits(r) /\ r.pc \notin Committing
      BY <1>4, <2>3, <3>1, <3>6 DEF Fits, Past, Committing, HasViewPcs
    <3>8. cl' = [cl EXCEPT ![c] = r]
      BY <2>1, <2>3, <3>1, <3>5 DEF CephReadLink, Set
    <3> QED BY <1>1, <3>6, <3>7, <3>8, QuietStep
  <2> QED BY <2>2, <2>3
<1> QED BY <1>2, <1>3, <1>4 DEF HeadsInv, StoreInv

\* Ceph: the second request of OpenLog
LEMMA GetHeadStep ==
    ASSUME HeadsInv, NEW c \in Clients, GetHead(c)
    PROVE  HeadsInv' /\ Grows
<1>1. cl[c].pc \in {"open_log", "get_head"} /\ kind' = kind /\ tokens' = tokens /\ Touches({})
  BY Untouched DEF GetHead
<1>2. PICK ret : ret = IF Present(HeadKey(cl[c].hoid)) THEN "OK" ELSE "EIO"
  OBVIOUS
<1>3. Opened(c, ret)
  BY <1>2 DEF GetHead
<1>4. Present(LinkKey)
  BY DEF HeadsInv, ClientInv, Fits, GetHead
<1> QED BY <1>1, <1>3, <1>4, OpenedStep

\* A client that is past create_or_open
LEMMA PastFacts ==
    ASSUME HeadsInv, NEW c \in Clients, NEW me, me = cl[c], me.pc \in Past
    PROVE  /\ StoreInv /\ me \in ClientState /\ Fits(me)
           /\ Present(LinkKey) /\ me.hoid = store[LinkKey] /\ me.hoid \in Heads
           /\ me.hoid \in Uuids
BY DEF HeadsInv, ClientInv, Fits, StoreInv, LinkOK, Heads

\* and one that goes on there
LEMMA PastFits ==
    ASSUME NEW r, Present(LinkKey), r.hoid = store[LinkKey],
           r.pc \in {"uid", "refresh", "propose", "wait", "open"},
           "error_if_exists" \in r.options => r.created,
           r.pc \in HasViewPcs => r.view.epoch \in DOMAIN Stored(r.hoid)
    PROVE  Fits(r) /\ r.pc \notin Committing
BY DEF Fits, Past, Committing

\* The first refresh of the reader
LEMMA FirstRefreshStep ==
    ASSUME HeadsInv, NEW c \in Clients, FirstRefresh(c)
    PROVE  HeadsInv' /\ Grows
<1>1. kind' = kind /\ tokens' = tokens /\ Touches({})
  BY Untouched DEF FirstRefresh
<1>2. PICK me : me = cl[c]
  OBVIOUS
<1>3. me.pc = "refresh" /\ me.pc \in Past
  BY <1>2 DEF FirstRefresh, Past
<1>4. StoreInv /\ me \in ClientState /\ Fits(me) /\ me.hoid \in Heads
      /\ Present(LinkKey) /\ me.hoid = store[LinkKey]
  BY <1>2, <1>3, PastFacts
<1>5. CASE HasLatest(c)
  <2>1. PICK v : v = LatestView(c)
    OBVIOUS
  <2>2. v \in CachedViews /\ v.epoch \in DOMAIN Stored(me.hoid)
    BY <1>2, <1>4, <1>5, <2>1, LatestFacts
  <2>3. PICK r : r = [me EXCEPT !.pc = "propose", !.view = v, !.retries = ProposeRetries]
    OBVIOUS
  <2>4. /\ r \in ClientState /\ r.pc = "propose" /\ r.hoid = me.hoid /\ r.view = v
        /\ (r.created <=> me.created) /\ r.options = me.options
    <3>1. r \in ClientState
      <4>1. "propose" \in Busy \cup Idle /\ ProposeRetries \in Int
        BY HeadsAssumption DEF Busy
      <4> QED BY <1>4, <2>2, <2>3, <4>1 DEF ClientState
    <3>2. r.pc = "propose" /\ r.hoid = me.hoid /\ r.view = v /\ r.options = me.options
      BY <1>4, <2>3 DEF ClientState
    <3>3. r.created <=> me.created
      BY <1>4, <2>3 DEF ClientState
    <3> QED BY <3>1, <3>2, <3>3
  <2>5. Fits(r) /\ r.pc \notin Committing
    <3>1. "error_if_exists" \in r.options => r.created
      BY <1>3, <1>4, <2>4 DEF Fits
    <3> QED BY <1>4, <2>2, <2>4, <3>1, PastFits
  <2>6. cl' = [cl EXCEPT ![c] = r]
    BY <1>2, <1>5, <2>1, <2>3 DEF FirstRefresh, Set
  <2> QED BY <1>1, <1>2, <2>4, <2>5, <2>6, QuietStep
<1>6. CASE ~HasLatest(c)
  BY <1>1, <1>6, FailStep DEF FirstRefresh, Fail, Set
<1> QED BY <1>5, <1>6

\* update_current_view, and what follows it
LEMMA WaitStep ==
    ASSUME HeadsInv, NEW c \in Clients, Wait(c)
    PROVE  HeadsInv' /\ Grows
<1>1. kind' = kind /\ tokens' = tokens /\ Touches({}) /\ HasLatest(c)
  BY Untouched DEF Wait, Newer
<1>2. PICK me, v : me = cl[c] /\ v = LatestView(c)
  OBVIOUS
<1>3. me.pc = "wait" /\ me.pc \in Past
  BY <1>2 DEF Wait, Past
<1>4. StoreInv /\ me \in ClientState /\ Fits(me) /\ me.hoid \in Heads
      /\ Present(LinkKey) /\ me.hoid = store[LinkKey]
  BY <1>2, <1>3, PastFacts
<1>5. v \in CachedViews /\ v.epoch \in DOMAIN Stored(me.hoid)
  BY <1>1, <1>2, <1>4, LatestFacts
<1>6. PICK new : new = [me EXCEPT !.view = v]
  OBVIOUS
<1>7. /\ new \in ClientState /\ new.hoid = me.hoid /\ new.view = v
      /\ new.options = me.options
  BY <1>4, <1>5, <1>6 DEF ClientState
<1>13. new.created <=> me.created
  BY <1>4, <1>6 DEF ClientState
<1>8. \/ Set(c, [new EXCEPT !.pc = "open", !.cur = NoView, !.retries = 0, !.ret = "OK"])
      \/ Set(c, [new EXCEPT !.pc = "propose", !.retries = @ - 1])
      \/ Abort(c)
  BY <1>2, <1>6 DEF Wait
<1>9. NoView \in CachedViews
  BY ClosedFits DEF Closed, ClientState
<1>10. CASE Set(c, [new EXCEPT !.pc = "open", !.cur = NoView, !.retries = 0, !.ret = "OK"])
  <2>1. PICK r : r = [new EXCEPT !.pc = "open", !.cur = NoView, !.retries = 0, !.ret = "OK"]
    OBVIOUS
  <2>2. /\ r \in ClientState /\ r.pc = "open" /\ r.hoid = me.hoid /\ r.view = v
        /\ (r.created <=> me.created) /\ r.options = me.options
    <3>1. "open" \in Busy \cup Idle
      BY DEF Idle
    <3>2. r \in ClientState
      <4>1. new \in ClientState /\ 0 \in Int
        BY <1>7
      <4> QED BY <1>9, <2>1, <3>1, <4>1 DEF ClientState
    <3>3. r.pc = "open" /\ r.hoid = me.hoid /\ r.view = v /\ r.options = me.options
      BY <1>7, <2>1 DEF ClientState
    <3>4. r.created <=> me.created
      <4>1. r.created <=> new.created
        BY <1>7, <2>1 DEF ClientState
      <4> QED BY <1>13, <4>1
    <3> QED BY <3>2, <3>3, <3>4
  <2>3. Fits(r) /\ r.pc \notin Committing
    <3>1. "error_if_exists" \in r.options => r.created
      BY <1>3, <1>4, <2>2 DEF Fits
    <3> QED BY <1>4, <1>5, <2>2, <3>1, PastFits
  <2>4. cl' = [cl EXCEPT ![c] = r]
    BY <1>10, <2>1 DEF Set
  <2> QED BY <1>1, <1>2, <2>2, <2>3, <2>4, QuietStep
<1>11. CASE Set(c, [new EXCEPT !.pc = "propose", !.retries = @ - 1])
  <2>1. PICK r : r = [new EXCEPT !.pc = "propose", !.retries = @ - 1]
    OBVIOUS
  <2>2. /\ r \in ClientState /\ r.pc = "propose" /\ r.hoid = me.hoid /\ r.view = v
        /\ (r.created <=> me.created) /\ r.options = me.options
    <3>1. "propose" \in Busy \cup Idle
      BY DEF Busy
    <3>2. r \in ClientState
      <4>1. new \in ClientState /\ new.retries - 1 \in Int
        BY <1>7 DEF ClientState
      <4> QED BY <2>1, <3>1, <4>1 DEF ClientState
    <3>3. r.pc = "propose" /\ r.hoid = me.hoid /\ r.view = v /\ r.options = me.options
      BY <1>7, <2>1 DEF ClientState
    <3>4. r.created <=> me.created
      <4>1. r.created <=> new.created
        BY <1>7, <2>1 DEF ClientState
      <4> QED BY <1>13, <4>1
    <3> QED BY <3>2, <3>3, <3>4
  <2>3. Fits(r) /\ r.pc \notin Committing
    <3>1. "error_if_exists" \in r.options => r.created
      BY <1>3, <1>4, <2>2 DEF Fits
    <3> QED BY <1>4, <1>5, <2>2, <3>1, PastFits
  <2>4. cl' = [cl EXCEPT ![c] = r]
    BY <1>11, <2>1 DEF Set
  <2> QED BY <1>1, <1>2, <2>2, <2>3, <2>4, QuietStep
<1>12. CASE Abort(c)
  BY <1>1, <1>12, AbortStep
<1> QED BY <1>8, <1>10, <1>11, <1>12

\* The refresh thread of an open log
LEMMA RefreshStep ==
    ASSUME HeadsInv, NEW c \in Clients, Refresh(c)
    PROVE  HeadsInv' /\ Grows
<1>1. kind' = kind /\ tokens' = tokens /\ Touches({}) /\ HasLatest(c)
  BY Untouched DEF Refresh
<1>2. PICK me, v : me = cl[c] /\ v = LatestView(c)
  OBVIOUS
<1>3. me.pc = "open" /\ me.pc \in Past
  BY <1>2 DEF Refresh, Past
<1>4. StoreInv /\ me \in ClientState /\ Fits(me) /\ me.hoid \in Heads
      /\ Present(LinkKey) /\ me.hoid = store[LinkKey]
  BY <1>2, <1>3, PastFacts
<1>5. v \in CachedViews /\ v.epoch \in DOMAIN Stored(me.hoid)
  BY <1>1, <1>2, <1>4, LatestFacts
<1>6. PICK r : r = [me EXCEPT !.view = v]
  OBVIOUS
<1>7. /\ r \in ClientState /\ r.hoid = me.hoid /\ r.view = v /\ r.pc = "open"
      /\ r.options = me.options
  BY <1>3, <1>4, <1>5, <1>6 DEF ClientState
<1>8. r.created <=> me.created
  BY <1>4, <1>6 DEF ClientState
<1>9. "error_if_exists" \in r.options => r.created
  BY <1>3, <1>4, <1>7, <1>8 DEF Fits
<1>10. Fits(r) /\ r.pc \notin Committing
  BY <1>4, <1>5, <1>7, <1>9, PastFits
<1>11. cl' = [cl EXCEPT ![c] = r]
  BY <1>2, <1>6 DEF Refresh, Set
<1> QED BY <1>1, <1>2, <1>7, <1>8, <1>10, <1>11, QuietStep

\* The expander wants another stripe.
LEMMA ExpandStep ==
    ASSUME HeadsInv, NEW c \in Clients, Expand(c)
    PROVE  HeadsInv' /\ Grows
<1>1. kind' = kind /\ tokens' = tokens /\ Touches({})
  BY Untouched DEF Expand
<1>2. PICK me : me = cl[c]
  OBVIOUS
<1>3. me.pc = "open" /\ me.pc \in Past
  BY <1>2 DEF Expand, Past
<1>4. StoreInv /\ me \in ClientState /\ Fits(me) /\ me.hoid \in Heads
      /\ Present(LinkKey) /\ me.hoid = store[LinkKey]
  BY <1>2, <1>3, PastFacts
<1>5. PICK r : r = [me EXCEPT !.pc = "propose", !.task = "expand"]
  OBVIOUS
<1>6. r \in ClientState
  <2>1. "propose" \in Busy \cup Idle
    BY DEF Busy
  <2> QED BY <1>4, <1>5, <2>1 DEF ClientState
<1>7. /\ r.hoid = me.hoid /\ r.view = me.view /\ r.pc = "propose"
      /\ r.options = me.options
  BY <1>4, <1>5 DEF ClientState
<1>8. r.created <=> me.created
  BY <1>4, <1>5 DEF ClientState
<1>9. "error_if_exists" \in r.options => r.created
  BY <1>3, <1>4, <1>7, <1>8 DEF Fits
<1>10. me.view.epoch \in DOMAIN Stored(me.hoid)
  BY <1>3, <1>4 DEF Fits, HasViewPcs
<1>11. Fits(r) /\ r.pc \notin Committing
  BY <1>4, <1>7, <1>9, <1>10, PastFits
<1>12. cl' = [cl EXCEPT ![c] = r]
  BY <1>2, <1>5 DEF Expand, Set
<1> QED BY <1>1, <1>2, <1>6, <1>8, <1>11, <1>12, QuietStep

\* A log is closed, or its process dies.
LEMMA CloseStep ==
    ASSUME HeadsInv, NEW c \in Clients, Close(c) \/ Crash(c)
    PROVE  HeadsInv' /\ Grows
<1>1. cl' = [cl EXCEPT ![c] = Closed] /\ kind' = kind /\ tokens' = tokens /\ Touches({})
  BY Untouched DEF Close, Crash, Set
<1> QED BY <1>1, FailStep

-----------------------------------------------------------------------------
(* Creating the log *)

\* The names that are drawn
LEMMA RandomHeadsOK == RandomHeads \subseteq Uuids
<1> DEFINE used == {h \in Uuids : Present(HeadKey(h))}
<1>1. used \subseteq Uuids
  OBVIOUS
<1>2. ASSUME used # Uuids PROVE Min(Uuids \ used) \in Uuids
  <2>1. PICK S : S = Uuids \ used
    OBVIOUS
  <2>2. S \subseteq Nat /\ S # {} /\ S \subseteq Uuids
    BY <1>1, <1>2, <2>1 DEF Uuids
  <2>3. PICK m \in S : \A y \in S : ~ (<<y, m>> \in OpToRel(<, Nat))
    BY <2>2, NatLessThanWellFounded, WFMin
  <2>4. ASSUME NEW y \in S PROVE m =< y
    <3>1. y \in Nat /\ m \in Nat
      BY <2>2
    <3>2. ASSUME y < m PROVE FALSE
      <4>1. <<y, m>> \in OpToRel(<, Nat)
        BY <3>1, <3>2 DEF OpToRel
      <4> QED BY <2>3, <4>1
    <3> QED BY <3>1, <3>2
  <2>5. Min(S) \in S
    BY <2>4 DEF Min
  <2> QED BY <2>1, <2>2, <2>5
<1> HIDE DEF used
<1>3. RandomHeads = used \cup (IF used = Uuids THEN {} ELSE {Min(Uuids \ used)})
  BY DEF RandomHeads, used
<1> QED BY <1>1, <1>2, <1>3

\* A key is set.
LEMMA WithTouches ==
    ASSUME NEW k, NEW v, store' = [j \in DOMAIN store \cup {k} |-> IF j = k THEN v ELSE store[j]]
    PROVE  Touches({k}) /\ store'[k] = v
BY DEF Touches

\* A key that is there is changed.
LEMMA ExceptTouches ==
    ASSUME NEW k, NEW v, Present(k), store' = [store EXCEPT ![k] = v]
    PROVE  Touches({k}) /\ store'[k] = v
BY DEF Touches, Present

\* The counters, where one head changes
LEMMA HeadUids ==
    ASSUME HeadsInv, NEW g \in Uuids, Touches({HeadKey(g)}),
           kind # "ram" /\ g \in Heads =>
             store'[HeadKey(g)].unique_id >= store[HeadKey(g)].unique_id
    PROVE  UidsKept
<1>1. StoreInv /\ TokenInv
  BY DEF HeadsInv
<1>2. R!IdKey \notin {HeadKey(g)}
  BY Keys
<1>3. R!NextId(store') \in Nat /\ R!NextId(store') >= R!NextId(store)
  BY <1>1, <1>2, NextIdKept
<1>4. ASSUME kind # "ram", NEW h \in Heads
      PROVE  store'[HeadKey(h)].unique_id >= store[HeadKey(h)].unique_id
  <2>1. store[HeadKey(h)].unique_id \in Nat
    BY <1>1, <1>4 DEF StoreInv, LmdbHead, CephHead
  <2>2. CASE h = g
    BY <1>4, <2>2
  <2>3. CASE h # g
    <3>1. HeadKey(h) \notin {HeadKey(g)}
      BY <2>3, Keys
    <3>2. store'[HeadKey(h)] = store[HeadKey(h)]
      BY <3>1, TouchedHeads
    <3> QED BY <2>1, <3>2
  <2> QED BY <2>2, <2>3
<1> QED BY <1>3, <1>4 DEF UidsKept

\* Nobody else is about to commit a view: LMDB's write lock is free.
LEMMA LockFree ==
    ASSUME HeadsInv, WriteLockFree
    PROVE  \A d \in Clients : cl[d].pc \notin Committing /\ cl[d].pc # "propose_commit"
BY DEF HeadsInv, ClientInv, Fits, WriteLockFree, Committing

\* The first view
LEMMA InitialViewOK == InitialView \in ViewData
<1>1. NoSeq \in Seqs
  BY DEF NoSeq, Seqs
<1> QED BY <1>1 DEF InitialView, ViewData

\* CreateLog has failed, or found the name taken.
LEMMA NotCreatedStep ==
    ASSUME HeadsInv, NEW c \in Clients, NEW ret, NEW h, ret # "OK", Created(c, ret, h),
           cl[c].pc \in {"create", "link"}, kind' = kind, tokens' = tokens, Touches({})
    PROVE  HeadsInv' /\ Grows
<1>1. PICK me : me = cl[c]
  OBVIOUS
<1>2. me \in ClientState /\ Fits(me)
  BY <1>1 DEF HeadsInv, ClientInv
<1>3. me.id = -1 /\ ~me.created
  BY <1>1, <1>2, Pcs DEF Fits
<1>4. CASE Fail(c, ret)
  BY <1>4, FailStep DEF Fail, Set
<1>5. CASE Set(c, [cl[c] EXCEPT !.pc = "open_log", !.hoid = NoHead])
  <2>1. PICK r : r = [me EXCEPT !.pc = "open_log", !.hoid = NoHead]
    OBVIOUS
  <2>2. NoHead \in 0 .. MaxHeads
    BY HeadsAssumption DEF NoHead
  <2>3. r \in ClientState /\ r.pc = "open_log" /\ ~r.created /\ r.id = -1
    BY <1>2, <1>3, <2>1, <2>2 DEF ClientState, Busy
  <2>4. Fits(r) /\ r.pc \notin Committing
    BY <2>3, NoHeadFits DEF Committing
  <2>5. cl' = [cl EXCEPT ![c] = r]
    BY <1>1, <1>5, <2>1 DEF Set
  <2> QED BY <2>3, <2>4, <2>5, QuietStep
<1> QED BY <1>4, <1>5 DEF Created

\* RAM: the head, in the first locked section
LEMMA RamCreateStep ==
    ASSUME HeadsInv, NEW c \in Clients, NEW h \in Uuids, kind = "ram", cl[c].pc = "create",
           RamCreateHead(c, h), kind' = kind, tokens' = tokens
    PROVE  HeadsInv' /\ Grows
<1> DEFINE x == R!ProjectionObject(1, R!Single(1, InitialView))
           res == R!CreateHead(store, h, InitialView)
<1>1. res = IF Present(HeadKey(h)) THEN R!Result("EIO", store)
            ELSE R!Result("OK", R!With(store, HeadKey(h), x))
  BY SameKeys DEF R!CreateHead, R!Emplace, Present
<1>2. /\ store' = res.store
      /\ IF res.ret = "OK" THEN Set(c, [cl[c] EXCEPT !.pc = "link", !.hoid = h])
         ELSE Created(c, res.ret, h)
  BY DEF RamCreateHead
<1>3. RamHead(x)
  <2>1. x = [epoch |-> 1, projections |-> [j \in {1} |-> InitialView]]
    BY DEF R!ProjectionObject, R!Single
  <2>2. [j \in {1} |-> InitialView] \in [1 .. 1 -> ViewData]
    BY InitialViewOK
  <2>3. x.epoch = 1 /\ x.projections = [j \in {1} |-> InitialView]
    BY <2>1
  <2> HIDE DEF x
  <2> QED BY <2>1, <2>2, <2>3 DEF RamHead
<1> HIDE DEF x, res
<1>4. CASE Present(HeadKey(h))
  <2>1. res.ret = "EIO" /\ store' = store
    BY <1>1, <1>2, <1>4 DEF R!Result
  <2>2. PICK ret : ret = "EIO"
    OBVIOUS
  <2>3. Created(c, ret, h) /\ ret # "OK" /\ Touches({})
    BY <1>2, <2>1, <2>2, Untouched
  <2>4. cl[c].pc \in {"create", "link"}
    OBVIOUS
  <2> QED BY <2>3, <2>4, NotCreatedStep
<1>5. CASE ~Present(HeadKey(h))
  <2>1. /\ store' = [j \in DOMAIN store \cup {HeadKey(h)} |->
                       IF j = HeadKey(h) THEN x ELSE store[j]]
        /\ res.ret = "OK"
    BY <1>1, <1>2, <1>5 DEF R!Result, R!With
  <2>2. Touches({HeadKey(h)}) /\ store'[HeadKey(h)] = x
    BY <2>1, WithTouches
  <2>3. StoreInv /\ h \notin Heads
    BY <1>5 DEF HeadsInv, Heads
  <2>4. StoreInv' /\ Grows /\ Heads' = Heads \cup {h}
    BY <1>3, <2>2, <2>3, HeadStep
  <2>5. UidsKept
    BY <2>2, <2>3, HeadUids
  <2>6. PICK me : me = cl[c]
    OBVIOUS
  <2>7. me \in ClientState /\ Fits(me) /\ me.pc = "create"
    BY <2>6 DEF HeadsInv, ClientInv
  <2>8. me.id = -1 /\ ~me.created
    BY <2>7, Pcs DEF Fits
  <2>9. PICK r : r = [me EXCEPT !.pc = "link", !.hoid = h]
    OBVIOUS
  <2>10. r \in ClientState /\ r.pc = "link" /\ ~r.created /\ r.id = -1 /\ r.hoid = h
    <3>1. h \in 0 .. MaxHeads /\ "link" \in Busy
      BY HeadsAssumption DEF Uuids, Busy
    <3> QED BY <2>7, <2>8, <2>9, <3>1 DEF ClientState
  <2>11. 1 \in DOMAIN Stored(h)'
    <3>1. Stored(h)' = store'[HeadKey(h)].projections
      BY DEF Stored
    <3> QED BY <2>2, <3>1 DEF x, R!ProjectionObject, R!Single
  <2>12. Fits(r)' /\ HeldToken(r)' /\ r.pc \notin Committing
    BY <2>4, <2>10, <2>11 DEF Fits, Past, Committing, HasViewPcs, HeldToken
  <2>13. cl' = [cl EXCEPT ![c] = r]
    BY <1>2, <2>1, <2>6, <2>9 DEF Set
  <2>14. \A d \in Clients \ {c} : cl[d].pc # "propose_commit"
    BY DEF HeadsInv, ClientInv, Fits, Committing
  <2>15. HeadsInv'
    BY <2>4, <2>5, <2>10, <2>12, <2>13, <2>14, ActStep
  <2> QED BY <2>4, <2>15
<1> QED BY <1>4, <1>5

\* LMDB: head, first view and link
LEMMA LmdbCreateStep ==
    ASSUME HeadsInv, NEW c \in Clients, NEW h \in Uuids, kind = "lmdb", cl[c].pc = "create",
           WriteLockFree, LmdbCreateLog(c, h), kind' = kind, tokens' = tokens
    PROVE  HeadsInv' /\ Grows
<1> DEFINE res == L!CreateLog(store, Name, h, InitialView)
           vk == L!ProjectionKey(h, 1)
           x == L!ProjectionObject(1, 0)
           new == L!With(L!With(L!With(store, HeadKey(h), x), vk, InitialView), LinkKey, h)
<1>1. store' = res.db /\ Created(c, res.ret, h)
  BY DEF LmdbCreateLog
<1>2. res = IF Present(HeadKey(h)) THEN [ret |-> "EIO", db |-> store]
            ELSE IF Present(vk) THEN [ret |-> "EEXIST", db |-> store]
            ELSE IF Present(LinkKey) THEN [ret |-> "EEXIST", db |-> store]
            ELSE [ret |-> "OK", db |-> new]
  BY SameKeys DEF L!CreateLog, L!PutRet, L!Put, L!Abort, L!Commit, L!Present, Present
<1> HIDE DEF res, new
<1>3. CASE Present(HeadKey(h)) \/ Present(vk) \/ Present(LinkKey)
  <2>1. PICK ret : ret = res.ret
    OBVIOUS
  <2>2. ret # "OK" /\ store' = store
    BY <1>1, <1>2, <1>3, <2>1
  <2>3. Created(c, ret, h) /\ Touches({})
    BY <1>1, <2>1, <2>2, Untouched
  <2>4. cl[c].pc \in {"create", "link"}
    OBVIOUS
  <2> QED BY <2>2, <2>3, <2>4, NotCreatedStep
<1>4. CASE ~Present(HeadKey(h)) /\ ~Present(vk) /\ ~Present(LinkKey)
  <2>1. res.ret = "OK" /\ store' = new
    BY <1>1, <1>2, <1>4
  <2>2. HeadKey(h) # vk /\ HeadKey(h) # LinkKey /\ vk # LinkKey
    BY Keys
  <2>3. /\ Touches({HeadKey(h), vk, LinkKey})
        /\ store'[HeadKey(h)] = x /\ store'[vk] = InitialView /\ store'[LinkKey] = h
    <3>1. PICK k1, k2, k3 : k1 = HeadKey(h) /\ k2 = vk /\ k3 = LinkKey
      OBVIOUS
    <3>2. PICK s1 : s1 = [j \in DOMAIN store \cup {k1} |-> IF j = k1 THEN x ELSE store[j]]
      OBVIOUS
    <3>3. PICK s2 : s2 = [j \in DOMAIN s1 \cup {k2} |-> IF j = k2 THEN InitialView ELSE s1[j]]
      OBVIOUS
    <3>4. store' = [j \in DOMAIN s2 \cup {k3} |-> IF j = k3 THEN h ELSE s2[j]]
      BY <2>1, <3>1, <3>2, <3>3 DEF new, L!With
    <3>5. k1 # k2 /\ k1 # k3 /\ k2 # k3
      BY <2>2, <3>1
    <3>6. /\ DOMAIN store' = DOMAIN store \cup {k1, k2, k3}
          /\ \A k \in DOMAIN store \ {k1, k2, k3} : store'[k] = store[k]
      BY <3>2, <3>3, <3>4
    <3>7. store'[k1] = x /\ store'[k2] = InitialView /\ store'[k3] = h
      BY <3>2, <3>3, <3>4, <3>5
    <3>8. Touches({HeadKey(h), vk, LinkKey})
      BY <3>1, <3>6 DEF Touches
    <3> QED BY <3>1, <3>7, <3>8
  <2>4. StoreInv /\ h \notin Heads /\ x = [epoch |-> 1, unique_id |-> 0]
    BY <1>4 DEF HeadsInv, Heads, L!ProjectionObject
  <2> HIDE DEF x
  <2>5. store'[HeadKey(h)] = [epoch |-> 1, unique_id |-> 0]
    BY <2>3, <2>4
  <2>6. /\ StoreInv' /\ Grows /\ Heads' = Heads \cup {h} /\ Present(LinkKey)'
        /\ \A g \in Heads : store'[HeadKey(g)] = store[HeadKey(g)]
    BY <1>4, <2>3, <2>4, <2>5, InitialViewOK, LogStep
  <2>7. UidsKept
    <3>1. PICK K : K = {HeadKey(h), vk, LinkKey}
      OBVIOUS
    <3>2. R!IdKey \notin K /\ Touches(K)
      BY <2>3, <3>1, Keys
    <3>3. R!NextId(store') \in Nat /\ R!NextId(store') >= R!NextId(store)
      BY <3>2, NextIdKept DEF HeadsInv
    <3>4. \A g \in Heads : store[HeadKey(g)].unique_id \in Nat
      BY <2>4 DEF StoreInv, LmdbHead
    <3> QED BY <2>6, <3>3, <3>4 DEF UidsKept
  <2>8. PICK me : me = cl[c]
    OBVIOUS
  <2>9. me \in ClientState /\ Fits(me) /\ me.pc = "create"
    BY <2>8 DEF HeadsInv, ClientInv
  <2>10. me.id = -1
    BY <2>9, Pcs DEF Fits
  <2>11. PICK r : r = [me EXCEPT !.pc = "uid", !.hoid = h, !.created = TRUE]
    OBVIOUS
  <2>12. r \in ClientState /\ r.pc = "uid" /\ r.created /\ r.hoid = h
    <3>1. h \in 0 .. MaxHeads /\ "uid" \in Busy
      BY HeadsAssumption DEF Uuids, Busy
    <3> QED BY <2>9, <2>11, <3>1 DEF ClientState
  <2>13. Fits(r)' /\ HeldToken(r)' /\ r.pc \notin Committing
    BY <2>3, <2>6, <2>12 DEF Fits, Past, Committing, HasViewPcs, HeldToken
  <2>14. cl' = [cl EXCEPT ![c] = r]
    BY <1>1, <2>1, <2>8, <2>11 DEF Created, Set
  <2>15. \A d \in Clients \ {c} : cl[d].pc # "propose_commit"
    BY LockFree
  <2>16. \A d \in Clients \ {c} : ~cl[d].created
    BY <1>4 DEF HeadsInv, ClientInv, Fits
  <2>17. HeadsInv'
    BY <2>6, <2>7, <2>12, <2>13, <2>14, <2>15, <2>16, ActStep
  <2> QED BY <2>6, <2>17
<1> QED BY <1>3, <1>4

\* Ceph: the head
LEMMA CephInitStep ==
    ASSUME HeadsInv, NEW c \in Clients, NEW h \in Uuids, kind = "ceph", cl[c].pc = "create",
           CephInitHead(c, h), kind' = kind, tokens' = tokens
    PROVE  HeadsInv' /\ Grows
<1>1. CASE Present(HeadKey(h))
  <2>1. InitHeadObject(h) # "OK"
    BY <1>1 DEF InitHeadObject, C!head_init
  <2>2. store' = store /\ cl' = cl
    BY <2>1 DEF CephInitHead
  <2>3. PICK r : r = cl[c]
    OBVIOUS
  <2>4. r \in ClientState /\ Fits(r) /\ r.pc \notin Committing
    BY <2>3 DEF HeadsInv, ClientInv, Committing
  <2>5. cl' = [cl EXCEPT ![c] = r]
    BY <2>2, <2>3 DEF HeadsInv, ClientInv
  <2> QED BY <2>2, <2>3, <2>4, <2>5, Untouched, QuietStep
<1>2. CASE ~Present(HeadKey(h))
  <2> DEFINE x == C!HeadObject(0)
  <2>1. InitHeadObject(h) = "OK"
    BY <1>2 DEF InitHeadObject, C!head_init
  <2>2. /\ store' = [j \in DOMAIN store \cup {HeadKey(h)} |->
                       IF j = HeadKey(h) THEN x ELSE store[j]]
        /\ Set(c, [cl[c] EXCEPT !.pc = "first_view", !.hoid = h])
    BY <2>1 DEF CephInitHead, C!With
  <2>3. CephHead(x)
    <3>1. x = [epoch |-> 0, views |-> <<>>, unique_id |-> 0]
      BY DEF C!HeadObject
    <3>2. x.epoch = 0 /\ x.views = <<>> /\ x.unique_id = 0
      BY <3>1
    <3>3. <<>> \in [1 .. 0 -> ViewData]
      OBVIOUS
    <3> HIDE DEF x
    <3> QED BY <3>1, <3>2, <3>3 DEF CephHead
  <2> HIDE DEF x
  <2>4. Touches({HeadKey(h)}) /\ store'[HeadKey(h)] = x
    BY <2>2, WithTouches
  <2>5. StoreInv /\ h \notin Heads
    BY <1>2 DEF HeadsInv, Heads
  <2>6. StoreInv' /\ Grows /\ Heads' = Heads \cup {h}
    BY <2>3, <2>4, <2>5, HeadStep
  <2>7. UidsKept
    BY <2>4, <2>5, HeadUids
  <2>8. PICK me : me = cl[c]
    OBVIOUS
  <2>9. me \in ClientState /\ Fits(me) /\ me.pc = "create"
    BY <2>8 DEF HeadsInv, ClientInv
  <2>10. me.id = -1 /\ ~me.created
    BY <2>9, Pcs DEF Fits
  <2>11. PICK r : r = [me EXCEPT !.pc = "first_view", !.hoid = h]
    OBVIOUS
  <2>12. r \in ClientState /\ r.pc = "first_view" /\ ~r.created /\ r.id = -1 /\ r.hoid = h
    <3>1. h \in 0 .. MaxHeads /\ "first_view" \in Busy
      BY HeadsAssumption DEF Uuids, Busy
    <3> QED BY <2>9, <2>10, <2>11, <3>1 DEF ClientState
  <2>13. Fits(r)' /\ HeldToken(r)' /\ r.pc \notin Committing
    BY <2>6, <2>12 DEF Fits, Past, Committing, HasViewPcs, HeldToken
  <2>14. cl' = [cl EXCEPT ![c] = r]
    BY <2>2, <2>8, <2>11 DEF Set
  <2>15. \A d \in Clients \ {c} : cl[d].pc # "propose_commit"
    BY DEF HeadsInv, ClientInv, Fits, Committing
  <2>16. HeadsInv'
    BY <2>6, <2>7, <2>12, <2>13, <2>14, <2>15, ActStep
  <2> QED BY <2>6, <2>16
<1> QED BY <1>1, <1>2

\* CreateLog, up to its first lock, transaction or request
LEMMA CreateLogStep ==
    ASSUME HeadsInv, NEW c \in Clients, CreateLog(c)
    PROVE  HeadsInv' /\ Grows
<1>1. cl[c].pc = "create" /\ kind' = kind /\ tokens' = tokens /\ WriteLockFree
  BY DEF CreateLog
<1>2. PICK h \in RandomHeads :
        CASE kind = "ram"  -> RamCreateHead(c, h)
          [] kind = "lmdb" -> LmdbCreateLog(c, h)
          [] kind = "ceph" -> CephInitHead(c, h)
  BY DEF CreateLog
<1>3. h \in Uuids
  BY RandomHeadsOK
<1>4. CASE kind = "ram"
  BY <1>1, <1>2, <1>3, <1>4, RamCreateStep
<1>5. CASE kind = "lmdb"
  <2>1. LmdbCreateLog(c, h)
    BY <1>2, <1>5
  <2> QED BY <1>1, <1>3, <1>5, <2>1, LmdbCreateStep
<1>6. CASE kind = "ceph"
  <2>1. CephInitHead(c, h)
    BY <1>2, <1>6
  <2> QED BY <1>1, <1>3, <1>6, <2>1, CephInitStep
<1> QED BY <1>4, <1>5, <1>6 DEF HeadsInv, StoreInv

\* zlog_view_create adds the view of the next epoch, or nothing.
LEMMA CephViewCreate ==
    ASSUME NEW x, CephHead(x), NEW n \in Nat, NEW v \in ViewData,
           NEW rep, rep = C!view_create(x, n, v)
    PROVE  /\ rep.ret = "OK" =>
                /\ n = x.epoch + 1 /\ CephHead(rep.obj) /\ rep.obj.epoch = n
                /\ rep.obj.unique_id = x.unique_id /\ DOMAIN rep.obj.views = 1 .. n
                /\ \A e \in 1 .. x.epoch : rep.obj.views[e] = x.views[e]
           /\ rep.ret # "OK" => rep.obj = x
<1>1. /\ x = [epoch |-> x.epoch, views |-> x.views, unique_id |-> x.unique_id]
      /\ x.epoch \in Nat /\ x.unique_id \in Nat
      /\ x.views \in [1 .. x.epoch -> ViewData]
  BY DEF CephHead
<1> DEFINE ret == IF n < 1 THEN "EINVAL" ELSE C!EpochRet(x, n)
           w == C!With(x.views, n, v)
           y == [x EXCEPT !.epoch = n, !.views = w]
<1>2. rep.ret = ret /\ rep.obj = IF ret = "OK" THEN y ELSE x
  BY DEF C!view_create, C!Reply
<1>3. ASSUME ret = "OK" PROVE n = x.epoch + 1
  BY <1>1, <1>3 DEF C!EpochRet
<1> HIDE DEF ret
<1>4. ASSUME ret = "OK"
      PROVE  /\ CephHead(y) /\ y.epoch = n /\ y.unique_id = x.unique_id
             /\ DOMAIN y.views = 1 .. n /\ \A e \in 1 .. x.epoch : y.views[e] = x.views[e]
  <2>1. w = [j \in 1 .. x.epoch \cup {n} |-> IF j = n THEN v ELSE x.views[j]]
    BY <1>1 DEF C!With
  <2>2. (1 .. x.epoch) \cup {n} = 1 .. n
    BY <1>1, <1>3, <1>4
  <2>3. w \in [1 .. n -> ViewData] /\ DOMAIN w = 1 .. n
    BY <1>1, <2>1, <2>2
  <2>4. \A e \in 1 .. x.epoch : w[e] = x.views[e]
    BY <1>1, <1>3, <1>4, <2>1, <2>2
  <2> HIDE DEF w
  <2>5. y.epoch = n /\ y.views = w /\ y.unique_id = x.unique_id
        /\ y = [epoch |-> n, views |-> w, unique_id |-> x.unique_id]
    <3>1. PICK a, b, d : a = x.epoch /\ b = x.views /\ d = x.unique_id
      OBVIOUS
    <3>2. x \in [epoch : {a}, views : {b}, unique_id : {d}]
      BY <1>1, <3>1
    <3>3. y \in [epoch : {n}, views : {w}, unique_id : {d}]
      BY <3>2
    <3> HIDE DEF y
    <3> QED BY <3>1, <3>3
  <2> HIDE DEF y
  <2> QED BY <1>1, <2>3, <2>4, <2>5 DEF CephHead
<1> HIDE DEF y
<1> QED BY <1>2, <1>3, <1>4

\* Head object y has all the views of x.
CephExtends(y, x) ==
    /\ CephHead(y) /\ y.epoch >= x.epoch /\ y.unique_id >= x.unique_id
    /\ \A e \in DOMAIN x.views : e \in DOMAIN y.views /\ y.views[e] = x.views[e]

\* A head object is replaced by one that has all its views.
LEMMA CephHeadStep ==
    ASSUME HeadsInv, kind = "ceph", kind' = kind, NEW g \in Heads, NEW x, NEW y,
           x = store[HeadKey(g)], store' = [store EXCEPT ![HeadKey(g)] = y],
           CephExtends(y, x)
    PROVE  /\ StoreInv' /\ Grows /\ UidsKept /\ Heads' = Heads
           /\ store'[HeadKey(g)] = y /\ Touches({HeadKey(g)})
           /\ Stored(g)' = y.views
<1>1. StoreInv /\ g \in Uuids /\ Present(HeadKey(g))
  BY DEF HeadsInv, Heads
<1>2. Touches({HeadKey(g)}) /\ store'[HeadKey(g)] = y
  BY <1>1, ExceptTouches
<1>3. Stored(g) = x.views /\ Stored(g)' = y.views
  BY <1>2 DEF Stored
<1>4. Epoch(g) = x.epoch /\ Epoch(g)' = y.epoch
  BY <1>2 DEF Epoch
<1>5. /\ Epoch(g)' >= Epoch(g)
      /\ \A e \in DOMAIN Stored(g) : e \in DOMAIN Stored(g)' /\ Stored(g)'[e] = Stored(g)[e]
  BY <1>3, <1>4 DEF CephExtends
<1>6. StoreInv' /\ Grows /\ Heads' = Heads \cup {g}
  BY <1>1, <1>2, <1>5, HeadStep DEF CephExtends
<1>7. UidsKept
  BY <1>1, <1>2, HeadUids DEF CephExtends
<1> QED BY <1>2, <1>3, <1>6, <1>7

\* A request that leaves the object as it is
LEMMA SameObject ==
    ASSUME NEW k, store' = [store EXCEPT ![k] = store[k]]
    PROVE  Touches({})
BY DEF Touches

\* Ceph: the first view
LEMMA FirstViewStep ==
    ASSUME HeadsInv, NEW c \in Clients, FirstView(c)
    PROVE  HeadsInv' /\ Grows
<1>1. PICK me, h : me = cl[c] /\ h = cl[c].hoid
  OBVIOUS
<1>2. me \in ClientState /\ Fits(me) /\ me.pc = "first_view"
  BY <1>1 DEF HeadsInv, ClientInv, FirstView
<1>3. h \in Heads /\ kind = "ceph" /\ me.id = -1 /\ ~me.created /\ me.hoid = h
  BY <1>1, <1>2, Pcs DEF Fits
<1>4. PICK x, rep : x = store[HeadKey(h)] /\ rep = C!view_create(x, 1, InitialView)
  OBVIOUS
<1>5. /\ store' = [store EXCEPT ![HeadKey(h)] = rep.obj]
      /\ IF rep.ret = "OK" THEN Goto(c, "link") ELSE Fail(c, rep.ret)
      /\ kind' = kind /\ tokens' = tokens
  BY <1>1, <1>4 DEF FirstView, CephProposeView, Exec
<1>6. CephHead(x)
  BY <1>3, <1>4 DEF HeadsInv, StoreInv
<1>7. CASE rep.ret # "OK"
  <2>1. rep.obj = x
    BY <1>4, <1>6, <1>7, CephViewCreate, InitialViewOK
  <2>2. Touches({})
    BY <1>4, <1>5, <2>1, SameObject
  <2>3. cl' = [cl EXCEPT ![c] = Closed]
    BY <1>5, <1>7 DEF Fail, Set
  <2> QED BY <1>5, <2>2, <2>3, FailStep
<1>8. CASE rep.ret = "OK"
  <2>1. PICK y : y = rep.obj
    OBVIOUS
  <2>2. /\ 1 = x.epoch + 1 /\ CephHead(y) /\ y.epoch = 1 /\ y.unique_id = x.unique_id
        /\ DOMAIN y.views = 1 .. 1 /\ \A e \in 1 .. x.epoch : y.views[e] = x.views[e]
    BY <1>4, <1>6, <1>8, <2>1, CephViewCreate, InitialViewOK
  <2>3. x.epoch \in Nat /\ DOMAIN x.views = 1 .. x.epoch /\ x.unique_id \in Nat
    BY <1>6 DEF CephHead
  <2>4. /\ y.epoch >= x.epoch /\ y.unique_id >= x.unique_id
        /\ \A e \in DOMAIN x.views : e \in DOMAIN y.views /\ y.views[e] = x.views[e]
    BY <2>2, <2>3
  <2>5. StoreInv' /\ Grows /\ UidsKept /\ Heads' = Heads /\ Stored(h)' = y.views
    <3>1. store' = [store EXCEPT ![HeadKey(h)] = y] /\ kind' = kind
      BY <1>5, <2>1
    <3>2. CephExtends(y, x)
      BY <2>2, <2>4 DEF CephExtends
    <3> QED BY <1>3, <1>4, <3>1, <3>2, CephHeadStep
  <2>6. PICK r : r = [me EXCEPT !.pc = "link"]
    OBVIOUS
  <2>7. r \in ClientState /\ r.pc = "link" /\ ~r.created /\ r.id = -1 /\ r.hoid = h
    <3>1. "link" \in Busy
      BY DEF Busy
    <3> QED BY <1>2, <1>3, <2>6, <3>1 DEF ClientState
  <2>8. 1 \in DOMAIN Stored(h)'
    BY <2>2, <2>5
  <2>9. Fits(r)' /\ HeldToken(r)' /\ r.pc \notin Committing
    BY <1>3, <1>5, <2>5, <2>7, <2>8 DEF Fits, Past, Committing, HasViewPcs, HeldToken
  <2>10. cl' = [cl EXCEPT ![c] = r]
    BY <1>1, <1>5, <1>8, <2>6 DEF Goto, Set
  <2>11. \A d \in Clients \ {c} : cl[d].pc # "propose_commit"
    BY <1>3 DEF HeadsInv, ClientInv, Fits, Committing
  <2>12. HeadsInv'
    BY <1>5, <2>5, <2>7, <2>9, <2>10, <2>11, ActStep
  <2> QED BY <2>5, <2>12
<1> QED BY <1>7, <1>8

\* The link, an exclusive create
LEMMA LinkCallStep ==
    ASSUME HeadsInv, NEW c \in Clients, Link(c)
    PROVE  HeadsInv' /\ Grows
<1>1. PICK me, h : me = cl[c] /\ h = cl[c].hoid
  OBVIOUS
<1>2. me \in ClientState /\ Fits(me) /\ me.pc = "link" /\ StoreInv
  BY <1>1 DEF HeadsInv, ClientInv, Link
<1>3. /\ h \in Heads /\ kind # "lmdb" /\ 1 \in DOMAIN Stored(h) /\ me.id = -1
      /\ ~me.created /\ me.hoid = h
  BY <1>1, <1>2, Pcs DEF Fits
<1> DEFINE res == R!CreateLink(store, Name, h)
<1>4. store' = res.store /\ Created(c, res.ret, h) /\ kind' = kind /\ tokens' = tokens
  BY <1>1 DEF Link, CreateLink
<1>5. res = IF Present(LinkKey) THEN R!Result("EEXIST", store)
            ELSE R!Result("OK", R!With(store, LinkKey, h))
  BY SameKeys DEF R!CreateLink, R!Emplace, Present
<1> HIDE DEF res
<1>6. CASE Present(LinkKey)
  <2>1. PICK ret : ret = "EEXIST"
    OBVIOUS
  <2>2. ret # "OK" /\ Created(c, ret, h) /\ store' = store
    BY <1>4, <1>5, <1>6, <2>1 DEF R!Result
  <2>3. cl[c].pc \in {"create", "link"} /\ Touches({})
    BY <1>1, <1>2, <2>2, Untouched
  <2> QED BY <1>4, <2>2, <2>3, NotCreatedStep
<1>7. CASE ~Present(LinkKey)
  <2>1. /\ store' = [j \in DOMAIN store \cup {LinkKey} |-> IF j = LinkKey THEN h ELSE store[j]]
        /\ res.ret = "OK"
    BY <1>4, <1>5, <1>7 DEF R!Result, R!With
  <2>2. Touches({LinkKey}) /\ store'[LinkKey] = h
    BY <2>1, WithTouches
  <2>3. /\ StoreInv' /\ Grows /\ Heads' = Heads /\ Present(LinkKey)'
        /\ \A g \in Heads : store'[HeadKey(g)] = store[HeadKey(g)]
    BY <1>2, <1>3, <1>4, <1>7, <2>2, LinkStep
  <2>4. UidsKept
    <3>1. R!IdKey \notin {LinkKey}
      BY Keys
    <3>2. R!NextId(store') \in Nat /\ R!NextId(store') >= R!NextId(store)
      BY <2>2, <3>1, NextIdKept DEF HeadsInv
    <3>3. kind # "ram" => \A g \in Heads : store[HeadKey(g)].unique_id \in Nat
      BY <1>2 DEF StoreInv, LmdbHead, CephHead
    <3> QED BY <2>3, <3>2, <3>3 DEF UidsKept
  <2>5. PICK r : r = [me EXCEPT !.pc = "uid", !.hoid = h, !.created = TRUE]
    OBVIOUS
  <2>6. r \in ClientState /\ r.pc = "uid" /\ r.created /\ r.hoid = h
    <3>1. h \in 0 .. MaxHeads /\ "uid" \in Busy
      BY <1>3, HeadsAssumption DEF Heads, Uuids, Busy
    <3> QED BY <1>2, <2>5, <3>1 DEF ClientState
  <2>7. Fits(r)' /\ HeldToken(r)' /\ r.pc \notin Committing
    BY <2>2, <2>3, <2>6 DEF Fits, Past, Committing, HasViewPcs, HeldToken
  <2>8. cl' = [cl EXCEPT ![c] = r]
    BY <1>1, <1>4, <2>1, <2>5 DEF Created, Set
  <2>9. \A d \in Clients \ {c} : cl[d].pc # "propose_commit" /\ ~cl[d].created
    BY <1>3, <1>7 DEF HeadsInv, ClientInv, Fits, Committing
  <2>10. HeadsInv'
    BY <1>4, <2>3, <2>4, <2>6, <2>7, <2>8, <2>9, ActStep
  <2> QED BY <2>3, <2>10
<1> QED BY <1>6, <1>7

-----------------------------------------------------------------------------
(* Taking a token *)

\* A client gets a token that is new.
LEMMA IssueStep ==
    ASSUME HeadsInv, StoreInv', Grows, UidsKept, NEW c \in Clients, NEW r \in ClientState,
           cl' = [cl EXCEPT ![c] = r], Fits(r)', r.pc = "refresh", r.created => cl[c].created,
           Touches({}) \/ \A d \in Clients \ {c} : cl[d].pc # "propose_commit",
           \A d \in Clients \ {c} : cl[d].pc # "uid_commit",
           NEW h \in Uuids, NEW id \in Int, Issue(h, id),
           <<h, id>> \notin tokens.issued, Spent(h, id)'
    PROVE  HeadsInv'
<1>1. StoreInv /\ ClientInv /\ TokenInv
  BY DEF HeadsInv
<1>2. r.pc \notin Committing
  BY DEF Committing
<1>3. r.created => \A d \in Clients \ {c} : ~cl[d].created
  BY <1>1 DEF ClientInv, OneCreator
<1>4. ClientInv'
  BY <1>1, <1>2, <1>3, ClientStep
<1>5. \A d \in Clients : cl'[d].pc # "uid_commit"
  BY <1>1 DEF ClientInv
<1>6. TokenInv'
  BY <1>1, <1>5, TokenIssued
<1> QED BY <1>4, <1>6 DEF HeadsInv

\* What is not spent was not handed out.
LEMMA FreshToken ==
    ASSUME TokenInv, NEW h, NEW id, ~Spent(h, id)
    PROVE  <<h, id>> \notin tokens.issued
<1> SUFFICES ASSUME <<h, id>> \in tokens.issued PROVE FALSE
  OBVIOUS
<1>1. PICK x : x = <<h, id>>
  OBVIOUS
<1>2. x \in tokens.issued /\ x[1] = h /\ x[2] = id
  BY <1>1
<1>3. Spent(x[1], x[2])
  BY <1>2 DEF TokenInv
<1> QED BY <1>2, <1>3

\* The counters, where the store stays as it is
LEMMA QuietUids ==
    ASSUME HeadsInv, kind' = kind, Touches({})
    PROVE  StoreInv' /\ Grows /\ UidsKept
<1>1. StoreInv /\ TokenInv
  BY DEF HeadsInv
<1>2. StoreInv' /\ Grows /\ \A h \in Heads : store'[HeadKey(h)] = store[HeadKey(h)]
  BY <1>1, OtherKeysStep
<1>3. kind # "ram" => \A h \in Heads : store[HeadKey(h)].unique_id \in Nat
  BY <1>1 DEF StoreInv, LmdbHead, CephHead
<1> QED BY <1>1, <1>2, <1>3, NextIdKept DEF UidsKept

\* A client that has its token, while the store grows
LEMMA RefreshFits ==
    ASSUME Grows, NEW r, Present(LinkKey), r.hoid = store[LinkKey],
           r.pc \in {"uid", "refresh"}, r.options = {}
    PROVE  Fits(r)'
<1>1. kind' = kind /\ Present(LinkKey)' /\ r.hoid = store'[LinkKey]
  BY DEF Grows
<1> QED BY <1>1 DEF Fits, Past, Committing, HasViewPcs

\* The state of a client that has read its token
Taken(me, pc, id) == [me EXCEPT !.pc = pc, !.options = {}, !.id = id]

\* is one of a client
LEMMA TakeFacts ==
    ASSUME NEW me \in ClientState, NEW pc \in Busy, NEW id \in Int
    PROVE  /\ Taken(me, pc, id) \in ClientState
           /\ Taken(me, pc, id).pc = pc /\ Taken(me, pc, id).id = id
           /\ Taken(me, pc, id).hoid = me.hoid /\ Taken(me, pc, id).options = {}
<1>1. Taken(me, pc, id) \in ClientState
  BY DEF ClientState, Taken
<1>2. /\ Taken(me, pc, id).pc = pc /\ Taken(me, pc, id).id = id
      /\ Taken(me, pc, id).hoid = me.hoid /\ Taken(me, pc, id).options = {}
  BY DEF ClientState, Taken
<1> QED BY <1>1, <1>2

\* RAM: the counter
LEMMA RamUidStep ==
    ASSUME HeadsInv, NEW c \in Clients, kind = "ram", cl[c].pc = "uid", RamUid(c), kind' = kind
    PROVE  HeadsInv' /\ Grows
<1>1. PICK me, h, id : me = cl[c] /\ h = cl[c].hoid /\ id = R!NextId(store)
  OBVIOUS
<1>2. me.pc \in Past
  BY <1>1 DEF Past
<1>3. /\ StoreInv /\ me \in ClientState /\ Present(LinkKey)
      /\ h = store[LinkKey] /\ h \in Uuids /\ me.hoid = h
  BY <1>1, <1>2, PastFacts
<1>4. id \in Nat
  BY <1>1 DEF HeadsInv, TokenInv
<1>5. /\ store' = [j \in DOMAIN store \cup {R!IdKey} |->
                     IF j = R!IdKey THEN id + 1 ELSE store[j]]
      /\ Issue(h, id)
  BY <1>1 DEF RamUid, R!UniqueId, R!Result, R!With
<1>6. Touches({R!IdKey}) /\ store'[R!IdKey] = id + 1
  BY <1>5, WithTouches
<1>7. StoreInv' /\ Grows
  <2>1. PICK K : K = {R!IdKey}
    OBVIOUS
  <2> QED BY <1>3, <1>6, <2>1, OtherKeysStep
<1>8. R!NextId(store') = id + 1
  BY <1>6 DEF Touches, R!NextId
<1>9. UidsKept
  BY <1>1, <1>4, <1>8 DEF UidsKept
<1>10. PICK r : r = Taken(me, "refresh", id)
  OBVIOUS
<1>11. "refresh" \in Busy /\ id \in Int
  BY <1>4 DEF Busy
<1>12. r \in ClientState /\ r.pc = "refresh" /\ r.hoid = h /\ r.options = {}
  BY <1>3, <1>10, <1>11, TakeFacts
<1>19. r.created <=> me.created
  BY <1>3, <1>10 DEF ClientState, Taken
<1>13. Fits(r)'
  BY <1>3, <1>7, <1>12, RefreshFits
<1>14. cl' = [cl EXCEPT ![c] = r]
  BY <1>1, <1>10 DEF RamUid, Take, Set, Taken
<1>15. \A d \in Clients \ {c} : cl[d].pc # "propose_commit" /\ cl[d].pc # "uid_commit"
  BY DEF HeadsInv, ClientInv, Fits, Committing
<1>16. <<h, id>> \notin tokens.issued
  <2>1. ~Spent(h, id)
    BY <1>1, <1>4 DEF Spent
  <2> QED BY <2>1, FreshToken DEF HeadsInv
<1>17. Spent(h, id)'
  BY <1>4, <1>8 DEF Spent, R!NextId
<1>18. HeadsInv'
  BY <1>1, <1>3, <1>5, <1>7, <1>9, <1>11, <1>12, <1>13, <1>14, <1>15, <1>16, <1>17,
     <1>19, IssueStep
<1> QED BY <1>7, <1>18

\* LMDB: a head is changed in place.
LEMMA LmdbHeadStep ==
    ASSUME HeadsInv, kind = "lmdb", kind' = kind, NEW g \in Heads, NEW x, NEW y,
           x = store[HeadKey(g)], store' = [store EXCEPT ![HeadKey(g)] = y],
           LmdbHead(y), y.epoch >= x.epoch, y.unique_id >= x.unique_id,
           \A e \in 1 .. y.epoch : e = 1 \/ e < y.epoch => Present(L!ProjectionKey(g, e))
    PROVE  /\ StoreInv' /\ Grows /\ UidsKept /\ Heads' = Heads /\ Epoch(g)' = y.epoch
           /\ store'[HeadKey(g)] = y
           /\ \A h, e : Present(L!ProjectionKey(h, e))' <=> Present(L!ProjectionKey(h, e))
<1>1. StoreInv /\ g \in Uuids /\ Present(HeadKey(g)) /\ LmdbHead(x)
  BY DEF HeadsInv, StoreInv, Heads
<1>2. Touches({HeadKey(g)}) /\ store'[HeadKey(g)] = y
  BY <1>1, ExceptTouches
<1>3. Epoch(g) = x.epoch /\ Epoch(g)' = y.epoch /\ x.epoch \in Nat /\ y.epoch \in Nat
  BY <1>1, <1>2 DEF Epoch, LmdbHead
<1>4. \A e : L!ProjectionKey(g, e) # HeadKey(g)
  BY Keys
<1>5. \A e : Present(L!ProjectionKey(g, e)) =>
        /\ L!ProjectionKey(g, e) \in DOMAIN store'
        /\ store'[L!ProjectionKey(g, e)] = store[L!ProjectionKey(g, e)]
  BY <1>2, <1>4 DEF Touches, Present
<1>6. Stored(g) = [e \in {e \in 1 .. Epoch(g) : Present(L!ProjectionKey(g, e))} |->
                     store[L!ProjectionKey(g, e)]]
  BY DEF Stored
<1>7. Stored(g)' = [e \in {e \in 1 .. Epoch(g)' : Present(L!ProjectionKey(g, e))'} |->
                      store'[L!ProjectionKey(g, e)]]
  BY DEF Stored, L!ProjectionKey
<1>8. ASSUME NEW e \in DOMAIN Stored(g)
      PROVE  e \in DOMAIN Stored(g)' /\ Stored(g)'[e] = Stored(g)[e]
  <2>1. e \in 1 .. Epoch(g) /\ Present(L!ProjectionKey(g, e))
        /\ Stored(g)[e] = store[L!ProjectionKey(g, e)]
    BY <1>6, <1>8
  <2>2. e \in 1 .. Epoch(g)'
    BY <1>3, <2>1
  <2>3. Present(L!ProjectionKey(g, e))' /\ store'[L!ProjectionKey(g, e)] = Stored(g)[e]
    BY <1>5, <2>1 DEF Present, L!ProjectionKey
  <2> QED BY <1>7, <2>2, <2>3
<1>9. Epoch(g)' >= Epoch(g)
  BY <1>3
<1>10. ASSUME NEW e \in 1 .. Epoch(g)', e = 1 \/ e < Epoch(g)'
       PROVE  Present(L!ProjectionKey(g, e))
  BY <1>3, <1>10
<1>11. /\ StoreInv' /\ Grows /\ Heads' = Heads \cup {g}
       /\ \A h, e : Present(L!ProjectionKey(h, e))' <=> Present(L!ProjectionKey(h, e))
  BY <1>1, <1>2, <1>8, <1>9, <1>10, HeadStep
<1>12. UidsKept
  BY <1>1, <1>2, HeadUids
<1> QED BY <1>2, <1>3, <1>11, <1>12

\* LMDB: the increment in place
LEMMA LmdbUidStep ==
    ASSUME HeadsInv, NEW c \in Clients, kind = "lmdb", cl[c].pc = "uid", WriteLockFree,
           LmdbUid(c), kind' = kind
    PROVE  HeadsInv' /\ Grows
<1>1. PICK me, h : me = cl[c] /\ h = cl[c].hoid
  OBVIOUS
<1>2. me.pc \in Past
  BY <1>1 DEF Past
<1>3. /\ StoreInv /\ me \in ClientState /\ Present(LinkKey)
      /\ h = store[LinkKey] /\ h \in Heads /\ me.hoid = h
  BY <1>1, <1>2, PastFacts
<1>4. PICK x, id : x = store[HeadKey(h)] /\ id = store[HeadKey(h)].unique_id
  OBVIOUS
<1>5. LmdbHead(x) /\ LmdbViews
  BY <1>3, <1>4 DEF StoreInv
<1>6. id \in Nat /\ x.epoch \in Nat /\ id = x.unique_id
  BY <1>4, <1>5 DEF LmdbHead
<1>7. PICK y : y = [x EXCEPT !.unique_id = @ + 1]
  OBVIOUS
<1>8. LmdbHead(y) /\ y.epoch = x.epoch /\ y.unique_id = id + 1
  BY <1>5, <1>6, <1>7 DEF LmdbHead
<1>9. store' = [store EXCEPT ![HeadKey(h)] = y]
  BY <1>1, <1>4, <1>7, SameKeys DEF LmdbUid, L!IdInPlace
<1>10. /\ y.epoch >= x.epoch /\ y.unique_id >= x.unique_id
       /\ \A e \in 1 .. y.epoch : e = 1 \/ e < y.epoch => Present(L!ProjectionKey(h, e))
  BY <1>3, <1>4, <1>5, <1>6, <1>8 DEF LmdbViews, Epoch
<1>11. /\ StoreInv' /\ Grows /\ UidsKept /\ Heads' = Heads /\ store'[HeadKey(h)] = y
  BY <1>3, <1>4, <1>8, <1>9, <1>10, LmdbHeadStep
<1>12. PICK r : r = Taken(me, "uid_commit", id)
  OBVIOUS
<1>13. "uid_commit" \in Busy /\ id \in Int
  BY <1>6 DEF Busy, Committing
<1>14. r \in ClientState /\ r.pc = "uid_commit" /\ r.hoid = h /\ r.options = {} /\ r.id = id
  BY <1>3, <1>12, <1>13, TakeFacts
<1>15. r.created <=> me.created
  BY <1>3, <1>12 DEF ClientState, Taken
<1>16. Fits(r)'
  <2>1. kind' = kind /\ Present(LinkKey)' /\ r.hoid = store'[LinkKey]
    BY <1>3, <1>11, <1>14 DEF Grows
  <2> QED BY <1>14, <2>1 DEF Fits, Past, Committing, HasViewPcs
<1>17. HeldToken(r)'
  <2>1. ~Spent(h, id)
    BY <1>4, <1>6 DEF Spent
  <2>2. <<h, id>> \notin tokens'.issued
    BY <2>1, FreshToken DEF HeadsInv, LmdbUid
  <2>3. Spent(h, id)'
    BY <1>3, <1>6, <1>8, <1>11 DEF Spent
  <2>4. (<<r.hoid, r.id>> \notin tokens.issued)' /\ Spent(r.hoid, r.id)'
    BY <1>14, <2>2, <2>3
  <2> QED BY <2>4 DEF HeldToken
<1>18. cl' = [cl EXCEPT ![c] = r] /\ tokens' = tokens
  BY <1>1, <1>4, <1>12 DEF LmdbUid, Take, Set, Taken
<1>19. \A d \in Clients \ {c} : cl[d].pc # "propose_commit" /\ cl[d].pc \notin Committing
  BY LockFree
<1>20. r.created => \A d \in Clients \ {c} : ~cl[d].created
  BY <1>1, <1>15 DEF HeadsInv, ClientInv, OneCreator
<1>21. HeadsInv'
  BY <1>11, <1>14, <1>16, <1>17, <1>18, <1>19, <1>20, ActStep
<1> QED BY <1>11, <1>21

\* Ceph: the id is read.
LEMMA CephUidStep ==
    ASSUME HeadsInv, NEW c \in Clients, kind = "ceph", cl[c].pc = "uid", CephUid(c),
           kind' = kind
    PROVE  HeadsInv' /\ Grows
<1>1. PICK me, h : me = cl[c] /\ h = cl[c].hoid
  OBVIOUS
<1>2. me.pc \in Past
  BY <1>1 DEF Past
<1>3. /\ StoreInv /\ me \in ClientState /\ Present(LinkKey)
      /\ h = store[LinkKey] /\ h \in Heads /\ me.hoid = h
  BY <1>1, <1>2, PastFacts
<1>4. PICK id : id = C!unique_id_read(store[HeadKey(h)]) + 1
  OBVIOUS
<1>5. id \in Int
  BY <1>3, <1>4 DEF C!unique_id_read, StoreInv, CephHead
<1>6. PICK r : r = Taken(me, "uid_write", id)
  OBVIOUS
<1>7. r \in ClientState /\ r.pc = "uid_write" /\ r.hoid = h /\ r.options = {}
  <2>1. "uid_write" \in Busy
    BY DEF Busy
  <2> QED BY <1>3, <1>5, <1>6, <2>1, TakeFacts
<1>8. r.created <=> me.created
  BY <1>3, <1>6 DEF ClientState, Taken
<1>9. Fits(r) /\ r.pc \notin Committing
  BY <1>3, <1>7 DEF Fits, Past, Committing, HasViewPcs
<1>10. cl' = [cl EXCEPT ![c] = r] /\ tokens' = tokens /\ Touches({})
  BY <1>1, <1>4, <1>6, Untouched DEF CephUid, Take, Set, Taken
<1> QED BY <1>1, <1>7, <1>8, <1>9, <1>10, QuietStep

\* uniqueId, up to its first lock, transaction or request
LEMMA UidStep ==
    ASSUME HeadsInv, NEW c \in Clients, Uid(c)
    PROVE  HeadsInv' /\ Grows
<1>1. cl[c].pc = "uid" /\ WriteLockFree /\ kind' = kind
  BY DEF Uid
<1>2. CASE kind = "ram"
  <2>1. RamUid(c)
    BY <1>2 DEF Uid
  <2> QED BY <1>1, <1>2, <2>1, RamUidStep
<1>3. CASE kind = "lmdb"
  <2>1. LmdbUid(c)
    BY <1>3 DEF Uid
  <2> QED BY <1>1, <1>3, <2>1, LmdbUidStep
<1>4. CASE kind = "ceph"
  <2>1. CephUid(c)
    BY <1>4 DEF Uid
  <2> QED BY <1>1, <1>4, <2>1, CephUidStep
<1> QED BY <1>2, <1>3, <1>4 DEF HeadsInv, StoreInv

\* LMDB: the transaction of uniqueId commits.
LEMMA UidCommitStep ==
    ASSUME HeadsInv, NEW c \in Clients, UidCommit(c)
    PROVE  HeadsInv' /\ Grows
<1>1. PICK me, h, id : me = cl[c] /\ h = cl[c].hoid /\ id = cl[c].id
  OBVIOUS
<1>2. me.pc = "uid_commit" /\ me.pc \in Past
  BY <1>1 DEF UidCommit, Past, Committing
<1>3. /\ StoreInv /\ me \in ClientState /\ Present(LinkKey) /\ Fits(me)
      /\ h = store[LinkKey] /\ h \in Uuids /\ me.hoid = h
  BY <1>1, <1>2, PastFacts
<1>4. kind' = kind /\ Touches({}) /\ Issue(h, id)
  BY <1>1, Untouched DEF UidCommit
<1>5. StoreInv' /\ Grows /\ UidsKept
  BY <1>4, QuietUids
<1>6. PICK r : r = [me EXCEPT !.pc = "refresh"]
  OBVIOUS
<1>7. r \in ClientState
  <2>1. "refresh" \in Busy \cup Idle
    BY DEF Busy
  <2> QED BY <1>3, <1>6, <2>1 DEF ClientState
<1>8. r.pc = "refresh" /\ r.hoid = h /\ r.options = me.options
  BY <1>3, <1>6 DEF ClientState
<1>9. r.created <=> me.created
  BY <1>3, <1>6 DEF ClientState
<1>10. "error_if_exists" \in r.options => r.created
  BY <1>2, <1>3, <1>8, <1>9 DEF Fits
<1>11. Fits(r)'
  <2>1. Present(LinkKey)' /\ r.hoid = store'[LinkKey]
    BY <1>3, <1>5, <1>8 DEF Grows
  <2> QED BY <1>8, <1>10, <2>1 DEF Fits, Past, Committing, HasViewPcs
<1>12. Spent(h, id) /\ <<h, id>> \notin tokens.issued /\ id \in Int
  BY <1>1, <1>2, <1>3 DEF HeadsInv, TokenInv, HeldToken, ClientState
<1>13. Spent(h, id)'
  BY <1>3, <1>5, <1>12, SpentKeeps DEF HeadsInv
<1>14. cl' = [cl EXCEPT ![c] = r]
  BY <1>1, <1>6 DEF UidCommit, Goto, Set
<1>15. \A d \in Clients \ {c} : cl[d].pc # "uid_commit"
  BY <1>1, <1>2 DEF HeadsInv, ClientInv, OneWriter, Committing
<1>16. HeadsInv'
  BY <1>1, <1>3, <1>4, <1>5, <1>7, <1>8, <1>9, <1>11, <1>12, <1>13, <1>14, <1>15, IssueStep
<1> QED BY <1>5, <1>16

\* Ceph: the next id is stored, or somebody else was faster.
LEMMA UidWriteStep ==
    ASSUME HeadsInv, NEW c \in Clients, UidWrite(c)
    PROVE  HeadsInv' /\ Grows
<1>1. PICK me, h, id : me = cl[c] /\ h = cl[c].hoid /\ id = cl[c].id
  OBVIOUS
<1>2. me.pc = "uid_write" /\ me.pc \in Past
  BY <1>1 DEF UidWrite, Past
<1>3. /\ StoreInv /\ me \in ClientState /\ Present(LinkKey) /\ Fits(me)
      /\ h = store[LinkKey] /\ h \in Heads /\ h \in Uuids /\ me.hoid = h
  BY <1>1, <1>2, PastFacts
<1>4. kind = "ceph" /\ id \in Int /\ kind' = kind
  BY <1>1, <1>2, <1>3 DEF Fits, ClientState, UidWrite
<1>5. PICK x, rep : x = store[HeadKey(h)] /\ rep = C!unique_id_write(x, id)
  OBVIOUS
<1>6. CephHead(x) /\ x.unique_id \in Nat
  BY <1>3, <1>4, <1>5 DEF StoreInv, CephHead
<1>7. /\ store' = [store EXCEPT ![HeadKey(h)] = rep.obj]
      /\ IF rep.ret = "ESTALE" THEN Goto(c, "uid") /\ tokens' = tokens
         ELSE Goto(c, "refresh") /\ Issue(h, id)
  BY <1>1, <1>5 DEF UidWrite, Exec
<1>8. PICK pc \in {"uid", "refresh"} : pc = IF rep.ret = "ESTALE" THEN "uid" ELSE "refresh"
  OBVIOUS
<1>9. PICK r : r = [me EXCEPT !.pc = pc]
  OBVIOUS
<1>10. r \in ClientState
  <2>1. pc \in Busy \cup Idle
    BY DEF Busy
  <2> QED BY <1>3, <1>9, <2>1 DEF ClientState
<1>11. r.pc = pc /\ r.hoid = h /\ r.options = me.options
  BY <1>3, <1>9 DEF ClientState
<1>12. r.created <=> me.created
  BY <1>3, <1>9 DEF ClientState
<1>13. "error_if_exists" \in r.options => r.created
  BY <1>2, <1>3, <1>11, <1>12 DEF Fits
<1>14. cl' = [cl EXCEPT ![c] = r]
  BY <1>1, <1>7, <1>8, <1>9 DEF Goto, Set
<1>15. CASE id # x.unique_id + 1
  <2>1. rep.ret = "ESTALE" /\ rep.obj = x
    BY <1>5, <1>15 DEF C!unique_id_write, C!Reply
  <2>2. Touches({}) /\ tokens' = tokens /\ pc = "uid"
    BY <1>5, <1>7, <1>8, <2>1, SameObject
  <2>3. Fits(r) /\ r.pc \notin Committing
    BY <1>3, <1>11, <1>13, <2>2 DEF Fits, Past, Committing, HasViewPcs
  <2> QED BY <1>1, <1>4, <1>10, <1>12, <1>14, <2>2, <2>3, QuietStep
<1>16. CASE id = x.unique_id + 1
  <2>1. PICK y : y = [x EXCEPT !.unique_id = id]
    OBVIOUS
  <2>2. rep.ret = "OK" /\ rep.obj = y
    BY <1>5, <1>16, <2>1 DEF C!unique_id_write, C!Reply
  <2>3. y.epoch = x.epoch /\ y.views = x.views /\ y.unique_id = id
        /\ y = [epoch |-> x.epoch, views |-> x.views, unique_id |-> id]
    <3>1. PICK a, b, d : a = x.epoch /\ b = x.views /\ d = x.unique_id
      OBVIOUS
    <3>2. x \in [epoch : {a}, views : {b}, unique_id : {d}]
      BY <1>6, <3>1 DEF CephHead
    <3>3. y \in [epoch : {a}, views : {b}, unique_id : {id}]
      BY <2>1, <3>2
    <3> QED BY <3>1, <3>3
  <2>4. CephHead(y)
    BY <1>6, <1>16, <2>3 DEF CephHead
  <2>5. CephExtends(y, x)
    BY <1>6, <1>16, <2>3, <2>4 DEF CephExtends, CephHead
  <2>6. store' = [store EXCEPT ![HeadKey(h)] = y]
    BY <1>7, <2>2
  <2>7. StoreInv' /\ Grows /\ UidsKept /\ Heads' = Heads /\ store'[HeadKey(h)] = y
    BY <1>3, <1>4, <1>5, <2>5, <2>6, CephHeadStep
  <2>8. Issue(h, id) /\ r.pc = "refresh"
    BY <1>7, <1>8, <1>11, <2>2
  <2>9. Fits(r)'
    <3>1. Present(LinkKey)' /\ r.hoid = store'[LinkKey]
      BY <1>3, <1>11, <2>7 DEF Grows
    <3> QED BY <1>13, <2>8, <3>1 DEF Fits, Past, Committing, HasViewPcs
  <2>10. <<h, id>> \notin tokens.issued
    <3>1. ~Spent(h, id)
      BY <1>4, <1>5, <1>6, <1>16 DEF Spent
    <3> QED BY <3>1, FreshToken DEF HeadsInv
  <2>11. Spent(h, id)'
    BY <1>3, <1>4, <1>6, <1>16, <2>3, <2>7 DEF Spent
  <2>12. \A d \in Clients \ {c} : cl[d].pc # "propose_commit" /\ cl[d].pc # "uid_commit"
    BY <1>4 DEF HeadsInv, ClientInv, Fits, Committing
  <2>13. HeadsInv'
    BY <1>1, <1>3, <1>4, <1>10, <1>12, <1>14, <2>7, <2>8, <2>9, <2>10, <2>11, <2>12, IssueStep
  <2> QED BY <2>7, <2>13
<1> QED BY <1>15, <1>16

-----------------------------------------------------------------------------
(* Proposing a view *)

\* A proposal names the sequencer of the view it is based on, or the client's.
LEMMA ProposalOK ==
    ASSUME HeadsInv, NEW c \in Clients
    PROVE  Proposal(c) \in ViewData
<1>1. PICK me : me = cl[c]
  OBVIOUS
<1>2. me \in ClientState
  BY <1>1 DEF HeadsInv, ClientInv
<1>3. me.view.seq \in Seqs /\ me.view.epoch \in Nat /\ me.id \in Int
  BY <1>2 DEF ClientState, CachedViews
<1>4. [epoch |-> me.view.epoch + 1, token |-> me.id] \in Seqs
  BY <1>3 DEF Seqs
<1> QED BY <1>1, <1>3, <1>4 DEF Proposal, ViewData

\* ProposeView has returned OK or ESPIPE: the client waits.
LEMMA WaitingStep ==
    ASSUME HeadsInv, StoreInv', Grows, UidsKept, tokens' = tokens, NEW c \in Clients,
           cl[c].pc \in {"propose", "propose_commit"},
           NEW ret \in {"OK", "ESPIPE"}, Proposed(c, ret),
           \A d \in Clients \ {c} : cl[d].pc # "propose_commit"
    PROVE  HeadsInv'
<1>1. PICK me : me = cl[c]
  OBVIOUS
<1>2. me.pc \in Past /\ me.pc \in HasViewPcs
  BY <1>1 DEF Past, Committing, HasViewPcs
<1>3. /\ StoreInv /\ me \in ClientState /\ Fits(me) /\ me.hoid \in Heads
      /\ Present(LinkKey) /\ me.hoid = store[LinkKey]
  BY <1>1, <1>2, PastFacts
<1>4. PICK r : r = [me EXCEPT !.pc = "wait", !.cur = me.view, !.ret = ret]
  OBVIOUS
<1>5. r \in ClientState
  <2>1. "wait" \in Busy \cup Idle /\ me.view \in CachedViews
    BY <1>3 DEF Busy, ClientState
  <2> QED BY <1>3, <1>4, <2>1 DEF ClientState
<1>6. r.pc = "wait" /\ r.hoid = me.hoid /\ r.options = me.options /\ r.view = me.view
  BY <1>3, <1>4 DEF ClientState
<1>7. r.created <=> me.created
  BY <1>3, <1>4 DEF ClientState
<1>8. "error_if_exists" \in r.options => r.created
  BY <1>2, <1>3, <1>6, <1>7 DEF Fits
<1>9. r.view.epoch \in DOMAIN Stored(r.hoid)'
  BY <1>2, <1>3, <1>6 DEF Fits, Grows
<1>10. Fits(r)'
  <2>1. Present(LinkKey)' /\ r.hoid = store'[LinkKey]
    BY <1>3, <1>6 DEF Grows
  <2> QED BY <1>6, <1>8, <1>9, <2>1 DEF Fits, Past, Committing
<1>11. HeldToken(r)' /\ r.pc \notin Committing
  BY <1>6 DEF HeldToken, Committing
<1>12. cl' = [cl EXCEPT ![c] = r]
  BY <1>1, <1>4 DEF Proposed, Set
<1>13. r.created => \A d \in Clients \ {c} : ~cl[d].created
  BY <1>1, <1>7 DEF HeadsInv, ClientInv, OneCreator
<1> QED BY <1>5, <1>10, <1>11, <1>12, <1>13, ActStep

\* A proposal that changed nothing
LEMMA RejectedStep ==
    ASSUME HeadsInv, NEW c \in Clients, cl[c].pc = "propose", NEW ret, Proposed(c, ret),
           kind' = kind, tokens' = tokens, Touches({}),
           \A d \in Clients \ {c} : cl[d].pc # "propose_commit"
    PROVE  HeadsInv' /\ Grows
<1>1. StoreInv' /\ Grows /\ UidsKept
  BY QuietUids
<1>2. CASE ret \in {"OK", "ESPIPE"}
  <2>1. HeadsInv'
    BY <1>1, <1>2, WaitingStep
  <2> QED BY <1>1, <2>1
<1>3. CASE ret \notin {"OK", "ESPIPE"}
  BY <1>3, AbortStep DEF Proposed
<1> QED BY <1>2, <1>3

\* A client that proposes on top of its cached view
LEMMA ProposerFacts ==
    ASSUME HeadsInv, NEW c \in Clients, NEW me, me = cl[c],
           me.pc \in {"propose", "propose_commit"}
    PROVE  /\ StoreInv /\ me \in ClientState /\ Fits(me) /\ me.hoid \in Heads
           /\ me.view.epoch \in DOMAIN Stored(me.hoid)
           /\ me.view.epoch \in Nat /\ me.view.epoch >= 1 /\ me.view.epoch <= Epoch(me.hoid)
           /\ Epoch(me.hoid) \in Nat
<1>1. me.pc \in Past /\ me.pc \in HasViewPcs
  BY DEF Past, Committing, HasViewPcs
<1>2. StoreInv /\ me \in ClientState /\ Fits(me) /\ me.hoid \in Heads
  BY <1>1, PastFacts
<1>3. me.view.epoch \in DOMAIN Stored(me.hoid)
  BY <1>1, <1>2 DEF Fits
<1>4. Epoch(me.hoid) \in Nat /\ me.view.epoch \in 1 .. Epoch(me.hoid)
  BY <1>2, <1>3, StoredViews
<1> QED BY <1>2, <1>3, <1>4

\* RAM: the view is stored in the head, or the proposal fails.
LEMMA RamProposeStep ==
    ASSUME HeadsInv, NEW c \in Clients, kind = "ram", cl[c].pc = "propose", kind' = kind,
           tokens' = tokens, NEW h, NEW n, h = cl[c].hoid, n = cl[c].view.epoch + 1,
           RamPropose(c, h, n)
    PROVE  HeadsInv' /\ Grows
<1>1. PICK me, v, x : me = cl[c] /\ v = Proposal(c) /\ x = store[HeadKey(h)]
  OBVIOUS
<1>2. /\ StoreInv /\ h \in Heads /\ me.view.epoch \in Nat /\ n = me.view.epoch + 1
  BY <1>1, ProposerFacts
<1>3. v \in ViewData
  BY <1>1, ProposalOK
<1>4. RamHead(x) /\ HeadKey(h) \in DOMAIN store
  BY <1>1, <1>2 DEF StoreInv, Heads, Present
<1>5. x.epoch \in Nat \ {0} /\ x.projections \in [1 .. x.epoch -> ViewData]
  BY <1>4 DEF RamHead
<1>6. \A d \in Clients \ {c} : cl[d].pc # "propose_commit"
  BY DEF HeadsInv, ClientInv, Fits, Committing
<1> DEFINE res == R!ProposeView(store, h, n, v)
           w == R!With(x.projections, n, v)
           y == R!ProjectionObject(n, w)
<1>7. store' = res.store /\ Proposed(c, res.ret)
  BY <1>1 DEF RamPropose
<1>8. \/ res = R!Result("OK", [store EXCEPT ![HeadKey(h)] = y]) /\ n = x.epoch + 1
      \/ \E e \in {"EINVAL", "ENOENT", "ESPIPE", "EEXIST"} : res = R!Result(e, store)
  BY <1>1, SameKeys DEF R!ProposeView
<1> HIDE DEF res
<1>9. CASE res = R!Result("OK", [store EXCEPT ![HeadKey(h)] = y]) /\ n = x.epoch + 1
  <2>1. w = [j \in 1 .. x.epoch \cup {n} |-> IF j = n THEN v ELSE x.projections[j]]
    BY <1>5 DEF R!With
  <2>2. (1 .. x.epoch) \cup {n} = 1 .. n /\ n \in Nat \ {0}
    BY <1>5, <1>9
  <2>3. w \in [1 .. n -> ViewData] /\ \A e \in 1 .. x.epoch : w[e] = x.projections[e]
    <3>1. PICK m, p : m = x.epoch /\ p = x.projections
      OBVIOUS
    <3>2. m \in Nat /\ p \in [1 .. m -> ViewData] /\ n = m + 1
      BY <1>5, <1>9, <3>1
    <3>3. w = [j \in 1 .. n |-> IF j = n THEN v ELSE p[j]]
      BY <2>1, <2>2, <3>1
    <3> HIDE DEF w
    <3>4. w \in [1 .. n -> ViewData] /\ \A e \in 1 .. m : w[e] = p[e]
      BY <1>3, <3>2, <3>3
    <3> QED BY <3>1, <3>4
  <2> HIDE DEF w
  <2>4. y = [epoch |-> n, projections |-> w] /\ y.epoch = n /\ y.projections = w
    BY DEF R!ProjectionObject
  <2> HIDE DEF y
  <2>5. RamHead(y)
    BY <2>2, <2>3, <2>4 DEF RamHead
  <2>6. store' = [store EXCEPT ![HeadKey(h)] = y] /\ res.ret = "OK"
    BY <1>7, <1>9 DEF R!Result
  <2>7. Touches({HeadKey(h)}) /\ store'[HeadKey(h)] = y
    BY <1>4, <2>6, ExceptTouches DEF Present
  <2>8. h \in Uuids /\ Stored(h) = x.projections /\ Stored(h)' = w
    BY <1>1, <1>2, <2>4, <2>7 DEF Heads, Stored
  <2>9. Epoch(h) = x.epoch /\ Epoch(h)' = n
    BY <1>1, <2>4, <2>7 DEF Epoch
  <2>10. Epoch(h)' >= Epoch(h)
    BY <1>5, <1>9, <2>2, <2>9
  <2>11. \A e \in DOMAIN Stored(h) : e \in DOMAIN Stored(h)' /\ Stored(h)'[e] = Stored(h)[e]
    BY <1>5, <1>9, <2>2, <2>3, <2>8
  <2>12. StoreInv' /\ Grows
    BY <1>2, <2>5, <2>7, <2>8, <2>10, <2>11, HeadStep
  <2>13. UidsKept
    BY <2>7, <2>8, HeadUids
  <2>14. PICK ret \in {"OK", "ESPIPE"} : ret = res.ret
    BY <2>6
  <2>15. HeadsInv'
    BY <1>6, <1>7, <2>12, <2>13, <2>14, WaitingStep
  <2> QED BY <2>12, <2>15
<1>10. CASE \E e \in {"EINVAL", "ENOENT", "ESPIPE", "EEXIST"} : res = R!Result(e, store)
  <2>1. PICK ret : ret = res.ret
    OBVIOUS
  <2>2. store' = store /\ Proposed(c, ret)
    BY <1>7, <1>10, <2>1 DEF R!Result
  <2>3. Touches({})
    BY <2>2, Untouched
  <2> QED BY <1>6, <2>2, <2>3, RejectedStep
<1> QED BY <1>8, <1>9, <1>10

\* Ceph: one request
LEMMA CephProposeStep ==
    ASSUME HeadsInv, NEW c \in Clients, kind = "ceph", cl[c].pc = "propose", kind' = kind,
           tokens' = tokens, NEW h, NEW n, h = cl[c].hoid, n = cl[c].view.epoch + 1,
           CephPropose(c, h, n)
    PROVE  HeadsInv' /\ Grows
<1>1. PICK me, v, x : me = cl[c] /\ v = Proposal(c) /\ x = store[HeadKey(h)]
  OBVIOUS
<1>2. /\ StoreInv /\ h \in Heads /\ n \in Nat
  BY <1>1, ProposerFacts
<1>3. v \in ViewData
  BY <1>1, ProposalOK
<1>4. CephHead(x)
  BY <1>1, <1>2 DEF StoreInv
<1>5. PICK rep, ret : rep = C!view_create(x, n, v) /\ ret = rep.ret
  OBVIOUS
<1>6. store' = [store EXCEPT ![HeadKey(h)] = rep.obj] /\ Proposed(c, ret)
  BY <1>1, <1>5 DEF CephPropose, CephProposeView, Exec
<1>7. \A d \in Clients \ {c} : cl[d].pc # "propose_commit"
  BY DEF HeadsInv, ClientInv, Fits, Committing
<1>8. CASE ret # "OK"
  <2>1. rep.obj = x
    BY <1>2, <1>3, <1>4, <1>5, <1>8, CephViewCreate
  <2>2. Touches({})
    BY <1>1, <1>6, <2>1, SameObject
  <2> QED BY <1>6, <1>7, <2>2, RejectedStep
<1>9. CASE ret = "OK"
  <2>1. PICK y : y = rep.obj
    OBVIOUS
  <2>2. /\ n = x.epoch + 1 /\ CephHead(y) /\ y.epoch = n /\ y.unique_id = x.unique_id
        /\ DOMAIN y.views = 1 .. n /\ \A e \in 1 .. x.epoch : y.views[e] = x.views[e]
    BY <1>2, <1>3, <1>4, <1>5, <1>9, <2>1, CephViewCreate
  <2>3. x.epoch \in Nat /\ DOMAIN x.views = 1 .. x.epoch /\ x.unique_id \in Nat
    BY <1>4 DEF CephHead
  <2>4. CephExtends(y, x)
    BY <2>2, <2>3 DEF CephExtends
  <2>5. store' = [store EXCEPT ![HeadKey(h)] = y]
    BY <1>6, <2>1
  <2>6. StoreInv' /\ Grows /\ UidsKept
    BY <1>1, <1>2, <2>4, <2>5, CephHeadStep
  <2>7. ret \in {"OK", "ESPIPE"}
    BY <1>9
  <2>8. HeadsInv'
    BY <1>6, <1>7, <2>6, <2>7, WaitingStep
  <2> QED BY <2>6, <2>8
<1> QED BY <1>8, <1>9

\* LMDB: the epoch changes in place, and the transaction is still open.
LEMMA LmdbProposeStep ==
    ASSUME HeadsInv, NEW c \in Clients, kind = "lmdb", cl[c].pc = "propose", kind' = kind,
           tokens' = tokens, WriteLockFree, NEW h, NEW n, h = cl[c].hoid,
           n = cl[c].view.epoch + 1, LmdbPropose(c, h, n)
    PROVE  HeadsInv' /\ Grows
<1>1. PICK me, x, ret : me = cl[c] /\ x = store[HeadKey(h)] /\ ret = L!ProposeRet(store, h, n)
  OBVIOUS
<1>2. /\ StoreInv /\ me \in ClientState /\ Fits(me) /\ h \in Heads /\ me.hoid = h
      /\ me.view.epoch \in DOMAIN Stored(h) /\ me.view.epoch \in Nat
      /\ n = me.view.epoch + 1 /\ n \in Nat
  BY <1>1, ProposerFacts
<1>3. \A d \in Clients : cl[d].pc # "propose_commit" /\ cl[d].pc \notin Committing
  BY LockFree
<1>4. CASE ret # "OK"
  <2>1. store' = store /\ Proposed(c, ret)
    BY <1>1, <1>4 DEF LmdbPropose
  <2>2. Touches({})
    BY <2>1, Untouched
  <2> QED BY <1>3, <2>1, <2>2, RejectedStep
<1>5. CASE ret = "OK"
  <2>1. store' = L!EpochInPlace(store, h, n) /\ Goto(c, "propose_commit")
    BY <1>1, <1>5 DEF LmdbPropose
  <2>2. n = x.epoch + 1 /\ ~Present(L!ProjectionKey(h, n))
    <3>1. L!Get(store, L!HeadKey(h)) = "OK"
      BY <1>2, SameKeys DEF L!Get, L!Present, Heads, Present
    <3>2. x = store[L!HeadKey(h)]
      BY <1>1, SameKeys
    <3>3. ~(n # x.epoch + 1) /\ L!PutRet(store, L!ProjectionKey(h, n)) = "OK"
      BY <1>1, <1>5, <3>1, <3>2 DEF L!ProposeRet
    <3> QED BY <3>3 DEF L!PutRet, L!Present, Present
  <2>3. LmdbHead(x) /\ LmdbViews /\ Epoch(h) = x.epoch
    BY <1>1, <1>2 DEF StoreInv, Epoch
  <2>4. x.epoch \in Nat \ {0} /\ x.unique_id \in Nat /\ me.view.epoch = x.epoch
    BY <1>2, <2>2, <2>3 DEF LmdbHead
  <2>5. PICK y : y = [x EXCEPT !.epoch = n]
    OBVIOUS
  <2>6. LmdbHead(y) /\ y.epoch = n /\ y.unique_id = x.unique_id
    BY <2>2, <2>3, <2>4, <2>5 DEF LmdbHead
  <2>7. store' = [store EXCEPT ![HeadKey(h)] = y]
    BY <1>1, <2>1, <2>5, SameKeys DEF L!EpochInPlace
  <2>8. y.epoch >= x.epoch /\ y.unique_id >= x.unique_id
    BY <2>2, <2>4, <2>6
  <2>9. ASSUME NEW e \in 1 .. y.epoch, e = 1 \/ e < y.epoch
        PROVE  Present(L!ProjectionKey(h, e))
    <3>1. e \in 1 .. x.epoch
      BY <2>2, <2>4, <2>6, <2>9
    <3>2. CASE e = x.epoch
      BY <1>2, <2>4, <3>2, StoredViews
    <3>3. CASE e < x.epoch
      BY <1>2, <2>3, <3>1, <3>3 DEF LmdbViews
    <3> QED BY <2>4, <3>1, <3>2, <3>3
  <2>10. /\ StoreInv' /\ Grows /\ UidsKept /\ Epoch(h)' = y.epoch
         /\ \A g, e : Present(L!ProjectionKey(g, e))' <=> Present(L!ProjectionKey(g, e))
    BY <1>1, <1>2, <2>6, <2>7, <2>8, <2>9, LmdbHeadStep
  <2>11. PICK r : r = [me EXCEPT !.pc = "propose_commit"]
    OBVIOUS
  <2>12. r \in ClientState
    <3>1. "propose_commit" \in Busy \cup Idle
      BY DEF Busy, Committing
    <3> QED BY <1>2, <2>11, <3>1 DEF ClientState
  <2>13. r.pc = "propose_commit" /\ r.hoid = h /\ r.options = me.options /\ r.view = me.view
    BY <1>2, <2>11 DEF ClientState
  <2>14. r.created <=> me.created
    BY <1>2, <2>11 DEF ClientState
  <2>15. /\ "error_if_exists" \in r.options => r.created
    <3>1. me.pc \in Past
      BY <1>1 DEF Past
    <3> QED BY <1>2, <2>13, <2>14, <3>1 DEF Fits
  <2>16. Fits(r)'
    <3>1. kind' = "lmdb" /\ Present(LinkKey)' /\ h = store'[LinkKey]
      BY <1>1, <1>2, <2>10 DEF Fits, Grows, Past
    <3>2. me.view.epoch \in DOMAIN Stored(h)'
      BY <1>2, <2>10 DEF Grows
    <3>3. Epoch(h)' = n /\ ~Present(L!ProjectionKey(h, n))'
      BY <2>2, <2>6, <2>10
    <3>4. PICK m : m = me.view.epoch
      OBVIOUS
    <3>5. r.view.epoch = m /\ n = m + 1
      BY <1>2, <2>13, <3>4
    <3>6. Epoch(r.hoid)' = r.view.epoch + 1
          /\ ~Present(L!ProjectionKey(r.hoid, r.view.epoch + 1))'
      BY <2>13, <3>3, <3>5
    <3> QED BY <2>13, <2>15, <3>1, <3>2, <3>6 DEF Fits, Past, Committing, HasViewPcs
  <2>17. HeldToken(r)'
    BY <2>13 DEF HeldToken
  <2>18. cl' = [cl EXCEPT ![c] = r]
    BY <1>1, <2>1, <2>11 DEF Goto, Set
  <2>19. r.created => \A d \in Clients \ {c} : ~cl[d].created
    BY <1>1, <2>14 DEF HeadsInv, ClientInv, OneCreator
  <2>20. \A d \in Clients \ {c} : cl[d].pc # "propose_commit" /\ cl[d].pc \notin Committing
    BY <1>3
  <2>21. HeadsInv'
    BY <2>10, <2>12, <2>16, <2>17, <2>18, <2>19, <2>20, ActStep
  <2> QED BY <2>10, <2>21
<1> QED BY <1>4, <1>5

\* ProposeView, up to LMDB's commit
LEMMA ProposeStep ==
    ASSUME HeadsInv, NEW c \in Clients, Propose(c)
    PROVE  HeadsInv' /\ Grows
<1>1. cl[c].pc = "propose" /\ WriteLockFree /\ kind' = kind /\ tokens' = tokens
  BY DEF Propose
<1>2. PICK h, n : h = cl[c].hoid /\ n = cl[c].view.epoch + 1
  OBVIOUS
<1>3. CASE kind = "ram"
  <2>1. RamPropose(c, h, n)
    BY <1>2, <1>3 DEF Propose
  <2> QED BY <1>1, <1>2, <1>3, <2>1, RamProposeStep
<1>4. CASE kind = "lmdb"
  <2>1. LmdbPropose(c, h, n)
    BY <1>2, <1>4 DEF Propose
  <2> QED BY <1>1, <1>2, <1>4, <2>1, LmdbProposeStep
<1>5. CASE kind = "ceph"
  <2>1. CephPropose(c, h, n)
    BY <1>2, <1>5 DEF Propose
  <2> QED BY <1>1, <1>2, <1>5, <2>1, CephProposeStep
<1> QED BY <1>3, <1>4, <1>5 DEF HeadsInv, StoreInv

\* LMDB: the view becomes visible.
LEMMA ProposeCommitStep ==
    ASSUME HeadsInv, NEW c \in Clients, ProposeCommit(c)
    PROVE  HeadsInv' /\ Grows
<1>1. PICK me, h, n, v : /\ me = cl[c] /\ h = cl[c].hoid /\ n = cl[c].view.epoch + 1
                         /\ v = Proposal(c)
  OBVIOUS
<1>2. /\ StoreInv /\ Fits(me) /\ h \in Heads /\ me.hoid = h /\ me.pc = "propose_commit"
      /\ n = me.view.epoch + 1 /\ n \in Nat
  BY <1>1, ProposerFacts DEF ProposeCommit
<1>3. kind = "lmdb" /\ Epoch(h) = n /\ ~Present(L!ProjectionKey(h, n))
  BY <1>2 DEF Fits, Committing
<1>4. v \in ViewData
  BY <1>1, ProposalOK
<1>5. PICK x, k : x = store[HeadKey(h)] /\ k = L!ProjectionKey(h, n)
  OBVIOUS
<1>6. LmdbHead(x) /\ x.epoch = n /\ HeadKey(h) \in DOMAIN store
  BY <1>2, <1>3, <1>5 DEF StoreInv, Epoch, Heads, Present
<1>7. [x EXCEPT !.epoch = n] = x
  BY <1>6 DEF LmdbHead
<1>8. PICK s : s = L!EpochInPlace(store, h, n)
  OBVIOUS
<1>9. DOMAIN s = DOMAIN store /\ \A j \in DOMAIN store : s[j] = store[j]
  BY <1>5, <1>7, <1>8, SameKeys DEF L!EpochInPlace
<1>10. store' = [j \in DOMAIN s \cup {k} |-> IF j = k THEN v ELSE s[j]]
  BY <1>1, <1>5, <1>8 DEF ProposeCommit, L!ProposeCommit, L!Put, L!With
<1>11. Touches({k}) /\ store'[k] = v
  BY <1>9, <1>10 DEF Touches
<1>12. kind' = kind /\ tokens' = tokens
  BY DEF ProposeCommit
<1>13. /\ StoreInv' /\ Grows /\ \A g \in Heads : store'[HeadKey(g)] = store[HeadKey(g)]
  BY <1>2, <1>3, <1>4, <1>5, <1>11, <1>12, ViewStep
<1>14. UidsKept
  <2>1. R!IdKey \notin {k}
    BY <1>5, Keys
  <2>2. R!NextId(store') \in Nat /\ R!NextId(store') >= R!NextId(store)
    BY <1>11, <2>1, NextIdKept DEF HeadsInv
  <2>3. \A g \in Heads : store[HeadKey(g)].unique_id \in Nat
    BY <1>2, <1>3 DEF StoreInv, LmdbHead
  <2> QED BY <1>13, <2>2, <2>3 DEF UidsKept
<1>15. \A d \in Clients \ {c} : cl[d].pc # "propose_commit"
  BY <1>1, <1>2 DEF HeadsInv, ClientInv, OneWriter, Committing
<1>16. PICK ret \in {"OK", "ESPIPE"} : ret = "OK"
  OBVIOUS
<1>17. Proposed(c, ret) /\ cl[c].pc \in {"propose", "propose_commit"}
  BY <1>16 DEF ProposeCommit
<1>18. HeadsInv'
  BY <1>12, <1>13, <1>14, <1>15, <1>17, WaitingStep
<1> QED BY <1>13, <1>18

-----------------------------------------------------------------------------
(* The theorems *)

\* No client has called Log::Open, and the store is empty.
LEMMA InitHeads == Init => HeadsInv
<1> SUFFICES ASSUME Init PROVE HeadsInv
  OBVIOUS
<1>1. DOMAIN store = {}
  BY DEF Init
<1>2. \A k : ~Present(k)
  BY <1>1 DEF Present
<1>3. Heads = {}
  BY <1>2 DEF Heads
<1>4. kind \in {"ram", "lmdb", "ceph"}
  BY HeadsAssumption DEF Init
<1>5. StoreInv
  BY <1>1, <1>2, <1>3, <1>4 DEF StoreInv, LmdbViews, LinkOK
<1>6. Closed \in ClientState /\ ~Closed.created /\ Closed.id = -1 /\ Closed.pc = "closed"
  BY ClosedFits
<1>7. Fits(Closed) /\ HeldToken(Closed) /\ Closed.pc \notin Committing
  BY <1>6, NoHeadFits DEF HeldToken, Committing
<1>8. \A c \in Clients : cl[c] = Closed
  BY DEF Init
<1>9. cl \in [Clients -> ClientState]
  BY <1>6 DEF Init
<1>10. ClientInv
  BY <1>6, <1>7, <1>8, <1>9 DEF ClientInv, OneWriter, OneCreator
<1>11. R!NextId(store) \in Nat
  BY <1>1 DEF R!NextId
<1>12. tokens.issued = {} /\ tokens.twice = {}
  BY DEF Init
<1>13. TokenInv
  BY <1>7, <1>8, <1>11, <1>12 DEF TokenInv
<1> QED BY <1>5, <1>10, <1>13 DEF HeadsInv

\* Every step keeps the invariant and what is stored.
LEMMA NextHeads == HeadsInv /\ Next => HeadsInv' /\ Grows
<1> SUFFICES ASSUME HeadsInv, Next PROVE HeadsInv' /\ Grows
  OBVIOUS
<1>1. PICK c \in Clients :
        Step(c) \/ Open(c) \/ Refresh(c) \/ Expand(c) \/ Close(c) \/ Crash(c)
  BY DEF Next
<1>2. CASE Step(c)
  <2>1. CASE OpenLog(c)
    BY <2>1, OpenLogStep
  <2>2. CASE GetHead(c)
    BY <2>2, GetHeadStep
  <2>3. CASE CreateLog(c)
    BY <2>3, CreateLogStep
  <2>4. CASE FirstView(c)
    BY <2>4, FirstViewStep
  <2>5. CASE Link(c)
    BY <2>5, LinkCallStep
  <2>6. CASE Uid(c)
    BY <2>6, UidStep
  <2>7. CASE UidCommit(c)
    BY <2>7, UidCommitStep
  <2>8. CASE UidWrite(c)
    BY <2>8, UidWriteStep
  <2>9. CASE FirstRefresh(c)
    BY <2>9, FirstRefreshStep
  <2>10. CASE Propose(c)
    BY <2>10, ProposeStep
  <2>11. CASE ProposeCommit(c)
    BY <2>11, ProposeCommitStep
  <2>12. CASE Wait(c)
    BY <2>12, WaitStep
  <2> QED BY <1>2, <2>1, <2>2, <2>3, <2>4, <2>5, <2>6, <2>7, <2>8, <2>9, <2>10, <2>11, <2>12
       DEF Step
<1>3. CASE Open(c)
  BY <1>3, OpenStep
<1>4. CASE Refresh(c)
  BY <1>4, RefreshStep
<1>5. CASE Expand(c)
  BY <1>5, ExpandStep
<1>6. CASE Close(c) \/ Crash(c)
  BY <1>6, CloseStep
<1> QED BY <1>1, <1>2, <1>3, <1>4, <1>5, <1>6

\* The invariant holds throughout (every client, head and crash of Spec).
THEOREM HeadsInvariant == Spec => []HeadsInv
<1>1. Init => HeadsInv
  BY InitHeads
<1>2. HeadsInv /\ [Next]_vars => HeadsInv'
  <2> SUFFICES ASSUME HeadsInv, [Next]_vars PROVE HeadsInv'
    OBVIOUS
  <2>1. CASE Next
    BY <2>1, NextHeads
  <2>2. CASE UNCHANGED vars
    <3>1. kind' = kind /\ store' = store /\ cl' = cl /\ tokens' = tokens
      BY <2>2 DEF vars
    <3>2. StoreInv'
      BY <3>1 DEF HeadsInv, StoreInv, Heads, Present, LmdbViews, LinkOK, Stored, Epoch,
                  L!ProjectionKey, RamHead, CephHead, LmdbHead
    <3>3. ClientInv'
      BY <3>1 DEF HeadsInv, ClientInv, Fits, OneWriter, OneCreator, Heads, Present, Stored,
                  Epoch, L!ProjectionKey
    <3>4. TokenInv'
      BY <3>1 DEF HeadsInv, TokenInv, HeldToken, Spent, R!NextId, Heads, Present
    <3> QED BY <3>2, <3>3, <3>4 DEF HeadsInv
  <2> QED BY <2>1, <2>2
<1> QED BY <1>1, <1>2, PTL DEF Spec

\* All clients that got past create_or_open use the head that the name links
\* to, and at most one of them created it (create_or_open, CreateLog).
THEOREM LogIsOne == Spec => []OneLog
<1>1. HeadsInv => OneLog
  <2> SUFFICES ASSUME HeadsInv PROVE OneLog
    OBVIOUS
  <2>1. ASSUME NEW c \in Clients, cl[c].pc = "uid" \/ cl[c].id # -1
        PROVE  /\ Present(LinkKey) /\ cl[c].hoid = store[LinkKey]
               /\ "error_if_exists" \in cl[c].options => cl[c].created
    <3>1. PICK me : me = cl[c]
      OBVIOUS
    <3>2. Fits(me)
      BY <3>1 DEF HeadsInv, ClientInv
    <3>3. me.pc \in Past
      BY <2>1, <3>1, <3>2 DEF Fits, Past
    <3> QED BY <3>1, <3>2, <3>3 DEF Fits
  <2>2. \A c, d \in Clients : cl[c].created /\ cl[d].created => c = d
    BY DEF HeadsInv, ClientInv, OneCreator
  <2> QED BY <2>1, <2>2 DEF OneLog
<1> QED BY <1>1, HeadsInvariant, PTL

\* No token of a log is handed out twice (uniqueId of the three backends).
THEOREM TokensNew == Spec => []TokensUnique
<1>1. HeadsInv => TokensUnique
  BY DEF HeadsInv, TokenInv, TokensUnique
<1> QED BY <1>1, HeadsInvariant, PTL

\* The name links to a head that has its first view, and both are listed (the
\* order of CreateLog's steps).
THEOREM LinkComplete == Spec => []LinkedIsComplete
<1>1. HeadsInv => LinkedIsComplete
  <2> SUFFICES ASSUME HeadsInv, Present(LinkKey), NEW h, h = store[LinkKey]
               PROVE  /\ h \in Heads /\ 1 \in DOMAIN Stored(h)
                      /\ LinkKey \in R!ListLinks(store) /\ HeadKey(h) \in R!ListHeads(store)
                      /\ LinkKey \in L!ListLinks(store) /\ HeadKey(h) \in L!ListHeads(store)
    BY DEF LinkedIsComplete
  <2>1. h \in Heads /\ 1 \in DOMAIN Stored(h)
    BY DEF HeadsInv, StoreInv, LinkOK
  <2>2. LinkKey \in DOMAIN store /\ HeadKey(h) \in DOMAIN store
    BY <2>1 DEF Heads, Present
  <2>3. LinkKey[1] = "link" /\ HeadKey(h)[1] = "head"
    BY DEF LinkKey, HeadKey
  <2> QED BY <2>1, <2>2, <2>3 DEF R!ListLinks, R!ListHeads, L!ListLinks, L!ListHeads, L!GetAll
<1> QED BY <1>1, HeadsInvariant, PTL

\* A link is not redirected, a stored view does not change and an epoch does
\* not go back (ProposeView, CreateLog).
THEOREM HeadsKept == Spec => HeadsAppendOnly
<1>1. HeadsInv /\ [Next]_vars =>
        [/\ Present(LinkKey) => store'[LinkKey] = store[LinkKey]
         /\ \A h \in Heads : h \in Heads' /\ Epoch(h)' >= Epoch(h)
                             /\ \A e \in DOMAIN Stored(h) : e \in DOMAIN Stored(h)'
                                  /\ Stored(h)'[e] = Stored(h)[e]]_vars
  BY NextHeads DEF Grows
<1> QED BY <1>1, HeadsInvariant, PTL DEF Spec, HeadsAppendOnly

-----------------------------------------------------------------------------
(* What ReadViews returns *)

\* The views that are asked for, of the epochs up to last
AskedViews(last, e, m) == IF e = 0 THEN {last} \ {0} ELSE {f \in e .. last : f < e + m}

\* The number of them that one request returns
MostViews(m) == IF kind = "ceph" /\ m > MaxViewReads THEN MaxViewReads ELSE m

\* RAM
LEMMA RamReads ==
    ASSUME StoreInv, kind = "ram", NEW h \in Heads, NEW e \in Nat, NEW m \in Nat \ {0},
           NEW last, last = Epoch(h), NEW r, r = ReadViews(h, e, m)
    PROVE  /\ DOMAIN Stored(h) = 1 .. last /\ last \in Nat /\ r.ret = "OK"
           /\ r.views = [f \in AskedViews(last, e, m) |-> Stored(h)[f]]
<1>1. PICK x, p : x = store[HeadKey(h)] /\ p = x.projections
  OBVIOUS
<1>2. RamHead(x) /\ Stored(h) = p /\ x.epoch = last
  BY <1>1 DEF StoreInv, Stored, Epoch
<1>3. DOMAIN p = 1 .. last /\ last \in Nat \ {0}
  BY <1>1, <1>2 DEF RamHead
<1>4. (CHOOSE f \in DOMAIN p : \A g \in DOMAIN p : g <= f) = last
  <2>1. last \in DOMAIN p /\ \A g \in DOMAIN p : g <= last
    BY <1>3
  <2>2. \A f \in DOMAIN p : (\A g \in DOMAIN p : g <= f) => f = last
    BY <1>3
  <2> QED BY <2>1, <2>2
<1>5. HeadKey(h) \in DOMAIN store /\ DOMAIN p # {}
  BY <1>3 DEF Heads, Present
<1>6. r = IF e > last THEN R!Views("OK", <<>>)
          ELSE IF e = 0 THEN R!Views("OK", R!Single(last, p[last]))
          ELSE IF e \notin DOMAIN p THEN R!Views("EIO", <<>>)
          ELSE R!Views("OK", [f \in {f \in DOMAIN p : f >= e /\ f < e + m} |-> p[f]])
  <2>1. r = R!ReadViews(store, h, e, m)
    BY DEF ReadViews
  <2> QED BY <1>1, <1>2, <1>4, <1>5, <2>1, SameKeys DEF R!ReadViews
<1>7. CASE e > last
  <2>1. r.ret = "OK" /\ r.views = <<>>
    BY <1>6, <1>7 DEF R!Views
  <2>2. AskedViews(last, e, m) = {}
    BY <1>3, <1>7 DEF AskedViews
  <2> QED BY <1>2, <1>3, <2>1, <2>2
<1>8. CASE e = 0
  <2>1. r.ret = "OK" /\ r.views = [j \in {last} |-> p[last]]
    BY <1>3, <1>6, <1>8 DEF R!Views, R!Single
  <2>2. AskedViews(last, e, m) = {last}
    BY <1>3, <1>8 DEF AskedViews
  <2> QED BY <1>2, <1>3, <2>1, <2>2
<1>9. CASE e # 0 /\ ~(e > last)
  <2>1. e \in DOMAIN p
    BY <1>3, <1>9
  <2>2. r.ret = "OK" /\ r.views = [f \in {f \in DOMAIN p : f >= e /\ f < e + m} |-> p[f]]
    BY <1>6, <1>9, <2>1 DEF R!Views
  <2>3. AskedViews(last, e, m) = {f \in DOMAIN p : f >= e /\ f < e + m}
    BY <1>3, <1>9 DEF AskedViews
  <2> QED BY <1>2, <1>3, <2>2, <2>3
<1> QED BY <1>7, <1>8, <1>9

\* Ceph, which returns no more than MaxViewReads views to one request
LEMMA CephReads ==
    ASSUME StoreInv, kind = "ceph", NEW h \in Heads, NEW e \in Nat,
           NEW m \in Nat \ {0}, NEW most, most = MostViews(m),
           NEW last, last = Epoch(h), NEW r, r = ReadViews(h, e, m)
    PROVE  /\ DOMAIN Stored(h) = 1 .. last /\ last \in Nat /\ r.ret = "OK"
           /\ r.views = [f \in AskedViews(last, e, most) |-> Stored(h)[f]]
<1>1. PICK x, p : x = store[HeadKey(h)] /\ p = x.views
  OBVIOUS
<1>2. CephHead(x) /\ Stored(h) = p /\ x.epoch = last
  BY <1>1 DEF StoreInv, Stored, Epoch
<1>3. DOMAIN p = 1 .. last /\ last \in Nat
  BY <1>1, <1>2 DEF CephHead
<1>4. most \in Nat \ {0} /\ (IF m < MaxViewReads THEN m ELSE MaxViewReads) = most
  BY HeadsAssumption DEF MostViews
<1>5. PICK first : first = IF e = 0 THEN last ELSE e
  OBVIOUS
<1>6. PICK asked : asked = {f \in first .. last : f > 0 /\ f < first + most}
  OBVIOUS
<1>7. asked = AskedViews(last, e, most) /\ asked \subseteq DOMAIN p
  <2>1. CASE e = 0
    BY <1>3, <1>4, <1>5, <1>6, <2>1 DEF AskedViews
  <2>2. CASE e # 0
    BY <1>3, <1>4, <1>5, <1>6, <2>2 DEF AskedViews
  <2> QED BY <2>1, <2>2
<1>8. r = [ret |-> "OK", views |-> [f \in asked |-> p[f]]]
  <2>1. r = C!view_read(x, e, m)
    BY <1>1 DEF ReadViews, CephReadViews
  <2> QED BY <1>1, <1>2, <1>4, <1>5, <1>6, <1>7, <2>1 DEF C!view_read
<1> QED BY <1>2, <1>3, <1>7, <1>8

\* LMDB: a torn head has lost its last view, which is the one asked for with
\* epoch 0.
LEMMA LmdbReads ==
    ASSUME StoreInv, kind = "lmdb", NEW h \in Heads, NEW e \in Nat, NEW m \in Nat \ {0},
           NEW last, last = IF Torn(h) THEN Epoch(h) - 1 ELSE Epoch(h),
           NEW r, r = ReadViews(h, e, m)
    PROVE  /\ DOMAIN Stored(h) = 1 .. last /\ last \in Nat
           /\ Torn(h) /\ e = 0 => r.ret = "EIO"
           /\ ~(Torn(h) /\ e = 0) =>
                r.ret = "OK" /\ r.views = [f \in AskedViews(last, e, m) |-> Stored(h)[f]]
<1>1. PICK n : n = Epoch(h)
  OBVIOUS
<1>2. LmdbViews /\ n \in Nat \ {0} /\ n = store[HeadKey(h)].epoch
  BY <1>1 DEF StoreInv, LmdbHead, Epoch
<1>3. DOMAIN Stored(h) = {f \in 1 .. n : Present(L!ProjectionKey(h, f))}
  BY <1>1, StoredViews
<1>4. \A f \in 1 .. n : f < n => Present(L!ProjectionKey(h, f))
  BY <1>1 , <1>2 DEF LmdbViews
<1>5. Torn(h) <=> ~Present(L!ProjectionKey(h, n))
  BY <1>1, <1>2, <1>3 DEF Torn
<1>6. last \in Nat /\ last = IF Present(L!ProjectionKey(h, n)) THEN n ELSE n - 1
  BY <1>1, <1>2, <1>5
<1>7. \A f \in Nat \ {0} : Present(L!ProjectionKey(h, f)) <=> f <= last
  <2>1. ASSUME NEW f \in Nat \ {0}, Present(L!ProjectionKey(h, f)) PROVE f \in 1 .. n
    <3>1. PICK k : k = L!ProjectionKey(h, f)
      OBVIOUS
    <3>2. k \in DOMAIN store /\ k[1] = "view" /\ k[2] = h /\ k[3] = f
      BY <2>1, <3>1, Keys DEF Present
    <3> QED BY <1>1, <1>2, <3>2 DEF LmdbViews
  <2> QED BY <1>2, <1>4, <1>6, <2>1
<1>8. DOMAIN Stored(h) = 1 .. last
  BY <1>2, <1>3, <1>6, <1>7
<1>9. \A f \in 1 .. last : Stored(h)[f] = store[L!ProjectionKey(h, f)]
  BY <1>3, <1>8 DEF Stored
<1>10. L!Present(store, L!HeadKey(h)) /\ n = store[L!HeadKey(h)].epoch
  BY <1>2, SameKeys DEF Heads, Present, L!Present
<1> DEFINE runs == {f \in e .. e + m - 1 : \A g \in e .. f : L!Present(store, L!ProjectionKey(h, g))}
<1>11. r = IF e > n \/ n = 0 THEN [ret |-> "OK", views |-> <<>>]
           ELSE IF e = 0 THEN
                IF L!Present(store, L!ProjectionKey(h, n))
                THEN [ret |-> "OK", views |-> L!Single(n, store[L!ProjectionKey(h, n)])]
                ELSE [ret |-> "EIO", views |-> <<>>]
           ELSE [ret |-> "OK", views |-> [f \in runs |-> store[L!ProjectionKey(h, f)]]]
  <2>1. r = L!ReadViews(store, h, e, m)
    BY DEF ReadViews
  <2> QED BY <1>10, <2>1 DEF L!ReadViews
<1>12. CASE e > n
  <2>1. r.ret = "OK" /\ r.views = <<>> /\ e # 0
    BY <1>2, <1>11, <1>12
  <2>2. AskedViews(last, e, m) = {}
    BY <1>2, <1>6, <1>12 DEF AskedViews
  <2>3. r.views = [f \in AskedViews(last, e, m) |-> Stored(h)[f]]
    BY <2>1, <2>2
  <2> QED BY <1>6, <1>8, <2>1, <2>3
<1>13. CASE e = 0
  <2>1. ~(e > n) /\ n # 0
    BY <1>2, <1>13
  <2>2. CASE Present(L!ProjectionKey(h, n))
    <3>1. r.ret = "OK" /\ r.views = [j \in {n} |-> store[L!ProjectionKey(h, n)]]
      BY <1>11, <1>13, <2>1, <2>2 DEF L!Present, Present, L!Single
    <3>2. AskedViews(last, e, m) = {n} /\ last = n
      BY <1>2, <1>6, <1>13, <2>2 DEF AskedViews
    <3>3. Stored(h)[n] = store[L!ProjectionKey(h, n)]
      BY <1>2, <1>9, <3>2
    <3>4. r.views = [f \in AskedViews(last, e, m) |-> Stored(h)[f]]
      BY <3>1, <3>2, <3>3
    <3> QED BY <1>5, <1>6, <1>8, <2>2, <3>1, <3>4
  <2>3. CASE ~Present(L!ProjectionKey(h, n))
    <3>1. r.ret = "EIO" /\ Torn(h)
      BY <1>5, <1>11, <1>13, <2>1, <2>3 DEF L!Present, Present
    <3> QED BY <1>6, <1>8, <1>13, <3>1
  <2> QED BY <2>2, <2>3
<1>14. CASE e # 0 /\ ~(e > n)
  <2>1. r.ret = "OK" /\ r.views = [f \in runs |-> store[L!ProjectionKey(h, f)]]
    BY <1>2, <1>11, <1>14
  <2>2. ASSUME NEW f PROVE f \in runs <=> f \in AskedViews(last, e, m)
    <3>1. ASSUME f \in runs PROVE f \in AskedViews(last, e, m)
      <4>1. f \in e .. e + m - 1 /\ L!Present(store, L!ProjectionKey(h, f))
        BY <3>1
      <4>2. f \in Nat \ {0} /\ f <= last
        BY <1>7, <1>14, <4>1 DEF L!Present, Present
      <4> QED BY <1>6, <1>14, <4>1, <4>2 DEF AskedViews
    <3>2. ASSUME f \in AskedViews(last, e, m) PROVE f \in runs
      <4>1. f \in e .. last /\ f < e + m
        BY <1>14, <3>2 DEF AskedViews
      <4>2. ASSUME NEW g \in e .. f PROVE L!Present(store, L!ProjectionKey(h, g))
        <5>1. g \in Nat \ {0} /\ g <= last
          BY <1>6, <1>14, <4>1
        <5> QED BY <1>7, <5>1 DEF L!Present, Present
      <4>3. f \in e .. e + m - 1
        BY <1>6, <4>1
      <4> QED BY <4>2, <4>3
    <3> QED BY <3>1, <3>2
  <2>3. runs = AskedViews(last, e, m)
    BY <2>2
  <2> HIDE DEF runs
  <2>4. \A f \in AskedViews(last, e, m) : f \in 1 .. last
    BY <1>6, <1>14 DEF AskedViews
  <2>5. r.views = [f \in AskedViews(last, e, m) |-> Stored(h)[f]]
    BY <1>9, <2>1, <2>3, <2>4
  <2> QED BY <1>6, <1>8, <1>14, <2>1, <2>5
<1> QED BY <1>12, <1>13, <1>14

\* A head has the views of the epochs 1 to its epoch, and ReadViews returns the
\* run of them that it was asked for, but for the last view of a torn LMDB head
\* (ReadViews of the three backends).
THEOREM ReadsExact == Spec => []ReadViewsExact
<1>1. HeadsInv => ReadViewsExact
  <2> SUFFICES ASSUME HeadsInv, NEW h \in Heads
               PROVE  LET last == IF Torn(h) THEN Epoch(h) - 1 ELSE Epoch(h)
                      IN  /\ DOMAIN Stored(h) = 1 .. last
                          /\ \A e \in 0 .. last + 2, m \in 1 .. MaxViewReads + 1 :
                               IF Torn(h) /\ e = 0 THEN ReadViews(h, e, m).ret = "EIO"
                               ELSE /\ ReadViews(h, e, m).ret = "OK"
                                    /\ ReadViews(h, e, m).views =
                                         [f \in AskedViews(last, e, MostViews(m)) |-> Stored(h)[f]]
    BY Zenon DEF ReadViewsExact, AskedViews, MostViews
  <2> DEFINE last == IF Torn(h) THEN Epoch(h) - 1 ELSE Epoch(h)
  <2> HIDE DEF last
  <2>1. StoreInv
    BY DEF HeadsInv
  <2>2. ASSUME NEW e \in Nat, NEW m \in Nat \ {0}, NEW r, r = ReadViews(h, e, m)
        PROVE  /\ DOMAIN Stored(h) = 1 .. last /\ last \in Nat
               /\ Torn(h) /\ e = 0 => r.ret = "EIO"
               /\ ~(Torn(h) /\ e = 0) =>
                    r.ret = "OK" /\ r.views = [f \in AskedViews(last, e, MostViews(m)) |-> Stored(h)[f]]
    <3>0. kind # "ceph" => MostViews(m) = m
      BY DEF MostViews
    <3>1. CASE kind = "ram"
      <4>1. ~Torn(h) /\ last = Epoch(h) /\ MostViews(m) = m
        BY <3>0, <3>1 DEF Torn, last
      <4>2. /\ DOMAIN Stored(h) = 1 .. last /\ last \in Nat /\ r.ret = "OK"
            /\ r.views = [f \in AskedViews(last, e, m) |-> Stored(h)[f]]
        BY <2>1, <2>2, <3>1, <4>1, RamReads
      <4> QED BY <4>1, <4>2
    <3>2. CASE kind = "ceph"
      <4>1. ~Torn(h) /\ last = Epoch(h)
        BY <3>2 DEF Torn, last
      <4>2. /\ DOMAIN Stored(h) = 1 .. last /\ last \in Nat /\ r.ret = "OK"
            /\ r.views = [f \in AskedViews(last, e, MostViews(m)) |-> Stored(h)[f]]
        BY <2>1, <2>2, <3>2, <4>1, CephReads
      <4> QED BY <4>1, <4>2
    <3>3. CASE kind = "lmdb"
      <4>1. MostViews(m) = m /\ last = IF Torn(h) THEN Epoch(h) - 1 ELSE Epoch(h)
        BY <3>0, <3>3 DEF last
      <4> QED BY <2>1, <2>2, <3>3, <4>1, LmdbReads
    <3> QED BY <2>1, <3>1, <3>2, <3>3 DEF StoreInv
  <2>3. DOMAIN Stored(h) = 1 .. last /\ last \in Nat
    <3>1. 0 \in Nat /\ 1 \in Nat \ {0}
      OBVIOUS
    <3> QED BY <2>2, <3>1
  <2>4. ASSUME NEW e \in 0 .. last + 2, NEW m \in 1 .. MaxViewReads + 1
        PROVE  IF Torn(h) /\ e = 0 THEN ReadViews(h, e, m).ret = "EIO"
               ELSE /\ ReadViews(h, e, m).ret = "OK"
                    /\ ReadViews(h, e, m).views =
                         [f \in AskedViews(last, e, MostViews(m)) |-> Stored(h)[f]]
    <3>1. e \in Nat /\ m \in Nat \ {0}
      BY <2>3, HeadsAssumption
    <3>2. PICK r : r = ReadViews(h, e, m)
      OBVIOUS
    <3> QED BY <2>2, <3>1, <3>2
  <2> QED BY <2>3, <2>4 DEF last
<1> QED BY <1>1, HeadsInvariant, PTL
==============================================================================
