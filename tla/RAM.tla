--------------------------------- MODULE RAM ---------------------------------
(***************************************************************************)
(* The head objects of the in-memory backend (storage/ram/ram.cc): one map *)
(* from object names to head and link objects, under one lock.  A locked   *)
(* section is a function from the map to a return code and the next map.   *)
(***************************************************************************)
EXTENDS Integers, Update

HeadKey(h) == <<"head", h>>     \* zlog.head.uuid
LinkKey(n) == <<"link", n>>     \* head.name

ProjectionObject(epoch, projections) == [epoch |-> epoch, projections |-> projections]

Result(ret, objects) == [ret |-> ret, store |-> objects]

\* unordered_map::emplace
Emplace(objects, k, v, exists) ==
    IF k \in DOMAIN objects THEN Result(exists, objects)
    ELSE Result("OK", With(objects, k, v))

\* CreateLog takes the lock twice: for the head, with the view of epoch 1 in
\* it, and for the link.
CreateHead(objects, h, view) ==
    Emplace(objects, HeadKey(h), ProjectionObject(1, Single(1, view)), "EIO")

CreateLink(objects, n, h) == Emplace(objects, LinkKey(n), h, "EEXIST")

OpenLog(objects, n) ==
    IF LinkKey(n) \notin DOMAIN objects THEN "ENOENT"
    ELSE IF HeadKey(objects[LinkKey(n)]) \notin DOMAIN objects THEN "EIO" ELSE "OK"

\* The static counter that uniqueId increments is kept with the objects.
IdKey == <<"__unique_id">>
NextId(objects) == IF IdKey \in DOMAIN objects THEN objects[IdKey] ELSE 0
UniqueId(objects) == Result("OK", With(objects, IdKey, NextId(objects) + 1))

ListLinks(objects) == {k \in DOMAIN objects : k[1] = "link"}
ListHeads(objects) == {k \in DOMAIN objects : k[1] = "head"}

Views(ret, views) == [ret |-> ret, views |-> views]

\* epoch 0 asks for the latest view.
ReadViews(objects, h, epoch, max_views) ==
    LET head == objects[HeadKey(h)]
        stored == DOMAIN head.projections
        last == CHOOSE e \in stored : \A f \in stored : f <= e
    IN  IF HeadKey(h) \notin DOMAIN objects THEN Views("ENOENT", <<>>)
        ELSE IF epoch > head.epoch THEN Views("OK", <<>>)
        ELSE IF epoch = 0 THEN
             Views("OK", IF stored = {} THEN <<>> ELSE Single(last, head.projections[last]))
        ELSE IF epoch \notin stored THEN Views("EIO", <<>>)
        ELSE Views("OK", [e \in {f \in stored : f >= epoch /\ f < epoch + max_views} |->
                            head.projections[e]])

\* Seeded fault: the epoch is only required not to be ahead.
FaultyProposeView(objects, h, epoch, view) ==
    LET head == objects[HeadKey(h)] IN
    IF HeadKey(h) \notin DOMAIN objects THEN Result("ENOENT", objects)
    ELSE IF epoch > head.epoch + 1 THEN Result("EINVAL", objects)
    ELSE Result("OK", [objects EXCEPT ![HeadKey(h)] =
                         ProjectionObject(epoch, With(head.projections, epoch, view))])

ProposeView(objects, h, epoch, view) ==
    LET head == objects[HeadKey(h)] IN
    IF epoch = 0 THEN Result("EINVAL", objects)
    ELSE IF HeadKey(h) \notin DOMAIN objects THEN Result("ENOENT", objects)
    ELSE IF epoch > head.epoch + 1 THEN Result("EINVAL", objects)
    ELSE IF epoch # head.epoch + 1 THEN Result("ESPIPE", objects)
    ELSE IF epoch \in DOMAIN head.projections THEN Result("EEXIST", objects)
    ELSE Result("OK", [objects EXCEPT ![HeadKey(h)] =
                         ProjectionObject(epoch, With(head.projections, epoch, view))])
==============================================================================
