---------------------------- MODULE SpytifyProofs ----------------------------
(***************************************************************************)
(* Proofs about the Python binding, for any number of objects and trees:   *)
(* every tree of a search or of the stored playlists is freed with its     *)
(* owner and no tree twice, whatever the program drops and when; and a     *)
(* pointer dangles only once the owner of its tree has gone.               *)
(***************************************************************************)
EXTENDS Spytify, FiniteSetTheorems, TLAPS

(* The wrappers of a part of a tree. *)
Plain == {"Playlist", "Track", "Artist", "Album"}

(* An object whose __dealloc__ frees the tree it points to. *)
Owner(x) == x.class \in {"SearchResult", "RootList"} /\ x.data # Null

(* The objects and how they refer to each other: a search or the stored       *)
(* playlists to playlists, an iterator to the stored playlists, and a part of *)
(* a tree to nothing.  Only a search is made with take_owner.                 *)
WrapperInv(x) ==
    /\ x.class = "none" => x = NoObj
    /\ x.class \in Plain => x.refs = {} /\ ~x.take_owner
    /\ x.class = "SearchResult" => x.take_owner /\ x.data # Null
    /\ x.class = "RootList" => ~x.take_owner /\ (~x.loaded => x.data = Null)
    /\ x.class = "RootIterator" => ~x.take_owner /\ x.data = Null

ObjType == [class : Classes \union {"none"}, data : Tree \union {Null},
            take_owner : BOOLEAN, refs : SUBSET Obj, loaded : BOOLEAN]

RefsInv(ob) ==
    \A o \in Obj : \A p \in ob[o].refs :
        /\ ob[o].class \in {"SearchResult", "RootList"} => ob[p].class = "Playlist"
        /\ ob[o].class = "RootIterator" => ob[p].class = "RootList"

ObjectsInv(ob) ==
    /\ ob \in [Obj -> ObjType]
    /\ \A o \in Obj : WrapperInv(ob[o])
    /\ RefsInv(ob)

(* Who owns what: a tree has one owner at most, which keeps it alive, and a *)
(* live tree of a search or of the stored playlists has one; only those are *)
(* owned, or freed.                                                         *)
OwnerInv(ob, hp, fr) ==
    /\ hp \in [Tree -> {"unused", "live", "freed"}]
    /\ fr \in [Tree -> {"none", "search", "rootlist", "lookup"}]
    /\ \A o \in Obj : ob[o].data # Null => hp[ob[o].data] # "unused"
    /\ \A o \in Obj : Owner(ob[o]) => hp[ob[o].data] = "live"
    /\ \A o, p \in Obj : Owner(ob[o]) /\ Owner(ob[p]) /\ ob[o].data = ob[p].data => o = p
    /\ \A t \in Tree : hp[t] = "live" /\ fr[t] \in {"search", "rootlist"} =>
          \E o \in Obj : Owner(ob[o]) /\ ob[o].data = t
    /\ \A o \in Obj : Owner(ob[o]) => fr[ob[o].data] \in {"search", "rootlist"}
    /\ \A t \in Tree : hp[t] = "freed" => fr[t] \in {"search", "rootlist"}

(* What the program and the library hold. *)
RootsInv(ob, hl, st) ==
    /\ hl \subseteq Obj
    /\ \A o \in hl : ob[o].class # "none"
    /\ st \in Obj \union {Null}
    /\ st # Null => ob[st].class = "RootList"

TrackInv(hp, tr) ==
    /\ tr \in Tree \union {Null}
    /\ tr # Null => hp[tr] # "unused"

(* The memory in good order: the objects ob, the trees hp, the calls fr they *)
(* come from, the references hl of the program, the stored playlists st and  *)
(* the track tr of the library.                                              *)
Good(ob, hp, fr, hl, st, tr) ==
    /\ ObjectsInv(ob)
    /\ OwnerInv(ob, hp, fr)
    /\ RootsInv(ob, hl, st)
    /\ TrackInv(hp, tr)

MemoryInv == Good(obj, heap, from, held, stored, track)

(* Memory that was freed stays so. *)
StillFreed(hp, later) == \A t \in Tree : hp[t] = "freed" => later[t] = "freed"

FaultInv ==
    /\ fault \in {"none", "null", "freed"}
    /\ fault = "freed" => \E t \in Tree : heap[t] = "freed"

ThreadTypes ==
    /\ main \in {"run", "join", "closed"}
    /\ gil \in {"main", "pcm"}
    /\ PcmTypeOK

-----------------------------------------------------------------------------
(* The collector. *)

Roots(hl, st) == hl \union ({st} \ {Null})

(* The object that is not there is an object with no data. *)
LEMMA NoObjType == NoObj \in ObjType /\ WrapperInv(NoObj) /\ ~Owner(NoObj) /\ NoObj.refs = {}
                   /\ NoObj.data = Null /\ NoObj.class = "none"
BY DEF NoObj, ObjType, WrapperInv, Owner, Plain, Classes

(* Only the owner of a tree frees it. *)
LEMMA OnlyOwnersFree ==
    ASSUME NEW x \in ObjType, WrapperInv(x), x.class # "none"
    PROVE  x.data # Null => (Frees(x) <=> Owner(x))
BY DEF ObjType, WrapperInv, Frees, Owner, SearchResult_dealloc, Playlist_dealloc,
       RootList_dealloc, Album_dealloc, Artist_dealloc, Plain, Classes

(* What a live object refers to is live. *)
LEMMA RefsSurvive ==
    ASSUME NEW ob, NEW hl, NEW st, ObjectsInv(ob), RootsInv(ob, hl, st),
           NEW o \in Obj, ob[o].class # "none", o \notin Collected(ob, Roots(hl, st)),
           NEW p \in ob[o].refs
    PROVE  p \in Obj /\ p \notin Collected(ob, Roots(hl, st))
<1> DEFINE R == Roots(hl, st)
<1>1. R \subseteq Obj
  BY DEF RootsInv, Roots
<1>2. \A x \in Obj : ob[x] \in ObjType /\ ob[x].refs \subseteq Obj
  BY DEF ObjectsInv, ObjType
<1>3. \A x \in Obj : ob[x].refs # {} =>
         ob[x].class \in {"SearchResult", "RootList", "RootIterator"}
  <2> TAKE x \in Obj
  <2>1. ob[x] \in ObjType /\ WrapperInv(ob[x])
    BY <1>2 DEF ObjectsInv
  <2>2. ob[x].class = "none" => ob[x].refs = {}
    BY <2>1, NoObjType DEF WrapperInv
  <2>3. ob[x].class \in Classes \union {"none"}
    BY <2>1 DEF ObjType
  <2> QED BY <2>1, <2>2, <2>3 DEF WrapperInv, Plain, Classes
<1>4. o \in Reachable(ob, R)
  BY DEF Collected
<1>5. p \in Obj
  BY <1>2
<1>6. CASE o \in R
  <2>1. p \in RefsOf(ob, R)
    BY <1>6 DEF RefsOf
  <2> QED BY <2>1, <1>5 DEF Collected, Reachable
<1>7. CASE o \in RefsOf(ob, R)
  <2>1. p \in RefsOf(ob, RefsOf(ob, R))
    BY <1>7 DEF RefsOf
  <2> QED BY <2>1, <1>5 DEF Collected, Reachable
<1>8. CASE o \in RefsOf(ob, RefsOf(ob, R))
  <2>1. PICK y \in RefsOf(ob, R) : o \in ob[y].refs
    BY <1>8 DEF RefsOf
  <2>2. PICK x \in R : y \in ob[x].refs
    BY <2>1 DEF RefsOf
  <2>3. x \in Obj /\ y \in Obj
    BY <1>1, <1>2, <2>2
  <2>4. ob[y].class \in {"Playlist", "RootList"}
    BY <1>3, <2>2, <2>3 DEF ObjectsInv, RefsInv
  <2>5. ob[y].class = "RootList"
    BY <1>3, <2>1, <2>3, <2>4
  <2>6. ob[o].class = "Playlist"
    BY <2>1, <2>3, <2>5 DEF ObjectsInv, RefsInv
  <2> QED BY <1>3, <2>6
<1> QED BY <1>4, <1>6, <1>7, <1>8 DEF Reachable

(* A tree that is freed in a step is freed by one object. *)
LEMMA FreedByOne ==
    ASSUME NEW ob, NEW hp, NEW fr, ObjectsInv(ob), OwnerInv(ob, hp, fr),
           NEW dead \in SUBSET {o \in Obj : ob[o].class # "none"}, NEW t \in Tree,
           Freeing(ob, dead, t) # {}
    PROVE  /\ Cardinality(Freeing(ob, dead, t)) = 1
           /\ hp[t] = "live"
           /\ \E o \in dead : Owner(ob[o]) /\ ob[o].data = t
<1>1. PICK o \in Freeing(ob, dead, t) : TRUE
  OBVIOUS
<1>2. \A x \in Freeing(ob, dead, t) : x \in Obj /\ x \in dead /\ Owner(ob[x]) /\ ob[x].data = t
  <2> TAKE x \in Freeing(ob, dead, t)
  <2>1. x \in Obj /\ x \in dead /\ ob[x].data = t /\ Frees(ob[x]) /\ ob[x].class # "none"
    BY DEF Freeing
  <2>2. t # Null
    BY NullAssumption
  <2>3. ob[x] \in ObjType /\ WrapperInv(ob[x])
    BY <2>1 DEF ObjectsInv
  <2> QED BY <2>1, <2>2, <2>3, OnlyOwnersFree
<1>3. \A x \in Freeing(ob, dead, t) : x = o
  BY <1>1, <1>2 DEF OwnerInv
<1>4. Freeing(ob, dead, t) = {o}
  BY <1>1, <1>3
<1>5. Cardinality(Freeing(ob, dead, t)) = 1
  BY <1>4, FS_Singleton
<1> QED BY <1>1, <1>2, <1>5 DEF OwnerInv

(* The collector keeps the memory in good order: whatever a step left of     *)
(* objects and trees, what is collected leaves no reference behind, and a    *)
(* tree goes exactly with its owner.                                         *)
LEMMA SettleKeeps ==
    ASSUME NEW ob, NEW hp, NEW fr, NEW hl, NEW st,
           Good(ob, hp, fr, hl, st, track), Settle(ob, hp, hl, st)
    PROVE  /\ Good(obj', heap', fr, held', stored', track)
           /\ StillFreed(hp, heap')
<1> DEFINE dead == Collected(ob, Roots(hl, st))
           lost == {t \in Tree : Freeing(ob, dead, t) # {}}
<1>0. /\ ObjectsInv(ob)
      /\ OwnerInv(ob, hp, fr)
      /\ RootsInv(ob, hl, st)
      /\ TrackInv(hp, track)
  BY DEF Good
<1>1. dead \in SUBSET {o \in Obj : ob[o].class # "none"}
  BY DEF Collected
<1>2. obj' = [o \in Obj |-> IF o \in dead THEN NoObj ELSE ob[o]]
  BY DEF Settle, Roots
<1>3. held' = hl /\ stored' = st
  BY DEF Settle
<1>4. \A t \in lost : /\ Cardinality(Freeing(ob, dead, t)) = 1
                      /\ hp[t] = "live"
                      /\ \E o \in dead : Owner(ob[o]) /\ ob[o].data = t
  <2> HIDE DEF dead
  <2> QED BY <1>0, <1>1, FreedByOne
<1>5. heap' = [t \in Tree |-> IF t \notin lost THEN hp[t] ELSE "freed"]
  <2>1. heap' = [t \in Tree |->
                       IF t \notin lost THEN hp[t]
                       ELSE IF hp[t] = "live" /\ Cardinality(Freeing(ob, dead, t)) = 1
                            THEN "freed" ELSE "twice"]
    BY DEF Settle, Roots
  <2> HIDE DEF dead
  <2> QED BY <1>4, <2>1
<1>7. \A o \in dead : Owner(ob[o]) => ob[o].data \in lost
  <2> SUFFICES ASSUME NEW o \in dead, Owner(ob[o]) PROVE ob[o].data \in lost
    OBVIOUS
  <2>1. o \in Obj /\ ob[o].class # "none"
    BY <1>1
  <2>2. ob[o] \in ObjType /\ WrapperInv(ob[o])
    BY <2>1, <1>0 DEF ObjectsInv
  <2>3. ob[o].data # Null /\ Frees(ob[o])
    BY <2>1, <2>2, OnlyOwnersFree DEF Owner
  <2>4. ob[o].data \in Tree
    BY <2>2, <2>3 DEF ObjType
  <2>5. o \in Freeing(ob, dead, ob[o].data)
    BY <2>1, <2>3 DEF Freeing
  <2> QED BY <2>4, <2>5
<1>8. \A o \in Obj \ dead : Owner(ob[o]) => ob[o].data \notin lost
  BY <1>0, <1>1, <1>4 DEF OwnerInv
<1>9. Roots(hl, st) \subseteq Obj /\ Roots(hl, st) \intersect dead = {}
  BY <1>0 DEF RootsInv, Roots, Collected, Reachable
<1>10. \A o \in Obj \ dead : ob[o].class # "none" =>
          \A p \in ob[o].refs : p \in Obj \ dead
  BY <1>0, RefsSurvive
<1>11. /\ \A o \in Obj \ dead : obj'[o] = ob[o]
       /\ \A o \in dead : obj'[o] = NoObj
  BY <1>1, <1>2
<1>12. \A t \in Tree : IF t \in lost THEN heap'[t] = "freed" ELSE heap'[t] = hp[t]
  BY <1>5
<1>13. dead \subseteq Obj /\ lost \subseteq Tree
  BY <1>1
<1> HIDE DEF dead, lost
<1>14. ObjectsInv(obj')
  <2>1. obj' \in [Obj -> ObjType]
    BY <1>0, <1>2, NoObjType DEF ObjectsInv
  <2>2. \A o \in Obj : WrapperInv(obj'[o])
    BY <1>0, <1>11, NoObjType DEF ObjectsInv
  <2>3. ASSUME NEW o \in Obj, NEW p \in obj'[o].refs
        PROVE  /\ obj'[o].class \in {"SearchResult", "RootList"} => obj'[p].class = "Playlist"
               /\ obj'[o].class = "RootIterator" => obj'[p].class = "RootList"
    <3>1. o \notin dead
      BY <2>3, <1>11, NoObjType
    <3>2. obj'[o] = ob[o] /\ p \in ob[o].refs
      BY <3>1, <2>3, <1>11
    <3>3. ob[o].class # "none"
      BY <3>2, <1>0, NoObjType DEF ObjectsInv, WrapperInv
    <3>4. obj'[p] = ob[p]
      BY <3>1, <3>2, <3>3, <1>10, <1>11
    <3> QED BY <3>2, <3>4, <1>0 DEF ObjectsInv, RefsInv
  <2> QED BY <2>1, <2>2, <2>3 DEF ObjectsInv, RefsInv
<1>15. \A o \in Obj : obj'[o].data # Null =>
          o \notin dead /\ ob[o].data \in Tree /\ obj'[o] = ob[o]
  <2> TAKE o \in Obj
  <2>1. ob[o].data \in Tree \union {Null}
    BY <1>0 DEF ObjectsInv, ObjType
  <2> QED BY <2>1, <1>11, NoObjType
<1>16. \A o \in Obj : Owner(obj'[o]) => o \notin dead /\ ob[o].data \in Tree /\ obj'[o] = ob[o]
  BY <1>15 DEF Owner
<1>17. OwnerInv(obj', heap', fr)
  <2>1. heap' \in [Tree -> {"unused", "live", "freed"}]
    BY <1>0, <1>5 DEF OwnerInv
  <2>2. \A o \in Obj : obj'[o].data # Null => heap'[obj'[o].data] # "unused"
    BY <1>0, <1>12, <1>15 DEF OwnerInv
  <2>3. \A o \in Obj : Owner(obj'[o]) => heap'[obj'[o].data] = "live"
    BY <1>0, <1>8, <1>12, <1>16 DEF OwnerInv
  <2>4. \A o, p \in Obj : Owner(obj'[o]) /\ Owner(obj'[p]) /\ obj'[o].data = obj'[p].data
            => o = p
    BY <1>0, <1>16 DEF OwnerInv
  <2>5. ASSUME NEW t \in Tree, heap'[t] = "live", fr[t] \in {"search", "rootlist"}
        PROVE  \E o \in Obj : Owner(obj'[o]) /\ obj'[o].data = t
    <3>1. t \notin lost /\ hp[t] = "live"
      BY <2>5, <1>12
    <3>2. PICK o \in Obj : Owner(ob[o]) /\ ob[o].data = t
      BY <2>5, <3>1, <1>0 DEF OwnerInv
    <3>3. o \notin dead
      BY <3>1, <3>2, <1>7
    <3> QED BY <3>2, <3>3, <1>11
  <2>6. \A o \in Obj : Owner(obj'[o]) => fr[obj'[o].data] \in {"search", "rootlist"}
    BY <1>0, <1>16 DEF OwnerInv
  <2>7. \A t \in Tree : heap'[t] = "freed" => fr[t] \in {"search", "rootlist"}
    BY <1>0, <1>1, <1>4, <1>12 DEF OwnerInv
  <2> QED BY <1>0, <2>1, <2>2, <2>3, <2>4, <2>5, <2>6, <2>7 DEF OwnerInv
<1>18. RootsInv(obj', held', stored')
  <2>1. \A o \in Roots(hl, st) : obj'[o] = ob[o]
    BY <1>9, <1>11
  <2>2. \A o \in hl : obj'[o].class # "none"
    BY <2>1, <1>0 DEF RootsInv, Roots
  <2>3. st # Null => obj'[st].class = "RootList"
    BY <2>1, <1>0 DEF RootsInv, Roots
  <2> QED BY <2>2, <2>3, <1>0, <1>3 DEF RootsInv
<1>19. TrackInv(heap', track)
  BY <1>0, <1>12 DEF TrackInv
<1>20. StillFreed(hp, heap')
  BY <1>12 DEF StillFreed
<1> QED BY <1>14, <1>17, <1>18, <1>19, <1>20 DEF Good

-----------------------------------------------------------------------------
(* What the calls of the binding do to objects and trees before the collector *)
(* comes.                                                                     *)

(* A wrapper of a part of the trees hp: not of one that was never allocated. *)
PartOf(w, hp) ==
    /\ w \in ObjType /\ w.class \in Plain \ {"Playlist"}
    /\ WrapperInv(w)
    /\ w.data # Null => hp[w.data] # "unused"

(* The program may keep any objects there are. *)
LEMMA HoldKeeps ==
    ASSUME NEW ob, NEW hp, NEW fr, NEW hl, NEW st, NEW tr, Good(ob, hp, fr, hl, st, tr),
           NEW more \in SUBSET Obj, \A o \in more : ob[o].class # "none"
    PROVE  Good(ob, hp, fr, hl \union more, st, tr)
BY DEF Good, RootsInv

LEMMA DropKeeps ==
    ASSUME NEW ob, NEW hp, NEW fr, NEW hl, NEW st, NEW tr, Good(ob, hp, fr, hl, st, tr), NEW o
    PROVE  Good(ob, hp, fr, hl \ {o}, st, tr)
BY DEF Good, RootsInv

(* A new wrapper of a part of a tree, or an artist whose struct is replaced. *)
LEMMA PutPart ==
    ASSUME NEW ob, NEW hp, NEW fr, NEW hl, NEW st, NEW tr, Good(ob, hp, fr, hl, st, tr),
           NEW n \in Obj, ob[n].class \in {"none", "Artist"}, NEW w, PartOf(w, hp)
    PROVE  Good([ob EXCEPT ![n] = w], hp, fr, hl, st, tr)
<1> DEFINE new == [ob EXCEPT ![n] = w]
<1>0. /\ ObjectsInv(ob) /\ OwnerInv(ob, hp, fr) /\ RootsInv(ob, hl, st) /\ TrackInv(hp, tr)
      /\ ob \in [Obj -> ObjType]
  BY DEF Good, ObjectsInv
<1>1. new[n] = w /\ \A o \in Obj \ {n} : new[o] = ob[o]
  BY <1>0
<1>2. /\ w.class \in {"Track", "Artist", "Album"} /\ w \in ObjType /\ WrapperInv(w)
      /\ w.refs = {} /\ ~Owner(w)
  BY DEF PartOf, Plain, WrapperInv, Owner
<1>3. ~Owner(ob[n])
  BY DEF Owner
<1>4. new \in [Obj -> ObjType]
  BY <1>0, <1>2
<1> HIDE DEF new
<1>5. ObjectsInv(new)
  <2>1. \A o \in Obj : WrapperInv(new[o])
    BY <1>0, <1>1, <1>2 DEF ObjectsInv
  <2>2. ASSUME NEW o \in Obj, NEW p \in new[o].refs
        PROVE  /\ new[o].class \in {"SearchResult", "RootList"} => new[p].class = "Playlist"
               /\ new[o].class = "RootIterator" => new[p].class = "RootList"
    <3>1. o # n /\ new[o] = ob[o] /\ p \in ob[o].refs
      BY <2>2, <1>1, <1>2
    <3>2. p \in Obj
      BY <3>1, <1>0 DEF ObjType
    <3>3. CASE p = n
      BY <3>1, <3>3, <1>0 DEF ObjectsInv, RefsInv
    <3>4. CASE p # n
      BY <3>1, <3>2, <3>4, <1>0, <1>1 DEF ObjectsInv, RefsInv
    <3> QED BY <3>3, <3>4
  <2> QED BY <1>4, <2>1, <2>2 DEF ObjectsInv, RefsInv
<1>6. \A o \in Obj : Owner(new[o]) <=> o # n /\ Owner(ob[o])
  BY <1>1, <1>2
<1>7. \A o \in Obj : Owner(ob[o]) => new[o] = ob[o]
  BY <1>1, <1>3
<1>8. OwnerInv(new, hp, fr)
  <2>1. \A o \in Obj : new[o].data # Null => hp[new[o].data] # "unused"
    BY <1>0, <1>1 DEF OwnerInv, PartOf
  <2>2. \A o \in Obj : Owner(new[o]) => hp[new[o].data] = "live"
    BY <1>0, <1>6, <1>7 DEF OwnerInv
  <2>3. \A o, p \in Obj : Owner(new[o]) /\ Owner(new[p]) /\ new[o].data = new[p].data => o = p
    BY <1>0, <1>6, <1>7 DEF OwnerInv
  <2>4. \A t \in Tree : hp[t] = "live" /\ fr[t] \in {"search", "rootlist"} =>
          \E o \in Obj : Owner(new[o]) /\ new[o].data = t
    BY <1>0, <1>3, <1>6, <1>7 DEF OwnerInv
  <2>5. \A o \in Obj : Owner(new[o]) => fr[new[o].data] \in {"search", "rootlist"}
    BY <1>0, <1>6, <1>7 DEF OwnerInv
  <2> QED BY <1>0, <2>1, <2>2, <2>3, <2>4, <2>5 DEF OwnerInv
<1>9. RootsInv(new, hl, st)
  <2>1. \A o \in hl : new[o].class # "none"
    BY <1>0, <1>1, <1>2 DEF RootsInv
  <2>2. st # Null => new[st].class = "RootList"
    BY <1>0, <1>1 DEF RootsInv
  <2> QED BY <1>0, <2>1, <2>2 DEF RootsInv
<1> QED BY <1>0, <1>5, <1>8, <1>9 DEF Good, new

(* A struct that a lookup returned. *)
LEMMA LookupKeeps ==
    ASSUME NEW ob, NEW hp, NEW fr, NEW hl, NEW st, NEW tr, Good(ob, hp, fr, hl, st, tr),
           NEW t \in Tree, hp[t] = "unused"
    PROVE  Good(ob, [hp EXCEPT ![t] = "live"], [fr EXCEPT ![t] = "lookup"], hl, st, tr)
<1> DEFINE live == [hp EXCEPT ![t] = "live"]
           call == [fr EXCEPT ![t] = "lookup"]
<1>0. /\ OwnerInv(ob, hp, fr) /\ TrackInv(hp, tr) /\ t # Null
      /\ hp \in [Tree -> {"unused", "live", "freed"}]
      /\ fr \in [Tree -> {"none", "search", "rootlist", "lookup"}]
      /\ \A o \in Obj : ob[o].data \in Tree \union {Null}
  BY NullAssumption DEF Good, OwnerInv, ObjectsInv, ObjType
<1>1. /\ live[t] = "live" /\ \A u \in Tree \ {t} : live[u] = hp[u]
      /\ call[t] = "lookup" /\ \A u \in Tree \ {t} : call[u] = fr[u]
  BY <1>0
<1>2. /\ live \in [Tree -> {"unused", "live", "freed"}]
      /\ call \in [Tree -> {"none", "search", "rootlist", "lookup"}]
  BY <1>0
<1> HIDE DEF live, call
<1>3. \A o \in Obj : ob[o].data # Null => live[ob[o].data] = hp[ob[o].data]
  BY <1>0, <1>1 DEF OwnerInv
<1>4. OwnerInv(ob, live, call)
  <2>1. \A o \in Obj : ob[o].data # Null => live[ob[o].data] # "unused"
    BY <1>0, <1>3 DEF OwnerInv
  <2>2. \A o \in Obj : Owner(ob[o]) => live[ob[o].data] = "live"
    BY <1>0, <1>3 DEF OwnerInv, Owner
  <2>3. \A u \in Tree : live[u] = "live" /\ call[u] \in {"search", "rootlist"} =>
          \E o \in Obj : Owner(ob[o]) /\ ob[o].data = u
    BY <1>0, <1>1 DEF OwnerInv
  <2>4. \A o \in Obj : Owner(ob[o]) => call[ob[o].data] \in {"search", "rootlist"}
    BY <1>0, <1>1 DEF OwnerInv, Owner
  <2>5. \A u \in Tree : live[u] = "freed" => call[u] \in {"search", "rootlist"}
    BY <1>0, <1>1 DEF OwnerInv
  <2> QED BY <1>0, <1>2, <2>1, <2>2, <2>3, <2>4, <2>5 DEF OwnerInv
<1>5. TrackInv(live, tr)
  BY <1>0, <1>1 DEF TrackInv
<1> QED BY <1>4, <1>5 DEF Good, live, call

(* An object without a tree: stored playlists that were not fetched, or an    *)
(* iterator over them; a new one, or one whose other fields change.           *)
LEMMA PutTreeless ==
    ASSUME NEW ob, NEW hp, NEW fr, NEW hl, NEW st, NEW tr, Good(ob, hp, fr, hl, st, tr),
           NEW n \in Obj, ob[n].data = Null, NEW w \in ObjType, WrapperInv(w),
           w.class \in {"RootList", "RootIterator"}, w.data = Null,
           ob[n].class \in {"none", w.class},
           \A p \in w.refs : /\ w.class = "RootList" => ob[p].class = "Playlist"
                             /\ w.class = "RootIterator" => ob[p].class = "RootList"
    PROVE  Good([ob EXCEPT ![n] = w], hp, fr, hl, st, tr)
<1> DEFINE new == [ob EXCEPT ![n] = w]
<1>0. /\ ObjectsInv(ob) /\ OwnerInv(ob, hp, fr) /\ RootsInv(ob, hl, st) /\ TrackInv(hp, tr)
      /\ ob \in [Obj -> ObjType]
  BY DEF Good, ObjectsInv
<1>1. new[n] = w /\ \A o \in Obj \ {n} : new[o] = ob[o]
  BY <1>0
<1>2. ~Owner(w) /\ ~Owner(ob[n])
  BY DEF Owner
<1>3. new \in [Obj -> ObjType]
  BY <1>0
<1> HIDE DEF new
<1>4. \A p \in Obj : ob[p].class # "none" => new[p].class = ob[p].class
  BY <1>1
<1>5. ObjectsInv(new)
  <2>1. \A o \in Obj : WrapperInv(new[o])
    BY <1>0, <1>1 DEF ObjectsInv
  <2>2. ASSUME NEW o \in Obj, NEW p \in new[o].refs
        PROVE  /\ new[o].class \in {"SearchResult", "RootList"} => new[p].class = "Playlist"
               /\ new[o].class = "RootIterator" => new[p].class = "RootList"
    <3>1. p \in Obj
      BY <1>3 DEF ObjType
    <3>2. CASE o = n
      BY <3>1, <3>2, <1>1, <1>4
    <3>3. CASE o # n
      BY <3>1, <3>3, <1>0, <1>1, <1>4 DEF ObjectsInv, RefsInv
    <3> QED BY <3>2, <3>3
  <2> QED BY <1>3, <2>1, <2>2 DEF ObjectsInv, RefsInv
<1>6. \A o \in Obj : /\ Owner(new[o]) <=> Owner(ob[o])
                     /\ new[o].data = ob[o].data
  BY <1>1, <1>2
<1>7. OwnerInv(new, hp, fr)
  <2>1. \A o \in Obj : new[o].data # Null => hp[new[o].data] # "unused"
    BY <1>0, <1>6 DEF OwnerInv
  <2>2. \A o \in Obj : Owner(new[o]) => hp[new[o].data] = "live"
    BY <1>0, <1>6 DEF OwnerInv
  <2>3. \A o, p \in Obj : Owner(new[o]) /\ Owner(new[p]) /\ new[o].data = new[p].data => o = p
    BY <1>0, <1>6 DEF OwnerInv
  <2>4. \A t \in Tree : hp[t] = "live" /\ fr[t] \in {"search", "rootlist"} =>
          \E o \in Obj : Owner(new[o]) /\ new[o].data = t
    BY <1>0, <1>6 DEF OwnerInv
  <2>5. \A o \in Obj : Owner(new[o]) => fr[new[o].data] \in {"search", "rootlist"}
    BY <1>0, <1>6 DEF OwnerInv
  <2> QED BY <1>0, <2>1, <2>2, <2>3, <2>4, <2>5 DEF OwnerInv
<1>8. RootsInv(new, hl, st)
  BY <1>0, <1>4 DEF RootsInv
<1> QED BY <1>0, <1>5, <1>7, <1>8 DEF Good, new

(* A tree with its owner and the playlist that the owner keeps: a search, or  *)
(* stored playlists that are fetched for the first time.                      *)
LEMMA PutOwner ==
    ASSUME NEW ob, NEW hp, NEW fr, NEW hl, NEW st, NEW tr, Good(ob, hp, fr, hl, st, tr),
           NEW t \in Tree, hp[t] = "unused", NEW call \in {"search", "rootlist"},
           NEW o \in Obj, NEW p \in Obj, o # p, ob[p].class = "none", ob[o].data = Null,
           NEW w \in ObjType, WrapperInv(w), w.class \in {"SearchResult", "RootList"},
           w.data = t, w.refs = {p}, ob[o].class \in {"none", w.class}
    PROVE  Good([ob EXCEPT ![o] = w, ![p] = create_playlist(t, FALSE)],
                [hp EXCEPT ![t] = "live"], [fr EXCEPT ![t] = call], hl, st, tr)
<1> DEFINE list == create_playlist(t, FALSE)
           new == [ob EXCEPT ![o] = w, ![p] = list]
           live == [hp EXCEPT ![t] = "live"]
           by == [fr EXCEPT ![t] = call]
<1>0. /\ ObjectsInv(ob) /\ OwnerInv(ob, hp, fr) /\ RootsInv(ob, hl, st) /\ TrackInv(hp, tr)
      /\ ob \in [Obj -> ObjType]
      /\ t # Null
      /\ hp \in [Tree -> {"unused", "live", "freed"}]
      /\ fr \in [Tree -> {"none", "search", "rootlist", "lookup"}]
  BY NullAssumption DEF Good, ObjectsInv, OwnerInv
<1>1. /\ list \in ObjType /\ list.class = "Playlist" /\ list.data = t /\ list.refs = {}
      /\ ~list.take_owner /\ WrapperInv(list)
  BY DEF create_playlist, Wrapper, NoObj, ObjType, Classes, WrapperInv
<1>2. new[o] = w /\ new[p] = list /\ \A x \in Obj \ {o, p} : new[x] = ob[x]
  BY <1>0
<1>3. new \in [Obj -> ObjType]
  BY <1>0, <1>1
<1>4. /\ live[t] = "live" /\ \A u \in Tree \ {t} : live[u] = hp[u]
      /\ by[t] = call /\ \A u \in Tree \ {t} : by[u] = fr[u]
  BY <1>0
<1>5. /\ live \in [Tree -> {"unused", "live", "freed"}]
      /\ by \in [Tree -> {"none", "search", "rootlist", "lookup"}]
  BY <1>0
<1> HIDE DEF list, new, live, by
<1>6. \A x \in Obj : ob[x].class # "none" => x # p /\ new[x].class = ob[x].class
  BY <1>2
<1>7. ObjectsInv(new)
  <2>1. \A x \in Obj : WrapperInv(new[x])
    BY <1>0, <1>1, <1>2 DEF ObjectsInv
  <2>2. ASSUME NEW x \in Obj, NEW y \in new[x].refs
        PROVE  /\ new[x].class \in {"SearchResult", "RootList"} => new[y].class = "Playlist"
               /\ new[x].class = "RootIterator" => new[y].class = "RootList"
    <3>1. y \in Obj
      BY <1>3 DEF ObjType
    <3>2. CASE x = o
      BY <3>2, <1>1, <1>2
    <3>3. CASE x = p
      BY <3>3, <1>1, <1>2
    <3>4. CASE x \notin {o, p}
      BY <3>1, <3>4, <1>0, <1>2, <1>6 DEF ObjectsInv, RefsInv
    <3> QED BY <3>2, <3>3, <3>4
  <2> QED BY <1>3, <2>1, <2>2 DEF ObjectsInv, RefsInv
<1>8. /\ Owner(new[o]) /\ new[o].data = t /\ ~Owner(new[p]) /\ new[p].data = t
      /\ ~Owner(ob[o]) /\ ~Owner(ob[p])
  BY <1>0, <1>1, <1>2 DEF Owner
<1>9. \A x \in Obj : ob[x].data # Null => ob[x].data \in Tree \ {t}
  BY <1>0 DEF OwnerInv, ObjType
<1>10. \A x \in Obj : Owner(ob[x]) => ob[x].data \in Tree \ {t} /\ new[x] = ob[x]
  BY <1>2, <1>8, <1>9 DEF Owner
<1>11. \A x \in Obj : Owner(new[x]) => x = o \/ (x # p /\ Owner(ob[x]) /\ new[x] = ob[x])
  BY <1>2, <1>8
<1>12. OwnerInv(new, live, by)
  <2>1. \A x \in Obj : new[x].data # Null => live[new[x].data] # "unused"
    BY <1>0, <1>2, <1>4, <1>8, <1>9 DEF OwnerInv
  <2>2. \A x \in Obj : Owner(new[x]) => live[new[x].data] = "live"
    BY <1>0, <1>4, <1>8, <1>10, <1>11 DEF OwnerInv
  <2>3. \A x, y \in Obj : Owner(new[x]) /\ Owner(new[y]) /\ new[x].data = new[y].data => x = y
    BY <1>0, <1>8, <1>10, <1>11 DEF OwnerInv
  <2>4. ASSUME NEW u \in Tree, live[u] = "live", by[u] \in {"search", "rootlist"}
        PROVE  \E x \in Obj : Owner(new[x]) /\ new[x].data = u
    <3>1. CASE u = t
      BY <3>1, <1>8
    <3>2. CASE u # t
      BY <2>4, <3>2, <1>0, <1>4, <1>10 DEF OwnerInv
    <3> QED BY <3>1, <3>2
  <2>5. \A x \in Obj : Owner(new[x]) => by[new[x].data] \in {"search", "rootlist"}
    BY <1>0, <1>4, <1>8, <1>10, <1>11 DEF OwnerInv
  <2>6. \A u \in Tree : live[u] = "freed" => by[u] \in {"search", "rootlist"}
    BY <1>0, <1>4 DEF OwnerInv
  <2> QED BY <1>5, <2>1, <2>2, <2>3, <2>4, <2>5, <2>6 DEF OwnerInv
<1>13. RootsInv(new, hl, st)
  BY <1>0, <1>6 DEF RootsInv
<1>14. TrackInv(live, tr)
  BY <1>0, <1>4 DEF TrackInv
<1> QED BY <1>7, <1>12, <1>13, <1>14 DEF Good, new, live, by, list

-----------------------------------------------------------------------------
(* The calls. *)

SafeInv == MemoryInv /\ FaultInv

(* A step is safe when the memory it leaves to the collector is in good order. *)
LEMMA SettledStep ==
    ASSUME NEW ob, NEW hp, NEW fr, NEW hl, NEW st,
           Good(ob, hp, fr, hl, st, track), Settle(ob, hp, hl, st),
           from' = fr, UNCHANGED track
    PROVE  /\ MemoryInv'
           /\ StillFreed(hp, heap')
BY SettleKeeps DEF MemoryInv

(* The tree of a wrapper, and of the track that plays. *)
LEMMA DataIsTree ==
    ASSUME MemoryInv
    PROVE  /\ \A o \in Obj : /\ obj[o].data \in Tree \union {Null}
                             /\ obj[o].data # Null => heap[obj[o].data] # "unused"
           /\ track \in Tree \union {Null}
           /\ track # Null => heap[track] # "unused"
BY DEF MemoryInv, Good, ObjectsInv, ObjType, OwnerInv, TrackInv

(* What is followed was allocated, and hits freed memory when it was freed. *)
LEMMA FollowIsSafe ==
    ASSUME MemoryInv, fault = "none",
           NEW t \in {obj[o].data : o \in Obj} \union {track, Null}
    PROVE  /\ Follow(t) \in {"none", "freed"}
           /\ FollowString(t) \in {"none", "null", "freed"}
           /\ Follow(t) = "freed" \/ FollowString(t) = "freed" =>
                 \E u \in Tree : heap[u] = "freed"
<1>1. t \in Tree \union {Null} /\ (t # Null => heap[t] # "unused")
  BY DataIsTree
<1>2. heap \in [Tree -> {"unused", "live", "freed"}]
  BY DEF MemoryInv, Good, OwnerInv
<1>3. t # Null /\ heap[t] # "live" => t \in Tree /\ heap[t] = "freed"
  BY <1>1, <1>2
<1> QED BY <1>3 DEF Follow, FollowString

(* An attribute that is read. *)
LEMMA ReadKeeps ==
    ASSUME SafeInv, fault = "none", NEW o \in Obj,
           \/ Reads(Follow(obj[o].data))
           \/ Reads(FollowString(obj[o].data))
           \/ Reads(fault)
    PROVE  SafeInv'
<1>1. obj[o].data \in {obj[x].data : x \in Obj} \union {track, Null}
  OBVIOUS
<1>2. UNCHANGED <<obj, heap, from, held, stored, track>>
  BY DEF Reads
<1>3. MemoryInv'
  BY <1>2 DEF SafeInv, MemoryInv
<1>4. /\ fault' \in {"none", "null", "freed"}
      /\ fault' = "freed" => \E u \in Tree : heap[u] = "freed"
  BY <1>1, FollowIsSafe DEF Reads, SafeInv
<1> QED BY <1>2, <1>3, <1>4 DEF SafeInv, FaultInv

(* What the binding wraps: a track, an album or an artist of a tree that is there. *)
LEMMA NewPart ==
    ASSUME NEW t \in Tree \union {Null}, NEW hp,
           t # Null => hp[t] # "unused"
    PROVE  /\ PartOf(create_album_full(t, FALSE), hp)
           /\ t # Null => PartOf(create_track(t), hp) /\ PartOf(create_artist(t, FALSE), hp)
<1>1. PartOf(create_album_full(t, FALSE), hp)
  BY DEF create_album_full, Wrapper, NoObj, PartOf, ObjType, Plain, Classes, WrapperInv
<1>2. t # Null => PartOf(create_track(t), hp)
  BY DEF create_track, Wrapper, NoObj, PartOf, ObjType, Plain, Classes, WrapperInv
<1>3. t # Null => PartOf(create_artist(t, FALSE), hp)
  BY DEF create_artist, Wrapper, NoObj, PartOf, ObjType, Plain, Classes, WrapperInv
<1> QED BY <1>1, <1>2, <1>3

(* A new wrapper that the program keeps. *)
LEMMA KeepsPart ==
    ASSUME MemoryInv, NEW w, PartOf(w, heap), Keeps(w), UNCHANGED <<from, track>>
    PROVE  /\ MemoryInv'
           /\ StillFreed(heap, heap')
<1>1. PICK n \in New : Settle([obj EXCEPT ![n] = w], heap, held \union {n}, stored)
  BY DEF Keeps
<1>2. n \in Obj /\ obj[n].class = "none"
  BY <1>1 DEF New
<1>3. Good([obj EXCEPT ![n] = w], heap, from, held, stored, track)
  BY <1>2, PutPart DEF MemoryInv
<1>4. [obj EXCEPT ![n] = w][n].class # "none"
  BY <1>2 DEF MemoryInv, Good, ObjectsInv, PartOf, Plain
<1>5. Good([obj EXCEPT ![n] = w], heap, from, held \union {n}, stored, track)
  <2> DEFINE new == [obj EXCEPT ![n] = w]
  <2>1. Good(new, heap, from, held, stored, track) /\ new[n].class # "none"
    BY <1>3, <1>4
  <2> HIDE DEF new
  <2>2. Good(new, heap, from, held \union {n}, stored, track)
    BY <2>1, <1>2, HoldKeeps
  <2> QED BY <2>2 DEF new
<1> QED BY <1>1, <1>5, SettledStep

(* A step that only keeps or drops references. *)
LEMMA NothingNew ==
    ASSUME MemoryInv, NEW more \in SUBSET Obj, \A o \in more : obj[o].class # "none",
           Settle(obj, heap, held \union more, stored), UNCHANGED <<from, track>>
    PROVE  MemoryInv'
<1>1. Good(obj, heap, from, held \union more, stored, track)
  BY HoldKeeps DEF MemoryInv
<1> QED BY <1>1, SettledStep

LEMMA NothingKept ==
    ASSUME MemoryInv, Settle(obj, heap, held, stored), UNCHANGED <<from, track>>
    PROVE  /\ MemoryInv'
           /\ StillFreed(heap, heap')
BY SettledStep DEF MemoryInv

(* What an object refers to is there. *)
LEMMA RefsExist ==
    ASSUME MemoryInv, NEW o \in Obj
    PROVE  /\ obj[o].refs \subseteq Obj
           /\ \A p \in obj[o].refs : obj[p].class # "none"
<1>1. ObjectsInv(obj) /\ obj[o] \in ObjType /\ WrapperInv(obj[o])
  BY DEF MemoryInv, Good, ObjectsInv
<1>2. obj[o].refs \subseteq Obj
  BY <1>1 DEF ObjType
<1>3. obj[o].refs # {} => obj[o].class \in {"SearchResult", "RootList", "RootIterator"}
  BY <1>1, NoObjType DEF ObjType, WrapperInv, Plain, Classes
<1> QED BY <1>1, <1>2, <1>3 DEF ObjectsInv, RefsInv

(* Lists: of one element, or empty. *)
LEMMA ReadsListKeeps ==
    ASSUME SafeInv, fault = "none", NEW o \in Obj,
           \/ ReadsList(o, tracks_to_list) \/ ReadsList(o, artists_to_list)
           \/ ReadsList(o, EmptyList)
    PROVE  SafeInv'
<1>1. obj[o].data \in {obj[x].data : x \in Obj} \union {track, Null}
  OBVIOUS
<1>2. UNCHANGED <<from, track>> /\ fault' = Follow(obj[o].data)
  BY DEF ReadsList
<1>3. /\ MemoryInv'
      /\ StillFreed(heap, heap')
  <2>1. CASE ReadsList(o, tracks_to_list) \/ ReadsList(o, artists_to_list)
    <3>1. /\ obj[o].data # Null
          /\ Keeps(create_track(obj[o].data)) \/ Keeps(create_artist(obj[o].data, FALSE))
      BY <2>1 DEF ReadsList, tracks_to_list, artists_to_list
    <3>2. /\ PartOf(create_track(obj[o].data), heap)
          /\ PartOf(create_artist(obj[o].data, FALSE), heap)
      BY <3>1, DataIsTree, NewPart DEF SafeInv
    <3> QED BY <1>2, <3>1, <3>2, KeepsPart DEF SafeInv
  <2>2. CASE ReadsList(o, EmptyList)
    BY <1>2, <2>2, NothingKept DEF ReadsList, EmptyList, SafeInv
  <2> QED BY <2>1, <2>2
<1>4. FaultInv'
  BY <1>1, <1>2, <1>3, FollowIsSafe DEF SafeInv, FaultInv, StillFreed
<1> QED BY <1>3, <1>4 DEF SafeInv

(* Reading, and dropping a reference. *)
LEMMA ReadStep ==
    ASSUME SafeInv, fault = "none", NEW o \in Obj, Read(o)
    PROVE  SafeInv'
<1>1. CASE \/ Album_name(o) \/ Album_id(o) \/ Album_cover_id(o) \/ Album_popularity(o)
           \/ Album_year(o) \/ Album_repr(o)
  BY <1>1, ReadKeeps
  DEF Album_name, Album_id, Album_cover_id, Album_popularity, Album_year, Album_repr,
      AlbumDataFull_strings, AlbumDataFull_numbers
<1>2. CASE \/ Track_track_id(o) \/ Track_file_id(o) \/ Track_has_meta_data(o)
           \/ Track_is_playable(o) \/ Track_title(o) \/ Track_album(o) \/ Track_length(o)
           \/ Track_tracknumber(o) \/ Track_year(o) \/ Track_popularity(o) \/ Track_repr(o)
           \/ \E other \in Obj : Track_richcmp(o, other)
  BY <1>2, ReadKeeps
  DEF Track_track_id, Track_file_id, Track_has_meta_data, Track_is_playable, Track_title,
      Track_album, Track_length, Track_tracknumber, Track_year, Track_popularity, Track_repr,
      Track_richcmp
<1>3. CASE \/ Playlist_name(o) \/ Playlist_author(o) \/ Playlist_id(o)
           \/ Playlist_is_collaborative(o) \/ Playlist_repr(o)
  BY <1>3, ReadKeeps
  DEF Playlist_name, Playlist_author, Playlist_id, Playlist_is_collaborative, Playlist_repr
<1>4. CASE \/ SearchResult_query(o) \/ SearchResult_suggestion(o)
           \/ SearchResult_total_artists(o) \/ SearchResult_total_albums(o)
           \/ SearchResult_total_tracks(o)
  BY <1>4, ReadKeeps
  DEF SearchResult_query, SearchResult_suggestion, SearchResult_total_artists,
      SearchResult_total_albums, SearchResult_total_tracks
<1>5. CASE \/ Artist_name(o) \/ Artist_id(o) \/ Artist_portrait_id(o) \/ Artist_repr(o)
           \/ Artist_popularity(o)
  <2>1. Artist_strings(o) = FollowString(obj[o].data)
    BY DEF Artist_strings, ArtistDataFull_strings, ArtistData_strings
  <2>2. Reads(FollowString(obj[o].data)) \/ Reads(Follow(obj[o].data))
    BY <1>5, <2>1
    DEF Artist_name, Artist_id, Artist_portrait_id, Artist_repr, Artist_popularity,
        ArtistDataFull_popularity, ArtistData_popularity
  <2> QED BY <2>2, ReadKeeps
<1>6. CASE Album_tracks(o) \/ Track_artists(o) \/ Playlist_tracks(o)
  BY <1>6, ReadsListKeeps DEF Album_tracks, Track_artists, Playlist_tracks
<1>7. CASE SearchResult_playlist(o)
  <2>1. MemoryInv'
    BY <1>7, RefsExist, NothingNew DEF SearchResult_playlist, SafeInv
  <2> QED BY <1>7, <2>1 DEF SearchResult_playlist, SafeInv, FaultInv
<1>8. CASE SpotifyObject_get_http_link(o)
  <2>1. Reads(FollowString(obj[o].data))
    BY <1>8
    DEF SpotifyObject_get_http_link, Album_get_uri, Artist_get_uri, Track_get_uri,
        Playlist_get_uri, SearchResult_get_uri, Album_id, Artist_id, Track_track_id,
        Playlist_id, SearchResult_query, AlbumDataFull_strings, Artist_strings,
        ArtistDataFull_strings, ArtistData_strings
  <2> QED BY <2>1, ReadKeeps
<1>9. CASE RootIterator_next(o)
  <2> DEFINE w == [obj[o] EXCEPT !.loaded = TRUE]
             new == [obj EXCEPT ![o].loaded = TRUE]
             more == RefsOf(obj, obj[o].refs)
  <2>1. /\ obj[o].class = "RootIterator" /\ UNCHANGED <<from, track, fault>>
        /\ \/ Settle(new, heap, held, stored)
           \/ Settle(new, heap, held \union more, stored)
    BY <1>9 DEF RootIterator_next, Uses
  <2>2. obj[o] \in ObjType /\ WrapperInv(obj[o]) /\ obj \in [Obj -> ObjType]
    BY DEF SafeInv, MemoryInv, Good, ObjectsInv
  <2>3. /\ w \in ObjType /\ w.class = obj[o].class /\ w.data = obj[o].data
        /\ w.refs = obj[o].refs /\ w.take_owner = obj[o].take_owner
    BY <2>2 DEF ObjType
  <2>4. obj[o].data = Null /\ w.data = Null /\ WrapperInv(w)
    BY <2>1, <2>2, <2>3 DEF WrapperInv, Plain
  <2>5. new = [obj EXCEPT ![o] = w]
    OBVIOUS
  <2>6. \A p \in w.refs : w.class = "RootIterator" => obj[p].class = "RootList"
    BY <2>1, <2>3 DEF SafeInv, MemoryInv, Good, ObjectsInv, RefsInv
  <2>7. Good(obj, heap, from, held, stored, track)
    BY DEF SafeInv, MemoryInv
  <2> HIDE DEF w
  <2>8. Good([obj EXCEPT ![o] = w], heap, from, held, stored, track)
    BY <2>1, <2>3, <2>4, <2>6, <2>7, PutTreeless
  <2>9. more \subseteq Obj /\ \A p \in more : obj[p].class # "none"
    BY RefsExist DEF RefsOf, SafeInv
  <2>10. \A p \in more : new[p].class # "none"
    BY <2>1, <2>2, <2>3, <2>5, <2>9
  <2> HIDE DEF new, more
  <2>11. Good(new, heap, from, held \union more, stored, track)
    BY <2>5, <2>8, <2>9, <2>10, HoldKeeps
  <2>12. MemoryInv'
    BY <2>1, <2>5, <2>8, <2>11, SettledStep
  <2> QED BY <2>1, <2>12 DEF SafeInv, FaultInv
<1>10. CASE Drop(o)
  <2>1. Good(obj, heap, from, held \ {o}, stored, track)
    BY DropKeeps DEF SafeInv, MemoryInv
  <2>2. MemoryInv'
    BY <1>10, <2>1, SettledStep DEF Drop
  <2> QED BY <1>10, <2>2 DEF Drop, SafeInv, FaultInv
<1> QED
  BY <1>1, <1>2, <1>3, <1>4, <1>5, <1>6, <1>7, <1>8, <1>9, <1>10 DEF Read

(* A request that fetches the full data of an artist: the wrapper gets the new *)
(* struct, or NULL, and the old one stays with its tree.                       *)
LEMMA ArtistFetch ==
    ASSUME MemoryInv, NEW o \in Obj, Uses(o, "Artist"), NEW f \in Artist_get_full_data(o)
    PROVE  /\ Good(f.ob, f.hp, f.fr, held, stored, track)
           /\ \A n \in New : f.ob[n].class = "none"
           /\ PartOf(create_album_full(f.ob[o].data, FALSE), f.hp)
           /\ StillFreed(heap, f.hp)
<1>0. /\ obj[o].class = "Artist" /\ obj[o] \in ObjType /\ WrapperInv(obj[o])
      /\ obj \in [Obj -> ObjType]
      /\ Good(obj, heap, from, held, stored, track)
  BY DEF Uses, MemoryInv, Good, ObjectsInv
<1>1. CASE obj[o].loaded
  <2>1. f.ob = obj /\ f.hp = heap /\ f.fr = from
    BY <1>1 DEF Artist_get_full_data
  <2>2. PartOf(create_album_full(obj[o].data, FALSE), heap)
    BY DataIsTree, NewPart
  <2> QED BY <1>0, <2>1, <2>2 DEF New, StillFreed
<1>2. CASE ~obj[o].loaded
  <2>1. PICK t \in Answers :
           f = [ob |-> [obj EXCEPT ![o].data = t, ![o].loaded = TRUE],
                hp |-> WithTree(t), fr |-> FromCall(t, "lookup")]
    BY <1>2 DEF Artist_get_full_data
  <2> DEFINE w == [obj[o] EXCEPT !.data = t, !.loaded = TRUE]
  <2>2. f.ob = [obj EXCEPT ![o] = w] /\ f.hp = WithTree(t) /\ f.fr = FromCall(t, "lookup")
    BY <1>0, <2>1
  <2>3. t \in Tree \union {Null} /\ (t # Null => t \in Tree /\ heap[t] = "unused")
    BY <2>1 DEF Answers, Unused
  <2>4. Good(obj, f.hp, f.fr, held, stored, track)
    <3>1. CASE t = Null
      BY <1>0, <2>2, <3>1 DEF WithTree, FromCall
    <3>2. CASE t # Null
      BY <1>0, <2>2, <2>3, <3>2, LookupKeeps DEF WithTree, FromCall
    <3> QED BY <3>1, <3>2
  <2>5. t # Null => f.hp[t] = "live"
    BY <2>2, <2>3, <1>0 DEF WithTree, Good, OwnerInv
  <2>6. /\ w \in ObjType /\ w.class = "Artist" /\ w.data = t
        /\ w.refs = obj[o].refs /\ w.take_owner = obj[o].take_owner
    BY <1>0, <2>3 DEF ObjType
  <2>7. WrapperInv(w)
    BY <1>0, <2>6 DEF WrapperInv, Plain
  <2> HIDE DEF w
  <2>8. PartOf(w, f.hp)
    BY <2>5, <2>6, <2>7 DEF PartOf, Plain
  <2>9. Good(f.ob, f.hp, f.fr, held, stored, track)
    <3> DEFINE hp == f.hp
               fr == f.fr
    <3>1. Good(obj, hp, fr, held, stored, track) /\ PartOf(w, hp)
      BY <2>4, <2>8
    <3> HIDE DEF hp, fr
    <3>2. Good([obj EXCEPT ![o] = w], hp, fr, held, stored, track)
      BY <1>0, <3>1, PutPart
    <3> QED BY <2>2, <3>2 DEF hp, fr
  <2>10. \A n \in New : f.ob[n].class = "none"
    BY <1>0, <2>2 DEF New
  <2>11. f.ob[o].data = t
    BY <1>0, <2>2, <2>6
  <2>12. PartOf(create_album_full(t, FALSE), f.hp)
    BY <2>3, <2>5, NewPart
  <2>13. StillFreed(heap, f.hp)
    BY <1>0, <2>2, <2>3 DEF WithTree, Good, OwnerInv, StillFreed
  <2> QED BY <2>9, <2>10, <2>11, <2>12, <2>13
<1> QED BY <1>1, <1>2

(* What is read after it: of the old struct, or of NULL. *)
LEMMA AfterFetchIsSafe ==
    ASSUME MemoryInv, fault = "none", NEW o \in Obj, NEW f
    PROVE  /\ AfterFetch(o, f, ArtistDataFull_text_genres) \in {"none", "null", "freed"}
           /\ AfterFetch(o, f, ArtistDataFull_albums) \in {"none", "null", "freed"}
           /\ \/ AfterFetch(o, f, ArtistDataFull_text_genres) = "freed"
              \/ AfterFetch(o, f, ArtistDataFull_albums) = "freed"
              => \E u \in Tree : heap[u] = "freed"
<1>1. /\ Follow(obj[o].data) \in {"none", "freed"}
      /\ Follow(obj[o].data) = "freed" => \E u \in Tree : heap[u] = "freed"
  BY FollowIsSafe
<1>2. FollowString(Null) = "null" /\ Follow(Null) = fault
  BY DEF FollowString, Follow
<1> QED
  BY <1>1, <1>2 DEF AfterFetch, ArtistDataFull_text_genres, ArtistDataFull_albums

(* The stored playlists: fetched once, the list owning the tree it got. *)
LEMMA RootListFetch ==
    ASSUME MemoryInv, NEW o \in Obj, Uses(o, "RootList"), NEW f \in RootList_fetch(o)
    PROVE  /\ Good(f.ob, f.hp, f.fr, held, stored, track)
           /\ f.ob[o].class = "RootList"
           /\ StillFreed(heap, f.hp)
<1>0. /\ obj[o].class = "RootList" /\ obj[o] \in ObjType /\ WrapperInv(obj[o])
      /\ obj \in [Obj -> ObjType]
      /\ Good(obj, heap, from, held, stored, track)
  BY DEF Uses, MemoryInv, Good, ObjectsInv
<1>1. CASE obj[o].loaded
  <2>1. f.ob = obj /\ f.hp = heap /\ f.fr = from
    BY <1>1 DEF RootList_fetch
  <2> QED BY <1>0, <2>1 DEF StillFreed
<1>2. CASE ~obj[o].loaded
  <2>1. PICK t \in Answers, p \in New :
           f = [ob |-> playlists_to_list(o, t, p), hp |-> WithTree(t),
                fr |-> FromCall(t, "rootlist")]
    BY <1>2 DEF RootList_fetch
  <2>2. obj[o].data = Null
    BY <1>0, <1>2 DEF WrapperInv
  <2>3. p \in Obj /\ obj[p].class = "none" /\ o # p
    BY <1>0 DEF New
  <2>4. CASE t = Null
    <3> DEFINE w == [obj[o] EXCEPT !.loaded = TRUE]
    <3>1. f.ob = [obj EXCEPT ![o] = w] /\ f.hp = heap /\ f.fr = from
      BY <1>0, <2>1, <2>4 DEF playlists_to_list, WithTree, FromCall
    <3>2. /\ w \in ObjType /\ w.class = "RootList" /\ w.data = Null
          /\ w.refs = obj[o].refs /\ w.take_owner = obj[o].take_owner
      BY <1>0, <2>2 DEF ObjType
    <3>3. WrapperInv(w)
      BY <1>0, <3>2 DEF WrapperInv, Plain
    <3>4. \A x \in w.refs : obj[x].class = "Playlist"
      BY <1>0, <3>2 DEF Good, ObjectsInv, RefsInv
    <3> HIDE DEF w
    <3>5. Good([obj EXCEPT ![o] = w], heap, from, held, stored, track)
      BY <1>0, <2>2, <3>2, <3>3, <3>4, PutTreeless
    <3>6. [obj EXCEPT ![o] = w][o] = w
      BY <1>0
    <3> QED BY <3>1, <3>2, <3>5, <3>6 DEF StillFreed
  <2>5. CASE t # Null
    <3> DEFINE w == [obj[o] EXCEPT !.data = t, !.loaded = TRUE, !.refs = {p}]
    <3>1. /\ f.ob = [obj EXCEPT ![o] = w, ![p] = create_playlist(t, FALSE)]
          /\ f.hp = [heap EXCEPT ![t] = "live"] /\ f.fr = [from EXCEPT ![t] = "rootlist"]
      BY <1>0, <2>1, <2>5 DEF playlists_to_list, WithTree, FromCall
    <3>2. t \in Tree /\ heap[t] = "unused"
      BY <2>1, <2>5 DEF Answers, Unused
    <3>3. /\ w \in ObjType /\ w.class = "RootList" /\ w.data = t /\ w.loaded
          /\ w.refs = {p} /\ w.take_owner = obj[o].take_owner
      BY <1>0, <2>3, <3>2 DEF ObjType
    <3>4. WrapperInv(w)
      BY <1>0, <3>3 DEF WrapperInv, Plain
    <3> HIDE DEF w
    <3>5. Good([obj EXCEPT ![o] = w, ![p] = create_playlist(t, FALSE)],
               [heap EXCEPT ![t] = "live"], [from EXCEPT ![t] = "rootlist"],
               held, stored, track)
      BY <1>0, <2>2, <2>3, <3>2, <3>3, <3>4, PutOwner
    <3>6. [obj EXCEPT ![o] = w, ![p] = create_playlist(t, FALSE)][o] = w
      BY <1>0, <2>3
    <3>7. StillFreed(heap, f.hp)
      BY <1>0, <3>1, <3>2 DEF Good, OwnerInv, StillFreed
    <3> QED BY <3>1, <3>3, <3>5, <3>6, <3>7
  <2> QED BY <2>4, <2>5
<1> QED BY <1>1, <1>2

(* A new object that the program keeps, of a memory in good order. *)
LEMMA HoldNew ==
    ASSUME NEW ob, NEW hp, NEW fr, NEW st, NEW n \in Obj, ob[n].class # "none",
           Good(ob, hp, fr, held, st, track),
           Settle(ob, hp, held \union {n}, st), from' = fr, UNCHANGED track
    PROVE  /\ MemoryInv'
           /\ StillFreed(hp, heap')
<1>1. Good(ob, hp, fr, held \union {n}, st, track)
  BY HoldKeeps
<1> QED BY <1>1, SettledStep

LEMMA ArtistStep ==
    ASSUME SafeInv, fault = "none", NEW o \in Obj, Artist_text(o) \/ Artist_albums(o)
    PROVE  SafeInv'
<1>1. CASE Artist_text(o)
  <2>1. PICK f \in Artist_get_full_data(o) :
           /\ Settle(f.ob, f.hp, held, stored) /\ from' = f.fr
           /\ fault' = AfterFetch(o, f, ArtistDataFull_text_genres)
    BY <1>1 DEF Artist_text
  <2>2. /\ Good(f.ob, f.hp, f.fr, held, stored, track)
        /\ StillFreed(heap, f.hp)
    BY <1>1, ArtistFetch DEF Artist_text, SafeInv
  <2>3. /\ MemoryInv'
        /\ StillFreed(heap, heap')
    BY <1>1, <2>1, <2>2, SettledStep DEF Artist_text, StillFreed
  <2> QED BY <2>1, <2>3, AfterFetchIsSafe DEF SafeInv, FaultInv, StillFreed
<1>2. CASE Artist_albums(o)
  <2>1. PICK f \in Artist_get_full_data(o) :
           /\ \/ Settle(f.ob, f.hp, held, stored)
              \/ /\ f.ob[o].data # Null
                 /\ \E n \in New :
                      Settle([f.ob EXCEPT ![n] = create_album_full(f.ob[o].data, FALSE)],
                             f.hp, held \union {n}, stored)
           /\ from' = f.fr
           /\ fault' = AfterFetch(o, f, ArtistDataFull_albums)
    BY <1>2 DEF Artist_albums
  <2>2. UNCHANGED track /\ Uses(o, "Artist")
    BY <1>2 DEF Artist_albums
  <2>3. /\ Good(f.ob, f.hp, f.fr, held, stored, track)
        /\ \A n \in New : f.ob[n].class = "none"
        /\ PartOf(create_album_full(f.ob[o].data, FALSE), f.hp)
        /\ StillFreed(heap, f.hp)
    BY <2>2, ArtistFetch DEF SafeInv
  <2>4. CASE Settle(f.ob, f.hp, held, stored)
    <3>1. /\ MemoryInv'
          /\ StillFreed(heap, heap')
      BY <2>1, <2>2, <2>3, <2>4, SettledStep DEF StillFreed
    <3> QED BY <2>1, <3>1, AfterFetchIsSafe DEF SafeInv, FaultInv, StillFreed
  <2>5. CASE \E n \in New :
                Settle([f.ob EXCEPT ![n] = create_album_full(f.ob[o].data, FALSE)],
                       f.hp, held \union {n}, stored)
    <3> DEFINE ob == f.ob
               hp == f.hp
               fr == f.fr
               album == create_album_full(f.ob[o].data, FALSE)
    <3>1. PICK n \in New : Settle([ob EXCEPT ![n] = album], hp, held \union {n}, stored)
      BY <2>5
    <3>2. /\ Good(ob, hp, fr, held, stored, track) /\ ob[n].class = "none" /\ n \in Obj
          /\ PartOf(album, hp) /\ from' = fr
          /\ StillFreed(heap, hp)
      BY <2>1, <2>3, <3>1 DEF New
    <3> HIDE DEF ob, hp, fr, album
    <3> DEFINE new == [ob EXCEPT ![n] = album]
    <3>3. Good(new, hp, fr, held, stored, track)
      BY <3>2, PutPart
    <3>4. new[n].class # "none"
      BY <3>2 DEF Good, ObjectsInv, PartOf, Plain
    <3>5. Settle(new, hp, held \union {n}, stored)
      BY <3>1
    <3> HIDE DEF new
    <3>6. /\ MemoryInv'
          /\ StillFreed(heap, heap')
      BY <2>2, <3>2, <3>3, <3>4, <3>5, HoldNew DEF StillFreed
    <3> QED BY <2>1, <3>6, AfterFetchIsSafe DEF SafeInv, FaultInv, StillFreed
  <2> QED BY <2>1, <2>4, <2>5
<1> QED BY <1>1, <1>2

LEMMA RootListStep ==
    ASSUME SafeInv, fault = "none", NEW o \in Obj,
           \/ RootList_len(o) \/ RootList_getitem(o) \/ RootList_repr(o) \/ RootList_iter(o)
    PROVE  SafeInv'
<1> DEFINE iterator == RootIterator_init(o)
<1>1. PICK f \in RootList_fetch(o) :
         /\ from' = f.fr
         /\ \/ Settle(f.ob, f.hp, held, stored)
            \/ Settle(f.ob, f.hp, held \union f.ob[o].refs, stored)
            \/ \E n \in New : f.ob[n].class = "none" /\
                  Settle([f.ob EXCEPT ![n] = iterator], f.hp, held \union {n}, stored)
  BY DEF RootList_len, RootList_getitem, RootList_repr, RootList_iter
<1>2. /\ Uses(o, "RootList") /\ UNCHANGED track
      /\ fault' = fault \/ fault' = Follow(obj[o].data)
  BY DEF RootList_len, RootList_getitem, RootList_repr, RootList_iter
<1> DEFINE ob == f.ob
           hp == f.hp
           fr == f.fr
<1>3. /\ Good(ob, hp, fr, held, stored, track) /\ ob[o].class = "RootList"
      /\ StillFreed(heap, hp)
  BY <1>2, RootListFetch DEF SafeInv
<1>4. /\ from' = fr
      /\ \/ Settle(ob, hp, held, stored)
         \/ Settle(ob, hp, held \union ob[o].refs, stored)
         \/ \E n \in New : ob[n].class = "none" /\
               Settle([ob EXCEPT ![n] = iterator], hp, held \union {n}, stored)
  BY <1>1
<1> HIDE DEF ob, hp, fr
<1>5. /\ fault' \in {"none", "null", "freed"}
      /\ fault' = "freed" => \E u \in Tree : hp[u] = "freed"
  BY <1>2, <1>3, FollowIsSafe DEF SafeInv, StillFreed
<1> DEFINE Kept == MemoryInv' /\ StillFreed(hp, heap')
<1>6. ASSUME Settle(ob, hp, held, stored) PROVE Kept
  BY <1>2, <1>3, <1>4, <1>6, SettledStep
<1>7. ASSUME Settle(ob, hp, held \union ob[o].refs, stored) PROVE Kept
  <2> DEFINE more == ob[o].refs
  <2>1. more \subseteq Obj /\ \A p \in more : ob[p].class # "none"
    BY <1>3 DEF Good, ObjectsInv, ObjType, RefsInv
  <2>2. Settle(ob, hp, held \union more, stored)
    BY <1>7
  <2> HIDE DEF more
  <2>3. Good(ob, hp, fr, held \union more, stored, track)
    BY <1>3, <2>1, HoldKeeps
  <2> QED BY <1>2, <1>4, <2>2, <2>3, SettledStep
<1>8. ASSUME \E n \in New : ob[n].class = "none" /\
                Settle([ob EXCEPT ![n] = iterator], hp, held \union {n}, stored)
      PROVE  Kept
  <2>1. PICK n \in New : ob[n].class = "none" /\
              Settle([ob EXCEPT ![n] = iterator], hp, held \union {n}, stored)
    BY <1>8
  <2>2. n \in Obj
    BY <2>1 DEF New
  <2>3. /\ iterator \in ObjType /\ iterator.class = "RootIterator" /\ iterator.data = Null
        /\ iterator.refs = {o} /\ WrapperInv(iterator)
    BY DEF RootIterator_init, Wrapper, NoObj, ObjType, Classes, WrapperInv, Plain
  <2>4. ob \in [Obj -> ObjType] /\ ob[n].data = Null
    BY <1>3, <2>1, <2>2, NoObjType DEF Good, ObjectsInv, WrapperInv
  <2> HIDE DEF iterator
  <2> DEFINE new == [ob EXCEPT ![n] = iterator]
  <2>5. Good(new, hp, fr, held, stored, track)
    BY <1>3, <2>1, <2>2, <2>3, <2>4, PutTreeless
  <2>6. new[n].class # "none"
    BY <2>2, <2>3, <2>4
  <2>7. Settle(new, hp, held \union {n}, stored)
    BY <2>1
  <2> HIDE DEF new
  <2> QED BY <1>2, <1>4, <2>2, <2>5, <2>6, <2>7, HoldNew
<1>9. Kept
  BY <1>4, <1>6, <1>7, <1>8
<1> QED BY <1>5, <1>9 DEF SafeInv, FaultInv, StillFreed

LEMMA RequestStep ==
    ASSUME SafeInv, fault = "none", NEW o \in Obj, Request(o)
    PROVE  SafeInv'
BY ArtistStep, RootListStep DEF Request, Artist_genres, RootList_contains

LEMMA LookupStep ==
    ASSUME SafeInv, fault = "none", Spytify_lookup
    PROVE  SafeInv'
<1>0. PICK t \in Answers, n \in New, kind \in {"artist", "album", "track"} :
         LET v == CASE kind = "artist" -> create_artist_full(t, FALSE)
                    [] kind = "album"  -> create_album_full(t, FALSE)
                    [] kind = "track"  -> create_track(t)
         IN  /\ Settle([obj EXCEPT ![n] = v], WithTree(t),
                       IF v = NoObj THEN held ELSE held \union {n}, stored)
             /\ from' = FromCall(t, "lookup")
  BY DEF Spytify_lookup
<1>1. PICK w \in {create_artist_full(t, FALSE), create_album_full(t, FALSE), create_track(t)} :
         /\ Settle([obj EXCEPT ![n] = w], WithTree(t),
                   IF w = NoObj THEN held ELSE held \union {n}, stored)
         /\ from' = FromCall(t, "lookup")
  <2>1. CASE kind = "artist"
    BY <1>0, <2>1
  <2>2. CASE kind = "album"
    BY <1>0, <2>2
  <2>3. CASE kind = "track"
    BY <1>0, <2>3
  <2> QED BY <2>1, <2>2, <2>3
<1>2. UNCHANGED <<track, fault>>
  BY DEF Spytify_lookup
<1> DEFINE hp == WithTree(t)
           fr == FromCall(t, "lookup")
           new == [obj EXCEPT ![n] = w]
<1>3. t \in Tree \union {Null} /\ (t # Null => t \in Tree /\ heap[t] = "unused")
  BY <1>1 DEF Answers, Unused
<1>4. n \in Obj /\ obj[n].class = "none" /\ obj[n] = NoObj /\ obj \in [Obj -> ObjType]
  BY <1>1 DEF New, SafeInv, MemoryInv, Good, ObjectsInv, WrapperInv
<1>5. Good(obj, heap, from, held, stored, track)
  BY DEF SafeInv, MemoryInv
<1>6. Good(obj, hp, fr, held, stored, track)
  <2>1. CASE t = Null
    BY <1>5, <2>1 DEF WithTree, FromCall
  <2>2. CASE t # Null
    BY <1>3, <1>5, <2>2, LookupKeeps DEF WithTree, FromCall
  <2> QED BY <2>1, <2>2
<1>7. t # Null => hp[t] = "live"
  BY <1>3, <1>5 DEF WithTree, Good, OwnerInv
<1>8. /\ Settle(new, hp, IF w = NoObj THEN held ELSE held \union {n}, stored)
      /\ from' = fr
  BY <1>1
<1>9. FaultInv'
  BY <1>2 DEF SafeInv, FaultInv
<1> HIDE DEF hp, fr
<1>10. CASE w = NoObj
  <2>1. new = obj
    BY <1>4, <1>10
  <2>2. Settle(obj, hp, held, stored)
    BY <1>8, <1>10, <2>1
  <2> QED BY <1>2, <1>6, <1>8, <1>9, <2>2, SettledStep DEF SafeInv
<1>11. CASE w # NoObj
  <2>1. /\ w \in {create_album_full(t, FALSE), create_track(t)}
        /\ (t = Null => w = create_album_full(t, FALSE))
    BY <1>1, <1>11 DEF create_artist_full, create_artist, create_track
  <2>2. PartOf(w, hp)
    BY <1>3, <1>7, <2>1, NewPart
  <2>3. Good(new, hp, fr, held, stored, track)
    BY <1>4, <1>6, <2>2, PutPart
  <2>4. new[n].class # "none"
    BY <1>4, <2>2 DEF PartOf, Plain
  <2>5. Settle(new, hp, held \union {n}, stored)
    BY <1>8, <1>11
  <2> HIDE DEF new
  <2> QED BY <1>2, <1>4, <1>8, <1>9, <2>3, <2>4, <2>5, HoldNew DEF SafeInv
<1> QED BY <1>10, <1>11

LEMMA SearchStep ==
    ASSUME SafeInv, fault = "none", Spytify_search
    PROVE  SafeInv'
<1>1. PICK t \in Unused, s \in New, p \in New :
         /\ s # p
         /\ Settle([obj EXCEPT ![s] = create_search_result(t, p, TRUE),
                               ![p] = create_playlist(t, FALSE)],
                   WithTree(t), held \union {s}, stored)
         /\ from' = FromCall(t, "search")
  BY DEF Spytify_search
<1>2. UNCHANGED <<track, fault>>
  BY DEF Spytify_search
<1> DEFINE w == create_search_result(t, p, TRUE)
           new == [obj EXCEPT ![s] = w, ![p] = create_playlist(t, FALSE)]
           hp == [heap EXCEPT ![t] = "live"]
           fr == [from EXCEPT ![t] = "search"]
<1>3. /\ t \in Tree /\ t # Null /\ heap[t] = "unused"
      /\ s \in Obj /\ obj[s].class = "none" /\ p \in Obj /\ obj[p].class = "none"
  BY <1>1, NullAssumption DEF Unused, New
<1>4. /\ obj \in [Obj -> ObjType] /\ obj[s].data = Null
      /\ Good(obj, heap, from, held, stored, track)
  BY <1>3, NoObjType DEF SafeInv, MemoryInv, Good, ObjectsInv, WrapperInv
<1>5. /\ w \in ObjType /\ w.class = "SearchResult" /\ w.data = t /\ w.refs = {p}
      /\ w.take_owner
  BY <1>3 DEF create_search_result, Wrapper, NoObj, ObjType, Classes
<1>6. WrapperInv(w)
  BY <1>3, <1>5 DEF WrapperInv, Plain
<1>7. Settle(new, hp, held \union {s}, stored) /\ from' = fr
  BY <1>1, <1>3 DEF WithTree, FromCall
<1> HIDE DEF w
<1>8. Good(new, hp, fr, held, stored, track)
  <2>1. w.class \in {"SearchResult", "RootList"} /\ obj[s].class \in {"none", w.class}
    BY <1>3, <1>5
  <2>2. "search" \in {"search", "rootlist"} /\ s # p
    BY <1>1
  <2> QED BY <1>3, <1>4, <1>5, <1>6, <2>1, <2>2, PutOwner
<1>9. new[s].class # "none"
  BY <1>1, <1>3, <1>4, <1>5
<1> HIDE DEF new, hp, fr
<1>10. MemoryInv'
  BY <1>2, <1>3, <1>7, <1>8, <1>9, HoldNew
<1> QED BY <1>2, <1>10 DEF SafeInv, FaultInv

(* An empty list of stored playlists, which the library keeps from now on. *)
LEMMA NewRootList ==
    ASSUME MemoryInv, NEW n \in New
    PROVE  /\ Good([obj EXCEPT ![n] = create_rootlist], heap, from, held, n, track)
           /\ [obj EXCEPT ![n] = create_rootlist][n].class # "none"
<1> DEFINE new == [obj EXCEPT ![n] = create_rootlist]
<1>1. n \in Obj /\ obj[n].class = "none"
  BY DEF New
<1>2. /\ obj \in [Obj -> ObjType] /\ obj[n].data = Null
      /\ Good(obj, heap, from, held, stored, track)
  BY <1>1, NoObjType DEF MemoryInv, Good, ObjectsInv, WrapperInv
<1>3. /\ create_rootlist \in ObjType /\ create_rootlist.class = "RootList"
      /\ create_rootlist.data = Null /\ create_rootlist.refs = {} /\ WrapperInv(create_rootlist)
  BY DEF create_rootlist, Wrapper, NoObj, ObjType, Classes, WrapperInv, Plain
<1>4. Good(new, heap, from, held, stored, track)
  BY <1>1, <1>2, <1>3, PutTreeless
<1>5. new[n].class = "RootList"
  BY <1>1, <1>2, <1>3
<1> HIDE DEF new
<1>6. RootsInv(new, held, n)
  BY <1>1, <1>4, <1>5 DEF Good, RootsInv
<1>7. Good(new, heap, from, held, n, track)
  BY <1>4, <1>6 DEF Good
<1> QED BY <1>5, <1>7 DEF new

LEMMA CallStep ==
    ASSUME SafeInv, fault = "none", Call
    PROVE  SafeInv'
<1>1. CASE Spytify_stored_playlists
  <2>1. FaultInv' /\ UNCHANGED <<from, track>>
    BY <1>1 DEF Spytify_stored_playlists, SafeInv, FaultInv
  <2>2. CASE stored # Null
    <3>1. Settle(obj, heap, held \union {stored}, stored)
      BY <1>1, <2>2 DEF Spytify_stored_playlists
    <3>2. stored \in Obj /\ obj[stored].class # "none"
      BY <2>2 DEF SafeInv, MemoryInv, Good, RootsInv
    <3>3. Good(obj, heap, from, held, stored, track)
      BY DEF SafeInv, MemoryInv
    <3>4. MemoryInv'
      BY <2>1, <3>1, <3>2, <3>3, HoldNew
    <3> QED BY <2>1, <3>4 DEF SafeInv
  <2>3. CASE stored = Null
    <3>1. PICK n \in New :
             Settle([obj EXCEPT ![n] = create_rootlist], heap, held \union {n}, n)
      BY <1>1, <2>3 DEF Spytify_stored_playlists
    <3> DEFINE new == [obj EXCEPT ![n] = create_rootlist]
    <3>2. Good(new, heap, from, held, n, track) /\ new[n].class # "none"
      BY NewRootList DEF SafeInv
    <3>3. Settle(new, heap, held \union {n}, n) /\ n \in Obj
      BY <3>1 DEF New
    <3> HIDE DEF new
    <3> QED BY <2>1, <3>2, <3>3, HoldNew DEF SafeInv
  <2> QED BY <2>2, <2>3
<1>2. CASE Spytify_current_track
  <2>1. FaultInv' /\ UNCHANGED <<from, track>>
    BY <1>2 DEF Spytify_current_track, SafeInv, FaultInv
  <2>2. CASE track = Null
    BY <1>2, <2>1, <2>2, NothingKept DEF Spytify_current_track, SafeInv
  <2>3. CASE track # Null
    <3>1. PartOf(create_track(track), heap)
      BY <2>3, DataIsTree, NewPart DEF SafeInv
    <3> QED BY <1>2, <2>1, <2>3, <3>1, KeepsPart DEF Spytify_current_track, SafeInv
  <2> QED BY <2>2, <2>3
<1>3. CASE Spytify_flush_stored_playlists
  <2>1. FaultInv' /\ UNCHANGED <<from, track>>
    BY <1>3 DEF Spytify_flush_stored_playlists, SafeInv, FaultInv
  <2>2. PICK n \in New : Settle([obj EXCEPT ![n] = create_rootlist], heap, held, n)
    BY <1>3 DEF Spytify_flush_stored_playlists
  <2>3. Good([obj EXCEPT ![n] = create_rootlist], heap, from, held, n, track)
    BY NewRootList DEF SafeInv
  <2> QED BY <2>1, <2>2, <2>3, SettledStep DEF SafeInv
<1> QED BY <1>1, <1>2, <1>3, LookupStep, SearchStep DEF Call

(* The track of the library changes to that of a wrapper, or stays in its tree. *)
LEMMA TrackStep ==
    ASSUME SafeInv, UNCHANGED <<obj, heap, from, held, stored>>,
           track' \in {obj[o].data : o \in Obj} \union {track, Null}
    PROVE  MemoryInv'
<1>1. Good(obj, heap, from, held, stored, track)
  BY DEF SafeInv, MemoryInv
<1>2. TrackInv(heap, track')
  BY <1>1, DataIsTree DEF SafeInv, Good, TrackInv
<1>3. Good(obj, heap, from, held, stored, track')
  BY <1>1, <1>2 DEF Good
<1> QED BY <1>3 DEF MemoryInv

LEMMA PlayKeeps ==
    ASSUME SafeInv, fault = "none", NEW t \in {obj[o].data : o \in Obj} \union {Null},
           despotify_play(t)
    PROVE  SafeInv'
<1>1. UNCHANGED <<obj, heap, from, held, stored>>
  BY DEF despotify_play
<1>2. \/ track' = t /\ fault' = FollowString(t)
      \/ UNCHANGED <<track, fault>>
  BY DEF despotify_play
<1>3. MemoryInv'
  BY <1>1, <1>2, TrackStep
<1>4. FaultInv'
  BY <1>1, <1>2, FollowIsSafe DEF SafeInv, FaultInv
<1> QED BY <1>3, <1>4 DEF SafeInv

LEMMA NextTrackKeeps ==
    ASSUME SafeInv, fault = "none", Spytify_next \/ NextTrack
    PROVE  SafeInv'
<1>1. /\ UNCHANGED <<obj, heap, from, held, stored>>
      /\ track' \in {track, Null}
      /\ fault' = Follow(track) \/ fault' = "null"
  BY DEF Spytify_next, NextTrack
<1>2. MemoryInv'
  BY <1>1, TrackStep
<1>3. FaultInv'
  BY <1>1, FollowIsSafe DEF SafeInv, FaultInv
<1> QED BY <1>2, <1>3 DEF SafeInv

-----------------------------------------------------------------------------
(* The threads. *)

LEMMA ThreadStep == ThreadTypes /\ [Next]_vars => ThreadTypes'
<1> SUFFICES ASSUME ThreadTypes, [Next]_vars PROVE ThreadTypes'
  OBVIOUS
<1> USE DEF ThreadTypes, PcmTypeOK, PcmStates
<1>1. CASE Main
  <2>1. CASE UNCHANGED <<main, gil, pcmVars>>
    BY <2>1 DEF pcmVars
  <2>2. CASE Spytify_init
    BY <2>2 DEF Spytify_init, thread_init
  <2>3. CASE \E o \in Obj : Spytify_play(o) \/ Spytify_play_list(o)
    BY <2>3 DEF Spytify_play, Spytify_play_list, despotify_play, thread_play, Signalled, pcmVars
  <2>4. CASE Spytify_stop \/ Spytify_next
    BY <2>4 DEF Spytify_stop, vars, Spytify_next, NextTrack, pcmVars
  <2>5. CASE Spytify_pause \/ Spytify_resume
    BY <2>5 DEF Spytify_pause, Spytify_resume, thread_pause, thread_play, Signalled
  <2>6. CASE Spytify_close \/ despotify_exit
    BY <2>6 DEF Spytify_close, despotify_exit, thread_exit, Signalled, pcmVars
  <2> QED BY <1>1, <2>1, <2>2, <2>3, <2>4, <2>5, <2>6 DEF Main
<1>2. CASE Audio
  <2>1. CASE PcmLoop /\ UNCHANGED <<pyVars, main, gil>>
    BY <2>1 DEF PcmLoop, LoopStart, LoopSwitch, LoopWait, LoopPlay, LoopCallback
  <2>2. CASE callback_handler
    BY <2>2 DEF callback_handler, pcmVars
  <2>3. CASE Spytify_handle
    BY <2>3 DEF Spytify_handle
  <2> QED BY <1>2, <2>1, <2>2, <2>3 DEF Audio
<1>3. CASE despotify_substream_callback
  BY <1>3 DEF despotify_substream_callback, NextTrack, pcmVars
<1>4. CASE UNCHANGED vars
  BY <1>4 DEF vars
<1> QED BY <1>1, <1>2, <1>3, <1>4 DEF Next

LEMMA SafeStep == SafeInv /\ [Next]_vars => SafeInv'
<1> SUFFICES ASSUME SafeInv, [Next]_vars PROVE SafeInv'
  OBVIOUS
<1>1. CASE UNCHANGED pyVars
  BY <1>1 DEF pyVars, SafeInv, MemoryInv, FaultInv
<1>2. CASE fault = "none" /\ \E o \in Obj : Read(o) \/ Request(o)
  BY <1>2, ReadStep, RequestStep
<1>3. CASE fault = "none" /\ Call
  BY <1>3, CallStep
<1>4. CASE fault = "none" /\ \E o \in Obj : Spytify_play(o) \/ Spytify_play_list(o)
  BY <1>4, PlayKeeps DEF Spytify_play, Spytify_play_list
<1>5. CASE fault = "none" /\ (Spytify_next \/ NextTrack)
  BY <1>5, NextTrackKeeps
<1>6. CASE fault = "none" /\ Spytify_handle
  <2>1. CASE track # Null /\ Keeps(create_track(track)) /\ UNCHANGED <<from, track, fault>>
    <3>1. PartOf(create_track(track), heap)
      BY <2>1, DataIsTree, NewPart DEF SafeInv
    <3> QED BY <1>6, <2>1, <3>1, KeepsPart DEF SafeInv, FaultInv
  <2> QED BY <1>1, <1>6, <2>1 DEF Spytify_handle
<1>7. CASE Main
  <2>1. \/ fault = "none" /\ \E o \in Obj : Read(o) \/ Request(o)
        \/ fault = "none" /\ Call
        \/ Spytify_init
        \/ fault = "none" /\ \E o \in Obj : Spytify_play(o) \/ Spytify_play_list(o)
        \/ Spytify_stop \/ Spytify_pause \/ Spytify_resume
        \/ fault = "none" /\ Spytify_next
        \/ Spytify_close \/ despotify_exit \/ UNCHANGED pyVars
    BY <1>7 DEF Main, Next, vars, pyVars
  <2>2. Spytify_init \/ Spytify_stop \/ Spytify_pause \/ Spytify_resume \/ Spytify_close
          \/ despotify_exit => UNCHANGED pyVars
    BY DEF Spytify_init, Spytify_stop, Spytify_pause, Spytify_resume, Spytify_close,
           despotify_exit, vars, pyVars
  <2> QED BY <1>1, <1>2, <1>3, <1>4, <1>5, <2>1, <2>2
<1>8. CASE Audio
  BY <1>1, <1>6, <1>8 DEF Audio, callback_handler, Next, vars, pyVars
<1>9. CASE despotify_substream_callback
  BY <1>1, <1>5, <1>9 DEF despotify_substream_callback, Next, vars, pyVars
<1> QED BY <1>1, <1>7, <1>8, <1>9 DEF Next, vars, pyVars

LEMMA InitSafe == Init => SafeInv /\ ThreadTypes
<1> SUFFICES ASSUME Init PROVE SafeInv /\ ThreadTypes
  OBVIOUS
<1>1. /\ obj = [o \in Obj |-> NoObj]
      /\ heap = [t \in Tree |-> "unused"] /\ from = [t \in Tree |-> "none"]
      /\ held = {} /\ stored = Null /\ track = Null /\ fault = "none"
      /\ main = "run" /\ gil = "main" /\ play_state = "PAUSE" /\ pcm = "none"
  BY DEF Init, PcmInit
<1>2. ObjectsInv(obj)
  BY <1>1, NoObjType DEF ObjectsInv, RefsInv
<1>3. OwnerInv(obj, heap, from)
  BY <1>1, NoObjType DEF OwnerInv
<1>4. RootsInv(obj, held, stored) /\ TrackInv(heap, track)
  BY <1>1, NoObjType DEF RootsInv, TrackInv
<1>5. FaultInv
  BY <1>1 DEF FaultInv
<1>6. ThreadTypes
  BY <1>1 DEF ThreadTypes, PcmTypeOK, PcmStates
<1> QED BY <1>2, <1>3, <1>4, <1>5, <1>6 DEF SafeInv, MemoryInv, Good

LEMMA Safe == Spec => [](SafeInv /\ ThreadTypes)
BY InitSafe, SafeStep, ThreadStep, PTL DEF Spec

(* In whatever order wrappers are dropped and collected, whichever requests    *)
(* fail and callbacks come in between, and whether or not the program keeps    *)
(* the owners: no tree is freed twice, and a live tree of a search or of the   *)
(* stored playlists still has the object that will free it.                    *)
THEOREM EveryTreeFreedOnce == Spec => []FreedExactlyOnce
<1>1. SafeInv /\ ThreadTypes => FreedExactlyOnce
  <2> SUFFICES ASSUME SafeInv, ThreadTypes PROVE FreedExactlyOnce
    OBVIOUS
  <2>0. /\ ObjectsInv(obj) /\ OwnerInv(obj, heap, from) /\ RootsInv(obj, held, stored)
        /\ TrackInv(heap, track) /\ FaultInv
    BY DEF SafeInv, MemoryInv, Good
  <2>1. ASSUME NEW o \in Obj
        PROVE  /\ obj[o].class \in Classes \union {"none"}
               /\ obj[o].data \in Tree \union {Null}
               /\ obj[o].refs \subseteq {p \in Obj : obj[p].class \in {"Playlist", "RootList"}}
    <3>1. obj[o] \in ObjType /\ WrapperInv(obj[o])
      BY <2>0 DEF ObjectsInv
    <3>2. obj[o].refs # {} => obj[o].class \in {"SearchResult", "RootList", "RootIterator"}
      BY <3>1, NoObjType DEF ObjType, WrapperInv, Plain, Classes
    <3> QED BY <2>0, <3>1, <3>2 DEF ObjType, ObjectsInv, RefsInv
  <2>2. heap \in [Tree -> {"unused", "live", "freed", "twice"}]
    BY <2>0 DEF OwnerInv
  <2>3. TypeOK
    BY <2>0, <2>1, <2>2 DEF TypeOK, OwnerInv, RootsInv, TrackInv, FaultInv, ThreadTypes
  <2>4. \A t \in Tree : heap[t] # "twice"
    BY <2>0 DEF OwnerInv
  <2>5. \A t \in Tree : heap[t] = "live" /\ from[t] \in {"search", "rootlist"} =>
           Owners(t) # {}
    BY <2>0 DEF OwnerInv, Owner, Owners
  <2> QED BY <2>3, <2>4, <2>5 DEF FreedExactlyOnce
<1> QED BY <1>1, Safe, PTL

(* Whatever the program drops, and whichever thread follows what: a pointer of *)
(* a wrapper or of the library dangles, or a read hits freed memory, only when *)
(* the search or the stored playlists that owned the tree have gone; what a    *)
(* lookup returned is never freed.                                             *)
THEOREM OnlyOwnerlessDangles == Spec => []DanglesOnlyWithoutOwner
<1>1. SafeInv => DanglesOnlyWithoutOwner
  <2> SUFFICES ASSUME SafeInv PROVE DanglesOnlyWithoutOwner
    OBVIOUS
  <2> DEFINE gone == {t \in Tree : from[t] \in {"search", "rootlist"} /\ Owners(t) = {}}
  <2>0. OwnerInv(obj, heap, from) /\ ObjectsInv(obj) /\ TrackInv(heap, track) /\ FaultInv
    BY DEF SafeInv, MemoryInv, Good
  <2>1. \A t \in Tree : \A o \in Owners(t) : heap[t] = "live"
    BY <2>0, NullAssumption DEF Owners, Owner, OwnerInv
  <2>2. \A t \in Tree : heap[t] = "freed" => t \in gone
    BY <2>0, <2>1 DEF OwnerInv
  <2>3. \A t \in Tree : (track = t \/ \E o \in Obj : obj[o].data = t) => heap[t] # "unused"
    BY <2>0, NullAssumption DEF OwnerInv, TrackInv
  <2>4. \A t \in Tree \ gone :
           (track = t \/ \E o \in Obj : obj[o].data = t) => heap[t] = "live"
    BY <2>0, <2>2, <2>3 DEF OwnerInv
  <2>5. fault = "freed" => gone # {}
    BY <2>0, <2>2 DEF FaultInv
  <2> QED BY <2>4, <2>5 DEF DanglesOnlyWithoutOwner
<1> QED BY <1>1, Safe, PTL
=============================================================================
