-------------------------- MODULE MemoryPoolProofs --------------------------
(***************************************************************************)
(* The invariants of MemoryPool, proved for any number of threads, images  *)
(* and buffers and any sizes.                                              *)
(***************************************************************************)
EXTENDS MemoryPool, FiniteSetTheorems, WellFoundedInduction, TLAPS


Chosen     == {"addRef", "count", "referenced", "return"}
Creating   == {t \in Threads : pc[t] \notin Chosen \cup {"idle", "throw", "put"}}

(* Images and calls know buffers that have been created; the others are    *)
(* untouched.                                                              *)
BuffersExist ==
  /\ \A i \in Images : imgBuf[i] # None => imgBuf[i] <= count
  /\ \A t \in Threads :
       /\ pc[t] \in Chosen => pick[t] \in Buffers /\ pick[t] <= count
       /\ pc[t] = "put" => elem[t] \in Images
  /\ \A b \in Buffers : b > count => b \notin used /\ b \notin unused /\ allDatas[b] = 0

(* The calls that may still create a buffer have room for it. *)
RoomForNew == count + Cardinality(Creating) <= MaxBuffers

(* An image dies once, at the hands of one thread, which does not count a  *)
(* reference of its own meanwhile.                                         *)
DieOnce ==
  /\ \A t \in Threads :
       /\ doomed[t] \subseteq Live
       /\ dying[t] # None => dying[t] \in Live
       /\ counted[t] => dying[t] # None
       /\ pc[t] = "count" => doomed[t] = {} /\ dying[t] = None
  /\ \A t, u \in Threads :
       /\ \A i \in doomed[t] : dying[u] # i /\ (i \in doomed[u] => t = u)
       /\ dying[t] # None /\ dying[t] = dying[u] => t = u

(* Until calls of allocate overlap ...                                     *)
OneCall == \A t, u \in Threads : pc[t] # "idle" /\ pc[u] # "idle" => t = u

(* ... images have memory of their own, counted once until it is given     *)
(* back, and in use ...                                                    *)
OwnMemory ==
  /\ \A i, j \in Images : imgBuf[i] # None /\ imgBuf[i] = imgBuf[j] => i = j
  /\ \A i \in Live : /\ imgBuf[i] \in used /\ imgBuf[i] \notin unused
                     /\ i \in CountedOut => refCount[imgBuf[i]] = 0
                     /\ i \notin CountedOut => refCount[imgBuf[i]] = 1

(* ... the buffer the call has chosen is nobody's: it is unused, or new,   *)
(* until it is counted and registered ...                                  *)
ChosenIsFree ==
  \A t \in Threads : pc[t] \in Chosen =>
    /\ \A i \in Images : imgBuf[i] # pick[t]
    /\ pc[t] \in {"addRef", "count"} => refCount[pick[t]] = 0
    /\ pc[t] \in {"referenced", "return"} => refCount[pick[t]] = 1
    /\ pc[t] = "return" => pick[t] \in used /\ pick[t] \notin unused
    /\ pc[t] # "return" =>
         pick[t] \notin used /\ (pick[t] \in unused \/ allDatas[pick[t]] = 0)

(* ... what a thread has read of a count is what the count is when it      *)
(* writes it back ...                                                      *)
ReadIsCurrent ==
  \A t \in Threads : /\ pc[t] = "count" => reg[t] = 0
                     /\ dying[t] # None /\ ~counted[t] => reg[t] = 1

(* ... and the other buffers have no references and are not in use.        *)
OthersFree ==
  \A b \in Buffers :
    /\ \A i \in Images : imgBuf[i] # b
    /\ \A t \in Threads : pc[t] \in {"referenced", "return"} => pick[t] # b
    => refCount[b] = 0 /\ b \notin used

Exact == OneCall /\ OwnMemory /\ ChosenIsFree /\ ReadIsCurrent /\ OthersFree /\ ReallyNewData

PoolInv ==
  /\ TypeOK
  /\ BuffersExist
  /\ RoomForNew
  /\ DieOnce
  /\ ~overlap => Exact

-----------------------------------------------------------------------------
(* Types.                                                                  *)

LEMMA BufferIsNumber ==
  ASSUME NEW b \in Buffers
  PROVE  b \in Nat /\ b # None
BY PoolAssumption DEF Buffers

LEMMA OrphansAreLive ==
  ASSUME NEW c, NEW h, NEW e
  PROVE  Orphans(c, h, e) \in SUBSET (Live \ Dying) /\ Orphans(c, h, e) \in SUBSET Images
BY DEF Orphans, Live

LEMMA CreatingFinite ==
  /\ IsFiniteSet(Creating) /\ Cardinality(Creating) \in Nat
  /\ IsFiniteSet(Busy) /\ Cardinality(Busy) \in Nat
  /\ Creating \subseteq Busy /\ Cardinality(Creating) <= Cardinality(Busy)
<1>1. Creating \in SUBSET Threads /\ Busy \in SUBSET Threads /\ Creating \in SUBSET Busy
  BY DEF Creating, Busy
<1>2. IsFiniteSet(Creating) /\ IsFiniteSet(Busy)
  BY <1>1, FS_Subset, PoolAssumption
<1> QED BY <1>1, <1>2, FS_CardinalityType, FS_Subset

(* A thread that is about to create a buffer has room for it. *)
LEMMA RoomLeft ==
  ASSUME TypeOK, RoomForNew, NEW t \in Threads, pc[t] = "new"
  PROVE  count + 1 \in Buffers
<1>1. Creating # {}
  BY DEF Creating, Chosen
<1>2. Cardinality(Creating) \in Nat /\ Cardinality(Creating) # 0
  BY <1>1, CreatingFinite, FS_EmptySet
<1>3. count \in Nat /\ MaxBuffers \in Nat
  BY PoolAssumption DEF TypeOK
<1> QED BY <1>2, <1>3 DEF RoomForNew, Buffers

LEMMA RequestIsNatural ==
  ASSUME TypeOK, NEW t \in Threads
  PROVE  req[t] \in Nat
<1>1. req[t] \in Sizes \cup {0}
  BY DEF TypeOK
<1>2. req[t] \in Sizes => req[t] \in Nat
  BY PoolAssumption
<1>3. req[t] = 0 => req[t] \in Nat
  OBVIOUS
<1> QED BY <1>1, <1>2, <1>3

LEMMA DoomTypes ==
  ASSUME TypeOK, NEW t \in Threads, NEW dead \in SUBSET Images, Doom(t, dead)
  PROVE  /\ doomed' \in [Threads -> SUBSET Images]
         /\ dying' \in [Threads -> Images \cup {None}] /\ counted' \in [Threads -> BOOLEAN]
BY DEF Doom, TypeOK

LEMMA DoomLockedTypes ==
  ASSUME TypeOK, NEW t \in Threads, NEW dead \in SUBSET Images, DoomLocked(t, dead)
  PROVE  /\ doomed' \in [Threads -> SUBSET Images]
         /\ dying' \in [Threads -> Images \cup {None}] /\ counted' \in [Threads -> BOOLEAN]
         /\ cacheLock' \in Threads \cup {None}
<1>1. Doom(t, dead) /\ cacheLock' \in Threads \cup {None}
  BY DEF DoomLocked
<1> QED BY <1>1, DoomTypes

LEMMA GoneTypes ==
  ASSUME TypeOK, NEW t \in Threads, Gone(t)
  PROVE  /\ imgBuf' \in [Images -> Buffers \cup {None}] /\ hostRefs' \in [Images -> Nat]
         /\ cached' \subseteq Images /\ held' \subseteq Images
         /\ doomed' \in [Threads -> SUBSET Images]
         /\ dying' \in [Threads -> Images \cup {None}] /\ counted' \in [Threads -> BOOLEAN]
         /\ cacheLock' \in Threads \cup {None}
BY DEF Gone, TypeOK

LEMMA TypesStep ==
  ASSUME PoolInv, [Next]_vars
  PROVE  TypeOK'
<1>0. TypeOK /\ BuffersExist /\ RoomForNew /\ DieOnce
  BY DEF PoolInv
<1>1. ASSUME NEW t \in Threads, NEW sz \in Sizes, Allocate(t, sz)
      PROVE  TypeOK'
  BY <1>0, <1>1 DEF TypeOK, Allocate, At, Goto, PCs, poolVars, imageVars, deathVars
<1>2. ASSUME NEW t \in Threads, TryReuse(t) \/ RetryReuse(t)
      PROVE  TypeOK'
  BY <1>0, <1>2 DEF TypeOK, TryReuse, RetryReuse, FindUnused, BestUnused, Goto, PCs, poolVars,
              imageVars, deathVars, history
<1>3. ASSUME NEW t \in Threads, ScanCache(t)
      PROVE  TypeOK'
  BY <1>0, <1>3 DEF TypeOK, ScanCache, BestEvictable, Goto, PCs, poolVars, imageVars, deathVars,
                    history
<1>4. ASSUME NEW t \in Threads, RemoveFromCache(t)
      PROVE  TypeOK'
  BY <1>0, <1>4 DEF TypeOK, RemoveFromCache, Goto, PCs, poolVars, deathVars, history
<1>5. ASSUME NEW t \in Threads, CheckAvailable(t) \/ RecheckAvailable(t) \/ LastCheck(t)
      PROVE  TypeOK'
  <2>1. PICK l \in PCs : pc' = [pc EXCEPT ![t] = l]
    BY <1>5 DEF CheckAvailable, RecheckAvailable, LastCheck, Check, Goto, PCs
  <2>2. UNCHANGED <<poolVars, imageVars, req, pick, elem, reg, deathVars, history>>
    BY <1>5 DEF CheckAvailable, RecheckAvailable, LastCheck, Check
  <2> QED BY <1>0, <2>1, <2>2 DEF TypeOK, poolVars, imageVars, deathVars, history
<1>6. ASSUME NEW t \in Threads, Clear(t)
      PROVE  TypeOK'
  BY <1>0, <1>6 DEF TypeOK, Clear, Goto, PCs, imageVars, deathVars, history
<1>7. ASSUME NEW t \in Threads, NewData(t)
      PROVE  TypeOK'
  <2>1. count + 1 \in Buffers
    BY <1>0, <1>7, RoomLeft DEF NewData, At
  <2>2. count' \in 0 .. MaxBuffers /\ reserved' \in [Buffers -> Nat]
    <3>1. req[t] \in Nat
      BY <1>0, RequestIsNatural
    <3>2. reserved' \in [Buffers -> Nat]
      BY <1>0, <1>7, <3>1 DEF NewData, TypeOK
    <3>3. count' \in 0 .. MaxBuffers
      BY <1>7, <2>1, PoolAssumption DEF NewData, Buffers
    <3> QED BY <3>2, <3>3
  <2>3. pick' \in [Threads -> Buffers \cup {None}] /\ pc' \in [Threads -> PCs]
    BY <1>0, <1>7, <2>1 DEF NewData, TypeOK, Goto, PCs
  <2> QED BY <1>0, <1>7, <2>2, <2>3 DEF NewData, TypeOK, imageVars, deathVars, history
<1>8. ASSUME NEW t \in Threads, AddRef(t) \/ Count(t)
      PROVE  TypeOK'
  <2>1. pick[t] \in Buffers /\ req[t] \in Nat
    <3>1. pc[t] \in Chosen
      BY <1>8 DEF AddRef, Count, At, Chosen
    <3> QED BY <1>0, <3>1, RequestIsNatural DEF BuffersExist
  <2>2. pc' \in [Threads -> PCs]
    BY <1>0, <1>8 DEF AddRef, Count, TypeOK, Goto, PCs
  <2>3. CASE AddRef(t)
    <3>1. size' \in [Buffers -> Nat] /\ reg' \in [Threads -> Int] /\ refCount' = refCount
      BY <1>0, <2>1, <2>3 DEF AddRef, TypeOK
    <3> QED BY <1>0, <2>2, <2>3, <3>1 DEF AddRef, TypeOK, imageVars, deathVars, history
  <2>4. CASE Count(t)
    <3>1. refCount' \in [Buffers -> Int] /\ reg' \in [Threads -> Int] /\ size' = size
      BY <1>0, <2>1, <2>4 DEF Count, TypeOK
    <3> QED BY <1>0, <2>2, <2>4, <3>1 DEF Count, TypeOK, imageVars, deathVars, history
  <2> QED BY <1>8, <2>3, <2>4
<1>9. ASSUME NEW t \in Threads, Referenced(t)
      PROVE  TypeOK'
  <2>1. pick[t] \in Buffers
    BY <1>0, <1>9 DEF Referenced, At, BuffersExist, Chosen
  <2>2. allDatas' \in [Buffers -> 0 .. 2] /\ used' \subseteq Buffers /\ unused' \subseteq Buffers
    BY <1>0, <1>9, <2>1 DEF Referenced, Registered, TypeOK
  <2>3. pc' \in [Threads -> PCs] /\ crossed' \in BOOLEAN
    BY <1>0, <1>9 DEF Referenced, TypeOK, Goto, PCs
  <2> QED BY <1>0, <1>9, <2>2, <2>3 DEF Referenced, TypeOK, imageVars, deathVars
<1>10. ASSUME NEW t \in Threads, ClearUnused(t) \/ ClearCache(t)
       PROVE  TypeOK'
  <2>1. PICK dead \in SUBSET Images : DoomLocked(t, dead)
    BY <1>10, OrphansAreLive DEF ClearUnused, ClearCache, ClearUnusedImages
  <2>2. /\ doomed' \in [Threads -> SUBSET Images]
        /\ dying' \in [Threads -> Images \cup {None}] /\ counted' \in [Threads -> BOOLEAN]
        /\ cacheLock' \in Threads \cup {None}
    BY <1>0, <2>1, DoomLockedTypes
  <2>3. /\ cached' \subseteq Images
        /\ UNCHANGED <<poolVars, imgBuf, hostRefs, held, req, pick, elem, reg, history>>
    BY <1>0, <1>10 DEF ClearUnused, ClearCache, ClearUnusedImages, TypeOK, callVars
  <2>4. pc' \in [Threads -> PCs]
    BY <1>0, <1>10 DEF ClearUnused, ClearCache, callVars, TypeOK, Goto, PCs
  <2> QED BY <1>0, <2>2, <2>3, <2>4 DEF TypeOK, poolVars, history
<1>11. ASSUME NEW t \in Threads, NEW i \in Images \cup {None}, Unwind(t, i),
              imgBuf' \in [Images -> Buffers \cup {None}], pc' \in [Threads -> PCs]
       PROVE  TypeOK'
  <2>1. PICK dead \in SUBSET Images : Doom(t, dead)
    BY <1>11, OrphansAreLive DEF Unwind
  <2>2. /\ doomed' \in [Threads -> SUBSET Images]
        /\ dying' \in [Threads -> Images \cup {None}] /\ counted' \in [Threads -> BOOLEAN]
    BY <1>0, <2>1, DoomTypes
  <2>3. /\ elem' \in [Threads -> Images \cup {None}] /\ pick' \in [Threads -> Buffers \cup {None}]
        /\ req' \in [Threads -> Sizes \cup {0}]
        /\ UNCHANGED <<poolVars, hostRefs, cached, held, reg, cacheLock, history>>
    BY <1>0, <1>11 DEF Unwind, TypeOK
  <2> QED BY <1>0, <1>11, <2>2, <2>3 DEF TypeOK, poolVars, history
<1>12. ASSUME NEW t \in Threads, Return(t)
       PROVE  TypeOK'
  <2>1. PICK i \in Images : imgBuf' = [imgBuf EXCEPT ![i] = pick[t]] /\ Unwind(t, i)
    BY <1>12 DEF Return
  <2>2. imgBuf' \in [Images -> Buffers \cup {None}] /\ pc' \in [Threads -> PCs]
    BY <1>0, <1>12, <2>1 DEF Return, TypeOK, Goto, PCs
  <2> QED BY <1>11, <2>1, <2>2
<1>13. ASSUME NEW t \in Threads, Throw(t)
       PROVE  TypeOK'
  <2>1. imgBuf' \in [Images -> Buffers \cup {None}] /\ pc' \in [Threads -> PCs]
    BY <1>0, <1>13 DEF Throw, TypeOK, Goto, PCs
  <2> QED BY <1>11, <1>13, <2>1 DEF Throw
<1>14. ASSUME NEW t \in Threads, Put(t)
       PROVE  TypeOK'
  <2>1. elem[t] \in Images
    BY <1>0, <1>14 DEF Put, At, BuffersExist
  <2>2. PICK dead \in SUBSET Images : DoomLocked(t, dead)
    BY <1>14, OrphansAreLive DEF Put
  <2>3. /\ doomed' \in [Threads -> SUBSET Images]
        /\ dying' \in [Threads -> Images \cup {None}] /\ counted' \in [Threads -> BOOLEAN]
        /\ cacheLock' \in Threads \cup {None}
    BY <1>0, <2>2, DoomLockedTypes
  <2>4. /\ held' \subseteq Images /\ elem' \in [Threads -> Images \cup {None}]
        /\ cached' \subseteq Images
    BY <1>0, <1>14, <2>1 DEF Put, TypeOK
  <2>5. pc' \in [Threads -> PCs] /\ UNCHANGED <<poolVars, imgBuf, hostRefs, req, pick, reg, history>>
    BY <1>0, <1>14 DEF Put, TypeOK, Goto, PCs
  <2> QED BY <1>0, <2>3, <2>4, <2>5 DEF TypeOK, poolVars, history
<1>15. ASSUME NEW t \in Threads, NEW i \in Images, LetGo(t, i)
       PROVE  TypeOK'
  <2>1. PICK dead \in SUBSET Images : Doom(t, dead)
    BY <1>15, OrphansAreLive DEF LetGo
  <2>2. /\ doomed' \in [Threads -> SUBSET Images]
        /\ dying' \in [Threads -> Images \cup {None}] /\ counted' \in [Threads -> BOOLEAN]
    BY <1>0, <2>1, DoomTypes
  <2>3. /\ held' \subseteq Images
        /\ UNCHANGED <<poolVars, imgBuf, hostRefs, cached, callVars, reg, cacheLock, history>>
    BY <1>0, <1>15 DEF LetGo, TypeOK
  <2> QED BY <1>0, <2>2, <2>3 DEF TypeOK, poolVars, callVars, history
<1>16. ASSUME NEW t \in Threads, ReleaseBegin(t)
       PROVE  TypeOK'
  <2>1. PICK i \in doomed[t] :
          /\ dying' = [dying EXCEPT ![t] = i]
          /\ doomed' = [doomed EXCEPT ![t] = @ \ {i}]
          /\ reg' = [reg EXCEPT ![t] = refCount[imgBuf[i]]]
    BY <1>16 DEF ReleaseBegin
  <2>2. i \in Images /\ imgBuf[i] \in Buffers
    BY <1>0, <2>1 DEF DieOnce, Live, TypeOK
  <2>3. /\ dying' \in [Threads -> Images \cup {None}] /\ doomed' \in [Threads -> SUBSET Images]
        /\ reg' \in [Threads -> Int]
    BY <1>0, <2>1, <2>2 DEF TypeOK
  <2>4. UNCHANGED <<poolVars, imageVars, callVars, counted, cacheLock, history>>
    BY <1>16 DEF ReleaseBegin
  <2> QED BY <1>0, <2>3, <2>4 DEF TypeOK, poolVars, imageVars, callVars, history
<1>17. ASSUME NEW t \in Threads, ReleaseCount(t)
       PROVE  TypeOK'
  <2>1. imgBuf[dying[t]] \in Buffers
    BY <1>0, <1>17 DEF ReleaseCount, DieOnce, Live, TypeOK
  <2>2. refCount' \in [Buffers -> Int] /\ reg' \in [Threads -> Int]
    BY <1>0, <1>17, <2>1 DEF ReleaseCount, LeftBy, TypeOK
  <2>3. /\ imgBuf' \in [Images -> Buffers \cup {None}] /\ hostRefs' \in [Images -> Nat]
        /\ cached' \subseteq Images /\ held' \subseteq Images
        /\ doomed' \in [Threads -> SUBSET Images]
        /\ dying' \in [Threads -> Images \cup {None}] /\ counted' \in [Threads -> BOOLEAN]
        /\ cacheLock' \in Threads \cup {None}
    <3>1. CASE Gone(t)
      BY <1>0, <3>1, GoneTypes
    <3>2. CASE counted' = [counted EXCEPT ![t] = TRUE] /\ UNCHANGED <<imageVars, doomed, dying, cacheLock>>
      BY <1>0, <3>2 DEF TypeOK, imageVars
    <3> QED BY <1>17, <3>1, <3>2 DEF ReleaseCount
  <2>4. UNCHANGED <<count, reserved, size, allDatas, used, unused, callVars, history>>
    BY <1>17 DEF ReleaseCount
  <2> QED BY <1>0, <2>2, <2>3, <2>4 DEF TypeOK, callVars, history
<1>18. ASSUME NEW t \in Threads, ReleaseReport(t)
       PROVE  TypeOK'
  <2>1. imgBuf[dying[t]] \in Buffers
    BY <1>0, <1>18 DEF ReleaseReport, DieOnce, Live, TypeOK
  <2>2. used' \subseteq Buffers /\ unused' \subseteq Buffers
    BY <1>0, <1>18, <2>1 DEF ReleaseReport, TypeOK
  <2>3. /\ imgBuf' \in [Images -> Buffers \cup {None}] /\ hostRefs' \in [Images -> Nat]
        /\ cached' \subseteq Images /\ held' \subseteq Images
        /\ doomed' \in [Threads -> SUBSET Images]
        /\ dying' \in [Threads -> Images \cup {None}] /\ counted' \in [Threads -> BOOLEAN]
        /\ cacheLock' \in Threads \cup {None}
    BY <1>0, <1>18, GoneTypes DEF ReleaseReport
  <2>4. UNCHANGED <<count, reserved, size, refCount, allDatas, callVars, reg, history>>
    BY <1>18 DEF ReleaseReport
  <2> QED BY <1>0, <2>2, <2>3, <2>4 DEF TypeOK, callVars, history
<1>19. ASSUME NEW i \in Images, NEW n \in 1 .. MaxRefs, AddHostRefs(i, n)
       PROVE  TypeOK'
  BY <1>0, <1>19, PoolAssumption DEF AddHostRefs, TypeOK, poolVars, callVars, deathVars, history
<1>20. ASSUME NEW i \in Images, ReleaseHostRef(i)
       PROVE  TypeOK'
  BY <1>0, <1>20 DEF ReleaseHostRef, TypeOK, poolVars, callVars, deathVars, history
<1>21. CASE UNCHANGED vars
  BY <1>0, <1>21 DEF vars, poolVars, imageVars, callVars, deathVars, history, TypeOK
<1> QED
  BY <1>1, <1>2, <1>3, <1>4, <1>5, <1>6, <1>7, <1>8, <1>9, <1>10, <1>12, <1>13,
     <1>14, <1>15, <1>16, <1>17, <1>18, <1>19, <1>20, <1>21 DEF Next

-----------------------------------------------------------------------------
(* Steps that leave the chosen buffers of the calls alone.                 *)

ChoicesKept ==
  \A t \in Threads :
    /\ pc[t] \in Chosen \/ pc'[t] \in Chosen => pc'[t] = pc[t] /\ pick'[t] = pick[t]
    /\ pc'[t] = "put" => elem'[t] \in Images

StillAlone == ~overlap' => ~overlap /\ OneCall'

(* Images are doomed at most, by a thread that has none to destroy. *)
Dooms ==
  \/ UNCHANGED <<doomed, dying, counted>>
  \/ \E t \in Threads :
       /\ pc[t] # "count" /\ doomed[t] = {} /\ dying[t] = None
       /\ \E dead \in SUBSET (Live \ Dying) : Doom(t, dead)

LEMMA RoomKept ==
  ASSUME TypeOK, RoomForNew, UNCHANGED count, Creating' \subseteq Creating
  PROVE  RoomForNew'
<1>1. Cardinality(Creating) \in Nat /\ IsFiniteSet(Creating)
  BY CreatingFinite
<1>2. IsFiniteSet(Creating') /\ Cardinality(Creating') <= Cardinality(Creating)
  BY <1>1, FS_Subset
<1>3. Cardinality(Creating') \in Nat
  BY <1>2, FS_CardinalityType
<1>4. count \in Nat /\ MaxBuffers \in Nat
  BY PoolAssumption DEF TypeOK
<1> QED BY <1>1, <1>2, <1>3, <1>4 DEF RoomForNew

(* An image is doomed once: the others are not dying yet. *)
LEMMA DoomedOnce ==
  ASSUME TypeOK, DieOnce, Dooms, Live \subseteq Live',
         \A t \in Threads : pc'[t] = "count" => pc[t] = "count"
  PROVE  DieOnce'
<1>1. CASE UNCHANGED <<doomed, dying, counted>>
  BY <1>1 DEF DieOnce
<1>2. ASSUME NEW t \in Threads, pc[t] # "count", doomed[t] = {}, dying[t] = None,
             NEW dead \in SUBSET (Live \ Dying), Doom(t, dead)
      PROVE  DieOnce'
  <2>1. /\ doomed'[t] = dead /\ \A u \in Threads \ {t} : doomed'[u] = doomed[u]
        /\ UNCHANGED <<dying, counted>>
    BY <1>2 DEF Doom, TypeOK
  <2>2. \A i \in dead : i \in Live /\ \A u \in Threads : i \notin doomed[u] /\ dying[u] # i
    <3> SUFFICES ASSUME NEW i \in dead, NEW u \in Threads
                 PROVE  i \in Live /\ i \notin doomed[u] /\ dying[u] # i
      OBVIOUS
    <3>1. i \in Live /\ i \notin Dying
      OBVIOUS
    <3>2. doomed[u] \in {doomed[w] : w \in Threads} /\ dying[u] \in {dying[w] : w \in Threads}
      OBVIOUS
    <3>3. \A x \in doomed[u] : x \in Dying
      <4>1. \A x \in doomed[u] : x \in UNION {doomed[w] : w \in Threads}
        BY <3>2
      <4> QED BY <4>1 DEF Dying
    <3>4. dying[u] \in Dying
      BY <3>2 DEF Dying
    <3> QED BY <3>1, <3>3, <3>4
  <2>3. \A u \in Threads :
          /\ doomed'[u] \subseteq Live'
          /\ dying'[u] # None => dying'[u] \in Live'
          /\ counted'[u] => dying'[u] # None
          /\ pc'[u] = "count" => doomed'[u] = {} /\ dying'[u] = None
    BY <1>2, <2>1, <2>2 DEF DieOnce
  <2>4. \A u, w \in Threads :
          /\ \A i \in doomed'[u] : dying'[w] # i /\ (i \in doomed'[w] => u = w)
          /\ dying'[u] # None /\ dying'[u] = dying'[w] => u = w
    BY <1>2, <2>1, <2>2 DEF DieOnce
  <2> QED BY <2>3, <2>4 DEF DieOnce
<1> QED BY <1>1, <1>2 DEF Dooms

LEMMA NobodyNewCounts ==
  ASSUME ChoicesKept
  PROVE  \A t \in Threads : pc'[t] = "count" => pc[t] = "count"
BY DEF ChoicesKept, Chosen

(* No memory changes hands. *)
LEMMA Moved ==
  ASSUME PoolInv, TypeOK', RoomForNew', ChoicesKept, StillAlone, Dooms,
         UNCHANGED <<count, refCount, allDatas, used, unused, imgBuf, reg>>
  PROVE  PoolInv'
<1>0. TypeOK /\ BuffersExist /\ DieOnce /\ (~overlap => Exact)
  BY DEF PoolInv
<1>1. BuffersExist'
  BY <1>0 DEF BuffersExist, ChoicesKept
<1>2. DieOnce'
  BY <1>0, DoomedOnce, NobodyNewCounts DEF Live
<1>3. CountedOut' = CountedOut /\ Live' = Live /\ UNCHANGED <<dying, counted>>
  BY DEF Dooms, Doom, CountedOut, Live
<1>4. ASSUME ~overlap' PROVE Exact'
  <2>1. Exact /\ OneCall'
    BY <1>0, <1>4 DEF StillAlone
  <2>2. OwnMemory'
    BY <1>3, <2>1 DEF Exact, OwnMemory
  <2>3. ChosenIsFree'
    BY <2>1 DEF Exact, ChosenIsFree, ChoicesKept
  <2>4. ReadIsCurrent'
    BY <1>3, <2>1 DEF Exact, ReadIsCurrent, ChoicesKept, Chosen
  <2>5. OthersFree'
    BY <2>1 DEF Exact, OthersFree, ChoicesKept, Chosen
  <2>6. ReallyNewData'
    BY <2>1 DEF Exact, ReallyNewData
  <2> QED BY <2>1, <2>2, <2>3, <2>4, <2>5, <2>6 DEF Exact
<1> QED BY <1>1, <1>2, <1>4 DEF PoolInv

-----------------------------------------------------------------------------
(* Steps that choose, register and hand over a buffer.                     *)

(* The buffer a call chooses is unused or new, and nobody's while calls do *)
(* not overlap.                                                            *)
LEMMA Choosing ==
  ASSUME PoolInv, TypeOK', RoomForNew',
         NEW t \in Threads, pc[t] \notin Chosen \cup {"idle"}, NEW b \in Buffers,
         pc' = [pc EXCEPT ![t] = "addRef"], pick' = [pick EXCEPT ![t] = b],
         count <= count', b <= count', b \in unused \/ b > count,
         UNCHANGED <<refCount, allDatas, used, unused, imgBuf, elem, overlap, reg>>,
         UNCHANGED <<doomed, dying, counted>>
  PROVE  PoolInv'
<1>0. TypeOK /\ BuffersExist /\ DieOnce /\ (~overlap => Exact)
  BY DEF PoolInv
<1>1. /\ \A u \in Threads \ {t} : pc'[u] = pc[u] /\ pick'[u] = pick[u]
      /\ pc'[t] = "addRef" /\ pick'[t] = b
  BY <1>0 DEF TypeOK
<1>2. BuffersExist'
  <2>1. count \in Nat /\ count' \in Nat /\ \A c \in Buffers : c \in Nat
    BY <1>0, BufferIsNumber, PoolAssumption DEF TypeOK
  <2>2. \A i \in Images : imgBuf'[i] # None => imgBuf'[i] <= count'
    BY <1>0, <2>1 DEF BuffersExist, TypeOK
  <2>3. \A u \in Threads :
          /\ pc'[u] \in Chosen => pick'[u] \in Buffers /\ pick'[u] <= count'
          /\ pc'[u] = "put" => elem'[u] \in Images
    BY <1>0, <1>1, <2>1 DEF BuffersExist, TypeOK
  <2>4. \A c \in Buffers : c > count' => c \notin used' /\ c \notin unused' /\ allDatas'[c] = 0
    BY <1>0, <2>1 DEF BuffersExist
  <2> QED BY <2>2, <2>3, <2>4 DEF BuffersExist
<1>3. DieOnce'
  BY <1>0, <1>1, DoomedOnce DEF Dooms, Live
<1>4. ASSUME ~overlap' PROVE Exact'
  <2>1. Exact /\ \A u \in Threads \ {t} : pc[u] = "idle" /\ pc'[u] = "idle"
    BY <1>0, <1>1, <1>4 DEF Exact, OneCall
  <2>2. /\ \A i \in Images : imgBuf[i] # b
        /\ b \in unused \/ allDatas[b] = 0
    <3>1. CASE b \in unused
      BY <1>0, <2>1, <3>1, BufferIsNumber DEF Exact, OwnMemory, Live
    <3>2. CASE b > count
      <4>1. b \in Nat /\ count \in Nat /\ b # None
        BY <1>0, BufferIsNumber DEF TypeOK
      <4> QED BY <1>0, <3>2, <4>1 DEF BuffersExist
    <3> QED BY <3>1, <3>2
  <2>3. refCount[b] = 0 /\ b \notin used
    <3>1. \A u \in Threads : pc[u] \notin {"referenced", "return"}
      BY <2>1 DEF Chosen
    <3> QED BY <2>1, <2>2, <3>1 DEF Exact, OthersFree
  <2>4. OneCall'
    BY <2>1 DEF OneCall
  <2>5. OwnMemory'
    BY <2>1 DEF Exact, OwnMemory, Live, CountedOut
  <2>6. ChosenIsFree'
    BY <1>1, <2>1, <2>2, <2>3 DEF ChosenIsFree, Chosen
  <2>7. ReadIsCurrent'
    BY <1>1, <2>1 DEF Exact, ReadIsCurrent
  <2>8. OthersFree'
    BY <1>1, <2>1 DEF Exact, OthersFree, Chosen
  <2>9. ReallyNewData'
    BY <2>1 DEF Exact, ReallyNewData
  <2> QED BY <2>4, <2>5, <2>6, <2>7, <2>8, <2>9 DEF Exact
<1> QED BY <1>2, <1>3, <1>4 DEF PoolInv

(* A call with a buffer goes from one step of counting it to another. *)
LEMMA Advances ==
  ASSUME PoolInv, TypeOK', NEW t \in Threads, pc[t] \in Chosen, NEW l \in Chosen,
         pc' = [pc EXCEPT ![t] = l], doomed[t] = {}, dying[t] = None,
         UNCHANGED <<count, imgBuf, pick, elem, doomed, dying, counted, overlap>>
  PROVE  /\ \A u \in Threads \ {t} : pc'[u] = pc[u]
         /\ pc'[t] = l
         /\ \A u \in Threads :
              /\ pc'[u] \in Chosen => pick'[u] \in Buffers /\ pick'[u] <= count'
              /\ pc'[u] = "put" => elem'[u] \in Images
         /\ RoomForNew' /\ DieOnce'
         /\ ~overlap' => OneCall' /\ \A u \in Threads \ {t} : pc[u] = "idle"
<1>0. TypeOK /\ BuffersExist /\ RoomForNew /\ DieOnce /\ (~overlap => Exact)
  BY DEF PoolInv
<1>1. (\A u \in Threads \ {t} : pc'[u] = pc[u]) /\ pc'[t] = l
  BY <1>0 DEF TypeOK
<1>2. \A u \in Threads :
        /\ pc'[u] \in Chosen => pick'[u] \in Buffers /\ pick'[u] <= count'
        /\ pc'[u] = "put" => elem'[u] \in Images
  BY <1>0, <1>1 DEF BuffersExist, Chosen
<1>3. RoomForNew'
  <2>1. Creating' \subseteq Creating
    BY <1>1 DEF Creating
  <2> QED BY <1>0, <2>1, RoomKept
<1>4. DieOnce'
  BY <1>0, <1>1 DEF DieOnce, Live
<1>5. ~overlap' => OneCall' /\ \A u \in Threads \ {t} : pc[u] = "idle"
  BY <1>0, <1>1 DEF Exact, OneCall, Chosen
<1> QED BY <1>1, <1>2, <1>3, <1>4, <1>5

(* addRef reads the count, which is zero. *)
LEMMA AddRefStep ==
  ASSUME PoolInv, TypeOK', NEW t \in Threads, AddRef(t)
  PROVE  PoolInv'
<1>0. TypeOK /\ BuffersExist /\ (~overlap => Exact)
  BY DEF PoolInv
<1>1. /\ pc[t] = "addRef" /\ doomed[t] = {} /\ dying[t] = None
      /\ pc' = [pc EXCEPT ![t] = "count"] /\ reg' = [reg EXCEPT ![t] = refCount[pick[t]]]
      /\ UNCHANGED <<count, imgBuf, pick, elem, doomed, dying, counted, overlap>>
      /\ UNCHANGED <<refCount, allDatas, used, unused>>
  BY DEF AddRef, At, Goto, imageVars, deathVars, history
<1>2. /\ \A u \in Threads \ {t} : pc'[u] = pc[u]
      /\ pc'[t] = "count"
      /\ \A u \in Threads :
           /\ pc'[u] \in Chosen => pick'[u] \in Buffers /\ pick'[u] <= count'
           /\ pc'[u] = "put" => elem'[u] \in Images
      /\ RoomForNew' /\ DieOnce'
      /\ ~overlap' => OneCall' /\ \A u \in Threads \ {t} : pc[u] = "idle"
  BY <1>1, Advances DEF Chosen
<1>3. BuffersExist'
  BY <1>0, <1>1, <1>2 DEF BuffersExist
<1>4. ASSUME ~overlap' PROVE Exact'
  <2>1. Exact
    BY <1>0, <1>1, <1>4
  <2>2. OwnMemory'
    BY <1>1, <2>1 DEF Exact, OwnMemory, Live, CountedOut
  <2>3. ChosenIsFree'
    BY <1>1, <1>2, <2>1 DEF Exact, ChosenIsFree, Chosen
  <2>4. ReadIsCurrent'
    <3>1. refCount[pick[t]] = 0
      BY <1>1, <2>1 DEF Exact, ChosenIsFree, Chosen
    <3>2. reg'[t] = 0 /\ \A u \in Threads \ {t} : reg'[u] = reg[u]
      BY <1>0, <1>1, <3>1 DEF TypeOK
    <3> QED BY <1>1, <1>2, <2>1, <3>2 DEF Exact, ReadIsCurrent
  <2>5. OthersFree'
    BY <1>1, <1>2, <2>1 DEF Exact, OthersFree
  <2>6. ReallyNewData'
    BY <1>1, <2>1 DEF Exact, ReallyNewData
  <2> QED BY <1>2, <1>4, <2>2, <2>3, <2>4, <2>5, <2>6 DEF Exact
<1> QED BY <1>2, <1>3, <1>4 DEF PoolInv

(* The call becomes a client of the buffer, the only one. *)
LEMMA CountStep ==
  ASSUME PoolInv, TypeOK', NEW t \in Threads, Count(t)
  PROVE  PoolInv'
<1>0. TypeOK /\ BuffersExist /\ (~overlap => Exact)
  BY DEF PoolInv
<1>1. /\ pc[t] = "count" /\ doomed[t] = {} /\ dying[t] = None
      /\ refCount' = [refCount EXCEPT ![pick[t]] = reg[t] + 1] /\ reg' = [reg EXCEPT ![t] = 0]
      /\ UNCHANGED <<count, imgBuf, pick, elem, doomed, dying, counted, overlap>>
      /\ UNCHANGED <<allDatas, used, unused>>
  BY DEF Count, At, imageVars, deathVars, history
<1>2. PICK l \in {"referenced", "return"} :
        pc' = [pc EXCEPT ![t] = l] /\ (reg[t] = 0 => l = "referenced")
  BY DEF Count, Goto
<1>3. /\ \A u \in Threads \ {t} : pc'[u] = pc[u]
      /\ pc'[t] = l
      /\ \A u \in Threads :
           /\ pc'[u] \in Chosen => pick'[u] \in Buffers /\ pick'[u] <= count'
           /\ pc'[u] = "put" => elem'[u] \in Images
      /\ RoomForNew' /\ DieOnce'
      /\ ~overlap' => OneCall' /\ \A u \in Threads \ {t} : pc[u] = "idle"
  BY <1>1, <1>2, Advances DEF Chosen
<1>4. BuffersExist'
  BY <1>0, <1>1, <1>3 DEF BuffersExist
<1>5. ASSUME ~overlap' PROVE Exact'
  <2>1. Exact /\ \A u \in Threads \ {t} : pc[u] = "idle"
    BY <1>0, <1>1, <1>3, <1>5
  <2>2. reg[t] = 0 /\ l = "referenced"
    BY <1>1, <1>2, <2>1 DEF Exact, ReadIsCurrent
  <2>3. pick[t] \in Buffers /\ \A i \in Images : imgBuf[i] # pick[t]
    BY <1>0, <1>1, <2>1 DEF BuffersExist, Chosen, Exact, ChosenIsFree
  <2>4. refCount'[pick[t]] = 1 /\ \A b \in Buffers : b # pick[t] => refCount'[b] = refCount[b]
    BY <1>0, <1>1, <2>2, <2>3 DEF TypeOK
  <2>5. OwnMemory'
    <3>1. \A i \in Live : imgBuf[i] \in Buffers /\ imgBuf[i] # pick[t]
      BY <1>0, <2>3 DEF Live, TypeOK
    <3> QED BY <1>1, <2>1, <2>4, <3>1 DEF Exact, OwnMemory, Live, CountedOut
  <2>6. ChosenIsFree'
    <3>1. /\ pick[t] \notin used /\ (pick[t] \in unused \/ allDatas[pick[t]] = 0)
      BY <1>1, <2>1 DEF Exact, ChosenIsFree, Chosen
    <3> QED BY <1>1, <1>3, <2>1, <2>2, <2>3, <2>4, <3>1 DEF ChosenIsFree, Chosen
  <2>7. ReadIsCurrent'
    <3>1. \A u \in Threads \ {t} : reg'[u] = reg[u]
      BY <1>0, <1>1 DEF TypeOK
    <3> QED BY <1>1, <1>3, <2>1, <2>2, <3>1 DEF Exact, ReadIsCurrent
  <2>8. OthersFree'
    <3> SUFFICES ASSUME NEW b \in Buffers, \A i \in Images : imgBuf'[i] # b,
                        \A u \in Threads : pc'[u] \in {"referenced", "return"} => pick'[u] # b
                 PROVE  refCount'[b] = 0 /\ b \notin used'
      BY DEF OthersFree
    <3>1. b # pick[t]
      BY <1>1, <1>3, <2>2
    <3>2. \A u \in Threads : pc[u] \notin {"referenced", "return"}
      BY <1>1, <2>1
    <3>3. refCount[b] = 0 /\ b \notin used
      BY <1>1, <2>1, <3>2 DEF Exact, OthersFree
    <3> QED BY <1>1, <2>4, <3>1, <3>3
  <2>9. ReallyNewData'
    BY <1>1, <2>1 DEF Exact, ReallyNewData
  <2> QED BY <1>3, <1>5, <2>5, <2>6, <2>7, <2>8, <2>9 DEF Exact
<1> QED BY <1>3, <1>4, <1>5 DEF PoolInv

(* referenced: the only call that registers the buffer puts it in use. *)
LEMMA ReferencedStep ==
  ASSUME PoolInv, TypeOK', NEW t \in Threads, Referenced(t)
  PROVE  PoolInv'
<1>0. TypeOK /\ BuffersExist /\ (~overlap => Exact)
  BY DEF PoolInv
<1>1. /\ pc[t] = "referenced" /\ doomed[t] = {} /\ dying[t] = None
      /\ UNCHANGED <<count, imgBuf, pick, elem, doomed, dying, counted, overlap>>
      /\ UNCHANGED <<refCount, reg>>
      /\ pc' = [pc EXCEPT ![t] = "return"]
  BY DEF Referenced, At, Goto, imageVars, deathVars
<1>2. PICK b \in Buffers : b = pick[t]
  BY <1>0, <1>1 DEF BuffersExist, Chosen
<1>3. used' = used \cup {b} /\ unused' = unused \ {b}
  BY <1>2 DEF Referenced
<1>4. /\ \A u \in Threads \ {t} : pc'[u] = pc[u]
      /\ pc'[t] = "return"
      /\ \A u \in Threads :
           /\ pc'[u] \in Chosen => pick'[u] \in Buffers /\ pick'[u] <= count'
           /\ pc'[u] = "put" => elem'[u] \in Images
      /\ RoomForNew' /\ DieOnce'
      /\ ~overlap' => OneCall' /\ \A u \in Threads \ {t} : pc[u] = "idle"
  BY <1>1, Advances DEF Chosen
<1>5. /\ \A c \in Buffers \ {b} : allDatas'[c] = allDatas[c]
      /\ b \in unused => allDatas'[b] = allDatas[b]
      /\ allDatas[b] = 0 => allDatas'[b] <= 1
  BY <1>0, <1>2 DEF Referenced, Registered, TypeOK
<1>6. BuffersExist'
  <2>1. b <= count /\ b \in Nat /\ count \in Nat
    BY <1>0, <1>1, <1>2, BufferIsNumber DEF BuffersExist, Chosen, TypeOK
  <2>2. \A c \in Buffers : c > count' => c \notin used' /\ c \notin unused' /\ allDatas'[c] = 0
    BY <1>0, <1>1, <1>3, <1>5, <2>1 DEF BuffersExist
  <2> QED BY <1>0, <1>1, <1>4, <2>2 DEF BuffersExist
<1>7. ASSUME ~overlap' PROVE Exact'
  <2>1. Exact /\ \A u \in Threads \ {t} : pc[u] = "idle"
    BY <1>0, <1>1, <1>4, <1>7
  <2>2. /\ \A i \in Images : imgBuf[i] # b
        /\ refCount[b] = 1 /\ (b \in unused \/ allDatas[b] = 0)
    BY <1>1, <1>2, <2>1 DEF Exact, ChosenIsFree, Chosen
  <2>3. OwnMemory'
    <3>1. \A i \in Live : imgBuf[i] # b
      BY <2>2 DEF Live
    <3> QED BY <1>1, <1>3, <2>1, <3>1 DEF Exact, OwnMemory, Live, CountedOut
  <2>4. ChosenIsFree'
    BY <1>1, <1>2, <1>3, <1>4, <2>1, <2>2 DEF ChosenIsFree, Chosen
  <2>5. ReadIsCurrent'
    BY <1>1, <1>4, <2>1 DEF Exact, ReadIsCurrent
  <2>6. OthersFree'
    <3> SUFFICES ASSUME NEW c \in Buffers, \A i \in Images : imgBuf'[i] # c,
                        \A u \in Threads : pc'[u] \in {"referenced", "return"} => pick'[u] # c
                 PROVE  refCount'[c] = 0 /\ c \notin used'
      BY DEF OthersFree
    <3>1. c # b
      BY <1>1, <1>2, <1>4
    <3>2. \A u \in Threads : pc[u] \in {"referenced", "return"} => pick[u] # c
      BY <1>1, <1>2, <2>1, <3>1
    <3>3. refCount[c] = 0 /\ c \notin used
      BY <1>1, <2>1, <3>2 DEF Exact, OthersFree
    <3> QED BY <1>1, <1>3, <3>1, <3>3
  <2>7. ReallyNewData'
    BY <1>2, <1>5, <2>1, <2>2 DEF Exact, ReallyNewData
  <2> QED BY <1>4, <1>7, <2>3, <2>4, <2>5, <2>6, <2>7 DEF Exact
<1> QED BY <1>4, <1>6, <1>7 DEF PoolInv

(* The reference of a call passes to its image. *)
LEMMA ReturnStep ==
  ASSUME PoolInv, TypeOK', NEW t \in Threads, Return(t)
  PROVE  PoolInv'
<1>0. TypeOK /\ BuffersExist /\ RoomForNew /\ DieOnce /\ (~overlap => Exact)
  BY DEF PoolInv
<1>1. /\ pc[t] = "return" /\ doomed[t] = {} /\ dying[t] = None
      /\ pc' = [pc EXCEPT ![t] = "put"]
  BY DEF Return, At, Goto
<1>2. PICK b \in Buffers : b = pick[t]
  BY <1>0, <1>1 DEF BuffersExist, Chosen
<1>3. PICK i \in Images \ Live : imgBuf' = [imgBuf EXCEPT ![i] = b] /\ Unwind(t, i)
  BY <1>2 DEF Return
<1>4. PICK dead \in SUBSET (Live \ Dying) : Doom(t, dead)
  BY <1>3, OrphansAreLive DEF Unwind
<1>5. /\ elem' = [elem EXCEPT ![t] = i] /\ pick' = [pick EXCEPT ![t] = None]
      /\ UNCHANGED <<count, refCount, allDatas, used, unused, reg, overlap>>
      /\ UNCHANGED <<dying, counted>>
  BY <1>3, <1>4 DEF Unwind, Doom, poolVars, history
<1>6. /\ \A u \in Threads \ {t} : pc'[u] = pc[u] /\ pick'[u] = pick[u] /\ elem'[u] = elem[u]
      /\ pc'[t] = "put" /\ elem'[t] = i
  BY <1>0, <1>1, <1>5 DEF TypeOK
<1>7. /\ imgBuf'[i] = b /\ imgBuf[i] = None /\ b # None
      /\ \A j \in Images \ {i} : imgBuf'[j] = imgBuf[j]
  BY <1>0, <1>3, BufferIsNumber DEF Live, TypeOK
<1>8. Live' = Live \cup {i} /\ i \notin Live
  BY <1>3, <1>7 DEF Live
<1>9. DieOnce'
  <2>1. Dooms /\ \A u \in Threads : pc'[u] = "count" => pc[u] = "count"
    BY <1>1, <1>4, <1>6 DEF Dooms
  <2> QED BY <1>0, <1>8, <2>1, DoomedOnce
<1>10. BuffersExist'
  <2>1. b <= count
    BY <1>0, <1>1, <1>2 DEF BuffersExist, Chosen
  <2>2. \A j \in Images : imgBuf'[j] # None => imgBuf'[j] <= count'
    BY <1>0, <1>5, <1>7, <2>1 DEF BuffersExist
  <2> QED BY <1>0, <1>5, <1>6, <2>2 DEF BuffersExist, Chosen
<1>11. RoomForNew'
  <2>1. Creating' \subseteq Creating
    BY <1>6 DEF Creating, Chosen
  <2> QED BY <1>0, <1>5, <2>1, RoomKept
<1>12. ASSUME ~overlap' PROVE Exact'
  <2>1. Exact /\ \A u \in Threads \ {t} : pc[u] = "idle" /\ pc'[u] = "idle"
    BY <1>0, <1>1, <1>5, <1>6, <1>12 DEF Exact, OneCall
  <2>2. /\ \A j \in Images : imgBuf[j] # b
        /\ refCount[b] = 1 /\ b \in used /\ b \notin unused
    BY <1>1, <1>2, <2>1 DEF Exact, ChosenIsFree, Chosen
  <2>3. CountedOut' = CountedOut /\ i \notin CountedOut
    <3>1. i \notin CountedOut
      BY <1>0, <1>8 DEF CountedOut, DieOnce
    <3> QED BY <1>5, <3>1 DEF CountedOut
  <2>4. OwnMemory'
    <3>1. \A j, k \in Images : imgBuf'[j] # None /\ imgBuf'[j] = imgBuf'[k] => j = k
      BY <1>7, <2>1, <2>2 DEF Exact, OwnMemory
    <3>2. \A j \in Live' : /\ imgBuf'[j] \in used' /\ imgBuf'[j] \notin unused'
                           /\ j \in CountedOut' => refCount'[imgBuf'[j]] = 0
                           /\ j \notin CountedOut' => refCount'[imgBuf'[j]] = 1
      <4>1. ASSUME NEW j \in Live
            PROVE  imgBuf'[j] = imgBuf[j]
        BY <1>7, <1>8 DEF Live
      <4> QED BY <1>5, <1>7, <1>8, <2>1, <2>2, <2>3, <4>1 DEF Exact, OwnMemory
    <3> QED BY <3>1, <3>2 DEF OwnMemory
  <2>5. OneCall' /\ ChosenIsFree'
    BY <1>6, <2>1 DEF OneCall, ChosenIsFree, Chosen
  <2>6. ReadIsCurrent'
    BY <1>5, <1>6, <2>1 DEF Exact, ReadIsCurrent
  <2>7. OthersFree'
    <3> SUFFICES ASSUME NEW c \in Buffers, \A j \in Images : imgBuf'[j] # c
                 PROVE  refCount'[c] = 0 /\ c \notin used'
      BY DEF OthersFree
    <3>1. c # b /\ c # None
      BY <1>7, BufferIsNumber
    <3>2. \A j \in Images : imgBuf[j] # c
      BY <1>7, <3>1
    <3>3. \A u \in Threads : pc[u] \in {"referenced", "return"} => pick[u] # c
      BY <1>2, <2>1, <3>1
    <3>4. refCount[c] = 0 /\ c \notin used
      BY <2>1, <3>2, <3>3 DEF Exact, OthersFree
    <3> QED BY <1>5, <3>4
  <2>8. ReallyNewData'
    BY <1>5, <2>1 DEF Exact, ReallyNewData
  <2> QED BY <2>4, <2>5, <2>6, <2>7, <2>8 DEF Exact
<1> QED BY <1>9, <1>10, <1>11, <1>12 DEF PoolInv

(* clear() forgets buffers that no other call has chosen. *)
LEMMA ClearStep ==
  ASSUME PoolInv, TypeOK', NEW t \in Threads, Clear(t)
  PROVE  PoolInv'
<1>0. TypeOK /\ BuffersExist /\ RoomForNew /\ DieOnce /\ (~overlap => Exact)
  BY DEF PoolInv
<1>1. /\ pc[t] = "clear" /\ pc' = [pc EXCEPT ![t] = "lastCheck"]
      /\ UNCHANGED <<count, refCount, allDatas, used, imgBuf, pick, elem, overlap, reg>>
      /\ UNCHANGED <<doomed, dying, counted>>
      /\ unused' = {}
  BY DEF Clear, At, Goto, imageVars, deathVars, history
<1>2. (\A u \in Threads \ {t} : pc'[u] = pc[u]) /\ pc'[t] = "lastCheck"
  BY <1>0, <1>1 DEF TypeOK
<1>3. DieOnce'
  BY <1>0, <1>1, <1>2 DEF DieOnce, Live
<1>4. BuffersExist'
  BY <1>0, <1>1, <1>2 DEF BuffersExist, Chosen
<1>5. RoomForNew'
  <2>1. Creating' \subseteq Creating
    BY <1>1, <1>2 DEF Creating, Chosen
  <2> QED BY <1>0, <1>1, <2>1, RoomKept
<1>6. ASSUME ~overlap' PROVE Exact'
  <2>1. Exact /\ \A u \in Threads \ {t} : pc'[u] = "idle" /\ pc[u] = "idle"
    BY <1>0, <1>1, <1>2, <1>6 DEF Exact, OneCall
  <2>2. OneCall' /\ ChosenIsFree'
    BY <1>2, <2>1 DEF OneCall, ChosenIsFree, Chosen
  <2>3. OwnMemory'
    BY <1>1, <2>1 DEF Exact, OwnMemory, Live, CountedOut
  <2>4. ReadIsCurrent'
    BY <1>1, <1>2, <2>1 DEF Exact, ReadIsCurrent
  <2>5. OthersFree'
    BY <1>1, <1>2, <2>1 DEF Exact, OthersFree
  <2>6. ReallyNewData'
    BY <1>1, <2>1 DEF Exact, ReallyNewData
  <2> QED BY <2>2, <2>3, <2>4, <2>5, <2>6 DEF Exact
<1> QED BY <1>3, <1>4, <1>5, <1>6 DEF PoolInv

-----------------------------------------------------------------------------
(* The end of images.                                                      *)

(* Without a change of the calls, the rest follows. *)
LEMMA CallsStay ==
  ASSUME PoolInv, UNCHANGED <<count, pc, pick, elem, overlap>>
  PROVE  /\ RoomForNew'
         /\ \A t \in Threads :
              /\ pc'[t] \in Chosen => pick'[t] \in Buffers /\ pick'[t] <= count'
              /\ pc'[t] = "put" => elem'[t] \in Images
         /\ ~overlap' => OneCall'
<1>1. Creating' \subseteq Creating
  BY DEF Creating
<1>2. RoomForNew'
  BY <1>1, RoomKept DEF PoolInv
<1> QED BY <1>2 DEF PoolInv, BuffersExist, Exact, OneCall

(* release reads the count, which is one. *)
LEMMA BeginStep ==
  ASSUME PoolInv, TypeOK', NEW t \in Threads, ReleaseBegin(t)
  PROVE  PoolInv'
<1>0. TypeOK /\ BuffersExist /\ DieOnce /\ (~overlap => Exact)
  BY DEF PoolInv
<1>1. PICK i \in doomed[t] :
        /\ dying' = [dying EXCEPT ![t] = i]
        /\ doomed' = [doomed EXCEPT ![t] = @ \ {i}]
        /\ reg' = [reg EXCEPT ![t] = refCount[imgBuf[i]]]
  BY DEF ReleaseBegin
<1>2. /\ dying[t] = None
      /\ UNCHANGED <<count, refCount, allDatas, used, unused, imgBuf, pc, pick, elem, overlap, counted>>
  BY DEF ReleaseBegin, poolVars, imageVars, callVars, history
<1>3. /\ dying'[t] = i /\ doomed'[t] = doomed[t] \ {i} /\ reg'[t] = refCount[imgBuf[i]]
      /\ \A u \in Threads \ {t} : dying'[u] = dying[u] /\ doomed'[u] = doomed[u] /\ reg'[u] = reg[u]
  BY <1>0, <1>1 DEF TypeOK
<1>4. /\ i \in Live /\ i # None /\ ~counted[t]
      /\ \A u \in Threads : dying[u] # i
      /\ \A u \in Threads : i \in doomed[u] => u = t
  BY <1>0, <1>1, <1>2, PoolAssumption DEF DieOnce, Live
<1>5. DieOnce'
  <2>1. \A u \in Threads :
          /\ doomed'[u] \subseteq Live'
          /\ dying'[u] # None => dying'[u] \in Live'
          /\ counted'[u] => dying'[u] # None
          /\ pc'[u] = "count" => doomed'[u] = {} /\ dying'[u] = None
    BY <1>0, <1>1, <1>2, <1>3, <1>4 DEF DieOnce, Live
  <2>2. \A u, w \in Threads :
          /\ \A j \in doomed'[u] : dying'[w] # j /\ (j \in doomed'[w] => u = w)
          /\ dying'[u] # None /\ dying'[u] = dying'[w] => u = w
    BY <1>0, <1>3, <1>4 DEF DieOnce
  <2> QED BY <2>1, <2>2 DEF DieOnce
<1>6. CountedOut' = CountedOut /\ i \notin CountedOut /\ Live' = Live
  BY <1>2, <1>3, <1>4 DEF CountedOut, Live
<1>7. BuffersExist' /\ RoomForNew'
  BY <1>0, <1>2, CallsStay DEF BuffersExist
<1>8. ASSUME ~overlap' PROVE Exact'
  <2>1. Exact
    BY <1>0, <1>2, <1>8
  <2>2. OneCall' /\ OwnMemory' /\ ChosenIsFree' /\ OthersFree' /\ ReallyNewData'
    BY <1>2, <1>6, <2>1 DEF Exact, OneCall, OwnMemory, ChosenIsFree, OthersFree, ReallyNewData
  <2>3. ReadIsCurrent'
    <3>1. refCount[imgBuf[i]] = 1 /\ pc[t] # "count"
      BY <1>0, <1>1, <1>4, <1>6, <2>1 DEF Exact, OwnMemory, DieOnce
    <3> QED BY <1>2, <1>3, <2>1, <3>1 DEF Exact, ReadIsCurrent
  <2> QED BY <2>2, <2>3 DEF Exact
<1> QED BY <1>5, <1>7, <1>8 DEF PoolInv

(* An image that is gone leaves the others as they were. *)
LEMMA GoneAway ==
  ASSUME TypeOK, DieOnce, NEW t \in Threads, dying[t] # None, Gone(t), pc' = pc
  PROVE  /\ dying[t] \in Live /\ imgBuf[dying[t]] \in Buffers
         /\ DieOnce'
         /\ Live' = Live \ {dying[t]}
         /\ \A j \in Live' : imgBuf'[j] = imgBuf[j]
         /\ CountedOut' = CountedOut \ {dying[t]}
         /\ \A u \in Threads \ {t} : dying'[u] = dying[u] /\ counted'[u] = counted[u]
         /\ dying'[t] = None
<1>1. /\ imgBuf' = [imgBuf EXCEPT ![dying[t]] = None]
      /\ dying' = [dying EXCEPT ![t] = None] /\ counted' = [counted EXCEPT ![t] = FALSE]
      /\ doomed' = doomed
  BY DEF Gone
<1>2. dying[t] \in Live /\ dying[t] \in Images /\ imgBuf[dying[t]] \in Buffers
  BY DEF DieOnce, Live, TypeOK
<1>3. /\ \A u \in Threads \ {t} : dying'[u] = dying[u] /\ (counted'[u] <=> counted[u])
      /\ dying'[t] = None /\ ~counted'[t]
  BY <1>1 DEF TypeOK
<1>4. \A u \in Threads \ {t} : counted'[u] = counted[u]
  BY <1>1 DEF TypeOK
<1>5. /\ imgBuf'[dying[t]] = None
      /\ \A j \in Images : j # dying[t] => imgBuf'[j] = imgBuf[j]
  BY <1>1, <1>2 DEF TypeOK
<1>6. Live' = Live \ {dying[t]} /\ \A j \in Live' : imgBuf'[j] = imgBuf[j]
  BY <1>2, <1>5 DEF Live
<1>7. \A u \in Threads \ {t} : dying[u] # dying[t]
  BY DEF DieOnce
<1>8. CountedOut' = CountedOut \ {dying[t]}
  BY <1>3, <1>7 DEF CountedOut
<1>9. DieOnce'
  <2>1. \A u \in Threads : \A j \in doomed[u] : j # dying[t]
    BY DEF DieOnce
  <2>2. \A u \in Threads :
          /\ doomed'[u] \subseteq Live'
          /\ dying'[u] # None => dying'[u] \in Live'
          /\ counted'[u] => dying'[u] # None
          /\ pc'[u] = "count" => doomed'[u] = {} /\ dying'[u] = None
    <3>1. ASSUME NEW u \in Threads PROVE doomed'[u] \subseteq Live'
      BY <1>1, <1>6, <2>1 DEF DieOnce
    <3>2. ASSUME NEW u \in Threads
          PROVE  /\ dying'[u] # None => dying'[u] \in Live'
                 /\ counted'[u] => dying'[u] # None
                 /\ pc'[u] = "count" => doomed'[u] = {} /\ dying'[u] = None
      BY <1>1, <1>3, <1>6, <1>7 DEF DieOnce
    <3> QED BY <3>1, <3>2
  <2>3. \A u, w \in Threads :
          /\ \A j \in doomed'[u] : dying'[w] # j /\ (j \in doomed'[w] => u = w)
          /\ dying'[u] # None /\ dying'[u] = dying'[w] => u = w
    <3>1. \A j \in Live : j # None
      BY PoolAssumption DEF Live
    <3> QED BY <1>1, <1>3, <3>1 DEF DieOnce
  <2> QED BY <2>2, <2>3 DEF DieOnce
<1> QED BY <1>2, <1>3, <1>4, <1>6, <1>8, <1>9

(* release takes the last reference off the count. *)
LEMMA ReleaseCountStep ==
  ASSUME PoolInv, TypeOK', NEW t \in Threads, ReleaseCount(t)
  PROVE  PoolInv'
<1>0. TypeOK /\ BuffersExist /\ DieOnce /\ (~overlap => Exact)
  BY DEF PoolInv
<1>1. /\ dying[t] # None /\ ~counted[t]
      /\ reg' = [reg EXCEPT ![t] = 0]
      /\ refCount' = [refCount EXCEPT ![imgBuf[dying[t]]] = reg[t] - 1]
      /\ UNCHANGED <<count, allDatas, used, unused, pc, pick, elem, overlap>>
  BY DEF ReleaseCount, LeftBy, callVars, history
<1>2. PICK i \in Live : i = dying[t]
  BY <1>0, <1>1 DEF DieOnce
<1>3. PICK b \in Buffers : b = imgBuf[i]
  BY <1>0 DEF Live, TypeOK
<1>4. /\ refCount'[b] = reg[t] - 1
      /\ \A c \in Buffers : c # b => refCount'[c] = refCount[c]
  BY <1>0, <1>1, <1>2, <1>3 DEF TypeOK
<1>5. CASE Gone(t)
  <2>1. DieOnce' /\ Live' = Live \ {i} /\ \A j \in Live' : imgBuf'[j] = imgBuf[j]
    BY <1>0, <1>1, <1>2, <1>5, GoneAway
  <2>2. \A j \in Images : imgBuf'[j] # None => imgBuf'[j] = imgBuf[j]
    BY <2>1 DEF Live
  <2>3. BuffersExist' /\ RoomForNew'
    BY <1>0, <1>1, <2>2, CallsStay DEF BuffersExist
  <2>4. overlap'
    <3> SUFFICES ASSUME ~overlap' PROVE FALSE
      OBVIOUS
    <3>1. reg[t] = 1
      BY <1>0, <1>1 DEF Exact, ReadIsCurrent
    <3>2. dying'[t] = dying[t]
      BY <3>1 DEF ReleaseCount, LeftBy
    <3> QED BY <1>0, <1>1, <1>5, <3>2 DEF Gone, TypeOK
  <2> QED BY <2>1, <2>3, <2>4 DEF PoolInv
<1>6. CASE /\ counted' = [counted EXCEPT ![t] = TRUE]
           /\ UNCHANGED <<imageVars, doomed, dying, cacheLock>>
  <2>0. UNCHANGED <<imgBuf, doomed, dying>>
    BY <1>6 DEF imageVars
  <2>1. /\ counted'[t]
        /\ \A u \in Threads \ {t} : counted'[u] = counted[u]
    BY <1>0, <1>6 DEF TypeOK
  <2>2. DieOnce'
    BY <1>0, <1>1, <2>0, <2>1 DEF DieOnce, Live
  <2>3. BuffersExist' /\ RoomForNew'
    BY <1>0, <1>1, <2>0, CallsStay DEF BuffersExist
  <2>4. Live' = Live /\ CountedOut' = CountedOut \cup {i}
    <3>1. Live' = Live /\ i \in Images
      BY <2>0 DEF Live
    <3>2. \A j \in Images : j \in CountedOut' <=> j \in CountedOut \/ j = i
      BY <1>1, <1>2, <2>0, <2>1 DEF CountedOut
    <3> QED BY <3>1, <3>2 DEF CountedOut
  <2>5. ASSUME ~overlap' PROVE Exact'
    <3>1. Exact /\ reg[t] = 1
      BY <1>0, <1>1, <2>5 DEF Exact, ReadIsCurrent
    <3>2. refCount'[b] = 0
      BY <1>4, <3>1
    <3>3. OwnMemory'
      <4>1. \A j \in Live : j # i => imgBuf[j] # b /\ imgBuf[j] \in Buffers
        BY <1>0, <1>3, <3>1, BufferIsNumber DEF Exact, OwnMemory, Live, TypeOK
      <4> QED BY <1>1, <1>3, <1>4, <2>0, <2>4, <3>1, <3>2, <4>1 DEF Exact, OwnMemory
    <3>4. ChosenIsFree'
      <4>1. \A u \in Threads : pc[u] \in Chosen => pick[u] # b /\ pick[u] \in Buffers
        BY <1>0, <1>3, <3>1 DEF Exact, ChosenIsFree, BuffersExist, Live
      <4> QED BY <1>1, <1>4, <2>0, <3>1, <4>1 DEF Exact, ChosenIsFree
    <3>5. ReadIsCurrent'
      <4>1. reg'[t] = 0 /\ \A u \in Threads \ {t} : reg'[u] = reg[u]
        BY <1>0, <1>1 DEF TypeOK
      <4> QED BY <1>1, <2>0, <2>1, <3>1, <4>1 DEF Exact, ReadIsCurrent
    <3>6. OthersFree'
      <4> SUFFICES ASSUME NEW c \in Buffers, \A j \in Images : imgBuf'[j] # c,
                          \A u \in Threads : pc'[u] \in {"referenced", "return"} => pick'[u] # c
                   PROVE  refCount'[c] = 0 /\ c \notin used'
        BY DEF OthersFree
      <4>1. c # b
        BY <1>3, <2>0 DEF Live
      <4>2. refCount[c] = 0 /\ c \notin used
        BY <1>1, <2>0, <3>1 DEF Exact, OthersFree
      <4> QED BY <1>1, <1>4, <4>1, <4>2
    <3>7. OneCall' /\ ReallyNewData'
      BY <1>1, <3>1 DEF Exact, OneCall, ReallyNewData
    <3> QED BY <3>3, <3>4, <3>5, <3>6, <3>7 DEF Exact
  <2> QED BY <2>2, <2>3, <2>5 DEF PoolInv
<1> QED BY <1>5, <1>6 DEF ReleaseCount

(* The buffer of an image that is gone is available again. *)
LEMMA ReportStep ==
  ASSUME PoolInv, TypeOK', NEW t \in Threads, ReleaseReport(t)
  PROVE  PoolInv'
<1>0. TypeOK /\ BuffersExist /\ DieOnce /\ (~overlap => Exact)
  BY DEF PoolInv
<1>1. /\ counted[t] /\ Gone(t)
      /\ UNCHANGED <<count, refCount, allDatas, pc, pick, elem, overlap, reg>>
  BY DEF ReleaseReport, callVars, history
<1>2. PICK i \in Live : i = dying[t]
  BY <1>0, <1>1 DEF DieOnce
<1>3. PICK b \in Buffers : b = imgBuf[i] /\ used' = used \ {b} /\ unused' = unused \cup {b}
  BY <1>0, <1>2 DEF Live, TypeOK, ReleaseReport
<1>4. dying[t] # None
  BY <1>0, <1>1 DEF DieOnce
<1>5. /\ DieOnce' /\ Live' = Live \ {i} /\ \A j \in Live' : imgBuf'[j] = imgBuf[j]
      /\ CountedOut' = CountedOut \ {i}
      /\ \A u \in Threads \ {t} : dying'[u] = dying[u] /\ counted'[u] = counted[u]
      /\ dying'[t] = None
  BY <1>0, <1>1, <1>2, <1>4, GoneAway
<1>6. \A j \in Images : imgBuf'[j] # None => imgBuf'[j] = imgBuf[j]
  BY <1>5 DEF Live
<1>7. BuffersExist'
  <2>1. b <= count /\ b \in Nat /\ count \in Nat
    BY <1>0, <1>3, BufferIsNumber DEF BuffersExist, Live, TypeOK
  <2>2. \A c \in Buffers : c > count => c # b
    BY <2>1
  <2> QED BY <1>0, <1>1, <1>3, <1>6, <2>2 DEF BuffersExist
<1>8. RoomForNew'
  BY <1>1, CallsStay
<1>9. ASSUME ~overlap' PROVE Exact'
  <2>1. Exact /\ i \in CountedOut
    BY <1>0, <1>1, <1>2, <1>9 DEF CountedOut, Live
  <2>2. refCount[b] = 0 /\ \A j \in Live' : imgBuf[j] # b /\ j \in Live /\ j # i
    BY <1>3, <1>5, <2>1, BufferIsNumber DEF Exact, OwnMemory, Live
  <2>3. OwnMemory'
    <3>1. \A j, k \in Images : imgBuf'[j] # None /\ imgBuf'[j] = imgBuf'[k] => j = k
      BY <1>6, <2>1 DEF Exact, OwnMemory
    <3>2. \A j \in Live' : /\ imgBuf'[j] \in used' /\ imgBuf'[j] \notin unused'
                           /\ j \in CountedOut' => refCount'[imgBuf'[j]] = 0
                           /\ j \notin CountedOut' => refCount'[imgBuf'[j]] = 1
      BY <1>1, <1>3, <1>5, <2>1, <2>2 DEF Exact, OwnMemory
    <3> QED BY <3>1, <3>2 DEF OwnMemory
  <2>4. ChosenIsFree'
    <3>1. \A u \in Threads : pc[u] \in Chosen => pick[u] # b /\ pick[u] \in Buffers /\ pick[u] # None
      BY <1>0, <1>3, <2>1, BufferIsNumber DEF Exact, ChosenIsFree, BuffersExist, Live
    <3>2. \A u \in Threads : pc[u] \in Chosen => \A j \in Images : imgBuf'[j] # pick[u]
      BY <1>6, <2>1, <3>1 DEF Exact, ChosenIsFree
    <3> QED BY <1>1, <1>3, <2>1, <3>1, <3>2 DEF Exact, ChosenIsFree
  <2>5. ReadIsCurrent'
    BY <1>1, <1>5, <2>1 DEF Exact, ReadIsCurrent
  <2>6. OthersFree'
    <3> SUFFICES ASSUME NEW c \in Buffers, \A j \in Images : imgBuf'[j] # c,
                        \A u \in Threads : pc'[u] \in {"referenced", "return"} => pick'[u] # c
                 PROVE  refCount'[c] = 0 /\ c \notin used'
      BY DEF OthersFree
    <3>1. CASE c = b
      BY <1>1, <1>3, <2>2, <3>1
    <3>2. CASE c # b
      <4>1. \A j \in Images : imgBuf[j] # c
        BY <1>3, <1>5, <3>2, BufferIsNumber DEF Live
      <4>2. refCount[c] = 0 /\ c \notin used
        BY <1>1, <2>1, <4>1 DEF Exact, OthersFree
      <4> QED BY <1>1, <1>3, <4>2
    <3> QED BY <3>1, <3>2
  <2>7. OneCall' /\ ReallyNewData'
    BY <1>1, <2>1 DEF Exact, OneCall, ReallyNewData
  <2> QED BY <2>3, <2>4, <2>5, <2>6, <2>7 DEF Exact
<1> QED BY <1>5, <1>7, <1>8, <1>9 DEF PoolInv


-----------------------------------------------------------------------------
(* The invariant.                                                          *)

LEMMA InitPool == Init => PoolInv
<1> SUFFICES ASSUME Init PROVE PoolInv
  OBVIOUS
<1>1. TypeOK
  <2>1. 0 \in Nat /\ 0 \in Int /\ 0 \in 0 .. 2 /\ count \in 0 .. MaxBuffers
    BY PoolAssumption DEF Init
  <2>2. /\ reserved \in [Buffers -> Nat] /\ size \in [Buffers -> Nat]
        /\ refCount \in [Buffers -> Int] /\ allDatas \in [Buffers -> 0 .. 2]
        /\ hostRefs \in [Images -> Nat] /\ reg \in [Threads -> Int]
    BY <2>1 DEF Init
  <2>3. /\ used \subseteq Buffers /\ unused \subseteq Buffers
        /\ cached \subseteq Images /\ held \subseteq Images
        /\ overlap \in BOOLEAN /\ crossed \in BOOLEAN
    BY DEF Init
  <2>4. /\ imgBuf \in [Images -> Buffers \cup {None}]
        /\ pick \in [Threads -> Buffers \cup {None}]
        /\ elem \in [Threads -> Images \cup {None}]
    BY DEF Init
  <2>5. pc \in [Threads -> PCs] /\ req \in [Threads -> Sizes \cup {0}]
    BY DEF Init, PCs
  <2>6. /\ doomed \in [Threads -> SUBSET Images] /\ dying \in [Threads -> Images \cup {None}]
        /\ counted \in [Threads -> BOOLEAN] /\ cacheLock \in Threads \cup {None}
    BY DEF Init
  <2> QED BY <2>1, <2>2, <2>3, <2>4, <2>5, <2>6 DEF TypeOK
<1>2. /\ \A t \in Threads : pc[t] = "idle" /\ doomed[t] = {} /\ dying[t] = None /\ ~counted[t]
      /\ \A i \in Images : imgBuf[i] = None
      /\ \A b \in Buffers : refCount[b] = 0 /\ allDatas[b] = 0
      /\ used = {} /\ unused = {} /\ count = 0
  BY DEF Init
<1>3. BuffersExist /\ DieOnce
  BY <1>2 DEF BuffersExist, DieOnce, Chosen
<1>4. Exact
  BY <1>2 DEF Exact, OneCall, OwnMemory, ChosenIsFree, ReadIsCurrent, OthersFree, ReallyNewData,
              Chosen, Live
<1>5. RoomForNew
  <2>1. Creating = {}
    BY <1>2 DEF Creating
  <2> QED BY <1>2, <2>1, FS_EmptySet, PoolAssumption DEF RoomForNew
<1> QED BY <1>1, <1>3, <1>4, <1>5 DEF PoolInv

(* A thread goes from one place to another, neither of which has a buffer. *)
LEMMA Walks ==
  ASSUME PoolInv, NEW t \in Threads, NEW l, pc' = [pc EXCEPT ![t] = l],
         pc[t] \notin Chosen \cup {"idle"}, l \notin Chosen \cup {"put"},
         \A u \in Threads \ {t} : pick'[u] = pick[u] /\ elem'[u] = elem[u],
         l \in {"idle"} \/ pc[t] \notin {"throw", "put"},
         UNCHANGED <<count, overlap>>
  PROVE  ChoicesKept /\ StillAlone /\ RoomForNew'
<1>0. TypeOK /\ BuffersExist /\ RoomForNew /\ (~overlap => Exact)
  BY DEF PoolInv
<1>1. (\A u \in Threads \ {t} : pc'[u] = pc[u]) /\ pc'[t] = l
  BY <1>0 DEF TypeOK
<1>2. ChoicesKept
  BY <1>0, <1>1 DEF ChoicesKept, BuffersExist
<1>3. StillAlone
  BY <1>0, <1>1 DEF StillAlone, Exact, OneCall
<1>4. Creating' \subseteq Creating
  BY <1>1 DEF Creating, Chosen
<1> QED BY <1>0, <1>2, <1>3, <1>4, RoomKept

LEMMA Stays ==
  ASSUME PoolInv, UNCHANGED <<count, overlap, pc, pick, elem>>
  PROVE  ChoicesKept /\ StillAlone /\ RoomForNew'
<1>1. ChoicesKept
  BY DEF PoolInv, ChoicesKept, BuffersExist
<1>2. StillAlone /\ RoomForNew'
  BY CallsStay DEF StillAlone
<1> QED BY <1>1, <1>2

(* A thread that drops images between two steps of its own dooms those     *)
(* that nobody owns any more.                                              *)
LEMMA DropDooms ==
  ASSUME NEW t \in Threads, NEW l, l # "count", At(t, l), NEW c, NEW h, NEW e,
         Doom(t, Orphans(c, h, e))
  PROVE  Dooms
<1>1. Orphans(c, h, e) \in SUBSET (Live \ Dying)
  BY OrphansAreLive
<1>2. pc[t] # "count" /\ doomed[t] = {} /\ dying[t] = None
  BY DEF At
<1> QED BY <1>1, <1>2 DEF Dooms

LEMMA PoolStep ==
  ASSUME PoolInv, [Next]_vars
  PROVE  PoolInv'
<1>0. TypeOK'
  BY TypesStep
<1>a. TypeOK
  BY DEF PoolInv
<1>1. ASSUME NEW t \in Threads, NEW sz \in Sizes, Allocate(t, sz)
      PROVE  PoolInv'
  <2>1. /\ pc[t] = "idle" /\ pc' = [pc EXCEPT ![t] = "reuse"]
        /\ count + Cardinality(Busy) < MaxBuffers
        /\ overlap' = (overlap \/ Busy # {})
        /\ UNCHANGED <<count, refCount, allDatas, used, unused, imgBuf, pick, elem, reg>>
        /\ UNCHANGED <<doomed, dying, counted>>
    BY <1>1 DEF Allocate, At, Goto, poolVars, imageVars, deathVars
  <2>2. (\A u \in Threads \ {t} : pc'[u] = pc[u]) /\ pc'[t] = "reuse"
    BY <2>1 DEF PoolInv, TypeOK
  <2>3. ChoicesKept
    BY <2>1, <2>2 DEF PoolInv, ChoicesKept, Chosen, BuffersExist
  <2>4. StillAlone
    BY <2>1, <2>2 DEF StillAlone, Busy, OneCall
  <2>5. RoomForNew'
    <3>1. Creating' \subseteq Creating \cup {t}
      BY <2>2 DEF Creating
    <3>2. IsFiniteSet(Creating \cup {t})
          /\ Cardinality(Creating \cup {t}) <= Cardinality(Creating) + 1
      <4>1. IsFiniteSet(Creating) /\ Cardinality(Creating) \in Nat
        BY CreatingFinite
      <4>2. /\ IsFiniteSet(Creating \cup {t})
            /\ \/ Cardinality(Creating \cup {t}) = Cardinality(Creating)
               \/ Cardinality(Creating \cup {t}) = Cardinality(Creating) + 1
        BY <4>1, FS_AddElement
      <4> QED BY <4>1, <4>2
    <3>3. /\ Cardinality(Creating') <= Cardinality(Creating \cup {t})
          /\ Cardinality(Creating') \in Nat /\ Cardinality(Creating \cup {t}) \in Nat
      BY <3>1, <3>2, FS_Subset, FS_CardinalityType
    <3>4. count \in Nat /\ MaxBuffers \in Nat
      BY PoolAssumption DEF PoolInv, TypeOK
    <3> QED BY <2>1, <3>2, <3>3, <3>4, CreatingFinite DEF RoomForNew
  <2> QED BY <1>0, <2>1, <2>3, <2>4, <2>5, Moved DEF Dooms
<1>2. ASSUME NEW t \in Threads, NEW from \in {"reuse", "retry"},
             NEW otherwise \in {"scan", "check"}, FindUnused(t, from, otherwise)
      PROVE  PoolInv'
  <2>1. /\ pc[t] = from
        /\ UNCHANGED <<count, refCount, allDatas, used, unused, imgBuf, elem, overlap, reg>>
        /\ UNCHANGED <<doomed, dying, counted>>
    BY <1>2 DEF FindUnused, At, poolVars, imageVars, deathVars, history
  <2>2. CASE BestUnused(req[t]) = {}
    <3>1. pc' = [pc EXCEPT ![t] = otherwise] /\ pick' = pick
      BY <1>2, <2>2 DEF FindUnused, Goto
    <3>2. ChoicesKept /\ StillAlone /\ RoomForNew'
      BY <2>1, <3>1, Walks DEF Chosen
    <3> QED BY <1>0, <2>1, <3>1, <3>2, Moved DEF Dooms
  <2>3. ASSUME NEW b \in BestUnused(req[t]), pick' = [pick EXCEPT ![t] = b], Goto(t, "addRef")
        PROVE  PoolInv'
    <3>1. b \in Buffers /\ b \in unused
      BY <2>3 DEF BestUnused, PoolInv, TypeOK
    <3>2. pc' = [pc EXCEPT ![t] = "addRef"] /\ pc[t] \notin Chosen \cup {"idle"}
      BY <2>1, <2>3 DEF Goto, Chosen
    <3>3. count \in Nat /\ b \in Nat /\ b <= count
      BY <3>1, BufferIsNumber DEF PoolInv, BuffersExist, TypeOK
    <3>4. RoomForNew'
      <4>1. Creating' \subseteq Creating
        BY <2>1, <3>2 DEF Creating, Chosen, PoolInv, TypeOK
      <4> QED BY <2>1, <4>1, RoomKept DEF PoolInv
    <3>5. count <= count' /\ b <= count'
      BY <2>1, <3>3
    <3>6. PoolInv /\ TypeOK'
      BY <1>0
    <3> QED BY <2>1, <2>3, <3>1, <3>2, <3>4, <3>5, <3>6, Choosing
  <2> QED BY <1>2, <2>2, <2>3 DEF FindUnused
<1>3. ASSUME NEW t \in Threads, ScanCache(t)
      PROVE  PoolInv'
  <2>1. PICK l \in {"remove", "check"} : pc' = [pc EXCEPT ![t] = l]
    BY <1>3 DEF ScanCache, Goto
  <2>2. /\ pc[t] = "scan" /\ \A u \in Threads \ {t} : elem'[u] = elem[u]
        /\ UNCHANGED <<count, refCount, allDatas, used, unused, imgBuf, pick, overlap, reg>>
        /\ UNCHANGED <<doomed, dying, counted>>
    BY <1>3 DEF ScanCache, At, deathVars, poolVars, imageVars, history, PoolInv, TypeOK
  <2>3. ChoicesKept /\ StillAlone /\ RoomForNew'
    BY <2>1, <2>2, Walks DEF Chosen
  <2> QED BY <1>0, <2>2, <2>3, Moved DEF Dooms
<1>4. ASSUME NEW t \in Threads, RemoveFromCache(t)
      PROVE  PoolInv'
  <2>1. /\ pc[t] = "remove" /\ pc' = [pc EXCEPT ![t] = "retry"]
        /\ UNCHANGED <<count, refCount, allDatas, used, unused, imgBuf, pick, elem, overlap, reg>>
        /\ UNCHANGED <<doomed, dying, counted>>
    BY <1>4 DEF RemoveFromCache, At, Goto, poolVars, deathVars, history
  <2>2. ChoicesKept /\ StillAlone /\ RoomForNew'
    BY <2>1, Walks DEF Chosen
  <2> QED BY <1>0, <2>1, <2>2, Moved DEF Dooms
<1>5. ASSUME NEW t \in Threads, CheckAvailable(t) \/ RecheckAvailable(t) \/ LastCheck(t)
      PROVE  PoolInv'
  <2>1. /\ pc[t] \in {"check", "recheck", "lastCheck"}
        /\ UNCHANGED <<count, refCount, allDatas, used, unused, imgBuf, pick, elem, overlap, reg>>
        /\ UNCHANGED <<doomed, dying, counted>>
    BY <1>5 DEF CheckAvailable, RecheckAvailable, LastCheck, Check, At, poolVars, imageVars, deathVars,
                history
  <2>2. PICK l \in {"new", "clearUnused", "lastCheck", "clear", "throw"} :
          pc' = [pc EXCEPT ![t] = l]
    BY <1>5 DEF CheckAvailable, RecheckAvailable, LastCheck, Check, Goto
  <2>3. ChoicesKept /\ StillAlone /\ RoomForNew'
    BY <2>1, <2>2, Walks DEF Chosen
  <2> QED BY <1>0, <2>1, <2>3, Moved DEF Dooms
<1>6. ASSUME NEW t \in Threads, NewData(t)
      PROVE  PoolInv'
  <2>1. /\ pc[t] = "new" /\ pc' = [pc EXCEPT ![t] = "addRef"]
        /\ count' = count + 1 /\ pick' = [pick EXCEPT ![t] = count + 1]
        /\ UNCHANGED <<refCount, allDatas, used, unused, imgBuf, elem, overlap, reg>>
        /\ UNCHANGED <<doomed, dying, counted>>
    BY <1>6 DEF NewData, At, Goto, imageVars, deathVars, history
  <2>2. count + 1 \in Buffers /\ count \in Nat
    BY <2>1, RoomLeft DEF PoolInv, TypeOK
  <2>3. RoomForNew'
    <3>1. Creating' = Creating \ {t} /\ t \in Creating
      BY <2>1 DEF Creating, Chosen, PoolInv, TypeOK
    <3>2. Cardinality(Creating') = Cardinality(Creating) - 1 /\ Cardinality(Creating) \in Nat
      BY <3>1, CreatingFinite, FS_RemoveElement
    <3> QED BY <2>1, <2>2, <3>2, PoolAssumption DEF PoolInv, RoomForNew
  <2>4. PICK b \in Buffers : b = count + 1
    BY <2>2
  <2>5. count <= count' /\ b <= count' /\ b > count
    BY <2>1, <2>2, <2>4
  <2>6. pc[t] \notin Chosen \cup {"idle"} /\ pick' = [pick EXCEPT ![t] = b]
    BY <2>1, <2>4 DEF Chosen
  <2> QED BY <1>0, <2>1, <2>3, <2>5, <2>6, Choosing
<1>7. ASSUME NEW t \in Threads, ClearUnused(t)
      PROVE  PoolInv'
  <2>1. Dooms
    BY <1>7, DropDooms DEF ClearUnused, ClearUnusedImages, DoomLocked
  <2>2. /\ pc[t] = "clearUnused" /\ pc' = [pc EXCEPT ![t] = "recheck"]
        /\ UNCHANGED <<count, pick, elem, overlap, refCount, allDatas, used, unused, imgBuf, reg>>
    BY <1>7 DEF ClearUnused, ClearUnusedImages, At, Goto, poolVars, history
  <2>3. ChoicesKept /\ StillAlone /\ RoomForNew'
    BY <2>2, Walks DEF Chosen
  <2> QED BY <1>0, <2>1, <2>2, <2>3, Moved
<1>8. ASSUME NEW t \in Threads, Throw(t)
      PROVE  PoolInv'
  <2>1. Dooms
    BY <1>8, DropDooms DEF Throw, Unwind
  <2>2. /\ pc[t] = "throw" /\ pc' = [pc EXCEPT ![t] = "idle"]
        /\ \A u \in Threads \ {t} : pick'[u] = pick[u] /\ elem'[u] = elem[u]
        /\ UNCHANGED <<count, overlap, refCount, allDatas, used, unused, imgBuf, reg>>
    BY <1>8, <1>a DEF Throw, Unwind, At, Goto, poolVars, history, TypeOK
  <2>3. ChoicesKept /\ StillAlone /\ RoomForNew'
    BY <2>2, Walks DEF Chosen
  <2> QED BY <1>0, <2>1, <2>2, <2>3, Moved
<1>9. ASSUME NEW t \in Threads, Put(t)
      PROVE  PoolInv'
  <2>1. Dooms
    BY <1>9, DropDooms DEF Put, DoomLocked
  <2>2. /\ pc[t] = "put" /\ pc' = [pc EXCEPT ![t] = "idle"]
        /\ \A u \in Threads \ {t} : pick'[u] = pick[u] /\ elem'[u] = elem[u]
        /\ UNCHANGED <<count, overlap, refCount, allDatas, used, unused, imgBuf, reg>>
    BY <1>9, <1>a DEF Put, At, Goto, poolVars, history, TypeOK
  <2>3. ChoicesKept /\ StillAlone /\ RoomForNew'
    BY <2>2, Walks DEF Chosen
  <2> QED BY <1>0, <2>1, <2>2, <2>3, Moved
<1>10. ASSUME NEW t \in Threads, NEW i \in Images, LetGo(t, i)
       PROVE  PoolInv'
  <2>1. Dooms
    BY <1>10, DropDooms DEF LetGo
  <2>2. UNCHANGED <<count, overlap, pc, pick, elem, refCount, allDatas, used, unused, imgBuf, reg>>
    BY <1>10 DEF LetGo, poolVars, callVars, history
  <2>3. ChoicesKept /\ StillAlone /\ RoomForNew'
    BY <2>2, Stays
  <2> QED BY <1>0, <2>1, <2>2, <2>3, Moved
<1>11. ASSUME NEW t \in Threads, ClearCache(t)
       PROVE  PoolInv'
  <2>1. Dooms
    BY <1>11, DropDooms DEF ClearCache, ClearUnusedImages, DoomLocked
  <2>2. UNCHANGED <<count, overlap, pc, pick, elem, refCount, allDatas, used, unused, imgBuf, reg>>
    BY <1>11 DEF ClearCache, ClearUnusedImages, poolVars, callVars, history
  <2>3. ChoicesKept /\ StillAlone /\ RoomForNew'
    BY <2>2, Stays
  <2> QED BY <1>0, <2>1, <2>2, <2>3, Moved
<1>12. CASE \/ \E i \in Images : ReleaseHostRef(i)
            \/ \E i \in Images, n \in 1 .. MaxRefs : AddHostRefs(i, n)
            \/ UNCHANGED vars
  <2>1. /\ UNCHANGED <<count, refCount, allDatas, used, unused, imgBuf>>
        /\ UNCHANGED <<overlap, pc, pick, elem, reg, doomed, dying, counted>>
    BY <1>12 DEF ReleaseHostRef, AddHostRefs, vars, poolVars, imageVars, callVars, deathVars, history
  <2>2. ChoicesKept /\ StillAlone /\ RoomForNew'
    BY <2>1, Stays
  <2> QED BY <1>0, <2>1, <2>2, Moved DEF Dooms
<1>13. ASSUME NEW t \in Threads, TryReuse(t) \/ RetryReuse(t)
       PROVE  PoolInv'
  BY <1>2, <1>13 DEF TryReuse, RetryReuse
<1>14. ASSUME NEW t \in Threads,
              \/ AddRef(t) \/ Count(t) \/ Referenced(t) \/ Return(t) \/ Clear(t)
              \/ ReleaseBegin(t) \/ ReleaseCount(t) \/ ReleaseReport(t)
       PROVE  PoolInv'
  <2>1. CASE AddRef(t) \/ Count(t) \/ Referenced(t)
    BY <1>0, <2>1, AddRefStep, CountStep, ReferencedStep
  <2>2. CASE Return(t) \/ Clear(t)
    BY <1>0, <2>2, ReturnStep, ClearStep
  <2>3. CASE ReleaseBegin(t) \/ ReleaseCount(t) \/ ReleaseReport(t)
    BY <1>0, <2>3, BeginStep, ReleaseCountStep, ReportStep
  <2> QED BY <1>14, <2>1, <2>2, <2>3
<1> QED
  BY <1>1, <1>3, <1>4, <1>5, <1>6, <1>7, <1>8, <1>9, <1>10, <1>11, <1>12, <1>13, <1>14 DEF Next

(* PoolInv holds of every state of the pool and the cache. *)
THEOREM PoolInvariant == Spec => []PoolInv
  BY InitPool, PoolStep, PTL DEF Spec

(* The types of the state: in particular a call that creates a buffer has  *)
(* room for it and no host reference count goes below zero.                *)
THEOREM PoolTypes == Spec => []TypeOK
  BY PoolInvariant, PTL DEF PoolInv

(* Whose a buffer is while calls do not overlap: an image's, a call's that *)
(* has counted itself, or nobody's.                                        *)
LEMMA OneClient ==
  ASSUME PoolInv, ~overlap, NEW b \in Buffers
  PROVE  \/ \E i \in Live :
              /\ imgBuf[i] = b /\ ImagesOn(b) = {i} /\ CallsOn(b) = {}
              /\ b \in used /\ b \notin unused
              /\ i \in CountedOut => refCount[b] = 0
              /\ i \notin CountedOut => refCount[b] = 1
         \/ \E t \in Threads :
              /\ pick[t] = b /\ ImagesOn(b) = {} /\ CallsOn(b) = {t} /\ refCount[b] = 1
              /\ \/ pc[t] = "referenced" /\ b \notin used
                 \/ pc[t] = "return" /\ b \in used /\ b \notin unused
         \/ ImagesOn(b) = {} /\ CallsOn(b) = {} /\ refCount[b] = 0 /\ b \notin used
<1>1. TypeOK /\ Exact /\ b # None
  BY BufferIsNumber DEF PoolInv
<1>2. ASSUME NEW i \in ImagesOn(b)
      PROVE  /\ i \in Live /\ imgBuf[i] = b /\ ImagesOn(b) = {i} /\ CallsOn(b) = {}
             /\ b \in used /\ b \notin unused
             /\ i \in CountedOut => refCount[b] = 0
             /\ i \notin CountedOut => refCount[b] = 1
  <2>1. i \in Live /\ i \in Images /\ imgBuf[i] = b
    BY <1>1, <1>2 DEF ImagesOn, Live
  <2>2. ImagesOn(b) = {i}
    BY <1>1, <2>1 DEF Exact, OwnMemory, ImagesOn
  <2>3. CallsOn(b) = {}
    BY <1>1, <2>1 DEF Exact, ChosenIsFree, CallsOn, Chosen
  <2> QED BY <1>1, <2>1, <2>2, <2>3 DEF Exact, OwnMemory
<1>3. ASSUME NEW t \in CallsOn(b)
      PROVE  /\ t \in Threads /\ pick[t] = b /\ ImagesOn(b) = {} /\ CallsOn(b) = {t}
             /\ refCount[b] = 1
             /\ \/ pc[t] = "referenced" /\ b \notin used
                \/ pc[t] = "return" /\ b \in used /\ b \notin unused
  <2>1. t \in Threads /\ pick[t] = b /\ pc[t] \in {"referenced", "return"}
    BY <1>3 DEF CallsOn
  <2>2. CallsOn(b) = {t}
    BY <1>1, <2>1 DEF Exact, OneCall, CallsOn
  <2> QED BY <1>1, <2>1, <2>2 DEF Exact, ChosenIsFree, ImagesOn, Chosen
<1>4. ASSUME ImagesOn(b) = {}, CallsOn(b) = {}
      PROVE  refCount[b] = 0 /\ b \notin used
  BY <1>1, <1>4 DEF Exact, OthersFree, ImagesOn, CallsOn
<1> QED BY <1>2, <1>3, <1>4

(* _refCount counts the images and the calls that use a buffer as long as  *)
(* calls of allocate do not overlap, although it is read and written back  *)
(* without a lock while other threads drop images.                         *)
THEOREM RefCountsAreExact == Spec => []RefCountIsClients
<1>1. PoolInv => RefCountIsClients
  <2> SUFFICES ASSUME PoolInv, ~overlap, NEW b \in Buffers
               PROVE  refCount[b] = Cardinality(ClientsOn(b)) + Cardinality(CallsOn(b))
    BY DEF RefCountIsClients, CountsClients
  <2>1. Cardinality({}) = 0 /\ \A x : Cardinality({x}) = 1
    BY FS_EmptySet, FS_Singleton
  <2>2. ASSUME NEW i \in Live, ImagesOn(b) = {i}, CallsOn(b) = {},
               i \in CountedOut => refCount[b] = 0, i \notin CountedOut => refCount[b] = 1
        PROVE  refCount[b] = Cardinality(ClientsOn(b)) + Cardinality(CallsOn(b))
    <3>1. CASE i \in CountedOut
      <4>1. ClientsOn(b) = {}
        BY <2>2, <3>1 DEF ClientsOn
      <4> QED BY <2>1, <2>2, <3>1, <4>1
    <3>2. CASE i \notin CountedOut
      <4>1. ClientsOn(b) = {i}
        BY <2>2, <3>2 DEF ClientsOn
      <4> QED BY <2>1, <2>2, <3>2, <4>1
    <3> QED BY <3>1, <3>2
  <2>3. ASSUME ImagesOn(b) = {}
        PROVE  ClientsOn(b) = {}
    BY <2>3 DEF ClientsOn
  <2>4. ASSUME NEW t \in Threads, ImagesOn(b) = {}, CallsOn(b) = {t}, refCount[b] = 1
        PROVE  refCount[b] = Cardinality(ClientsOn(b)) + Cardinality(CallsOn(b))
    <3>1. ClientsOn(b) = {}
      BY <2>3, <2>4
    <3>2. Cardinality(ClientsOn(b)) = 0 /\ Cardinality(CallsOn(b)) = 1
      BY <2>1, <2>4, <3>1
    <3> QED BY <2>4, <3>2
  <2>5. ASSUME ImagesOn(b) = {}, CallsOn(b) = {}, refCount[b] = 0
        PROVE  refCount[b] = Cardinality(ClientsOn(b)) + Cardinality(CallsOn(b))
    BY <2>1, <2>3, <2>5
  <2> QED BY <2>2, <2>4, <2>5, OneClient
<1> QED BY <1>1, PoolInvariant, PTL

(* As long as calls do not overlap, a buffer is in _dataUsed exactly from  *)
(* its registration until its last client has told the pool, and not in    *)
(* _dataUnused meanwhile, although the count and the lists change in       *)
(* separate steps.                                                         *)
THEOREM UsedListIsExact == Spec => []UsedWhileReferenced
<1>1. PoolInv => UsedWhileReferenced
  <2> SUFFICES ASSUME PoolInv, ~overlap, NEW b \in Buffers,
                      NEW registering, registering = (\E t \in Threads : pc[t] = "referenced" /\ pick[t] = b),
                      NEW reporting, reporting = (ImagesOn(b) \cap CountedOut # {})
               PROVE  /\ b \in used <=> (refCount[b] > 0 /\ ~registering) \/ reporting
                      /\ b \in unused => (refCount[b] = 0 \/ registering) /\ ~reporting
    BY DEF UsedWhileReferenced
  <2>1. registering <=> \E t \in CallsOn(b) : pc[t] = "referenced"
    BY DEF CallsOn
  <2>2. ASSUME NEW i \in Live, ImagesOn(b) = {i}, CallsOn(b) = {}, b \in used, b \notin unused,
               i \in CountedOut => refCount[b] = 0, i \notin CountedOut => refCount[b] = 1
        PROVE  /\ b \in used <=> (refCount[b] > 0 /\ ~registering) \/ reporting
               /\ b \in unused => (refCount[b] = 0 \/ registering) /\ ~reporting
    <3>1. ~registering /\ (reporting <=> i \in CountedOut)
      BY <2>1, <2>2
    <3> QED BY <2>2, <3>1
  <2>3. ASSUME NEW t \in Threads, ImagesOn(b) = {}, CallsOn(b) = {t}, refCount[b] = 1,
               \/ pc[t] = "referenced" /\ b \notin used
               \/ pc[t] = "return" /\ b \in used /\ b \notin unused
        PROVE  /\ b \in used <=> (refCount[b] > 0 /\ ~registering) \/ reporting
               /\ b \in unused => (refCount[b] = 0 \/ registering) /\ ~reporting
    <3>1. ~reporting /\ (registering <=> pc[t] = "referenced")
      BY <2>1, <2>3
    <3> QED BY <2>3, <3>1
  <2>4. ASSUME ImagesOn(b) = {}, CallsOn(b) = {}, refCount[b] = 0, b \notin used
        PROVE  /\ b \in used <=> (refCount[b] > 0 /\ ~registering) \/ reporting
               /\ b \in unused => (refCount[b] = 0 \/ registering) /\ ~reporting
    <3>1. ~registering /\ ~reporting
      BY <2>1, <2>4
    <3> QED BY <2>4, <3>1
  <2> QED BY <2>2, <2>3, <2>4, OneClient
<1> QED BY <1>1, PoolInvariant, PTL

(* Calls of allocate that do not overlap never give two live images the    *)
(* same memory.                                                            *)
THEOREM MemoryIsNotShared == Spec => []MemoryNeverShared
<1>1. PoolInv => MemoryNeverShared
  <2> SUFFICES ASSUME PoolInv, ~overlap, NEW b \in Buffers
               PROVE  Cardinality(ImagesOn(b)) <= 1
    BY DEF MemoryNeverShared
  <2>1. Cardinality({}) = 0 /\ \A i : Cardinality({i}) = 1
    BY FS_EmptySet, FS_Singleton
  <2>2. ImagesOn(b) = {} \/ \E i \in Live : ImagesOn(b) = {i}
    BY OneClient
  <2> QED BY <2>1, <2>2
<1> QED BY <1>1, PoolInvariant, PTL

(* Calls that do not overlap never leave the memory of a live image where  *)
(* the search for an available buffer can find it.                         *)
THEOREM ImagesKeepMemory == Spec => []ImagesKeepTheirMemory
<1>1. PoolInv => ImagesKeepTheirMemory
  BY DEF PoolInv, Exact, OwnMemory, ImagesKeepTheirMemory
<1> QED BY <1>1, PoolInvariant, PTL

(* Calls that do not overlap put each buffer in the owning list once, so   *)
(* that it is deleted once.                                                *)
THEOREM BuffersAreOwnedOnce == Spec => []OwnedOnceAlone
<1>1. PoolInv => OwnedOnceAlone
  BY DEF PoolInv, Exact, OwnedOnceAlone
<1> QED BY <1>1, PoolInvariant, PTL

(* setSize of a reused buffer never reaches the memory of a live image, as *)
(* long as calls of allocate do not overlap.                               *)
THEOREM ImagesKeepSize == Spec => NoResizeInUse
<1> DEFINE Kept == ~overlap' => \A i \in Live : imgBuf'[i] = imgBuf[i] => size'[imgBuf[i]] = size[imgBuf[i]]
<1>1. ASSUME PoolInv, [Next]_vars
      PROVE  Kept
  <2>1. ASSUME NEW t \in Threads, AddRef(t)
        PROVE  Kept
    <3> SUFFICES ASSUME ~overlap', NEW i \in Live
                 PROVE  size'[imgBuf[i]] = size[imgBuf[i]]
      OBVIOUS
    <3>1. pc[t] = "addRef" /\ ~overlap /\ size' = [size EXCEPT ![pick[t]] = req[t]]
      BY <2>1 DEF AddRef, At, history
    <3>2. TypeOK /\ Exact
      BY <1>1, <3>1 DEF PoolInv
    <3>3. imgBuf[i] \in Buffers /\ imgBuf[i] # pick[t]
      BY <3>1, <3>2 DEF Live, Exact, ChosenIsFree, Chosen, TypeOK
    <3> QED BY <3>1, <3>2, <3>3 DEF TypeOK
  <2>2. \/ \E t \in Threads : AddRef(t)
        \/ size' = size
    <3>1. ASSUME NEW t \in Threads, NEW sz \in Sizes, Allocate(t, sz)
          PROVE  size' = size
      BY <3>1 DEF Allocate, poolVars
    <3>2. ASSUME NEW t \in Threads,
                 \/ TryReuse(t) \/ ScanCache(t) \/ RemoveFromCache(t) \/ RetryReuse(t)
                 \/ CheckAvailable(t) \/ RecheckAvailable(t) \/ LastCheck(t)
          PROVE  size' = size
      BY <3>2 DEF TryReuse, RetryReuse, FindUnused, ScanCache, RemoveFromCache,
                  CheckAvailable, RecheckAvailable, LastCheck, Check, poolVars
    <3>3. ASSUME NEW t \in Threads, Clear(t) \/ NewData(t) \/ Count(t) \/ Referenced(t)
          PROVE  size' = size
      BY <3>3 DEF Clear, NewData, Count, Referenced
    <3>4. ASSUME NEW t \in Threads,
                 ClearUnused(t) \/ ClearCache(t) \/ Return(t) \/ Throw(t) \/ Put(t)
          PROVE  size' = size
      BY <3>4 DEF ClearUnused, ClearCache, ClearUnusedImages, Return, Throw, Unwind, Put, poolVars
    <3>5. ASSUME NEW i \in Images, \/ ReleaseHostRef(i) \/ \E t \in Threads : LetGo(t, i)
                                   \/ \E n \in 1 .. MaxRefs : AddHostRefs(i, n)
          PROVE  size' = size
      BY <3>5 DEF ReleaseHostRef, LetGo, AddHostRefs, poolVars
    <3>6. ASSUME NEW t \in Threads, ReleaseBegin(t) \/ ReleaseCount(t) \/ ReleaseReport(t)
          PROVE  size' = size
      BY <3>6 DEF ReleaseBegin, ReleaseCount, ReleaseReport, poolVars
    <3>7. CASE UNCHANGED vars
      BY <3>7 DEF vars, poolVars
    <3> QED BY <1>1, <3>1, <3>2, <3>3, <3>4, <3>5, <3>6, <3>7 DEF Next
  <2>3. CASE size' = size
    BY <2>3
  <2> QED BY <2>1, <2>2, <2>3
<1> QED BY <1>1, PoolInvariant, PTL DEF Spec, NoResizeInUse

-----------------------------------------------------------------------------
(* The memory in use.                                                      *)

(* A set of natural numbers has a minimum. *)
LEMMA NatMin ==
  ASSUME NEW S \in SUBSET Nat, S # {}
  PROVE  \E n \in S : \A m \in S : n <= m
<1>1. PICK x \in S : \A y \in S : ~ (<<y, x>> \in OpToRel(<, Nat))
  BY NatLessThanWellFounded, WFMin
<1>2. \A y \in S : ~ (y < x)
  BY <1>1 DEF OpToRel
<1> QED
  BY <1>2

Part(sizes, bs, b) == IF b \in bs THEN sizes[b] ELSE 0

(* sum holds the sizes of the buffers of bs up to each buffer, to n. *)
SumsTo(sum, n, sizes, bs) ==
  sum = [b \in 0 .. n |-> IF b = 0 THEN 0 ELSE sum[b - 1] + Part(sizes, bs, b)]

LEMMA SumsExist ==
  ASSUME NEW sizes \in [Buffers -> Nat], NEW bs, NEW n \in 0 .. MaxBuffers
  PROVE  \E sum \in [0 .. n -> Nat] : SumsTo(sum, n, sizes, bs)
<1> DEFINE Stuck == {k \in 0 .. MaxBuffers : \A sum \in [0 .. k -> Nat] : ~SumsTo(sum, k, sizes, bs)}
<1> SUFFICES ASSUME Stuck # {}
             PROVE  FALSE
  OBVIOUS
<1>1. PICK k \in Stuck : \A j \in Stuck : k <= j
  <2>1. Stuck \in SUBSET Nat
    OBVIOUS
  <2> HIDE DEF Stuck
  <2> QED
    BY <2>1, NatMin
<1>2. CASE k = 0
  <2> DEFINE sum == [b \in 0 .. 0 |-> 0]
  <2>1. /\ sum \in [0 .. 0 -> Nat]
        /\ sum = [b \in 0 .. 0 |-> IF b = 0 THEN 0 ELSE sum[b - 1] + Part(sizes, bs, b)]
    OBVIOUS
  <2> QED
    BY <1>1, <1>2, <2>1 DEF SumsTo
<1>3. CASE k # 0
  <2>1. k \in 1 .. MaxBuffers /\ k - 1 \in 0 .. MaxBuffers /\ k - 1 \notin Stuck
    <3>1. k \in 0 .. MaxBuffers /\ MaxBuffers \in Nat /\ k \in Stuck /\ k # 0
      BY <1>1, <1>3, PoolAssumption
    <3> HIDE DEF Stuck
    <3>2. k \in 1 .. MaxBuffers /\ k - 1 \in 0 .. MaxBuffers /\ ~ (k <= k - 1)
      BY <3>1
    <3> QED
      BY <1>1, <3>2
  <2>2. PICK f \in [0 .. k - 1 -> Nat] : SumsTo(f, k - 1, sizes, bs)
    BY <2>1
  <2>3. \A b \in 0 .. k - 1 : f[b] = IF b = 0 THEN 0 ELSE f[b - 1] + Part(sizes, bs, b)
    BY <2>2 DEF SumsTo
  <2>4. \A b \in 1 .. k : Part(sizes, bs, b) \in Nat
    BY <2>1, PoolAssumption DEF Part, Buffers
  <2> DEFINE sum == [b \in 0 .. k |-> IF b = 0 THEN 0 ELSE f[b - 1] + Part(sizes, bs, b)]
  <2>5. \A b \in 0 .. k - 1 : sum[b] = f[b]
    BY <2>1, <2>3
  <2>6. \A b \in 0 .. k : b # 0 => b - 1 \in 0 .. k - 1 /\ f[b - 1] \in Nat /\ b \in 1 .. k
    BY <2>1
  <2>7. \A b \in 0 .. k : sum[b] \in Nat
    BY <2>4, <2>6
  <2>8. \A b \in 0 .. k : (IF b = 0 THEN 0 ELSE f[b - 1] + Part(sizes, bs, b))
                            = IF b = 0 THEN 0 ELSE sum[b - 1] + Part(sizes, bs, b)
    BY <2>5, <2>6
  <2>9. sum \in [0 .. k -> Nat] /\ SumsTo(sum, k, sizes, bs)
    BY <2>7, <2>8 DEF SumsTo
  <2> QED
    BY <1>1, <2>9
<1> QED
  BY <1>2, <1>3

(* The total is the last of sums that start from nothing and add one       *)
(* buffer at a time.                                                       *)
LEMMA TotalIsASum ==
  ASSUME NEW sizes \in [Buffers -> Nat], NEW bs
  PROVE  \E sum \in [0 .. MaxBuffers -> Nat] :
           /\ sum[0] = 0
           /\ \A b \in Buffers : b - 1 \in 0 .. MaxBuffers /\ sum[b] = sum[b - 1] + Part(sizes, bs, b)
           /\ TotalSize(sizes, bs) = sum[MaxBuffers]
<1> DEFINE Is(f) == f = [b \in 0 .. MaxBuffers |->
                           IF b = 0 THEN 0 ELSE f[b - 1] + (IF b \in bs THEN sizes[b] ELSE 0)]
           sum == CHOOSE f : Is(f)
<1>1. MaxBuffers \in 0 .. MaxBuffers /\ 0 \in 0 .. MaxBuffers
  BY PoolAssumption
<1>2. PICK g \in [0 .. MaxBuffers -> Nat] : SumsTo(g, MaxBuffers, sizes, bs)
  BY <1>1, SumsExist
<1>3. Is(g)
  BY <1>2 DEF SumsTo, Part
<1>4. Is(sum)
  <2> HIDE DEF Is
  <2> QED
    BY <1>3
<1>5. TotalSize(sizes, bs) = sum[MaxBuffers]
  BY DEF TotalSize
<1> HIDE DEF sum
<1>6. \A b \in Buffers : b \in 0 .. MaxBuffers /\ b # 0 /\ b - 1 \in 0 .. MaxBuffers
  BY PoolAssumption DEF Buffers
<1>7. /\ sum[0] = 0 /\ g[0] = 0
      /\ \A b \in Buffers : /\ sum[b] = sum[b - 1] + Part(sizes, bs, b)
                            /\ g[b] = g[b - 1] + Part(sizes, bs, b)
  BY <1>1, <1>3, <1>4, <1>6 DEF Part
<1>8. \A b \in 0 .. MaxBuffers : sum[b] = g[b]
  <2> DEFINE Differ == {b \in 0 .. MaxBuffers : sum[b] # g[b]}
  <2> SUFFICES ASSUME Differ # {} PROVE FALSE
    OBVIOUS
  <2>1. Differ \in SUBSET Nat
    OBVIOUS
  <2>2. PICK k \in Differ : \A j \in Differ : k <= j
    <3> HIDE DEF Differ
    <3> QED
      BY <2>1, NatMin
  <2>3. k \in Buffers
    BY <1>7, <2>2, PoolAssumption DEF Buffers
  <2>4. k - 1 \in 0 .. MaxBuffers /\ k - 1 \notin Differ
    BY <1>6, <2>2, <2>3
  <2> QED
    BY <1>7, <2>2, <2>3, <2>4
<1> QED
  BY <1>1, <1>2, <1>5, <1>6, <1>7, <1>8

LEMMA TotalType ==
  ASSUME NEW sizes \in [Buffers -> Nat], NEW bs
  PROVE  TotalSize(sizes, bs) \in Nat
BY TotalIsASum, PoolAssumption

(* Fewer buffers hold no more memory. *)
LEMMA TotalGrows ==
  ASSUME NEW sizes \in [Buffers -> Nat], NEW bs, NEW cs \in SUBSET bs
  PROVE  TotalSize(sizes, cs) <= TotalSize(sizes, bs)
<1>1. PICK f \in [0 .. MaxBuffers -> Nat] :
        /\ f[0] = 0
        /\ \A b \in Buffers : b - 1 \in 0 .. MaxBuffers /\ f[b] = f[b - 1] + Part(sizes, bs, b)
        /\ TotalSize(sizes, bs) = f[MaxBuffers]
  BY TotalIsASum
<1>2. PICK g \in [0 .. MaxBuffers -> Nat] :
        /\ g[0] = 0
        /\ \A b \in Buffers : b - 1 \in 0 .. MaxBuffers /\ g[b] = g[b - 1] + Part(sizes, cs, b)
        /\ TotalSize(sizes, cs) = g[MaxBuffers]
  BY TotalIsASum
<1> DEFINE Above == {b \in 0 .. MaxBuffers : ~ (g[b] <= f[b])}
<1>3. Above = {}
  <2> SUFFICES ASSUME Above # {} PROVE FALSE
    OBVIOUS
  <2>1. Above \in SUBSET Nat
    OBVIOUS
  <2>2. PICK k \in Above : \A j \in Above : k <= j
    <3> HIDE DEF Above
    <3> QED
      BY <2>1, NatMin
  <2>3. k \in Buffers
    BY <1>1, <1>2, <2>2, PoolAssumption DEF Buffers
  <2>4. k - 1 \in 0 .. MaxBuffers /\ g[k - 1] <= f[k - 1] /\ g[k - 1] \in Nat /\ f[k - 1] \in Nat
    BY <1>1, <2>2, <2>3
  <2>5. Part(sizes, cs, k) <= Part(sizes, bs, k)
        /\ Part(sizes, cs, k) \in Nat /\ Part(sizes, bs, k) \in Nat
    BY <2>3 DEF Part
  <2>6. g[k] <= f[k]
    BY <1>1, <1>2, <2>3, <2>4, <2>5
  <2> QED
    BY <2>2, <2>6
<1> QED
  BY <1>1, <1>2, <1>3, PoolAssumption

(* One more buffer adds its size. *)
LEMMA TotalOfOneMore ==
  ASSUME NEW sizes \in [Buffers -> Nat], NEW bs, NEW c \in Buffers, c \notin bs
  PROVE  TotalSize(sizes, bs \cup {c}) = TotalSize(sizes, bs) + sizes[c]
<1> DEFINE cs == bs \cup {c}
<1>1. PICK f \in [0 .. MaxBuffers -> Nat] :
        /\ f[0] = 0
        /\ \A b \in Buffers : b - 1 \in 0 .. MaxBuffers /\ f[b] = f[b - 1] + Part(sizes, bs, b)
        /\ TotalSize(sizes, bs) = f[MaxBuffers]
  BY TotalIsASum
<1>2. PICK g \in [0 .. MaxBuffers -> Nat] :
        /\ g[0] = 0
        /\ \A b \in Buffers : b - 1 \in 0 .. MaxBuffers /\ g[b] = g[b - 1] + Part(sizes, cs, b)
        /\ TotalSize(sizes, cs) = g[MaxBuffers]
  BY TotalIsASum
<1>3. \A b \in Buffers : /\ Part(sizes, bs, b) \in Nat
                         /\ Part(sizes, cs, b) = Part(sizes, bs, b) + (IF b = c THEN sizes[c] ELSE 0)
  BY DEF Part
<1>4. c \in 1 .. MaxBuffers /\ sizes[c] \in Nat
  BY DEF Buffers
<1> DEFINE Wrong == {b \in 0 .. MaxBuffers : g[b] # f[b] + (IF c <= b THEN sizes[c] ELSE 0)}
<1> HIDE DEF cs
<1>5. Wrong = {}
  <2> SUFFICES ASSUME Wrong # {} PROVE FALSE
    OBVIOUS
  <2>1. Wrong \in SUBSET Nat
    OBVIOUS
  <2>2. PICK k \in Wrong : \A j \in Wrong : k <= j
    <3> HIDE DEF Wrong
    <3> QED
      BY <2>1, NatMin
  <2>3. k # 0
    BY <1>1, <1>2, <1>4, <2>2
  <2>4. k \in Buffers /\ k - 1 \in 0 .. MaxBuffers /\ k - 1 \notin Wrong
    <3>1. k \in 0 .. MaxBuffers
      BY <2>2
    <3>2. k \in Buffers /\ k - 1 \in 0 .. MaxBuffers /\ ~(k <= k - 1)
      BY <2>3, <3>1, PoolAssumption DEF Buffers
    <3> HIDE DEF Wrong
    <3> QED
      BY <2>2, <3>2
  <2>5. g[k - 1] = f[k - 1] + (IF c <= k - 1 THEN sizes[c] ELSE 0) /\ f[k - 1] \in Nat
    BY <2>4
  <2>6. /\ g[k] = g[k - 1] + Part(sizes, bs, k) + (IF k = c THEN sizes[c] ELSE 0)
        /\ f[k] = f[k - 1] + Part(sizes, bs, k) /\ Part(sizes, bs, k) \in Nat
    <3>1. g[k] = g[k - 1] + Part(sizes, cs, k)
      BY <1>2, <2>4
    <3>2. Part(sizes, cs, k) = Part(sizes, bs, k) + (IF k = c THEN sizes[c] ELSE 0)
          /\ Part(sizes, bs, k) \in Nat
      BY <1>3, <2>4
    <3>3. f[k] = f[k - 1] + Part(sizes, bs, k)
      BY <1>1, <2>4
    <3> QED
      BY <1>4, <2>5, <3>1, <3>2, <3>3
  <2>7. g[k] = f[k] + (IF c <= k THEN sizes[c] ELSE 0)
    <3>1. k \in Nat /\ c \in Nat
      BY <1>4, <2>2
    <3> QED
      BY <1>4, <2>5, <2>6, <3>1
  <2> QED
    BY <2>2, <2>7
<1>6. g[MaxBuffers] = f[MaxBuffers] + sizes[c]
  BY <1>4, <1>5, PoolAssumption
<1> QED
  BY <1>1, <1>2, <1>6 DEF cs

(* The size of a buffer that is not counted does not matter. *)
LEMMA TotalOfSame ==
  ASSUME NEW sizes \in [Buffers -> Nat], NEW others \in [Buffers -> Nat], NEW bs,
         \A b \in Buffers : b \in bs => sizes[b] = others[b]
  PROVE  TotalSize(sizes, bs) = TotalSize(others, bs)
<1>1. PICK f \in [0 .. MaxBuffers -> Nat] :
        /\ f[0] = 0
        /\ \A b \in Buffers : b - 1 \in 0 .. MaxBuffers /\ f[b] = f[b - 1] + Part(sizes, bs, b)
        /\ TotalSize(sizes, bs) = f[MaxBuffers]
  BY TotalIsASum
<1>2. PICK g \in [0 .. MaxBuffers -> Nat] :
        /\ g[0] = 0
        /\ \A b \in Buffers : b - 1 \in 0 .. MaxBuffers /\ g[b] = g[b - 1] + Part(others, bs, b)
        /\ TotalSize(others, bs) = g[MaxBuffers]
  BY TotalIsASum
<1>3. \A b \in Buffers : Part(sizes, bs, b) = Part(others, bs, b)
  BY DEF Part
<1> DEFINE Differ == {b \in 0 .. MaxBuffers : f[b] # g[b]}
<1>4. Differ = {}
  <2> SUFFICES ASSUME Differ # {} PROVE FALSE
    OBVIOUS
  <2>1. Differ \in SUBSET Nat
    OBVIOUS
  <2>2. PICK k \in Differ : \A j \in Differ : k <= j
    <3> HIDE DEF Differ
    <3> QED
      BY <2>1, NatMin
  <2>3. k \in Buffers
    BY <1>1, <1>2, <2>2, PoolAssumption DEF Buffers
  <2>4. k - 1 \in 0 .. MaxBuffers /\ k - 1 \notin Differ
    BY <1>1, <2>2, <2>3
  <2> QED
    BY <1>1, <1>2, <1>3, <2>2, <2>3, <2>4
<1>5. MaxBuffers \in 0 .. MaxBuffers
  BY PoolAssumption
<1> QED
  BY <1>1, <1>2, <1>4, <1>5

(* What is free is found, as long as the memory in use has not gone beyond *)
(* an authorized size that an int can hold.                                *)
LEMMA AvailableIsFree ==
  ASSUME MaxMemory <= IntMax, InUse \in Nat, InUse <= MaxMemory
  PROVE  Available = MaxMemory - InUse
<1>1. \A n \in Nat, m \in Nat : n < m => n % m = n
  OBVIOUS
<1>2. UsedSize = InUse
  <2>1. IntMax \in Nat /\ MaxMemory \in Nat
    BY PoolAssumption
  <2>2. /\ InUse + IntMax + 1 \in Nat /\ 2 * (IntMax + 1) \in Nat
        /\ InUse + IntMax + 1 < 2 * (IntMax + 1)
    BY <2>1
  <2>3. (InUse + IntMax + 1) % (2 * (IntMax + 1)) = InUse + IntMax + 1
    BY <1>1, <2>2
  <2> QED
    BY <2>1, <2>3 DEF UsedSize, AsInt
<1>3. /\ MaxMemory - InUse \in Nat /\ SizeT \in Nat /\ MaxMemory - InUse < SizeT
  BY PoolAssumption
<1> QED
  BY <1>1, <1>2, <1>3 DEF Available

Asks == {"addRef", "count", "referenced"}

(* What is in use has gone beyond the authorized size only if it has       *)
(* crossed it, and, without overlap, what an allocation has found          *)
(* available is still there when it takes it.                              *)
SizeInv ==
  /\ ~crossed => InUse <= MaxMemory
  /\ MaxMemory <= IntMax /\ ~overlap /\ ~crossed =>
       \A t \in Threads :
         /\ pc[t] = "new" => req[t] + InUse <= MaxMemory
         /\ pc[t] \in Asks /\ pick[t] \notin unused => reserved[pick[t]] + InUse <= MaxMemory

LEMMA InUseType ==
  ASSUME TypeOK
  PROVE  InUse \in Nat
BY TotalType DEF TypeOK, InUse

LEMMA UsedExist ==
  ASSUME PoolInv, NEW b \in used
  PROVE  b \in Buffers /\ b <= count
<1>1. b \in Buffers /\ b \in Nat /\ count \in Nat
  BY BufferIsNumber DEF PoolInv, TypeOK
<1>2. ~(b > count)
  BY <1>1 DEF PoolInv, BuffersExist
<1> QED BY <1>1, <1>2

LEMMA InitSizes == Init => SizeInv
<1> SUFFICES ASSUME Init PROVE SizeInv
  OBVIOUS
<1>1. reserved \in [Buffers -> Nat] /\ used = {} /\ \A b \in Buffers : reserved[b] = 0
  BY DEF Init
<1>2. PICK sum \in [0 .. MaxBuffers -> Nat] :
        /\ sum[0] = 0
        /\ \A b \in Buffers : b - 1 \in 0 .. MaxBuffers /\ sum[b] = sum[b - 1] + Part(reserved, used, b)
        /\ InUse = sum[MaxBuffers]
  BY <1>1, TotalIsASum DEF InUse
<1> DEFINE Some == {b \in 0 .. MaxBuffers : sum[b] # 0}
<1>3. Some = {}
  <2> SUFFICES ASSUME Some # {} PROVE FALSE
    OBVIOUS
  <2>1. Some \in SUBSET Nat
    OBVIOUS
  <2>2. PICK k \in Some : \A j \in Some : k <= j
    <3> HIDE DEF Some
    <3> QED
      BY <2>1, NatMin
  <2>3. k \in Buffers
    BY <1>2, <2>2, PoolAssumption DEF Buffers
  <2>4. k - 1 \in 0 .. MaxBuffers /\ k - 1 \notin Some
    BY <1>2, <2>2, <2>3
  <2> QED
    BY <1>1, <1>2, <2>2, <2>3, <2>4 DEF Part
<1>4. InUse = 0
  <2>1. MaxBuffers \in 0 .. MaxBuffers
    BY PoolAssumption
  <2> QED
    BY <1>2, <1>3, <2>1
<1> QED
  BY <1>4, PoolAssumption DEF Init, SizeInv, Asks

(* A step that adds nothing to the memory in use and asks for none. *)
LEMMA NoMoreInUse ==
  ASSUME PoolInv, TypeOK', SizeInv, reserved' = reserved, used' \subseteq used, crossed' = crossed,
         ~overlap' =>
           /\ ~overlap
           /\ \A t \in Threads :
                /\ pc'[t] = "new" => pc[t] = "new" /\ req'[t] = req[t]
                /\ pc'[t] \in Asks /\ pick'[t] \notin unused' =>
                     pc[t] \in Asks /\ pick'[t] = pick[t] /\ pick[t] \notin unused
  PROVE  SizeInv'
<1>1. InUse \in Nat /\ InUse' \in Nat /\ InUse' <= InUse
  <2>1. reserved \in [Buffers -> Nat] /\ InUse \in Nat
    BY InUseType DEF PoolInv, TypeOK
  <2>2. TotalSize(reserved, used') <= TotalSize(reserved, used) /\ TotalSize(reserved, used') \in Nat
    BY <2>1, TotalGrows, TotalType
  <2>3. InUse' = TotalSize(reserved, used')
    BY DEF InUse
  <2> QED
    BY <2>1, <2>2, <2>3 DEF InUse
<1>2. MaxMemory \in Nat
  BY PoolAssumption
<1>3. ~crossed' => InUse' <= MaxMemory
  BY <1>1, <1>2 DEF SizeInv
<1>4. ASSUME MaxMemory <= IntMax, ~overlap', ~crossed', NEW t \in Threads, pc'[t] = "new"
      PROVE  req'[t] + InUse' <= MaxMemory
  <2>1. req[t] + InUse <= MaxMemory /\ req'[t] = req[t]
    BY <1>4 DEF SizeInv
  <2>2. req[t] \in Nat
    BY RequestIsNatural DEF PoolInv
  <2> QED
    BY <1>1, <1>2, <2>1, <2>2
<1>5. ASSUME MaxMemory <= IntMax, ~overlap', ~crossed', NEW t \in Threads,
             pc'[t] \in Asks, pick'[t] \notin unused'
      PROVE  reserved'[pick'[t]] + InUse' <= MaxMemory
  <2>1. /\ reserved[pick[t]] + InUse <= MaxMemory /\ reserved'[pick'[t]] = reserved[pick[t]]
        /\ pc[t] \in Asks
    BY <1>5 DEF SizeInv
  <2>2. reserved[pick[t]] \in Nat
    BY <2>1 DEF PoolInv, BuffersExist, TypeOK, Asks, Chosen
  <2> QED
    BY <1>1, <1>2, <2>1, <2>2
<1> QED
  BY <1>3, <1>4, <1>5 DEF SizeInv

(* Without overlap nobody else has started an allocation.                  *)
LEMMA AllAlone ==
  ASSUME PoolInv, ~overlap, NEW t \in Threads, pc[t] # "idle", NEW u \in Threads, u # t
  PROVE  pc[u] = "idle"
<1>1. Exact
  BY DEF PoolInv
<1> QED BY <1>1 DEF Exact, OneCall

LEMMA SizeStep ==
  ASSUME PoolInv, SizeInv, [Next]_vars
  PROVE  SizeInv'
<1>0. TypeOK' /\ TypeOK
  BY TypesStep DEF PoolInv
<1>1. ASSUME NEW t \in Threads, NEW sz \in Sizes, Allocate(t, sz)
      PROVE  SizeInv'
  <2>1. /\ pc' = [pc EXCEPT ![t] = "reuse"] /\ req' = [req EXCEPT ![t] = sz]
        /\ ~overlap' => ~overlap
        /\ UNCHANGED <<reserved, used, unused, pick, crossed>>
    BY <1>1 DEF Allocate, Goto, poolVars
  <2>2. pc'[t] = "reuse" /\ \A u \in Threads \ {t} : pc'[u] = pc[u] /\ req'[u] = req[u]
    BY <1>0, <2>1 DEF TypeOK
  <2> QED
    BY <1>0, <2>1, <2>2, NoMoreInUse DEF Asks
<1>2. ASSUME NEW t \in Threads, NEW from, NEW otherwise \in {"scan", "check"},
             FindUnused(t, from, otherwise)
      PROVE  SizeInv'
  <2>1. UNCHANGED <<reserved, used, unused, req, overlap, crossed>>
    BY <1>2 DEF FindUnused, poolVars, history
  <2>2. CASE pc' = [pc EXCEPT ![t] = otherwise] /\ pick' = pick
    <3>1. pc'[t] = otherwise /\ \A u \in Threads \ {t} : pc'[u] = pc[u]
      BY <1>0, <2>2 DEF TypeOK
    <3> QED
      BY <1>0, <2>1, <2>2, <3>1, NoMoreInUse DEF Asks
  <2>3. ASSUME NEW b \in BestUnused(req[t]), pick' = [pick EXCEPT ![t] = b],
               pc' = [pc EXCEPT ![t] = "addRef"]
        PROVE  SizeInv'
    <3>1. /\ pc'[t] = "addRef" /\ pick'[t] = b /\ b \in unused
          /\ \A u \in Threads \ {t} : pc'[u] = pc[u] /\ pick'[u] = pick[u]
      BY <1>0, <2>3 DEF TypeOK, BestUnused
    <3> QED
      BY <1>0, <2>1, <3>1, NoMoreInUse DEF Asks
  <2> QED
    BY <1>2, <2>2, <2>3 DEF FindUnused, Goto
<1>3. ASSUME NEW t \in Threads, ScanCache(t) \/ RemoveFromCache(t)
      PROVE  SizeInv'
  <2>1. PICK l \in {"remove", "check", "retry"} : pc' = [pc EXCEPT ![t] = l]
    BY <1>3 DEF ScanCache, RemoveFromCache, Goto
  <2>2. UNCHANGED <<reserved, used, unused, req, pick, overlap, crossed>>
    BY <1>3 DEF ScanCache, RemoveFromCache, poolVars, history
  <2>3. pc'[t] = l /\ \A u \in Threads \ {t} : pc'[u] = pc[u]
    BY <1>0, <2>1 DEF TypeOK
  <2> QED
    BY <1>0, <2>2, <2>3, NoMoreInUse DEF Asks
<1>4. ASSUME NEW t \in Threads, CheckAvailable(t) \/ RecheckAvailable(t) \/ LastCheck(t)
      PROVE  SizeInv'
  <2>1. /\ UNCHANGED <<reserved, used, unused, req, pick, overlap, crossed>>
        /\ pc[t] # "idle"
    BY <1>4 DEF CheckAvailable, RecheckAvailable, LastCheck, Check, At, poolVars, history
  <2>2. PICK l \in {"new", "clearUnused", "lastCheck", "clear", "throw"} :
          /\ pc' = [pc EXCEPT ![t] = l]
          /\ l = "new" => ~(req[t] > Available)
    BY <1>4 DEF CheckAvailable, RecheckAvailable, LastCheck, Check, Goto
  <2>3. pc'[t] = l /\ \A u \in Threads \ {t} : pc'[u] = pc[u]
    BY <1>0, <2>2 DEF TypeOK
  <2>4. CASE l # "new"
    BY <1>0, <2>1, <2>2, <2>3, <2>4, NoMoreInUse DEF Asks
  <2>5. CASE l = "new"
    <3>1. InUse' = InUse /\ InUse \in Nat /\ req[t] \in Nat /\ MaxMemory \in Nat
      BY <1>0, <2>1, InUseType, RequestIsNatural, PoolAssumption DEF InUse
    <3>2. ASSUME MaxMemory <= IntMax, ~overlap, ~crossed
          PROVE  req[t] + InUse <= MaxMemory
      <4>1. Available = MaxMemory - InUse
        BY <3>1, <3>2, AvailableIsFree DEF SizeInv
      <4> QED
        BY <2>2, <2>5, <3>1, <4>1
    <3> QED
      BY <2>1, <2>3, <2>5, <3>1, <3>2 DEF SizeInv, Asks
  <2> QED
    BY <2>4, <2>5
<1>5. ASSUME NEW t \in Threads, NewData(t)
      PROVE  SizeInv'
  <2>1. /\ pc[t] = "new" /\ pc' = [pc EXCEPT ![t] = "addRef"] /\ pick' = [pick EXCEPT ![t] = count + 1]
        /\ reserved' = [reserved EXCEPT ![count + 1] = req[t]]
        /\ UNCHANGED <<used, unused, req, overlap, crossed>>
    BY <1>5 DEF NewData, At, Goto, history
  <2>2. count + 1 \in Buffers /\ count \in Nat
    BY <2>1, RoomLeft DEF PoolInv, TypeOK
  <2>3. InUse' = InUse
    <3>1. \A b \in used : b \in Buffers /\ b <= count
      BY UsedExist
    <3>2. \A b \in used : b # count + 1
      BY <2>2, <3>1 DEF Buffers
    <3>3. \A b \in Buffers : b \in used => reserved'[b] = reserved[b]
      BY <1>0, <2>1, <3>2 DEF TypeOK
    <3>4. TotalSize(reserved', used) = TotalSize(reserved, used)
      BY <1>0, <3>3, TotalOfSame DEF TypeOK
    <3> QED
      BY <2>1, <3>4 DEF InUse
  <2>4. ~overlap => \A u \in Threads : u # t => pc[u] = "idle"
    BY <2>1, AllAlone
  <2>5. /\ pc'[t] = "addRef" /\ pick'[t] = count + 1 /\ reserved'[count + 1] = req[t]
        /\ \A u \in Threads \ {t} : pc'[u] = pc[u]
    BY <1>0, <2>1, <2>2 DEF TypeOK
  <2> QED
    BY <2>1, <2>3, <2>4, <2>5 DEF SizeInv, Asks
<1>6. ASSUME NEW t \in Threads, AddRef(t) \/ Count(t)
      PROVE  SizeInv'
  <2>1. /\ pc[t] \in {"addRef", "count"}
        /\ \E l \in {"count", "referenced", "return"} : pc' = [pc EXCEPT ![t] = l]
        /\ UNCHANGED <<reserved, used, unused, req, pick, overlap, crossed>>
    BY <1>6 DEF AddRef, Count, At, Goto, history
  <2>2. /\ pc'[t] \in {"count", "referenced", "return"}
        /\ \A u \in Threads \ {t} : pc'[u] = pc[u]
    BY <1>0, <2>1 DEF TypeOK
  <2> QED
    BY <1>0, <2>1, <2>2, NoMoreInUse DEF Asks
<1>7. ASSUME NEW t \in Threads, Referenced(t)
      PROVE  SizeInv'
  <2>1. /\ pc[t] = "referenced" /\ pc' = [pc EXCEPT ![t] = "return"]
        /\ crossed' = (crossed \/ TotalSize(reserved, used') > MaxMemory)
        /\ UNCHANGED <<reserved, overlap>>
    BY <1>7 DEF Referenced, At, Goto
  <2>2. ~overlap => \A u \in Threads : u # t => pc[u] = "idle"
    BY <2>1, AllAlone
  <2>3. pc'[t] = "return" /\ \A u \in Threads \ {t} : pc'[u] = pc[u]
    BY <1>0, <2>1 DEF TypeOK
  <2>4. InUse' = TotalSize(reserved, used') /\ InUse' \in Nat
    BY <1>0, <2>1, TotalType DEF InUse, TypeOK
  <2> QED
    <3>1. ~crossed' => ~ (TotalSize(reserved, used') > MaxMemory)
      BY <2>1
    <3>2. ~crossed' => InUse' <= MaxMemory
      BY <2>4, <3>1, PoolAssumption
    <3>3. ~overlap' => \A u \in Threads : pc'[u] \notin Asks \cup {"new"}
      BY <2>1, <2>2, <2>3 DEF Asks
    <3> QED
      BY <3>2, <3>3 DEF SizeInv
<1>8. ASSUME NEW t \in Threads, Clear(t)
      PROVE  SizeInv'
  <2>1. /\ pc[t] = "clear" /\ pc' = [pc EXCEPT ![t] = "lastCheck"]
        /\ UNCHANGED <<reserved, used, req, pick, overlap, crossed>>
    BY <1>8 DEF Clear, At, Goto, history
  <2>2. ~overlap => \A u \in Threads : u # t => pc[u] = "idle"
    BY <2>1, AllAlone
  <2>3. pc'[t] = "lastCheck" /\ \A u \in Threads \ {t} : pc'[u] = pc[u]
    BY <1>0, <2>1 DEF TypeOK
  <2> QED
    BY <1>0, <2>1, <2>2, <2>3, NoMoreInUse DEF Asks
<1>9. ASSUME NEW t \in Threads, ClearUnused(t) \/ Return(t) \/ Throw(t) \/ Put(t)
      PROVE  SizeInv'
  <2>1. /\ UNCHANGED <<reserved, used, unused, overlap, crossed>>
        /\ \E l \in {"recheck", "put", "idle"} : pc' = [pc EXCEPT ![t] = l]
        /\ \A u \in Threads \ {t} : req'[u] = req[u] /\ pick'[u] = pick[u]
    <3> USE DEF Goto, poolVars, history
    <3>1. CASE ClearUnused(t)
      BY <3>1 DEF ClearUnused, ClearUnusedImages
    <3>2. CASE Return(t)
      BY <1>0, <3>2 DEF Return, Unwind, TypeOK
    <3>3. CASE Throw(t)
      BY <1>0, <3>3 DEF Throw, Unwind, TypeOK
    <3>4. CASE Put(t)
      BY <3>4 DEF Put
    <3> QED
      BY <1>9, <3>1, <3>2, <3>3, <3>4
  <2>2. pc'[t] \in {"recheck", "put", "idle"} /\ \A u \in Threads \ {t} : pc'[u] = pc[u]
    BY <1>0, <2>1 DEF TypeOK
  <2> QED
    BY <1>0, <2>1, <2>2, NoMoreInUse DEF Asks
<1>10. ASSUME NEW t \in Threads, ReleaseReport(t)
       PROVE  SizeInv'
  <2>1. /\ used' \subseteq used /\ unused \subseteq unused'
        /\ UNCHANGED <<reserved, pc, req, pick, overlap, crossed>>
    BY <1>10 DEF ReleaseReport, callVars, history
  <2> QED
    BY <1>0, <2>1, NoMoreInUse
<1>11. ASSUME NEW t \in Threads, \/ ReleaseBegin(t) \/ ReleaseCount(t) \/ ClearCache(t)
                                 \/ \E i \in Images : LetGo(t, i)
       PROVE  SizeInv'
  <2>1. UNCHANGED <<reserved, used, unused, pc, req, pick, overlap, crossed>>
    <3>1. CASE ReleaseBegin(t) \/ ReleaseCount(t)
      BY <3>1 DEF ReleaseBegin, ReleaseCount, poolVars, callVars, history
    <3>2. CASE ClearCache(t) \/ \E i \in Images : LetGo(t, i)
      BY <3>2 DEF ClearCache, ClearUnusedImages, LetGo, poolVars, callVars, history
    <3> QED
      BY <1>11, <3>1, <3>2
  <2> QED
    BY <1>0, <2>1, NoMoreInUse
<1>12. CASE \/ \E i \in Images : ReleaseHostRef(i)
            \/ \E i \in Images, n \in 1 .. MaxRefs : AddHostRefs(i, n)
            \/ UNCHANGED vars
  <2>1. UNCHANGED <<reserved, used, unused, pc, req, pick, overlap, crossed>>
    BY <1>12 DEF ReleaseHostRef, AddHostRefs, vars, poolVars, callVars, history
  <2> QED
    BY <1>0, <2>1, NoMoreInUse
<1>13. ASSUME NEW t \in Threads, TryReuse(t) \/ RetryReuse(t)
       PROVE  SizeInv'
  BY <1>2, <1>13 DEF TryReuse, RetryReuse
<1> QED
  BY <1>1, <1>3, <1>4, <1>5, <1>6, <1>7, <1>8, <1>9, <1>10, <1>11, <1>12,
     <1>13 DEF Next

LEMMA SizesHold == Spec => [](PoolInv /\ SizeInv)
<1>1. Init => SizeInv
  BY InitSizes
<1>2. PoolInv /\ SizeInv /\ [Next]_vars => SizeInv'
  BY SizeStep
<1> QED
  BY <1>1, <1>2, PoolInvariant, PTL DEF Spec

(* Without overlap, a buffer that is created and registered never takes    *)
(* the memory in use beyond the authorized size, as long as an int holds   *)
(* that size: what allocate has compared with its request is really free,  *)
(* and is not taken by another while it creates the buffer.                *)
THEOREM NewDataFits == Spec => NewDataWithinLimit
<1> DEFINE Fits == MaxMemory <= IntMax /\ ~overlap /\ ~crossed /\ crossed' => allDatas' = allDatas
<1>1. ASSUME PoolInv, SizeInv, [Next]_vars
      PROVE  Fits
  <2>1. ASSUME NEW t \in Threads, Referenced(t)
        PROVE  Fits
    <3> SUFFICES ASSUME MaxMemory <= IntMax, ~overlap, ~crossed, crossed'
                 PROVE  allDatas' = allDatas
      OBVIOUS
    <3> DEFINE b == pick[t]
    <3>1. /\ pc[t] = "referenced" /\ used' = used \cup {b} /\ allDatas' = Registered(b)
          /\ TotalSize(reserved, used') > MaxMemory
      BY <2>1 DEF Referenced, At
    <3>2. b \in Buffers /\ reserved \in [Buffers -> Nat] /\ InUse \in Nat
      BY <1>1, <3>1, InUseType DEF PoolInv, BuffersExist, Chosen, TypeOK
    <3> HIDE DEF b
    <3>3. b \notin used
      <4> SUFFICES ASSUME b \in used PROVE FALSE
        OBVIOUS
      <4>1. used' = used
        BY <3>1
      <4>2. TotalSize(reserved, used') <= MaxMemory
        BY <1>1, <4>1 DEF SizeInv, InUse
      <4> QED
        BY <3>1, <3>2, <4>1, <4>2, PoolAssumption DEF InUse
    <3>4. TotalSize(reserved, used') = InUse + reserved[b]
      BY <3>1, <3>2, <3>3, TotalOfOneMore DEF InUse
    <3>5. b \in unused
      <4> SUFFICES ASSUME b \notin unused PROVE FALSE
        OBVIOUS
      <4>1. reserved[b] + InUse <= MaxMemory
        BY <1>1, <3>1 DEF SizeInv, Asks, b
      <4>2. reserved[b] \in Nat /\ MaxMemory \in Nat
        BY <3>2, PoolAssumption
      <4> QED
        BY <3>1, <3>2, <3>4, <4>1, <4>2
    <3> QED
      BY <3>1, <3>5 DEF Registered
  <2>2. (\E t \in Threads : Referenced(t)) \/ crossed' = crossed
    <3>1. ASSUME NEW t \in Threads, NEW sz \in Sizes, Allocate(t, sz)
          PROVE  crossed' = crossed
      BY <3>1 DEF Allocate
    <3>2. ASSUME NEW t \in Threads,
                 \/ TryReuse(t) \/ ScanCache(t) \/ RemoveFromCache(t) \/ RetryReuse(t)
                 \/ CheckAvailable(t) \/ RecheckAvailable(t) \/ LastCheck(t)
          PROVE  crossed' = crossed
      BY <3>2 DEF TryReuse, RetryReuse, FindUnused, ScanCache, RemoveFromCache,
                  CheckAvailable, RecheckAvailable, LastCheck, Check, history
    <3>3. ASSUME NEW t \in Threads, Clear(t) \/ NewData(t) \/ AddRef(t) \/ Count(t)
          PROVE  crossed' = crossed
      BY <3>3 DEF Clear, NewData, AddRef, Count, history
    <3>4. ASSUME NEW t \in Threads, ClearUnused(t) \/ Return(t) \/ Throw(t) \/ Put(t)
          PROVE  crossed' = crossed
      BY <3>4 DEF ClearUnused, Return, Throw, Unwind, Put, history
    <3>5. ASSUME NEW i \in Images, \/ ReleaseHostRef(i) \/ \E t \in Threads : LetGo(t, i)
                                   \/ \E n \in 1 .. MaxRefs : AddHostRefs(i, n)
          PROVE  crossed' = crossed
      BY <3>5 DEF ReleaseHostRef, LetGo, AddHostRefs, history
    <3>6. ASSUME NEW t \in Threads,
                 ClearCache(t) \/ ReleaseBegin(t) \/ ReleaseCount(t) \/ ReleaseReport(t)
          PROVE  crossed' = crossed
      BY <3>6 DEF ClearCache, ReleaseBegin, ReleaseCount, ReleaseReport, history
    <3>7. CASE UNCHANGED vars
      BY <3>7 DEF vars, history
    <3> QED BY <1>1, <3>1, <3>2, <3>3, <3>4, <3>5, <3>6, <3>7 DEF Next
  <2> QED BY <2>1, <2>2
<1> QED BY <1>1, SizesHold, PTL DEF Spec, NewDataWithinLimit

=============================================================================
