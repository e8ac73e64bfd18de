----------------------------- MODULE MemoryPool -----------------------------
(***************************************************************************)
(* The image memory of the host: memory::MemoryPool hands out buffers to   *)
(* the images that the render threads create, memory::MemoryCache keeps    *)
(* those images after their node has been processed, and an allocation     *)
(* takes memory back from both.  There is one pool and one cache per       *)
(* program (Core.cpp), shared by every render thread.                      *)
(*                                                                         *)
(* MemoryPool::allocate is not one critical section: each call it makes on *)
(* the pool or the cache takes that object's mutex and drops it, so there  *)
(* is one action per locked call and other threads run in between.  The    *)
(* reference count of a buffer is a plain int that no mutex guards: to add *)
(* or to drop a reference is to read it in one step and to write it in     *)
(* another, and the count tells the pool in a third, locked one.           *)
(*                                                                         *)
(* A PoolData is a number in Buffers, given in order of creation (_count). *)
(* An Image is an element of Images, alive while somebody owns its         *)
(* shared_ptr: the cache, the thread that renders it or the caller's       *)
(* output cache (held), or an allocate that popped it (elem).  After the   *)
(* call, elem holds the image allocated for until it is cached.  The       *)
(* thread that drops the last owner runs the destructor of the image       *)
(* (doomed, dying) before it goes on.                                      *)
(***************************************************************************)
EXTENDS Integers, FiniteSets

CONSTANTS
  Threads,     \* render threads
  Images,      \* identities for the images alive at one time
  Sizes,       \* image sizes the threads ask for
  MaxMemory,   \* _memoryAuthorized
  SizeT,       \* number of values of std::size_t
  IntMax,      \* largest int
  MaxBuffers,  \* bound: PoolData created in a behaviour
  MaxRefs,     \* bound: future usages declared for one image
  None

ASSUME PoolAssumption ==
  /\ Sizes \subseteq Nat \ {0}
  /\ MaxMemory \in Nat /\ SizeT \in Nat /\ MaxMemory < SizeT
  /\ IntMax \in Nat
  /\ MaxBuffers \in Nat /\ MaxRefs \in Nat
  /\ None \notin Images /\ None \notin Nat /\ None \notin Threads
  /\ IsFiniteSet(Images) /\ IsFiniteSet(Threads)

Buffers == 1 .. MaxBuffers

VARIABLES
  count,     \* PoolData::_count: buffers 1 .. count have been created
  reserved,  \* PoolData::_reservedSize
  size,      \* PoolData::_size
  refCount,  \* PoolData::_refCount
  allDatas,  \* _allDatas, the owning list: how often each buffer is in it
  used,      \* _dataUsed
  unused,    \* _dataUnused
  imgBuf,    \* Image::_data of each live image, None for an identity not in use
  hostRefs,  \* the image's reference count for eReferenceOwnerHost
  cached,    \* the images in MemoryCache::_map
  held,      \* the images owned by a render thread or an output cache
  pc,        \* where each thread is in allocate
  req,       \* the size it asked for
  pick,      \* pData
  elem,      \* unusedCacheElement, then imageCache of the caller
  reg,       \* the value of _refCount the thread has read and will write back
  doomed,    \* the images whose last owner the thread has dropped
  dying,     \* the image whose destructor it runs
  counted,   \* that image's reference is off the count, which is now zero
  cacheLock, \* the thread that runs destructors inside a call of the cache
  overlap,   \* history: two calls of allocate have been in progress together
  crossed    \* history: the memory in use has exceeded MaxMemory

poolVars  == <<count, reserved, size, refCount, allDatas, used, unused>>
imageVars == <<imgBuf, hostRefs, cached, held>>
callVars  == <<pc, req, pick, elem>>
deathVars == <<doomed, dying, counted, cacheLock>>
history   == <<overlap, crossed>>
vars      == <<poolVars, imageVars, callVars, reg, deathVars, history>>

PCs == {"idle", "reuse", "scan", "remove", "retry", "check", "clearUnused",
        "recheck", "clear", "lastCheck", "new", "addRef", "count",
        "referenced", "return", "throw", "put"}

Live == {i \in Images : imgBuf[i] # None}
Busy == {t \in Threads : pc[t] # "idle"}

Init ==
  /\ count = 0
  /\ reserved = [b \in Buffers |-> 0]
  /\ size = [b \in Buffers |-> 0]
  /\ refCount = [b \in Buffers |-> 0]
  /\ allDatas = [b \in Buffers |-> 0]
  /\ used = {} /\ unused = {}
  /\ imgBuf = [i \in Images |-> None]
  /\ hostRefs = [i \in Images |-> 0]
  /\ cached = {} /\ held = {}
  /\ pc = [t \in Threads |-> "idle"]
  /\ req = [t \in Threads |-> 0]
  /\ pick = [t \in Threads |-> None]
  /\ elem = [t \in Threads |-> None]
  /\ reg = [t \in Threads |-> 0]
  /\ doomed = [t \in Threads |-> {}]
  /\ dying = [t \in Threads |-> None]
  /\ counted = [t \in Threads |-> FALSE]
  /\ cacheLock = None
  /\ overlap = FALSE /\ crossed = FALSE

-----------------------------------------------------------------------------
(* The pool. *)

(* The bytes of the buffers bs. *)
TotalSize(sizes, bs) ==
  LET sum[b \in 0 .. MaxBuffers] ==
        IF b = 0 THEN 0 ELSE sum[b - 1] + (IF b \in bs THEN sizes[b] ELSE 0)
  IN  sum[MaxBuffers]

InUse == TotalSize(reserved, used)

(* getUsedMemorySize: std::accumulate from 0 adds up in an int. *)
AsInt(n) == ((n + IntMax + 1) % (2 * (IntMax + 1))) - (IntMax + 1)

UsedSize == AsInt(InUse)

(* getMaxMemorySize() - getUsedMemorySize(), in unsigned arithmetic. *)
Available == (MaxMemory - UsedSize) % SizeT

(* DataFitSize: large enough, at most twice too large, smallest first.  The *)
(* order of equal sizes is that of a hash table.                            *)
FitsRequest(b, sz) == sz <= reserved[b] /\ reserved[b] <= 2 * sz

BestUsedOrUnused(sz) == {b \in used \cup unused : FitsRequest(b, sz)}  \* mutant

BestUnused(sz) ==
  {b \in unused : /\ FitsRequest(b, sz)
                  /\ \A c \in unused : FitsRequest(c, sz) => reserved[b] <= reserved[c]}

(* UnusedDataFitSize: the smallest large enough cached image that no later *)
(* node waits for.                                                         *)
BestEvictable(sz) ==
  LET fits == {i \in cached : hostRefs[i] < 1 /\ sz <= reserved[imgBuf[i]]}
  IN  {i \in fits : \A j \in fits : reserved[imgBuf[i]] <= reserved[imgBuf[j]]}

-----------------------------------------------------------------------------
(* The clients of a buffer.                                                *)

(* The images that own buffer b, those whose reference is still counted,   *)
(* and the calls whose result owns it.                                     *)
ImagesOn(b)  == {i \in Images : imgBuf[i] = b}
CountedOut   == {i \in Images : \E t \in Threads : dying[t] = i /\ counted[t]}
ClientsOn(b) == ImagesOn(b) \ CountedOut
CallsOn(b)   == {t \in Threads : pc[t] \in {"referenced", "return"} /\ pick[t] = b}

(* PoolData::_refCount is a "counter on clients currently using this data" *)
(* (MemoryPool.cpp:66): the images and results that own it.                *)
CountsClients ==
  \A b \in Buffers : refCount[b] = Cardinality(ClientsOn(b)) + Cardinality(CallsOn(b))

-----------------------------------------------------------------------------
(* The end of images.                                                      *)

Dying == (UNION {doomed[t] : t \in Threads}) \cup {dying[t] : t \in Threads}

(* The live images nobody owns once the cache holds c, the threads and the *)
(* output caches h, and the allocations in progress e.                     *)
Orphans(c, h, e) ==
  {i \in Live \ Dying : i \notin c \cup h /\ \A t \in Threads : e[t] # i}

(* Thread t has dropped the last owner of the images dead. *)
Doom(t, dead) ==
  /\ doomed' = [doomed EXCEPT ![t] = dead]
  /\ UNCHANGED <<dying, counted>>

(* The same inside a call that has locked the cache. *)
DoomLocked(t, dead) ==
  /\ cacheLock = None
  /\ cacheLock' = IF dead = {} THEN None ELSE t
  /\ Doom(t, dead)

(* The destructors have run: the thread goes on with what it was doing. *)
At(t, label) == pc[t] = label /\ doomed[t] = {} /\ dying[t] = None

(* ~Image: PoolData::release reads _refCount ... *)
ReleaseBegin(t) ==
  /\ dying[t] = None
  /\ \E i \in doomed[t] :
       /\ dying' = [dying EXCEPT ![t] = i]
       /\ doomed' = [doomed EXCEPT ![t] = @ \ {i}]
       /\ reg' = [reg EXCEPT ![t] = refCount[imgBuf[i]]]
  /\ UNCHANGED <<poolVars, imageVars, callVars, counted, cacheLock, history>>

Gone(t) ==
  /\ imgBuf' = [imgBuf EXCEPT ![dying[t]] = None]
  /\ hostRefs' = [hostRefs EXCEPT ![dying[t]] = 0]
  /\ dying' = [dying EXCEPT ![t] = None]
  /\ counted' = [counted EXCEPT ![t] = FALSE]
  /\ cacheLock' = IF doomed[t] = {} /\ cacheLock = t THEN None ELSE cacheLock
  /\ UNCHANGED <<cached, held, doomed>>

LeftByUncounted(n) == n  \* mutant: release does not decrement

LeftBy(n) == n - 1

(* ... writes it back ... *)
ReleaseCount(t) ==
  /\ dying[t] # None /\ ~counted[t]
  /\ refCount' = [refCount EXCEPT ![imgBuf[dying[t]]] = LeftBy(reg[t])]
  /\ reg' = [reg EXCEPT ![t] = 0]
  /\ IF LeftBy(reg[t]) = 0
     THEN counted' = [counted EXCEPT ![t] = TRUE] /\ UNCHANGED <<imageVars, doomed, dying, cacheLock>>
     ELSE Gone(t)
  /\ UNCHANGED <<count, reserved, size, allDatas, used, unused, callVars, history>>

(* ... and reports a count of zero to MemoryPool::released. *)
ReleaseReport(t) ==
  /\ counted[t]
  /\ used' = used \ {imgBuf[dying[t]]}
  /\ unused' = unused \cup {imgBuf[dying[t]]}
  /\ Gone(t)
  /\ UNCHANGED <<count, reserved, size, refCount, allDatas, callVars, reg, history>>

-----------------------------------------------------------------------------
(* MemoryPool::allocate, one action per call on the pool or the cache.     *)

Goto(t, label) == pc' = [pc EXCEPT ![t] = label]

(* A thread asks for the buffer of its output image.  Bounds: a call       *)
(* creates at most one buffer and one image, and none starts once an       *)
(* update of a count has been lost: the counts would drift without end.    *)
Allocate(t, sz) ==
  /\ At(t, "idle")
  /\ CountsClients
  /\ count + Cardinality(Busy) < MaxBuffers
  /\ Cardinality(Live) + Cardinality(Busy) < Cardinality(Images)
  /\ Goto(t, "reuse")
  /\ req' = [req EXCEPT ![t] = sz]
  /\ overlap' = (overlap \/ Busy # {})
  /\ UNCHANGED <<poolVars, imageVars, pick, elem, reg, deathVars, crossed>>

(* getOneAvailableData: the buffer found stays in _dataUnused. *)
FindUnused(t, from, otherwise) ==
  /\ At(t, from)
  /\ \/ \E b \in BestUnused(req[t]) :
          /\ pick' = [pick EXCEPT ![t] = b]
          /\ Goto(t, "addRef")
     \/ /\ BestUnused(req[t]) = {}
        /\ Goto(t, otherwise)
        /\ UNCHANGED pick
  /\ UNCHANGED <<poolVars, imageVars, req, elem, reg, deathVars, history>>

TryReuse(t) == FindUnused(t, "reuse", "scan")

(* memoryCache.getUnusedWithSize: the local shared_ptr now owns the image. *)
ScanCache(t) ==
  /\ At(t, "scan") /\ cacheLock = None
  /\ \/ \E i \in BestEvictable(req[t]) :
          /\ elem' = [elem EXCEPT ![t] = i]
          /\ Goto(t, "remove")
     \/ /\ BestEvictable(req[t]) = {}
        /\ Goto(t, "check")
        /\ UNCHANGED elem
  /\ UNCHANGED <<poolVars, imageVars, req, pick, reg, deathVars, history>>

(* memoryCache.remove: the map's shared_ptr goes, the local one stays. *)
RemoveFromCache(t) ==
  /\ At(t, "remove") /\ cacheLock = None
  /\ cached' = cached \ {elem[t]}
  /\ Goto(t, "retry")
  /\ UNCHANGED <<poolVars, imgBuf, hostRefs, held, req, pick, elem, reg, deathVars, history>>

RetryReuse(t) == FindUnused(t, "retry", "check")

CheckMaxSize(t, from, fits, full) ==  \* mutant: the memory in use is not deducted
  /\ At(t, from)
  /\ Goto(t, IF req[t] > MaxMemory THEN full ELSE fits)
  /\ UNCHANGED <<poolVars, imageVars, req, pick, elem, reg, deathVars, history>>

Check(t, from, fits, full) ==
  /\ At(t, from)
  /\ Goto(t, IF req[t] > Available THEN full ELSE fits)
  /\ UNCHANGED <<poolVars, imageVars, req, pick, elem, reg, deathVars, history>>

CheckAvailable(t) == Check(t, "check", "new", "clearUnused")

(* MemoryCache::clearUnused, under the cache's mutex. *)
ClearUnusedImages(t) ==
  LET kept == {i \in cached : hostRefs[i] >= 1}
  IN  /\ cached' = kept
      /\ DoomLocked(t, Orphans(kept, held, elem))
      /\ UNCHANGED <<poolVars, imgBuf, hostRefs, held>>

ClearUnused(t) ==
  /\ At(t, "clearUnused")
  /\ ClearUnusedImages(t)
  /\ Goto(t, "recheck")
  /\ UNCHANGED <<req, pick, elem, reg, history>>

RecheckAvailable(t) == Check(t, "recheck", "lastCheck", "clear")

(* MemoryPool::clear forgets the unused buffers; _allDatas still owns them. *)
Clear(t) ==
  /\ At(t, "clear")
  /\ unused' = {}
  /\ Goto(t, "lastCheck")
  /\ UNCHANGED <<count, reserved, size, refCount, allDatas, used, imageVars,
                 req, pick, elem, reg, deathVars, history>>

LastCheck(t) == Check(t, "lastCheck", "new", "throw")

(* new PoolData( *this, size ): known to nobody but this thread yet. *)
NewData(t) ==
  /\ At(t, "new")
  /\ count' = count + 1
  /\ reserved' = [reserved EXCEPT ![count + 1] = req[t]]
  /\ pick' = [pick EXCEPT ![t] = count + 1]
  /\ Goto(t, "addRef")
  /\ UNCHANGED <<size, refCount, allDatas, used, unused, imageVars, req, elem, reg, deathVars,
                 history>>

(* setSize, then the intrusive_ptr of the result counts itself: PoolData:: *)
(* addRef reads _refCount ...                                              *)
AddRef(t) ==
  /\ At(t, "addRef")
  /\ size' = [size EXCEPT ![pick[t]] = req[t]]
  /\ reg' = [reg EXCEPT ![t] = refCount[pick[t]]]
  /\ Goto(t, "count")
  /\ UNCHANGED <<count, reserved, refCount, allDatas, used, unused, imageVars, req, pick, elem,
                 deathVars, history>>

(* ... and writes it back; only the thread that has counted to 1 goes on   *)
(* to register the buffer.                                                 *)
Count(t) ==
  /\ At(t, "count")
  /\ refCount' = [refCount EXCEPT ![pick[t]] = reg[t] + 1]
  /\ reg' = [reg EXCEPT ![t] = 0]
  /\ Goto(t, IF reg[t] = 0 THEN "referenced" ELSE "return")
  /\ UNCHANGED <<count, reserved, size, allDatas, used, unused, imageVars, req, pick, elem,
                 deathVars, history>>

(* MemoryPool::referenced: what is not in _dataUnused is taken for new and *)
(* appended to the owning list.  Bound: a third entry counts as two.       *)
RegisteredAlways(b) == [allDatas EXCEPT ![b] = IF @ = 2 THEN 2 ELSE @ + 1]  \* mutant

Registered(b) ==
  IF b \in unused \/ allDatas[b] = 2 THEN allDatas ELSE [allDatas EXCEPT ![b] = @ + 1]

ReferencedStillUnused(t) ==  \* mutant: a reused buffer stays in _dataUnused
  /\ At(t, "referenced")
  /\ allDatas' = Registered(pick[t])
  /\ used' = used \cup {pick[t]}
  /\ crossed' = (crossed \/ TotalSize(reserved, used') > MaxMemory)
  /\ Goto(t, "return")
  /\ UNCHANGED <<count, reserved, size, refCount, unused, imageVars, req, pick, elem, reg,
                 deathVars, overlap>>

Referenced(t) ==
  /\ At(t, "referenced")
  /\ unused' = unused \ {pick[t]}
  /\ allDatas' = Registered(pick[t])
  /\ used' = used \cup {pick[t]}
  /\ crossed' = (crossed \/ TotalSize(reserved, used') > MaxMemory)
  /\ Goto(t, "return")
  /\ UNCHANGED <<count, reserved, size, refCount, imageVars, req, pick, elem, reg,
                 deathVars, overlap>>

(* Leaving allocate: its locals die, the popped image with them, and the  *)
(* thread is left with `mine`, the image it allocated for, or None.        *)
Unwind(t, mine) ==
  LET e == [elem EXCEPT ![t] = mine]
  IN  /\ elem' = e
      /\ Doom(t, Orphans(cached, held, e))
      /\ pick' = [pick EXCEPT ![t] = None]
      /\ req' = [req EXCEPT ![t] = 0]
      /\ UNCHANGED <<poolVars, hostRefs, cached, held, reg, cacheLock, history>>

(* Image::setPoolData: the buffer's reference passes to the new image. *)
Return(t) ==
  /\ At(t, "return")
  /\ \E i \in Images \ Live :
       /\ imgBuf' = [imgBuf EXCEPT ![i] = pick[t]]
       /\ Unwind(t, i)
  /\ Goto(t, "put")

(* std::length_error: the image that asked is abandoned. *)
Throw(t) ==
  /\ At(t, "throw")
  /\ Unwind(t, None)
  /\ Goto(t, "idle")
  /\ UNCHANGED imgBuf

-----------------------------------------------------------------------------
(* The images, as ImageEffectNode::process and the caches use them.        *)

(* MemoryCache::put of the image just allocated, which allNeededDatas then *)
(* owns; an image already there under the same key is dropped.             *)
Put(t) ==
  /\ At(t, "put")
  /\ held' = held \cup {elem[t]}
  /\ elem' = [elem EXCEPT ![t] = None]
  /\ \E gone \in {{}} \cup {{j} : j \in cached} :
       /\ cached' = (cached \ gone) \cup {elem[t]}
       /\ DoomLocked(t, Orphans(cached', held', elem'))
  /\ Goto(t, "idle")
  /\ UNCHANGED <<poolVars, imgBuf, hostRefs, req, pick, reg, history>>

(* addReference( eReferenceOwnerHost, realOutDegree ) of a rendered output. *)
AddHostRefs(i, n) ==
  /\ i \in held \cap cached /\ hostRefs[i] = 0
  /\ hostRefs' = [hostRefs EXCEPT ![i] = n]
  /\ UNCHANGED <<poolVars, imgBuf, cached, held, callVars, reg, deathVars, history>>

ReleaseHostRefUnchecked(i) ==  \* mutant: an image released more often than declared
  /\ i \in cached
  /\ hostRefs' = [hostRefs EXCEPT ![i] = @ - 1]
  /\ UNCHANGED <<poolVars, imgBuf, cached, held, callVars, reg, deathVars, history>>

(* releaseReference by a node that has read this input. *)
ReleaseHostRef(i) ==
  /\ i \in cached /\ hostRefs[i] > 0
  /\ hostRefs' = [hostRefs EXCEPT ![i] = @ - 1]
  /\ UNCHANGED <<poolVars, imgBuf, cached, held, callVars, reg, deathVars, history>>

(* The end of process (allNeededDatas dies), or the caller drops a result. *)
LetGo(t, i) ==
  /\ At(t, "idle")
  /\ i \in held
  /\ held' = held \ {i}
  /\ Doom(t, Orphans(cached, held', elem))
  /\ UNCHANGED <<poolVars, imgBuf, hostRefs, cached, callVars, reg, cacheLock, history>>

(* ProcessGraph, after each frame and on each error, clears the cache too. *)
ClearCache(t) ==
  /\ At(t, "idle")
  /\ ClearUnusedImages(t)
  /\ UNCHANGED <<callVars, reg, history>>

Next ==
  \/ \E t \in Threads :
       \/ \E sz \in Sizes : Allocate(t, sz)
       \/ TryReuse(t) \/ ScanCache(t) \/ RemoveFromCache(t) \/ RetryReuse(t)
       \/ CheckAvailable(t) \/ ClearUnused(t) \/ RecheckAvailable(t) \/ Clear(t)
       \/ LastCheck(t) \/ NewData(t) \/ AddRef(t) \/ Count(t) \/ Referenced(t)
       \/ Return(t) \/ Throw(t) \/ Put(t)
       \/ ReleaseBegin(t) \/ ReleaseCount(t) \/ ReleaseReport(t)
       \/ ClearCache(t)
       \/ \E i \in Images : LetGo(t, i)
  \/ \E i \in Images :
       \/ ReleaseHostRef(i)
       \/ \E n \in 1 .. MaxRefs : AddHostRefs(i, n)

Spec == Init /\ [][Next]_vars

-----------------------------------------------------------------------------
TypeOK ==
  /\ count \in 0 .. MaxBuffers
  /\ reserved \in [Buffers -> Nat] /\ size \in [Buffers -> Nat]
  /\ refCount \in [Buffers -> Int] /\ allDatas \in [Buffers -> 0 .. 2]
  /\ used \subseteq Buffers /\ unused \subseteq Buffers
  /\ imgBuf \in [Images -> Buffers \cup {None}]
  /\ hostRefs \in [Images -> Nat]
  /\ cached \subseteq Images /\ held \subseteq Images
  /\ pc \in [Threads -> PCs] /\ req \in [Threads -> Sizes \cup {0}]
  /\ pick \in [Threads -> Buffers \cup {None}]
  /\ elem \in [Threads -> Images \cup {None}] /\ reg \in [Threads -> Int]
  /\ doomed \in [Threads -> SUBSET Images] /\ dying \in [Threads -> Images \cup {None}]
  /\ counted \in [Threads -> BOOLEAN] /\ cacheLock \in Threads \cup {None}
  /\ overlap \in BOOLEAN /\ crossed \in BOOLEAN

(* Although no lock guards the count, no update of it is lost as long as   *)
(* calls of allocate do not overlap, whatever images the other threads     *)
(* drop, evict, overwrite and destroy meanwhile.                           *)
RefCountIsClients == ~overlap => CountsClients

(* A buffer is in _dataUsed exactly from its registration to its report:   *)
(* while clients use it, and until the last one has told the pool.  It is  *)
(* not offered in _dataUnused meanwhile, as long as calls do not overlap.  *)
UsedWhileReferenced ==
  ~overlap =>
    \A b \in Buffers :
      LET registering == \E t \in Threads : pc[t] = "referenced" /\ pick[t] = b
          reporting   == ImagesOn(b) \cap CountedOut # {}
      IN  /\ b \in used <=> (refCount[b] > 0 /\ ~registering) \/ reporting
          /\ b \in unused => (refCount[b] = 0 \/ registering) /\ ~reporting

(* As long as no two calls of allocate have overlapped, two live images    *)
(* never own the same memory.                                              *)
MemoryNeverShared ==
  ~overlap => \A b \in Buffers : Cardinality(ImagesOn(b)) <= 1

(* Memory that a live image owns is in _dataUsed, out of reach of the      *)
(* search for an available buffer, whoever evicts, clears or throws.       *)
ImagesKeepTheirMemory ==
  ~overlap => \A i \in Live : imgBuf[i] \in used \ unused

(* MemoryPool::referenced calls what it cannot find in _dataUnused "a      *)
(* really new data" and hands it to the owning list, which deletes its     *)
(* elements one by one: a buffer must get there once.                      *)
ReallyNewData == \A b \in Buffers : allDatas[b] <= 1

(* The same, as long as calls of allocate have not overlapped. *)
OwnedOnceAlone == ~overlap => ReallyNewData

(* The memory in use first exceeds the authorized size by the reuse of a   *)
(* buffer, never by the creation of one: what an allocation found          *)
(* available is still available when its buffer is registered.  An int     *)
(* must be able to hold the authorized size.                               *)
NewDataWithinLimit ==
  [][MaxMemory <= IntMax /\ ~overlap /\ ~crossed /\ crossed' => allDatas' = allDatas]_vars

(* The same of any authorized size: Core sets it to the total RAM.         *)
NewDataWithinRAM ==
  [][~overlap /\ ~crossed /\ crossed' => allDatas' = allDatas]_vars

(* The memory of a live image keeps the size its image was given. *)
NoResizeInUse ==
  [][~overlap' => \A i \in Live : imgBuf'[i] = imgBuf[i] => size'[imgBuf[i]] = size[imgBuf[i]]]_vars

(* An allocation larger than the authorized memory is refused, whatever    *)
(* the pool and the cache hold.                                            *)
NeverBeyondAuthorized == \A b \in Buffers : reserved[b] <= MaxMemory

(* The image popped from the cache gives its memory to the request: the    *)
(* call does not fail for lack of memory once it holds a fitting buffer.   *)
PoppedImageServesRequest == \A t \in Threads : pc[t] = "throw" => elem[t] = None

=============================================================================
