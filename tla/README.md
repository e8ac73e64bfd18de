# TLA+ models of TuttleOFX

TuttleOFX is a host for OpenFX image plugins: an application builds a graph of
plugin nodes, and the host renders frames of it.  This directory holds
specifications of the host's own logic (`src/libraries/tuttle/src/tuttle/host`,
written `H/` below), the TLC runs that check them on small instances, and proofs
that TLAPS checks for every instance.  `PROJECT.json` lists the components, the
runs, the source lines behind each definition, the findings and the hazards.

## 1. The system

| Component | State | Operations | Interacts with |
|---|---|---|---|
| User graph, `H/Graph`, `H/graph/InternalGraph` | the nodes by unique name, a boost graph of vertices and edges, a counter per plugin | create, rename, delete nodes; connect, unconnect, replace connections; compute | gives nodes and edges to a ProcessGraph |
| Threaded computation, `H/ThreadEnv` | the flags `_isRunning`, `_result`, `_asynchronous`, a thread handle, an image cache, options | compute, join, abort, polling, end signal | calls `Graph::compute`; other threads poll and abort |
| Render of a sequence, `H/graph/ProcessGraph::process` | two copies of the graph (render graph and graph at time), options with the abort flag | setup, begin/end of the sequence on each node, a frame for each time | plugins, progress handle, memory cache |
| Render of a frame, `ProcessGraph::setupAtTime`, `processAtTime`, `ProcessVisitors`, `ImageEffectNode::process` | the graph at time, the data each node has at time, the clip connections | remove identity nodes, bake edges, process nodes, deliver images | plugins, memory cache |
| Time, `computeTimeRange`, `TimeDomain`, `DeployTime` | a time domain for each node, the times each vertex and edge needs | two depth-first visits, the graph at time | plugins (`getTimeDomain`, `getFramesNeeded`) |
| Clip negotiation, `connectClips`, `setup1` to `setup3` | the clip each input is linked to, bit depth and components of each clip | three depth-first visits | plugins (`getClipPreferences`) |
| Image memory, `H/memory/MemoryPool`, `MemoryCache`, `H/attribute/Image` | lists of used, unused and owned buffers, reference counts; images by clip and time | allocate, release, clear; put, get, remove, clearUnused | every render thread; one of each per program (`H/Core`) |
| Parameters, `H/attribute/AnimatedParam` and its like, `OfxhParamSet` | a value, a sorted vector of key frames, a recursion flag | set, set at a time, delete, evaluate, search; notify the plugin | applications, and plugins through the parameter suite, in their reactions too |
| Hash of the graph, `Graph::computeGlobalHashAtTime` | a hash for each node and time | a depth-first visit of the graph at time | parameters; applications that keep pictures |
| Plugin discovery, `Core::preload`, `H/ofx/OfxhPluginCache`, `OfxhPluginBinary` | binaries, their plugins, the plugins offered by identifier, a cache file that every program of the user shares | read, scan, reload, offer, write and rename | the file system, plugin libraries, other programs |
| Render inside a plugin, `plugin/ImageProcessor.hpp`, `OfxProgress`, and the multi-thread suite | the slices, the progress counter and its mutex | create and join the threads, write rows, forward the progress | the host's suites |
| Properties, other OFX suites | property sets | get, set, notify | plugins and applications |
| Plugins, terry, sam, bindings | | image processing and tools | the host, through OFX actions |

What makes it hard:

* **Sharing.**  One pool and one cache serve every thread.  Each of their methods
  takes a mutex, but `allocate` calls several of them and holds none in between,
  and the reference count of a buffer is not under a mutex.
* **Lifetimes.**  A buffer lives as long as its images, an image as long as a
  cache, a thread or a caller owns it, and may be evicted when no later node has
  declared a use of it.  Those declarations are counted by one piece of code and
  discharged by another.
* **Graph surgery.**  Identity nodes are removed from the graph of each frame
  while final nodes, edges, descriptors and clip connections were or will be
  computed from it.  Descriptors are indices of a vector.
* **Failure.**  Any plugin call may throw.  Two options let the render go on.
* **Abort.**  A flag another thread sets at any moment.
* **Order of visits.**  Time domains, needed times and bit depths are read by one
  vertex and written by another in the same depth-first visit.
* **What outlives a call.**  The clips of a node stay linked from one compute to
  the next; the entries of the plugin cache from one program to the next, while
  libraries are replaced and programs crash.
* **Re-entry.**  A plugin told of an edit edits again, and is told again.

For each component, what makes it correct: a buffer is never given to two images
and is never lost; an image waits in the cache for each of its readers; each
plugin reads the images it asked for; each output is delivered; what was begun on
a node or on the progress handle is ended; frames are rendered in order, all of
them, unless an abort or an error stops them; who waits for a computation sees
its result; the two representations of the user graph agree, and it is acyclic; a
frame deploys exactly the times it needs; both ends of a connection have the same
depth and components, supported by their nodes; each row of an image is written by
one thread; a program started with a cache file knows the same plugins as one
started without; an edit reaches the plugin; a value follows the key frames; and
two pictures have the same hash exactly when they are the same, where the hash can tell.

## 2. Modules

| Module | What it is |
|---|---|
| `MemoryPool` | the pool, the cache, the images and `allocate`, by any number of threads |
| `MemoryPoolProofs` | its theorems |
| `FrameRender` | one frame: identity removal, baking, processing, delivery, eviction by others |
| `FrameRenderProofs` | its theorems |
| `SequencePromise` | abstract: what `process` promises its caller |
| `RenderSequence` | `ProcessGraph::process`; implements `SequencePromise` |
| `ThreadEnv` | computations in a thread or in the caller, and their flags |
| `ComputeProofs` | the theorems of `RenderSequence` and `ThreadEnv` |
| `UserGraph` | the edits of the application's graph |
| `UserGraphProofs` | its theorems |
| `DepthFirst` | the visit of a graph by a visitor, as steps |
| `TimeSetup` | time domains, ranges, and the times and graph of each frame; EXTENDS `DepthFirst` |
| `ClipSetup` | connection and negotiation of clips; EXTENDS `DepthFirst` |
| `SetupProofs` | the theorems of the three modules above |
| `ImageProcessor` | the threads that render one image inside a plugin |
| `ImageProcessorProofs` | its theorems |
| `PluginCache` | sessions of programs that find plugins and share the cache file |
| `PluginCacheProofs` | its theorems |
| `AnimatedParam` | a parameter with key frames |
| `NodeHash` | the hash of a graph over an animated parameter; EXTENDS `AnimatedParam` |
| `ParamChange` | edits, notifications and the reactions of the plugin |
| `ParamProofs` | the theorems of the three modules above |
| `MC*` | values for TLC |

`ThreadEnv` uses the promise of the sequence (what a compute may return once an
abort has been asked) as the outcome of its action `Compute`; `RenderSequence`
uses the three parts of a frame, each of which may throw; `FrameRender` uses of
the pool what `MemoryPool` shows: other computations evict images that have no
reference (its action `Evict`), and an allocation may fail.  `TimeSetup` builds
the graph at time that `FrameRender` is given: `CasesAssumption` of the one (an
edge reads the vertex at the time it names) is the property `NeedsDeployed` of the
other.  `NodeHash` composes the parameter, whose edits are its steps, with the
graph at time.

### MemoryPool

A `PoolData` is a number, in order of creation; `reserved`, `size` and `refCount`
are its fields, `used`, `unused` and `allDatas` the lists of the pool.  An image
is an element of `Images` while it has an owner: the cache (`cached`), a thread
or the caller's output cache (`held`), or the local variable of an `allocate`
(`elem`).  The thread that drops the last owner of images runs their destructors
(`doomed`, `dying`) before it goes on, with the cache locked when it is in a call of the
cache (`cacheLock`).  No mutex guards the reference count of a buffer, so an update is two
steps with a value of the thread's own (`reg`) between them: `AddRef` and `ReleaseBegin`
read the count, `Count` and `ReleaseCount` write it back and compare the value written,
and `Referenced` and `ReleaseReport` are the locked calls that tell the pool.  Copies of
the pointer that the thread makes and drops at once while it holds a reference (the return
of `allocate`, the assignment in `setPoolData`) are left out.  `allocate` is one action for each call that locks
(`pc`): the search in the pool, the search in the cache, the removal from the
cache, the second search, the three tests of the available size with
`clearUnused` and `clear` between them, the creation, the two steps of `addRef`,
`referenced`, and the return that gives the buffer to an image.  Once an update of a count
has been lost no further call starts: the model stops there (`CountsClients` is shown
violated in section 6) instead of letting the counts drift.  The code sums the memory in use
in an `int` and computes the available size in a `std::size_t`: `UsedSize` wraps
beyond `IntMax`, `Available` is modulo `SizeT`.  The order of equal sizes, that of a
hash table, is any.

`hostRefs` is the count of uses that later nodes have declared; an image with
none may be evicted.  Two history variables say whether two calls of `allocate`
have overlapped and whether the memory in use has exceeded the limit: several
properties hold as long as they have not, which is a result of its own.

### FrameRender

The constant `Cases` is the set of graphs at time, each with what `isIdentity`
answers for its vertices.  A vertex is a node at a time, the output needs them all, no
vertex needs itself, and an edge names the time of the vertex it reads (`IsFrame`): that
is what `TimeSetup` builds.  The edges are a set, each numbered with its place `n` in the
edge list, because the code takes the first that matches.  `CollectIdentities` and `RemoveIdentity` are
`RemoveIdentityNodes` and `removeIdentityNodes`; `Bake` is
`bakeGraphInformationToNodes` and `connectClips`; `Acquire` to `Deliver` are the
steps of `ImageEffectNode::process` and `Process::finish_vertex` for one vertex;
`EndFrame` and `ClearAfterError` are the two ways a frame ends.  Descriptors are
the numbers of the vertices, because the code orders edges by them.  A vertex is
processed when its inputs are; the code's depth-first order is one of those
orders.  The images in the cache are named by the vertex they were made for;
`Found` translates the cache's key (clip of the connected node, time).

### RenderSequence and SequencePromise

One action for each call: `BeginNode` and `EndNode` call one plugin each, in any
order (the nodes are in a hash map); `FrameThrows` is an exception of any part of a
frame, of the two kinds the code tells apart; `Abort` is the other thread.
`opened`, `frameDepth` and `attached` count what must be undone.  The ranges come
from `RangeLists`; the step of a range is positive, because `TimeRange` is given
one by its callers.  The graph at time is represented by the frame it was built
for.  In the step that leaves `process` the graph at time is cleared on an error
or an abort inside a frame and left otherwise, as the code does.

`SequencePromise` says what a caller may rely on: frames are attempted in their
order; `true` only after all of them and only if no abort had been asked before;
`false` only after an abort; at most one frame begins after an abort.
`RenderSequence` implements it under the mapping at the end of the module, which
the run `sequence` checks (`KeepsPromise`).

### ThreadEnv

A compute is a number.  `at` says where it is: in the thread or in the caller,
after the result, after the flag, finished.  One controlling thread calls
`compute`, `join` and `setAsynchronous`; any thread may abort and poll.  The
handle is replaced by a new compute while the old thread goes on (boost detaches
it); when the thread cannot be created the handle stays and the running flag with
it, up.  `_isRunning` and `_result` are relaxed atomics (`ThreadEnv.hpp:59,78,91,97`).
`isRunning` and `result` are what was stored last; `runningReads` and `resultReads`
are what an observer, the controlling thread or another, may still read of each: a
store by another thread adds a value, and the flag's stores reach the observer when
they do (`Arrive`), one flag without the other.  Creating a thread and joining it
synchronise: the thread starts with what the controller stored, and who has joined
reads the thread's stores, which are the last unless computes overlap.  The slots of
`signalEnd` run in the thread and read its own stores.  So the result can be relied on in a slot
or after `join`, and not by polling: `PollTellsResult` is refuted in section 6.

### UserGraph

A node is its name.  `nodes` is the node map, `vertices` the vector of the
internal graph, `edges` its edges.  Each action is one method of `Graph` with all
that it calls.  `undefined` becomes true when the code uses a node or a vertex
that no longer exists; no action continues from there.  The connections of
`replaceNodeConnections` are made in any order within inputs and within outputs,
which includes the code's.  `Upstream` is the least set that contains a node and the sources
of its edges, the vertices the code's traversal meets.

### DepthFirst, TimeSetup, ClipSetup

`Start`, `Discover` and `Finish` are the events of `boost::depth_first_visit`,
with its colours and its stack; out-edges are taken in any order.  A visitor is
what a module conjoins to an event.

`TimeSetup`: `FinishForDomain` is the visitor `TimeDomain` (it works when a vertex
is finished), `ComputeTimeRange` applies the options and replaces infinite bounds,
`StartFrame` and `DiscoverForDeploy` are `DeployTime` (it works when a vertex is
discovered), `BuildGraph` copies each vertex for each of its times and connects the
copies, with the look-up of the code (`Lookup`) and the edges it refuses.  A plugin's answer about the frames it needs is a finite set of
offsets for each edge.  A default time domain is the hull of those its input clips are
linked to: a graph says which edge links each clip (`linked`), one of those into it; a
link that has outlived its edge (hazard of `ClipSetup`) is not in these graphs.  The two calls to plugins may throw, and a frame that was
given up leaves what it had written, which `StartFrame` of the next must clear.

`ClipSetup` (its specification is `ClipSpec`): `Edit` is the application between two computes (it deletes nodes and
gives another graph, of what its outputs need: the code removes the rest), `ConnectClips` links the input clips, then three visits do what
`Setup1`, `Setup2` and `Setup3` do.  Nothing refuses a second edge into a clip
(`addEdge` refuses the same edge only), so of several edges any may be the last, which
the clip is linked along.  The value of a depth is the one of
`EBitDepth`, so that the code's comparisons are those of the model.  A kind of
node says what its plugin supports and prefers.

### ImageProcessor

`Process` to `PostProcess` are the thread that renders, `WriteRow` to `Tell` a
thread on its slice.  `progressForward` is three steps under the mutex (`Lock`,
`Add`, `Tell`), because the counter is read, written and reported.  A row may throw:
in the only slice the exception leaves `process`, in a spawned thread it ends the
program.  When a thread cannot be created `process` throws and the processor goes; what
the threads created before do with it is undefined, and the model stops there.

### PluginCache

A session is one run of a program, `pc` its place in `preload`.  A file is a stamp
(modification time and size) with the plugins its library exports; `Install` is
somebody who installs, replaces or removes one at any moment.  The cache file is
absent, unreadable or whole: `ReadCache` restores the entries and states each file, forgets
everything and asks for a new file when it cannot be read, and asks for nothing when there
is none.  `Visit` is one bundle met by `scanDirectory`,
`OpenNew` the opening of an unknown one, a step of its own because the stamp was
taken before; `CheckGone`, `CheckSame` and `Reload` are the three cases of the
loop over the known binaries; `WriteTemporary` and `Rename` are the two steps of the
write.  Each of them may fail where the code catches an exception, and `Stop` ends or
kills a session between any two.  A pointer to a plugin is the binary, whether its
plugins came from the cache file or from the library, and the plugin; it is alive
while the binary has those plugins.  A reload that throws leaves the old plugins, or those
that were made before the failure.  The history variables are `readAs` (what the
session has read), `unread` (there was a file it could not read), `calm` (nothing has
disturbed it) and the field `failed` of an entry.  A plugin whose load or describe fails is kept and offered all the same,
as the code does, so this outcome is not told apart for a new binary; a failed unload
is taken for a failed describe.

### AnimatedParam and NodeHash

`memory` is the memory of the key frame vector, `size` its number of elements: the
code reads the element behind the last one, and what is there is a deleted key, an
old one, or was never written.  The edits are the methods of `AnimatedParam`;
`ValuesAtTime` is the set of answers `getValueAtTime` may give, `KeyIndex` the
answer of `getKeyIndex`.

In `NodeHash` the application edits the parameter, builds another of the `Graphs` or
keeps a picture with its hash.  A hash is the term that it combines, so two are
equal only if all that was combined is; `Picture` is the term of all that the
render of the output sees, each vertex at its own time and with every parameter, also
one that is not evaluated on change and so is in no hash.  Hash and render read the
parameter each for themselves (`HashReads`, `RenderReads`): after the last key, where the
code reads behind the vector, the two may get different values.

Three things the hash cannot tell: a parameter that is not evaluated on change, a
frame-varying vertex that is needed at another time than the frame, and an animated
parameter whose value is not the same at the frame and at the time of its vertex, or
depends on what is behind the last key.  `Told(frame)` says that none of them is in the
graph; `HashTellsPicture` and `PictureTellsHash` are about the frames and graphs of
which it is true, and the runs hold graphs of which it is not.

### ParamChange

The state is the stack of edits under way: each has a parameter, the calls it
still has to make, and the action of the plugin it is in.  `OneByOne` and
`Together` are the two ways a parameter of several components is set: components
that notify each, or quietly with one notification for all; `OneOfThem` is one component
with the notification of the whole (`setValueAtIndex`).  `EditsQuietly` is what tells
nobody: `deleteKey`, `deleteAllKeys`, `copy` (its `paramChanged` is commented out) and the
setters with `eChangeNone`.  So the plugin is *not* told of every edit; `EveryEditTold`
says that it is told of those made by the setters that notify, and the history `quiet` marks
the parameters to which the others have come since.  `PluginEdits` is the
plugin that calls the parameter suite from its changed action; one that edits in
`beginInstanceChanged` would call itself without end, which the code does not
guard against and the model leaves out.  `Throws` is an action of the plugin that fails.

## 3. Runs

| Run | Shows | Instance |
|---|---|---|
| `pool` | while calls of `allocate` do not overlap, no update of a reference count is lost, memory of live images is not shared, resized or offered, and the limit is first exceeded by reuse only | 2 threads, 3 images, sizes 1 and 2 of a limit of 2, 3 buffers, an `int` of 3 bits |
| `frame` | pending inputs stay in the cache, references equal readers, a vertex that needs one frame of each clip reads exactly its declared sources, rendered outputs are delivered | 4 graphs of 4 to 7 vertices, up to 2 identity or disabled vertices each, one of them with 3 |
| `sequence` | every opened node and frame is closed, node data is alive, the promise is kept, the render ends | 2 nodes, 4 lists of ranges |
| `env` | the slots of the end signal and who has joined read the result of the compute; the flag falls in the end | 3 computes |
| `graph` | map and graph agree, no cycle, a failed edit loses nothing | 2 labels, 2 attributes, up to 3 nodes, 2 created per label |
| `time` | domains follow the inputs, ranges obey the options, each frame deploys the times it needs and no other | a chain, a fork, a diamond, a clip with two edges, linked along either, and the empty graph; offsets -1, 0 and 1; 5 requests; 2 frames |
| `clips` | after a setup that succeeds both sides of each connection along an edge agree; where nothing else is connected they are supported, and a node of one depth gets one unless a reader raised it | 6 graphs of up to 4 nodes, one with two edges into a clip, 80 choices of kinds, 2 computes with deletions between |
| `processor` | each row is written once, the progress loses nothing, the render ends | 5 windows, 1 to 4 threads or none |
| `plugins` | stamps tell the truth, a cached start is like a fresh one, offers are alive and of the highest version, the file is written when there is news or it was unreadable, and then only | 2 sessions, 2 bundles, 3 versions of a plugin in 2 libraries, 1 installation during the run |
| `params` | key frames stay sorted, values and indices follow them, hashes are equal exactly when pictures are, where the hash can tell | 4 times, 2 values, 3 key frames, 9 graphs (three with a shifted vertex, one with a parameter that is not evaluated on change), 2 frames |
| `changes` | reactions nest no deeper than the parameters are many and one more, every edit by a setter that notifies is told unless an edit of the parameter failed | 3 parameters, one of 2 components |
| `deploy_diamond` | the finding of section 6 | diamonds with one temporal node |

Why the bounds are enough.  In the pool, two threads give every overlap of two
calls, three buffers allow one to be evicted, one reused and one created, the sizes
include one that fills the limit and pairs that fit one another within the factor
of two; three images allow a cached one, a popped one and a new one.  In a frame,
the diamond has a vertex read twice and one that is both final and read, the chain
has identities in a row, and the two-frame graph has a clip with two frames and an
identity that answers differently at each time; two identities are needed for
each problem found.  In a sequence the lists have an empty range, a range shorter
than its step, overlapping ranges and negative times.  Three computes allow one
that is over, one detached and one current.  Three nodes are the smallest graph
with a cycle through another node and with a deletion that moves a descriptor.
The diamond is the smallest graph with a vertex that two paths of a visit reach, and
the fork one with two outputs of which one reads the other's input; with negative
and positive offsets a vertex is needed before and after the frame, and two frames
show what the first leaves.  Two computes are enough for a link to outlive its
edge.  The windows have rows that three and four threads do not divide, fewer rows
than threads, and no row or column.  Two sessions give every overlap of readers and
writers of the cache file; one installation is enough for a stamp to be out of date
at each step, because files also differ at the start (one bundle with three
installations, and one session with two bundles and two, hold as well).  Three key frames have one that is between others, and the fourth
time is one without a key on any side; a kept picture of which the hash cannot tell is
checked and not gone on from (`OnlyTold`), as no property speaks of it.  Three parameters show chains and cycles of
reactions.

`CHECK_DEADLOCK FALSE` is set where the system stops: a frame or a sequence that
has ended, computes that are all over, a graph whose counters are used up, a setup after its
last frame or compute, an image that is rendered.  The pool, the sessions and the
parameters never stop.

Fairness.  `RenderSequence` assumes weak fairness of the render thread: it is
scheduled and the plugins it calls return.  Nothing is assumed about aborts or
errors.  `ThreadEnv` assumes weak fairness of each started compute, which
terminates by the property of the sequence; the controlling thread may stop
calling.  `ImageProcessor` assumes weak fairness of each thread that was created and
of the one that joins them; a thread that waits for the mutex gets it in the end
because the others have finitely many rows.  The other modules state no liveness: their steps are
driven by these, or by a user.

Each property is paired in `PROJECT.json` with a mutant, an operator next to the
definition it changes, that breaks the property the way a bug in the code would.
A run lists the properties that could fail for a reason worth knowing.  Every
module defines its `TypeOK`, which TLC accepts in the same instances; the proofs
establish it where there are proofs, and the runs `graph` and `params` list theirs
because it says more than types.

## 4. Proofs

All theorems hold for every value of the constants under the assumptions named in
the modules (`PoolAssumption`, `CasesAssumption`, `SequenceAssumption`,
`EnvAssumption`, `GraphAssumption`, `TimeAssumption`, `ClipAssumption`,
`ProcessorAssumption`, `PluginAssumption`, `ParamAssumption`, `ChangeAssumption`).  They say that sets of
threads, images, nodes and vertices are finite, that graphs join their own vertices
without a cycle, and which values the code can be given.

An induction over a graph or over numbers is made first-order: the least
counterexample of a set that is not empty, by the well-founded minimum of the library
(`NatMin`, `LeastOfFinite`), contradicts the step.

* `MemoryPoolProofs`.  The inductive invariant `PoolInv` is `TypeOK` with three facts that
  hold of any interleaving and one that holds until calls of `allocate` overlap.
  `BuffersExist`: images and calls only know buffers already created, and the
  others are in no list.  `RoomForNew`: the calls that may still create a buffer have
  numbers left for it (the bound `MaxBuffers` is the model's, and this keeps it from being
  an assumption).  `DieOnce`: an image is destroyed once, by one thread, which has no
  reference of its own to count meanwhile.  `Exact`, without overlap: one thread at most is
  in `allocate` (`OneCall`); live images have memory of their own, in use, counted once
  until it is given back (`OwnMemory`); the buffer the call has chosen is nobody's
  (`ChosenIsFree`); what a thread has read of a count is still the count when it writes it
  back (`ReadIsCurrent`), because the others that write counts have other buffers; and a
  buffer without a client has the count zero (`OthersFree`).  The lemma `OneClient` sums this up: a
  buffer is an image's, or a call's, or nobody's.  From `PoolInv` follow `TypeOK` and, for
  calls that do not overlap, `RefCountIsClients`, `UsedWhileReferenced` (the used list is the
  buffers from their registration to the report of their last client), `MemoryNeverShared`,
  `ImagesKeepTheirMemory`, `OwnedOnceAlone` (a buffer enters the owning list once)
  and the action property `NoResizeInUse`.  Section 6 shows two overlapping calls that lose
  an update, and two that register a buffer twice.  `SizeInv` adds what an allocation that has
  found enough memory still finds when it takes it, as long as no other one
  overlaps; with lemmas on the sum of the sizes of a finite set of buffers, one
  buffer more or less, it gives `NewDataWithinLimit`: a new buffer never takes the memory
  in use beyond the limit, if that limit is no more than `IntMax`.
* `FrameRenderProofs`.  The inductive invariant says, while identities are bypassed, that
  the edges left are those of the graph between vertices left and those made to
  go around the removed ones (`EdgesInv`), and, once the edges are baked, that the
  vertices are processed after their inputs (`StepInv`) and that a vertex has at least one
  reference for each edge that still waits for it, and is cached while it has one
  (`CountInv`; `ExactInv` for frames without identities).  `Source`, the recursive
  function that follows identities, is shown to exist by the rank of the vertices, and a
  chain of identities to end where the declared source does.  From these follow
  `PendingInputsCached`, `RefsAreReaders`, `ReadsDeclaredSources` and
  `RenderedFinalsDelivered` for every graph at time and every answer of the plugins.
  `ReadsDeclaredSources` is an equality for a vertex that needs one frame of each clip
  (`OneFrame`); of a clip that needs several, one frame is read and section 6 shows that
  the others are not.
  Where an input clip reads two nodes (`OneSourceNode` is false) the first two are
  silent: references are taken by clip, and the model shows them wrong there.
* `ComputeProofs`, the sequence.  The inductive invariant `SequenceInv` strengthens the
  properties by what each value of `pc` says about `opened`, `toCall` and
  `frameDepth`: in `begin` exactly the nodes not in `toCall` are open, from
  `range` to the last frame all are, in `end` exactly those in `toCall`.
  `SequencesClosed` alone says nothing before the end, so it is not inductive.
  `FramesClosed` (beginFrame and endFrame alternate on every path) and the last
  part, `NodeDataAlive`, need the same case split: data is attached by `BuildGraph`
  only, for the graph it builds.  All four and `TypeOK` follow for any nodes,
  any lists of ranges and any interleaving of errors and aborts.  The refinement
  `KeepsPromise` is proved with `PromiseInv`, which adds what the loops have been
  through (`OnStep`, `FramesInOrder`: the frames attempted are those before the
  current time of the current range, which needs that two times of one range are
  a step apart) and why process stops early (`AbortObeyed`).  A list of ranges is
  assumed not empty: `process` reads `timeRanges.back()`.
* `ComputeProofs`, the thread.  `EnvInv` adds to the type invariant that a compute not yet
  called has no outcome and is nowhere, that the thread handle is a compute in a
  thread, and that, without overlap, only the latest compute can be going on, with the
  flag and the result its position implies, which who joined its thread has seen.  From
  it follow `EnvTypeOK`, `EndTellsResult` and, where the threads could be created,
  `JoinedMeansOver` (after `join` nothing goes on) for any number of computes.
* `UserGraphProofs`.  The inductive invariant is `TypeOK`, the absence of a cycle
  (no edge reads what needs it, `NoCycle`), and, while the program is defined, that the vector holds each node of
  the map exactly once and edges join its nodes.  An edge is added when its source does not
  need its target (`Upstream`), so no cycle appears; a vertex is deleted
  with its edges, and the descriptors of those behind it fall by one.  `VerticesAreNodes`,
  `Acyclic` and the action property `FailedEditLosesNothing` follow for any number of
  labels, nodes and edits.
* `SetupProofs`, the visits.  `VisitInv`: along the stack of a visit the rank of the
  vertices falls (a graph without a cycle has one), the gray vertices are those of the
  stack, and a finished vertex has only finished inputs; so when the visit is over every
  vertex reached is finished.
* `SetupProofs`, the time.  `IInv` adds to `VisitInv` that the times each edge needs are
  those its discovered reader asks for at the times it has (`DeployInv`), that a
  vertex is not given times after its discovery if it has one reader or if nodes
  need the time of the frame only (`MetInv`), and that the look-up of a deployed
  vertex then finds it.  `DomainsFollowInputs`, `RangesObeyRequest`,
  `DeployedTimesAreNeeded` and `NeedsDeployed` follow for any graphs, answers and
  requests, over frames that are given up too.
* `SetupProofs`, the clips.  `AgreedInv`: a validated node agrees with its inputs, which
  are finished and do not change any more.  So `ConnectionsAgree` holds of any graph and
  history, clips that stay linked from before included.  Otherwise `ClipInv` says what each of the three visits has done with
  the vertices it has passed, as long as clips are linked along the edges: `Setup1` has
  given them a depth (one they support if they read something) and the components of
  their inputs; `Setup2` has raised the inputs of the discovered ones; `Setup3` has validated
  the finished ones.  What a visit changes after that are depths of vertices whose
  readers have not been passed, because a reader is finished after its inputs and, when
  each node has one reader, discovered before them.  So
  `ClipsSupported` holds of any graph, and `OneDepthUnhindered`
  of those where no reader and no plugin is in the way, both where the clips are
  connected as in the graph.  That every vertex is passed needs
  that the output needs them all.
* `ImageProcessorProofs`.  `SlicesPartition` is arithmetic: the row `y` belongs to the
  slice `((y - y1 + 1) * n - 1) \div height`, and the cuts grow with the slice.  From
  it and `SliceInv` (a thread has written the rows of its slice before `next`, and no
  other) follows `RowsWrittenOnce`; `MutexInv` (who is between `Lock` and `Tell` is
  the holder, and has seen the counter as it is) gives `ProgressExact`, with the
  rows written and not counted as the difference of two cardinalities.
* `PluginCacheProofs`.  `CacheTellsTruth` is not inductive: a stamp seen by `stat`
  must not be one that a later installation gets.  `TruthInv` adds types and that no
  stamp, kept in an entry, a temporary file or the cache file or just seen by `stat`, is
  after the clock.  `OfferInv` adds to `OffersAreAliveAndBest` that nothing is offered before
  the loop over the binaries, and then only of binaries it has passed, which are
  neither erased nor reloaded again; the table by identifier keeps the highest
  version because `Trumps` is a strict order on versions.  For `CachedLikeFresh` and
  `DirtyIsNews` the invariant `CalmOK` follows an undisturbed session: an entry is as it was
  read, or was loaded from the file that is there, or there is none because the file
  is gone or was never known; past the scan the known binaries are those on
  the disk, and the flag `dirty` is raised when an entry has changed or the file could not
  be read, and then only.  `StampsInv` tells a
  stamp that was never taken from one that was.
* `ParamProofs`, the key frames.  `TypeOK` is inductive as it stands: the lower bound of a
  time is the place behind the keys before it (`LowerBoundFacts`, from the order of the
  keys and the cardinality of an interval), so an insertion and an erasure there keep the
  order, in the same memory or in a larger one.  `ValueFollowsKeys` and `KeyIndexNearest` are
  consequences of it: the earliest and latest keys of both are at the lower bound or next to it,
  and a quotient of the interpolation is bounded by its multiples.
* `ParamProofs`, the hashes.  `HashTellsPicture` and `PictureTellsHash` for any graphs, edits and
  frames, both under `Told` (section 2); `HashShifted` (section 6) shows that the condition is
  needed.  The functions that `GlobalHash` and `Picture` define by recursion are shown to exist, along a
  rank of the vertices; `KeptInv` says that what is kept, if the hash could tell, is such a hash and such a
  picture of one of the graphs; and of two graphs, two vertices have equal hashes exactly when they
  have equal pictures, by the lowest vertex where they would not (`HashesAgree`).
* `ParamProofs`, the changes.  `ChangeInv`: only the edit on top of the stack moves, the ones
  below are in the changed action with their flags set, so they are of distinct
  parameters, and the top is at most one more; a flag that is set is of an edit in
  progress or of a parameter that broke; a parameter that is untold still has its
  notification to make in the edit of the application, or broke, or was edited since by
  something that tells nobody.  The bound is the
  cardinality of an injection from the stack into the parameters.

What stays with TLC: the liveness properties `Terminates`, `EndIsSeen` and
`RenderEnds`, which are out of the prover's reach.  `KeptInv` is proved and not run: it
says that a hash with some value of the parameter exists, over all values.  Every other property
of the passing runs is a theorem.

## 5. Not modelled, and the plan

In order:

1. The pool under the frame: two frames with real allocations, references left by
   a frame that failed, images of one computation overwritten by another.
2. The memory suite offered to plugins, and the actions that create and destroy the
   instances of a plugin.

Not planned: image processing, property sets, the disk cache, command-line tools and
bindings, which are data, input and output, or vendored.

Simplifications to keep in mind when reading the results: `preProcess1` to
`preProcess3` compute regions and are steps that may throw, nothing more; an image's
pixels are not modelled, only whose memory it has; every node of the user graph has
the same input attributes; a third entry of a buffer in the owning list is counted as two;
the memory limit is constant; frame rate, pixel aspect ratio and premultiplication
are copied by the negotiation and left out; a plugin that sets preferences on its
input clips is left out, as is one that answers `multiThread` calls of its own; two
files of one stamp have one content; interpolation is linear; the cases
`InvalidateAll` and `ValueChangeToEnd` of a parameter's hash are left out; hashes do
not collide.

## 6. What the models show of the code

The run `deploy_diamond` is the finding that `PROJECT.json` quotes: `DeployTime`
declares times at the discovery of a vertex, so that in a diamond with a temporal
node a vertex misses the times of the branch visited last, and an edge is
connected to the first vertex of the graph instead.  `NeedsDeployed` says when this
cannot happen.

The other disagreements below are stated in the modules; a configuration of that
name, which is not one of the runs, shows TLC's counterexample.

| Configuration | Property | What TLC shows |
|---|---|---|
| `PoolLimit` | `NeverBeyondAuthorized` | the available memory wraps once the used memory exceeds the limit (`MemoryPool.cpp:276`), and any request is granted |
| `PoolPopped` | `PoppedImageServesRequest` | the image popped to free its buffer keeps it until the call returns, so the call may fail for lack of the memory it holds (`MemoryPool.cpp:186`) |
| `PoolInt` | `NewDataWithinRAM` | the memory in use is summed in an `int` (`MemoryPool.cpp:255`): beyond 2 GB the available size is wrong, and a new buffer may exceed the limit |
| `PoolOverlap` | `CountsClients` | overlapping allocations take the same unused buffer and count themselves without a lock: an update of the "counter on clients" is lost (`MemoryPool.cpp:83`, against `:66`) |
| `PoolOverlap` | `ReallyNewData` | overlapping allocations register a buffer twice in a list that deletes its elements (`MemoryPool.cpp:116`) |
| `FrameOutputs` | `OutputsDelivered` | nothing is delivered for an output node that is an identity (`ProcessGraph.cpp:400`) |
| `FrameDisabled` | `AllNeededRead` | of a clip that needs several frames the edges have the same key, clip and time of the reader, and only the last stays: the other frames are never acquired (`ProcessGraph.cpp:170`, against `ImageEffectNode.cpp:846`) |
| `FrameDisabled` | `DisabledBranchStaysOut` | an identity whose source is disabled reads the first vertex (`ProcessVisitors.hpp:551`) |
| `EnvResult` | `ResultOfLatest` | a synchronous compute that throws leaves the previous result (`ThreadEnv.cpp:35`) |
| `EnvResult` | `PollTellsResult` | a thread to which the fall of `isRunning` has come may still read the previous result: the two stores are relaxed (`ThreadEnv.hpp:91,97`) |
| `GraphDelete` | `DeletesTheUnconnected` | deleting unconnected nodes uses descriptors that have moved (`Graph.cpp:154`) |
| `ClipConnected` | `ConnectedAsInGraph` | a clip whose edge is gone is still connected at the next compute (`OfxhClipAccessor.cpp:32`) |
| `ClipDepth` | `OneDepth` | a node of one depth gets an output raised by its reader and an input that is not (`ImageEffectNode.cpp:594`) |
| `PluginsListed` | `ListedAlive` | the list of all plugins keeps pointers to plugins of binaries erased or reloaded by the scan (`OfxhPluginCache.hpp:70` and `:200`) |
| `HashShifted` | `ShiftTold` | a vertex needed at another time is hashed for the frame, so a shift of an input that changes over time leaves the hash as it was (`ProcessVisitors.hpp:188`) |
| `ParamLastKey` | `LastKeyHolds` | after the last key the answer is a deleted key, or anything (`AnimatedParam.hpp:118`) |
| `ParamFlag` | `FlagMeansInProgress` | after the plugin has failed in a changed action it is never told of that parameter again (`OfxhImageEffectNode.cpp:527`) |

Also seen while modelling, and not the subject of a property that TLC runs:

* A reload that throws has been given the new stamp, so the old plugins pass for
  those of the new file in every later session (`OfxhPluginBinary.cpp:18`;
  `OfferedIsOnDisk` of `PluginCache` states it).
* A plugin whose load or describe fails is offered from then on (`isSupported` of
  `OfxhPlugin.hpp` is read by nobody).
* `getKeyIndex` fails to find the previous key after the last one
  (`PreviousKeyFound` of `AnimatedParam` states it), an expression leaves the key
  frames in place, and `getValue` ignores them.
* The typed setters of parameters of several components notify after each one, so
  the plugin reads a half-set value (`ParamInteger2D.cpp:42`).
* A row that throws in a spawned thread ends the program
  (`OfxhMultiThreadSuite.cpp:34`); with an unknown number of processors no row is
  written and the render succeeds; `multiThreadIndex` fails where there is an index.
* The abort of the host never reaches the plugins (`HostStops` of `ImageProcessor`).
