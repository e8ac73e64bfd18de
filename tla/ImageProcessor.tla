--------------------------- MODULE ImageProcessor ---------------------------
(***************************************************************************)
(* The render of one image inside a plugin (plugin/ImageProcessor.hpp):    *)
(* the render window is cut into slices of rows, and the multi-thread      *)
(* suite of the host runs a thread for each slice.  The threads share the  *)
(* destination image and, under a mutex, the progress counter.             *)
(*                                                                         *)
(* The row loop is the one of the plugins (multiThreadProcessImages): a    *)
(* row is written, then progressForward is called, and the thread gives up *)
(* when that answers TRUE.  A row may throw, as a colour conversion does.  *)
(* The counter is kept in pixels: _counter is that count over _stepSize.   *)
(* Windows have y1 <= y2 and sizes whose product by the number of threads  *)
(* fits the unsigned of the code.                                          *)
(***************************************************************************)
EXTENDS Integers, FiniteSets

CONSTANTS
  Windows,   \* the render windows: y1, y2 and the width dx
  NbThreads, \* what a plugin may set in _nbThreads; 0 is automatic
  CPUs       \* what hardware_concurrency() may answer; 0 is "unknown"

ASSUME ProcessorAssumption ==
  /\ Windows \subseteq {w \in [y1 : Int, y2 : Int, dx : Nat] : w.y1 <= w.y2}
  /\ NbThreads \subseteq Nat /\ CPUs \subseteq Nat

VARIABLES
  window,    \* _renderArgs.renderWindow
  asked,     \* _nbThreads
  cpus,      \* the processors of the machine
  pc,        \* where setupAndProcess is
  nThreads,  \* the number of slices
  created,   \* the threads that were created: 0 .. created - 1
  at,        \* where each thread is
  next,      \* y of the row loop of each thread
  writers,   \* <<thread, row>>: who wrote which row of the image
  holder,    \* the thread that has OfxProgress::_mutex
  seen,      \* the counter as the holder read it
  counter,   \* OfxProgress::_counter
  told       \* the last progress the host was given

inputVars    == <<window, asked, cpus>>
progressVars == <<holder, seen, counter, told>>
threadVars   == <<at, next, writers>>
vars == <<inputVars, pc, nThreads, created, threadVars, progressVars>>

None == -1
Threads == 0 .. nThreads - 1
Rows == window.y1 .. window.y2 - 1

(* multiThreadFunction: the slice of thread i, from Low(i) to High(i) - 1. *)
Least(a, b) == IF a < b THEN a ELSE b
CutTruncated(i) ==  \* mutant: divided before it is multiplied
  i * ((window.y2 - window.y1) \div nThreads)
Cut(i)  == (i * (window.y2 - window.y1)) \div nThreads
Low(i)  == window.y1 + Cut(i)
HighIncluded(i) ==  \* mutant: the first row of the next slice is taken too
  window.y1 + Cut(i + 1) + 1
High(i) == window.y1 + Least(Cut(i + 1), window.y2 - window.y1)

(* ImageEffectNode::abort answers 0 and progressUpdate answers false. *)
HostStops == FALSE

Init ==
  /\ window \in Windows /\ asked \in NbThreads /\ cpus \in CPUs
  /\ pc = "setup" /\ nThreads = 0 /\ created = 0
  /\ at = <<>> /\ next = <<>> /\ writers = {}
  /\ holder = None /\ seen = 0 /\ counter = 0 /\ told = 0

-----------------------------------------------------------------------------
(* The thread that renders.                                                *)

(* setup fails: no image, or no row bytes.  progressEnd changes nothing    *)
(* that is modelled, and the host does not abort, so the error goes on.    *)
SetupFails ==
  /\ pc = "setup" /\ pc' = "threw"
  /\ UNCHANGED <<inputVars, nThreads, created, threadVars, progressVars>>

(* process throws for an empty window; else progressBegin, and the number  *)
(* of threads.  For 0 processors only a message is written.                *)
EmptyWindow == window.dx = 0 \/ window.y2 - window.y1 = 0

Process ==
  /\ pc = "setup"
  /\ nThreads' = IF asked = 0 THEN cpus ELSE asked
  /\ pc' = IF EmptyWindow THEN "threw" ELSE IF nThreads' = 0 THEN "joined" ELSE "create"
  /\ counter' = 0
  /\ at' = [i \in 0 .. nThreads' - 1 |-> "none"]
  /\ next' = [i \in 0 .. nThreads' - 1 |-> window.y1]
  /\ UNCHANGED <<inputVars, created, writers, holder, seen, told>>

(* multiThread creates the threads one by one: the first ones already run. *)
(* With one slice the thread that renders is thread 0.                     *)
Create ==
  /\ pc = "create"
  /\ created' = created + 1
  /\ at' = [at EXCEPT ![created] = "row"]
  /\ next' = [next EXCEPT ![created] = Low(created)]
  /\ pc' = IF created + 1 = nThreads THEN "join" ELSE pc
  /\ UNCHANGED <<inputVars, nThreads, writers, progressVars>>

(* A thread that cannot be created: the exception leaves process, and the  *)
(* processor goes while the threads that were created use it.  What they   *)
(* do then is undefined, and no action continues.                          *)
CreateFails ==
  /\ pc = "create" /\ nThreads > 1
  /\ pc' = IF created = 0 THEN "threw" ELSE "undefined"
  /\ UNCHANGED <<inputVars, nThreads, created, threadVars, progressVars>>

(* join_all, or the return of the only slice. *)
JoinSome ==  \* mutant: one thread is waited for
  /\ pc = "join" /\ \E i \in Threads : at[i] = "over"
  /\ pc' = "joined"
  /\ UNCHANGED <<inputVars, nThreads, created, threadVars, progressVars>>

Join ==
  /\ pc = "join" /\ \A i \in Threads : at[i] = "over"
  /\ pc' = "joined"
  /\ UNCHANGED <<inputVars, nThreads, created, threadVars, progressVars>>

(* postProcess: progressEnd waits for the mutex. *)
PostProcess ==
  /\ pc = "joined" /\ holder = None
  /\ pc' = "done"
  /\ UNCHANGED <<inputVars, nThreads, created, threadVars, progressVars>>

-----------------------------------------------------------------------------
(* A thread on its slice.                                                  *)

Running(i, where) == pc \in {"create", "join"} /\ i < created /\ at[i] = where
Move(i, where) == at' = [at EXCEPT ![i] = where]

WriteRow(i) ==
  /\ Running(i, "row") /\ next[i] < High(i)
  /\ writers' = writers \cup {<<i, next[i]>>}
  /\ next' = [next EXCEPT ![i] = @ + 1]
  /\ Move(i, "forward")
  /\ UNCHANGED <<inputVars, pc, nThreads, created, progressVars>>

(* A row throws.  The exception of the only slice leaves process, before   *)
(* postProcess; nobody catches the one of a spawned thread, and it ends    *)
(* the program.                                                            *)
RowThrows(i) ==
  /\ Running(i, "row")
  /\ pc' = IF nThreads = 1 THEN "threw" ELSE "terminated"
  /\ UNCHANGED <<inputVars, nThreads, created, threadVars, progressVars>>

EndSlice(i) ==
  /\ Running(i, "row") /\ next[i] >= High(i)
  /\ Move(i, "over")
  /\ UNCHANGED <<inputVars, pc, nThreads, created, next, writers, progressVars>>

(* progressForward: the counter is read and written under the mutex, which *)
(* is given back after the host was told.                                  *)
LockFree(i) ==  \* mutant: the mutex is not waited for
  /\ Running(i, "forward")
  /\ holder' = i /\ seen' = counter
  /\ Move(i, "add")
  /\ UNCHANGED <<inputVars, pc, nThreads, created, next, writers, counter, told>>

Lock(i) ==
  /\ Running(i, "forward") /\ holder = None
  /\ holder' = i /\ seen' = counter
  /\ Move(i, "add")
  /\ UNCHANGED <<inputVars, pc, nThreads, created, next, writers, counter, told>>

Add(i) ==
  /\ Running(i, "add")
  /\ counter' = seen + window.dx
  /\ Move(i, "tell")
  /\ UNCHANGED <<inputVars, pc, nThreads, created, next, writers, holder, seen, told>>

TellKept(i) ==  \* mutant: the mutex is not given back
  /\ Running(i, "tell")
  /\ told' = counter
  /\ Move(i, IF HostStops THEN "over" ELSE "row")
  /\ UNCHANGED <<inputVars, pc, nThreads, created, next, writers, holder, seen, counter>>

Tell(i) ==
  /\ Running(i, "tell")
  /\ told' = counter
  /\ holder' = None
  /\ Move(i, IF HostStops THEN "over" ELSE "row")
  /\ UNCHANGED <<inputVars, pc, nThreads, created, next, writers, seen, counter>>

Slice(i) ==
  \/ WriteRow(i) \/ RowThrows(i) \/ EndSlice(i)
  \/ Lock(i) \/ Add(i) \/ Tell(i)

Next ==
  \/ SetupFails \/ Process \/ Create \/ CreateFails \/ Join \/ PostProcess
  \/ \E i \in Threads : Slice(i)

(* Threads that were created are scheduled, and so is the one that joins. *)
Fairness ==
  /\ WF_vars(Process) /\ WF_vars(Create) /\ WF_vars(Join) /\ WF_vars(PostProcess)
  /\ \A c \in CPUs \cup NbThreads : \A i \in 0 .. c - 1 : WF_vars(i \in Threads /\ Slice(i))

Spec == Init /\ [][Next]_vars
FairSpec == Spec /\ Fairness

-----------------------------------------------------------------------------
Places == {"none", "row", "forward", "add", "tell", "over"}

TypeOK ==
  /\ window \in Windows /\ asked \in NbThreads /\ cpus \in CPUs
  /\ pc \in {"setup", "create", "join", "joined", "done", "threw", "terminated",
            "undefined"}
  /\ nThreads \in Nat /\ created \in 0 .. nThreads
  /\ at \in [Threads -> Places] /\ next \in [Threads -> Int]
  /\ writers \subseteq Threads \X Rows
  /\ holder \in Threads \cup {None}
  /\ seen \in Nat /\ counter \in Nat /\ told \in Nat

(* Each row of the window is written by one thread, and when the threads   *)
(* are joined no row is missing, unless the number of processors is        *)
(* unknown: then process ends well and the image has no row at all.        *)
RowsWrittenOnce ==
  /\ \A p, q \in writers : p[2] = q[2] => p = q
  /\ pc \in {"joined", "done"} /\ nThreads > 0 => {p[2] : p \in writers} = Rows

(* No step of a thread is lost by another one: the counter is the pixels   *)
(* of the rows whose thread has forwarded the progress, the host has been  *)
(* told it each time, and it ends at the whole window.                     *)
Uncounted == {i \in Threads : at[i] \in {"forward", "add"}}

ProgressExact ==
  /\ counter = window.dx * (Cardinality(writers) - Cardinality(Uncounted))
  /\ holder = None => told = counter
  /\ pc \in {"joined", "done"} /\ nThreads > 0 => told = window.dx * Cardinality(Rows)

(* The render of a window comes to an end, whatever the threads do: it     *)
(* succeeds, fails, ends the program or leaves what is defined.            *)
RenderEnds == <>(pc \in {"done", "threw", "terminated", "undefined"})

=============================================================================
