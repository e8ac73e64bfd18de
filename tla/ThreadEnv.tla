------------------------------ MODULE ThreadEnv ------------------------------
(***************************************************************************)
(* ThreadEnv computes a graph in a thread of its own, or in the caller's.  *)
(* Its flags are relaxed atomics: a thread may read any value stored since *)
(* the latest it has seen, flag by flag, until it synchronises with the    *)
(* thread that stored.  The observers are the thread that controls the     *)
(* environment (compute, join, setAsynchronous) and another that polls     *)
(* isRunning and getResult.  Abort is asked, here, when it reaches process.*)
(*                                                                         *)
(* A compute does what SequencePromise.tla says: it returns true only if   *)
(* no abort had been asked when it was called, false only after an abort,  *)
(* or it throws.  A compute is a number, in the order of the calls.        *)
(***************************************************************************)
EXTENDS Naturals

CONSTANT MaxComputes  \* bound: calls of compute

ASSUME EnvAssumption == MaxComputes \in Nat

Computes == 1 .. MaxComputes
Observers == {"control", "other"}

VARIABLES
  asynchronous,  \* _asynchronous
  abortAsked,    \* _options._abort, which nothing resets
  isRunning,     \* _isRunning, as stored last
  result,        \* _result, as stored last
  runningReads,  \* what each observer may read of _isRunning
  resultReads,   \* what each observer may read of _result
  thread,        \* the compute whose thread _thread is a handle of, or 0
  latest,        \* the latest compute called, or 0
  at,            \* where each compute is
  calledAborted, \* computes that were called after an abort
  outcome,       \* what Graph::compute did: "none", "true", "false", "threw"
  signalled,     \* _signalEnd emissions per compute
  overlapped     \* history: a compute was called while another was going on

runningFlag == <<isRunning, runningReads>>
resultFlag  == <<result, resultReads>>
flags == <<runningFlag, resultFlag>>
envVars  == <<asynchronous, abortAsked, flags, thread, latest, at, calledAborted, outcome,
           signalled, overlapped>>

GoingOn == {c \in Computes : at[c] \notin {"none", "notStarted", "finished"}}

EnvInit ==
  /\ asynchronous \in BOOLEAN
  /\ abortAsked = FALSE /\ isRunning = FALSE /\ result = FALSE
  /\ runningReads = [o \in Observers |-> {FALSE}] /\ resultReads = [o \in Observers |-> {FALSE}]
  /\ thread = 0 /\ latest = 0
  /\ at = [c \in Computes |-> "none"]
  /\ calledAborted = {}
  /\ outcome = [c \in Computes |-> "none"]
  /\ signalled = [c \in Computes |-> 0]
  /\ overlapped = FALSE

-----------------------------------------------------------------------------
(* A relaxed store: its own thread reads it from now on, the others may.   *)
Stored(reads, value, by) == [o \in Observers |-> IF o = by THEN {value} ELSE reads[o] \cup {value}]

StoreRunning(value, by) ==
  /\ isRunning' = value
  /\ runningReads' = Stored(runningReads, value, by)

StoreResult(value, by) ==
  /\ result' = value
  /\ resultReads' = Stored(resultReads, value, by)

(* The stores to one of the flags reach an observer. *)
Arrive(o) ==
  /\ \/ runningReads' = [runningReads EXCEPT ![o] = {isRunning}] /\ UNCHANGED resultReads
     \/ resultReads' = [resultReads EXCEPT ![o] = {result}] /\ UNCHANGED runningReads
  /\ UNCHANGED <<asynchronous, abortAsked, isRunning, result, thread, latest, at, calledAborted,
                 outcome, signalled, overlapped>>

-----------------------------------------------------------------------------
(* The controlling thread, which a synchronous compute keeps busy.         *)

ControlFree == \A c \in Computes : at[c] # "sync"

SetAsynchronous ==
  /\ ControlFree
  /\ asynchronous' \in BOOLEAN
  /\ UNCHANGED <<abortAsked, flags, thread, latest, at, calledAborted, outcome, signalled, overlapped>>

Called(place) ==
  /\ latest < MaxComputes
  /\ latest' = latest + 1
  /\ at' = [at EXCEPT ![latest + 1] = place]
  /\ calledAborted' = IF abortAsked THEN calledAborted \cup {latest + 1} ELSE calledAborted
  /\ overlapped' = (overlapped \/ GoingOn # {})
  /\ UNCHANGED <<asynchronous, abortAsked, resultFlag, outcome, signalled>>

(* A new handle replaces the old one, whose thread goes on, detached.  If  *)
(* the thread cannot be created the flag stays up and the handle as it was.*)
ComputeInThread ==
  /\ ControlFree /\ asynchronous
  /\ StoreRunning(TRUE, "control")
  /\ \/ thread' = latest + 1 /\ Called("thread")
     \/ thread' = thread /\ Called("notStarted")

ComputeHere ==
  /\ ControlFree /\ ~asynchronous
  /\ Called("sync")
  /\ UNCHANGED <<runningFlag, thread>>

JoinAnyTime ==  \* mutant: join does not wait
  /\ ControlFree /\ thread # 0
  /\ thread' = 0
  /\ UNCHANGED <<asynchronous, abortAsked, flags, latest, at, calledAborted, outcome, signalled, overlapped>>

(* The stores of the thread have reached who joined it; they are the last  *)
(* ones unless computes overlap.                                           *)
Join ==
  /\ ControlFree /\ thread # 0 /\ at[thread] = "finished"
  /\ thread' = 0
  /\ IF overlapped
     THEN UNCHANGED <<runningReads, resultReads>>
     ELSE /\ runningReads' = [runningReads EXCEPT !["control"] = {isRunning}]
          /\ resultReads' = [resultReads EXCEPT !["control"] = {result}]
  /\ UNCHANGED <<asynchronous, abortAsked, isRunning, result, latest, at, calledAborted, outcome,
                 signalled, overlapped>>

(* Any thread. *)
AskAbort ==
  /\ abortAsked' = TRUE
  /\ UNCHANGED <<asynchronous, flags, thread, latest, at, calledAborted, outcome, signalled, overlapped>>

-----------------------------------------------------------------------------
Outcomes(c) ==
  {"threw"} \cup (IF abortAsked THEN {"false"} ELSE {}) \cup (IF c \in calledAborted THEN {} ELSE {"true"})

(* Graph::compute ends, in the thread or in the caller. *)
Compute(c) ==
  /\ at[c] \in {"thread", "sync"} /\ outcome[c] = "none"
  /\ \E o \in Outcomes(c) : outcome' = [outcome EXCEPT ![c] = o]
  /\ UNCHANGED <<asynchronous, abortAsked, flags, thread, latest, at, calledAborted, signalled, overlapped>>

(* compute() of a synchronous environment: an exception passes the caller  *)
(* by, and the result is left as it was.                                   *)
ReturnHere(c) ==
  /\ at[c] = "sync" /\ outcome[c] # "none"
  /\ IF outcome[c] = "threw" THEN UNCHANGED resultFlag ELSE StoreResult(outcome[c] = "true", "control")
  /\ at' = [at EXCEPT ![c] = "finished"]
  /\ UNCHANGED <<asynchronous, abortAsked, runningFlag, thread, latest, calledAborted, outcome,
                 signalled, overlapped>>

SetResultUnlessThrown(c) ==  \* mutant: an exception keeps the last result
  /\ at[c] = "thread" /\ outcome[c] # "none"
  /\ IF outcome[c] = "threw" THEN UNCHANGED resultFlag ELSE StoreResult(outcome[c] = "true", "thread")
  /\ at' = [at EXCEPT ![c] = "resultSet"]
  /\ UNCHANGED <<asynchronous, abortAsked, runningFlag, thread, latest, calledAborted, outcome,
                 signalled, overlapped>>

SetResultOrLeave(c) ==  \* mutant: an exception is not caught
  /\ at[c] = "thread" /\ outcome[c] # "none"
  /\ StoreResult(outcome[c] = "true", "thread")
  /\ at' = [at EXCEPT ![c] = IF outcome[c] = "threw" THEN "finished" ELSE "resultSet"]
  /\ UNCHANGED <<asynchronous, abortAsked, runningFlag, thread, latest, calledAborted, outcome,
                 signalled, overlapped>>

(* runProcessFunc: the result, false for an exception, *)
SetResult(c) ==
  /\ at[c] = "thread" /\ outcome[c] # "none"
  /\ StoreResult(outcome[c] = "true", "thread")
  /\ at' = [at EXCEPT ![c] = "resultSet"]
  /\ UNCHANGED <<asynchronous, abortAsked, runningFlag, thread, latest, calledAborted, outcome,
                 signalled, overlapped>>

(* then the flag, *)
SetNotRunning(c) ==
  /\ at[c] = "resultSet"
  /\ StoreRunning(FALSE, "thread")
  /\ at' = [at EXCEPT ![c] = "notRunning"]
  /\ UNCHANGED <<asynchronous, abortAsked, resultFlag, thread, latest, calledAborted, outcome,
                 signalled, overlapped>>

(* then the signal, whose slots run in the thread. *)
SignalEnd(c) ==
  /\ at[c] = "notRunning"
  /\ signalled' = [signalled EXCEPT ![c] = @ + 1]
  /\ at' = [at EXCEPT ![c] = "finished"]
  /\ UNCHANGED <<asynchronous, abortAsked, flags, thread, latest, calledAborted, outcome, overlapped>>

Step(c) == Compute(c) \/ ReturnHere(c) \/ SetResult(c) \/ SetNotRunning(c) \/ SignalEnd(c)

EnvNext ==
  \/ SetAsynchronous \/ ComputeInThread \/ ComputeHere \/ Join \/ AskAbort
  \/ \E o \in Observers : Arrive(o)
  \/ \E c \in Computes : Step(c)

(* Threads go on, and Graph::compute terminates (RenderSequence.tla). *)
EnvSpec == EnvInit /\ [][EnvNext]_envVars /\ \A c \in Computes : WF_envVars(Step(c))

-----------------------------------------------------------------------------
EnvTypeOK ==
  /\ asynchronous \in BOOLEAN /\ abortAsked \in BOOLEAN
  /\ isRunning \in BOOLEAN /\ result \in BOOLEAN
  /\ runningReads \in [Observers -> SUBSET BOOLEAN] /\ resultReads \in [Observers -> SUBSET BOOLEAN]
  /\ thread \in 0 .. MaxComputes /\ latest \in 0 .. MaxComputes
  /\ at \in [Computes -> {"none", "notStarted", "sync", "thread", "resultSet", "notRunning", "finished"}]
  /\ calledAborted \subseteq Computes
  /\ outcome \in [Computes -> {"none", "true", "false", "threw"}]
  /\ signalled \in [Computes -> 0 .. 1]
  /\ overlapped \in BOOLEAN

(* If computes do not overlap, the slots of signalEnd, which run in the    *)
(* thread that stored, read a flag that is down and the compute's result;  *)
(* and so does, whatever it had read before, the thread that has joined.   *)
EndTellsResult ==
  ~overlapped /\ latest # 0 =>
    /\ at[latest] = "notRunning" => ~isRunning /\ result = (outcome[latest] = "true")
    /\ thread = 0 /\ signalled[latest] = 1 =>
         /\ runningReads["control"] = {FALSE}
         /\ resultReads["control"] = {outcome[latest] = "true"}

(* After join the compute is over, its flag is down and the slots of       *)
(* signalEnd have been called, whether it succeeded, was aborted or threw, *)
(* provided the threads could be created.                                  *)
JoinedMeansOver ==
  ~overlapped /\ thread = 0 /\ ControlFree /\ (\A c \in Computes : at[c] # "notStarted")
    => ~isRunning /\ GoingOn = {}

(* Each compute in a thread ends with the flag down, however it ended.     *)
EndIsSeen == \A c \in Computes : at[c] = "thread" ~> ~isRunning

(* "Thread Safe": a thread that polls, to which the fall of isRunning has  *)
(* come, can read the result.  Not so: each flag comes in its own time.    *)
PollTellsResult ==
  ~overlapped /\ thread = latest /\ latest # 0 /\ runningReads["other"] = {FALSE}
    => outcome[latest] # "none" /\ resultReads["other"] = {outcome[latest] = "true"}

(* "Result status of the lastest compute": once it is over.                *)
ResultOfLatest ==
  ~overlapped /\ latest # 0 /\ at[latest] = "finished" => result = (outcome[latest] = "true")

=============================================================================
