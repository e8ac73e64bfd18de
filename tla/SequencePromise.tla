--------------------------- MODULE SequencePromise ---------------------------
(***************************************************************************)
(* What ProcessGraph::process promises to those who call it: the frames    *)
(* asked for are attempted in their order; it returns true only when all   *)
(* of them have been, false only when an abort was asked, and an abort     *)
(* lets at most one more frame begin, or none if it was asked before.      *)
(***************************************************************************)
EXTENDS Integers

CONSTANTS
  Frame,          \* identities of frames
  Before(_, _)    \* the order in which they are asked for

VARIABLES
  asked,      \* the frames to render
  attempted,  \* those whose render has begun
  abort,      \* ComputeOptions::_abort
  late,       \* frames begun after abort() was called
  outcome,    \* "running", then "true", "false" or "threw"
  calledOff   \* abort was already asked when process was called

promised == <<asked, attempted, abort, late, outcome, calledOff>>

PromiseInit ==
  /\ asked \subseteq Frame
  /\ attempted = {}
  /\ abort \in BOOLEAN
  /\ late = 0
  /\ outcome = "running"
  /\ calledOff = abort

AskAbort ==
  /\ abort' = TRUE
  /\ UNCHANGED <<asked, attempted, late, outcome, calledOff>>

AttemptFrame ==
  /\ outcome = "running"
  /\ ~calledOff /\ (abort => late = 0)
  /\ \E f \in asked \ attempted :
       /\ \A g \in asked : (Before(g, f) <=> g \in attempted)
       /\ attempted' = attempted \cup {f}
  /\ late' = IF abort THEN late + 1 ELSE late
  /\ UNCHANGED <<asked, abort, outcome, calledOff>>

Conclude ==
  /\ outcome = "running"
  /\ \/ outcome' = "true" /\ attempted = asked /\ ~calledOff
     \/ outcome' = "false" /\ abort
     \/ outcome' = "threw"
  /\ UNCHANGED <<asked, attempted, abort, late, calledOff>>

PromiseNext == AskAbort \/ AttemptFrame \/ Conclude

PromiseSpec == PromiseInit /\ [][PromiseNext]_promised

=============================================================================
