----------------------------- MODULE ParamChange -----------------------------
(***************************************************************************)
(* How an edit of a parameter is told to the plugin                        *)
(* (OfxhImageEffectNode::paramChanged), and how the plugin's reaction to   *)
(* it, which edits parameters in turn, is kept from recursing for ever.    *)
(*                                                                         *)
(* An edit sets the components of the parameter and calls paramChanged,    *)
(* which calls the plugin three times: begin, changed, end.  While the     *)
(* plugin runs it can edit again through the parameter suite: the state is *)
(* the stack of the edits under way.  A call the plugin answers with an    *)
(* error throws, up to the suite or to the application.                    *)
(*                                                                         *)
(* Some edits tell nobody: a key frame that is deleted, a parameter that   *)
(* is copied, and whatever is set with eChangeNone.                        *)
(*                                                                         *)
(* Abstracted: the values; what the plugin is told besides the name.  The  *)
(* dirty flag of the clip preferences is left out: nobody reads it         *)
(* (runGetClipPrefsConditionally has no caller).                           *)
(***************************************************************************)
EXTENDS Integers, Sequences, FiniteSets

CONSTANTS
  Params,     \* the parameters of the node
  dim         \* the number of components of each

ASSUME ChangeAssumption ==
  /\ IsFiniteSet(Params)
  /\ dim \in [Params -> Nat \ {0}]

VARIABLES
  stack,      \* the edits under way, the innermost last
  avoid,      \* OfxhParam::_avoidRecursion of each parameter
  untold,     \* history: edited by the application since the plugin was last told
  quiet,      \* history: and of these, edited by something that tells nobody
  broken      \* history: parameters of which an edit has thrown

changeVars == <<stack, avoid, untold, quiet, broken>>

\* What an edit has left to do, and where it is: on its own, or in one of the three
\* calls of the plugin.
Phases == {"own", "begin", "changed", "end"}
EditSteps == {"set", "notify"}
UnderWay == [param : Params, rest : Seq(EditSteps), phase : Phases]

Top == stack[Len(stack)]
Below == SubSeq(stack, 1, Len(stack) - 1)
InPhase(phase) == stack # << >> /\ Top.phase = phase
TopGoes(phase) == stack' = [stack EXCEPT ![Len(stack)].phase = phase]

-----------------------------------------------------------------------------
(* The kinds of edits. *)

\* AnimatedParam: set and notify.  ParamDouble2D and its like: each component is one,
\* and the whole is notified once more.
OneByOne(n) ==
  IF n = 1 THEN <<"set", "notify">>
  ELSE [i \in 1..(2 * n + 1) |-> IF i % 2 = 1 /\ i < 2 * n THEN "set" ELSE "notify"]

\* OfxhMultiDimParam: the components are set with eChangeNone.
TogetherQuiet(n) == [i \in 1..n |-> "set"]  \* mutant: the whole is set in the same way
Together(n) == [i \in 1..(n + 1) |-> IF i <= n THEN "set" ELSE "notify"]

\* setValueAtIndex: one component, and the whole is notified.
OneOfThem == <<"set", "notify">>

EditsOf(p) ==
  {[param |-> p, rest |-> steps, phase |-> "own"] :
     steps \in {OneByOne(dim[p]), Together(dim[p]), OneOfThem}}

\* The application edits one parameter after another.
ApplicationEdits(p) ==
  /\ stack = << >>
  /\ \E e \in EditsOf(p) : stack' = <<e>>
  /\ UNCHANGED <<avoid, untold, quiet, broken>>

\* deleteKey, deleteAllKeys, copy, and the setters with eChangeNone: nobody is told.
\* (The plugin can do the same in its reactions, to parameters it then knows of.)
EditsQuietly(p) ==
  /\ stack = << >>
  /\ untold' = untold \cup {p}
  /\ quiet' = quiet \cup {p}
  /\ UNCHANGED <<stack, avoid, broken>>

\* The plugin edits while it reacts to a change (paramSetValue).
PluginEdits(p) ==
  /\ InPhase("changed")
  /\ \E e \in EditsOf(p) : stack' = Append(stack, e)
  /\ UNCHANGED <<avoid, untold, quiet, broken>>

-----------------------------------------------------------------------------
(* An edit. *)

SetComponent ==
  /\ InPhase("own") /\ Top.rest # << >> /\ Head(Top.rest) = "set"
  /\ stack' = [stack EXCEPT ![Len(stack)].rest = Tail(Top.rest)]
  /\ untold' = IF Len(stack) = 1 THEN untold \cup {Top.param} ELSE untold
  /\ UNCHANGED <<avoid, quiet, broken>>

\* paramChanged: beginInstanceChangedAction calls the plugin.
Notify ==
  /\ InPhase("own") /\ Top.rest # << >> /\ Head(Top.rest) = "notify"
  /\ stack' = [stack EXCEPT ![Len(stack)].rest = Tail(Top.rest),
                            ![Len(stack)].phase = "begin"]
  /\ UNCHANGED <<avoid, untold, quiet, broken>>

\* paramInstanceChangedAction: nothing inside the action of the same parameter,
BeginReturnsClearing ==  \* mutant: the flag is cleared on that way out too
  /\ InPhase("begin")
  /\ TopGoes(IF avoid[Top.param] THEN "end" ELSE "changed")
  /\ avoid' = [avoid EXCEPT ![Top.param] = ~avoid[Top.param]]
  /\ untold' = IF avoid[Top.param] THEN untold ELSE untold \ {Top.param}
  /\ quiet' = IF avoid[Top.param] THEN quiet ELSE quiet \ {Top.param}
  /\ UNCHANGED broken
BeginReturns ==
  /\ InPhase("begin")
  /\ \/ /\ avoid[Top.param]
        /\ TopGoes("end")
        /\ UNCHANGED <<avoid, untold, quiet>>
     \/ /\ ~avoid[Top.param]
        /\ TopGoes("changed")
        /\ avoid' = [avoid EXCEPT ![Top.param] = TRUE]
        /\ untold' = untold \ {Top.param}
        /\ quiet' = quiet \ {Top.param}
  /\ UNCHANGED broken

\* otherwise the plugin is told; when it is done the flag is cleared.
ChangedReturns ==
  /\ InPhase("changed")
  /\ TopGoes("end")
  /\ avoid' = [avoid EXCEPT ![Top.param] = FALSE]
  /\ UNCHANGED <<untold, quiet, broken>>

EndReturns ==
  /\ InPhase("end")
  /\ TopGoes("own")
  /\ UNCHANGED <<avoid, untold, quiet, broken>>

\* The plugin answers with an error: the edit is left where it is, and the flag as it is.
Throws ==
  /\ stack # << >> /\ Top.phase # "own"
  /\ stack' = Below
  /\ broken' = broken \cup {Top.param}
  /\ UNCHANGED <<avoid, untold, quiet>>

EditReturns ==
  /\ InPhase("own") /\ Top.rest = << >>
  /\ stack' = Below
  /\ UNCHANGED <<avoid, untold, quiet, broken>>

-----------------------------------------------------------------------------
ChangeInit ==
  /\ stack = << >>
  /\ avoid = [p \in Params |-> FALSE]
  /\ untold = {}
  /\ quiet = {}
  /\ broken = {}

ChangeNext ==
  \/ \E p \in Params : ApplicationEdits(p) \/ EditsQuietly(p) \/ PluginEdits(p)
  \/ SetComponent \/ Notify
  \/ BeginReturns \/ ChangedReturns \/ EndReturns \/ Throws
  \/ EditReturns

ChangeSpec == ChangeInit /\ [][ChangeNext]_changeVars

-----------------------------------------------------------------------------
(* Properties. *)

ChangeTypeOK ==
  /\ stack \in Seq(UnderWay)
  /\ avoid \in [Params -> BOOLEAN]
  /\ untold \subseteq Params
  /\ quiet \subseteq Params
  /\ broken \subseteq Params

(* However a plugin edits parameters from its reactions to changes, the calls nest no
   deeper than the parameters are many, and one more: no chain of reactions recurses
   for ever. *)
NestingBounded == Len(stack) <= Cardinality(Params) + 1

(* When nothing is under way the plugin was told of every parameter the application has
   edited, after the last component was set: unless an edit of it once threw, or one of
   the edits that tell nobody came after the plugin was last told. *)
EveryEditTold == stack = << >> => untold \subseteq broken \cup quiet

(* "Avoid recursion when updating with paramChangedAction" (OfxhParam.hpp:132): a
   parameter keeps its changes from the plugin only while the plugin is being told of
   one. *)
FlagMeansInProgress ==
  \A p \in Params : avoid[p] =>
    \E i \in 1..Len(stack) : stack[i].param = p /\ stack[i].phase = "changed"

=============================================================================
