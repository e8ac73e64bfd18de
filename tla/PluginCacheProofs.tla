-------------------------- MODULE PluginCacheProofs --------------------------
(***************************************************************************)
(* For any sessions, plugin files and versions: an entry that claims to be *)
(* up to date tells the truth, whoever installs, crashes or overlaps, and  *)
(* what a session offers is alive and of the highest version.              *)
(***************************************************************************)
EXTENDS PluginCache, TLAPS

-----------------------------------------------------------------------------
(* Types. *)

USE DEF File, Entry, SavedEntry, Pointer

LEMMA LoadedType ==
  ASSUME TypeOK, NEW b \in Binaries, NEW stat \in -1..MaxStamp
  PROVE  Loaded(b, stat) \in Entry
  BY DEF TypeOK, Loaded

LEMMA RestoredType ==
  ASSUME TypeOK
  PROVE  Restored \in [Binaries -> Entry \cup {None}]
  <1> SUFFICES ASSUME NEW b \in Binaries PROVE Restored[b] \in Entry \cup {None}
    BY DEF Restored
  <1> QED
    BY PluginAssumption DEF TypeOK, Restored

LEMMA SetBin ==
  ASSUME NEW E, NEW f \in [Sessions -> [Binaries -> E]], NEW s \in Sessions,
         NEW b \in Binaries, NEW e \in E
  PROVE  [f EXCEPT ![s][b] = e] \in [Sessions -> [Binaries -> E]]
  <1>1. [f[s] EXCEPT ![b] = e] \in [Binaries -> E]
    OBVIOUS
  <1> QED
    BY <1>1

LEMMA InitTypes ==
  ASSUME Init
  PROVE  TypeOK
  <1>1. disk \in [Binaries -> File]
    <2>1. PICK c \in [Binaries -> Contents \cup {None}] :
            disk = [b \in Binaries |-> IF c[b] = None THEN NoBundle
                                       ELSE [stamp |-> 1, plugins |-> c[b]]]
      BY DEF Init
    <2>2. 1 \in -1..MaxStamp
      BY PluginAssumption
    <2>3. \A b \in Binaries : c[b] # None => c[b] \in SUBSET Plugins
      BY PluginAssumption
    <2> QED
      <3>1. ASSUME NEW b \in Binaries
            PROVE  (IF c[b] = None THEN NoBundle
                    ELSE [stamp |-> 1, plugins |-> c[b]]) \in File
        BY <2>2, <2>3, PluginAssumption DEF NoBundle
      <3> QED
        BY <2>1, <3>1
  <1>2. clock \in 0..MaxStamp
    BY PluginAssumption DEF Init
  <1>3. /\ NoEntries \in [Binaries -> Entry \cup {None}]
        /\ NoEntries \in [Binaries -> SavedEntry \cup {None}]
    BY DEF NoEntries
  <1> QED
    BY <1>1, <1>2, <1>3, PluginAssumption DEF Init, TypeOK, Known

LEMMA InstallTypes ==
  ASSUME TypeOK, NEW b \in Binaries, Install(b)
  PROVE  TypeOK'
  <1>1. \A f \in File : [disk EXCEPT ![b] = f] \in [Binaries -> File]
    BY DEF TypeOK
  <1>2. /\ \A c \in Contents : [stamp |-> clock + 1, plugins |-> c] \in File
        /\ NoBinary \in File
        /\ NoBundle \in File
    BY PluginAssumption DEF Install, TypeOK, NoBinary, NoBundle
  <1>3. disk' \in [Binaries -> File]
    BY <1>1, <1>2 DEF Install
  <1>4. clock' \in 0..MaxStamp
    BY PluginAssumption DEF Install, TypeOK
  <1> QED
    BY <1>3, <1>4 DEF Install, TypeOK, Known

LEMMA ReadCacheTypes ==
  ASSUME TypeOK, NEW s \in Sessions, ReadCache(s)
  PROVE  TypeOK'
  <1> DEFINE got == IF cacheFile.state = "whole" THEN Restored ELSE NoEntries
  <1>1. got \in [Binaries -> Entry \cup {None}]
    BY RestoredType DEF NoEntries
  <1> HIDE DEF got
  <1>2. bins' = [bins EXCEPT ![s] = got]
    BY DEF ReadCache, got
  <1>3. UNION {Pointers(b, "cached", got[b].plugins) :
                 b \in {x \in Binaries : got[x] # None}} \in SUBSET Pointer
    <2> SUFFICES ASSUME NEW b \in Binaries, got[b] # None
                 PROVE  Pointers(b, "cached", got[b].plugins) \subseteq Pointer
      OBVIOUS
    <2>1. got[b].plugins \subseteq Plugins
      BY <1>1
    <2> QED
      BY <2>1 DEF Pointers
  <1>4. listed' \in [Sessions -> SUBSET Pointer]
    BY <1>3 DEF ReadCache, TypeOK, got
  <1>5. readAs' \in [Sessions -> [Binaries -> SavedEntry \cup {None}]]
    BY DEF ReadCache, TypeOK, NoEntries
  <1>6. bins' \in [Sessions -> [Binaries -> Entry \cup {None}]]
    BY <1>1, <1>2 DEF TypeOK
  <1>7. /\ dirty' \in [Sessions -> BOOLEAN]
        /\ unread' \in [Sessions -> BOOLEAN]
        /\ calm' \in [Sessions -> BOOLEAN]
        /\ toDo' \in [Sessions -> SUBSET Binaries]
    <2>1. /\ dirty \in [Sessions -> BOOLEAN] /\ unread \in [Sessions -> BOOLEAN]
          /\ (cacheFile.state = "broken") \in BOOLEAN
      BY DEF TypeOK
    <2> QED
      BY <2>1 DEF ReadCache, TypeOK
  <1>8. \A t \in Sessions : /\ pc'[t] = "open" <=> current'[t] # None
                            /\ pc'[t] = "check" => toDo'[t] \subseteq Known(t)'
    BY <1>2 DEF ReadCache, TypeOK, Known
  <1> QED
    BY <1>4, <1>5, <1>6, <1>7, <1>8 DEF ReadCache, TypeOK

LEMMA VisitTypes ==
  ASSUME TypeOK, NEW s \in Sessions, NEW b \in Binaries, Visit(s, b)
  PROVE  TypeOK'
  <1> DEFINE file == [bin |-> b, stat |-> disk[b].stamp]
  <1>1. file \in [bin : Binaries, stat : -1..MaxStamp]
    BY DEF TypeOK
  <1>2. file # None
    BY <1>1, PluginAssumption
  <1> HIDE DEF file
  <1>3. current' = current \/ current' = [current EXCEPT ![s] = file]
    BY DEF Visit, file
  <1>4. current' \in [Sessions -> [bin : Binaries, stat : -1..MaxStamp] \cup {None}]
    BY <1>1, <1>3 DEF TypeOK
  <1>5. /\ found' \in [Sessions -> SUBSET Binaries]
        /\ toDo' \in [Sessions -> SUBSET Binaries]
    <2>1. found' = found \/ found' = [found EXCEPT ![s] = @ \cup {b}]
      BY DEF Visit
    <2>2. toDo' = [toDo EXCEPT ![s] = @ \ {b}]
      BY DEF Visit
    <2>3. /\ found \in [Sessions -> SUBSET Binaries]
          /\ toDo \in [Sessions -> SUBSET Binaries]
      BY DEF TypeOK
    <2> QED
      BY <2>1, <2>2, <2>3
  <1>6. \/ UNCHANGED <<pc, current>>
        \/ /\ pc' = [pc EXCEPT ![s] = "open"]
           /\ current' = [current EXCEPT ![s] = file]
    BY DEF Visit, file
  <1>7. /\ \A t \in Sessions : pc'[t] = "open" <=> current'[t] # None
        /\ \A t \in Sessions : pc'[t] = "check" => pc[t] = "check" /\ t # s
        /\ pc' \in [Sessions -> {"off", "scan", "open", "check", "write", "rename",
                                "ready"}]
    <2>1. /\ pc \in [Sessions -> {"off", "scan", "open", "check", "write", "rename",
                                 "ready"}]
          /\ current \in [Sessions -> [bin : Binaries, stat : -1..MaxStamp] \cup {None}]
          /\ \A t \in Sessions : pc[t] = "open" <=> current[t] # None
      BY DEF TypeOK
    <2>2. pc[s] = "scan"
      BY DEF Visit
    <2> HIDE DEF File, Entry, SavedEntry, Pointer
    <2>3. CASE UNCHANGED <<pc, current>>
      BY <2>1, <2>2, <2>3
    <2>4. CASE /\ pc' = [pc EXCEPT ![s] = "open"]
               /\ current' = [current EXCEPT ![s] = file]
      BY <1>2, <2>1, <2>2, <2>4
    <2> QED
      BY <1>6, <2>3, <2>4
  <1>8. \A t \in Sessions : Known(t)' = Known(t)
    BY DEF Visit, Known
  <1>9. \A t \in Sessions : t # s => toDo'[t] = toDo[t]
    BY DEF Visit, TypeOK
  <1> QED
    BY <1>4, <1>5, <1>7, <1>8, <1>9 DEF Visit, TypeOK

LEMMA OpenNewTypes ==
  ASSUME TypeOK, NEW s \in Sessions, OpenNew(s)
  PROVE  TypeOK'
  <1> DEFINE b == current[s].bin
  <1>1. b \in Binaries /\ current[s].stat \in -1..MaxStamp
    BY DEF OpenNew, TypeOK
  <1>2. Loaded(b, current[s].stat) \in Entry
    BY <1>1, LoadedType
  <1>3. bins' \in [Sessions -> [Binaries -> Entry \cup {None}]]
    <2> DEFINE new == Loaded(b, current[s].stat)
    <2> HIDE DEF new
    <2>1. bins' = bins \/ bins' = [bins EXCEPT ![s][b] = new]
      BY DEF OpenNew, new
    <2>2. new \in Entry
      BY <1>2 DEF new
    <2>3. new \in Entry \cup {None} /\ bins \in [Sessions -> [Binaries -> Entry \cup {None}]]
      BY <2>2 DEF TypeOK
    <2> HIDE DEF b
    <2>4. [bins EXCEPT ![s][b] = new] \in [Sessions -> [Binaries -> Entry \cup {None}]]
      BY <1>1, <2>3, SetBin
    <2> QED
      BY <2>1, <2>3, <2>4
  <1>4. /\ dirty' \in [Sessions -> BOOLEAN]
        /\ calm' \in [Sessions -> BOOLEAN]
    BY DEF OpenNew, TypeOK
  <1>5. \A t \in Sessions \ {s} : Known(t)' = Known(t)
    BY DEF OpenNew, TypeOK, Known
  <1> QED
    BY <1>3, <1>4, <1>5 DEF OpenNew, TypeOK

LEMMA ScannedTypes ==
  ASSUME TypeOK, NEW s \in Sessions, Scanned(s)
  PROVE  TypeOK'
  BY DEF Scanned, TypeOK, Known

LEMMA OfferTypes ==
  ASSUME TypeOK, NEW s \in Sessions, NEW X \in SUBSET Pointer, Offer(s, X)
  PROVE  /\ offered' \in [Sessions -> SUBSET Pointer]
         /\ listed' \in [Sessions -> SUBSET Pointer]
         /\ byId' \in [Sessions -> [Ids -> Pointer \cup {None}]]
  <1>1. /\ offered \in [Sessions -> SUBSET Pointer]
        /\ listed \in [Sessions -> SUBSET Pointer]
        /\ byId \in [Sessions -> [Ids -> Pointer \cup {None}]]
    BY DEF TypeOK
  <1>2. PICK t \in [Ids -> Pointer \cup {None}] : byId' = [byId EXCEPT ![s] = t]
    BY DEF Offer, Confirmed
  <1> HIDE DEF Pointer
  <1> QED
    BY <1>1, <1>2 DEF Offer

LEMMA PointersType ==
  ASSUME NEW b \in Binaries, NEW g \in {"cached", "loaded"}, NEW P \in SUBSET Plugins
  PROVE  Pointers(b, g, P) \in SUBSET Pointer
  BY DEF Pointers

LEMMA CheckGoneTypes ==
  ASSUME TypeOK, NEW s \in Sessions, NEW b \in Binaries, CheckGone(s, b)
  PROVE  TypeOK'
  <1>1. bins' \in [Sessions -> [Binaries -> Entry \cup {None}]]
    BY SetBin DEF CheckGone, TypeOK
  <1>2. toDo' \in [Sessions -> SUBSET Binaries] /\ dirty' \in [Sessions -> BOOLEAN]
    BY DEF CheckGone, TypeOK
  <1>3. \A t \in Sessions : pc[t] = "check" => toDo'[t] \subseteq Known(t)'
    BY DEF CheckGone, TypeOK, Known
  <1> QED
    BY <1>1, <1>2, <1>3 DEF CheckGone, TypeOK

(* What is left to check stays a set of known binaries. *)
LEMMA CheckedOff ==
  ASSUME TypeOK, NEW s \in Sessions, NEW b \in Binaries,
         toDo' = [toDo EXCEPT ![s] = @ \ {b}],
         \A t \in Sessions : \A x \in Binaries : bins[t][x] # None => bins'[t][x] # None
  PROVE  /\ toDo' \in [Sessions -> SUBSET Binaries]
         /\ \A t \in Sessions : pc[t] = "check" => toDo'[t] \subseteq Known(t)'
  <1>1. /\ toDo \in [Sessions -> SUBSET Binaries]
        /\ \A t \in Sessions : pc[t] = "check" => toDo[t] \subseteq Known(t)
    BY DEF TypeOK
  <1> QED
    BY <1>1 DEF Known

LEMMA CheckSameTypes ==
  ASSUME TypeOK, NEW s \in Sessions, NEW b \in Binaries, CheckSame(s, b)
  PROVE  TypeOK'
  <1>1. bins[s][b] \in Entry
    BY DEF CheckSame, TypeOK, Known
  <1>2. Pointers(b, bins[s][b].gen, bins[s][b].plugins) \in SUBSET Pointer
    BY <1>1, PointersType
  <1>3. /\ offered' \in [Sessions -> SUBSET Pointer]
        /\ listed' \in [Sessions -> SUBSET Pointer]
        /\ byId' \in [Sessions -> [Ids -> Pointer \cup {None}]]
    BY <1>2, OfferTypes DEF CheckSame
  <1>4. /\ toDo' \in [Sessions -> SUBSET Binaries]
        /\ \A t \in Sessions : pc[t] = "check" => toDo'[t] \subseteq Known(t)'
    BY CheckedOff DEF CheckSame
  <1> QED
    BY <1>3, <1>4 DEF CheckSame, TypeOK

(* The two ways a changed binary is loaded again. *)
ReloadWorks(s, b) ==
  /\ bins' = [bins EXCEPT ![s][b] = Loaded(b, bins[s][b].stat)]
  /\ dirty' = [dirty EXCEPT ![s] = TRUE]
  /\ \E D \in SUBSET disk[b].plugins :
       /\ Offer(s, Pointers(b, "loaded", D))
       /\ calm' = [calm EXCEPT ![s] = @ /\ D = disk[b].plugins]
ReloadFails(s, b) ==
  \E e \in Entry :
    /\ e.failed /\ e.stamp = bins[s][b].stat /\ e.stat = bins[s][b].stat
    /\ bins' = [bins EXCEPT ![s][b] = e]
    /\ \E d \in {dirty[s], TRUE} : dirty' = [dirty EXCEPT ![s] = d]
    /\ calm' = [calm EXCEPT ![s] = FALSE]
    /\ UNCHANGED <<offered, byId, listed>>

(* What each session and binary has after a reload: an entry that failed has the old
   plugins, or those that were made before the failure. *)
LEMMA ReloadedEntry ==
  ASSUME TypeOK, NEW s \in Sessions, NEW b \in Binaries, Reload(s, b)
  PROVE  /\ bins[s][b] \in Entry
         /\ ReloadWorks(s, b) \/ ReloadFails(s, b)
  <1>1. bins[s][b] \in Entry /\ bins \in [Sessions -> [Binaries -> Entry \cup {None}]]
    <2>1. pc[s] = "check" /\ b \in toDo[s]
      BY DEF Reload
    <2> QED
      BY <2>1 DEF TypeOK, Known
  <1>2. CASE ReloadWorks(s, b)
    BY <1>1, <1>2
  <1>3. CASE /\ bins' = [bins EXCEPT ![s][b].stamp = bins[s][b].stat, ![s][b].failed = TRUE]
             /\ \E d \in {dirty[s], TRUE} : dirty' = [dirty EXCEPT ![s] = d]
             /\ calm' = [calm EXCEPT ![s] = FALSE]
             /\ UNCHANGED <<offered, byId, listed>>
    <2> DEFINE e == [bins[s][b] EXCEPT !.stamp = bins[s][b].stat, !.failed = TRUE]
    <2>1. /\ e \in Entry /\ e.failed
          /\ e.stamp = bins[s][b].stat /\ e.stat = bins[s][b].stat
      BY <1>1
    <2>2. bins' = [bins EXCEPT ![s][b] = e]
      BY <1>1, <1>3
    <2> HIDE DEF e
    <2>3. ReloadFails(s, b)
      BY <1>3, <2>1, <2>2 DEF ReloadFails
    <2> QED
      BY <1>1, <2>3
  <1>4. ASSUME NEW D \in SUBSET disk[b].plugins,
               bins' = [bins EXCEPT ![s][b] = [Loaded(b, bins[s][b].stat) EXCEPT
                                                 !.plugins = D, !.failed = TRUE]],
               UNCHANGED dirty,
               calm' = [calm EXCEPT ![s] = FALSE],
               UNCHANGED <<offered, byId, listed>>
        PROVE  ReloadFails(s, b)
    <2> DEFINE new == Loaded(b, bins[s][b].stat)
               e == [new EXCEPT !.plugins = D, !.failed = TRUE]
    <2>1. new \in Entry /\ new.stamp = bins[s][b].stat /\ new.stat = bins[s][b].stat
      BY <1>1, LoadedType DEF Loaded
    <2>2. D \in SUBSET Plugins
      BY DEF TypeOK
    <2>3. bins' = [bins EXCEPT ![s][b] = e]
      BY <1>4
    <2> HIDE DEF new
    <2>4. /\ e \in Entry /\ e.failed
          /\ e.stamp = bins[s][b].stat /\ e.stat = bins[s][b].stat
      BY <2>1, <2>2
    <2>5. dirty' = [dirty EXCEPT ![s] = dirty[s]]
      BY <1>4 DEF TypeOK
    <2> HIDE DEF e
    <2> QED
      BY <1>4, <2>3, <2>4, <2>5 DEF ReloadFails
  <1> QED
    BY <1>1, <1>2, <1>3, <1>4 DEF Reload, ReloadWorks

LEMMA ReloadTypes ==
  ASSUME TypeOK, NEW s \in Sessions, NEW b \in Binaries, Reload(s, b)
  PROVE  TypeOK'
  <1>1. /\ Loaded(b, bins[s][b].stat) \in Entry
        /\ disk[b].plugins \in SUBSET Plugins
    BY ReloadedEntry, LoadedType DEF TypeOK
  <1>2. \E e \in Entry : bins' = [bins EXCEPT ![s][b] = e]
    BY <1>1, ReloadedEntry DEF ReloadWorks, ReloadFails
  <1>3. bins \in [Sessions -> [Binaries -> Entry \cup {None}]]
    BY DEF TypeOK
  <1> HIDE DEF Entry, Pointer
  <1>4. bins' \in [Sessions -> [Binaries -> Entry \cup {None}]]
    BY <1>2, <1>3, SetBin
  <1>5. \A t \in Sessions : \A x \in Binaries : bins[t][x] # None => bins'[t][x] # None
    BY <1>2, <1>3, PluginAssumption DEF Entry
  <1>6. /\ toDo' \in [Sessions -> SUBSET Binaries]
        /\ \A t \in Sessions : pc[t] = "check" => toDo'[t] \subseteq Known(t)'
    BY <1>5, CheckedOff DEF Reload
  <1>7. /\ offered' \in [Sessions -> SUBSET Pointer]
        /\ listed' \in [Sessions -> SUBSET Pointer]
        /\ byId' \in [Sessions -> [Ids -> Pointer \cup {None}]]
        /\ dirty' \in [Sessions -> BOOLEAN]
        /\ calm' \in [Sessions -> BOOLEAN]
    <2>1. dirty \in [Sessions -> BOOLEAN] /\ calm \in [Sessions -> BOOLEAN]
      BY DEF TypeOK
    <2>2. CASE ReloadWorks(s, b)
      <3>1. PICK D \in SUBSET disk[b].plugins :
              /\ Offer(s, Pointers(b, "loaded", D))
              /\ calm' = [calm EXCEPT ![s] = @ /\ D = disk[b].plugins]
        BY <2>2 DEF ReloadWorks
      <3>2. Pointers(b, "loaded", D) \in SUBSET Pointer
        BY <1>1, PointersType
      <3>3. /\ offered' \in [Sessions -> SUBSET Pointer]
            /\ listed' \in [Sessions -> SUBSET Pointer]
            /\ byId' \in [Sessions -> [Ids -> Pointer \cup {None}]]
        BY <3>1, <3>2, OfferTypes
      <3> QED
        BY <2>1, <2>2, <3>1, <3>3 DEF ReloadWorks
    <2>3. CASE ReloadFails(s, b)
      <3>1. PICK d \in {dirty[s], TRUE} : dirty' = [dirty EXCEPT ![s] = d]
        BY <2>3 DEF ReloadFails
      <3> QED
        BY <2>1, <2>3, <3>1 DEF ReloadFails, TypeOK
    <2> QED
      BY <2>2, <2>3, ReloadedEntry
  <1> QED
    BY <1>4, <1>6, <1>7 DEF Reload, TypeOK

LEMMA CheckedTypes ==
  ASSUME TypeOK, NEW s \in Sessions, Checked(s)
  PROVE  TypeOK'
  BY DEF Checked, TypeOK, Known

LEMMA WriteTemporaryTypes ==
  ASSUME TypeOK, NEW s \in Sessions, WriteTemporary(s)
  PROVE  TypeOK'
  <1> DEFINE written == [b \in Binaries |-> Saved(bins[s][b])]
  <1>1. written \in [Binaries -> SavedEntry \cup {None}]
    <2>1. ASSUME NEW b \in Binaries
          PROVE  Saved(bins[s][b]) \in SavedEntry \cup {None}
      BY DEF TypeOK, Saved
    <2> QED
      BY <2>1
  <1>2. tmp' = tmp \/ tmp' = [tmp EXCEPT ![s] = written]
    BY DEF WriteTemporary
  <1> HIDE DEF written
  <1>3. tmp' \in [Sessions -> [Binaries -> SavedEntry \cup {None}]]
    BY <1>1, <1>2 DEF TypeOK
  <1>4. calm' \in [Sessions -> BOOLEAN]
    BY DEF WriteTemporary, TypeOK
  <1> QED
    BY <1>3, <1>4 DEF WriteTemporary, TypeOK, Known

LEMMA RenameTypes ==
  ASSUME TypeOK, NEW s \in Sessions, Rename(s)
  PROVE  TypeOK'
  <1>1. NoEntries \in [Binaries -> SavedEntry \cup {None}]
    BY DEF NoEntries
  <1>2. tmp' \in [Sessions -> [Binaries -> SavedEntry \cup {None}]]
    BY <1>1 DEF Rename, TypeOK
  <1>3. cacheFile' \in [state : FileStates, entries : [Binaries -> SavedEntry \cup {None}]]
    <2>1. tmp[s] \in [Binaries -> SavedEntry \cup {None}]
      BY DEF TypeOK
    <2>2. cacheFile' = cacheFile \/ cacheFile' = [state |-> "whole", entries |-> tmp[s]]
      BY DEF Rename
    <2>3. cacheFile \in [state : FileStates, entries : [Binaries -> SavedEntry \cup {None}]]
      BY DEF TypeOK
    <2> DEFINE E == [Binaries -> SavedEntry \cup {None}]
    <2> HIDE DEF E
    <2>4. [state |-> "whole", entries |-> tmp[s]] \in [state : FileStates, entries : E]
      BY <2>1 DEF E, FileStates
    <2> QED
      BY <2>2, <2>3, <2>4 DEF E
  <1> QED
    BY <1>2, <1>3 DEF Rename, TypeOK, Known

LEMMA StopTypes ==
  ASSUME TypeOK, NEW s \in Sessions, Stop(s)
  PROVE  TypeOK'
  <1>1. /\ NoEntries \in [Binaries -> SavedEntry \cup {None}]
        /\ NoEntries \in [Binaries -> Entry \cup {None}]
        /\ [i \in Ids |-> None] \in [Ids -> Pointer \cup {None}]
    BY DEF NoEntries
  <1> HIDE DEF Entry, SavedEntry, Pointer, File
  <1>2. /\ tmp' \in [Sessions -> [Binaries -> SavedEntry \cup {None}]]
        /\ readAs' \in [Sessions -> [Binaries -> SavedEntry \cup {None}]]
        /\ bins' \in [Sessions -> [Binaries -> Entry \cup {None}]]
        /\ byId' \in [Sessions -> [Ids -> Pointer \cup {None}]]
    BY <1>1 DEF Stop, TypeOK
  <1>3. /\ found' \in [Sessions -> SUBSET Binaries]
        /\ toDo' \in [Sessions -> SUBSET Binaries]
        /\ offered' \in [Sessions -> SUBSET Pointer]
        /\ listed' \in [Sessions -> SUBSET Pointer]
    BY DEF Stop, TypeOK
  <1> QED
    BY <1>2, <1>3 DEF Stop, TypeOK, Known

LEMMA StepTypes ==
  ASSUME TypeOK, [Next]_vars
  PROVE  TypeOK'
  <1>1. CASE UNCHANGED vars
    BY <1>1 DEF vars, TypeOK, Known
  <1>2. CASE Next
    BY <1>2, InstallTypes, ReadCacheTypes, VisitTypes, OpenNewTypes, ScannedTypes,
       CheckGoneTypes, CheckSameTypes, ReloadTypes, CheckedTypes,
       WriteTemporaryTypes, RenameTypes, StopTypes
       DEF Next
  <1> QED
    BY <1>1, <1>2

(* Type correctness, for any sessions, plugin files and plugins. *)
THEOREM CacheTyped == Spec => []TypeOK
  BY InitTypes, StepTypes, PTL DEF Spec

-----------------------------------------------------------------------------
(* The truth of the entries.  No stamp has been given twice: none that is  *)
(* kept anywhere is after the clock, so a new file has one of its own.     *)

PastAndTrue(e, b) == /\ e # None => e.stamp <= clock
                     /\ Truthful(e, b)
Written == \A b \in Binaries : /\ PastAndTrue(cacheFile.entries[b], b)
                               /\ disk[b].stamp <= clock
Kept(s) ==
  /\ current[s] # None => current[s].stat <= clock
  /\ \A b \in Binaries : /\ PastAndTrue(bins[s][b], b)
                         /\ bins[s][b] # None => bins[s][b].stat <= clock
                         /\ PastAndTrue(tmp[s][b], b)

TruthInv == TypeOK /\ Written /\ \A s \in Sessions : Kept(s)

LEMMA InitTruth ==
  ASSUME Init
  PROVE  TruthInv
  <1>1. TypeOK
    BY InitTypes
  <1>2. \A b \in Binaries : disk[b].stamp <= 1
    BY DEF Init, NoBundle
  <1> QED
    BY <1>1, <1>2 DEF TruthInv, Written, Kept, PastAndTrue, Truthful, Init, NoEntries

LEMMA InstallTruth ==
  ASSUME TruthInv, NEW x \in Binaries, Install(x)
  PROVE  Written' /\ \A s \in Sessions : Kept(s)'
  <1>1. /\ clock' = clock + 1
        /\ clock \in Nat
        /\ \A b \in Binaries \ {x} : disk'[b] = disk[b]
        /\ disk'[x].stamp \in {clock + 1, 0, -1}
        /\ UNCHANGED <<cacheFile, bins, tmp, current>>
    BY DEF Install, TruthInv, TypeOK, NoBinary, NoBundle
  <1>2. ASSUME NEW b \in Binaries, NEW e,
               e # None => e.stamp \in Int, PastAndTrue(e, b)
        PROVE  /\ e # None => e.stamp <= clock'
               /\ (e # None /\ ~e.failed /\ disk'[b].stamp > 0
                     /\ e.stamp = disk'[b].stamp) => e.plugins = disk'[b].plugins
    BY <1>1, <1>2 DEF PastAndTrue, Truthful
  <1>3. Written'
    <2>1. \A b \in Binaries : /\ cacheFile.entries[b] # None
                                   => cacheFile.entries[b].stamp \in Int
                              /\ disk[b].stamp \in Int
      BY DEF TruthInv, TypeOK
    <2>2. \A b \in Binaries : PastAndTrue(cacheFile.entries[b], b) /\ disk[b].stamp <= clock
      BY DEF TruthInv, Written
    <2>3. \A b \in Binaries : disk'[b].stamp <= clock'
      BY <1>1, <2>1, <2>2
    <2> QED
      BY <1>1, <1>2, <2>1, <2>2, <2>3 DEF Written, PastAndTrue, Truthful
  <1>4. ASSUME NEW s \in Sessions
        PROVE  Kept(s)'
    <2>1. \A b \in Binaries :
            /\ bins[s][b] # None => bins[s][b].stamp \in Int /\ bins[s][b].stat \in Int
            /\ tmp[s][b] # None => tmp[s][b].stamp \in Int
      BY DEF TruthInv, TypeOK
    <2>2. current[s] # None => current[s].stat \in Int
      BY DEF TruthInv, TypeOK
    <2>3. Kept(s)
      BY DEF TruthInv
    <2> QED
      BY <1>1, <1>2, <2>1, <2>2, <2>3 DEF Kept, PastAndTrue, Truthful
  <1> QED
    BY <1>3, <1>4

(* A step of one session that leaves the files alone. *)
LEMMA OneSession ==
  ASSUME TruthInv, NEW s \in Sessions,
         UNCHANGED <<disk, clock>>, Kept(s)', cacheFile' = cacheFile \/ Written',
         \A t \in Sessions \ {s} : UNCHANGED <<bins[t], tmp[t], current[t]>>
  PROVE  Written' /\ \A t \in Sessions : Kept(t)'
  <1>1. Written'
    BY DEF TruthInv, Written, PastAndTrue, Truthful
  <1>2. \A t \in Sessions \ {s} : Kept(t)'
    BY DEF TruthInv, Kept, PastAndTrue, Truthful
  <1> QED
    BY <1>1, <1>2

LEMMA ReadCacheTruth ==
  ASSUME TruthInv, NEW s \in Sessions, ReadCache(s)
  PROVE  Written' /\ \A t \in Sessions : Kept(t)'
  <1>1. UNCHANGED <<disk, clock, cacheFile, tmp, current>> /\ clock \in Nat
    BY DEF ReadCache, TruthInv, TypeOK
  <1>2. ASSUME NEW b \in Binaries
        PROVE  /\ PastAndTrue(bins[s][b], b)'
               /\ (bins[s][b] # None)' => bins'[s][b].stat <= clock
    <2>1. CASE bins'[s][b] = None
      BY <2>1 DEF PastAndTrue, Truthful
    <2>2. CASE bins'[s][b] # None
      <3>1. bins'[s][b] = Restored[b] /\ cacheFile.entries[b] # None
        BY <2>2 DEF ReadCache, Restored, NoEntries, TruthInv, TypeOK
      <3>2. /\ Restored[b].stamp = cacheFile.entries[b].stamp
            /\ Restored[b].stat \in {disk[b].stamp, 0}
            /\ Restored[b].plugins = cacheFile.entries[b].plugins
            /\ Restored[b].failed = cacheFile.entries[b].failed
        BY <3>1 DEF Restored
      <3> QED
        BY <1>1, <3>1, <3>2
           DEF TruthInv, Written, Truthful, PastAndTrue
    <2> QED
      BY <2>1, <2>2
  <1>3. Kept(s)'
    BY <1>1, <1>2 DEF Kept, PastAndTrue, Truthful, TruthInv
  <1>4. \A t \in Sessions \ {s} : bins'[t] = bins[t]
    BY DEF ReadCache, TruthInv, TypeOK
  <1> QED
    BY <1>1, <1>3, <1>4, OneSession

(* The stamp of a new entry was seen before its file was opened: if that is the
   stamp of the file, so are the plugins. *)
LEMMA LoadedTrue ==
  ASSUME NEW b, NEW stat, stat <= clock
  PROVE  PastAndTrue(Loaded(b, stat), b) /\ Loaded(b, stat).stat = stat
  BY DEF PastAndTrue, Truthful, Loaded

LEMMA VisitTruth ==
  ASSUME TruthInv, NEW s \in Sessions, NEW b \in Binaries, Visit(s, b)
  PROVE  Written' /\ \A t \in Sessions : Kept(t)'
  <1>1. UNCHANGED <<disk, clock, cacheFile, tmp, bins>>
    BY DEF Visit
  <1>2. /\ \A t \in Sessions \ {s} : current'[t] = current[t]
        /\ \/ current'[s] = current[s]
           \/ current'[s] = [bin |-> b, stat |-> disk[b].stamp]
    BY DEF Visit, TruthInv, TypeOK
  <1>3. Kept(s)'
    BY <1>1, <1>2 DEF TruthInv, Kept, Written, PastAndTrue, Truthful
  <1> QED
    BY <1>1, <1>2, <1>3, OneSession

LEMMA OpenNewTruth ==
  ASSUME TruthInv, NEW s \in Sessions, OpenNew(s)
  PROVE  Written' /\ \A t \in Sessions : Kept(t)'
  <1> DEFINE new == Loaded(current[s].bin, current[s].stat)
  <1>1. UNCHANGED <<disk, clock, cacheFile, tmp>>
    BY DEF OpenNew
  <1>2. current[s] # None /\ current[s].bin \in Binaries /\ current[s].stat <= clock
    BY DEF OpenNew, TruthInv, TypeOK, Kept
  <1>3. PastAndTrue(new, current[s].bin) /\ new.stat <= clock
    BY <1>2, LoadedTrue
  <1> HIDE DEF new
  <1>4. /\ \A t \in Sessions \ {s} : current'[t] = current[t] /\ bins'[t] = bins[t]
        /\ current'[s] = None
        /\ \A b \in Binaries : \/ bins'[s][b] = bins[s][b]
                               \/ b = current[s].bin /\ bins'[s][b] = new
    BY DEF OpenNew, TruthInv, TypeOK, new
  <1>5. ASSUME NEW b \in Binaries
        PROVE  /\ PastAndTrue(bins'[s][b], b)
               /\ bins'[s][b] # None => bins'[s][b].stat <= clock
               /\ PastAndTrue(tmp[s][b], b)
    <2>1. CASE bins'[s][b] = bins[s][b]
      BY <2>1 DEF TruthInv, Kept
    <2>2. CASE b = current[s].bin /\ bins'[s][b] = new
      BY <1>3, <2>2 DEF TruthInv, Kept
    <2> QED
      BY <1>4, <2>1, <2>2
  <1>6. Kept(s)'
    BY <1>1, <1>4, <1>5 DEF Kept, PastAndTrue, Truthful
  <1> QED
    BY <1>1, <1>4, <1>6, OneSession

LEMMA CheckGoneTruth ==
  ASSUME TruthInv, NEW s \in Sessions, NEW x \in Binaries, CheckGone(s, x)
  PROVE  Written' /\ \A t \in Sessions : Kept(t)'
  <1>1. UNCHANGED <<disk, clock, cacheFile, tmp, current>>
    BY DEF CheckGone
  <1>2. /\ \A t \in Sessions \ {s} : bins'[t] = bins[t]
        /\ \A b \in Binaries : bins'[s][b] \in {bins[s][b], None}
    BY DEF CheckGone, TruthInv, TypeOK
  <1>3. Kept(s)'
    BY <1>1, <1>2 DEF TruthInv, Kept, PastAndTrue, Truthful
  <1> QED
    BY <1>1, <1>2, <1>3, OneSession

LEMMA ReloadTruth ==
  ASSUME TruthInv, NEW s \in Sessions, NEW x \in Binaries, Reload(s, x)
  PROVE  Written' /\ \A t \in Sessions : Kept(t)'
  <1>1. UNCHANGED <<disk, clock, cacheFile, tmp, current>>
    BY DEF Reload
  <1>2. bins[s][x] \in Entry /\ bins[s][x] # None
    BY ReloadedEntry, PluginAssumption DEF TruthInv
  <1>3. bins[s][x].stat <= clock
    BY <1>2 DEF TruthInv, Kept
  <1>4. PICK e : /\ bins' = [bins EXCEPT ![s][x] = e]
                 /\ PastAndTrue(e, x) /\ e.stat <= clock
    <2>1. CASE ReloadWorks(s, x)
      BY <1>3, <2>1, LoadedTrue DEF ReloadWorks
    <2>2. CASE ReloadFails(s, x)
      <3>1. PICK e \in Entry : /\ e.failed /\ e.stamp = bins[s][x].stat
                               /\ e.stat = bins[s][x].stat
                               /\ bins' = [bins EXCEPT ![s][x] = e]
        BY <2>2 DEF ReloadFails
      <3>2. PastAndTrue(e, x) /\ e.stat <= clock
        BY <1>3, <3>1 DEF PastAndTrue, Truthful
      <3> QED
        BY <3>1, <3>2
    <2> QED
      BY <2>1, <2>2, ReloadedEntry DEF TruthInv
  <1>5. /\ \A t \in Sessions \ {s} : bins'[t] = bins[t]
        /\ \A b \in Binaries : bins'[s][b] = bins[s][b] \/ (b = x /\ bins'[s][b] = e)
    BY <1>4 DEF TruthInv, TypeOK
  <1>6. ASSUME NEW b \in Binaries
        PROVE  /\ PastAndTrue(bins'[s][b], b)
               /\ bins'[s][b] # None => bins'[s][b].stat <= clock
               /\ PastAndTrue(tmp[s][b], b)
    <2>1. CASE bins'[s][b] = bins[s][b]
      BY <2>1 DEF TruthInv, Kept
    <2>2. CASE b = x /\ bins'[s][b] = e
      BY <1>4, <2>2 DEF TruthInv, Kept
    <2> QED
      BY <1>5, <2>1, <2>2
  <1>7. Kept(s)'
    BY <1>1, <1>6 DEF TruthInv, Kept, PastAndTrue, Truthful
  <1> QED
    BY <1>1, <1>5, <1>7, OneSession

LEMMA WriteTemporaryTruth ==
  ASSUME TruthInv, NEW s \in Sessions, WriteTemporary(s)
  PROVE  Written' /\ \A t \in Sessions : Kept(t)'
  <1>1. UNCHANGED <<disk, clock, cacheFile, bins, current>>
    BY DEF WriteTemporary
  <1>2. /\ \A t \in Sessions \ {s} : tmp'[t] = tmp[t]
        /\ \A b \in Binaries : tmp'[s][b] \in {tmp[s][b], Saved(bins[s][b])}
    BY DEF WriteTemporary, TruthInv, TypeOK
  <1>3. \A b \in Binaries : PastAndTrue(bins[s][b], b) => PastAndTrue(Saved(bins[s][b]), b)
    BY DEF PastAndTrue, Truthful, Saved
  <1>4. ASSUME NEW b \in Binaries
        PROVE  PastAndTrue(tmp'[s][b], b)
    BY <1>2, <1>3 DEF TruthInv, Kept
  <1>5. Kept(s)'
    BY <1>1, <1>4 DEF TruthInv, Kept, PastAndTrue, Truthful
  <1> QED
    BY <1>1, <1>2, <1>5, OneSession

LEMMA RenameTruth ==
  ASSUME TruthInv, NEW s \in Sessions, Rename(s)
  PROVE  Written' /\ \A t \in Sessions : Kept(t)'
  <1>1. UNCHANGED <<disk, clock, bins, current>>
    BY DEF Rename
  <1>2. /\ \A t \in Sessions \ {s} : tmp'[t] = tmp[t]
        /\ \A b \in Binaries : tmp'[s][b] = None
        /\ cacheFile' = cacheFile \/ cacheFile'.entries = tmp[s]
    BY DEF Rename, NoEntries, TruthInv, TypeOK
  <1>3. Kept(s)'
    BY <1>1, <1>2 DEF TruthInv, Kept, PastAndTrue, Truthful
  <1>4. cacheFile' = cacheFile \/ Written'
    BY <1>1, <1>2 DEF TruthInv, Kept, Written, PastAndTrue, Truthful
  <1> QED
    BY <1>1, <1>2, <1>3, <1>4, OneSession

LEMMA StopTruth ==
  ASSUME TruthInv, NEW s \in Sessions, Stop(s)
  PROVE  Written' /\ \A t \in Sessions : Kept(t)'
  <1>1. /\ UNCHANGED <<disk, clock, cacheFile>>
        /\ \A t \in Sessions \ {s} : UNCHANGED <<bins[t], tmp[t], current[t]>>
        /\ \A b \in Binaries : bins'[s][b] = None /\ tmp'[s][b] = None
        /\ current'[s] = None
    BY DEF Stop, NoEntries, TruthInv, TypeOK
  <1>2. Kept(s)'
    BY <1>1 DEF Kept, PastAndTrue, Truthful
  <1> QED
    BY <1>1, <1>2, OneSession

(* The steps that touch none of it. *)
LEMMA QuietTruth ==
  ASSUME TruthInv, UNCHANGED <<disk, clock, cacheFile, bins, tmp, current>>
  PROVE  Written' /\ \A t \in Sessions : Kept(t)'
  BY DEF TruthInv, Written, Kept, PastAndTrue, Truthful

LEMMA StepTruth ==
  ASSUME TruthInv, [Next]_vars
  PROVE  TruthInv'
  <1>1. TypeOK'
    BY StepTypes DEF TruthInv
  <1>2. CASE UNCHANGED vars
    BY <1>1, <1>2, QuietTruth DEF vars, TruthInv
  <1>3. CASE \E b \in Binaries : Install(b)
    BY <1>1, <1>3, InstallTruth DEF TruthInv
  <1>4. ASSUME NEW s \in Sessions,
               ReadCache(s) \/ OpenNew(s) \/ WriteTemporary(s) \/ Rename(s) \/ Stop(s)
        PROVE  TruthInv'
    BY <1>1, <1>4, ReadCacheTruth, OpenNewTruth, WriteTemporaryTruth, RenameTruth,
       StopTruth DEF TruthInv
  <1>5. ASSUME NEW s \in Sessions, NEW b \in Binaries,
               Visit(s, b) \/ CheckGone(s, b) \/ Reload(s, b)
        PROVE  TruthInv'
    BY <1>1, <1>5, VisitTruth, CheckGoneTruth, ReloadTruth DEF TruthInv
  <1>6. ASSUME NEW s \in Sessions, Scanned(s) \/ Checked(s)
        PROVE  TruthInv'
    BY <1>1, <1>6, QuietTruth DEF TruthInv, Scanned, Checked
  <1>7. ASSUME NEW s \in Sessions, NEW b \in Binaries, CheckSame(s, b)
        PROVE  TruthInv'
    BY <1>1, <1>7, QuietTruth DEF TruthInv, CheckSame
  <1> QED
    BY <1>2, <1>3, <1>4, <1>5, <1>6, <1>7 DEF Next

(* For any sessions, binaries and installations: an entry kept by a session, a
   temporary file or the cache file that has the stamp of the file on the disk has its
   plugins, unless its last reload has failed. *)
THEOREM CacheIsTruthful == Spec => []CacheTellsTruth
  <1>1. Init => TruthInv
    BY InitTruth
  <1>2. TruthInv /\ [Next]_vars => TruthInv'
    BY StepTruth
  <1>3. TruthInv => CacheTellsTruth
    BY DEF TruthInv, Written, Kept, PastAndTrue, CacheTellsTruth
  <1> QED
    BY <1>1, <1>2, <1>3, PTL DEF Spec

-----------------------------------------------------------------------------
(* What a session offers. *)

BestOf(O, y, i) ==
  LET mine == {x \in O : x.plugin.id = i}
  IN IF mine = {} THEN y = None
     ELSE y \in mine /\ \A x \in mine : ~Older(y.plugin, x.plugin)

OfferOK(s) ==
  /\ pc[s] \in {"off", "scan", "open"} => offered[s] = {}
  /\ \A x \in offered[s] : /\ Alive(s, x)
                           /\ pc[s] = "check" => x.bin \notin toDo[s]
  /\ \A i \in Ids : BestOf(offered[s], byId[s][i], i)

OfferInv == TypeOK /\ \A s \in Sessions : OfferOK(s)

(* Versions are totally ordered. *)
LEMMA VersionOrder ==
  ASSUME NEW p \in Plugins, NEW q \in Plugins, NEW r \in Plugins
  PROVE  /\ Trumps(p, q) <=> Older(q, p)
         /\ ~Older(p, p)
         /\ ~Older(p, q) /\ ~Older(q, r) => ~Older(p, r)
         /\ Older(p, q) => ~Older(q, p)
  BY PluginAssumption DEF Trumps, Older

(* confirmPlugin keeps the best of what it had and what it gets. *)
LEMMA ConfirmedBest ==
  ASSUME NEW O \in SUBSET Pointer, NEW X \in SUBSET Pointer,
         NEW table \in [Ids -> Pointer \cup {None}],
         \A i \in Ids : BestOf(O, table[i], i),
         NEW t \in Confirmed(table, X), NEW i \in Ids
  PROVE  BestOf(O \cup X, t[i], i)
  <1> DEFINE had == {x \in O : x.plugin.id = i}
             mine == {x \in X : x.plugin.id = i}
             best == {x \in mine : \A y \in mine : ~Trumps(y.plugin, x.plugin)}
             all == {x \in O \cup X : x.plugin.id = i}
  <1>1. all = had \cup mine
    OBVIOUS
  <1>2. /\ had \subseteq Pointer /\ mine \subseteq Pointer
        /\ \A x \in Pointer : x.plugin \in Plugins /\ x # None
    BY PluginAssumption
  <1>3. IF mine = {} THEN t[i] = table[i]
        ELSE IF table[i] = None THEN t[i] \in best
        ELSE \E x \in best : t[i] = IF Trumps(x.plugin, table[i].plugin) THEN x
                                    ELSE table[i]
    BY DEF Confirmed
  <1>4. IF had = {} THEN table[i] = None
        ELSE table[i] \in had /\ \A x \in had : ~Older(table[i].plugin, x.plugin)
    BY DEF BestOf
  <1>5. \A x \in best : x \in mine /\ \A y \in mine : ~Older(x.plugin, y.plugin)
    BY <1>2, VersionOrder
  <1> SUFFICES IF all = {} THEN t[i] = None
               ELSE t[i] \in all /\ \A x \in all : ~Older(t[i].plugin, x.plugin)
    BY DEF BestOf
  <1> HIDE DEF had, mine, best, all
  <1>6. CASE mine = {}
    BY <1>1, <1>3, <1>4, <1>6
  <1>7. CASE mine # {} /\ table[i] = None
    BY <1>1, <1>2, <1>3, <1>4, <1>5, <1>7
  <1>8. CASE mine # {} /\ table[i] # None
    <2>1. PICK x \in best : t[i] = IF Trumps(x.plugin, table[i].plugin) THEN x ELSE table[i]
      BY <1>3, <1>8
    <2>2. table[i] \in had
      BY <1>4, <1>8
    <2>3. ASSUME NEW y \in all
          PROVE  ~Older(t[i].plugin, y.plugin)
      <3>1. /\ y.plugin \in Plugins /\ x.plugin \in Plugins
            /\ table[i].plugin \in Plugins
        BY <1>1, <1>2, <1>5, <2>1, <2>2
      <3>2. y \in had => ~Older(table[i].plugin, y.plugin)
        BY <1>4, <2>2
      <3>3. y \in mine => ~Older(x.plugin, y.plugin)
        BY <1>5, <2>1
      <3>4. Trumps(x.plugin, table[i].plugin) => ~Older(x.plugin, table[i].plugin)
        BY <3>1, VersionOrder
      <3>5. ~Trumps(x.plugin, table[i].plugin) => ~Older(table[i].plugin, x.plugin)
        BY <3>1, VersionOrder
      <3> QED
        BY <1>1, <2>1, <3>1, <3>2, <3>3, <3>4, <3>5, VersionOrder
    <2>4. t[i] \in all
      BY <1>1, <1>5, <2>1, <2>2
    <2> QED
      BY <2>3, <2>4
  <1> QED
    BY <1>6, <1>7, <1>8

LEMMA NothingOffered ==
  ASSUME NEW s \in Sessions, offered[s] = {}, OfferOK(s)
  PROVE  \A i \in Ids : byId[s][i] = None
  BY DEF OfferOK, BestOf

LEMMA InitOffers ==
  ASSUME Init
  PROVE  OfferInv
  BY InitTypes DEF OfferInv, OfferOK, BestOf, Init

(* What a step does to the session it belongs to is all it does to the offers. *)
LEMMA OthersOffers ==
  ASSUME OfferInv, [Next]_vars, NEW s \in Sessions, OfferOK(s)',
         \A t \in Sessions \ {s} :
           UNCHANGED <<pc[t], bins[t], toDo[t], offered[t], byId[t]>>
  PROVE  OfferInv'
  <1>1. \A t \in Sessions \ {s} : OfferOK(t)'
    BY DEF OfferInv, OfferOK, BestOf, Alive
  <1> QED
    BY <1>1, StepTypes DEF OfferInv

(* Steps before anything is offered, and the end of the program. *)
LEMMA EarlyOffers ==
  ASSUME OfferInv, NEW s \in Sessions,
         \/ ReadCache(s) \/ OpenNew(s) \/ Scanned(s) \/ Stop(s)
         \/ \E b \in Binaries : Visit(s, b)
  PROVE  OfferInv'
  <1>1. Next
    BY DEF Next
  <1>2. TypeOK /\ OfferOK(s)
    BY DEF OfferInv
  <1>3. /\ offered'[s] = {}
        /\ \A i \in Ids : byId'[s][i] = None
    <2>1. CASE Stop(s)
      BY <1>2, <2>1 DEF Stop, TypeOK
    <2>2. CASE \/ ReadCache(s) \/ OpenNew(s) \/ Scanned(s)
               \/ \E b \in Binaries : Visit(s, b)
      <3>1. pc[s] \in {"off", "scan", "open"} /\ UNCHANGED <<offered, byId>>
        BY <2>2 DEF ReadCache, OpenNew, Scanned, Visit
      <3> QED
        BY <1>2, <3>1, NothingOffered DEF OfferOK
    <2> QED
      BY <2>1, <2>2
  <1>4. OfferOK(s)'
    BY <1>3 DEF OfferOK, BestOf
  <1>5. \A t \in Sessions \ {s} :
          UNCHANGED <<pc[t], bins[t], toDo[t], offered[t], byId[t]>>
    BY <1>2 DEF ReadCache, OpenNew, Scanned, Stop, Visit, TypeOK
  <1> QED
    BY <1>1, <1>4, <1>5, OthersOffers

LEMMA LateOffers ==
  ASSUME OfferInv, NEW s \in Sessions, Checked(s) \/ WriteTemporary(s) \/ Rename(s)
  PROVE  OfferInv'
  <1>1. Next
    BY DEF Next
  <1>2. /\ UNCHANGED <<bins, toDo, offered, byId>>
        /\ pc[s] \in {"check", "write", "rename"}
        /\ pc'[s] \in {"write", "rename", "ready"}
        /\ \A t \in Sessions \ {s} : pc'[t] = pc[t]
    BY DEF Checked, WriteTemporary, Rename, OfferInv, TypeOK
  <1>3. OfferOK(s)'
    BY <1>2 DEF OfferInv, OfferOK, BestOf, Alive
  <1> QED
    BY <1>1, <1>2, <1>3, OthersOffers

(* A binary that is checked has offered nothing before: it may be erased or replaced,
   and what it offers then is added. *)
LEMMA CheckOffers ==
  ASSUME OfferInv, NEW s \in Sessions, NEW b \in Binaries,
         CheckGone(s, b) \/ CheckSame(s, b) \/ Reload(s, b)
  PROVE  OfferInv'
  <1>1. Next /\ TypeOK /\ OfferOK(s)
    BY DEF Next, OfferInv
  <1>2. /\ pc[s] = "check" /\ b \in toDo[s]
        /\ pc' = pc /\ toDo' = [toDo EXCEPT ![s] = @ \ {b}]
    BY DEF CheckGone, CheckSame, Reload
  <1>3. \A x \in offered[s] : x.bin # b /\ x.bin \in Binaries
    BY <1>1, <1>2 DEF OfferOK, TypeOK
  <1>4. /\ \A x \in Binaries \ {b} : bins'[s][x] = bins[s][x]
        /\ \A t \in Sessions \ {s} : bins'[t] = bins[t]
    <2>1. CASE CheckGone(s, b) \/ CheckSame(s, b)
      BY <1>1, <2>1 DEF CheckGone, CheckSame, TypeOK
    <2>2. CASE Reload(s, b)
      <3>1. \E e : bins' = [bins EXCEPT ![s][b] = e]
        BY <1>1, <2>2, ReloadedEntry DEF ReloadWorks, ReloadFails
      <3> QED
        BY <1>1, <3>1 DEF TypeOK
    <2> QED
      BY <2>1, <2>2
  <1>5. ASSUME NEW X \in SUBSET Pointer, Offer(s, X),
               \A x \in X : x.bin = b /\ Alive(s, x)'
        PROVE  OfferInv'
    <2>1. PICK t \in Confirmed(byId[s], X) : byId' = [byId EXCEPT ![s] = t]
      BY <1>5 DEF Offer
    <2>2. offered' = [offered EXCEPT ![s] = @ \cup X]
      BY <1>5 DEF Offer
    <2>3. /\ offered'[s] = offered[s] \cup X /\ byId'[s] = t
          /\ toDo'[s] = toDo[s] \ {b}
      BY <1>1, <1>2, <2>1, <2>2 DEF TypeOK
    <2>4. \A i \in Ids : BestOf(offered'[s], byId'[s][i], i)
      <3>1. /\ offered[s] \in SUBSET Pointer
            /\ byId[s] \in [Ids -> Pointer \cup {None}]
            /\ \A i \in Ids : BestOf(offered[s], byId[s][i], i)
        BY <1>1 DEF OfferOK, TypeOK
      <3>2. \A i \in Ids : BestOf(offered[s] \cup X, t[i], i)
        BY <1>5, <2>1, <3>1, ConfirmedBest
      <3> QED
        BY <2>3, <3>2
    <2>5. ASSUME NEW x \in offered'[s]
          PROVE  Alive(s, x)' /\ x.bin \notin toDo'[s]
      <3>1. CASE x \in X
        BY <1>5, <2>3, <3>1
      <3>2. CASE x \in offered[s]
        <4>1. /\ Alive(s, x) /\ x.bin \notin toDo[s]
              /\ bins'[s][x.bin] = bins[s][x.bin]
          BY <1>1, <1>2, <1>3, <1>4, <3>2 DEF OfferOK
        <4> QED
          BY <2>3, <4>1 DEF Alive
      <3> QED
        BY <2>3, <3>1, <3>2
    <2>6. OfferOK(s)'
      BY <1>2, <2>4, <2>5 DEF OfferOK, BestOf
    <2>7. \A u \in Sessions \ {s} :
            UNCHANGED <<pc[u], bins[u], toDo[u], offered[u], byId[u]>>
      BY <1>1, <1>2, <1>4, <2>1, <2>2 DEF TypeOK
    <2> QED
      BY <1>1, <2>6, <2>7, OthersOffers
  <1>6. ASSUME UNCHANGED <<offered, byId>>
        PROVE  OfferInv'
    <2>1. toDo'[s] = toDo[s] \ {b} /\ \A u \in Sessions \ {s} : toDo'[u] = toDo[u]
      BY <1>1, <1>2 DEF TypeOK
    <2>2. ASSUME NEW x \in offered[s]
          PROVE  Alive(s, x)' /\ x.bin \notin toDo'[s]
      <3>1. /\ Alive(s, x) /\ x.bin \notin toDo[s]
            /\ bins'[s][x.bin] = bins[s][x.bin]
        BY <1>1, <1>2, <1>3, <1>4 DEF OfferOK
      <3> QED
        BY <2>1, <3>1 DEF Alive
    <2>3. OfferOK(s)'
      BY <1>1, <1>2, <1>6, <2>2 DEF OfferOK, BestOf
    <2> QED
      BY <1>1, <1>2, <1>4, <1>6, <2>1, <2>3, OthersOffers
  <1>7. CASE CheckGone(s, b)
    BY <1>6, <1>7 DEF CheckGone
  <1>8. CASE CheckSame(s, b)
    <2> DEFINE X == Pointers(b, bins[s][b].gen, bins[s][b].plugins)
    <2>1. bins[s][b] \in Entry /\ bins' = bins /\ bins[s][b] # None
      BY <1>1, <1>2, <1>8 DEF CheckSame, TypeOK, Known
    <2>2. X \in SUBSET Pointer /\ Offer(s, X)
      BY <1>8, <2>1, PointersType DEF CheckSame
    <2>3. \A x \in X : x.bin = b /\ Alive(s, x)'
      BY <2>1 DEF Pointers, Alive
    <2> HIDE DEF X
    <2> QED
      BY <1>5, <2>2, <2>3
  <1>9. CASE Reload(s, b)
    <2>1. CASE ReloadWorks(s, b)
      <3>1. PICK D \in SUBSET disk[b].plugins : Offer(s, Pointers(b, "loaded", D))
        BY <2>1 DEF ReloadWorks
      <3>2. disk[b].plugins \subseteq Plugins
        BY <1>1 DEF TypeOK
      <3>3. bins'[s][b] = Loaded(b, bins[s][b].stat) /\ bins'[s][b] # None
        <4>1. bins'[s][b] = Loaded(b, bins[s][b].stat)
          BY <1>1, <2>1 DEF ReloadWorks, TypeOK
        <4>2. Loaded(b, bins[s][b].stat) \in Entry
          BY <1>1, <1>9, ReloadedEntry, LoadedType
        <4> QED
          BY <4>1, <4>2, PluginAssumption
      <3>4. \A x \in Pointers(b, "loaded", D) : x.bin = b /\ Alive(s, x)'
        BY <3>1, <3>3 DEF Pointers, Alive, Loaded
      <3>5. Pointers(b, "loaded", D) \in SUBSET Pointer
        BY <3>1, <3>2, PointersType
      <3> QED
        BY <1>5, <3>1, <3>4, <3>5
    <2>2. CASE ReloadFails(s, b)
      BY <1>6, <2>2 DEF ReloadFails
    <2> QED
      BY <1>1, <1>9, <2>1, <2>2, ReloadedEntry
  <1> QED
    BY <1>7, <1>8, <1>9

LEMMA StepOffers ==
  ASSUME OfferInv, [Next]_vars
  PROVE  OfferInv'
  <1>1. CASE UNCHANGED vars \/ \E b \in Binaries : Install(b)
    <2>1. UNCHANGED <<pc, bins, toDo, offered, byId>>
      BY <1>1 DEF vars, Install
    <2> QED
      BY <2>1, StepTypes DEF OfferInv, OfferOK, BestOf, Alive
  <1> QED
    BY <1>1, EarlyOffers, LateOffers, CheckOffers DEF Next

(* Whatever is erased, reloaded and offered, and for any versions: a session never
   offers a plugin of a binary it no longer has, and the plugin it gives for an
   identifier is one of the highest version it offers. *)
THEOREM OffersAreSound == Spec => []OffersAreAliveAndBest
  <1>1. Init => OfferInv
    BY InitOffers
  <1>2. OfferInv /\ [Next]_vars => OfferInv'
    BY StepOffers
  <1>3. OfferInv => OffersAreAliveAndBest
    BY DEF OfferInv, OfferOK, BestOf, OffersAreAliveAndBest
  <1> QED
    BY <1>1, <1>2, <1>3, PTL DEF Spec

-----------------------------------------------------------------------------
(* A session that nothing disturbs. *)

(* A file that is missing exports nothing, and an entry without a stamp is one *)
(* whose reload has failed.                                                    *)
Stamped(e) == e # None /\ ~e.failed => e.stamp > 0
StampsInv ==
  /\ \A b \in Binaries : disk[b].stamp <= 0 => disk[b].plugins = {}
  /\ \A b \in Binaries : Stamped(cacheFile.entries[b])
  /\ \A s \in Sessions : \A b \in Binaries :
       Stamped(bins[s][b]) /\ Stamped(tmp[s][b]) /\ Stamped(readAs[s][b])

(* What stat sees of a file. *)
Stated(b) == IF disk[b].stamp > 0 THEN disk[b].stamp ELSE 0

Scanning(s) == pc[s] \in {"scan", "open"}
Past(s) == pc[s] \in {"check", "write", "rename", "ready"}

(* An entry is as it was read, or was loaded from the file that is there, or there is *)
(* none: the file was not in the cache either, or it is gone.                         *)
AsRead(s, b) ==
  /\ bins[s][b] # None /\ bins[s][b].gen = "cached"
  /\ Saved(bins[s][b]) = readAs[s][b]
  /\ bins[s][b].stat = Stated(b)
AsLoaded(s, b) ==
  /\ bins[s][b] = Loaded(b, disk[b].stamp)
  /\ disk[b].stamp > 0
  /\ dirty[s] /\ Saved(bins[s][b]) # readAs[s][b]
NoEntry(s, b) ==
  /\ bins[s][b] = None
  /\ readAs[s][b] = None \/ (dirty[s] /\ Past(s))

(* While the directories are read, a bundle that was visited is found if it is there, *)
(* and has an entry unless it is being opened.                                        *)
ScanOK(s, b) ==
  /\ b \in found[s] <=> b \notin toDo[s] /\ disk[b].stamp # -1
  /\ b \in found[s] /\ bins[s][b] = None => pc[s] = "open" /\ current[s].bin = b
  /\ pc[s] = "open" /\ current[s].bin = b =>
       b \in found[s] /\ bins[s][b] = None /\ current[s].stat = disk[b].stamp

(* From then on every bundle that is there has an entry, and one that was checked is   *)
(* up to date and has its plugins offered.                                            *)
CheckOK(s, b) ==
  /\ b \in found[s] <=> disk[b].stamp # -1
  /\ bins[s][b] = None => b \notin found[s]
  /\ (pc[s] = "check" => b \notin toDo[s]) /\ bins[s][b] # None =>
       /\ b \in found[s] /\ bins[s][b].stamp = bins[s][b].stat
       /\ Pointers(b, bins[s][b].gen, bins[s][b].plugins) \subseteq offered[s]

News(s) == \E b \in Binaries : Saved(bins[s][b]) # readAs[s][b]

Undisturbed(s) ==
  /\ \A b \in Binaries : /\ AsRead(s, b) \/ AsLoaded(s, b) \/ NoEntry(s, b)
                         /\ Scanning(s) => ScanOK(s, b)
                         /\ Past(s) => CheckOK(s, b)
  /\ dirty[s] => unread[s] \/ News(s)
  /\ unread[s] => dirty[s]

CalmOK(s) ==
  /\ pc[s] = "off" => found[s] = {}
  /\ calm[s] /\ pc[s] # "off" => Undisturbed(s)

LEMMA BinsStep ==
  ASSUME TypeOK, [Next]_vars, NEW s \in Sessions, NEW b \in Binaries
  PROVE  \/ bins'[s][b] \in {bins[s][b], None}
         \/ bins'[s][b] = Restored[b]
         \/ \E stat \in -1..MaxStamp : stat > 0 /\ bins'[s][b] = Loaded(b, stat)
         \/ bins'[s][b].failed
  <1>1. CASE UNCHANGED vars \/ \E x \in Binaries : Install(x)
    BY <1>1 DEF vars, Install
  <1>2. ASSUME NEW t \in Sessions, ReadCache(t)
        PROVE  bins'[s][b] \in {bins[s][b], None, Restored[b]}
    BY <1>2 DEF ReadCache, NoEntries, TypeOK
  <1>3. ASSUME NEW t \in Sessions, OpenNew(t)
        PROVE  \/ bins'[s][b] = bins[s][b]
               \/ \E stat \in -1..MaxStamp : stat > 0 /\ bins'[s][b] = Loaded(b, stat)
    <2>1. current[t].stat \in -1..MaxStamp
      BY <1>3 DEF OpenNew, TypeOK
    <2>2. CASE bins' = bins
      BY <2>2
    <2>3. CASE /\ current[t].stat > 0
               /\ bins' = [bins EXCEPT ![t][current[t].bin] =
                             Loaded(current[t].bin, current[t].stat)]
      BY <2>1, <2>3 DEF TypeOK
    <2> QED
      BY <1>3, <2>2, <2>3 DEF OpenNew
  <1>4. ASSUME NEW t \in Sessions, Scanned(t) \/ Checked(t) \/ WriteTemporary(t) \/ Rename(t)
        PROVE  bins' = bins
    BY <1>4 DEF Scanned, Checked, WriteTemporary, Rename
  <1>5. ASSUME NEW t \in Sessions, NEW x \in Binaries, Visit(t, x) \/ CheckSame(t, x)
        PROVE  bins' = bins
    BY <1>5 DEF Visit, CheckSame
  <1>6. ASSUME NEW t \in Sessions, NEW x \in Binaries, CheckGone(t, x)
        PROVE  bins'[s][b] \in {bins[s][b], None}
    BY <1>6 DEF CheckGone, TypeOK
  <1>7. ASSUME NEW t \in Sessions, NEW x \in Binaries, Reload(t, x)
        PROVE  \/ bins'[s][b] = bins[s][b]
               \/ \E stat \in -1..MaxStamp : stat > 0 /\ bins'[s][b] = Loaded(b, stat)
               \/ bins'[s][b].failed
    <2>1. bins[t][x] \in Entry
      BY <1>7, ReloadedEntry
    <2>2. CASE bins[t][x].stat > 0 /\ ReloadWorks(t, x)
      BY <2>1, <2>2 DEF ReloadWorks, TypeOK
    <2>3. CASE ReloadFails(t, x)
      <3>1. PICK e \in Entry : e.failed /\ bins' = [bins EXCEPT ![t][x] = e]
        BY <2>3 DEF ReloadFails
      <3>2. bins'[s][b] = IF s = t /\ b = x THEN e ELSE bins[s][b]
        BY <3>1 DEF TypeOK
      <3> QED
        BY <3>1, <3>2
    <2>4. CASE bins[t][x].stat > 0
      BY <1>7, <2>2, <2>3, <2>4, ReloadedEntry
    <2>5. CASE ~(bins[t][x].stat > 0)
      <3>1. ~(calm' = [calm EXCEPT ![t] = FALSE]) \/ ReloadFails(t, x) \/ ReloadWorks(t, x)
        BY <1>7, ReloadedEntry
      <3>2. bins' = [bins EXCEPT ![t][x].stamp = bins[t][x].stat, ![t][x].failed = TRUE]
        BY <1>7, <2>5 DEF Reload
      <3> DEFINE e == [bins[t][x] EXCEPT !.stamp = bins[t][x].stat, !.failed = TRUE]
      <3>3. bins' = [bins EXCEPT ![t][x] = e] /\ e.failed
        BY <2>1, <3>2 DEF TypeOK
      <3> HIDE DEF e
      <3>4. bins'[s][b] = IF s = t /\ b = x THEN e ELSE bins[s][b]
        BY <3>3 DEF TypeOK
      <3> QED
        BY <3>3, <3>4
    <2> QED
      BY <2>4, <2>5
  <1>8. ASSUME NEW t \in Sessions, Stop(t)
        PROVE  bins'[s][b] \in {bins[s][b], None}
    BY <1>8 DEF Stop, NoEntries, TypeOK
  <1> QED
    BY <1>1, <1>2, <1>3, <1>4, <1>5, <1>6, <1>7, <1>8 DEF Next

(* Who writes the files, and what the sessions have read and are about to write. *)
LEMMA FilesStep ==
  ASSUME TypeOK, [Next]_vars
  PROVE  /\ disk' = disk \/ \E x \in Binaries : Install(x)
         /\ \/ cacheFile' = cacheFile
            \/ \E t \in Sessions : cacheFile' = [state |-> "whole", entries |-> tmp[t]]
         /\ \A s \in Sessions : \A b \in Binaries :
              /\ tmp'[s][b] \in {tmp[s][b], None, Saved(bins[s][b])}
              /\ readAs'[s][b] \in {readAs[s][b], None, cacheFile.entries[b]}
  <1>1. CASE UNCHANGED vars \/ \E x \in Binaries : Install(x)
    BY <1>1 DEF vars, Install
  <1>2. ASSUME NEW t \in Sessions, OpenNew(t) \/ Scanned(t) \/ Checked(t)
        PROVE  UNCHANGED <<disk, tmp, readAs, cacheFile>>
    BY <1>2 DEF OpenNew, Scanned, Checked
  <1>3. ASSUME NEW t \in Sessions, NEW x \in Binaries,
               Visit(t, x) \/ CheckGone(t, x) \/ CheckSame(t, x) \/ Reload(t, x)
        PROVE  UNCHANGED <<disk, tmp, readAs, cacheFile>>
    BY <1>3 DEF Visit, CheckGone, CheckSame, Reload
  <1>4. ASSUME NEW t \in Sessions, ReadCache(t)
        PROVE  /\ UNCHANGED <<disk, tmp, cacheFile>>
               /\ \A s \in Sessions : \A b \in Binaries :
                    readAs'[s][b] \in {readAs[s][b], None, cacheFile.entries[b]}
    BY <1>4 DEF ReadCache, NoEntries, TypeOK
  <1>5. ASSUME NEW t \in Sessions, WriteTemporary(t)
        PROVE  /\ UNCHANGED <<disk, readAs, cacheFile>>
               /\ \A s \in Sessions : \A b \in Binaries :
                    tmp'[s][b] \in {tmp[s][b], Saved(bins[s][b])}
    <2>1. CASE tmp' = tmp
      BY <1>5, <2>1 DEF WriteTemporary
    <2>2. CASE tmp' = [tmp EXCEPT ![t] = [b \in Binaries |-> Saved(bins[t][b])]]
      BY <1>5, <2>2 DEF WriteTemporary, TypeOK
    <2> QED
      BY <1>5, <2>1, <2>2 DEF WriteTemporary
  <1>6. ASSUME NEW t \in Sessions, Rename(t)
        PROVE  /\ UNCHANGED <<disk, readAs>>
               /\ \A s \in Sessions : \A b \in Binaries : tmp'[s][b] \in {tmp[s][b], None}
               /\ \/ cacheFile' = cacheFile
                  \/ cacheFile' = [state |-> "whole", entries |-> tmp[t]]
    BY <1>6 DEF Rename, NoEntries, TypeOK
  <1>7. ASSUME NEW t \in Sessions, Stop(t)
        PROVE  /\ UNCHANGED <<disk, cacheFile>>
               /\ \A s \in Sessions : \A b \in Binaries :
                    /\ tmp'[s][b] \in {tmp[s][b], None}
                    /\ readAs'[s][b] \in {readAs[s][b], None}
    BY <1>7 DEF Stop, NoEntries, TypeOK
  <1>8. CASE \E t \in Sessions : \E x \in Binaries :
               Visit(t, x) \/ CheckGone(t, x) \/ CheckSame(t, x) \/ Reload(t, x)
    BY <1>3, <1>8
  <1>9. CASE \E t \in Sessions : \/ ReadCache(t) \/ OpenNew(t) \/ Scanned(t) \/ Checked(t)
                                \/ WriteTemporary(t) \/ Rename(t) \/ Stop(t)
    BY <1>2, <1>4, <1>5, <1>6, <1>7, <1>9
  <1> QED
    BY <1>1, <1>8, <1>9 DEF Next

LEMMA InitStamps ==
  ASSUME Init
  PROVE  StampsInv
  <1>1. \A b \in Binaries : disk[b].stamp <= 0 => disk[b].plugins = {}
    BY DEF Init, NoBundle
  <1> QED
    BY <1>1 DEF StampsInv, Stamped, Init, NoEntries

LEMMA StepStamps ==
  ASSUME TypeOK, StampsInv, [Next]_vars
  PROVE  StampsInv'
  <1>1. ASSUME NEW b \in Binaries, disk'[b].stamp <= 0
        PROVE  disk'[b].plugins = {}
    <2>1. CASE disk' = disk
      BY <1>1, <2>1 DEF StampsInv
    <2>2. ASSUME NEW x \in Binaries, Install(x)
          PROVE  disk'[b].plugins = {}
      <3>1. \/ \E c \in Contents : disk'[x] = [stamp |-> clock + 1, plugins |-> c]
            \/ disk'[x] = NoBinary \/ disk'[x] = NoBundle
        BY <2>2 DEF Install, TypeOK
      <3>2. ~(disk'[x].stamp <= 0) \/ disk'[x].plugins = {}
        <4>1. clock \in Nat
          BY PluginAssumption DEF TypeOK
        <4>2. \A c \in Contents : ~([stamp |-> clock + 1, plugins |-> c].stamp <= 0)
          BY <4>1
        <4> QED
          <5>1. CASE disk'[x] \in {NoBinary, NoBundle}
            BY <5>1 DEF NoBinary, NoBundle
          <5>2. CASE \E c \in Contents : disk'[x] = [stamp |-> clock + 1, plugins |-> c]
            BY <4>2, <5>2
          <5> QED
            BY <3>1, <5>1, <5>2
      <3>3. b # x => disk'[b] = disk[b]
        BY <2>2 DEF Install, TypeOK
      <3> QED
        BY <1>1, <3>2, <3>3 DEF StampsInv
    <2> QED
      BY <2>1, <2>2, FilesStep
  <1>2. ASSUME NEW s \in Sessions, NEW b \in Binaries
        PROVE  Stamped(bins'[s][b])
    <2>1. CASE bins'[s][b] = Restored[b]
      <3>1. cacheFile.entries[b] = None => Restored[b] = None
        BY DEF Restored
      <3>2. cacheFile.entries[b] # None => /\ Restored[b].stamp = cacheFile.entries[b].stamp
                                           /\ Restored[b].failed = cacheFile.entries[b].failed
        BY DEF Restored
      <3> QED
        BY <2>1, <3>1, <3>2 DEF StampsInv, Stamped
    <2>2. CASE \E stat \in -1..MaxStamp : stat > 0 /\ bins'[s][b] = Loaded(b, stat)
      BY <2>2 DEF Loaded, Stamped
    <2> QED
      BY <2>1, <2>2, BinsStep DEF StampsInv, Stamped
  <1>3. ASSUME NEW s \in Sessions, NEW b \in Binaries
        PROVE  Stamped(tmp'[s][b]) /\ Stamped(readAs'[s][b])
    <2>1. tmp'[s][b] \in {tmp[s][b], None, Saved(bins[s][b])}
      BY FilesStep
    <2>2. readAs'[s][b] \in {readAs[s][b], None, cacheFile.entries[b]}
      BY FilesStep
    <2>3. Stamped(Saved(bins[s][b]))
      BY DEF Saved, Stamped, StampsInv
    <2> QED
      BY <2>1, <2>2, <2>3 DEF StampsInv, Stamped
  <1>4. ASSUME NEW b \in Binaries
        PROVE  Stamped(cacheFile'.entries[b])
    <2>1. \/ cacheFile' = cacheFile
          \/ \E s \in Sessions : cacheFile' = [state |-> "whole", entries |-> tmp[s]]
      BY FilesStep
    <2> QED
      BY <2>1 DEF StampsInv
  <1> QED
    BY <1>1, <1>2, <1>3, <1>4 DEF StampsInv

(* The steps of a session leave the files and the other sessions alone. *)
Same(t) ==
  /\ UNCHANGED <<pc[t], bins[t], toDo[t], found[t], current[t], offered[t]>>
  /\ UNCHANGED <<dirty[t], readAs[t], unread[t], calm[t]>>

LEMMA OthersCalm ==
  ASSUME NEW t \in Sessions, CalmOK(t), disk' = disk, Same(t)
  PROVE  CalmOK(t)'
  <1>1. ASSUME NEW b \in Binaries
        PROVE  /\ AsRead(t, b) => AsRead(t, b)'
               /\ AsLoaded(t, b) => AsLoaded(t, b)'
               /\ NoEntry(t, b) => NoEntry(t, b)'
               /\ ScanOK(t, b) => ScanOK(t, b)'
               /\ CheckOK(t, b) => CheckOK(t, b)'
    BY DEF Same, AsRead, AsLoaded, NoEntry, ScanOK, CheckOK, Stated, Loaded, Saved, Past
  <1>2. News(t) => News(t)'
    BY DEF Same, News
  <1> QED
    BY <1>1, <1>2 DEF Same, CalmOK, Undisturbed, Scanning, Past

LEMMA OneSessionMoves ==
  ASSUME TypeOK, NEW s \in Sessions, NEW t \in Sessions \ {s},
         \/ ReadCache(s) \/ OpenNew(s) \/ Scanned(s) \/ Checked(s)
         \/ WriteTemporary(s) \/ Rename(s) \/ Stop(s)
         \/ \E b \in Binaries : Visit(s, b) \/ CheckGone(s, b) \/ CheckSame(s, b) \/ Reload(s, b)
  PROVE  disk' = disk /\ Same(t)
  <1>1. CASE ReadCache(s)
    BY <1>1 DEF ReadCache, Same, TypeOK
  <1>2. CASE OpenNew(s)
    <2>1. bins'[t] = bins[t]
      BY <1>2 DEF OpenNew, TypeOK
    <2> QED
      BY <1>2, <2>1 DEF OpenNew, Same, TypeOK
  <1>3. CASE Scanned(s)
    BY <1>3 DEF Scanned, Same, TypeOK
  <1>4. CASE Checked(s)
    BY <1>4 DEF Checked, Same, TypeOK
  <1>5. CASE WriteTemporary(s)
    BY <1>5 DEF WriteTemporary, Same, TypeOK
  <1>6. CASE Rename(s)
    BY <1>6 DEF Rename, Same, TypeOK
  <1>7. CASE Stop(s)
    BY <1>7 DEF Stop, Same, TypeOK
  <1>8. ASSUME NEW b \in Binaries, Visit(s, b)
        PROVE  disk' = disk /\ Same(t)
    BY <1>8 DEF Visit, Same, TypeOK
  <1>9. ASSUME NEW b \in Binaries, CheckGone(s, b)
        PROVE  disk' = disk /\ Same(t)
    BY <1>9 DEF CheckGone, Same, TypeOK
  <1>10. ASSUME NEW b \in Binaries, CheckSame(s, b)
         PROVE  disk' = disk /\ Same(t)
    BY <1>10 DEF CheckSame, Offer, Same, TypeOK
  <1>11. ASSUME NEW b \in Binaries, Reload(s, b)
         PROVE  disk' = disk /\ Same(t)
    <2>1. disk' = disk /\ UNCHANGED <<pc[t], found[t], current[t], readAs[t], unread[t], toDo[t]>>
      BY <1>11 DEF Reload, TypeOK
    <2>2. CASE ReloadWorks(s, b)
      BY <2>1, <2>2 DEF ReloadWorks, Offer, Same, TypeOK
    <2>3. CASE ReloadFails(s, b)
      <3>1. bins'[t] = bins[t]
        BY <2>3 DEF ReloadFails, TypeOK
      <3> QED
        BY <2>1, <2>3, <3>1 DEF ReloadFails, Same, TypeOK
    <2> QED
      BY <1>11, <2>2, <2>3, ReloadedEntry
  <1> QED
    BY <1>1, <1>2, <1>3, <1>4, <1>5, <1>6, <1>7, <1>8, <1>9, <1>10, <1>11

LEMMA SavedKnown ==
  ASSUME NEW e \in Entry
  PROVE  Saved(e) # None /\ Saved(e).stamp = e.stamp /\ e # None
  <1>1. e # None
    BY PluginAssumption
  <1>2. Saved(e) \in SavedEntry
    BY <1>1 DEF Saved
  <1> QED
    BY <1>1, <1>2, PluginAssumption DEF Saved

LEMMA ReadCacheCalm ==
  ASSUME TypeOK, NEW s \in Sessions, CalmOK(s), ReadCache(s)
  PROVE  CalmOK(s)'
  <1>1. /\ pc[s] = "off" /\ pc'[s] = "scan" /\ disk' = disk
        /\ found'[s] = {} /\ toDo'[s] = Binaries
        /\ dirty'[s] = unread'[s]
        /\ bins'[s] = IF cacheFile.state = "whole" THEN Restored ELSE NoEntries
        /\ readAs'[s] = IF cacheFile.state = "whole" THEN cacheFile.entries ELSE NoEntries
    BY DEF ReadCache, CalmOK, TypeOK
  <1>2. ASSUME NEW b \in Binaries
        PROVE  AsRead(s, b)' \/ NoEntry(s, b)'
    <2>1. CASE cacheFile.state # "whole"
      BY <1>1, <2>1 DEF NoEntry, NoEntries
    <2>2. CASE cacheFile.state = "whole" /\ cacheFile.entries[b] = None
      BY <1>1, <2>2 DEF NoEntry, Restored
    <2>3. CASE cacheFile.state = "whole" /\ cacheFile.entries[b] # None
      <3> DEFINE r == cacheFile.entries[b]
      <3>1. r \in SavedEntry
        BY <2>3 DEF TypeOK
      <3>2. /\ bins'[s][b] = Restored[b] /\ readAs'[s][b] = r
            /\ Restored[b] = [stamp |-> r.stamp, stat |-> Stated(b), plugins |-> r.plugins,
                              gen |-> "cached", failed |-> r.failed]
        BY <1>1, <2>3 DEF Restored, Stated
      <3>3. Restored[b] \in Entry \cup {None}
        BY RestoredType
      <3>4. Restored[b] # None
        <4>1. /\ r.stamp \in Int /\ r.plugins \in SUBSET Plugins /\ r.failed \in BOOLEAN
              /\ Stated(b) \in Int
          BY <3>1 DEF Stated, TypeOK
        <4> QED
          BY <3>2, <4>1, PluginAssumption
      <3>5. Saved(Restored[b]) = r
        BY <3>1, <3>2, <3>4 DEF Saved
      <3>6. Restored[b].gen = "cached" /\ Restored[b].stat = Stated(b) /\ Stated(b)' = Stated(b)
        BY <1>1, <3>2 DEF Stated
      <3> HIDE DEF r
      <3> QED
        BY <3>2, <3>4, <3>5, <3>6 DEF AsRead, Saved
    <2> QED
      BY <2>1, <2>2, <2>3
  <1>3. ASSUME NEW b \in Binaries
        PROVE  ScanOK(s, b)'
    BY <1>1 DEF ScanOK
  <1>4. (dirty'[s] => unread'[s]) /\ (unread'[s] => dirty'[s])
    BY <1>1
  <1> QED
    BY <1>1, <1>2, <1>3, <1>4 DEF CalmOK, Undisturbed, Scanning, Past, NoEntries

(* The entries, while only what has been visited or checked changes. *)
LEMMA EntriesStay ==
  ASSUME NEW s \in Sessions, NEW b \in Binaries, disk' = disk, bins'[s][b] = bins[s][b],
         readAs'[s] = readAs[s], dirty[s] => dirty'[s], Past(s) => Past(s)',
         AsRead(s, b) \/ AsLoaded(s, b) \/ NoEntry(s, b)
  PROVE  AsRead(s, b)' \/ AsLoaded(s, b)' \/ NoEntry(s, b)'
  BY DEF AsRead, AsLoaded, NoEntry, Stated, Loaded, Saved

LEMMA VisitCalm ==
  ASSUME TypeOK, NEW s \in Sessions, CalmOK(s), NEW x \in Binaries, Visit(s, x)
  PROVE  CalmOK(s)'
  <1>1. /\ pc[s] = "scan" /\ pc'[s] \in {"scan", "open"} /\ x \in toDo[s]
        /\ UNCHANGED <<disk, bins, dirty, readAs, unread, calm>>
        /\ toDo'[s] = toDo[s] \ {x}
    BY DEF Visit, TypeOK
  <1> SUFFICES ASSUME calm[s] PROVE Undisturbed(s)'
    BY <1>1 DEF CalmOK
  <1>2. Undisturbed(s)
    BY <1>1 DEF CalmOK
  <1>3. \/ disk[x].stamp = -1 /\ found'[s] = found[s] /\ pc'[s] = "scan"
        \/ /\ disk[x].stamp # -1 /\ found'[s] = found[s] \cup {x}
           /\ bins[s][x] # None /\ pc'[s] = "scan"
        \/ /\ disk[x].stamp # -1 /\ found'[s] = found[s] \cup {x}
           /\ bins[s][x] = None /\ pc'[s] = "open"
           /\ current'[s] = [bin |-> x, stat |-> disk[x].stamp]
    BY <1>1 DEF Visit, TypeOK, Known
  <1>4. ASSUME NEW b \in Binaries
        PROVE  ScanOK(s, b)'
    <2>1. ScanOK(s, b)
      BY <1>1, <1>2 DEF Undisturbed, Scanning
    <2> QED
      BY <1>1, <1>3, <2>1 DEF ScanOK
  <1>5. ASSUME NEW b \in Binaries
        PROVE  AsRead(s, b)' \/ AsLoaded(s, b)' \/ NoEntry(s, b)'
    BY <1>1, <1>2, EntriesStay DEF Undisturbed, Past
  <1>6. (dirty'[s] => unread'[s] \/ News(s)') /\ (unread'[s] => dirty'[s])
    BY <1>1, <1>2 DEF Undisturbed, News, Saved
  <1> QED
    BY <1>1, <1>4, <1>5, <1>6 DEF Undisturbed, Scanning, Past, NoEntries

LEMMA OpenNewCalm ==
  ASSUME TypeOK, NEW s \in Sessions, CalmOK(s), OpenNew(s)
  PROVE  CalmOK(s)'
  <1>1. /\ pc[s] = "open" /\ pc'[s] = "scan"
        /\ UNCHANGED <<disk, readAs, unread, found, toDo>>
    BY DEF OpenNew, TypeOK
  <1> SUFFICES ASSUME calm'[s] PROVE Undisturbed(s)'
    BY <1>1 DEF CalmOK
  <1>2. /\ calm[s] /\ dirty'[s] /\ current[s] # None
        /\ current[s].stat > 0 /\ disk[current[s].bin].stamp > 0
        /\ bins' = [bins EXCEPT ![s][current[s].bin] =
                      Loaded(current[s].bin, current[s].stat)]
    BY DEF OpenNew, TypeOK
  <1>3. Undisturbed(s) /\ current[s].bin \in Binaries /\ current[s].stat \in -1..MaxStamp
    BY <1>1, <1>2 DEF CalmOK, TypeOK
  <1> PICK x \in Binaries : x = current[s].bin
    BY <1>3
  <1>4. ScanOK(s, x) /\ (AsRead(s, x) \/ AsLoaded(s, x) \/ NoEntry(s, x))
    BY <1>1, <1>3 DEF Undisturbed, Scanning
  <1>5. /\ bins[s][x] = None /\ current[s].stat = disk[x].stamp
        /\ readAs[s][x] = None
    <2>1. bins[s][x] = None /\ current[s].stat = disk[x].stamp
      BY <1>1, <1>4 DEF ScanOK
    <2>2. ~AsLoaded(s, x)
      <3>1. Loaded(x, disk[x].stamp) \in Entry
        BY <1>3, <2>1, LoadedType
      <3> QED
        BY <2>1, <3>1, SavedKnown DEF AsLoaded
    <2> QED
      BY <1>1, <1>4, <2>1, <2>2 DEF AsRead, NoEntry, Past
  <1>6. PICK new \in Entry : new = Loaded(x, disk[x].stamp)
    BY <1>3, <1>5, LoadedType
  <1>7. /\ bins'[s][x] = new /\ new # None /\ Saved(new) # None
        /\ \A b \in Binaries \ {x} : bins'[s][b] = bins[s][b]
    <2>1. bins' = [bins EXCEPT ![s][x] = new]
      BY <1>2, <1>5, <1>6
    <2> QED
      BY <2>1, SavedKnown DEF TypeOK
  <1>8. AsLoaded(s, x)' /\ News(s)'
    <2>1. bins'[s][x] = Loaded(x, disk[x].stamp)'
      BY <1>1, <1>6, <1>7 DEF Loaded
    <2>2. readAs'[s][x] = None /\ disk'[x].stamp > 0
      BY <1>1, <1>2, <1>5
    <2>3. (Saved(bins[s][x]) # readAs[s][x])'
      BY <1>7, <2>2 DEF Saved
    <2> QED
      BY <1>2, <2>1, <2>2, <2>3 DEF AsLoaded, News
  <1>9. ASSUME NEW b \in Binaries
        PROVE  AsRead(s, b)' \/ AsLoaded(s, b)' \/ NoEntry(s, b)'
    <2>1. CASE b = x
      BY <1>8, <2>1
    <2>2. CASE b # x
      BY <1>1, <1>2, <1>3, <1>7, <2>2, EntriesStay DEF Undisturbed, Past
    <2> QED
      BY <2>1, <2>2
  <1>10. ASSUME NEW b \in Binaries
         PROVE  ScanOK(s, b)'
    <2>1. ScanOK(s, b)
      BY <1>1, <1>3 DEF Undisturbed, Scanning
    <2>2. b # x => ~(b \in found[s] /\ bins[s][b] = None)
      BY <2>1 DEF ScanOK
    <2> QED
      BY <1>1, <1>7, <2>1, <2>2 DEF ScanOK
  <1> QED
    BY <1>1, <1>2, <1>8, <1>9, <1>10 DEF Undisturbed, Scanning, Past

LEMMA ScannedCalm ==
  ASSUME TypeOK, NEW s \in Sessions, CalmOK(s), Scanned(s)
  PROVE  CalmOK(s)'
  <1>1. /\ pc[s] = "scan" /\ pc'[s] = "check" /\ toDo[s] = {} /\ toDo'[s] = Known(s)
        /\ UNCHANGED <<disk, bins, found, dirty, readAs, unread, calm>>
    BY DEF Scanned, TypeOK
  <1> SUFFICES ASSUME calm[s] PROVE Undisturbed(s)'
    BY <1>1 DEF CalmOK
  <1>2. Undisturbed(s)
    BY <1>1 DEF CalmOK
  <1>3. ASSUME NEW b \in Binaries
        PROVE  CheckOK(s, b)'
    <2>1. ScanOK(s, b)
      BY <1>1, <1>2 DEF Undisturbed, Scanning
    <2> QED
      BY <1>1, <2>1 DEF ScanOK, CheckOK, Known
  <1>4. ASSUME NEW b \in Binaries
        PROVE  AsRead(s, b)' \/ AsLoaded(s, b)' \/ NoEntry(s, b)'
    BY <1>1, <1>2, EntriesStay DEF Undisturbed, Past
  <1>5. (dirty'[s] => unread'[s] \/ News(s)') /\ (unread'[s] => dirty'[s])
    BY <1>1, <1>2 DEF Undisturbed, News, Saved
  <1> QED
    BY <1>1, <1>3, <1>4, <1>5 DEF Undisturbed, Scanning, NoEntries

(* A binary that was checked: the others keep what they had. *)
LEMMA CheckedOneCalm ==
  ASSUME TypeOK, NEW s \in Sessions, NEW x \in Binaries, Undisturbed(s),
         pc[s] = "check", pc'[s] = "check", disk' = disk, found' = found, readAs' = readAs,
         toDo'[s] = toDo[s] \ {x}, dirty[s] => dirty'[s], offered[s] \subseteq offered'[s],
         \A b \in Binaries \ {x} : bins'[s][b] = bins[s][b],
         AsRead(s, x)' \/ AsLoaded(s, x)' \/ NoEntry(s, x)',
         CheckOK(s, x)',
         (dirty'[s] => unread'[s] \/ News(s)') /\ (unread'[s] => dirty'[s])
  PROVE  Undisturbed(s)'
  <1>1. ASSUME NEW b \in Binaries
        PROVE  AsRead(s, b)' \/ AsLoaded(s, b)' \/ NoEntry(s, b)'
    <2>1. CASE b # x
      BY <2>1, EntriesStay DEF Undisturbed, Past
    <2> QED
      BY <2>1
  <1>2. ASSUME NEW b \in Binaries
        PROVE  CheckOK(s, b)'
    <2>1. CASE b # x
      <3>1. CheckOK(s, b) /\ bins'[s][b] = bins[s][b]
        BY <2>1 DEF Undisturbed, Past
      <3> QED
        BY <2>1, <3>1 DEF CheckOK, Pointers
    <2> QED
      BY <2>1
  <1> QED
    BY <1>1, <1>2 DEF Undisturbed, Scanning, NoEntries

(* What an entry of an undisturbed session says while it is checked. *)
LEMMA CheckedEntry ==
  ASSUME TypeOK, NEW s \in Sessions, Undisturbed(s), pc[s] = "check",
         NEW x \in Binaries, x \in toDo[s]
  PROVE  /\ bins[s][x] \in Entry
         /\ AsRead(s, x) \/ AsLoaded(s, x)
         /\ CheckOK(s, x)
  BY DEF Undisturbed, Past, NoEntry, TypeOK, Known

LEMMA CheckGoneCalm ==
  ASSUME TypeOK, NEW s \in Sessions, CalmOK(s), NEW x \in Binaries, CheckGone(s, x)
  PROVE  CalmOK(s)'
  <1>1. /\ pc[s] = "check" /\ x \in toDo[s] /\ x \notin found[s]
        /\ UNCHANGED <<disk, pc, found, offered, readAs, unread, calm>>
        /\ dirty'[s] /\ toDo'[s] = toDo[s] \ {x}
        /\ bins'[s][x] = None
        /\ \A b \in Binaries \ {x} : bins'[s][b] = bins[s][b]
    BY DEF CheckGone, TypeOK
  <1> SUFFICES ASSUME calm[s] PROVE Undisturbed(s)'
    BY <1>1 DEF CalmOK
  <1>2. Undisturbed(s)
    BY <1>1 DEF CalmOK
  <1>3. CheckOK(s, x) /\ (AsRead(s, x) \/ AsLoaded(s, x)) /\ bins[s][x] \in Entry
    BY <1>1, <1>2, CheckedEntry
  <1>4. AsRead(s, x) /\ readAs[s][x] # None
    <2>1. disk[x].stamp = -1
      BY <1>1, <1>3 DEF CheckOK
    <2> QED
      BY <1>3, <2>1, SavedKnown DEF AsLoaded, AsRead
  <1>5. News(s)'
    BY <1>1, <1>4 DEF News, Saved
  <1>6. NoEntry(s, x)' /\ CheckOK(s, x)'
    BY <1>1, <1>3 DEF NoEntry, CheckOK, Past
  <1> QED
    BY <1>1, <1>2, <1>5, <1>6, CheckedOneCalm

LEMMA CheckSameCalm ==
  ASSUME TypeOK, NEW s \in Sessions, CalmOK(s), NEW x \in Binaries, CheckSame(s, x)
  PROVE  CalmOK(s)'
  <1>1. /\ pc[s] = "check" /\ x \in toDo[s] /\ x \in found[s] /\ ~Changed(bins[s][x])
        /\ UNCHANGED <<disk, pc, found, bins, dirty, readAs, unread, calm>>
        /\ toDo'[s] = toDo[s] \ {x}
        /\ offered'[s] = offered[s] \cup Pointers(x, bins[s][x].gen, bins[s][x].plugins)
    BY DEF CheckSame, Offer, TypeOK
  <1> SUFFICES ASSUME calm[s] PROVE Undisturbed(s)'
    BY <1>1 DEF CalmOK
  <1>2. Undisturbed(s)
    BY <1>1 DEF CalmOK
  <1>3. CheckOK(s, x) /\ (AsRead(s, x) \/ AsLoaded(s, x))
    BY <1>1, <1>2, CheckedEntry
  <1>4. AsRead(s, x)' \/ AsLoaded(s, x)' \/ NoEntry(s, x)'
    BY <1>1, <1>2, EntriesStay DEF Undisturbed, Past
  <1>5. CheckOK(s, x)'
    BY <1>1, <1>3 DEF CheckOK, Changed, Pointers
  <1>6. (dirty'[s] => unread'[s] \/ News(s)') /\ (unread'[s] => dirty'[s])
    BY <1>1, <1>2 DEF Undisturbed, News, Saved
  <1> QED
    BY <1>1, <1>2, <1>4, <1>5, <1>6, CheckedOneCalm

LEMMA ReloadCalm ==
  ASSUME TypeOK, NEW s \in Sessions, CalmOK(s), NEW x \in Binaries, Reload(s, x)
  PROVE  CalmOK(s)'
  <1>1. /\ pc[s] = "check" /\ x \in toDo[s] /\ x \in found[s] /\ Changed(bins[s][x])
        /\ UNCHANGED <<disk, pc, found, readAs, unread>>
        /\ toDo'[s] = toDo[s] \ {x}
    BY DEF Reload, TypeOK
  <1> SUFFICES ASSUME calm'[s] PROVE Undisturbed(s)'
    BY <1>1 DEF CalmOK
  <1>2. ~ (calm' = [calm EXCEPT ![s] = FALSE])
    BY DEF TypeOK
  <1>3. PICK D \in SUBSET disk[x].plugins :
          /\ bins[s][x].stat > 0 /\ disk[x].stamp > 0
          /\ bins' = [bins EXCEPT ![s][x] = Loaded(x, bins[s][x].stat)]
          /\ dirty' = [dirty EXCEPT ![s] = TRUE]
          /\ Offer(s, Pointers(x, "loaded", D))
          /\ calm' = [calm EXCEPT ![s] = @ /\ D = disk[x].plugins]
    BY <1>2 DEF Reload
  <1>4. calm[s] /\ D = disk[x].plugins
    BY <1>3 DEF TypeOK
  <1>5. Undisturbed(s)
    BY <1>1, <1>4 DEF CalmOK
  <1>6. CheckOK(s, x) /\ (AsRead(s, x) \/ AsLoaded(s, x)) /\ bins[s][x] \in Entry
    BY <1>1, <1>5, CheckedEntry
  <1>7. AsRead(s, x) /\ bins[s][x].stat = disk[x].stamp
    <2>1. ~AsLoaded(s, x)
      BY <1>1 DEF AsLoaded, Loaded, Changed
    <2> QED
      BY <1>3, <1>6, <2>1 DEF AsRead, Stated
  <1>8. PICK new \in Entry : /\ new = Loaded(x, disk[x].stamp)
                             /\ new.stamp = disk[x].stamp /\ new.stat = disk[x].stamp
                             /\ new.gen = "loaded" /\ new.plugins = disk[x].plugins
    <2>1. Loaded(x, disk[x].stamp) \in Entry
      BY LoadedType DEF TypeOK
    <2> QED
      BY <2>1 DEF Loaded
  <1>9. /\ bins'[s][x] = new
        /\ \A b \in Binaries \ {x} : bins'[s][b] = bins[s][b]
        /\ dirty'[s]
        /\ offered'[s] = offered[s] \cup Pointers(x, "loaded", disk[x].plugins)
    <2>1. bins' = [bins EXCEPT ![s][x] = new]
      BY <1>3, <1>7, <1>8
    <2>2. dirty'[s] /\ offered'[s] = offered[s] \cup Pointers(x, "loaded", D)
      BY <1>3 DEF Offer, TypeOK
    <2> QED
      BY <1>4, <2>1, <2>2 DEF TypeOK
  <1>10. Saved(new) # readAs[s][x]
    <2>1. Saved(new).stamp = disk[x].stamp
      BY <1>8, SavedKnown
    <2>2. readAs[s][x].stamp = bins[s][x].stamp
      BY <1>6, <1>7, SavedKnown DEF AsRead
    <2> QED
      BY <1>1, <1>7, <2>1, <2>2 DEF Changed
  <1>11. AsLoaded(s, x)'
    <2>1. bins'[s][x] = Loaded(x, disk[x].stamp)'
      BY <1>1, <1>8, <1>9 DEF Loaded
    <2>2. Saved(bins[s][x])' # readAs'[s][x]
      BY <1>1, <1>9, <1>10 DEF Saved
    <2> QED
      BY <1>1, <1>3, <1>9, <2>1, <2>2 DEF AsLoaded
  <1>12. CheckOK(s, x)'
    BY <1>1, <1>6, <1>8, <1>9, SavedKnown DEF CheckOK, Pointers
  <1>13. News(s)'
    BY <1>11 DEF News, AsLoaded
  <1> QED
    BY <1>1, <1>5, <1>9, <1>11, <1>12, <1>13, CheckedOneCalm

(* The steps that write the cache file. *)
LEMMA LateCalm ==
  ASSUME TypeOK, NEW s \in Sessions, CalmOK(s),
         Checked(s) \/ WriteTemporary(s) \/ Rename(s)
  PROVE  CalmOK(s)'
  <1>1. /\ pc[s] \in {"check", "write", "rename"} /\ pc'[s] \in {"write", "rename", "ready"}
        /\ pc[s] = "check" => toDo[s] = {}
        /\ UNCHANGED <<disk, bins, toDo, found, offered, dirty, readAs, unread>>
        /\ calm'[s] => calm[s]
    BY DEF Checked, WriteTemporary, Rename, TypeOK
  <1> SUFFICES ASSUME calm[s] PROVE Undisturbed(s)'
    BY <1>1 DEF CalmOK
  <1>2. Undisturbed(s)
    BY <1>1 DEF CalmOK
  <1>3. ASSUME NEW b \in Binaries
        PROVE  CheckOK(s, b)'
    <2>1. CheckOK(s, b)
      BY <1>1, <1>2 DEF Undisturbed, Past
    <2> QED
      BY <1>1, <2>1 DEF CheckOK, Pointers
  <1>4. ASSUME NEW b \in Binaries
        PROVE  AsRead(s, b)' \/ AsLoaded(s, b)' \/ NoEntry(s, b)'
    BY <1>1, <1>2, EntriesStay DEF Undisturbed, Past
  <1>5. (dirty'[s] => unread'[s] \/ News(s)') /\ (unread'[s] => dirty'[s])
    BY <1>1, <1>2 DEF Undisturbed, News, Saved
  <1> QED
    BY <1>1, <1>3, <1>4, <1>5 DEF Undisturbed, Scanning, NoEntries

LEMMA StepCalm ==
  ASSUME TypeOK, \A s \in Sessions : CalmOK(s), [Next]_vars
  PROVE  \A s \in Sessions : CalmOK(s)'
  <1>1. CASE UNCHANGED vars
    <2>1. ASSUME NEW t \in Sessions
          PROVE  disk' = disk /\ Same(t)
      BY <1>1 DEF vars, Same
    <2> QED
      BY <2>1, OthersCalm
  <1>2. CASE \E x \in Binaries : Install(x)
    <2>1. UNCHANGED <<pc, found>> /\ \A t \in Sessions : ~calm'[t]
      BY <1>2 DEF Install
    <2> QED
      BY <2>1 DEF CalmOK
  <1>3. ASSUME NEW s \in Sessions,
               \/ ReadCache(s) \/ OpenNew(s) \/ Scanned(s) \/ Checked(s)
               \/ WriteTemporary(s) \/ Rename(s) \/ Stop(s)
               \/ \E b \in Binaries : Visit(s, b) \/ CheckGone(s, b) \/ CheckSame(s, b)
                                      \/ Reload(s, b)
        PROVE  \A t \in Sessions : CalmOK(t)'
    <2>1. \A t \in Sessions \ {s} : CalmOK(t)'
      BY <1>3, OneSessionMoves, OthersCalm
    <2>2. CASE Stop(s)
      <3>1. pc'[s] = "off" /\ found'[s] = {}
        BY <2>2 DEF Stop, TypeOK
      <3> QED
        BY <2>1, <3>1 DEF CalmOK
    <2>3. CASE ReadCache(s) \/ OpenNew(s) \/ Scanned(s)
      BY <2>1, <2>3, ReadCacheCalm, OpenNewCalm, ScannedCalm
    <2>4. CASE Checked(s) \/ WriteTemporary(s) \/ Rename(s)
      BY <2>1, <2>4, LateCalm
    <2>5. CASE \E b \in Binaries : Visit(s, b) \/ CheckGone(s, b) \/ CheckSame(s, b) \/ Reload(s, b)
      BY <2>1, <2>5, VisitCalm, CheckGoneCalm, CheckSameCalm, ReloadCalm
    <2> QED
      BY <1>3, <2>2, <2>3, <2>4, <2>5
  <1> QED
    BY <1>1, <1>2, <1>3 DEF Next

LEMMA InitCalm ==
  ASSUME Init
  PROVE  \A s \in Sessions : CalmOK(s)
  BY DEF Init, CalmOK

(* An undisturbed session is ready with what the disk has, and has noticed it. *)
LEMMA ReadyIsFresh ==
  ASSUME TruthInv, OfferInv, StampsInv, NEW s \in Sessions, Undisturbed(s), pc[s] = "ready",
         \A b \in Binaries : readAs[s][b] # None => ~readAs[s][b].failed,
         NEW b \in Binaries
  PROVE  \A p : (\E x \in offered[s] : x.bin = b /\ x.plugin = p) <=> p \in disk[b].plugins
  <1>1. /\ AsRead(s, b) \/ AsLoaded(s, b) \/ NoEntry(s, b)
        /\ CheckOK(s, b)
    BY DEF Undisturbed, Past
  <1>2. \A x \in offered[s] : Alive(s, x)
    BY DEF OfferInv, OfferOK
  <1>3. CASE bins[s][b] = None
    <2>1. disk[b].plugins = {}
      BY <1>1, <1>3 DEF CheckOK, StampsInv
    <2> QED
      BY <1>2, <1>3, <2>1 DEF Alive
  <1>4. CASE bins[s][b] # None
    <2> DEFINE e == bins[s][b]
    <2>1. /\ e \in Entry /\ e.stamp = e.stat
          /\ Pointers(b, e.gen, e.plugins) \subseteq offered[s]
      BY <1>1, <1>4 DEF CheckOK, TruthInv, TypeOK
    <2>2. e.plugins = disk[b].plugins
      <3>1. CASE AsLoaded(s, b)
        BY <3>1 DEF AsLoaded, Loaded
      <3>2. CASE AsRead(s, b)
        <4>1. readAs[s][b] # None /\ readAs[s][b].failed = e.failed
          BY <2>1, <3>2, SavedKnown DEF AsRead, Saved
        <4>2. ~e.failed /\ e.stamp > 0
          BY <1>4, <4>1 DEF StampsInv, Stamped
        <4>3. disk[b].stamp > 0 /\ e.stamp = disk[b].stamp
          BY <2>1, <3>2, <4>2 DEF AsRead, Stated
        <4> QED
          BY <1>4, <4>2, <4>3 DEF TruthInv, Kept, PastAndTrue, Truthful
      <3> QED
        BY <1>1, <1>4, <3>1, <3>2 DEF NoEntry
    <2>3. ASSUME NEW p \in e.plugins
          PROVE  \E x \in offered[s] : x.bin = b /\ x.plugin = p
      <3>1. [bin |-> b, gen |-> e.gen, plugin |-> p] \in Pointers(b, e.gen, e.plugins)
        BY <2>3 DEF Pointers
      <3> QED
        BY <2>1, <3>1
    <2>4. ASSUME NEW x \in offered[s], x.bin = b
          PROVE  x.plugin \in e.plugins
      BY <1>2, <2>4 DEF Alive
    <2> HIDE DEF e
    <2> QED
      BY <2>2, <2>3, <2>4
  <1> QED
    BY <1>3, <1>4

(* For any sessions, plugins and histories of the cache file: a session that nothing has
   disturbed offers what the files on the disk export. *)
THEOREM CachedIsFresh == Spec => []CachedLikeFresh
  <1> DEFINE IInv == TruthInv /\ OfferInv /\ StampsInv /\ \A s \in Sessions : CalmOK(s)
  <1>1. Init => IInv
    BY InitTruth, InitOffers, InitStamps, InitCalm
  <1>2. IInv /\ [Next]_vars => IInv'
    BY StepTruth, StepOffers, StepStamps, StepCalm DEF TruthInv
  <1>3. IInv => CachedLikeFresh
    <2> SUFFICES ASSUME IInv, NEW s \in Sessions, pc[s] = "ready", calm[s],
                        \A b \in Binaries : readAs[s][b] # None => ~readAs[s][b].failed
                 PROVE  {<<x.bin, x.plugin>> : x \in offered[s]}
                          = UNION {{b} \X disk[b].plugins : b \in Binaries}
      BY DEF CachedLikeFresh
    <2>1. Undisturbed(s)
      BY DEF CalmOK
    <2>2. \A b \in Binaries : \A p :
            (\E x \in offered[s] : x.bin = b /\ x.plugin = p) <=> p \in disk[b].plugins
      BY <2>1, ReadyIsFresh
    <2>3. \A x \in offered[s] : x.bin \in Binaries
      BY DEF TruthInv, TypeOK
    <2> QED
      BY <2>2, <2>3
  <1> QED
    BY <1>1, <1>2, <1>3, PTL DEF Spec

(* For any sessions: an undisturbed one writes the cache file exactly when it differs
   from what it has read. *)
THEOREM NewsAreWritten == Spec => []DirtyIsNews
  <1> DEFINE IInv == TypeOK /\ \A s \in Sessions : CalmOK(s)
  <1>1. Init => IInv
    BY InitTypes, InitCalm
  <1>2. IInv /\ [Next]_vars => IInv'
    BY StepTypes, StepCalm
  <1>3. IInv => DirtyIsNews
    <2> SUFFICES ASSUME IInv, NEW s \in Sessions, pc[s] = "ready", calm[s]
                 PROVE  LET known == [b \in Binaries |-> Saved(bins[s][b])]
                        IN dirty[s] <=> (known # readAs[s] \/ unread[s])
      BY DEF DirtyIsNews
    <2>1. Undisturbed(s) /\ readAs[s] \in [Binaries -> SavedEntry \cup {None}]
      BY DEF CalmOK, TypeOK
    <2>2. ASSUME ~dirty[s], NEW b \in Binaries
          PROVE  Saved(bins[s][b]) = readAs[s][b]
      BY <2>1, <2>2 DEF Undisturbed, AsRead, AsLoaded, NoEntry, Saved
    <2>3. /\ dirty[s] => unread[s] \/ News(s)
          /\ unread[s] => dirty[s]
      BY <2>1 DEF Undisturbed
    <2>4. [b \in Binaries |-> Saved(bins[s][b])] = readAs[s] <=> ~News(s)
      BY <2>1 DEF News
    <2>5. ~dirty[s] => ~News(s)
      BY <2>2 DEF News
    <2> QED
      BY <2>3, <2>4, <2>5
  <1> QED
    BY <1>1, <1>2, <1>3, PTL DEF Spec

=============================================================================
