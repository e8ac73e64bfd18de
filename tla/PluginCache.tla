----------------------------- MODULE PluginCache -----------------------------
(***************************************************************************)
(* The list of plugins of a program: Core::preload, the scan of the plugin *)
(* directories (OfxhPluginCache, OfxhPluginBinary, OfxhBinary), the        *)
(* plugins offered by identifier (OfxhImageEffectPluginCache), and the     *)
(* file that keeps what was found from one program to the next.            *)
(*                                                                         *)
(* A session is one run of a program.  Any number of them run at a time,   *)
(* each may stop or crash between two steps, and the plugin files are      *)
(* installed, replaced and removed under them.                             *)
(*                                                                         *)
(* Abstracted: a bundle directory is an element of Binaries, a plugin a    *)
(* record of its identifier and version, and what it says of itself is     *)
(* described or not. A program that asks for no cache file shares nothing  *)
(* with the others and is left out. The time and the size of a file are    *)
(* one stamp, which changes whenever its content does.                     *)
(***************************************************************************)
EXTENDS Integers, FiniteSets

CONSTANTS
  Sessions,   \* runs of programs that share the cache file
  Binaries,   \* the .ofx.bundle directories that may be on the search path
  Plugins,    \* [id, major, minor], what a library may export
  Contents,   \* the sets of plugins a plugin file may export
  None,       \* no entry, no plugin
  MaxStamp    \* bound of the model: installations

ASSUME PluginAssumption ==
  /\ Contents \subseteq SUBSET Plugins
  /\ MaxStamp \in Nat \ {0}
  /\ None \notin [stamp : Int, stat : Int, plugins : SUBSET Plugins,
                  gen : {"cached", "loaded"}, failed : BOOLEAN]
  /\ None \notin [stamp : Int, plugins : SUBSET Plugins, failed : BOOLEAN]
  /\ None \notin [bin : Binaries, gen : {"cached", "loaded"}, plugin : Plugins]
  /\ None \notin [bin : Binaries, stat : Int]
  /\ \A p \in Plugins : p.major \in Int /\ p.minor \in Int

VARIABLES
  disk,       \* the file of each bundle
  clock,      \* the last stamp given
  cacheFile,  \* tuttlePluginCacheSerialize.xml: absent, unreadable or whole; its entries
  pc,         \* where each session is in preload
  bins,       \* _binaries, with _knownBinFiles as the binaries that have an entry
  toDo,       \* the bundles that readdir, or the loop over _binaries, has to visit
  found,      \* foundBinFiles
  current,    \* the binary whose file is being opened, with the stamp seen by stat
  offered,    \* the _plugins of the effect cache
  byId,       \* its _pluginsByID
  listed,     \* the _plugins of OfxhPluginCache
  dirty,      \* _dirty
  tmp,        \* the temporary file, once written
  readAs,     \* history: the entries the session has read
  unread,     \* history: the session could not read the cache file that is there
  calm        \* history: no change of the disk, no failure since it began

vars == <<disk, clock, cacheFile, pc, bins, toDo, found, current,
          offered, byId, listed, dirty, tmp, readAs, unread, calm>>

-----------------------------------------------------------------------------
(* Files and entries. *)

\* No bundle; a bundle whose binary is missing: stat fails and leaves the zeros
\* of the constructor of OfxhBinary.
NoBundle == [stamp |-> -1, plugins |-> {}]
NoBinary == [stamp |-> 0, plugins |-> {}]
File == [stamp : -1..MaxStamp, plugins : SUBSET Plugins]

\* A plugin file, as a session keeps it: the stamp saved with it, the one seen by
\* stat, its plugins, whether they were read from the cache file or from the
\* library; failed is history: the last attempt to reload it threw.
Entry == [stamp : -1..MaxStamp, stat : -1..MaxStamp, plugins : SUBSET Plugins,
          gen : {"cached", "loaded"}, failed : BOOLEAN]
NoEntries == [b \in Binaries |-> None]
Known(s) == {b \in Binaries : bins[s][b] # None}

\* What is written of an entry.
Saved(e) == IF e = None THEN None
            ELSE [stamp |-> e.stamp, plugins |-> e.plugins, failed |-> e.failed]
FileStates == {"absent", "broken", "whole"}
SavedEntry == [stamp : -1..MaxStamp, plugins : SUBSET Plugins, failed : BOOLEAN]

\* A pointer to a plugin of an entry, and whether it still points to one.
Pointer == [bin : Binaries, gen : {"cached", "loaded"}, plugin : Plugins]
Alive(s, x) == /\ bins[s][x.bin] # None
               /\ bins[s][x.bin].gen = x.gen
               /\ x.plugin \in bins[s][x.bin].plugins
Pointers(b, g, P) == [bin : {b}, gen : {g}, plugin : P]

\* hasBinaryChanged.
ChangedIfNewer(e) == e.stat > e.stamp  \* mutant: only a newer file has changed

Changed(e) == e.stamp # e.stat

\* OfxhPlugin::trumps.
TrumpsByMinor(p, q) ==  \* mutant: a higher major does not count
  p.major >= q.major /\ p.minor > q.minor

Trumps(p, q) == \/ p.major > q.major
                \/ p.major = q.major /\ p.minor > q.minor

Ids == {p.id : p \in Plugins}

\* confirmPlugin for the plugins of one binary, in any order: the table by
\* identifier keeps a plugin unless the new one is of a higher version.
Confirmed(table, X) ==
  {t \in [Ids -> Pointer \cup {None}] :
     \A i \in Ids :
       LET mine == {x \in X : x.plugin.id = i}
           best == {x \in mine : \A y \in mine : ~Trumps(y.plugin, x.plugin)}
       IN IF mine = {} THEN t[i] = table[i]
          ELSE IF table[i] = None THEN t[i] \in best
          ELSE \E x \in best : t[i] = IF Trumps(x.plugin, table[i].plugin) THEN x
                                      ELSE table[i]}

TypeOK ==
  /\ disk \in [Binaries -> File]
  /\ clock \in 0..MaxStamp
  /\ cacheFile \in [state : FileStates, entries : [Binaries -> SavedEntry \cup {None}]]
  /\ pc \in [Sessions -> {"off", "scan", "open", "check", "write", "rename",
                          "ready"}]
  /\ bins \in [Sessions -> [Binaries -> Entry \cup {None}]]
  /\ toDo \in [Sessions -> SUBSET Binaries]
  /\ found \in [Sessions -> SUBSET Binaries]
  /\ current \in [Sessions -> [bin : Binaries, stat : -1..MaxStamp] \cup {None}]
  /\ offered \in [Sessions -> SUBSET Pointer]
  /\ byId \in [Sessions -> [Ids -> Pointer \cup {None}]]
  /\ listed \in [Sessions -> SUBSET Pointer]
  /\ dirty \in [Sessions -> BOOLEAN]
  /\ tmp \in [Sessions -> [Binaries -> SavedEntry \cup {None}]]
  /\ readAs \in [Sessions -> [Binaries -> SavedEntry \cup {None}]]
  /\ unread \in [Sessions -> BOOLEAN]
  /\ calm \in [Sessions -> BOOLEAN]
  /\ \A s \in Sessions : /\ pc[s] = "open" <=> current[s] # None
                         /\ pc[s] = "check" => toDo[s] \subseteq Known(s)

-----------------------------------------------------------------------------
(* Any files on the disk, and a cache file that is absent or cannot be read. *)
Init ==
  /\ \E c \in [Binaries -> Contents \cup {None}] :
       disk = [b \in Binaries |-> IF c[b] = None THEN NoBundle
                                  ELSE [stamp |-> 1, plugins |-> c[b]]]
  /\ clock = 1
  /\ cacheFile \in [state : FileStates, entries : {NoEntries}]
  /\ pc = [s \in Sessions |-> "off"]
  /\ bins = [s \in Sessions |-> NoEntries]
  /\ toDo = [s \in Sessions |-> {}]
  /\ found = [s \in Sessions |-> {}]
  /\ current = [s \in Sessions |-> None]
  /\ offered = [s \in Sessions |-> {}]
  /\ byId = [s \in Sessions |-> [i \in Ids |-> None]]
  /\ listed = [s \in Sessions |-> {}]
  /\ dirty = [s \in Sessions |-> FALSE]
  /\ tmp = [s \in Sessions |-> NoEntries]
  /\ readAs = [s \in Sessions |-> NoEntries]
  /\ unread = [s \in Sessions |-> FALSE]
  /\ calm = [s \in Sessions |-> FALSE]

(* Somebody installs a plugin file, removes its binary, or removes the bundle. *)
Install(b) ==
  /\ clock < MaxStamp
  /\ \/ \E c \in Contents :
          disk' = [disk EXCEPT ![b] = [stamp |-> clock + 1, plugins |-> c]]
     \/ disk' = [disk EXCEPT ![b] = NoBinary]
     \/ disk' = [disk EXCEPT ![b] = NoBundle]
  /\ clock' = clock + 1
  /\ calm' = [s \in Sessions |-> FALSE]
  /\ UNCHANGED <<cacheFile, pc, bins, toDo, found, current, offered, byId,
                 listed, dirty, tmp, readAs, unread>>

-----------------------------------------------------------------------------
(* preload. *)

\* The entries of the cache file as serialize restores them: each file is stated.
RestoredFresh == [b \in Binaries |->  \* mutant: the saved stamp is not restored
               IF cacheFile.entries[b] = None THEN None
               ELSE [stamp |-> IF disk[b].stamp > 0 THEN disk[b].stamp ELSE 0,
                     stat |-> IF disk[b].stamp > 0 THEN disk[b].stamp ELSE 0,
                     plugins |-> cacheFile.entries[b].plugins,
                     gen |-> "cached",
                     failed |-> cacheFile.entries[b].failed]]

Restored == [b \in Binaries |->
               IF cacheFile.entries[b] = None THEN None
               ELSE [stamp |-> cacheFile.entries[b].stamp,
                     stat |-> IF disk[b].stamp > 0 THEN disk[b].stamp ELSE 0,
                     plugins |-> cacheFile.entries[b].plugins,
                     gen |-> "cached",
                     failed |-> cacheFile.entries[b].failed]]

(* A program starts and calls preload.  The cache file is read if there is one; when it
   cannot be read, clearPluginFiles forgets everything and asks for it to be written.
   When there is none, nothing is asked. *)
ReadCache(s) ==
  /\ pc[s] = "off"
  /\ LET use == cacheFile.state = "whole"
         got == IF use THEN Restored ELSE NoEntries
     IN /\ bins' = [bins EXCEPT ![s] = got]
        /\ listed' = [listed EXCEPT ![s] =
             UNION {Pointers(b, "cached", got[b].plugins) :
                      b \in {x \in Binaries : got[x] # None}}]
        /\ readAs' = [readAs EXCEPT ![s] = IF use THEN cacheFile.entries ELSE NoEntries]
  /\ unread' = [unread EXCEPT ![s] = (cacheFile.state = "broken")]
  /\ dirty' = [dirty EXCEPT ![s] = (cacheFile.state = "broken")]
  /\ calm' = [calm EXCEPT ![s] = TRUE]
  /\ toDo' = [toDo EXCEPT ![s] = Binaries]
  /\ pc' = [pc EXCEPT ![s] = "scan"]
  /\ UNCHANGED <<disk, clock, cacheFile, found, current, offered, byId, tmp>>

(* scanDirectory meets one entry of a directory.  A bundle that is not known is
   opened: first the constructor of OfxhBinary states the file. *)
Visit(s, b) ==
  /\ pc[s] = "scan" /\ b \in toDo[s]
  /\ toDo' = [toDo EXCEPT ![s] = @ \ {b}]
  /\ IF disk[b].stamp = -1
     THEN UNCHANGED <<pc, found, current>>
     ELSE /\ found' = [found EXCEPT ![s] = @ \cup {b}]
          /\ IF b \in Known(s)
             THEN UNCHANGED <<pc, current>>
             ELSE /\ current' = [current EXCEPT
                                   ![s] = [bin |-> b, stat |-> disk[b].stamp]]
                  /\ pc' = [pc EXCEPT ![s] = "open"]
  /\ UNCHANGED <<disk, clock, cacheFile, bins, offered, byId, listed, dirty,
                 tmp, readAs, unread, calm>>

\* The entry loadPluginInfo makes of a file that opens.
Loaded(b, stat) == [stamp |-> stat, stat |-> stat, plugins |-> disk[b].plugins,
                    gen |-> "loaded", failed |-> FALSE]

(* Then loadPluginInfo opens the library.  If this throws, as it does whenever stat has
   found no file (_invalid), the binary is not declared; otherwise it is, and load and
   describe are called on each of its plugins.  Those that fail are not told apart: they
   stay in the list and are offered by the loop over the binaries. *)
OpenNew(s) ==
  /\ pc[s] = "open"
  /\ pc' = [pc EXCEPT ![s] = "scan"]
  /\ current' = [current EXCEPT ![s] = None]
  /\ LET b == current[s].bin
     IN \/ /\ current[s].stat > 0 /\ disk[b].stamp > 0
           /\ bins' = [bins EXCEPT ![s][b] = Loaded(b, current[s].stat)]
           /\ dirty' = [dirty EXCEPT ![s] = TRUE]
           /\ UNCHANGED calm
        \/ /\ calm' = [calm EXCEPT ![s] = FALSE]
           /\ UNCHANGED <<bins, dirty>>
  /\ UNCHANGED <<disk, clock, cacheFile, toDo, found, offered, byId, listed,
                 tmp, readAs, unread>>

(* The directories have been read; the loop over _binaries starts. *)
ScannedFound(s) ==  \* mutant: every bundle found is taken for a known binary
  /\ pc[s] = "scan" /\ toDo[s] = {}
  /\ toDo' = [toDo EXCEPT ![s] = found[s]]
  /\ pc' = [pc EXCEPT ![s] = "check"]
  /\ UNCHANGED <<disk, clock, cacheFile, bins, found, current, offered, byId,
                 listed, dirty, tmp, readAs, unread, calm>>

Scanned(s) ==
  /\ pc[s] = "scan" /\ toDo[s] = {}
  /\ toDo' = [toDo EXCEPT ![s] = Known(s)]
  /\ pc' = [pc EXCEPT ![s] = "check"]
  /\ UNCHANGED <<disk, clock, cacheFile, bins, found, current, offered, byId,
                 listed, dirty, tmp, readAs, unread, calm>>

\* addPlugin and confirmPlugin for plugins of a binary.
Offer(s, X) ==
  /\ offered' = [offered EXCEPT ![s] = @ \cup X]
  /\ listed' = [listed EXCEPT ![s] = @ \cup X]
  /\ \E t \in Confirmed(byId[s], X) : byId' = [byId EXCEPT ![s] = t]

(* A binary of the list that is no longer on the path is erased with its plugins. *)
CheckGoneQuiet(s, b) ==  \* mutant: setDirty is forgotten
  /\ pc[s] = "check" /\ b \in toDo[s] /\ b \notin found[s]
  /\ bins' = [bins EXCEPT ![s][b] = None]
  /\ toDo' = [toDo EXCEPT ![s] = @ \ {b}]
  /\ UNCHANGED <<disk, clock, cacheFile, pc, found, current, offered, byId,
                 listed, dirty, tmp, readAs, unread, calm>>

CheckGone(s, b) ==
  /\ pc[s] = "check" /\ b \in toDo[s] /\ b \notin found[s]
  /\ bins' = [bins EXCEPT ![s][b] = None]
  /\ dirty' = [dirty EXCEPT ![s] = TRUE]
  /\ toDo' = [toDo EXCEPT ![s] = @ \ {b}]
  /\ UNCHANGED <<disk, clock, cacheFile, pc, found, current, offered, byId,
                 listed, tmp, readAs, unread, calm>>

(* One whose file has not changed: all its plugins are offered. *)
CheckSame(s, b) ==
  /\ pc[s] = "check" /\ b \in toDo[s] /\ b \in found[s] /\ ~Changed(bins[s][b])
  /\ Offer(s, Pointers(b, bins[s][b].gen, bins[s][b].plugins))
  /\ toDo' = [toDo EXCEPT ![s] = @ \ {b}]
  /\ UNCHANGED <<disk, clock, cacheFile, pc, bins, found, current, dirty, tmp,
                 readAs, unread, calm>>

(* One whose file has changed is loaded again; the plugins whose load and describe
   succeed (any of them) are offered.  loadPluginInfo stamps the entry before it opens
   the file.  When opening throws (always, for an entry whose file was missing when it
   was restored), or when the library has none of the symbols, the old plugins stay in
   the list; when making a plugin throws, those made before it replace the old ones.
   Each time none is offered, and only without the symbols is the cache dirty. *)
Reload(s, b) ==
  /\ pc[s] = "check" /\ b \in toDo[s] /\ b \in found[s] /\ Changed(bins[s][b])
  /\ \/ /\ bins[s][b].stat > 0 /\ disk[b].stamp > 0
        /\ bins' = [bins EXCEPT ![s][b] = Loaded(b, bins[s][b].stat)]
        /\ dirty' = [dirty EXCEPT ![s] = TRUE]
        /\ \E D \in SUBSET disk[b].plugins :
             /\ Offer(s, Pointers(b, "loaded", D))
             /\ calm' = [calm EXCEPT ![s] = @ /\ D = disk[b].plugins]
     \/ /\ \/ /\ bins' = [bins EXCEPT ![s][b].stamp = bins[s][b].stat, ![s][b].failed = TRUE]
              /\ \E d \in {dirty[s], TRUE} : dirty' = [dirty EXCEPT ![s] = d]
           \/ /\ bins[s][b].stat > 0 /\ disk[b].stamp > 0
              /\ \E D \in SUBSET disk[b].plugins :
                   /\ D # disk[b].plugins
                   /\ bins' = [bins EXCEPT ![s][b] = [Loaded(b, bins[s][b].stat) EXCEPT
                                                        !.plugins = D, !.failed = TRUE]]
              /\ UNCHANGED dirty
        /\ calm' = [calm EXCEPT ![s] = FALSE]
        /\ UNCHANGED <<offered, byId, listed>>
  /\ toDo' = [toDo EXCEPT ![s] = @ \ {b}]
  /\ UNCHANGED <<disk, clock, cacheFile, pc, found, current, tmp, readAs, unread>>

(* The plugins are known; the cache file is written when it is out of date. *)
Checked(s) ==
  /\ pc[s] = "check" /\ toDo[s] = {}
  /\ pc' = [pc EXCEPT ![s] = IF dirty[s] THEN "write" ELSE "ready"]
  /\ UNCHANGED <<disk, clock, cacheFile, bins, toDo, found, current, offered,
                 byId, listed, dirty, tmp, readAs, unread, calm>>

(* The entries are written to a file of a unique name; a failure gives it up. *)
WriteTemporary(s) ==
  /\ pc[s] = "write"
  /\ \/ /\ tmp' = [tmp EXCEPT ![s] = [b \in Binaries |-> Saved(bins[s][b])]]
        /\ pc' = [pc EXCEPT ![s] = "rename"]
        /\ UNCHANGED calm
     \/ /\ pc' = [pc EXCEPT ![s] = "ready"]
        /\ calm' = [calm EXCEPT ![s] = FALSE]
        /\ UNCHANGED tmp
  /\ UNCHANGED <<disk, clock, cacheFile, bins, toDo, found, current, offered,
                 byId, listed, dirty, readAs, unread>>

(* It replaces the cache file in one step; rename may fail as well. *)
Rename(s) ==
  /\ pc[s] = "rename"
  /\ \/ /\ cacheFile' = [state |-> "whole", entries |-> tmp[s]]
        /\ UNCHANGED calm
     \/ /\ calm' = [calm EXCEPT ![s] = FALSE]
        /\ UNCHANGED cacheFile
  /\ tmp' = [tmp EXCEPT ![s] = NoEntries]
  /\ pc' = [pc EXCEPT ![s] = "ready"]
  /\ UNCHANGED <<disk, clock, bins, toDo, found, current, offered, byId, listed,
                 dirty, readAs, unread>>

(* The program ends, or crashes at any point.  A temporary file that stays is read by
   nobody. *)
Stop(s) ==
  /\ pc[s] # "off"
  /\ pc' = [pc EXCEPT ![s] = "off"]
  /\ bins' = [bins EXCEPT ![s] = NoEntries]
  /\ toDo' = [toDo EXCEPT ![s] = {}]
  /\ found' = [found EXCEPT ![s] = {}]
  /\ current' = [current EXCEPT ![s] = None]
  /\ offered' = [offered EXCEPT ![s] = {}]
  /\ byId' = [byId EXCEPT ![s] = [i \in Ids |-> None]]
  /\ listed' = [listed EXCEPT ![s] = {}]
  /\ dirty' = [dirty EXCEPT ![s] = FALSE]
  /\ tmp' = [tmp EXCEPT ![s] = NoEntries]
  /\ readAs' = [readAs EXCEPT ![s] = NoEntries]
  /\ unread' = [unread EXCEPT ![s] = FALSE]
  /\ calm' = [calm EXCEPT ![s] = FALSE]
  /\ UNCHANGED <<disk, clock, cacheFile>>

Next ==
  \/ \E b \in Binaries : Install(b)
  \/ \E s \in Sessions :
       \/ ReadCache(s) \/ OpenNew(s) \/ Scanned(s)
       \/ \E b \in Binaries : Visit(s, b) \/ CheckGone(s, b) \/ CheckSame(s, b)
                              \/ Reload(s, b)
       \/ Checked(s) \/ WriteTemporary(s) \/ Rename(s) \/ Stop(s)

Spec == Init /\ [][Next]_vars

-----------------------------------------------------------------------------
(* Properties. *)

\* An entry that claims to be of the file as it is has the plugins of that file.
Truthful(e, b) ==
  (e # None /\ ~e.failed /\ disk[b].stamp > 0 /\ e.stamp = disk[b].stamp)
     => e.plugins = disk[b].plugins

(* Whatever sessions run, crash and overlap with installations, an entry of a
   session, of a temporary file or of the cache file is only up to date by its stamp
   if its plugins are those of the file, unless its last reload has failed: the stamp
   is taken before the file is opened. *)
CacheTellsTruth ==
  \A b \in Binaries :
    /\ Truthful(cacheFile.entries[b], b)
    /\ \A s \in Sessions : /\ Truthful(bins[s][b], b)
                           /\ Truthful(tmp[s][b], b)

(* A session that nothing disturbed offers exactly the plugins of the files on the
   disk, whatever cache file earlier sessions, complete or not, have left it, unless
   that holds an entry whose reload has failed. *)
CachedLikeFresh ==
  \A s \in Sessions :
    (/\ pc[s] = "ready" /\ calm[s]
     /\ \A b \in Binaries : readAs[s][b] # None => ~readAs[s][b].failed)
    => {<<x.bin, x.plugin>> : x \in offered[s]}
         = UNION {{b} \X disk[b].plugins : b \in Binaries}

\* Versions are ordered by major number first.
Older(p, q) == p.major < q.major \/ (p.major = q.major /\ p.minor < q.minor)

(* The plugins a session offers are those of binaries it still owns, also when
   binaries are erased and reloaded between the offers, and the one it gives for an
   identifier is offered and no other offered one is of a higher version. *)
OffersAreAliveAndBest ==
  \A s \in Sessions :
    /\ \A x \in offered[s] : Alive(s, x)
    /\ \A i \in Ids :
         LET mine == {x \in offered[s] : x.plugin.id = i}
         IN IF mine = {} THEN byId[s][i] = None
            ELSE /\ byId[s][i] \in mine
                 /\ \A x \in mine : ~Older(byId[s][i].plugin, x.plugin)

(* An undisturbed session rewrites the cache file when, and only when, what it knows
   differs from what it read, nothing if there is no file, or the file could not be
   read: news are never lost for the next session, and sessions that find nothing new
   leave the file alone. *)
DirtyIsNews ==
  \A s \in Sessions :
    (pc[s] = "ready" /\ calm[s]) =>
      LET known == [b \in Binaries |-> Saved(bins[s][b])]
      IN dirty[s] <=> (known # readAs[s] \/ unread[s])

(* "all the plugins inside the binaries, we don't own these, populated from
   _binaries" (OfxhPluginCache.hpp:70): when a session is ready its list of plugins
   has no pointer to a plugin that has been destroyed. *)
ListedAlive ==
  \A s \in Sessions : pc[s] = "ready" => \A x \in listed[s] : Alive(s, x)

(* "the binary was in the cache, but the binary has changed and thus we need to
   reload" (OfxhPluginCache.cpp:413): what is offered of a file that has not changed
   since the session began are plugins of that file. *)
OfferedIsOnDisk ==
  \A s \in Sessions :
    pc[s] = "ready" =>
      \A x \in offered[s] :
        disk[x.bin].stamp = bins[s][x.bin].stat => x.plugin \in disk[x.bin].plugins

=============================================================================
