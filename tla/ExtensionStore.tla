--------------------------- MODULE ExtensionStore ---------------------------
(***************************************************************************)
(* The store that native extensions keep their values in (context.storage,     *)
(* module_runtime.go of cmd/5gpn-intercept): a map of modules to keys, in       *)
(* memory under one mutex and saved whole at every change, and the pruning of    *)
(* modules that are not installed any more.  Scripts run on in the document they   *)
(* started with, and whoever prunes read the document earlier.                    *)
(***************************************************************************)
EXTENDS Naturals, FiniteSets

CONSTANTS
  Extensions, Keys, Values,
  Scripts,      \* bound: scripts that run at once
  Pruners,      \* the goroutines that prune: the ticker, one per connection
  MaxKeys,      \* keys of one module (256)
  MaxStored,    \* entries the file may hold (its limit is 4 MiB)
  MaxWrites,    \* bound: changes by scripts, of the document, and of the process
  NoValue

ASSUME StoreAssumption ==
  /\ IsFiniteSet(Extensions) /\ IsFiniteSet(Keys)
  /\ MaxKeys \in Nat /\ MaxStored \in Nat

VARIABLES
  persistent,  \* in memory: the value of a module's key
  storeFile,   \* store.json
  signature,   \* the modules of the last prune, once there was one
  installed,   \* the modules with persistent storage, by the document
  script,      \* what runs: a module, or nothing
  pruner,      \* the modules a prune was asked for, before it has the mutex
  answered,    \* what scripts were told is stored
  exWrites

exVars == <<persistent, storeFile, signature, installed, script, pruner, answered, exWrites>>

Store == [Extensions \X Keys -> Values \cup {NoValue}]
Nothing == [e \in Extensions \X Keys |-> NoValue]
Entries(s) == {e \in Extensions \X Keys : s[e] # NoValue}
KeysOf(s, m) == {k \in Keys : s[<<m, k>>] # NoValue}

\* The store with only these modules in it.
OfModules(s, modules) == [e \in Extensions \X Keys |-> IF e[1] \in modules THEN s[e] ELSE NoValue]

ExInit ==
  /\ persistent = Nothing /\ storeFile = Nothing /\ answered = Nothing
  /\ signature = {NoValue} /\ installed \in SUBSET Extensions
  /\ script = [x \in Scripts |-> NoValue] /\ pruner = [p \in Pruners |-> {NoValue}]
  /\ exWrites = 0

Counted == exWrites < MaxWrites /\ exWrites' = exWrites + 1

\* savePersistentLocked: the whole map, if it fits, replaces the file, or nothing happens.
Saved(s) == Cardinality(Entries(s)) <= MaxStored /\ storeFile' = s
NotSaved == UNCHANGED storeFile

----------------------------------------------------------------------------
(* Scripts.                                                                 *)

\* execute: a rule of a module of the document as it is now; it runs on in any later one.
Execute(x) ==
  /\ script[x] = NoValue
  /\ \E m \in installed : script' = [script EXCEPT ![x] = m]
  /\ UNCHANGED <<persistent, storeFile, signature, installed, pruner, answered, exWrites>>

FinishScript(x) ==
  /\ script[x] # NoValue /\ script' = [script EXCEPT ![x] = NoValue]
  /\ UNCHANGED <<persistent, storeFile, signature, installed, pruner, answered, exWrites>>

\* Defect: a value that could not be saved stays in memory.
RolledBackNot(next) == next

\* After a save that failed the map is as it was.
RolledBack(next) == persistent

\* One change of the map under the mutex: it is saved and answered, or taken back and
\* answered with false.
Change(next) ==
  /\ Counted
  /\ \/ Saved(next) /\ persistent' = next /\ answered' = [e \in DOMAIN next |->
          IF next[e] # persistent[e] THEN next[e] ELSE answered[e]]
     \/ NotSaved /\ persistent' = RolledBack(next) /\ UNCHANGED answered

StorageSet(x) ==
  /\ script[x] # NoValue
  /\ \E k \in Keys, v \in Values :
       /\ k \notin KeysOf(persistent, script[x]) => Cardinality(KeysOf(persistent, script[x])) < MaxKeys
       /\ Change([persistent EXCEPT ![<<script[x], k>>] = v])
  /\ UNCHANGED <<signature, installed, script, pruner>>

StorageDelete(x) ==
  /\ script[x] # NoValue
  /\ \E k \in Keys : Change([persistent EXCEPT ![<<script[x], k>>] = NoValue])
  /\ UNCHANGED <<signature, installed, script, pruner>>

StorageClear(x) ==
  /\ script[x] # NoValue
  /\ Change(OfModules(persistent, Extensions \ {script[x]}))
  /\ UNCHANGED <<signature, installed, script, pruner>>

----------------------------------------------------------------------------
(* Pruning.                                                                 *)

\* A tick or a connection reads the document.
AskPrune(p) ==
  /\ pruner[p] = {NoValue} /\ pruner' = [pruner EXCEPT ![p] = installed]
  /\ UNCHANGED <<persistent, storeFile, signature, installed, script, answered, exWrites>>

\* prune: nothing for the modules of the last time; else the others go, and a save that
\* fails is only logged.
Prune(p) ==
  /\ pruner[p] # {NoValue} /\ pruner' = [pruner EXCEPT ![p] = {NoValue}]
  /\ IF signature = pruner[p]
     THEN UNCHANGED <<persistent, storeFile, signature, answered, exWrites>>
     ELSE /\ signature' = pruner[p]
          /\ persistent' = OfModules(persistent, pruner[p])
          /\ answered' = OfModules(answered, pruner[p])
          /\ IF persistent' # persistent
             THEN \/ Saved(persistent') /\ UNCHANGED exWrites
                  \/ NotSaved /\ Counted
             ELSE UNCHANGED <<storeFile, exWrites>>
  /\ UNCHANGED <<installed, script>>

----------------------------------------------------------------------------
\* The document changes.
Install ==
  /\ Counted /\ \E s \in SUBSET Extensions : s # installed /\ installed' = s
  /\ UNCHANGED <<persistent, storeFile, signature, script, pruner, answered>>

\* What is in memory after loadPersistent: a file that cannot be read is logged and left.
LoadPersistent == {storeFile, Nothing}

\* The process ends at any moment and starts, and a first prune follows.
RestartSidecar ==
  /\ Counted
  /\ script' = [x \in Scripts |-> NoValue] /\ pruner' = [p \in Pruners |-> {NoValue}]
  /\ signature' = installed
  /\ \E loaded \in LoadPersistent :
       /\ persistent' = OfModules(loaded, installed)
       /\ answered' = IF loaded = storeFile THEN OfModules(answered, installed) ELSE Nothing
       /\ IF persistent' # loaded THEN Saved(persistent') \/ NotSaved ELSE NotSaved
  /\ UNCHANGED installed

ExNext ==
  \/ \E x \in Scripts : Execute(x) \/ FinishScript(x) \/ StorageSet(x) \/ StorageDelete(x) \/ StorageClear(x)
  \/ \E p \in Pruners : AskPrune(p) \/ Prune(p)
  \/ Install \/ RestartSidecar

ExSpec == ExInit /\ [][ExNext]_exVars

----------------------------------------------------------------------------
\* Both maps hold values only, and the file is one that the next start accepts.
ExTypeOK ==
  /\ persistent \in Store /\ storeFile \in Store
  /\ Cardinality(Entries(storeFile)) <= MaxStored
  /\ \A m \in Extensions : Cardinality(KeysOf(storeFile, m)) <= MaxKeys

\* What a script was told is stored is what the next read finds, and what the next start
\* loads, until a script removes it, its module is pruned, or a start cannot read the file
\* and forgets everything: a save that fails takes the change back and leaves the file
\* (module_runtime.go:327-370, 69-71).
AnsweredKept ==
  \A e \in Entries(answered) : persistent[e] = answered[e] /\ storeFile[e] = answered[e]
=============================================================================
