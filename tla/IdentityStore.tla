--------------------------- MODULE IdentityStore ----------------------------
(***************************************************************************)
(* Processes started on one state directory: the lock file (file_lock.cpp),*)
(* the identity file and its generation (identity.cpp, start_runtime of    *)
(* daemon.cpp, private_write_atomically of private_storage.cpp) and the    *)
(* configuration file by which the join command recognises a node that has *)
(* state (app.cpp, the default paths), on the POSIX build.                 *)
(*                                                                         *)
(* A lock belongs to a file, not to a name: creating the lock file anew by *)
(* rename leaves the lock of the old file with its holder.                 *)
(*                                                                         *)
(* A renamed file is seen at once by every process; until the directory is *)
(* synced, a crash of the machine may bring the old one back.              *)
(***************************************************************************)
EXTENDS Integers, Sequences

CONSTANTS
    Processes,
    Careful,        \* the operator's care with joins: see MayStart and MayJoin
    MaxLockFiles,   \* bound: lock files created
    MaxKeys,        \* bound: keys generated
    MaxGeneration,  \* bound: UINT64_MAX
    MaxStarts       \* bound: daemons started

ASSUME StoreAssumption ==
    /\ Careful \in BOOLEAN
    /\ MaxLockFiles \in Nat \ {0}
    /\ MaxKeys \in Nat
    /\ MaxGeneration \in Nat \ {0, 1}
    /\ MaxStarts \in Nat

VARIABLES
    pc,         \* what each process does next
    lockFile,   \* the lock file at the path, 0 if there is none
    lockFiles,  \* number of lock files there have been
    handle,     \* the lock file each process has open
    file,       \* the identity file, as processes see it
    durable,    \* the identity file a crash leaves
    config,     \* is there a configuration file, and does it survive a crash
    memory,     \* the identity each process has loaded
    keys,       \* number of keys generated
    starts      \* the identities daemons have run with, in order

identityVars == <<file, durable>>
fileVars == <<identityVars, config>>
lockVars == <<lockFile, lockFiles, handle>>
storeVars == <<pc, lockVars, fileVars, memory, keys, starts>>

NoIdentity == [key |-> 0, generation |-> 0]

Identities == [key : 1 .. MaxKeys, generation : 1 .. MaxGeneration]

Files == Identities \cup {NoIdentity}

\* Where a process that is not joining prepares its identity.
Loading == {"load", "create", "syncNew", "config", "bump", "syncBump"}

\* Where a process holds its lock.
Owning == Loading \cup {"save", "syncSave", "joinConfig", "run"}

StoreTypeOK ==
    /\ pc \in [Processes -> Owning \cup {"out", "joining", "makeLock", "open", "lock"}]
    /\ lockFiles \in 0 .. MaxLockFiles
    /\ lockFile \in 0 .. lockFiles
    /\ handle \in [Processes -> 0 .. lockFiles]
    /\ file \in Files
    /\ durable \in Files
    /\ config \in {"none", "visible", "durable"}
    /\ memory \in [Processes -> Files]
    /\ keys \in 0 .. MaxKeys
    /\ starts \in Seq(Identities)
    /\ Len(starts) <= MaxStarts

StoreInit ==
    /\ pc = [p \in Processes |-> "out"]
    /\ lockFiles = 0
    /\ lockFile = 0
    /\ handle = [p \in Processes |-> 0]
    /\ file = NoIdentity
    /\ durable = NoIdentity
    /\ config = "none"
    /\ memory = [p \in Processes |-> NoIdentity]
    /\ keys = 0
    /\ starts = <<>>

Goto(p, place) == pc' = [pc EXCEPT ![p] = place]

-----------------------------------------------------------------------------
(* What a careful operator does, which the code does not enforce: nothing  *)
(* is started during a join, and no join on a directory that a daemon has  *)
(* run on or is being started on. Daemons may be started at any time.      *)

Alone(p) == \A q \in Processes \ {p} : pc[q] = "out"

Joining(q) == pc[q] # "run" /\ pc[q] \notin Loading /\ memory[q] # NoIdentity

MayStart == Careful => \A q \in Processes : ~Joining(q)

MayJoin(p) ==
    Careful => Alone(p) /\ starts = <<>>

-----------------------------------------------------------------------------
(* file_lock_acquire                                                       *)

\* The lock file is looked for, at once or when a joining node is accepted.
Look(p) ==
    /\ pc[p] = "joining" \/ (pc[p] = "out" /\ MayStart)
    /\ Goto(p, IF lockFile = 0 THEN "makeLock" ELSE "open")
    /\ UNCHANGED <<lockVars, fileVars, memory, keys, starts>>

\* private_write_atomically puts an empty one into place, whatever is there now.
MakeLock(p) ==
    /\ pc[p] = "makeLock"
    /\ lockFiles < MaxLockFiles
    /\ lockFiles' = lockFiles + 1
    /\ lockFile' = lockFiles'
    /\ Goto(p, "open")
    /\ UNCHANGED <<handle, fileVars, memory, keys, starts>>

\* Whatever file is at the path is opened.
Open(p) ==
    /\ pc[p] = "open"
    /\ handle' = [handle EXCEPT ![p] = lockFile]
    /\ Goto(p, "lock")
    /\ UNCHANGED <<lockFile, lockFiles, fileVars, memory, keys, starts>>

\* Mutant: the answer of flock is not looked at.
AlwaysFree(p) == TRUE

\* flock with LOCK_NB: nobody else has locked the file that was opened.
Free(p) == \A q \in Processes \ {p} : pc[q] \in Owning => handle[q] # handle[p]

\* The process goes on to load the identity, or to save the one it joined with.
\* A process that is refused ends.
Lock(p) ==
    /\ pc[p] = "lock"
    /\ Free(p)
    /\ Goto(p, IF memory[p] = NoIdentity THEN "load" ELSE "save")
    /\ UNCHANGED <<lockVars, fileVars, memory, keys, starts>>

-----------------------------------------------------------------------------
(* identity_load and identity_bump_generation                              *)

\* The rename of private_write_atomically.
Replace(identity) == file' = identity /\ UNCHANGED durable

\* Mutant: the directory is not synced.
NeverSynced == UNCHANGED identityVars

\* Its last step: the directory is synced.
DirectorySynced == durable' = file /\ UNCHANGED file

Load(p) ==
    /\ pc[p] = "load"
    /\ memory' = [memory EXCEPT ![p] = file]
    /\ Goto(p, IF file = NoIdentity THEN "create" ELSE "config")
    /\ UNCHANGED <<lockVars, fileVars, keys, starts>>

\* A new key is generated and written with generation 1.
Create(p) ==
    /\ pc[p] = "create"
    /\ keys < MaxKeys
    /\ keys' = keys + 1
    /\ memory' = [memory EXCEPT ![p] = [key |-> keys + 1, generation |-> 1]]
    /\ Replace(memory'[p])
    /\ Goto(p, "syncNew")
    /\ UNCHANGED <<lockVars, config, starts>>

SyncNew(p) ==
    /\ pc[p] = "syncNew"
    /\ DirectorySynced
    /\ Goto(p, "config")
    /\ UNCHANGED <<lockVars, config, memory, keys, starts>>

\* save_config, which reports no failure: the file may be in place and durable,
\* in place only, or as it was.
Configured ==
    \/ config' = "durable"
    \/ config' \in IF config = "none" THEN {"none", "visible"} ELSE {config}

\* A file that is there is kept or replaced.
SaveConfig(p) ==
    /\ pc[p] = "config"
    /\ IF config = "none" THEN Configured ELSE UNCHANGED config
    /\ Goto(p, "bump")
    /\ UNCHANGED <<lockVars, identityVars, memory, keys, starts>>

\* Mutant: the generation is not counted up.
Same(identity) == identity

Bumped(identity) == [identity EXCEPT !.generation = @ + 1]

\* Mutant: the largest generation is not looked at.
AlwaysAdvances(identity) == TRUE

\* There is a next generation.
Advances(identity) == identity.generation < MaxGeneration

\* start_runtime writes the next generation.
Bump(p) ==
    /\ pc[p] = "bump"
    /\ Advances(memory[p])
    /\ Replace(Bumped(memory[p]))
    /\ Goto(p, "syncBump")
    /\ UNCHANGED <<lockVars, config, memory, keys, starts>>

\* Once it is durable the daemon runs with it.
SyncBump(p) ==
    /\ pc[p] = "syncBump"
    /\ Len(starts) < MaxStarts
    /\ DirectorySynced
    /\ memory' = [memory EXCEPT ![p] = Bumped(@)]
    /\ starts' = Append(starts, memory'[p])
    /\ Goto(p, "run")
    /\ UNCHANGED <<lockVars, config, keys>>

\* run_join: no configuration is found at the start, so a key is generated and
\* its generation counted up in memory only, until the node has been accepted.
Join(p) ==
    /\ pc[p] = "out"
    /\ MayJoin(p)
    /\ config = "none"
    /\ keys < MaxKeys
    /\ keys' = keys + 1
    /\ memory' = [memory EXCEPT ![p] = Bumped([key |-> keys + 1, generation |-> 1])]
    /\ Goto(p, "joining")
    /\ UNCHANGED <<lockVars, fileVars, starts>>

\* identity_save, under the lock; what is there is replaced.
Save(p) ==
    /\ pc[p] = "save"
    /\ Replace(memory[p])
    /\ Goto(p, "syncSave")
    /\ UNCHANGED <<lockVars, config, memory, keys, starts>>

SyncSave(p) ==
    /\ pc[p] = "syncSave"
    /\ DirectorySynced
    /\ Goto(p, "joinConfig")
    /\ UNCHANGED <<lockVars, config, memory, keys, starts>>

\* The configuration follows, and the joined node runs.
SaveJoinConfig(p) ==
    /\ pc[p] = "joinConfig"
    /\ Len(starts) < MaxStarts
    /\ Configured
    /\ starts' = Append(starts, memory[p])
    /\ Goto(p, "run")
    /\ UNCHANGED <<lockVars, identityVars, memory, keys>>

\* The process is refused the lock, gives up after another failure, ends or is
\* killed, and its files are closed.
Leave(p) ==
    /\ pc[p] # "out"
    /\ Goto(p, "out")
    /\ handle' = [handle EXCEPT ![p] = 0]
    /\ memory' = [memory EXCEPT ![p] = NoIdentity]
    /\ UNCHANGED <<lockFile, lockFiles, fileVars, keys, starts>>

\* The machine stops: everyone is gone, and a rename that was not synced may be
\* undone. (The empty lock file is left in place.)
MachineCrash ==
    /\ pc' = [p \in Processes |-> "out"]
    /\ handle' = [p \in Processes |-> 0]
    /\ memory' = [p \in Processes |-> NoIdentity]
    /\ file' \in {file, durable}
    /\ durable' = file'
    /\ config' \in IF config = "visible" THEN {"none", "durable"} ELSE {config}
    /\ UNCHANGED <<lockFile, lockFiles, keys, starts>>

StoreNext ==
    \/ \E p \in Processes :
          \/ Look(p) \/ MakeLock(p) \/ Open(p) \/ Lock(p)
          \/ Load(p) \/ Create(p) \/ SyncNew(p) \/ SaveConfig(p) \/ Bump(p) \/ SyncBump(p)
          \/ Join(p) \/ Save(p) \/ SyncSave(p) \/ SaveJoinConfig(p) \/ Leave(p)
    \/ MachineCrash

StoreSpec == StoreInit /\ [][StoreNext]_storeVars

-----------------------------------------------------------------------------
(***************************************************************************)
(* One process at a time works with the identity: the others are told      *)
(* "State is already in use by another process" (file_lock.cpp:85). The    *)
(* code breaks it when two processes find no lock file: each puts one into *)
(* place, and each locks its own.                                          *)
(***************************************************************************)
OneOwner == \A p, q \in Processes : pc[p] \in Owning /\ pc[q] \in Owning => p = q

\* There is a lock file, nobody is about to replace it, and nobody has an older
\* one open.
Settled ==
    /\ lockFile # 0
    /\ \A p \in Processes : pc[p] # "makeLock" /\ handle[p] \in {0, lockFile}

(***************************************************************************)
(* What is left of that promise: from the moment the lock file has settled *)
(* it stays, through every start, refusal and crash, and there is one      *)
(* owner at a time (file_lock_acquire).                                    *)
(***************************************************************************)
LockSettles == [][Settled => Settled' /\ OneOwner']_storeVars

(***************************************************************************)
(* Every daemon that starts has the key of those before it and a           *)
(* generation greater than theirs, through crashes at any point; its       *)
(* neighbors rely on it to tell its advertisements from older ones. (A     *)
(* joining node counts when its identity and configuration are saved.) It  *)
(* needs that the lock file was put into place once (see OneOwner), and a  *)
(* careful operator: a join on a directory that a daemon runs on, or has   *)
(* run on without a configuration file, replaces the key.                  *)
(***************************************************************************)
StartsAdvance ==
    lockFiles <= 1 =>
        \A i, j \in 1 .. Len(starts) :
            i < j => /\ starts[i].key = starts[j].key
                     /\ starts[i].generation < starts[j].generation
=============================================================================
