------------------------- MODULE PipelineCacheFile -------------------------
(***************************************************************************)
(* The pipeline cache of one Context after another: when it is written to  *)
(* its file (PipelineLibrary::DidAcquireSurfaceFrame, PipelineCache), how  *)
(* (PipelineCacheDataPersist, fml::WriteAtomically), and how a later       *)
(* Context reads it back, with the process or the machine stopping at any  *)
(* point and the driver changing in between.                               *)
(*                                                                         *)
(* A file is a sequence of blocks: the header, then the data.  A block is  *)
(* named after the save that wrote it, and is Hole if none has.  What a    *)
(* header says is looked up in saves.  Blocks written and not yet synced   *)
(* may be lost in a stop, and so may a rename; a header is one block.      *)
(***************************************************************************)
EXTENDS Integers, Sequences

CONSTANTS
  Workers,          \* of the pool that executes the saves
  Drivers,          \* what IsCompatibleWith compares
  FramesPerSave,    \* the 50 of DidAcquireSurfaceFrame
  MaxData,          \* bound: the blocks of the Vulkan cache
  MaxSaves          \* bound: the saves begun

ASSUME BoundsAssumption ==
  /\ FramesPerSave \in Nat \ {0} /\ MaxData \in Nat /\ MaxSaves \in Nat

Hole == 0
NoFile == [data |-> <<>>, synced |-> TRUE, exists |-> FALSE]

VARIABLES
  published,    \* the file of the cache's name
  durable,      \* the one that the name had when the directory was last on disk
  temp,         \* the file of the temporary name
  saves,        \* history: driver and size of each save begun
  driver,       \* of the Context, or "none" between two
  loaded,       \* the data given to the driver when the Context was made
  cached,       \* the size of the Vulkan cache
  dirty,        \* cache_dirty_
  frames,       \* frames_acquired_
  requested,    \* saves in the queue of the pool
  worker        \* of each worker: step of the save, its number, blocks written

files == <<published, durable, temp, saves>>
library == <<cached, dirty, frames>>
vars == <<published, durable, temp, saves, driver, loaded, cached, dirty, frames,
          requested, worker>>

Idle == [at |-> "idle", save |-> 0, written |-> 0]
Blocks == Seq(0 .. MaxSaves)
File == [data: Blocks, synced: BOOLEAN, exists: BOOLEAN]

TypeOK ==
  /\ {published, durable, temp} \subseteq File
  /\ saves \in Seq([driver: Drivers, size: 0 .. MaxData]) /\ Len(saves) <= MaxSaves
  /\ driver \in Drivers \cup {"none"}
  /\ loaded \in Blocks
  /\ cached \in 0 .. MaxData /\ dirty \in BOOLEAN
  /\ frames \in 0 .. FramesPerSave - 1
  /\ requested \in 0 .. 1
  /\ worker \in [Workers ->
       [at: {"idle", "query", "open", "truncate", "write", "sync", "rename"},
        save: 0 .. MaxSaves, written: 0 .. MaxData + 1]]

-----------------------------------------------------------------------------
(* The library.                                                            *)

\* A pipeline is not in the map; it comes to be created and cached.
GetPipeline ==
  /\ driver # "none"
  /\ dirty' = TRUE
  /\ cached' \in {cached, cached + 1} \cap 0 .. MaxData
  /\ UNCHANGED <<files, driver, loaded, frames, requested, worker>>

\* A fault: a due frame that finds nothing to save does not start over.
KeepCounting ==
  /\ driver # "none"
  /\ LET save == frames + 1 >= FramesPerSave /\ dirty
     IN  /\ save => requested = 0
         /\ frames' = IF save THEN 0 ELSE frames + 1
         /\ dirty' = (dirty /\ ~save)
         /\ requested' = IF save THEN requested + 1 ELSE requested
  /\ UNCHANGED <<files, driver, loaded, cached, worker>>

\* bound: one save waits in the pool's queue.
DidAcquireSurfaceFrame ==
  /\ driver # "none"
  /\ LET due == frames + 1 = FramesPerSave
         save == due /\ dirty
     IN  /\ save => requested = 0
         /\ frames' = IF due THEN 0 ELSE frames + 1
         /\ dirty' = (dirty /\ ~due)
         /\ requested' = IF save THEN requested + 1 ELSE requested
  /\ UNCHANGED <<files, driver, loaded, cached, worker>>

-----------------------------------------------------------------------------
(* A save, on a worker.                                                    *)

Step(w, at) == worker' = [worker EXCEPT ![w].at = at]

\* A fault: saves are not serialised.
StartUnserialised(w) ==
  /\ requested > 0
  /\ worker[w] = Idle
  /\ requested' = requested - 1
  /\ Step(w, "query")
  /\ UNCHANGED <<files, driver, loaded, library>>

\* PersistCacheToDisk has persist_mutex_ until the save ends.
PersistCacheToDisk(w) ==
  /\ requested > 0
  /\ \A u \in Workers : worker[u] = Idle
  /\ requested' = requested - 1
  /\ Step(w, "query")
  /\ UNCHANGED <<files, driver, loaded, library>>

\* The driver is asked for the size, and then for the data, which may be less.
\* An empty cache is not saved.
QueryCacheData(w) ==
  /\ worker[w].at = "query"
  /\ Len(saves) < MaxSaves
  /\ cached > 0
  /\ \E size \in 0 .. cached : saves' = Append(saves, [driver |-> driver, size |-> size])
  /\ worker' = [worker EXCEPT ![w] = [at |-> "open", save |-> Len(saves) + 1, written |-> 0]]
  /\ UNCHANGED <<published, durable, temp, driver, loaded, library, requested>>

\* The length of the file that a worker writes: the header and the data.
Length(w) == 1 + saves[worker[w].save].size

\* A temporary file that an interrupted save left behind is used again as it is.
OpenTemp(w) ==
  /\ worker[w].at = "open"
  /\ temp' = IF temp.exists THEN temp ELSE [NoFile EXCEPT !.exists = TRUE]
  /\ Step(w, "truncate")
  /\ UNCHANGED <<published, durable, saves, driver, loaded, library, requested>>

TruncateTemp(w) ==
  /\ worker[w].at = "truncate"
  /\ temp.exists
  /\ temp' = [temp EXCEPT !.synced = FALSE,
       !.data = [i \in 1 .. Length(w) |-> IF i <= Len(temp.data) THEN temp.data[i] ELSE Hole]]
  /\ Step(w, "write")
  /\ UNCHANGED <<published, durable, saves, driver, loaded, library, requested>>

\* One write, which may be short, at the position reached.
WriteTemp(w) ==
  /\ worker[w].at = "write"
  /\ temp.exists
  /\ LET from == worker[w].written
     IN  \E to \in from + 1 .. Length(w) :
           /\ temp' = [temp EXCEPT !.synced = FALSE,
                !.data = [i \in 1 .. Len(@) |-> IF i \in from + 1 .. to THEN worker[w].save
                                                ELSE temp.data[i]]]
           /\ worker' = [worker EXCEPT ![w].written = to,
                                       ![w].at = IF to = Length(w) THEN "sync" ELSE "write"]
  /\ UNCHANGED <<published, durable, saves, driver, loaded, library, requested>>

SyncTemp(w) ==
  /\ worker[w].at = "sync"
  /\ temp' = [temp EXCEPT !.synced = TRUE]
  /\ Step(w, "rename")
  /\ UNCHANGED <<published, durable, saves, driver, loaded, library, requested>>

RenameTemp(w) ==
  /\ worker[w].at = "rename"
  /\ temp.exists
  /\ published' = temp
  /\ temp' = NoFile
  /\ worker' = [worker EXCEPT ![w] = Idle]
  /\ UNCHANGED <<durable, saves, driver, loaded, library, requested>>

\* Each of the steps may fail, or find the cache empty, and the save ends there.
SaveFails(w) ==
  /\ worker[w] # Idle
  /\ worker' = [worker EXCEPT ![w] = Idle]
  /\ UNCHANGED <<files, driver, loaded, library, requested>>

-----------------------------------------------------------------------------
(* Stops and starts.                                                       *)

DirectorySynced ==
  /\ published # durable
  /\ durable' = published
  /\ UNCHANGED <<published, temp, saves, driver, loaded, library, requested, worker>>

\* What may be found of a file: all of it, or, unless synced, a part.
Remains(file) ==
  IF file.synced THEN {file}
  ELSE {[file EXCEPT !.synced = TRUE,
                     !.data = [i \in 1 .. n |-> IF i \in lost THEN Hole ELSE file.data[i]]] :
        n \in 0 .. Len(file.data), lost \in SUBSET DOMAIN file.data}

Stop ==
  /\ driver # "none"
  /\ driver' = "none"
  /\ \E file \in {published, durable} : published' \in Remains(file) /\ durable' = published'
  /\ temp' \in Remains(temp)
  /\ loaded' = <<>>
  /\ cached' = 0 /\ dirty' = FALSE /\ frames' = 0
  /\ requested' = 0
  /\ worker' = [w \in Workers |-> Idle]
  /\ UNCHANGED saves

\* A fault: the header is not compared with the driver.
RetrieveAny(d) ==
  IF Len(published.data) < 1 \/ published.data[1] = Hole THEN <<>>
  ELSE [i \in 1 .. saves[published.data[1]].size |->
          IF i + 1 <= Len(published.data) THEN published.data[i + 1] ELSE Hole]

\* PipelineCacheDataRetrieve: the data of a file whose header is whole and of
\* this driver, in the length that the header says; no data if that is zero.
Retrieve(d) ==
  IF \/ Len(published.data) < 1
     \/ published.data[1] = Hole
     \/ saves[published.data[1]].driver # d
  THEN <<>>
  ELSE [i \in 1 .. saves[published.data[1]].size |->
          IF i + 1 <= Len(published.data) THEN published.data[i + 1] ELSE Hole]

\* PipelineCache::PipelineCache: the driver may still refuse the data.
CreateCache(d) ==
  /\ driver = "none"
  /\ driver' = d
  /\ loaded' = Retrieve(d)
  /\ cached' \in {0, Len(Retrieve(d))}
  /\ UNCHANGED <<files, dirty, frames, requested, worker>>

-----------------------------------------------------------------------------
Init ==
  /\ published = NoFile /\ durable = NoFile /\ temp = NoFile
  /\ saves = <<>>
  /\ driver = "none"
  /\ loaded = <<>>
  /\ cached = 0 /\ dirty = FALSE /\ frames = 0
  /\ requested = 0
  /\ worker = [w \in Workers |-> Idle]

Save(w) ==
  \/ PersistCacheToDisk(w) \/ QueryCacheData(w) \/ OpenTemp(w) \/ TruncateTemp(w)
  \/ WriteTemp(w) \/ SyncTemp(w) \/ RenameTemp(w) \/ SaveFails(w)

Next ==
  \/ GetPipeline
  \/ DidAcquireSurfaceFrame
  \/ \E w \in Workers : Save(w)
  \/ DirectorySynced
  \/ Stop
  \/ \E d \in Drivers : CreateCache(d)

Spec == Init /\ [][Next]_vars

-----------------------------------------------------------------------------
(* Properties.                                                             *)

\* All the blocks of one save, and no other.
WholeSave(data, s) == data = [i \in 1 .. 1 + saves[s].size |-> s]

(* The file of the cache is absent or whole, and on disk, whenever the     *)
(* process stops: what is written over a left-over of an earlier save, in  *)
(* short writes, becomes visible only complete and synced, and by one save *)
(* at a time.                                                              *)
PublishedWhole ==
  published # NoFile =>
    published.synced /\ \E s \in 1 .. Len(saves) : WholeSave(published.data, s)

(* The data that the driver gets is what one save took from a cache of the *)
(* same driver.                                                            *)
LoadedWhole ==
  loaded # <<>> =>
    \E s \in 1 .. Len(saves) :
      saves[s].driver = driver /\ loaded = [i \in 1 .. saves[s].size |-> s]
=============================================================================
