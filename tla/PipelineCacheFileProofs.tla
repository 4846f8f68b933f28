---------------------- MODULE PipelineCacheFileProofs ----------------------
(***************************************************************************)
(* Proofs about PipelineCacheFile, for any workers, drivers, sizes and     *)
(* number of saves.                                                        *)
(***************************************************************************)
EXTENDS PipelineCacheFile, SequenceTheorems, TLAPS

Saves == [driver: Drivers, size: 0 .. MaxData]
WorkerStates ==
  [at: {"idle", "query", "open", "truncate", "write", "sync", "rename"},
   save: 0 .. MaxSaves, written: 0 .. MaxData + 1]

\* persist_mutex_: one save at a time, in a process that runs.
OneSave ==
  /\ \A u, w \in Workers : worker[u].at # "idle" /\ worker[w].at # "idle" => u = w
  /\ \A w \in Workers : /\ worker[w].at = "idle" => worker[w] = Idle
                        /\ worker[w].at # "idle" => driver # "none"
  /\ requested > 0 => driver # "none"

\* The temporary file, as far as the save has come.
TempOf(w) ==
  /\ worker[w].at \notin {"idle", "query"} =>
       worker[w].save \in 1 .. Len(saves)
  /\ worker[w].at \in {"truncate", "write", "sync", "rename"} => temp.exists
  /\ worker[w].at = "write" =>
       /\ Len(temp.data) = Length(w)
       /\ worker[w].written < Length(w)
       /\ \A i \in 1 .. worker[w].written : temp.data[i] = worker[w].save
  /\ worker[w].at \in {"open", "truncate"} => worker[w].written = 0
  /\ worker[w].at \in {"sync", "rename"} => WholeSave(temp.data, worker[w].save)
  /\ worker[w].at = "rename" => temp.synced

\* A file that may be found under the name of the cache.
Whole(file) ==
  file # NoFile => file.synced /\ \E s \in 1 .. Len(saves) : WholeSave(file.data, s)

IInv ==
  /\ TypeOK
  /\ OneSave
  /\ \A w \in Workers : TempOf(w)
  /\ Whole(published) /\ Whole(durable)
  /\ LoadedWhole

-----------------------------------------------------------------------------
(* Sequences of blocks.                                                    *)

\* A function on 1 .. n is a sequence of length n.
LEMMA SequenceOf ==
  ASSUME NEW S, NEW n \in Nat, NEW f \in [1 .. n -> S]
  PROVE  f \in Seq(S) /\ Len(f) = n /\ \A i \in 1 .. n : f[i] \in S
  BY SeqDef, LenProperties

\* What a save wrote says of whom it is, and holds no hole.
LEMMA WholeIsBlocks ==
  ASSUME TypeOK, NEW s \in 1 .. Len(saves), NEW data \in Blocks, WholeSave(data, s)
  PROVE  /\ Len(data) = 1 + saves[s].size
         /\ \A i \in 1 .. Len(data) : data[i] = s
         /\ saves[s] \in Saves /\ s # Hole
<1>1. saves[s] \in Saves
  BY ElementOfSeq DEF TypeOK, Saves
<1>2. saves[s].size \in Nat
  BY <1>1, BoundsAssumption DEF Saves
<1>3. DOMAIN data = 1 .. 1 + saves[s].size
  BY DEF WholeSave
<1>4. Len(data) = 1 + saves[s].size
  BY <1>2, <1>3, LenProperties DEF Blocks
<1>5. \A i \in 1 .. Len(data) : data[i] = s
  BY <1>4 DEF WholeSave
<1>6. Len(saves) \in Nat
  BY LenProperties DEF TypeOK
<1> QED BY <1>1, <1>4, <1>5, <1>6 DEF Hole

\* saves is a history: it only grows.
LEMMA SavesGrow ==
  ASSUME TypeOK, NEW s \in Saves, saves' = Append(saves, s)
  PROVE  /\ saves' \in Seq(Saves) /\ Len(saves') = Len(saves) + 1 /\ Len(saves) \in Nat
         /\ \A i \in 1 .. Len(saves) : i \in 1 .. Len(saves') /\ saves'[i] = saves[i]
         /\ saves'[Len(saves) + 1] = s
<1>1. saves \in Seq(Saves)
  BY DEF TypeOK, Saves
<1> QED BY <1>1, AppendProperties, LenProperties

LEMMA InitHolds == Init => IInv
<1> SUFFICES ASSUME Init PROVE IInv
  OBVIOUS
<1>1. <<>> \in Blocks /\ saves \in Seq([driver: Drivers, size: 0 .. MaxData]) /\ Len(saves) = 0
  BY DEF Init, Blocks
<1>2. NoFile \in File
  BY <1>1 DEF NoFile, File
<1>3. 0 \in 0 .. FramesPerSave - 1 /\ 0 \in 0 .. MaxData /\ 0 \in 0 .. MaxData + 1 /\ 0 \in 0 .. MaxSaves
      /\ 0 <= MaxSaves
  BY BoundsAssumption
<1>4. worker \in [Workers -> WorkerStates]
  BY <1>3 DEF Init, Idle, WorkerStates
<1>5. TypeOK
  <2>1. {published, durable, temp} \subseteq File /\ loaded \in Blocks
    BY <1>1, <1>2 DEF Init
  <2>2. driver \in Drivers \cup {"none"} /\ dirty \in BOOLEAN
    BY DEF Init
  <2>3. cached \in 0 .. MaxData /\ frames \in 0 .. FramesPerSave - 1 /\ requested \in 0 .. 1
    BY <1>3 DEF Init
  <2> QED BY <1>1, <1>3, <1>4, <2>1, <2>2, <2>3 DEF TypeOK, WorkerStates
<1>6. OneSave /\ \A w \in Workers : TempOf(w)
  BY DEF Init, OneSave, TempOf, Idle
<1>7. Whole(published) /\ Whole(durable) /\ LoadedWhole
  BY DEF Init, Whole, LoadedWhole
<1> QED BY <1>5, <1>6, <1>7 DEF IInv

-----------------------------------------------------------------------------
(* The library, and the start and the end of a save.                       *)

LEMMA LibraryStepsHold ==
  ASSUME IInv, GetPipeline \/ DidAcquireSurfaceFrame
  PROVE  IInv'
<1>1. UNCHANGED <<files, driver, loaded, worker>> /\ driver # "none"
  BY DEF GetPipeline, DidAcquireSurfaceFrame
<1>2. dirty' \in BOOLEAN
  BY DEF GetPipeline, DidAcquireSurfaceFrame
<1>3. cached' \in 0 .. MaxData
  BY DEF GetPipeline, DidAcquireSurfaceFrame, IInv, TypeOK
<1>4. frames' \in 0 .. FramesPerSave - 1 /\ requested' \in 0 .. 1
  BY BoundsAssumption DEF GetPipeline, DidAcquireSurfaceFrame, IInv, TypeOK
<1>5. TypeOK'
  BY <1>1, <1>2, <1>3, <1>4 DEF IInv, TypeOK, files
<1>6. OneSave' /\ (\A w \in Workers : TempOf(w)')
  BY <1>1 DEF IInv, OneSave, TempOf, files, Length, WholeSave
<1>7. Whole(published)' /\ Whole(durable)' /\ LoadedWhole'
  BY <1>1 DEF IInv, Whole, LoadedWhole, files, WholeSave
<1> QED BY <1>5, <1>6, <1>7 DEF IInv

LEMMA PersistHolds ==
  ASSUME IInv, NEW w \in Workers, PersistCacheToDisk(w)
  PROVE  IInv'
<1>1. UNCHANGED <<files, driver, loaded, library>> /\ driver # "none"
  BY DEF PersistCacheToDisk, IInv, OneSave
<1>2. requested' \in 0 .. 1
  BY DEF PersistCacheToDisk, IInv, TypeOK
<1>3. worker' \in [Workers -> WorkerStates] /\ worker'[w].at = "query"
      /\ \A u \in Workers \ {w} : worker'[u] = Idle
  BY DEF PersistCacheToDisk, Step, IInv, TypeOK, WorkerStates
<1>4. TypeOK'
  BY <1>1, <1>2, <1>3 DEF IInv, TypeOK, files, library, WorkerStates
<1>5. OneSave'
  BY <1>1, <1>3 DEF OneSave, Idle
<1>6. \A u \in Workers : TempOf(u)'
  BY <1>3 DEF TempOf, Idle
<1>7. Whole(published)' /\ Whole(durable)' /\ LoadedWhole'
  BY <1>1 DEF IInv, Whole, LoadedWhole, files, WholeSave
<1> QED BY <1>4, <1>5, <1>6, <1>7 DEF IInv

\* Of the saves that were begun, nothing is forgotten when one is.
LEMMA QueryHolds ==
  ASSUME IInv, NEW w \in Workers, QueryCacheData(w)
  PROVE  IInv'
<1>1. PICK size \in 0 .. cached : saves' = Append(saves, [driver |-> driver, size |-> size])
  BY DEF QueryCacheData
<1>2. /\ UNCHANGED <<published, durable, temp, driver, loaded, library, requested>>
      /\ worker[w].at = "query" /\ Len(saves) < MaxSaves
      /\ worker' = [worker EXCEPT ![w] = [at |-> "open", save |-> Len(saves) + 1, written |-> 0]]
  BY DEF QueryCacheData
<1>3. driver # "none" /\ \A u \in Workers \ {w} : worker[u].at = "idle"
  BY <1>2 DEF IInv, OneSave
<1>4. [driver |-> driver, size |-> size] \in Saves
  BY <1>3, BoundsAssumption DEF IInv, TypeOK, Saves
<1>5. /\ saves' \in Seq(Saves) /\ Len(saves') = Len(saves) + 1 /\ Len(saves) \in Nat
      /\ \A i \in 1 .. Len(saves) : i \in 1 .. Len(saves') /\ saves'[i] = saves[i]
  BY <1>1, <1>4, SavesGrow DEF IInv
<1>6. [at |-> "open", save |-> Len(saves) + 1, written |-> 0] \in WorkerStates
  BY <1>2, <1>5, BoundsAssumption DEF WorkerStates
<1>7. worker' \in [Workers -> WorkerStates]
  BY <1>2, <1>6 DEF IInv, TypeOK, WorkerStates
<1>8. /\ worker'[w] = [at |-> "open", save |-> Len(saves) + 1, written |-> 0]
      /\ \A u \in Workers \ {w} : worker'[u] = worker[u]
  BY <1>2 DEF IInv, TypeOK
<1>9. Len(saves') <= MaxSaves
  BY <1>2, <1>5, BoundsAssumption
<1>10. TypeOK'
  BY <1>2, <1>5, <1>7, <1>9 DEF IInv, TypeOK, library, Saves, WorkerStates
<1>11. OneSave'
  BY <1>2, <1>3, <1>8 DEF IInv, OneSave
<1>12. \A u \in Workers : TempOf(u)'
  BY <1>3, <1>5, <1>8 DEF TempOf
<1>13. ASSUME NEW file, Whole(file), file # NoFile
       PROVE  file.synced /\ \E s \in 1 .. Len(saves') : file.data = [i \in 1 .. 1 + saves'[s].size |-> s]
  <2>1. file.synced
    BY <1>13 DEF Whole
  <2>2. PICK s \in 1 .. Len(saves) : file.data = [i \in 1 .. 1 + saves[s].size |-> s]
    BY <1>13 DEF Whole, WholeSave
  <2>3. s \in 1 .. Len(saves') /\ saves'[s] = saves[s]
    BY <1>5
  <2> QED BY <2>1, <2>2, <2>3
<1>14. Whole(published)' /\ Whole(durable)'
  <2>1. UNCHANGED <<published, durable>> /\ Whole(published) /\ Whole(durable)
    BY <1>2 DEF IInv
  <2> QED BY <2>1, <1>13 DEF Whole, WholeSave
<1>15. LoadedWhole'
  BY <1>2, <1>5 DEF IInv, LoadedWhole
<1> QED BY <1>10, <1>11, <1>12, <1>14, <1>15 DEF IInv

\* The save ends early, whatever it leaves in the temporary file.
LEMMA SaveFailsHolds ==
  ASSUME IInv, NEW w \in Workers, SaveFails(w)
  PROVE  IInv'
<1>1. UNCHANGED <<files, driver, loaded, library, requested>>
  BY DEF SaveFails
<1>2. Idle \in WorkerStates
  BY BoundsAssumption DEF Idle, WorkerStates
<1>3. worker' \in [Workers -> WorkerStates] /\ worker'[w] = Idle
      /\ \A u \in Workers \ {w} : worker'[u] = worker[u]
  BY <1>2 DEF SaveFails, IInv, TypeOK, WorkerStates
<1>4. TypeOK'
  BY <1>1, <1>3 DEF IInv, TypeOK, files, library, WorkerStates
<1>5. OneSave'
  BY <1>1, <1>3 DEF IInv, OneSave, Idle
<1>6. ASSUME NEW u \in Workers PROVE TempOf(u)'
  <2>1. CASE u = w
    BY <1>3, <2>1 DEF TempOf, Idle
  <2>2. CASE u # w
    BY <1>1, <1>3, <2>2 DEF IInv, TempOf, files, Length, WholeSave
  <2> QED BY <2>1, <2>2
<1>7. Whole(published)' /\ Whole(durable)' /\ LoadedWhole'
  BY <1>1 DEF IInv, Whole, LoadedWhole, files, WholeSave
<1> QED BY <1>4, <1>5, <1>6, <1>7 DEF IInv

-----------------------------------------------------------------------------
(* A save and its temporary file.                                          *)

\* A step on the temporary file by the one save there is.
LEMMA TempStepHolds ==
  ASSUME IInv, NEW w \in Workers, worker[w].at # "idle",
         UNCHANGED <<published, durable, saves, driver, loaded, library, requested>>,
         temp' \in File,
         worker' \in [Workers -> WorkerStates], worker'[w].at # "idle",
         \A u \in Workers \ {w} : worker'[u] = worker[u],
         TempOf(w)'
  PROVE  IInv'
<1>1. TypeOK'
  BY DEF IInv, TypeOK, library, WorkerStates
<1>2. OneSave'
  BY DEF IInv, OneSave
<1>3. ASSUME NEW u \in Workers PROVE TempOf(u)'
  <2>1. CASE u # w
    <3>1. worker'[u].at = "idle"
      BY <2>1 DEF IInv, OneSave
    <3> QED BY <3>1 DEF TempOf
  <2> QED BY <2>1
<1>4. Whole(published)' /\ Whole(durable)' /\ LoadedWhole'
  BY DEF IInv, Whole, LoadedWhole, WholeSave
<1> QED BY <1>1, <1>2, <1>3, <1>4 DEF IInv

\* The next step of a save, with the same number.
LEMMA StepHolds ==
  ASSUME IInv, NEW w \in Workers, NEW at \in {"truncate", "write", "sync", "rename"}, Step(w, at)
  PROVE  /\ worker' \in [Workers -> WorkerStates]
         /\ worker'[w].at = at /\ worker'[w].save = worker[w].save
         /\ worker'[w].written = worker[w].written
         /\ \A u \in Workers \ {w} : worker'[u] = worker[u]
  BY DEF Step, IInv, TypeOK, WorkerStates

\* The size of a save that a worker performs.
LEMMA LengthType ==
  ASSUME IInv, NEW w \in Workers, worker[w].save \in 1 .. Len(saves)
  PROVE  Length(w) \in 1 .. MaxData + 1
<1>1. saves[worker[w].save] \in Saves
  BY ElementOfSeq DEF IInv, TypeOK, Saves
<1> QED BY <1>1, BoundsAssumption DEF Length, Saves

LEMMA FileType ==
  ASSUME TypeOK
  PROVE  /\ temp.data \in Seq(0 .. MaxSaves) /\ Len(temp.data) \in Nat
         /\ \A i \in 1 .. Len(temp.data) : temp.data[i] \in 0 .. MaxSaves
         /\ DOMAIN temp.data = 1 .. Len(temp.data)
<1>1. temp.data \in Seq(0 .. MaxSaves)
  BY DEF TypeOK, File, Blocks
<1> QED BY <1>1, LenProperties, ElementOfSeq

LEMMA OpenTempHolds ==
  ASSUME IInv, NEW w \in Workers, OpenTemp(w)
  PROVE  IInv'
<1>1. temp' \in File /\ temp'.exists
  <2>1. CASE temp.exists
    BY <2>1 DEF OpenTemp, IInv, TypeOK
  <2>2. CASE ~temp.exists
    <3>1. temp' = [data |-> <<>>, synced |-> TRUE, exists |-> TRUE]
      BY <2>2 DEF OpenTemp, NoFile
    <3>2. <<>> \in Blocks
      BY DEF Blocks
    <3> QED BY <3>1, <3>2 DEF File
  <2> QED BY <2>1, <2>2
<1>2. Step(w, "truncate") /\ worker[w].at = "open"
      /\ UNCHANGED <<published, durable, saves, driver, loaded, library, requested>>
  BY DEF OpenTemp
<1>3. TempOf(w)'
  BY <1>1, <1>2, StepHolds DEF IInv, TempOf
<1> QED BY <1>1, <1>2, <1>3, StepHolds, TempStepHolds

\* Truncation makes the file as long as the save, whatever was left in it.
LEMMA TruncateTempHolds ==
  ASSUME IInv, NEW w \in Workers, TruncateTemp(w)
  PROVE  IInv'
<1> DEFINE data == [i \in 1 .. Length(w) |-> IF i <= Len(temp.data) THEN temp.data[i] ELSE Hole]
<1>1. Step(w, "write") /\ worker[w].at = "truncate" /\ temp.exists
      /\ UNCHANGED <<published, durable, saves, driver, loaded, library, requested>>
      /\ temp' = [temp EXCEPT !.synced = FALSE, !.data = data]
  BY DEF TruncateTemp
<1>2. worker[w].save \in 1 .. Len(saves) /\ worker[w].written = 0
  BY <1>1 DEF IInv, TempOf
<1>3. Length(w) \in 1 .. MaxData + 1 /\ Length(w) \in Nat
  BY <1>2, LengthType, BoundsAssumption
<1>4. \A i \in 1 .. Length(w) : (IF i <= Len(temp.data) THEN temp.data[i] ELSE Hole) \in 0 .. MaxSaves
  BY <1>3, FileType, BoundsAssumption DEF Hole, IInv
<1>5. data \in [1 .. Length(w) -> 0 .. MaxSaves]
  BY <1>4
<1> HIDE DEF data
<1>6. data \in Blocks /\ Len(data) = Length(w)
  BY <1>3, <1>5, SequenceOf DEF Blocks
<1>7. temp' \in File /\ temp'.exists /\ temp'.data = data
  BY <1>1, <1>6 DEF IInv, TypeOK, File
<1>8. Length(w)' = Length(w)
  BY <1>1, StepHolds DEF Length
<1>9. TempOf(w)'
  BY <1>1, <1>2, <1>3, <1>6, <1>7, <1>8, StepHolds DEF TempOf
<1> QED BY <1>1, <1>7, <1>9, StepHolds, TempStepHolds

\* A write, short or not, extends the prefix that is of this save.
LEMMA WriteTempHolds ==
  ASSUME IInv, NEW w \in Workers, WriteTemp(w)
  PROVE  IInv'
<1> DEFINE from == worker[w].written
           k == worker[w].save
<1>1. worker[w].at = "write" /\ temp.exists
      /\ UNCHANGED <<published, durable, saves, driver, loaded, library, requested>>
  BY DEF WriteTemp
<1>2. PICK to \in from + 1 .. Length(w) :
        /\ temp' = [temp EXCEPT !.synced = FALSE,
             !.data = [i \in 1 .. Len(@) |-> IF i \in from + 1 .. to THEN k ELSE temp.data[i]]]
        /\ worker' = [worker EXCEPT ![w].written = to,
                                    ![w].at = IF to = Length(w) THEN "sync" ELSE "write"]
  BY DEF WriteTemp
<1>3. k \in 1 .. Len(saves) /\ Len(temp.data) = Length(w) /\ \A i \in 1 .. from : temp.data[i] = k
  BY <1>1 DEF IInv, TempOf
<1>4. Length(w) \in 1 .. MaxData + 1 /\ from \in 0 .. MaxData + 1 /\ k \in 0 .. MaxSaves
  BY <1>3, LengthType DEF IInv, TypeOK
<1>5. to \in 0 .. MaxData + 1 /\ to <= Length(w) /\ Length(w) \in Nat /\ from \in Nat /\ to \in Nat
  BY <1>2, <1>4, BoundsAssumption
<1> DEFINE data == [i \in 1 .. Length(w) |-> IF i \in from + 1 .. to THEN k ELSE temp.data[i]]
<1>6. temp' = [temp EXCEPT !.synced = FALSE, !.data = data]
  BY <1>2, <1>3
<1>7. data \in [1 .. Length(w) -> 0 .. MaxSaves] /\ \A i \in 1 .. to : data[i] = k
  BY <1>3, <1>4, <1>5, FileType DEF IInv
<1> HIDE DEF data
<1>8. data \in Blocks /\ Len(data) = Length(w)
  BY <1>5, <1>7, SequenceOf DEF Blocks
<1>9. /\ worker' \in [Workers -> WorkerStates]
      /\ worker'[w].at = (IF to = Length(w) THEN "sync" ELSE "write")
      /\ worker'[w].save = k /\ worker'[w].written = to
      /\ \A u \in Workers \ {w} : worker'[u] = worker[u]
  BY <1>2, <1>5 DEF IInv, TypeOK, WorkerStates
<1>10. Length(w)' = Length(w) /\ Length(w) = 1 + saves[k].size
  BY <1>1, <1>9 DEF Length
<1>11. to = Length(w) => data = [i \in 1 .. 1 + saves[k].size |-> k]
  <2> SUFFICES ASSUME to = Length(w) PROVE data = [i \in 1 .. 1 + saves[k].size |-> k]
    OBVIOUS
  <2> QED BY <1>7, <1>10 DEF data
<1> HIDE DEF from, k
<1>12. temp' \in File /\ temp'.exists /\ temp'.data = data
  BY <1>1, <1>6, <1>8 DEF IInv, TypeOK, File
<1>13. TempOf(w)'
  <2>1. CASE to = Length(w)
    BY <2>1, <1>1, <1>3, <1>9, <1>11, <1>12 DEF TempOf, WholeSave
  <2>2. CASE to # Length(w)
    BY <2>2, <1>1, <1>3, <1>5, <1>7, <1>8, <1>9, <1>10, <1>12 DEF TempOf
  <2> QED BY <2>1, <2>2
<1> QED BY <1>1, <1>9, <1>12, <1>13, TempStepHolds

LEMMA SyncTempHolds ==
  ASSUME IInv, NEW w \in Workers, SyncTemp(w)
  PROVE  IInv'
<1>1. Step(w, "rename") /\ worker[w].at = "sync" /\ temp' = [temp EXCEPT !.synced = TRUE]
      /\ UNCHANGED <<published, durable, saves, driver, loaded, library, requested>>
  BY DEF SyncTemp
<1>2. temp' \in File /\ temp'.exists = temp.exists /\ temp'.data = temp.data /\ temp'.synced
  BY <1>1 DEF IInv, TypeOK, File
<1>3. /\ worker[w].save \in 1 .. Len(saves) /\ temp.exists
      /\ temp.data = [i \in 1 .. 1 + saves[worker[w].save].size |-> worker[w].save]
  BY <1>1 DEF IInv, TempOf, WholeSave
<1>4. worker'[w].at = "rename" /\ worker'[w].save = worker[w].save
  BY <1>1, StepHolds
<1>5. WholeSave(temp.data, worker[w].save)'
  BY <1>1, <1>2, <1>3, <1>4 DEF WholeSave
<1>6. TempOf(w)'
  BY <1>1, <1>2, <1>3, <1>4, <1>5 DEF TempOf
<1> QED BY <1>1, <1>2, <1>6, StepHolds, TempStepHolds

\* What is renamed is whole and synced, as no other save has touched it.
LEMMA RenameTempHolds ==
  ASSUME IInv, NEW w \in Workers, RenameTemp(w)
  PROVE  IInv'
<1>1. worker[w].at = "rename" /\ published' = temp /\ temp' = NoFile
      /\ UNCHANGED <<durable, saves, driver, loaded, library, requested>>
  BY DEF RenameTemp
<1>2. Idle \in WorkerStates /\ NoFile \in File
  <2>1. <<>> \in Blocks
    BY DEF Blocks
  <2> QED BY <2>1, BoundsAssumption DEF Idle, WorkerStates, NoFile, File
<1>3. worker' \in [Workers -> WorkerStates] /\ worker'[w] = Idle
      /\ \A u \in Workers \ {w} : worker'[u] = worker[u]
  BY <1>2 DEF RenameTemp, IInv, TypeOK, WorkerStates
<1>4. \A u \in Workers : worker'[u].at = "idle"
  BY <1>1, <1>3 DEF IInv, OneSave, Idle
<1>5. TypeOK'
  BY <1>1, <1>2, <1>3 DEF IInv, TypeOK, library, WorkerStates
<1>6. OneSave'
  BY <1>1, <1>3, <1>4 DEF IInv, OneSave
<1>7. \A u \in Workers : TempOf(u)'
  BY <1>4 DEF TempOf
<1>8. Whole(published)'
  <2>1. temp.synced /\ worker[w].save \in 1 .. Len(saves) /\ WholeSave(temp.data, worker[w].save)
    BY <1>1 DEF IInv, TempOf
  <2> QED BY <1>1, <2>1 DEF Whole, WholeSave
<1>9. Whole(durable)' /\ LoadedWhole'
  BY <1>1 DEF IInv, Whole, LoadedWhole, WholeSave
<1> QED BY <1>5, <1>6, <1>7, <1>8, <1>9 DEF IInv

-----------------------------------------------------------------------------
(* Stops and starts.                                                       *)

LEMMA DirectorySyncedHolds ==
  ASSUME IInv, DirectorySynced
  PROVE  IInv'
<1>1. durable' = published
      /\ UNCHANGED <<published, temp, saves, driver, loaded, library, requested, worker>>
  BY DEF DirectorySynced
<1>2. TypeOK'
  BY <1>1 DEF IInv, TypeOK, library
<1>3. OneSave' /\ (\A w \in Workers : TempOf(w)')
  BY <1>1 DEF IInv, OneSave, TempOf, Length, WholeSave
<1>4. Whole(published)' /\ Whole(durable)' /\ LoadedWhole'
  BY <1>1 DEF IInv, Whole, LoadedWhole, WholeSave
<1> QED BY <1>2, <1>3, <1>4 DEF IInv

\* The file under the name was synced before it got the name: a stop leaves it,
\* or the one before it, as it was.
LEMMA StopHolds ==
  ASSUME IInv, Stop
  PROVE  IInv'
<1>1. /\ UNCHANGED saves /\ driver' = "none" /\ loaded' = <<>>
      /\ cached' = 0 /\ frames' = 0 /\ requested' = 0
      /\ worker' = [w \in Workers |-> Idle] /\ temp' \in Remains(temp)
  BY DEF Stop
<1>2. dirty' \in BOOLEAN
  BY DEF Stop
<1>3. PICK file \in {published, durable} : published' \in Remains(file) /\ durable' = published'
  BY DEF Stop
<1>4. Whole(file) /\ file \in File
  BY DEF IInv, TypeOK
<1>5. file.synced
  BY <1>4 DEF Whole, NoFile
<1>6. published' = file /\ durable' = file
  BY <1>3, <1>5 DEF Remains
<1>7. temp' \in File
  <2>1. CASE temp.synced
    BY <1>1, <2>1 DEF Remains, IInv, TypeOK
  <2>2. CASE ~temp.synced
    <3> DEFINE Part(n, lost) ==
                 [temp EXCEPT !.synced = TRUE,
                    !.data = [i \in 1 .. n |-> IF i \in lost THEN Hole ELSE temp.data[i]]]
    <3>1. Remains(temp) = {Part(n, lost) : n \in 0 .. Len(temp.data), lost \in SUBSET DOMAIN temp.data}
      BY <2>2 DEF Remains
    <3> HIDE DEF Part
    <3>2. PICK n \in 0 .. Len(temp.data), lost \in SUBSET DOMAIN temp.data : temp' = Part(n, lost)
      BY <1>1, <3>1
    <3> DEFINE data == [i \in 1 .. n |-> IF i \in lost THEN Hole ELSE temp.data[i]]
    <3>3. data \in [1 .. n -> 0 .. MaxSaves] /\ n \in Nat
      BY FileType, BoundsAssumption DEF IInv, Hole
    <3> HIDE DEF data
    <3>4. data \in Blocks
      BY <3>3, SequenceOf DEF Blocks
    <3>5. temp' = [temp EXCEPT !.synced = TRUE, !.data = data]
      BY <3>2 DEF data, Part
    <3> QED BY <3>4, <3>5 DEF IInv, TypeOK, File
  <2> QED BY <2>1, <2>2
<1>8. worker' \in [Workers -> WorkerStates] /\ \A w \in Workers : worker'[w] = Idle
  BY <1>1, BoundsAssumption DEF Idle, WorkerStates
<1>9. /\ <<>> \in Blocks /\ 0 \in 0 .. MaxData /\ 0 \in 0 .. FramesPerSave - 1 /\ 0 \in 0 .. 1
  BY BoundsAssumption DEF Blocks
<1>10. TypeOK'
  BY <1>1, <1>2, <1>4, <1>6, <1>7, <1>8, <1>9 DEF IInv, TypeOK, WorkerStates
<1>11. OneSave' /\ (\A w \in Workers : TempOf(w)')
  BY <1>1, <1>8 DEF OneSave, TempOf, Idle
<1>12. Whole(published)' /\ Whole(durable)'
  BY <1>1, <1>4, <1>6 DEF Whole, WholeSave
<1>13. LoadedWhole'
  BY <1>1 DEF LoadedWhole
<1> QED BY <1>10, <1>11, <1>12, <1>13 DEF IInv

\* A later Context takes from a whole file the data of one save of its driver.
LEMMA RetrieveWhole ==
  ASSUME IInv, NEW d \in Drivers
  PROVE  \/ Retrieve(d) = <<>>
         \/ \E s \in 1 .. Len(saves) :
              saves[s].driver = d /\ Retrieve(d) = [i \in 1 .. saves[s].size |-> s]
<1>1. published.data \in Blocks
  BY DEF IInv, TypeOK, File
<1>2. CASE published = NoFile
  <2>1. Len(published.data) = 0
    BY <1>2 DEF NoFile
  <2> QED BY <2>1 DEF Retrieve
<1>3. CASE published # NoFile
  <2>1. PICK s \in 1 .. Len(saves) : WholeSave(published.data, s)
    BY <1>3 DEF IInv, Whole
  <2>2. /\ Len(published.data) = 1 + saves[s].size /\ saves[s].size \in Nat
        /\ \A i \in 1 .. Len(published.data) : published.data[i] = s
        /\ s # Hole
    BY <1>1, <2>1, WholeIsBlocks, BoundsAssumption DEF IInv, Saves
  <2>3. published.data[1] = s /\ ~(Len(published.data) < 1)
    BY <2>2
  <2>4. CASE saves[s].driver # d
    BY <2>3, <2>4 DEF Retrieve
  <2>5. CASE saves[s].driver = d
    <3>1. Retrieve(d) = [i \in 1 .. saves[s].size |->
                           IF i + 1 <= Len(published.data) THEN published.data[i + 1] ELSE Hole]
      BY <2>2, <2>3, <2>5 DEF Retrieve
    <3>2. \A i \in 1 .. saves[s].size : i + 1 <= Len(published.data) /\ published.data[i + 1] = s
      BY <2>2
    <3>3. Retrieve(d) = [i \in 1 .. saves[s].size |-> s]
      BY <3>1, <3>2
    <3> QED BY <2>5, <3>3
  <2> QED BY <2>4, <2>5
<1> QED BY <1>2, <1>3

LEMMA CreateCacheHolds ==
  ASSUME IInv, NEW d \in Drivers, CreateCache(d)
  PROVE  IInv'
<1>1. /\ driver = "none" /\ driver' = d /\ loaded' = Retrieve(d)
      /\ cached' \in {0, Len(Retrieve(d))}
      /\ UNCHANGED <<files, dirty, frames, requested, worker>>
  BY DEF CreateCache
<1>2. loaded' \in Blocks /\ Len(loaded') \in 0 .. MaxData
  <2>1. CASE Retrieve(d) = <<>>
    <3>1. <<>> \in Blocks /\ Len(<<>>) = 0
      BY DEF Blocks
    <3> QED BY <1>1, <2>1, <3>1, BoundsAssumption
  <2>2. ASSUME NEW s \in 1 .. Len(saves), Retrieve(d) = [i \in 1 .. saves[s].size |-> s]
        PROVE  loaded' \in Blocks /\ Len(loaded') \in 0 .. MaxData
    <3>1. saves[s] \in Saves /\ Len(saves) \in Nat /\ Len(saves) <= MaxSaves
      BY ElementOfSeq, LenProperties DEF IInv, TypeOK, Saves
    <3>2. saves[s].size \in 0 .. MaxData /\ saves[s].size \in Nat /\ s \in 0 .. MaxSaves
      BY <3>1, BoundsAssumption DEF Saves
    <3>3. loaded' \in [1 .. saves[s].size -> 0 .. MaxSaves]
      BY <1>1, <2>2, <3>2
    <3> QED BY <3>2, <3>3, SequenceOf DEF Blocks
  <2> QED BY <2>1, <2>2, RetrieveWhole
<1>3. cached' \in 0 .. MaxData
  BY <1>1, <1>2, BoundsAssumption
<1>4. TypeOK'
  BY <1>1, <1>2, <1>3 DEF IInv, TypeOK, files
<1>5. requested = 0 /\ \A w \in Workers : worker[w].at = "idle"
  BY <1>1 DEF IInv, OneSave, TypeOK
<1>6. OneSave'
  BY <1>1, <1>5 DEF IInv, OneSave
<1>7. \A w \in Workers : TempOf(w)'
  BY <1>1, <1>5 DEF TempOf
<1>8. Whole(published)' /\ Whole(durable)'
  BY <1>1 DEF IInv, Whole, WholeSave, files
<1>9. LoadedWhole'
  BY <1>1, RetrieveWhole DEF LoadedWhole, files
<1> QED BY <1>4, <1>6, <1>7, <1>8, <1>9 DEF IInv

-----------------------------------------------------------------------------
LEMMA IInvInvariant == Spec => []IInv
<1>1. IInv /\ [Next]_vars => IInv'
  <2> SUFFICES ASSUME IInv, [Next]_vars PROVE IInv'
    OBVIOUS
  <2>1. CASE GetPipeline \/ DidAcquireSurfaceFrame
    BY <2>1, LibraryStepsHold
  <2>2. ASSUME NEW w \in Workers, Save(w) PROVE IInv'
    BY <2>2, PersistHolds, QueryHolds, OpenTempHolds, TruncateTempHolds, WriteTempHolds,
       SyncTempHolds, RenameTempHolds, SaveFailsHolds DEF Save
  <2>3. CASE DirectorySynced
    BY <2>3, DirectorySyncedHolds
  <2>4. CASE Stop
    BY <2>4, StopHolds
  <2>5. ASSUME NEW d \in Drivers, CreateCache(d) PROVE IInv'
    BY <2>5, CreateCacheHolds
  <2>6. CASE UNCHANGED vars
    <3>1. TypeOK' /\ OneSave' /\ LoadedWhole'
      BY <2>6 DEF vars, IInv, TypeOK, OneSave, LoadedWhole, Length, WholeSave
    <3>2. \A w \in Workers : TempOf(w)'
      BY <2>6 DEF vars, IInv, TempOf, Length, WholeSave
    <3> QED BY <2>6, <3>1, <3>2 DEF vars, IInv, Whole, Length, WholeSave
  <2> QED BY <2>1, <2>2, <2>3, <2>4, <2>5, <2>6 DEF Next
<1> QED BY <1>1, InitHolds, PTL DEF Spec

(***************************************************************************)
(* The files, the saves and the workers stay in their types.               *)
(***************************************************************************)
THEOREM TypeCorrectness == Spec => []TypeOK
  BY IInvInvariant, PTL DEF IInv

(***************************************************************************)
(* WriteAtomically under persist_mutex_: for any workers, any size of the  *)
(* cache and any number of saves and stops, the file of the cache is       *)
(* absent, or it is one save, whole and synced.                            *)
(***************************************************************************)
THEOREM PublishedWholeInvariant == Spec => []PublishedWhole
  BY IInvInvariant, PTL DEF IInv, Whole, PublishedWhole

(***************************************************************************)
(* What PipelineCacheDataRetrieve gives to the driver is what one save     *)
(* took from a cache of the same driver, whatever stopped in between.      *)
(***************************************************************************)
THEOREM LoadedWholeInvariant == Spec => []LoadedWhole
  BY IInvInvariant, PTL DEF IInv
=============================================================================
