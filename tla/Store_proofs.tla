---------------------------- MODULE Store_proofs ----------------------------
(***************************************************************************)
(* Proofs about Store, for any keys, versions, goroutines and faults:      *)
(* types, that what was saved is found again after any end of the program, *)
(* that the progress stores think no more saved than is, and that the      *)
(* calls of SaveJSONFile make an AtomicFile.                               *)
(***************************************************************************)
EXTENDS Store, TLAPS

-----------------------------------------------------------------------------
(* The invariants.                                                         *)

Disks == [primary : Slots, backup : Slots]

Calls ==
    [at : {"idle", "waits", "create", "sync", "rotate", "backup", "replace",
           "cleanup", "flush", "failed"},
     data : Contents, previous : Contents, asked : Contents]

\* Goroutine w holds the mutex.
Busy(w) == call[w].at \notin {"idle", "waits"}

Types ==
    /\ store \in Stores
    /\ survivors \subseteq Disks /\ disk \in survivors
    /\ memory \in Contents /\ acked \in Contents /\ durable \in Contents
    /\ running \in BOOLEAN /\ flushed \in BOOLEAN /\ tampered \in BOOLEAN
    /\ faults \in 0 .. MaxFaults /\ expired \subseteq Keys
    /\ call \in [Writers -> Calls]

\* The mutex is held by the goroutine that saves, and by that one only.
Mutex ==
    /\ owner \in Writers \cup {NoWriter}
    /\ \A w \in Writers : owner = w <=> Busy(w)
    /\ \A w \in Writers : call[w].at = "idle" => call[w] = Idle
    /\ ~running => memory = Empty /\ \A w \in Writers : call[w] = Idle

\* Where the files are between two calls of SaveJSONFile.
Phases ==
    \A w \in Writers :
      /\ call[w].at \in {"rotate", "backup", "replace"} => flushed
      /\ call[w].at = "backup" => disk.primary # NoFile /\ disk.backup = NoFile
      /\ call[w].at = "replace" => disk.primary = NoFile
      /\ call[w].at \in {"cleanup", "flush"} => disk.primary = call[w].data
      /\ call[w].at = "flush" => disk.backup = NoFile

\* Nothing on a disk is damaged, refused or out of reach.
Sound(d) == {d.primary, d.backup} \subseteq Contents \cup {NoFile}

\* Damaged files are there only after tampering, when nothing is owed.
Clean ==
    /\ ~tampered => \A d \in survivors : Sound(d)
    /\ durable # Empty => ~tampered
    /\ acked # Empty => Sound(disk)

\* m holds what n does, but for what has expired.
Covers(m, n) == \A k \in Keys \ expired : n[k] <= m[k]

\* Every save under way holds what was acknowledged before, and what its
\* caller will be told is saved.
Owed ==
    /\ AtMost(durable, acked)
    /\ store = "state" => acked = Empty /\ \A w \in Writers : call[w].asked = Empty
    /\ running => Covers(memory, acked)
    /\ \A w \in Writers : Covers(memory, call[w].asked)
    /\ \A w \in Writers :
         Busy(w) => Covers(call[w].data, acked) /\ Covers(call[w].data, call[w].asked)

\* What a progress store goes back to when its save fails is on the disk.
Undone ==
    store \in Transactional =>
      \A w \in Writers :
        /\ call[w].at # "waits"
        /\ Busy(w) =>
             /\ call[w].data = memory /\ call[w].asked = memory
             /\ Covers(call[w].previous, acked)
             /\ Covers(call[w].data, call[w].previous)
             /\ ~tampered => Kept(call[w].previous, disk)

IInv ==
    /\ Types /\ Mutex /\ Phases /\ Clean /\ Owed /\ Undone
    /\ AckedKept /\ DurableKept /\ MemorySaved

-----------------------------------------------------------------------------
(* Versions.                                                               *)

LEMMA EmptyType ==
    /\ Empty \in Contents /\ Idle \in Calls
    /\ \A k \in Keys : Empty[k] = 0
BY StoreAssumption DEF Empty, Contents, Idle, Calls

\* Versions are natural numbers.
LEMMA Versions ==
    ASSUME NEW m \in Contents, NEW k \in Keys
    PROVE  m[k] \in Nat
BY StoreAssumption DEF Contents

\* Record and SetCookies raise one key.
LEMMA Raised ==
    ASSUME NEW m \in Contents, NEW k \in Keys, NEW v \in 0 .. MaxVersion,
           m[k] <= v
    PROVE  /\ [m EXCEPT ![k] = v] \in Contents
           /\ AtMost(m, [m EXCEPT ![k] = v])
BY StoreAssumption DEF Contents, AtMost

LEMMA Bumped ==
    ASSUME NEW m \in Contents, NEW k \in Keys, m[k] < MaxVersion
    PROVE  /\ [m EXCEPT ![k] = @ + 1] \in Contents
           /\ AtMost(m, [m EXCEPT ![k] = @ + 1])
<1>1. m[k] + 1 \in 0 .. MaxVersion /\ m[k] <= m[k] + 1
  BY StoreAssumption, Versions
<1>2. AtMost(m, [m EXCEPT ![k] = m[k] + 1])
      /\ [m EXCEPT ![k] = m[k] + 1] \in Contents
  BY <1>1, Raised
<1> QED
  BY <1>2

LEMMA Dropped ==
    ASSUME Types, NEW m \in Contents
    PROVE  Unexpired(m) \in Contents /\ Covers(Unexpired(m), m)
BY StoreAssumption DEF Contents, Unexpired, Covers, Types

LEMMA NewestType ==
    ASSUME NEW m \in Contents, NEW n \in Contents
    PROVE  /\ Newest(m, n) \in Contents
           /\ AtMost(m, Newest(m, n)) /\ AtMost(n, Newest(m, n))
           /\ \A k \in Keys : Newest(m, n)[k] \in {m[k], n[k]}
BY StoreAssumption DEF Contents, Newest, AtMost

-----------------------------------------------------------------------------
(* What is loaded.                                                         *)

LEMMA LoadedType ==
    ASSUME NEW d \in Disks
    PROVE  /\ Loaded(d) \in Contents \cup Junk
           /\ d.primary \in Contents => Loaded(d) = d.primary
           /\ d.primary = NoFile /\ d.backup = NoFile => Loaded(d) = Empty
           /\ Sound(d) => Loaded(d) \in Contents
<1>1. d.primary \in Slots /\ d.backup \in Slots
  BY DEF Disks
<1>2. NoFile \notin Contents \cup Junk /\ Junk \cap Contents = {} /\ Empty \in Contents
  BY StoreAssumption, EmptyType
<1> QED
  BY <1>1, <1>2 DEF Loaded, Slots, Sound, Junk

\* Saving moves files about; what is loaded stays the same.
LEMMA LoadedMoved ==
    ASSUME NEW d \in Disks, NEW e \in Disks,
           \/ d.primary \in Contents /\ e.primary = d.primary
           \/ d.primary # NoFile /\ d.backup = NoFile
              /\ e.primary = NoFile /\ e.backup = d.primary
           \/ d.primary = NoFile /\ d.backup # NoFile
              /\ e.primary = d.backup /\ e.backup = NoFile
    PROVE  Loaded(e) = Loaded(d)
<1>1. /\ d.primary \in Slots /\ d.backup \in Slots
      /\ e.primary \in Slots /\ e.backup \in Slots
  BY DEF Disks
<1>2. NoFile \notin Contents \cup Junk /\ Junk \cap Contents = {}
  BY StoreAssumption
<1> QED
  BY <1>1, <1>2 DEF Loaded, Slots, Junk

\* One goroutine saves the progress, and it is one of those there are.
LEMMA SaversType == Savers \subseteq Writers
BY StoreAssumption DEF Savers

-----------------------------------------------------------------------------
(* Types and the mutex.                                                    *)

\* What a step that goes on from one call of the system to the next does to
\* the save.
LEMMA GoesTypes ==
    ASSUME Types, Mutex, NEW w \in Writers,
           call' \in [Writers -> Calls],
           \A v \in Writers : v # w => call'[v] = call[v],
           Busy(w), call'[w].at \notin {"idle", "waits"},
           owner' = owner, running' = running, memory' = memory
    PROVE  Mutex'
BY StoreAssumption DEF Types, Mutex, Busy, Idle

LEMMA FaultType ==
    ASSUME Types, Fault
    PROVE  faults' \in 0 .. MaxFaults
BY StoreAssumption DEF Types, Fault

\* The save ends.
LEMMA ReturnTypes ==
    ASSUME Types, Mutex, NEW w \in Writers,
           call' = [call EXCEPT ![w] = Idle], owner' = NoWriter,
           Busy(w), running' = running, memory' \in Contents
    PROVE  call' \in [Writers -> Calls] /\ Mutex'
<1>1. running
  BY DEF Mutex, Busy, Idle
<1>2. owner = w /\ \A v \in Writers : v # w => ~Busy(v)
  BY DEF Mutex
<1>3. call' \in [Writers -> Calls]
  BY EmptyType DEF Types
<1>4. \A v \in Writers : ~Busy(v)'
  BY <1>2, <1>3 DEF Busy, Idle, Types
<1> QED
  BY <1>1, <1>3, <1>4, StoreAssumption DEF Mutex

\* The program stops.
LEMMA StopsTypes ==
    ASSUME Types, Stops
    PROVE  call' \in [Writers -> Calls] /\ Mutex'
           /\ memory' \in Contents /\ running' \in BOOLEAN /\ flushed' \in BOOLEAN
BY EmptyType, StoreAssumption DEF Stops, Types, Mutex, Busy, Idle

LEMMA TypesStep ==
    ASSUME Types, Mutex, Next
    PROVE  Types' /\ Mutex'
<1> USE DEF Types
<1>1. ASSUME NEW w \in Writers, Transact(w)
      PROVE  Types' /\ Mutex'
  <2>1. memory' \in Contents
    <3>1. CASE memory' = Unexpired(memory)
      BY <3>1, Dropped
    <3>2. ASSUME NEW k \in Keys, NEW v \in 1 .. MaxVersion,
                 memory' = [memory EXCEPT ![k] = IF v > @ THEN v ELSE @]
          PROVE  memory' \in Contents
      BY <3>2, Versions DEF Contents
    <3> QED
      BY <1>1, <3>1, <3>2 DEF Transact
  <2>2. call' \in [Writers -> Calls]
    BY <1>1, <2>1 DEF Transact, Calls
  <2>3. Types'
    BY <1>1, <2>1, <2>2 DEF Transact
  <2>4. Mutex'
    BY <1>1, StoreAssumption DEF Transact, Mutex, Busy
  <2> QED
    BY <2>3, <2>4
<1>2. ASSUME NEW w \in Writers, AskSave(w)
      PROVE  Types' /\ Mutex'
  <2>1. call' \in [Writers -> Calls]
    BY <1>2, EmptyType DEF AskSave, Calls, Idle
  <2> QED
    BY <1>2, <2>1 DEF AskSave, Mutex, Busy, Idle
<1>3. ASSUME NEW w \in Writers, UpdateState(w)
      PROVE  Types' /\ Mutex'
  <2>1. memory' \in Contents
    BY <1>3, Bumped DEF UpdateState
  <2>2. call' \in [Writers -> Calls]
    BY <1>3, <2>1, EmptyType DEF UpdateState, Calls, Idle
  <2> QED
    BY <1>3, <2>1, <2>2 DEF UpdateState, Mutex, Busy, Idle
<1>4. ASSUME NEW w \in Writers, CallFails(w)
      PROVE  Types' /\ Mutex'
  <2>1. call' \in [Writers -> Calls]
    BY <1>4 DEF CallFails, Calls
  <2>2. survivors' \subseteq Disks /\ disk' \in survivors'
    BY <1>4 DEF CallFails, Unwritten, Writes, Disks, Slots
  <2>3. Types'
    BY <1>4, <2>1, <2>2, FaultType DEF CallFails, ElseSame
  <2>4. Busy(w) /\ call'[w].at \notin {"idle", "waits"}
    BY <1>4 DEF CallFails, Busy
  <2>5. Mutex'
    BY <1>4, <2>1, <2>4, GoesTypes DEF CallFails, ElseSame
  <2> QED
    BY <2>3, <2>5
<1>5. CASE SetCookies
  <2>1. memory' \in Contents
    BY <1>5, Bumped DEF SetCookies
  <2> QED
    BY <1>5, <2>1 DEF SetCookies, Mutex, Busy
<1>6. CASE Expire
  BY <1>6, StoreAssumption DEF Expire, Mutex, Busy
<1>7. CASE Ends
  BY <1>7, StopsTypes DEF Ends
<1>8. CASE Crash
  BY <1>8, StopsTypes, FaultType DEF Crash
<1>9. CASE PowerFails
  BY <1>9, StopsTypes, FaultType DEF PowerFails
<1>10. CASE Damage
  <2>1. disk' \in Disks /\ survivors' = {disk'}
    BY <1>10 DEF Damage, Astray, Disks, Slots
  <2>2. Types'
    BY <1>10, <2>1, EmptyType, FaultType DEF Damage, Astray
  <2> QED
    BY <1>10, <2>2 DEF Damage, Mutex, Busy
<1>11. CASE StartCorruptFails
  <2>1. disk' \in Disks /\ survivors' = {disk'}
    BY <1>11 DEF StartCorruptFails, Astray, Disks, Slots
  <2>2. Types'
    BY <1>11, <2>1, EmptyType, FaultType DEF StartCorruptFails, Astray
  <2> QED
    BY <1>11, <2>2 DEF StartCorruptFails, Mutex, Busy
<1>12. CASE Start
  <2>1. memory' \in Contents
    BY <1>12, LoadedType, Dropped DEF Start
  <2> QED
    BY <1>12, <2>1 DEF Start, Mutex, Busy
<1>13. CASE StartCorrupt
  <2>1. disk' \in Disks /\ survivors' = {disk'}
    BY <1>13 DEF StartCorrupt, Astray, Disks, Slots, PutAside, NoFiles
  <2>2. Types'
    BY <1>13, <2>1, EmptyType DEF StartCorrupt, Astray
  <2> QED
    BY <1>13, <2>2 DEF StartCorrupt, Mutex, Busy
<1>14. ASSUME NEW w \in Writers, SaveStep(w)
       PROVE  Types' /\ Mutex'
  <2>1. CASE TakeMutex(w)
    <3>1. Copy(w) \in Contents
      BY Dropped DEF Copy, Calls
    <3>2. call' \in [Writers -> Calls]
      BY <2>1, <3>1 DEF TakeMutex, Calls
    <3> QED
      BY <2>1, <3>2, StoreAssumption DEF TakeMutex, Mutex, Busy, Idle
  <2>2. ASSUME NEW at \in {"sync", "rotate", "replace", "backup", "cleanup", "flush"},
               call[w].at \in {"create", "sync", "rotate", "replace", "backup",
                               "cleanup"},
               call' = [call EXCEPT ![w].at = at],
               flushed' \in BOOLEAN, faults' = faults, ElseSame,
               survivors' \subseteq Disks, disk' \in survivors'
        PROVE  Types' /\ Mutex'
    <3>1. call' \in [Writers -> Calls]
      BY <2>2 DEF Calls
    <3>2. Types'
      BY <2>2, <3>1 DEF ElseSame
    <3>3. Busy(w) /\ call'[w].at \notin {"idle", "waits"}
      BY <2>2 DEF Busy
    <3> QED
      BY <2>2, <3>1, <3>2, <3>3, GoesTypes DEF ElseSame
  <2>3. CASE WriteTemp(w)
    BY <2>2, <2>3 DEF WriteTemp, Goes, Unwritten
  <2>4. CASE SyncTemp(w)
    BY <2>2, <2>4 DEF SyncTemp, Goes, Unwritten
  <2>5. CASE Rotate(w)
    <3>1. survivors' \subseteq Disks /\ disk' \in survivors'
      BY <2>5 DEF Rotate, Unwritten, Writes, Disks, Slots
    <3> QED
      BY <2>2, <2>5, <3>1 DEF Rotate, Goes
  <2>6. CASE MoveToBackup(w)
    <3>1. survivors' \subseteq Disks /\ disk' \in survivors'
      BY <2>6 DEF MoveToBackup, Writes, Disks, Slots
    <3> QED
      BY <2>2, <2>6, <3>1 DEF MoveToBackup, Goes
  <2>7. CASE Replace(w)
    <3>1. survivors' \subseteq Disks /\ disk' \in survivors'
      BY <2>7 DEF Replace, Disks, Slots, Junk, Calls
    <3> QED
      BY <2>2, <2>7, <3>1 DEF Replace, Goes
  <2>8. CASE RemoveBackup(w)
    <3>1. survivors' \subseteq Disks /\ disk' \in survivors'
      BY <2>8 DEF RemoveBackup, Writes, Disks, Slots
    <3> QED
      BY <2>2, <2>8, <3>1 DEF RemoveBackup, Goes
  <2>9. CASE ReturnSaved(w)
    <3>1. acked' \in Contents
      BY <2>9, NewestType DEF ReturnSaved, Calls
    <3>2. Busy(w) /\ memory' \in Contents
      BY <2>9 DEF ReturnSaved, Busy
    <3>3. call' \in [Writers -> Calls] /\ Mutex'
      BY <2>9, <3>2, ReturnTypes DEF ReturnSaved
    <3>4. Types'
      BY <2>9, <3>1, <3>2, <3>3, FaultType DEF ReturnSaved
    <3> QED
      BY <3>3, <3>4
  <2>10. CASE ReturnFailed(w)
    <3>1. Busy(w) /\ memory' \in Contents
      BY <2>10 DEF ReturnFailed, Busy, Calls
    <3>2. call' \in [Writers -> Calls] /\ Mutex'
      BY <2>10, <3>1, ReturnTypes DEF ReturnFailed
    <3>3. Types'
      BY <2>10, <3>1, <3>2 DEF ReturnFailed
    <3> QED
      BY <3>2, <3>3
  <2> QED
    BY <1>14, <2>1, <2>3, <2>4, <2>5, <2>6, <2>7, <2>8, <2>9, <2>10 DEF SaveStep
<1> QED
  BY <1>1, <1>2, <1>3, <1>4, <1>5, <1>6, <1>7, <1>8, <1>9, <1>10, <1>11,
     <1>12, <1>13, <1>14, SaversType DEF Next, Environment, Starts

-----------------------------------------------------------------------------
(* What a step does to the files.                                          *)

\* The step of a save, or its failure, may write one disk more: with the same
\* content, or with the content saved. It is the worse for damaged ones only.
Saving(w) ==
    /\ Busy(w) /\ UNCHANGED <<owner, expired, acked, durable, tampered>>
    /\ disk' \in Disks /\ survivors' = survivors \cup {disk'}
    /\ Sound(disk) => Sound(disk')
    /\ \/ Loaded(disk') = Loaded(disk)
       \/ ~Sound(disk)
       \/ call[w].at = "replace" /\ Loaded(disk') = call[w].data

Still == expired \subseteq expired' /\ UNCHANGED <<disk, survivors, acked, durable, tampered>>

Strays == disk' \in Disks /\ Astray(disk') /\ expired' = expired

\* Nobody else is in a save.
LEMMA OnlyOne ==
    ASSUME Types, Mutex, NEW w \in Writers, Busy(w)
    PROVE  /\ running /\ owner = w
           /\ \A v \in Writers : v # w => ~Busy(v)
BY DEF Mutex, Busy, Idle

\* Nothing is written: what Unwritten says in the words of Saving.
LEMMA UnwrittenSaving ==
    ASSUME Types, NEW w \in Writers, Busy(w), Unwritten,
           UNCHANGED <<owner, expired, acked, durable, tampered>>
    PROVE  Saving(w)
BY DEF Types, Saving, Unwritten

LEMMA SaveFiles ==
    ASSUME Types, Phases, NEW w \in Writers, SaveStep(w) \/ CallFails(w)
    PROVE  Still \/ Saving(w) \/ ReturnSaved(w)
<1> USE DEF ElseSame
<1>1. disk \in Disks
  BY DEF Types
<1>2. disk.primary \in Slots /\ disk.backup \in Slots /\ call[w].data \in Contents
  BY <1>1 DEF Disks, Types, Calls
<1>3. NoFile \notin Contents
  BY StoreAssumption
<1>4. CASE TakeMutex(w) \/ ReturnFailed(w)
  BY <1>4 DEF TakeMutex, ReturnFailed, Still
<1>5. CASE WriteTemp(w) \/ SyncTemp(w)
  BY <1>5, UnwrittenSaving DEF WriteTemp, SyncTemp, Goes, Busy
<1>6. CASE Rotate(w)
  <2>1. CASE Unwritten
    BY <2>1, <1>6, UnwrittenSaving DEF Rotate, Goes, Busy
  <2>2. CASE disk.primary # NoFile /\ Writes([disk EXCEPT !.backup = NoFile])
    <3>1. disk' = [primary |-> disk.primary, backup |-> NoFile] /\ disk' \in Disks
      BY <2>2, <1>1, <1>2 DEF Writes, Disks, Slots
    <3>2. disk.primary \in Contents => Loaded(disk') = Loaded(disk)
      BY <3>1, <1>1, LoadedMoved
    <3>3. disk.primary \notin Contents => ~Sound(disk)
      BY <2>2, <1>2 DEF Sound, Slots
    <3> QED
      BY <2>2, <1>6, <3>1, <3>2, <3>3 DEF Rotate, Goes, Busy, Writes, Saving, Sound
  <2> QED
    BY <1>6, <2>1, <2>2 DEF Rotate
<1>7. CASE MoveToBackup(w)
  <2>1. disk.primary # NoFile /\ disk.backup = NoFile
    BY <1>7 DEF MoveToBackup, Goes, Phases
  <2>2. disk' = [primary |-> NoFile, backup |-> disk.primary] /\ disk' \in Disks
    BY <1>7, <1>2 DEF MoveToBackup, Writes, Disks, Slots
  <2>3. Loaded(disk') = Loaded(disk)
    BY <1>1, <2>1, <2>2, LoadedMoved
  <2> QED
    BY <1>7, <2>2, <2>3 DEF MoveToBackup, Goes, Busy, Writes, Saving, Sound
<1>8. CASE Replace(w)
  <2>1. disk' = [primary |-> call[w].data, backup |-> disk.backup] /\ disk' \in Disks
    BY <1>8, <1>1, <1>2 DEF Replace, Disks, Slots
  <2>2. Loaded(disk') = call[w].data
    BY <2>1, <1>2, LoadedType
  <2>3. survivors' = survivors \cup {disk'}
    BY <1>8 DEF Replace, Goes, Phases
  <2> QED
    BY <1>8, <1>2, <2>1, <2>2, <2>3 DEF Replace, Goes, Busy, Saving, Sound
<1>9. CASE RemoveBackup(w)
  <2>1. disk.primary = call[w].data
    BY <1>9 DEF RemoveBackup, Goes, Phases
  <2>2. disk' = [primary |-> disk.primary, backup |-> NoFile] /\ disk' \in Disks
    BY <1>9, <1>1, <1>2 DEF RemoveBackup, Writes, Disks, Slots
  <2>3. Loaded(disk') = Loaded(disk)
    BY <1>1, <1>2, <2>1, <2>2, LoadedMoved
  <2> QED
    BY <1>9, <2>2, <2>3 DEF RemoveBackup, Goes, Busy, Writes, Saving, Sound
<1>10. CASE CallFails(w)
  <2>1. Busy(w)
    BY <1>10 DEF CallFails, Busy
  <2>2. CASE Unwritten
    BY <1>10, <2>1, <2>2, UnwrittenSaving DEF CallFails
  <2>3. CASE /\ call[w].at = "replace" /\ disk.backup # NoFile
             /\ Writes([primary |-> disk.backup, backup |-> NoFile])
    <3>1. disk.primary = NoFile
      BY <2>3 DEF Phases
    <3>2. disk' = [primary |-> disk.backup, backup |-> NoFile] /\ disk' \in Disks
      BY <2>3, <1>2 DEF Writes, Disks, Slots
    <3>3. Loaded(disk') = Loaded(disk)
      BY <1>1, <2>3, <3>1, <3>2, LoadedMoved
    <3> QED
      BY <1>10, <2>1, <2>3, <3>2, <3>3 DEF CallFails, Writes, Saving, Sound
  <2> QED
    BY <1>10, <2>2, <2>3 DEF CallFails
<1> QED
  BY <1>4, <1>5, <1>6, <1>7, <1>8, <1>9, <1>10 DEF SaveStep

LEMMA FilesStep ==
    ASSUME Types, Phases, Next
    PROVE  \/ Still \/ Strays
           \/ PowerFails
           \/ \E w \in Writers : Saving(w) \/ ReturnSaved(w)
<1>1. disk \in Disks /\ \A d \in Disks :
          /\ PutAside(d) \in Disks
          /\ [d EXCEPT !.primary = NoFile] \in Disks
          /\ \A junk \in Junk : [d EXCEPT !.primary = junk] \in Disks
          /\ [d EXCEPT !.backup = NoFile] \in Disks
          /\ \A junk \in Junk : [d EXCEPT !.backup = junk] \in Disks
  BY DEF Types, Disks, Slots, PutAside, NoFiles
<1>2. ASSUME NEW w \in Writers, Transact(w) \/ AskSave(w) \/ UpdateState(w)
      PROVE  Still
  BY <1>2 DEF Transact, AskSave, UpdateState, Still
<1>3. CASE SetCookies \/ Expire \/ Ends \/ Crash \/ Start
  BY <1>3 DEF SetCookies, Expire, Ends, Crash, Start, Still
<1>4. CASE Damage
  BY <1>4, <1>1 DEF Damage, Astray, Strays
<1>5. CASE StartCorrupt
  BY <1>5, <1>1 DEF StartCorrupt, Astray, Strays
<1>6. CASE StartCorruptFails
  BY <1>6, <1>1 DEF StartCorruptFails, Astray, Strays
<1> QED
  BY <1>2, <1>3, <1>4, <1>5, <1>6, SaveFiles, SaversType
     DEF Next, Environment, Starts

-----------------------------------------------------------------------------
(* The files during a save, and what they are worth.                       *)

\* Where a goroutine that saves has got to, nobody else having written.
LEMMA PhasesStep ==
    ASSUME Types, Mutex, Phases, Next, Types', Mutex'
    PROVE  Phases'
<1> USE DEF Types
<1>1. ASSUME \A w \in Writers : call[w].at \in {"idle", "waits"} => call'[w] = call[w]
                                 \/ call'[w].at \in {"idle", "waits", "create"},
             \A w \in Writers : Busy(w) => call'[w] = call[w],
             disk' = disk, flushed' = flushed
      PROVE  Phases'
  BY <1>1 DEF Phases, Busy
<1>2. ASSUME \A w \in Writers : call'[w] = Idle
      PROVE  Phases'
  BY <1>2 DEF Phases, Idle
<1>3. ASSUME NEW w \in Writers, Transact(w)
      PROVE  Phases'
  BY <1>1, <1>3 DEF Transact, Busy
<1>4. ASSUME NEW w \in Writers, AskSave(w)
      PROVE  Phases'
  BY <1>1, <1>4 DEF AskSave, Busy, Idle
<1>5. ASSUME NEW w \in Writers, UpdateState(w)
      PROVE  Phases'
  BY <1>1, <1>5 DEF UpdateState, Busy, Idle
<1>6. CASE SetCookies \/ Expire
  BY <1>1, <1>6 DEF SetCookies, Expire
<1>7. CASE Ends \/ Crash \/ PowerFails
  BY <1>2, <1>7 DEF Ends, Crash, PowerFails, Stops
<1>8. CASE Damage \/ StartCorruptFails \/ Starts
  BY <1>2, <1>8 DEF Damage, StartCorruptFails, Starts, Start,
     StartCorrupt, Mutex
<1>9. ASSUME NEW w \in Writers, SaveStep(w) \/ CallFails(w)
      PROVE  Phases'
  <2>1. CASE TakeMutex(w)
    <3>1. \A v \in Writers : ~Busy(v)
      BY <2>1, StoreAssumption DEF TakeMutex, Mutex
    <3> QED
      BY <2>1, <3>1 DEF TakeMutex, Phases, Busy
  <2>2. ASSUME Busy(w)
        PROVE  \A v \in Writers : v # w => call[v].at \in {"idle", "waits"}
    BY <2>2, OnlyOne DEF Busy
  <2>3. CASE WriteTemp(w)
    BY <2>2, <2>3 DEF WriteTemp, Goes, Busy, Phases, Unwritten
  <2>4. CASE SyncTemp(w)
    BY <2>2, <2>4 DEF SyncTemp, Goes, Busy, Phases, Unwritten
  <2>5. CASE Rotate(w)
    <3>1. Busy(w) /\ flushed' /\ disk' = [disk EXCEPT !.backup = disk'.backup]
      BY <2>5 DEF Rotate, Goes, Busy, Phases, ElseSame, Unwritten, Writes, Disks
    <3>2. call' \in [Writers -> Calls] /\ \A v \in Writers : v # w => call'[v] = call[v]
      BY <2>5 DEF Rotate, Goes
    <3>3. \/ call'[w].at = "replace" /\ disk'.primary = NoFile
          \/ call'[w].at = "backup" /\ disk'.primary # NoFile /\ disk'.backup = NoFile
      <4>1. CASE disk.primary = NoFile /\ Unwritten /\ Goes(w, "rotate", "replace")
        BY <4>1 DEF Goes, Unwritten
      <4>2. CASE /\ disk.primary # NoFile /\ Goes(w, "rotate", "backup")
                 /\ Writes([disk EXCEPT !.backup = NoFile])
        BY <4>2 DEF Goes, Writes, Disks
      <4> QED
        BY <2>5, <4>1, <4>2 DEF Rotate
    <3> QED
      BY <2>2, <3>1, <3>2, <3>3 DEF Phases
  <2>6. CASE MoveToBackup(w)
    BY <2>2, <2>6 DEF MoveToBackup, Goes, Busy, Phases, Writes
  <2>7. CASE Replace(w)
    <3>1. disk'.primary = call[w].data /\ Busy(w)
      BY <2>7 DEF Replace, Goes, Disks, Busy
    <3> QED
      BY <2>2, <2>7, <3>1 DEF Replace, Goes, Phases
  <2>8. CASE RemoveBackup(w)
    <3>1. disk'.primary = disk.primary /\ disk'.backup = NoFile /\ Busy(w)
      BY <2>8 DEF RemoveBackup, Goes, Writes, Disks, Busy
    <3>2. disk.primary = call[w].data
      BY <2>8 DEF RemoveBackup, Goes, Phases
    <3> QED
      BY <2>2, <2>8, <3>1, <3>2 DEF RemoveBackup, Goes, Phases
  <2>9. CASE ReturnSaved(w) \/ ReturnFailed(w) \/ CallFails(w)
    <3>1. Busy(w) /\ \A v \in Writers : v # w => call'[v] = call[v]
      BY <2>9 DEF ReturnSaved, ReturnFailed, CallFails, Busy
    <3>2. call'[w].at \in {"idle", "failed"}
      <4>1. CASE ReturnSaved(w) \/ ReturnFailed(w)
        BY <4>1 DEF ReturnSaved, ReturnFailed, Idle
      <4>2. CASE CallFails(w)
        BY <4>2 DEF CallFails, Calls
      <4> QED
        BY <2>9, <4>1, <4>2
    <3> QED
      BY <2>2, <3>1, <3>2 DEF Phases
  <2> QED
    BY <1>9, <2>1, <2>3, <2>4, <2>5, <2>6, <2>7, <2>8, <2>9 DEF SaveStep
<1> QED
  BY <1>3, <1>4, <1>5, <1>6, <1>7, <1>8, <1>9, SaversType DEF Next, Environment

\* A save that returns leaves its data in the file, and no backup.
LEMMA SavedFiles ==
    ASSUME Types, Phases, NEW w \in Writers, ReturnSaved(w)
    PROVE  /\ Sound(disk) /\ Loaded(disk) = call[w].data
           /\ disk' = disk /\ expired' = expired /\ acked' = Newest(acked, call[w].asked)
           /\ \/ survivors' = {disk} /\ durable' = acked' /\ tampered' = FALSE
              \/ UNCHANGED <<survivors, durable, tampered>>
<1>1. /\ disk.primary = call[w].data /\ call[w].data \in Contents
      /\ disk.backup = NoFile /\ disk \in Disks
  BY DEF ReturnSaved, Phases, Types, Calls
<1> QED
  BY <1>1, LoadedType DEF ReturnSaved, Sound

LEMMA CleanStep ==
    ASSUME Types, Phases, Clean, Next
    PROVE  Clean'
<1>1. CASE Still
  BY <1>1 DEF Still, Clean, Sound
<1>2. CASE Strays
  BY <1>2 DEF Strays, Astray, Clean
<1>3. CASE PowerFails
  BY <1>3 DEF PowerFails, Clean, Sound
<1>4. ASSUME NEW w \in Writers, Saving(w)
      PROVE  Clean'
  BY <1>4 DEF Saving, Clean, Sound, Types
<1>5. ASSUME NEW w \in Writers, ReturnSaved(w)
      PROVE  Clean'
  <2>1. /\ Sound(disk) /\ disk' = disk
        /\ \/ survivors' = {disk} /\ tampered' = FALSE
           \/ UNCHANGED <<survivors, durable, tampered>>
    BY <1>5, SavedFiles
  <2> QED
    BY <2>1 DEF Clean, Sound
<1> QED
  BY <1>1, <1>2, <1>3, <1>4, <1>5, FilesStep

-----------------------------------------------------------------------------
(* What is owed.                                                           *)

LEMMA CoversTransitive ==
    ASSUME NEW l \in Contents, NEW m \in Contents, NEW n \in Contents,
           Covers(l, m), Covers(m, n), expired \subseteq Keys
    PROVE  Covers(l, n)
BY Versions DEF Covers

\* The data of a save under way and what is owed of it are not touched by a
\* step of anything but the owner.
LEMMA OwedKept ==
    ASSUME Types, Types', Owed, expired \subseteq expired', store' = store,
           acked' = acked, AtMost(durable', acked'),
           running' => running,
           \A k \in Keys \ expired' : memory[k] <= memory'[k],
           \A w \in Writers :
              \/ call'[w] = call[w]
              \/ ~Busy(w)' /\ call'[w].asked = Empty
              \/ call'[w].data = call[w].data /\ call'[w].asked = call[w].asked
                 /\ Busy(w)
    PROVE  Owed'
<1>1. memory \in Contents /\ memory' \in Contents /\ acked \in Contents
      /\ \A w \in Writers : /\ call[w].asked \in Contents /\ call'[w].asked \in Contents
                            /\ call[w].data \in Contents /\ call'[w].data \in Contents
  BY DEF Types, Calls
<1>2. ASSUME NEW m \in Contents, NEW n \in Contents, Covers(m, n)
      PROVE  \A k \in Keys \ expired' : n[k] <= m[k]
  BY <1>2 DEF Covers
<1>3. ASSUME NEW n \in Contents, Covers(memory, n)
      PROVE  \A k \in Keys \ expired' : n[k] <= memory'[k]
  <2>1. ASSUME NEW k \in Keys \ expired'
        PROVE  n[k] <= memory[k] /\ memory[k] <= memory'[k]
    BY <1>3, <2>1 DEF Covers
  <2> QED
    BY <1>1, <2>1, Versions
<1>4. running' => Covers(memory, acked)'
  BY <1>1, <1>3 DEF Covers, Owed
<1>5. ASSUME NEW w \in Writers
      PROVE  /\ Covers(memory, call[w].asked)'
             /\ Busy(w)' => Covers(call[w].data, acked)' /\ Covers(call[w].data, call[w].asked)'
             /\ store = "state" => call'[w].asked = Empty
  <2>1. CASE ~Busy(w)' /\ call'[w].asked = Empty
    BY <2>1, <1>1, EmptyType, Versions DEF Covers
  <2>2. CASE call'[w].data = call[w].data /\ call'[w].asked = call[w].asked
             /\ (Busy(w)' => Busy(w))
    BY <2>2, <1>1, <1>2, <1>3 DEF Owed, Covers
  <2> QED
    BY <2>1, <2>2 DEF Busy
<1> QED
  BY <1>4, <1>5 DEF Owed

\* Nobody saves after the step.
LEMMA OwedIdle ==
    ASSUME Types', \A w \in Writers : call'[w] = Idle,
           AtMost(durable', acked'), store = "state" => acked' = Empty, store' = store,
           running' => Covers(memory, acked)'
    PROVE  Owed'
<1>1. \A k \in Keys : memory'[k] \in Nat /\ Idle.asked[k] = 0
  BY Versions, EmptyType DEF Types, Idle
<1> QED
  BY <1>1 DEF Owed, Busy, Idle, Covers

\* What Record changes is not less than before.
LEMMA TransactCovers ==
    ASSUME Types, NEW w \in Writers, Transact(w)
    PROVE  Covers(memory', memory)
<1> USE DEF Types
<1>1. CASE memory' = Unexpired(memory)
  BY <1>1, Dropped
<1>2. ASSUME NEW k \in Keys, NEW v \in 1 .. MaxVersion,
             memory' = [memory EXCEPT ![k] = IF v > @ THEN v ELSE @]
      PROVE  Covers(memory', memory)
  BY <1>2, Versions DEF Contents, Covers
<1> QED
  BY <1>1, <1>2 DEF Transact

LEMMA OwedStep ==
    ASSUME Types, Mutex, Owed, Undone, AckedKept, Next, Types', Mutex'
    PROVE  Owed'
<1> USE DEF Types
<1>1. /\ \A m \in Contents : AtMost(m, m)
      /\ \A m \in Contents : AtMost(Empty, m)
      /\ \A k \in Keys : memory[k] <= memory[k]
      /\ \A w \in Writers : call[w] \in Calls
  BY Versions, EmptyType DEF AtMost
<1>2. AtMost(durable, acked)
  BY DEF Owed
<1>3. ASSUME NEW w \in Writers, Transact(w)
      PROVE  Owed'
  <2>1. store' = store /\ store # "state" /\ acked' = acked /\ durable' = durable
        /\ expired' = expired
    BY <1>3 DEF Transact, Transactional
  <2>3. Covers(memory', memory)
    BY <1>3, TransactCovers
  <2>4. Covers(memory', acked) /\ \A v \in Writers : Covers(memory', call[v].asked)
    <3>1. Covers(memory, acked)
      BY <1>3 DEF Transact, Owed
    <3>2. \A v \in Writers : Covers(memory, call[v].asked) /\ call[v].asked \in Contents
      BY <1>1 DEF Owed, Calls
    <3> QED
      BY <2>3, <3>1, <3>2, CoversTransitive
  <2>5. Covers(memory', memory')
    BY Versions DEF Covers
  <2>6. call'[w].data = memory' /\ call'[w].asked = memory'
        /\ \A v \in Writers : v # w => call'[v] = call[v] /\ ~Busy(v)'
    BY <1>3, StoreAssumption DEF Transact, Mutex, Busy
  <2> QED
    BY <1>2, <2>1, <2>4, <2>5, <2>6 DEF Owed, Covers
<1>4. ASSUME NEW w \in Writers, AskSave(w)
      PROVE  Owed'
  <2>1. Covers(memory', memory)
    BY <1>1, <1>4 DEF AskSave, Covers
  <2>2. call'[w].asked = memory /\ ~Busy(w)' /\ \A v \in Writers : v # w => call'[v] = call[v]
    BY <1>4 DEF AskSave, Busy, Idle
  <2> QED
    BY <1>4, <2>1, <2>2 DEF AskSave, Owed, Covers, Busy
<1>5. ASSUME NEW w \in Writers, UpdateState(w)
      PROVE  Owed'
  <2>1. \A k \in Keys : memory[k] <= memory'[k]
    BY <1>5, Bumped DEF UpdateState, AtMost
  <2>2. call'[w].at = "waits" /\ call'[w].asked = Empty
        /\ \A v \in Writers : v # w => call'[v] = call[v]
    BY <1>5 DEF UpdateState, Idle
  <2>3. \A v \in Writers : call'[v] = call[v] \/ (~Busy(v)' /\ call'[v].asked = Empty)
    BY <2>2 DEF Busy
  <2> QED
    BY <1>2, <1>5, <2>1, <2>3, OwedKept DEF UpdateState
<1>6. CASE SetCookies
  <2>1. \A k \in Keys : memory[k] <= memory'[k]
    BY <1>6, Bumped DEF SetCookies, AtMost
  <2> QED
    BY <1>2, <1>6, <2>1, OwedKept DEF SetCookies
<1>7. CASE Expire
  BY <1>1, <1>2, <1>7, OwedKept DEF Expire
<1>8. CASE Ends \/ Crash \/ PowerFails
  <2>1. \A w \in Writers : call'[w] = Idle
    BY <1>8 DEF Ends, Crash, PowerFails, Stops
  <2>2. AtMost(durable', acked') /\ (store = "state" => acked' = Empty)
    <3>1. CASE acked' = acked /\ durable' = durable
      BY <3>1, <1>2 DEF Owed
    <3>2. CASE acked' = durable /\ durable' = durable
      <4>1. store = "state" => durable = Empty
        <5>1. ASSUME acked = Empty
              PROVE  \A k \in Keys : durable[k] = 0
          BY <5>1, <1>2, Versions, EmptyType DEF AtMost
        <5>2. ASSUME \A k \in Keys : durable[k] = 0
              PROVE  durable = Empty
          BY <5>2 DEF Contents, Empty
        <5> QED
          BY <5>1, <5>2 DEF Owed
      <4> QED
        BY <3>2, <1>1, <4>1
    <3> QED
      BY <1>8, <3>1, <3>2 DEF Ends, Crash, PowerFails
  <2> QED
    BY <1>8, <2>1, <2>2, OwedIdle DEF Ends, Crash, PowerFails, Stops
<1>9. CASE Damage \/ StartCorruptFails \/ StartCorrupt
  <2>1. \A w \in Writers : call'[w] = Idle
    BY <1>9 DEF Damage, StartCorruptFails, StartCorrupt, Mutex
  <2>2. acked' = Empty /\ durable' = Empty /\ store' = store
    BY <1>9 DEF Damage, StartCorruptFails, StartCorrupt, Astray
  <2>3. Covers(memory, acked)' /\ AtMost(durable', acked')
    BY <2>2, EmptyType, Versions DEF Covers, AtMost
  <2> QED
    BY <2>1, <2>2, <2>3, OwedIdle
<1>10. CASE Start
  <2>1. \A w \in Writers : call'[w] = Idle
    BY <1>10 DEF Start, Mutex
  <2>2. ASSUME NEW k \in Keys \ expired
        PROVE  acked[k] <= memory'[k]
    <3>1. acked[k] > 0 => Loaded(disk) \in Contents /\ acked[k] <= Loaded(disk)[k]
      BY <2>2 DEF AckedKept, Kept
    <3>2. Loaded(disk) \in Contents => memory'[k] = Loaded(disk)[k]
      BY <1>10, <2>2 DEF Start, Unexpired
    <3> QED
      BY <3>1, <3>2, Versions
  <2> QED
    BY <1>2, <1>10, <2>1, <2>2, OwedIdle DEF Start, Owed, Covers
<1>11. ASSUME NEW w \in Writers, SaveStep(w) \/ CallFails(w)
       PROVE  Owed'
  <2>1. CASE TakeMutex(w)
    <3>1. store = "cookies" \/ store = "state"
      BY <2>1, StoreAssumption DEF TakeMutex, Undone, Transactional
    <3>2. Covers(Copy(w), acked) /\ Covers(Copy(w), call[w].asked)
      <4>1. CASE store = "cookies"
        <5>1. running
          BY <2>1 DEF TakeMutex, Mutex, Idle
        <5>2. Covers(memory, acked) /\ Covers(memory, call[w].asked)
          BY <5>1 DEF Owed
        <5>3. Copy(w) \in Contents /\ Covers(Copy(w), memory)
          BY <4>1, Dropped DEF Copy
        <5> QED
          BY <1>1, <5>2, <5>3, CoversTransitive DEF Calls
      <4>2. CASE store = "state"
        BY <1>1, <4>2, EmptyType, Versions DEF Owed, Covers, Copy, Calls
      <4> QED
        BY <3>1, <4>1, <4>2
    <3>3. call'[w].data = Copy(w) /\ call'[w].asked = call[w].asked
          /\ \A v \in Writers : v # w => call'[v] = call[v]
      BY <2>1 DEF TakeMutex
    <3> QED
      BY <2>1, <3>2, <3>3 DEF TakeMutex, Owed, Covers, Busy
  <2>2. CASE WriteTemp(w) \/ SyncTemp(w) \/ Rotate(w) \/ MoveToBackup(w)
             \/ Replace(w) \/ RemoveBackup(w) \/ CallFails(w)
    <3>1. ElseSame
      BY <2>2 DEF WriteTemp, SyncTemp, Rotate, MoveToBackup, Replace, RemoveBackup,
         CallFails
    <3>2. /\ Busy(w) /\ call'[w].data = call[w].data /\ call'[w].asked = call[w].asked
          /\ \A v \in Writers : v # w => call'[v] = call[v]
      BY <2>2 DEF WriteTemp, SyncTemp, Rotate, MoveToBackup, Replace, RemoveBackup,
         CallFails, Goes, Busy, Calls
    <3> QED
      BY <1>1, <1>2, <3>1, <3>2, OwedKept DEF ElseSame
  <2>3. CASE ReturnSaved(w)
    <3>1. /\ running /\ Covers(memory, acked) /\ Covers(memory, call[w].asked)
          /\ memory' = memory /\ expired' = expired /\ store' = store
      BY <2>3, OnlyOne DEF ReturnSaved, Busy, Owed
    <3>2. Covers(memory', acked')
      BY <2>3, <3>1, NewestType, <1>1 DEF ReturnSaved, Covers, Calls
    <3>3. \A v \in Writers : ~Busy(v)' /\ (call'[v] = call[v] \/ call'[v] = Idle)
      BY <2>3, StoreAssumption DEF ReturnSaved, Mutex, Busy
    <3>4. AtMost(durable', acked')
      <4>1. AtMost(acked, acked') /\ acked' \in Contents
        BY <2>3, <1>1, NewestType DEF ReturnSaved, Calls
      <4>2. durable' \in {durable, acked'}
        BY <2>3 DEF ReturnSaved
      <4> QED
        BY <1>1, <1>2, <4>1, <4>2, Versions DEF AtMost
    <3>5. store = "state" => acked' = Empty
      <4>1. ASSUME store = "state"
            PROVE  \A k \in Keys : acked'[k] = 0
        BY <2>3, <4>1, NewestType, EmptyType, <1>1 DEF ReturnSaved, Owed, Calls
      <4>2. acked' = [k \in Keys |-> acked'[k]]
        BY DEF Contents
      <4> QED
        BY <4>1, <4>2 DEF Empty
    <3>6. Covers(memory', Empty)
      BY EmptyType, Versions DEF Covers
    <3> QED
      BY <3>1, <3>2, <3>3, <3>4, <3>5, <3>6 DEF Owed, Covers, Idle
  <2>4. CASE ReturnFailed(w)
    <3>1. /\ acked' = acked /\ durable' = durable /\ store' = store /\ expired' = expired
          /\ running' = running
      BY <2>4 DEF ReturnFailed
    <3>2. \A v \in Writers : (call'[v] = call[v] /\ v # w) \/ call'[v] = Idle
      BY <2>4 DEF ReturnFailed
    <3>3. CASE store \in Transactional
      <4>1. \A v \in Writers : call'[v] = Idle
        BY <2>4, <3>2, <3>3, OnlyOne DEF ReturnFailed, Busy, Undone, Mutex
      <4>2. Covers(memory', acked')
        BY <2>4, <3>1, <3>3 DEF ReturnFailed, Undone, Busy
      <4> QED
        BY <1>2, <3>1, <4>1, <4>2, OwedIdle DEF Covers, Owed
    <3>4. CASE store \notin Transactional
      <4>1. \A v \in Writers : call'[v] = call[v] \/ (~Busy(v)' /\ call'[v].asked = Empty)
        <5>1. Idle.at = "idle" /\ Idle.asked = Empty
          BY DEF Idle
        <5> QED
          BY <3>2, <5>1 DEF Busy
      <4> QED
        BY <1>1, <1>2, <2>4, <3>1, <3>4, <4>1, OwedKept DEF ReturnFailed
    <3> QED
      BY <3>3, <3>4
  <2> QED
    BY <1>11, <2>1, <2>2, <2>3, <2>4 DEF SaveStep
<1> QED
  BY <1>3, <1>4, <1>5, <1>6, <1>7, <1>8, <1>9, <1>10, <1>11, SaversType
     DEF Next, Environment, Starts

-----------------------------------------------------------------------------
(* What is found again.                                                    *)

LEMMA KeptStep ==
    ASSUME Types, Mutex, Phases, Clean, Owed, AckedKept, DurableKept, Next, Types'
    PROVE  AckedKept' /\ DurableKept'
<1>1. AtMost(durable, acked) /\ acked \in Contents /\ durable \in Contents
      /\ acked' \in Contents /\ durable' \in Contents
  BY DEF Owed, Types
<1>2. \A k \in Keys : acked[k] \in Nat /\ durable[k] \in Nat /\ durable[k] <= acked[k]
  BY <1>1, Versions DEF AtMost
<1>3. CASE Still
  BY <1>3 DEF Still, AckedKept, DurableKept, Kept
<1>4. CASE Strays
  BY <1>4, EmptyType DEF Strays, Astray, AckedKept, DurableKept, Kept
<1>5. CASE PowerFails
  BY <1>5 DEF PowerFails, AckedKept, DurableKept, Kept
<1>6. ASSUME NEW w \in Writers, Saving(w)
      PROVE  AckedKept' /\ DurableKept'
  <2>1. ASSUME NEW k \in Keys \ expired, acked[k] > 0
        PROVE  Loaded(disk') \in Contents /\ acked[k] <= Loaded(disk')[k]
    <3>1. Sound(disk)
      BY <2>1, EmptyType DEF Clean
    <3>2. CASE Loaded(disk') = Loaded(disk)
      BY <2>1, <3>2 DEF AckedKept, Kept
    <3>3. CASE call[w].at = "replace" /\ Loaded(disk') = call[w].data
      BY <1>6, <2>1, <3>3 DEF Saving, Owed, Covers, Types, Calls
    <3> QED
      BY <1>6, <3>1, <3>2, <3>3 DEF Saving
  <2>2. AckedKept'
    BY <1>6, <2>1 DEF Saving, AckedKept, Kept
  <2>3. ASSUME NEW k \in Keys \ expired, durable[k] > 0
        PROVE  Loaded(disk') \in Contents /\ durable[k] <= Loaded(disk')[k]
    <3>1. acked[k] > 0
      BY <2>3, <1>2
    <3>2. Loaded(disk') \in Contents /\ acked[k] <= Loaded(disk')[k]
      BY <2>3, <3>1, <2>1
    <3> QED
      BY <3>2, <1>2, Versions
  <2> QED
    BY <1>6, <2>2, <2>3 DEF Saving, DurableKept, Kept
<1>7. ASSUME NEW w \in Writers, ReturnSaved(w)
      PROVE  AckedKept' /\ DurableKept'
  <2>1. Busy(w) /\ call[w].data \in Contents /\ call[w].asked \in Contents
    BY <1>7 DEF ReturnSaved, Busy, Types, Calls
  <2>2. /\ Loaded(disk) = call[w].data /\ disk' = disk /\ expired' = expired
        /\ acked' = Newest(acked, call[w].asked)
        /\ \/ survivors' = {disk} /\ durable' = acked'
           \/ UNCHANGED <<survivors, durable>>
    BY <1>7, SavedFiles
  <2>3. \A k \in Keys \ expired : acked'[k] <= Loaded(disk')[k]
    BY <1>1, <2>1, <2>2, NewestType DEF Owed, Covers
  <2>4. AckedKept'
    BY <2>1, <2>2, <2>3 DEF AckedKept, Kept
  <2> QED
    BY <2>2, <2>4 DEF AckedKept, DurableKept, Kept
<1> QED
  BY <1>3, <1>4, <1>5, <1>6, <1>7, FilesStep

\* Of an undamaged file everything that was loaded is there.
LEMMA LoadedKept ==
    ASSUME Types, NEW m \in Contents, Loaded(disk) \in Contents,
           Covers(Loaded(disk), m)
    PROVE  Kept(m, disk)
BY DEF Covers, Kept

\* A save under way keeps what is kept of m, if its data do.
LEMMA SavingKept ==
    ASSUME Types, Clean, NEW m \in Contents, NEW w \in Writers, Saving(w), ~tampered,
           Kept(m, disk), Covers(call[w].data, m)
    PROVE  \A k \in Keys \ expired' :
              m[k] > 0 => Loaded(disk') \in Contents /\ m[k] <= Loaded(disk')[k]
<1>1. Sound(disk) /\ call[w].data \in Contents /\ expired' = expired
  BY DEF Clean, Types, Saving, Calls
<1>2. CASE Loaded(disk') = Loaded(disk)
  BY <1>1, <1>2 DEF Kept
<1>3. CASE Loaded(disk') = call[w].data
  BY <1>1, <1>3 DEF Covers
<1> QED
  BY <1>1, <1>2, <1>3 DEF Saving

\* Nobody saves after the step, and what is in memory is kept.
LEMMA UndoneIdle ==
    ASSUME \A w \in Writers : call'[w] = Idle,
           ~tampered' => \A k \in Keys \ expired' :
               memory'[k] > 0 =>
                 Loaded(disk') \in Contents /\ memory'[k] <= Loaded(disk')[k]
    PROVE  Undone' /\ MemorySaved'
BY DEF Undone, MemorySaved, Busy, Idle, Kept

LEMMA UndoneStep ==
    ASSUME Types, Mutex, Phases, Clean, Owed, Undone, MemorySaved, Next, Types', Mutex'
    PROVE  Undone' /\ MemorySaved'
<1> SUFFICES ASSUME store \in Transactional, store' = store
             PROVE  Undone' /\ MemorySaved'
  <2>1. store' = store
    <3>1. ASSUME NEW w \in Writers, SaveStep(w) \/ CallFails(w)
          PROVE  store' = store
      BY <3>1 DEF SaveStep, TakeMutex, WriteTemp, SyncTemp, Rotate, MoveToBackup,
         Replace, RemoveBackup, ReturnSaved, ReturnFailed, CallFails, ElseSame
    <3>2. ASSUME NEW w \in Writers, Transact(w) \/ AskSave(w) \/ UpdateState(w)
          PROVE  store' = store
      BY <3>2 DEF Transact, AskSave, UpdateState
    <3> QED
      BY <3>1, <3>2, SaversType DEF Next, Environment, SetCookies, Expire, Ends, Crash,
         PowerFails, Damage, StartCorruptFails, Starts, Start,
         StartCorrupt
  <2> QED
    BY <2>1 DEF Undone, MemorySaved
<1>1. ASSUME NEW w \in Writers
      PROVE  /\ call[w] \in Calls /\ call[w].at # "waits"
             /\ call[w].data \in Contents /\ call[w].previous \in Contents
  BY DEF Types, Calls, Undone
<1>2. memory \in Contents /\ memory' \in Contents
  BY DEF Types
<1>3. ASSUME NEW w \in Writers, Transact(w)
      PROVE  Undone' /\ MemorySaved'
  <2>1. owner = NoWriter /\ running /\ owner' = w /\ disk' = disk /\ acked' = acked
        /\ expired' = expired /\ tampered' = tampered
    BY <1>3 DEF Transact
  <2>2. Covers(memory, acked) /\ Covers(memory', memory)
    BY <1>3, <2>1, TransactCovers DEF Owed
  <2>3. ~tampered => Kept(memory, disk)
    BY <2>1 DEF MemorySaved
  <2>4. call'[w] = [at |-> "create", data |-> memory', previous |-> memory,
                    asked |-> memory']
        /\ \A v \in Writers : v # w => call'[v] = call[v] /\ ~Busy(v)
    BY <1>3, StoreAssumption DEF Transact, Mutex, Types
  <2>5. MemorySaved'
    BY <2>1, StoreAssumption DEF MemorySaved
  <2>6. ASSUME NEW v \in Writers
        PROVE  /\ call'[v].at # "waits"
               /\ Busy(v)' =>
                    /\ call'[v].data = memory' /\ call'[v].asked = memory'
                    /\ call'[v].previous = memory
    BY <1>1, <2>4 DEF Busy
  <2> QED
    BY <2>1, <2>2, <2>3, <2>5, <2>6 DEF Undone, Covers, Kept
<1>4. CASE Expire
  BY <1>4 DEF Expire, Undone, MemorySaved, Covers, Kept, Busy
<1>5. CASE Ends \/ Crash \/ PowerFails
  BY <1>5, UndoneIdle, EmptyType DEF Ends, Crash, PowerFails, Stops
<1>6. CASE Damage \/ StartCorruptFails \/ StartCorrupt
  BY <1>6, UndoneIdle DEF Damage, StartCorruptFails, StartCorrupt,
     Astray, Mutex
<1>7. CASE Start
  <2>1. store # "cookies"
    BY DEF Transactional
  <2>2. /\ disk' = disk /\ tampered' = tampered /\ \A w \in Writers : call'[w] = Idle
        /\ memory' = Loaded(disk)
    BY <1>7, <2>1 DEF Start, Mutex
  <2>3. \A k \in Keys : memory'[k] <= Loaded(disk)[k]
    BY <1>2, <2>2, Versions
  <2> QED
    BY <1>2, <2>2, <2>3, UndoneIdle
<1>8. ASSUME NEW w \in Writers, SaveStep(w) \/ CallFails(w)
      PROVE  Undone' /\ MemorySaved'
  <2>1. Busy(w) /\ ~TakeMutex(w)
    <3>1. ~TakeMutex(w)
      BY <1>1 DEF TakeMutex
    <3> QED
      BY <1>8, <3>1 DEF SaveStep, WriteTemp, SyncTemp, Rotate, MoveToBackup, Replace,
         RemoveBackup, ReturnSaved, ReturnFailed, CallFails, Goes, Busy
  <2>2. /\ owner = w /\ owner # NoWriter /\ \A v \in Writers : v # w => ~Busy(v)
        /\ \A v \in Writers : v # w => call[v] = Idle
    BY <1>1, <2>1, OnlyOne, StoreAssumption DEF Mutex, Busy
  <2>3. /\ call[w].data = memory /\ call[w].asked = memory
        /\ Covers(call[w].previous, acked) /\ Covers(call[w].data, call[w].previous)
        /\ ~tampered => Kept(call[w].previous, disk)
    BY <2>1 DEF Undone
  <2>4. CASE ReturnSaved(w)
    <3>1. /\ Loaded(disk) = call[w].data /\ disk' = disk /\ memory' = memory
          /\ \A v \in Writers : call'[v] = Idle
      BY <2>2, <2>4, SavedFiles DEF ReturnSaved, Types
    <3>2. \A k \in Keys : memory'[k] <= Loaded(disk)[k]
      BY <1>2, <2>3, <3>1, Versions
    <3> QED
      BY <1>2, <2>3, <3>1, <3>2, UndoneIdle
  <2>5. CASE ReturnFailed(w)
    <3>1. /\ memory' = call[w].previous /\ disk' = disk /\ expired' = expired
          /\ tampered' = tampered /\ \A v \in Writers : call'[v] = Idle
      BY <2>2, <2>5 DEF ReturnFailed, Types
    <3> QED
      BY <2>3, <3>1, UndoneIdle DEF Kept
  <2>6. CASE WriteTemp(w) \/ SyncTemp(w) \/ Rotate(w) \/ MoveToBackup(w)
             \/ Replace(w) \/ RemoveBackup(w) \/ CallFails(w)
    <3>1. ElseSame
      BY <2>6 DEF WriteTemp, SyncTemp, Rotate, MoveToBackup, Replace, RemoveBackup,
         CallFails
    <3>2. /\ call'[w].data = call[w].data /\ call'[w].asked = call[w].asked
          /\ call'[w].previous = call[w].previous /\ call'[w].at # "waits"
          /\ \A v \in Writers : v # w => call'[v] = call[v]
      BY <1>1, <2>6 DEF WriteTemp, SyncTemp, Rotate, MoveToBackup, Replace, RemoveBackup,
         CallFails, Goes, Calls, Types
    <3>3. MemorySaved'
      BY <2>2, <3>1 DEF MemorySaved, ElseSame
    <3>4. ASSUME ~tampered
          PROVE  \A k \in Keys \ expired' :
                    call[w].previous[k] > 0 =>
                       /\ Loaded(disk') \in Contents
                       /\ call[w].previous[k] <= Loaded(disk')[k]
      <4>1. CASE Saving(w)
        BY <1>1, <2>3, <3>4, <4>1, SavingKept
      <4>2. CASE Still
        BY <2>3, <3>4, <4>2 DEF Still, Kept
      <4>3. ~ReturnSaved(w)
        BY <2>6 DEF ReturnSaved, WriteTemp, SyncTemp, Rotate, MoveToBackup, Replace,
           RemoveBackup, CallFails, Goes
      <4> QED
        BY <1>8, <4>1, <4>2, <4>3, SaveFiles
    <3>5. ASSUME NEW v \in Writers, v # w
          PROVE  ~Busy(v)' /\ call'[v].at # "waits"
      BY <1>1, <2>2, <3>2, <3>5 DEF Busy
    <3> QED
      BY <2>3, <3>1, <3>2, <3>3, <3>4, <3>5 DEF ElseSame, Undone, Covers, Kept
  <2> QED
    BY <1>8, <2>1, <2>4, <2>5, <2>6 DEF SaveStep
<1>9. CASE \/ SetCookies
           \/ \E w \in Writers : AskSave(w) \/ UpdateState(w)
  BY <1>9 DEF SetCookies, AskSave, UpdateState, Transactional
<1> QED
  BY <1>3, <1>4, <1>5, <1>6, <1>7, <1>8, <1>9, SaversType DEF Next, Environment, Starts

-----------------------------------------------------------------------------
(* The invariants hold.                                                    *)

LEMMA InitInv == Init => IInv
<1> SUFFICES ASSUME Init PROVE IInv
  OBVIOUS
<1> USE DEF Init
<1>1. disk \in Disks /\ Sound(disk)
  BY DEF Disks, Slots, Sound
<1>2. Types
  <2>1. call \in [Writers -> Calls] /\ faults \in 0 .. MaxFaults
    BY EmptyType, StoreAssumption
  <2>2. survivors \subseteq Disks /\ disk \in survivors
    BY <1>1
  <2> QED
    BY <2>1, <2>2, EmptyType DEF Types
<1>3. Mutex
  BY StoreAssumption DEF Mutex, Busy, Idle
<1>4. Phases /\ Undone /\ Clean
  BY <1>1 DEF Phases, Undone, Busy, Idle, Clean
<1>5. Owed
  BY EmptyType DEF Owed, AtMost, Covers, Busy, Idle
<1>6. AckedKept /\ DurableKept /\ MemorySaved
  BY EmptyType DEF AckedKept, DurableKept, MemorySaved, Kept
<1> QED
  BY <1>2, <1>3, <1>4, <1>5, <1>6 DEF IInv

LEMMA NextInv == IInv /\ [Next]_vars => IInv'
<1> SUFFICES ASSUME IInv, [Next]_vars PROVE IInv'
  OBVIOUS
<1> USE DEF IInv
<1>1. CASE Next
  <2>1. Types' /\ Mutex'
    BY <1>1, TypesStep
  <2>2. Phases' /\ Clean'
    BY <1>1, <2>1, PhasesStep, CleanStep
  <2>3. Owed' /\ AckedKept' /\ DurableKept'
    BY <1>1, <2>1, OwedStep, KeptStep
  <2>4. Undone' /\ MemorySaved'
    BY <1>1, <2>1, UndoneStep
  <2> QED
    BY <2>1, <2>2, <2>3, <2>4
<1>2. CASE UNCHANGED vars
  BY <1>2 DEF vars, Types, Mutex, Phases, Clean, Owed, Undone, AckedKept, DurableKept,
     MemorySaved, Busy, Sound, Covers, Kept
<1> QED
  BY <1>1, <1>2

THEOREM Inductive == Spec => []IInv
BY InitInv, NextInv, PTL DEF Spec

\* Types hold, the mutex has one owner, the goroutine that saves, and nothing is
\* left of a program that does not run.
THEOREM TypeCorrect == Spec => []TypeOK
<1>1. IInv => TypeOK
  BY DEF IInv, Types, Mutex, Busy, TypeOK, Disks, Slots, Calls
<1> QED
  BY <1>1, Inductive, PTL

\* AckedKept: what a caller was told is saved is found again, whenever the
\* program ends, whatever other saves were doing and failed to do.
THEOREM AckedFound == Spec => []AckedKept
<1>1. IInv => AckedKept
  BY DEF IInv
<1> QED
  BY <1>1, Inductive, PTL

\* DurableKept: every disk a power failure may leave holds what was saved when
\* the directory was last flushed, or later.
THEOREM DurableFound == Spec => []DurableKept
<1>1. IInv => DurableKept
  BY DEF IInv
<1> QED
  BY <1>1, Inductive, PTL

\* MemorySaved: between saves Record and RecordProgress think nothing saved that
\* is not in the file.
THEOREM MemoryIsSaved == Spec => []MemorySaved
<1>1. IInv => MemorySaved
  BY DEF IInv
<1> QED
  BY <1>1, Inductive, PTL

-----------------------------------------------------------------------------
(* The calls of SaveJSONFile implement AtomicFile.                         *)

\* AtomicFile's variables for Store's.
Readable == Contents \cup Junk
Content == Loaded(disk)
Possible == {Loaded(d) : d \in survivors}
Writing == IF owner = NoWriter THEN NoWriter ELSE call[owner].data

LEMMA FileTypes ==
    ASSUME Types, Mutex
    PROVE  /\ Content \in Readable /\ Possible \subseteq Readable /\ Content \in Possible
           /\ owner # NoWriter => Writing \in Contents /\ Writing # NoWriter
BY LoadedType, StoreAssumption DEF Types, Mutex, Calls, Content, Possible, Writing, Readable

\* What writing is at every step.
LEMMA WritingStep ==
    ASSUME Types, Mutex, Types', Mutex', Next
    PROVE  \/ Writing' = Writing /\ owner' = owner
           \/ owner = NoWriter /\ Writing' \in Contents /\ Still
           \/ owner' = NoWriter
<1>1. Writing' = (IF owner' = NoWriter THEN NoWriter ELSE call'[owner'].data)
  BY DEF Writing
<1>2. owner' # NoWriter => Writing' \in Contents
  BY <1>1 DEF Types, Mutex, Calls
<1>3. owner' = owner /\ (owner # NoWriter => call'[owner].data = call[owner].data)
      => Writing' = Writing
  BY <1>1 DEF Writing
<1>4. ASSUME NEW w \in Writers, Transact(w)
      PROVE  owner = NoWriter /\ Still /\ owner' # NoWriter
  BY <1>4, StoreAssumption DEF Transact, Still
<1>5. ASSUME NEW w \in Writers, AskSave(w) \/ UpdateState(w)
      PROVE  Writing' = Writing /\ owner' = owner
  <2>1. owner # w
    BY <1>5 DEF AskSave, UpdateState, Mutex, Busy
  <2> QED
    BY <1>3, <1>5, <2>1 DEF AskSave, UpdateState, Types, Mutex
<1>6. ASSUME NEW w \in Writers, SaveStep(w) \/ CallFails(w)
      PROVE  \/ Writing' = Writing /\ owner' = owner
             \/ owner = NoWriter /\ Still /\ owner' # NoWriter
             \/ owner' = NoWriter
  <2>1. CASE TakeMutex(w)
    BY <2>1, StoreAssumption DEF TakeMutex, Still
  <2>2. CASE ReturnSaved(w) \/ ReturnFailed(w)
    BY <2>2 DEF ReturnSaved, ReturnFailed
  <2>3. CASE WriteTemp(w) \/ SyncTemp(w) \/ Rotate(w) \/ MoveToBackup(w)
             \/ Replace(w) \/ RemoveBackup(w) \/ CallFails(w)
    <3>1. ElseSame
      BY <2>3 DEF WriteTemp, SyncTemp, Rotate, MoveToBackup, Replace, RemoveBackup,
         CallFails
    <3>2. \A v \in Writers : call'[v].data = call[v].data
      BY <2>3 DEF WriteTemp, SyncTemp, Rotate, MoveToBackup, Replace, RemoveBackup,
         CallFails, Goes, Calls, Types
    <3> QED
      BY <1>3, <3>1, <3>2 DEF ElseSame, Mutex
  <2> QED
    BY <1>6, <2>1, <2>2, <2>3 DEF SaveStep
<1>7. CASE SetCookies \/ Expire \/ Damage \/ StartCorruptFails \/ Starts
  BY <1>3, <1>7 DEF SetCookies, Expire, Damage, StartCorruptFails,
     Starts, Start, StartCorrupt
<1>8. CASE Ends \/ Crash \/ PowerFails
  BY <1>8 DEF Ends, Crash, PowerFails, Stops
<1> QED
  BY <1>2, <1>4, <1>5, <1>6, <1>7, <1>8, SaversType DEF Next, Environment

LEMMA FileStep ==
    ASSUME IInv, IInv', Next
    PROVE  File!Next \/ UNCHANGED <<Content, Possible, Writing, tampered>>
<1> USE DEF IInv
<1>1. /\ Content \in Readable /\ Possible \subseteq Readable /\ Content \in Possible
      /\ Content' \in Readable /\ Possible' \subseteq Readable
      /\ owner # NoWriter => Writing \in Contents /\ Writing # NoWriter
  <2>1. Content' \in Readable /\ Possible' \subseteq Readable
    BY LoadedType DEF Types, Content, Possible, Readable
  <2> QED
    BY <2>1, FileTypes
<1>2. CASE tampered \/ tampered'
  BY <1>1, <1>2 DEF File!Next, File!Tampering, Content, Possible, Readable
<1>3. ASSUME ~tampered, ~tampered'
      PROVE  File!Next \/ UNCHANGED <<Content, Possible, Writing, tampered>>
  <2>1. \/ Writing' = Writing /\ owner' = owner
        \/ owner = NoWriter /\ Writing' \in Contents /\ Still
        \/ owner' = NoWriter
    BY WritingStep
  <2>2. owner = NoWriter => Writing = NoWriter
    BY DEF Writing
  <2>3. owner' = NoWriter => Writing' = NoWriter
    BY DEF Writing
  <2>4. CASE Still
    <3>1. Content' = Content /\ Possible' = Possible /\ tampered' = tampered
      BY <2>4 DEF Still, Content, Possible
    <3>2. CASE Writing' = Writing
      BY <3>1, <3>2
    <3>3. CASE Writing = NoWriter /\ Writing' \in Contents
      BY <3>1, <3>3 DEF File!Next, File!Begins, Content, Possible, Writing
    <3>4. CASE Writing' = NoWriter
      BY <3>1, <3>4 DEF File!Next, File!Crash, Content, Possible, Writing
    <3> QED
      BY <2>1, <2>2, <2>3, <3>2, <3>3, <3>4
  <2>5. CASE Strays
    BY <1>3, <2>5 DEF Strays, Astray
  <2>6. CASE PowerFails
    <3>1. Content' \in Possible /\ Possible' = {Content'} /\ Writing' = NoWriter
          /\ tampered' = tampered
      BY <2>3, <2>6 DEF PowerFails, Stops, Content, Possible
    <3> QED
      BY <3>1 DEF File!Next, File!PowerFails, Content, Possible, Writing
  <2>7. ASSUME NEW w \in Writers, Saving(w)
        PROVE  File!Next \/ UNCHANGED <<Content, Possible, Writing, tampered>>
    <3>1. Sound(disk) /\ disk \in survivors
      BY <1>3 DEF Clean, Types
    <3>2. owner = w /\ owner # NoWriter /\ owner' = owner
      BY <2>7, OnlyOne, StoreAssumption DEF Saving
    <3>3. Writing' = Writing /\ Writing # NoWriter /\ tampered' = tampered
          /\ Writing = call[w].data
      BY <1>1, <2>1, <2>7, <3>2 DEF Saving, Writing
    <3>4. Possible' = Possible \cup {Content'}
      BY <2>7 DEF Saving, Possible, Content
    <3>5. CASE Content' = Content
      BY <1>1, <3>3, <3>4, <3>5
    <3>6. CASE Content' = Writing
      BY <3>3, <3>4, <3>6 DEF File!Next, File!Replaces, Content, Possible, Writing
    <3> QED
      BY <2>7, <3>1, <3>3, <3>5, <3>6 DEF Saving, Content
  <2>8. ASSUME NEW w \in Writers, ReturnSaved(w)
        PROVE  File!Next \/ UNCHANGED <<Content, Possible, Writing, tampered>>
    <3>1. Writing' = NoWriter
      BY <2>3, <2>8 DEF ReturnSaved
    <3>2. Writing # NoWriter
      BY <1>1, <2>8, OnlyOne, StoreAssumption DEF ReturnSaved, Busy
    <3>3. Content' = Content /\ Possible' \in {Possible, {Content}}
          /\ tampered' \in {tampered, FALSE}
      BY <2>8, SavedFiles DEF Content, Possible
    <3> QED
      BY <3>1, <3>2, <3>3 DEF File!Next, File!Ends, Content, Possible, Writing
  <2> QED
    BY <2>4, <2>5, <2>6, <2>7, <2>8, FilesStep
<1> QED
  BY <1>2, <1>3

\* IsAtomic: a reader finds what the file held before a save or what it holds
\* after, and after a power failure one of the contents since the directory was
\* flushed; so the many steps of SaveJSONFile are AtomicFile's few.
THEOREM ImplementsAtomicFile == Spec => IsAtomic
<1>1. Init => File!Init
  <2> SUFFICES ASSUME Init PROVE File!Init
    OBVIOUS
  <2>1. Loaded(disk) = Empty /\ {Loaded(d) : d \in survivors} = {Loaded(disk)}
    <3>1. disk \in Disks
      BY DEF Init, Disks, Slots
    <3> QED
      BY <3>1, LoadedType DEF Init
  <2> QED
    BY <2>1, EmptyType DEF Init, File!Init
<1>2. IInv /\ IInv' /\ [Next]_vars => [File!Next]_(File!vars)
  <2> SUFFICES ASSUME IInv, IInv', [Next]_vars
               PROVE  File!Next \/ UNCHANGED File!vars
    OBVIOUS
  <2>1. CASE Next
    BY <2>1, FileStep DEF File!vars, Content, Possible, Writing
  <2>2. CASE UNCHANGED vars
    BY <2>2 DEF vars, File!vars
  <2> QED
    BY <2>1, <2>2
<1> QED
  BY <1>1, <1>2, Inductive, PTL DEF Spec, IsAtomic, File!Spec
=============================================================================
