------------------------------- MODULE Store -------------------------------
(***************************************************************************)
(* One JSON file and the store above it: the watch progress, the reward    *)
(* progress, the cookie jar or the state of the application (storage,      *)
(* progress, rewards, httpclient/cookies*.go, app/app.go).  A save is as   *)
(* many steps as it makes calls of the operating system, and the program,  *)
(* or the power, may fail between any two.                                 *)
(***************************************************************************)
EXTENDS Integers

CONSTANTS
    Stores,       \* of "progress", "rewards", "cookies" and "state"
    Keys,         \* drops, campaigns, cookies or fields of the state
    Expirable,    \* those of the keys that expire
    MaxVersion,   \* bound: versions of one of them; minutes in the progress
    Writers,      \* goroutines that save
    NoWriter,
    NoFile,       \* what there is at a path without a file
    Damaged,      \* content json.Unmarshal does not take
    Refused,      \* a jar that is JSON, with a key url.Parse does not take
    Unreadable,   \* a file that is there and cannot be read
    MaxFaults     \* bound: failing calls, crashes, power failures, damages

Contents == [Keys -> 0 .. MaxVersion]
Junk == {Damaged, Refused, Unreadable}
Slots == Contents \cup Junk \cup {NoFile}

ASSUME StoreAssumption ==
    /\ Stores \subseteq {"progress", "rewards", "cookies", "state"}
    /\ Expirable \subseteq Keys /\ MaxVersion \in Nat /\ MaxFaults \in Nat
    /\ Writers # {} /\ NoWriter \notin Writers \cup Contents \cup Junk
    /\ NoFile \notin Junk /\ (Junk \cup {NoFile}) \cap Contents = {}
    /\ Damaged # Refused /\ Damaged # Unreadable /\ Refused # Unreadable

VARIABLES
    store,        \* which one it is
    disk,         \* the file and its backup
    survivors,    \* what the disk may be after a power failure
    running,      \* the program runs, and has loaded the file
    memory,       \* the store's data
    call,         \* by goroutine: the save under way
    owner,        \* who holds the mutex
    flushed,      \* the temporary file's data are on the disk
    expired,      \* entries past their end, cookies past theirs
    acked,        \* history: the versions a caller was told are saved
    durable,      \* history: those of them the directory was flushed with
    tampered,     \* history: someone else has changed the file, or it was put
                  \* aside, and no save has replaced it yet
    faults

vars == <<store, disk, survivors, running, memory, call, owner, flushed, expired,
          acked, durable, tampered, faults>>

Empty == [k \in Keys |-> 0]
Idle == [at |-> "idle", data |-> Empty, previous |-> Empty, asked |-> Empty]

\* The stores that change their data and save them under one mutex, and take
\* the change back when the save fails.
Transactional == {"progress", "rewards"}

\* In those a goroutine that waits for the mutex has done nothing yet, so one
\* of them stands for all.
Savers == IF store \in Transactional THEN {CHOOSE w \in Writers : TRUE} ELSE Writers

AtMost(m, n) == \A k \in Keys : m[k] <= n[k]
Newest(m, n) == [k \in Keys |-> IF m[k] < n[k] THEN n[k] ELSE m[k]]

\* What LoadJSONFile finds: the backup stands in for a file that is missing or
\* cannot be parsed. Damaged is ErrCorrupt and Unreadable another error; that a
\* jar is Refused shows only when Load goes through it.
Loaded(d) ==
    IF d.primary \in {NoFile, Damaged} /\ d.backup \in Contents \cup {Refused}
    THEN d.backup
    ELSE IF d.primary # NoFile THEN d.primary
    ELSE IF d.backup # NoFile THEN d.backup
    ELSE Empty

TypeOK ==
    /\ store \in Stores
    /\ survivors \subseteq [primary : Slots, backup : Slots]
    /\ disk \in survivors
    /\ {memory, acked, durable} \subseteq Contents
    /\ {running, flushed, tampered} \subseteq BOOLEAN
    /\ faults \in 0 .. MaxFaults /\ expired \subseteq Keys
    /\ \A w \in Writers : {call[w].data, call[w].previous, call[w].asked} \subseteq Contents
    /\ \A w \in Writers : owner = w <=> call[w].at \notin {"idle", "waits"}
    /\ running \/ \A w \in Writers : call[w] = Idle

Init ==
    /\ store \in Stores
    /\ disk = [primary |-> NoFile, backup |-> NoFile] /\ survivors = {disk}
    /\ running = FALSE /\ memory = Empty
    /\ call = [w \in Writers |-> Idle] /\ owner = NoWriter
    /\ flushed = FALSE
    /\ expired = {} /\ acked = Empty /\ durable = Empty
    /\ tampered = FALSE /\ faults = 0

Fault == faults < MaxFaults /\ faults' = faults + 1

-----------------------------------------------------------------------------
(* Changing the data and asking for a save *)

Expire ==
    /\ store # "state"
    /\ \E k \in Expirable \ expired : expired' = expired \cup {k}
    /\ UNCHANGED <<store, disk, survivors, running, memory, call, owner, flushed, acked,
                   durable, tampered, faults>>

Unexpired(m) == [k \in Keys |-> IF k \in expired THEN 0 ELSE m[k]]

\* Record and RecordProgress raise one entry under the mutex, PruneExpired
\* drops those past their end. FileStore.Record does nothing for minutes it
\* has; recordProgress saves whatever it is told.
Transact(w) ==
    /\ running /\ store \in Transactional
    /\ call[w].at = "idle" /\ owner = NoWriter
    /\ \/ \E k \in Keys, v \in 1 .. MaxVersion :
            /\ v > memory[k] \/ store = "rewards"
            /\ memory' = [memory EXCEPT ![k] = IF v > @ THEN v ELSE @]
       \/ /\ memory' = Unexpired(memory)
          /\ memory' # memory
    /\ owner' = w
    /\ call' = [call EXCEPT ![w] = [at |-> "create", data |-> memory',
                                    previous |-> memory, asked |-> memory']]
    /\ UNCHANGED <<store, disk, survivors, running, flushed, expired, acked, durable,
                   tampered, faults>>

\* PersistentJar.SetCookies and ClearDomain, under j.mu alone: a save under way
\* does not hold them up. A cookie that is removed is a version too.
SetCookies ==
    /\ running /\ store = "cookies"
    /\ \E k \in Keys :
         /\ memory[k] < MaxVersion
         /\ memory' = [memory EXCEPT ![k] = @ + 1]
    /\ UNCHANGED <<store, expired, disk, survivors, running, call, owner, flushed, acked,
                   durable, tampered, faults>>

\* A goroutine asks the jar to save; what it is owed is what the jar holds now.
AskSave(w) ==
    /\ running /\ store = "cookies" /\ call[w].at = "idle"
    /\ call' = [call EXCEPT ![w] = [Idle EXCEPT !.at = "waits", !.asked = memory]]
    /\ UNCHANGED <<store, expired, disk, survivors, running, memory, owner, flushed, acked,
                   durable, tampered, faults>>

\* App changes its state and takes the copy to save at once, under a.mu. It
\* may have to wait for saveMu with that copy, so nobody is owed its order.
UpdateState(w) ==
    /\ running /\ store = "state" /\ call[w].at = "idle"
    /\ \E k \in Keys :
         /\ memory[k] < MaxVersion
         /\ memory' = [memory EXCEPT ![k] = @ + 1]
    /\ call' = [call EXCEPT ![w] = [Idle EXCEPT !.at = "waits", !.data = memory']]
    /\ UNCHANGED <<store, expired, disk, survivors, running, owner, flushed, acked, durable,
                   tampered, faults>>

\* Mutant: the jar is copied before the mutex is taken.
CopyEarly(w) == IF store = "cookies" THEN call[w].asked ELSE call[w].data

\* saveMu is taken; the jar is copied only now, without expired cookies.
Copy(w) == IF store = "cookies" THEN Unexpired(memory) ELSE call[w].data

TakeMutex(w) ==
    /\ call[w].at = "waits" /\ owner = NoWriter
    /\ owner' = w
    /\ call' = [call EXCEPT ![w].at = "create", ![w].data = Copy(w)]
    /\ UNCHANGED <<store, expired, disk, survivors, running, memory, flushed, acked, durable,
                   tampered, faults>>

-----------------------------------------------------------------------------
(* SaveJSONFile, with the mutex held: one step a call *)

Goes(w, from, to) == call[w].at = from /\ call' = [call EXCEPT ![w].at = to]

\* Only the disk changes; an entry whose directory is not flushed yet may be
\* undone by a power failure.
Writes(d) == disk' = d /\ survivors' = survivors \cup {d}

Unwritten == UNCHANGED <<disk, survivors>>
ElseSame ==
    UNCHANGED <<store, running, memory, owner, expired, acked, durable, tampered>>

\* MkdirAll, CreateTemp and Write.
WriteTemp(w) ==
    /\ Goes(w, "create", "sync")
    /\ flushed' = FALSE
    /\ Unwritten /\ ElseSame /\ UNCHANGED faults

\* Mutant: the temporary file is closed without a Sync.
SyncTempNot(w) ==
    /\ Goes(w, "sync", "rotate")
    /\ Unwritten /\ ElseSame /\ UNCHANGED <<flushed, faults>>

\* Sync and Close.
SyncTemp(w) ==
    /\ Goes(w, "sync", "rotate")
    /\ flushed' = TRUE
    /\ Unwritten /\ ElseSame /\ UNCHANGED faults

\* rotateToBackup: without a file there is nothing to move, and a backup that
\* an interrupted save left stays; with one, the old backup goes first.
Rotate(w) ==
    /\ \/ /\ disk.primary = NoFile
          /\ Goes(w, "rotate", "replace")
          /\ Unwritten
       \/ /\ disk.primary # NoFile
          /\ Goes(w, "rotate", "backup")
          /\ Writes([disk EXCEPT !.backup = NoFile])
    /\ ElseSame /\ UNCHANGED <<flushed, faults>>

\* Mutant: the old file is removed to make room.
MoveToBackupRemoves(w) ==
    /\ Goes(w, "backup", "replace")
    /\ Writes([primary |-> NoFile, backup |-> NoFile])
    /\ ElseSame /\ UNCHANGED <<flushed, faults>>

MoveToBackup(w) ==
    /\ Goes(w, "backup", "replace")
    /\ Writes([primary |-> NoFile, backup |-> disk.primary])
    /\ ElseSame /\ UNCHANGED <<flushed, faults>>

\* The temporary file takes the place of the file. What it holds is safe from
\* a power failure only when it was flushed before.
Replace(w) ==
    /\ Goes(w, "replace", "cleanup")
    /\ disk' = [disk EXCEPT !.primary = call[w].data]
    /\ survivors' = survivors \cup {disk'}
           \cup (IF flushed THEN {} ELSE {[disk EXCEPT !.primary = Damaged]})
    /\ ElseSame /\ UNCHANGED <<flushed, faults>>

RemoveBackup(w) ==
    /\ Goes(w, "cleanup", "flush")
    /\ Writes([disk EXCEPT !.backup = NoFile])
    /\ ElseSame /\ UNCHANGED <<flushed, faults>>

\* syncDir, whose failure nobody notices, and the return: the mutex is given
\* back, and the caller told that its data are saved.
ReturnSaved(w) ==
    /\ call[w].at = "flush"
    /\ call' = [call EXCEPT ![w] = Idle] /\ owner' = NoWriter
    /\ acked' = Newest(acked, call[w].asked)
    /\ \/ /\ survivors' = {disk} /\ durable' = acked' /\ tampered' = FALSE
          /\ UNCHANGED faults
       \/ /\ Fault
          /\ UNCHANGED <<survivors, durable, tampered>>
    /\ UNCHANGED <<store, expired, disk, running, memory, flushed>>

\* A call fails. Only when the last rename fails does the backup go back, if
\* there is one and that succeeds; what RemoveBackup finds missing is no error.
CallFails(w) ==
    /\ Fault
    /\ call[w].at \in {"create", "sync", "rotate", "backup", "replace", "cleanup"}
    /\ call[w].at = "cleanup" => disk.backup # NoFile
    /\ call' = [call EXCEPT ![w].at = "failed"]
    /\ \/ Unwritten
       \/ /\ call[w].at = "replace" /\ disk.backup # NoFile
          /\ Writes([primary |-> disk.backup, backup |-> NoFile])
    /\ ElseSame /\ UNCHANGED flushed

\* Mutant: what was not saved is kept in memory.
ReturnFailedKeeps(w) ==
    /\ call[w].at = "failed"
    /\ call' = [call EXCEPT ![w] = Idle] /\ owner' = NoWriter
    /\ UNCHANGED <<store, expired, disk, survivors, running, memory, flushed, acked,
                   durable, tampered, faults>>

\* The error reaches the store, which forgets what it has not saved, if it is
\* one that does.
ReturnFailed(w) ==
    /\ call[w].at = "failed"
    /\ memory' = IF store \in Transactional THEN call[w].previous ELSE memory
    /\ call' = [call EXCEPT ![w] = Idle] /\ owner' = NoWriter
    /\ UNCHANGED <<store, expired, disk, survivors, running, flushed, acked, durable,
                   tampered, faults>>

SaveStep(w) ==
    \/ TakeMutex(w) \/ WriteTemp(w) \/ SyncTemp(w) \/ Rotate(w) \/ MoveToBackup(w)
    \/ Replace(w) \/ RemoveBackup(w) \/ ReturnSaved(w) \/ ReturnFailed(w)

-----------------------------------------------------------------------------
(* Ends and starts of the program *)

Stops ==
    /\ running' = FALSE /\ memory' = Empty
    /\ call' = [w \in Writers |-> Idle] /\ owner' = NoWriter
    /\ flushed' = FALSE

\* The end of a shutdown, which has waited for the saves.
Ends ==
    /\ running /\ \A w \in Writers : call[w] = Idle
    /\ Stops
    /\ UNCHANGED <<store, expired, disk, survivors, acked, durable, tampered, faults>>

\* The program is killed where it is.
Crash ==
    /\ running /\ Fault /\ Stops
    /\ UNCHANGED <<store, expired, disk, survivors, acked, durable, tampered>>

PowerFails ==
    /\ Fault /\ Stops
    /\ disk' \in survivors /\ survivors' = {disk'}
    /\ acked' = durable
    /\ UNCHANGED <<store, expired, durable, tampered>>

\* Nothing is owed of a file that someone else has changed.
Astray(d) ==
    /\ disk' = d /\ survivors' = {d}
    /\ acked' = Empty /\ durable' = Empty /\ tampered' = TRUE

\* From outside: the file, or its backup, is no JSON any more, no jar, or not
\* readable.
Damage ==
    /\ ~running /\ Fault
    /\ \E junk \in Junk :
         /\ junk = Refused => store = "cookies"
         /\ \/ disk.primary # NoFile /\ Astray([disk EXCEPT !.primary = junk])
            \/ disk.backup # NoFile /\ Astray([disk EXCEPT !.backup = junk])
    /\ UNCHANGED <<store, expired, running, memory, call, owner, flushed>>

\* The file is found, missing files being the default; the jar takes no expired
\* cookies. A jar that is Refused, a state or a jar that cannot be read: each is
\* an error that ends the program, and nothing is put aside.
Start ==
    /\ ~running /\ Loaded(disk) \in Contents
    /\ running' = TRUE
    /\ memory' = IF store = "cookies" THEN Unexpired(Loaded(disk)) ELSE Loaded(disk)
    /\ UNCHANGED <<store, expired, disk, survivors, call, owner, flushed, acked, durable,
                   tampered, faults>>

NoFiles == [primary |-> NoFile, backup |-> NoFile]
CanRead(file) == file \notin {NoFile, Unreadable}

\* Mutant: rewards looks for the file only.
PutAsideFile(d) ==
    CASE store \in {"progress", "cookies"} -> NoFiles
      [] store = "rewards" /\ CanRead(d.primary) -> [d EXCEPT !.primary = NoFile]
      [] OTHER -> d

\* progress and the jar move file and backup aside (QuarantineCorrupt); rewards
\* moves the file, or the backup when there is no file it can read, and has to
\* have moved one; the application leaves all where it is.
PutAside(d) ==
    CASE store \in {"progress", "cookies"} -> NoFiles
      [] store = "rewards" /\ CanRead(d.primary) -> [d EXCEPT !.primary = NoFile]
      [] store = "rewards" /\ ~CanRead(d.primary) /\ CanRead(d.backup) ->
           [d EXCEPT !.backup = NoFile]
      [] OTHER -> d

\* All go on empty after ErrCorrupt, and the two progress stores after any other
\* error as well.
StartCorrupt ==
    /\ ~running
    /\ Loaded(disk) \in (IF store \in Transactional THEN {Damaged, Unreadable} ELSE {Damaged})
    /\ store = "rewards" => PutAside(disk) # disk
    /\ running' = TRUE /\ memory' = Empty
    /\ Astray(PutAside(disk))
    /\ UNCHANGED <<store, expired, call, owner, flushed, faults>>

\* The files cannot be moved aside. That ends the program, except for the jar,
\* which leaves the second where it is, or both.
StartCorruptFails ==
    /\ ~running /\ Loaded(disk) = Damaged /\ Fault
    /\ store = "cookies"
    /\ running' = TRUE /\ memory' = Empty
    /\ \E d \in {disk, [disk EXCEPT !.primary = NoFile]} : Astray(d)
    /\ UNCHANGED <<store, expired, call, owner, flushed>>

Environment ==
    \/ \E w \in Savers : Transact(w) \/ AskSave(w) \/ UpdateState(w) \/ CallFails(w)
    \/ SetCookies \/ Expire
    \/ Ends \/ Crash \/ PowerFails \/ Damage \/ StartCorruptFails

Starts == Start \/ StartCorrupt

Next ==
    \/ Environment
    \/ \E w \in Writers : SaveStep(w)
    \/ Starts

Spec == Init /\ [][Next]_vars

\* The calls of a save come one after the other, sync.Mutex starves nobody, and
\* the program is started again by its operator.
FairSpec ==
    /\ Spec
    /\ \A w \in Writers : SF_vars(TakeMutex(w)) /\ WF_vars(SaveStep(w))
    /\ WF_vars(Starts)

-----------------------------------------------------------------------------
(* Properties *)

Kept(m, d) ==
    \A k \in Keys \ expired :
        m[k] > 0 => Loaded(d) \in Contents /\ m[k] <= Loaded(d)[k]

\* What a caller was told is saved is found again, that version or a later one,
\* whenever the program ends, whatever other saves were doing and failed to do.
AckedKept == Kept(acked, disk)

\* The same after a power failure, once the directory has been flushed: no
\* order of renames and removals leaves a moment without the data.
DurableKept == \A d \in survivors : Kept(durable, d)

\* The progress stores never think more saved than is: a save that failed is
\* taken back, or Record would take the next report of the same minutes for
\* known and never save it. Not so of a file someone else has damaged: what was
\* loaded from its backup is lost when rotateToBackup removes that backup and
\* the save fails.
MemorySaved ==
    store \in Transactional /\ owner = NoWriter /\ ~tampered => Kept(memory, disk)

\* SaveJSONFile and LoadJSONFile make an atomic file of these steps.
File == INSTANCE AtomicFile WITH
    Readable <- Contents \cup Junk,
    Nothing <- NoWriter,
    content <- Loaded(disk),
    possible <- {Loaded(d) : d \in survivors},
    writing <- IF owner = NoWriter THEN NoWriter ELSE call[owner].data
IsAtomic == File!Spec

\* A crash in the middle of a save, a failing rename or files that are no JSON
\* never keep the program from starting again: whatever they left, the store
\* finds something or puts it aside, over and over. Two things do keep it: a jar
\* with a key that is no URL, which is an ordinary error and not ErrCorrupt, and
\* a file that cannot be read.
ComesUp == []<>(running \/ Loaded(disk) \in {Refused, Unreadable})
=============================================================================
