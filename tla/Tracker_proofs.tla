--------------------------- MODULE Tracker_proofs ---------------------------
(***************************************************************************)
(* What TLAPS proves of Tracker, for any channels and any number of checks *)
(* under way.  The argument is that an epoch is never used twice: every    *)
(* epoch is at most the counter, an operation that makes older answers     *)
(* worthless takes a new one, and so a request whose epoch still is the    *)
(* channel's was made after the last such operation (Current).             *)
(***************************************************************************)
EXTENDS Tracker, TLAPS

\* The requests under way.
Asked(r) == \/ r \in sync
            \/ \E k \in Checks : check[k].at = "asking" /\ check[k].request = r

\* No epoch is beyond the counter.
EpochsCounted ==
    /\ \A c \in DOMAIN tracked : tracked[c].epoch <= counter
    /\ \A r \in Requests : Asked(r) => r.epoch <= counter

\* A request that can still be applied is fresh.
Current ==
    \A r \in Requests :
        Asked(r) /\ Known(r.channel) /\ tracked[r.channel].epoch = r.epoch
            => r.fresh

IInv == TypeOK /\ PendingAlive /\ PendingMarked /\ EpochsCounted /\ Current

\* The steps that add or remove a channel or take it offline, those that start
\* a request or end without an answer, and the answers.
CallStep ==
    \E c \in Channels :
        \/ \E stream \in Streams, pending \in BOOLEAN :
              AddChannel(c, stream, pending)
        \/ RemoveChannel(c)
        \/ StreamDown(c)

AnswerStep ==
    \E stream \in Streams :
        \/ \E r \in sync : SyncApplies(r, stream)
        \/ \E k \in Checks : CheckAnswered(k, stream)

QuietStep ==
    \/ \E c \in Channels : CheckOnline(c)
    \/ \E S \in SUBSET Channels : SyncBegin(S)
    \/ \E S \in SUBSET sync : SyncDrops(S)
    \/ Close
    \/ \E k \in Checks : CheckWakes(k) \/ CheckCancelled(k) \/ CheckAsks(k) \/ CheckFails(k)

LEMMA StepKinds == Next => CallStep \/ AnswerStep \/ QuietStep
BY DEF Next, CallStep, AnswerStep, QuietStep, CheckStep

-----------------------------------------------------------------------------
(* Types.                                                                  *)

LEMMA InitInductive == Init => IInv
<1> SUFFICES ASSUME Init PROVE IInv
  OBVIOUS
<1>1. TypeOK
  <2>1. {} \in SUBSET Channels /\ tracked \in [{} -> Entries]
    BY DEF Init
  <2>2. check \in [Checks -> Goroutines]
    BY DEF Init, Goroutines, Requests
  <2>3. counter \in Nat /\ events \in 0..MaxEvents
    BY TrackerAssumption DEF Init
  <2> QED BY <2>1, <2>2, <2>3 DEF Init, TypeOK
<1>2. PendingAlive /\ PendingMarked
  BY DEF Init, PendingAlive, PendingMarked
<1>3. EpochsCounted /\ Current
  BY DEF Init, EpochsCounted, Current, Asked, Known
<1> QED BY <1>1, <1>2, <1>3 DEF IInv

LEMMA PutType ==
    ASSUME TypeOK, NEW c \in Channels, NEW entry \in Entries
    PROVE  /\ \E D \in SUBSET Channels : Put(c, entry) \in [D -> Entries]
           /\ DOMAIN Put(c, entry) = DOMAIN tracked \cup {c}
           /\ Put(c, entry)[c] = entry
           /\ \A d \in DOMAIN tracked : d # c => Put(c, entry)[d] = tracked[d]
<1>1. PICK D \in SUBSET Channels : tracked \in [D -> Entries]
  BY DEF TypeOK
<1>2. DEFINE E == D \cup {c}
<1>3. E \in SUBSET Channels /\ Put(c, entry) \in [E -> Entries]
  BY <1>1 DEF Put
<1> QED BY <1>1, <1>3 DEF Put

LEMMA EntryType ==
    ASSUME TypeOK, NEW c \in DOMAIN tracked
    PROVE  tracked[c] \in Entries /\ c \in Channels
BY DEF TypeOK

LEMMA StaleRequest ==
    ASSUME NEW r \in Requests, NEW c \in Channels
    PROVE  /\ Stale(r, c) \in Requests
           /\ Stale(r, c).channel = r.channel
           /\ Stale(r, c).epoch = r.epoch
           /\ r.channel # c => Stale(r, c) = r
<1> DEFINE b == r.fresh /\ r.channel # c
<1>1. b \in BOOLEAN
  OBVIOUS
<1>2. r.channel # c => b = r.fresh
  BY DEF Requests
<1> HIDE DEF b
<1>3. Stale(r, c) = [r EXCEPT !.fresh = b]
  BY DEF Stale, b
<1> QED BY <1>1, <1>2, <1>3 DEF Requests

LEMMA StaleType ==
    ASSUME TypeOK, NEW c \in Channels
    PROVE  /\ CancelledStale(c) \in [Checks -> Goroutines]
           /\ MadeStale(c) \in [Checks -> Goroutines]
           /\ {Stale(r, c) : r \in sync} \subseteq Requests
<1>1. \A k \in Checks : /\ check[k] \in Goroutines
                        /\ Stale(check[k].request, c) \in Requests
  BY StaleRequest DEF TypeOK, Goroutines
<1>2. ASSUME NEW k \in Checks
      PROVE  [check[k] EXCEPT !.cancelled = check[k].cancelled \/ tracked[c].check = k,
                              !.request = Stale(check[k].request, c)] \in Goroutines
  <2> DEFINE b == check[k].cancelled \/ tracked[c].check = k
  <2>1. b \in BOOLEAN
    OBVIOUS
  <2> HIDE DEF b
  <2>2. [check[k] EXCEPT !.cancelled = b, !.request = Stale(check[k].request, c)]
          \in Goroutines
    BY <1>1, <2>1 DEF Goroutines
  <2> QED BY <2>2 DEF b
<1>3. CancelledStale(c) \in [Checks -> Goroutines]
  BY <1>2, Zenon DEF CancelledStale
<1>4. MadeStale(c) \in [Checks -> Goroutines]
  BY <1>1 DEF MadeStale, Goroutines
<1>5. {Stale(r, c) : r \in sync} \subseteq Requests
  BY StaleRequest DEF TypeOK
<1> QED BY <1>3, <1>4, <1>5

LEMMA ApplyType ==
    ASSUME TypeOK, NEW goroutines \in [Checks -> Goroutines],
           NEW r \in Requests, NEW stream \in Streams,
           Apply(goroutines, r, stream)
    PROVE  /\ \E D \in SUBSET Channels : tracked' \in [D -> Entries]
           /\ DOMAIN tracked' = DOMAIN tracked
           /\ check' \in [Checks -> Goroutines]
<1>1. CASE Known(r.channel) /\ tracked[r.channel].epoch = r.epoch
  <2> DEFINE entry == [tracked[r.channel] EXCEPT !.stream = stream,
                                                 !.pending = FALSE,
                                                 !.check = NoCheck]
  <2>1. r.channel \in Channels /\ entry \in Entries
    BY <1>1, EntryType DEF Known, Entries, Requests
  <2>2. tracked' = Put(r.channel, entry)
    BY <1>1 DEF Apply
  <2>3. \A k \in Checks : [goroutines[k] EXCEPT !.cancelled = TRUE] \in Goroutines
    BY DEF Goroutines
  <2>4. check' \in [Checks -> Goroutines]
    BY <1>1, <2>3 DEF Apply
  <2> HIDE DEF entry
  <2>5. \E D \in SUBSET Channels : tracked' \in [D -> Entries]
    BY <2>1, <2>2, PutType
  <2>6. DOMAIN tracked' = DOMAIN tracked \cup {r.channel}
    BY <2>1, <2>2, PutType
  <2>7. r.channel \in DOMAIN tracked
    BY <1>1 DEF Known
  <2> QED BY <2>4, <2>5, <2>6, <2>7
<1>2. CASE ~(Known(r.channel) /\ tracked[r.channel].epoch = r.epoch)
  BY <1>2 DEF Apply, TypeOK
<1> QED BY <1>1, <1>2

\* The entry AddChannel stores.
Added(c, stream, pending) ==
    IF Known(c)
      THEN [tracked[c] EXCEPT !.stream = IF stream = Offline THEN @ ELSE stream,
                              !.pending = @ \/ pending,
                              !.epoch = counter + 1]
      ELSE [stream |-> stream, pending |-> pending, epoch |-> counter + 1,
            seq |-> 0, check |-> NoCheck]

AddEffect(c, stream, pending) ==
    /\ Event /\ ~closed /\ sync = {}
    /\ counter' = counter + 1
    /\ tracked' = Put(c, Added(c, stream, pending))
    /\ check' = MadeStale(c)
    /\ UNCHANGED <<sync, closed, owed>>

LEMMA AddSteps ==
    ASSUME NEW c, NEW stream, NEW pending, AddChannel(c, stream, pending)
    PROVE  AddEffect(c, stream, pending)
BY Zenon DEF AddChannel, AddEffect, Added

LEMMA AddedType ==
    ASSUME TypeOK, NEW c \in Channels, NEW stream \in Streams,
           NEW pending \in BOOLEAN
    PROVE  /\ Added(c, stream, pending) \in Entries
           /\ Added(c, stream, pending).epoch = counter + 1
           /\ Known(c) =>
                 /\ Added(c, stream, pending).check = tracked[c].check
                 /\ Added(c, stream, pending).seq = tracked[c].seq
                 /\ tracked[c].pending => Added(c, stream, pending).pending
           /\ ~Known(c) => Added(c, stream, pending).check = NoCheck
<1>1. CASE Known(c)
  <2> DEFINE b == tracked[c].pending \/ pending
             s == IF stream = Offline THEN tracked[c].stream ELSE stream
  <2>1. tracked[c] \in Entries
    BY <1>1, EntryType DEF Known
  <2>2. b \in BOOLEAN /\ (tracked[c].pending => b) /\ s \in Streams
    BY <2>1 DEF Entries
  <2>3. Added(c, stream, pending) =
          [tracked[c] EXCEPT !.stream = s, !.pending = b, !.epoch = counter + 1]
    BY <1>1 DEF Added
  <2> HIDE DEF b, s
  <2>4. counter + 1 \in Nat \ {0}
    BY DEF TypeOK
  <2> DEFINE e == [tracked[c] EXCEPT !.stream = s, !.pending = b,
                                     !.epoch = counter + 1]
  <2>5. /\ e \in Entries /\ e.epoch = counter + 1
        /\ e.check = tracked[c].check /\ e.seq = tracked[c].seq
        /\ e.pending = b
    BY <2>1, <2>2, <2>4 DEF Entries
  <2> HIDE DEF e
  <2>6. Added(c, stream, pending) = e
    BY <2>3 DEF e
  <2> QED BY <1>1, <2>2, <2>5, <2>6
<1>2. CASE ~Known(c)
  <2>1. counter + 1 \in Nat \ {0}
    BY DEF TypeOK
  <2> QED BY <1>2, <2>1 DEF Added, Entries
<1> QED BY <1>1, <1>2

LEMMA CallType ==
    ASSUME TypeOK, CallStep
    PROVE  TypeOK'
<1> PICK c \in Channels :
       \/ \E stream \in Streams, pending \in BOOLEAN :
             AddChannel(c, stream, pending)
       \/ RemoveChannel(c)
       \/ StreamDown(c)
  BY DEF CallStep
<1>1. ASSUME NEW stream \in Streams, NEW pending \in BOOLEAN,
             AddChannel(c, stream, pending)
      PROVE  TypeOK'
  <2>1. AddEffect(c, stream, pending)
    BY <1>1, AddSteps
  <2> DEFINE entry == Added(c, stream, pending)
  <2>2. entry \in Entries /\ tracked' = Put(c, entry)
    BY <2>1, AddedType DEF AddEffect
  <2> HIDE DEF entry
  <2>3. /\ \E D \in SUBSET Channels : tracked' \in [D -> Entries]
        /\ DOMAIN tracked \subseteq DOMAIN tracked'
    BY <2>2, PutType
  <2>4. check' \in [Checks -> Goroutines]
    BY <2>1, StaleType DEF AddEffect
  <2>5. counter' \in Nat /\ events' \in 0..MaxEvents
    BY <2>1, TrackerAssumption DEF AddEffect, Event, TypeOK
  <2> QED BY <2>1, <2>3, <2>4, <2>5 DEF AddEffect, TypeOK
<1>2. ASSUME RemoveChannel(c)
      PROVE  TypeOK'
  <2>1. PICK D \in SUBSET Channels : tracked \in [D -> Entries]
    BY DEF TypeOK
  <2>2. D \ {c} \in SUBSET Channels /\ tracked' \in [D \ {c} -> Entries]
    BY <1>2, <2>1 DEF RemoveChannel
  <2>3. check' \in [Checks -> Goroutines]
    BY <1>2, StaleType DEF RemoveChannel
  <2>4. owed' \subseteq DOMAIN tracked' /\ events' \in 0..MaxEvents
    BY <1>2, <2>1, <2>2, TrackerAssumption DEF RemoveChannel, Event, TypeOK
  <2> QED BY <1>2, <2>2, <2>3, <2>4 DEF RemoveChannel, TypeOK
<1>3. ASSUME StreamDown(c)
      PROVE  TypeOK'
  <2> DEFINE entry == [tracked[c] EXCEPT !.stream = Offline, !.pending = FALSE,
                                         !.check = NoCheck, !.epoch = counter + 1]
  <2>0. counter + 1 \in Nat \ {0} /\ tracked[c] \in Entries
    BY <1>3, EntryType DEF StreamDown, Known, TypeOK
  <2>1. entry \in Entries
    BY <2>0 DEF Entries, Streams
  <2>2. tracked' = Put(c, entry)
    BY <1>3 DEF StreamDown
  <2> HIDE DEF entry
  <2>3. /\ \E D \in SUBSET Channels : tracked' \in [D -> Entries]
        /\ DOMAIN tracked \subseteq DOMAIN tracked'
    BY <2>1, <2>2, PutType
  <2>4. check' \in [Checks -> Goroutines] /\ sync' \subseteq Requests
    BY <1>3, StaleType DEF StreamDown
  <2>5. counter' \in Nat /\ events' \in 0..MaxEvents
    BY <1>3, TrackerAssumption DEF StreamDown, Event, TypeOK
  <2> QED BY <1>3, <2>3, <2>4, <2>5 DEF StreamDown, TypeOK
<1> QED BY <1>1, <1>2, <1>3

LEMMA FreeType ==
    ASSUME TypeOK, NEW k \in Checks
    PROVE  /\ Free(k) \in [Checks -> Goroutines]
           /\ Free(k)[k].at = "free"
           /\ \A j \in Checks : j # k => Free(k)[j] = check[j]
           /\ \A j \in Checks : Free(k)[j].request = check[j].request
BY DEF TypeOK, Free, Goroutines

LEMMA AnswerType ==
    ASSUME TypeOK, AnswerStep
    PROVE  TypeOK'
<1> PICK stream \in Streams :
       \/ \E r \in sync : SyncApplies(r, stream)
       \/ \E k \in Checks : CheckAnswered(k, stream)
  BY DEF AnswerStep
<1>1. ASSUME NEW r \in sync, SyncApplies(r, stream)
      PROVE  TypeOK'
  <2>1. r \in Requests /\ check \in [Checks -> Goroutines]
    BY DEF TypeOK
  <2>2. Apply(check, r, stream)
    BY <1>1 DEF SyncApplies
  <2>3. /\ \E D \in SUBSET Channels : tracked' \in [D -> Entries]
        /\ DOMAIN tracked' = DOMAIN tracked
        /\ check' \in [Checks -> Goroutines]
    BY <2>1, <2>2, ApplyType
  <2> QED BY <1>1, <2>3 DEF SyncApplies, TypeOK
<1>2. ASSUME NEW k \in Checks, CheckAnswered(k, stream)
      PROVE  TypeOK'
  <2>1. check[k].request \in Requests /\ Free(k) \in [Checks -> Goroutines]
    BY FreeType DEF TypeOK, Goroutines
  <2>2. Apply(Free(k), check[k].request, stream)
    BY <1>2 DEF CheckAnswered
  <2>3. /\ \E D \in SUBSET Channels : tracked' \in [D -> Entries]
        /\ DOMAIN tracked' = DOMAIN tracked
        /\ check' \in [Checks -> Goroutines]
    BY <2>1, <2>2, ApplyType
  <2> QED BY <1>2, <2>3 DEF CheckAnswered, CheckOnly, TypeOK
<1> QED BY <1>1, <1>2

LEMMA RequestType ==
    ASSUME TypeOK, NEW c \in DOMAIN tracked
    PROVE  RequestFor(c) \in Requests /\ RequestFor(c).channel = c
BY EntryType DEF RequestFor, Requests, Entries

LEMMA EventType ==
    ASSUME TypeOK, Event
    PROVE  events' \in 0..MaxEvents
BY TrackerAssumption DEF TypeOK, Event

LEMMA QuietType ==
    ASSUME TypeOK, QuietStep
    PROVE  TypeOK'
<1>1. ASSUME NEW c \in Channels, CheckOnline(c)
      PROVE  TypeOK'
  <2>1. c \in DOMAIN tracked /\ events' \in 0..MaxEvents
    BY <1>1, EventType, Zenon DEF CheckOnline, Known
  <2>2. CASE tracked[c].check # NoCheck
    BY <1>1, <2>1, <2>2 DEF CheckOnline, TypeOK
  <2>3. CASE tracked[c].check = NoCheck
    <3>1. PICK k \in Checks :
            /\ check' = [check EXCEPT ![k] =
                  [at |-> "asleep", seq |-> tracked[c].seq + 1,
                   cancelled |-> FALSE,
                   request |-> [channel |-> c, epoch |-> 0, fresh |-> FALSE]]]
            /\ tracked' = Put(c, [tracked[c] EXCEPT !.seq = @ + 1,
                                                    !.check = k,
                                                    !.pending = TRUE])
      BY <1>1, <2>3 DEF CheckOnline
    <3> DEFINE entry == [tracked[c] EXCEPT !.seq = @ + 1, !.check = k,
                                           !.pending = TRUE]
    <3>2. tracked[c] \in Entries
      BY <2>1, EntryType
    <3>3. tracked[c].seq + 1 \in Nat
      BY <3>2 DEF Entries
    <3>4. entry \in Entries /\ tracked[c].seq + 1 \in Nat
      BY <3>2, <3>3 DEF Entries
    <3>5. check' \in [Checks -> Goroutines]
      BY <3>1, <3>4 DEF TypeOK, Goroutines, Requests
    <3>6. tracked' = Put(c, entry)
      BY <3>1
    <3> HIDE DEF entry
    <3>7. /\ \E D \in SUBSET Channels : tracked' \in [D -> Entries]
          /\ DOMAIN tracked' = DOMAIN tracked \cup {c}
      BY <3>4, <3>6, PutType
    <3> QED BY <1>1, <2>1, <3>5, <3>7 DEF CheckOnline, TypeOK
  <2> QED BY <2>2, <2>3
<1>2. ASSUME NEW S \in SUBSET Channels, SyncBegin(S)
      PROVE  TypeOK'
  BY <1>2, RequestType, TrackerAssumption DEF SyncBegin, Event, TypeOK
<1>3. ASSUME NEW S \in SUBSET sync, SyncDrops(S)
      PROVE  TypeOK'
  BY <1>3, TrackerAssumption DEF SyncDrops, Event, TypeOK
<1>4. ASSUME Close
      PROVE  TypeOK'
  <2>1. PICK D \in SUBSET Channels : tracked \in [D -> Entries]
    BY DEF TypeOK
  <2>2. tracked' \in [D -> Entries]
    BY <1>4, <2>1 DEF Close, Entries
  <2>3. check' \in [Checks -> Goroutines]
    BY <1>4 DEF Close, TypeOK, Goroutines
  <2>4. owed' = {} /\ events' \in 0..MaxEvents
    BY <1>4, EventType, Zenon DEF Close
  <2> QED BY <1>4, <2>2, <2>3, <2>4 DEF Close, TypeOK
<1>5. ASSUME NEW k \in Checks, CheckWakes(k)
      PROVE  TypeOK'
  BY <1>5 DEF CheckWakes, CheckOnly, TypeOK, Goroutines
<1>6. ASSUME NEW k \in Checks, CheckCancelled(k)
      PROVE  TypeOK'
  BY <1>6, FreeType DEF CheckCancelled, CheckOnly, TypeOK
<1>7. ASSUME NEW k \in Checks, CheckAsks(k)
      PROVE  TypeOK'
  <2> DEFINE c == check[k].request.channel
             taken == Known(c) /\ tracked[c].check # NoCheck
                               /\ tracked[c].seq = check[k].seq
  <2>1. CASE taken
    <3> DEFINE entry == [tracked[c] EXCEPT !.check = NoCheck, !.pending = FALSE]
    <3>1. c \in DOMAIN tracked /\ tracked' = Put(c, entry)
      BY <1>7, <2>1 DEF CheckAsks, Known
    <3>2. c \in Channels /\ entry \in Entries
      BY <3>1, EntryType DEF Entries
    <3>3. check' \in [Checks -> Goroutines] /\ owed' = owed \ {c}
      BY <1>7, <2>1, <3>1, RequestType DEF CheckAsks, TypeOK, Goroutines
    <3> HIDE DEF entry
    <3>4. /\ \E D \in SUBSET Channels : tracked' \in [D -> Entries]
          /\ DOMAIN tracked' = DOMAIN tracked \cup {c}
      BY <3>1, <3>2, PutType
    <3> QED BY <1>7, <3>3, <3>4 DEF CheckAsks, CheckOnly, TypeOK
  <2>2. CASE ~taken
    BY <1>7, <2>2, FreeType DEF CheckAsks, CheckOnly, TypeOK
  <2> QED BY <2>1, <2>2
<1>8. ASSUME NEW k \in Checks, CheckFails(k)
      PROVE  TypeOK'
  BY <1>8, FreeType, TrackerAssumption DEF CheckFails, Event, TypeOK
<1> QED BY <1>1, <1>2, <1>3, <1>4, <1>5, <1>6, <1>7, <1>8 DEF QuietStep

LEMMA TypePreserved == TypeOK /\ [Next]_vars => TypeOK'
<1> SUFFICES ASSUME TypeOK, [Next]_vars PROVE TypeOK'
  OBVIOUS
<1>1. CASE Next
  BY <1>1, StepKinds, CallType, AnswerType, QuietType
<1>2. CASE UNCHANGED vars
  BY <1>2 DEF vars, TypeOK
<1> QED BY <1>1, <1>2

-----------------------------------------------------------------------------
(* Adding, removing, going offline.                                        *)

LEMMA MadeFields ==
    ASSUME TypeOK, NEW c \in Channels, NEW k \in Checks
    PROVE  LET g == MadeStale(c)[k] IN
           /\ g.at = check[k].at /\ g.seq = check[k].seq
           /\ g.cancelled = check[k].cancelled
           /\ g.request = Stale(check[k].request, c)
<1>1. check[k] \in Goroutines
  BY DEF TypeOK
<1>2. MadeStale(c)[k] = [check[k] EXCEPT !.request = Stale(check[k].request, c)]
  BY DEF MadeStale
<1> QED BY <1>1, <1>2 DEF Goroutines

LEMMA CancelledFields ==
    ASSUME TypeOK, NEW c \in Channels, NEW k \in Checks
    PROVE  LET g == CancelledStale(c)[k] IN
           /\ g.at = check[k].at /\ g.seq = check[k].seq
           /\ g.cancelled => check[k].cancelled \/ tracked[c].check = k
           /\ g.request = Stale(check[k].request, c)
<1> DEFINE b == check[k].cancelled \/ tracked[c].check = k
<1>1. check[k] \in Goroutines
  BY DEF TypeOK
<1>2. CancelledStale(c)[k] = [check[k] EXCEPT !.cancelled = b,
                                 !.request = Stale(check[k].request, c)]
  BY Zenon DEF CancelledStale
<1>3. b => check[k].cancelled \/ tracked[c].check = k
  OBVIOUS
<1> HIDE DEF b
<1> DEFINE q == Stale(check[k].request, c)
           g == [check[k] EXCEPT !.cancelled = b, !.request = q]
<1> HIDE DEF q
<1>4. g.at = check[k].at /\ g.seq = check[k].seq /\ g.cancelled = b /\ g.request = q
  BY <1>1 DEF Goroutines
<1> QED BY <1>2, <1>3, <1>4 DEF q

\* No request is made, and those for other channels stay as they are.
LEMMA OldAsked ==
    ASSUME TypeOK, NEW c \in Channels,
           check' \in {MadeStale(c), CancelledStale(c)},
           sync' \in {{}, {Stale(q, c) : q \in sync}},
           NEW r \in Requests, Asked(r)'
    PROVE  \E q \in Requests : /\ Asked(q) /\ q.channel = r.channel
                               /\ q.epoch = r.epoch
                               /\ r.channel # c => q = r
<1>1. CASE r \in sync'
  BY <1>1, StaleRequest DEF Asked, TypeOK
<1>2. ASSUME NEW k \in Checks, check'[k].at = "asking", check'[k].request = r
      PROVE  \E q \in Requests : /\ Asked(q) /\ q.channel = r.channel
                                 /\ q.epoch = r.epoch
                                 /\ r.channel # c => q = r
  <2>1. check[k].at = "asking" /\ r = Stale(check[k].request, c)
    BY <1>2, MadeFields, CancelledFields
  <2>2. check[k].request \in Requests
    BY DEF TypeOK, Goroutines
  <2> QED BY <2>1, <2>2, StaleRequest DEF Asked
<1> QED BY <1>1, <1>2 DEF Asked

\* What adding, removing and going offline have in common, and what they may
\* do to channel c itself.
CallEffect(c) ==
    /\ check' \in {MadeStale(c), CancelledStale(c)}
    /\ sync' \in {{}, {Stale(q, c) : q \in sync}}
    /\ counter' \in {counter, counter + 1}
    /\ \A d \in DOMAIN tracked' : d # c =>
          d \in DOMAIN tracked /\ tracked'[d] = tracked[d]
    /\ check' # MadeStale(c) => Known(c)
    /\ c \in DOMAIN tracked' =>
          /\ counter' = counter + 1 /\ tracked'[c].epoch = counter + 1
          /\ \/ tracked'[c].check = NoCheck
             \/ /\ Known(c) /\ check' = MadeStale(c)
                /\ tracked'[c].check = tracked[c].check
                /\ tracked'[c].seq = tracked[c].seq
                /\ tracked[c].pending => tracked'[c].pending

LEMMA CallInvariant ==
    ASSUME IInv, TypeOK', NEW c \in Channels, CallEffect(c)
    PROVE  IInv'
<1>1. PendingAlive'
  <2> SUFFICES ASSUME NEW d \in DOMAIN tracked', tracked'[d].check # NoCheck
               PROVE  LET k == tracked'[d].check IN
                      /\ check'[k].at \in {"asleep", "awake"}
                      /\ check'[k].request.channel = d
                      /\ check'[k].seq = tracked'[d].seq
                      /\ ~check'[k].cancelled
    BY DEF PendingAlive
  <2> DEFINE k == tracked'[d].check
  <2>1. /\ d \in DOMAIN tracked /\ tracked[d].check = k
        /\ tracked[d].seq = tracked'[d].seq
        /\ d = c => check' = MadeStale(c)
    BY DEF Known, CallEffect
  <2>2. k \in Checks /\ check[k].request \in Requests
    BY <2>1, EntryType DEF IInv, Entries, TypeOK, Goroutines
  <2>3. /\ check[k].at \in {"asleep", "awake"} /\ check[k].request.channel = d
        /\ check[k].seq = tracked[d].seq /\ ~check[k].cancelled
    BY <2>1 DEF IInv, PendingAlive
  <2>4. Known(c) /\ d # c => tracked[c].check # k
    BY <2>1, <2>3 DEF IInv, PendingAlive, Known
  <2>5. CASE check' = MadeStale(c)
    BY <2>1, <2>2, <2>3, <2>5, MadeFields, StaleRequest DEF IInv
  <2>6. CASE check' = CancelledStale(c) /\ check' # MadeStale(c)
    BY <2>1, <2>2, <2>3, <2>4, <2>6, CancelledFields, StaleRequest
    DEF IInv, CallEffect
  <2> QED BY <2>5, <2>6 DEF CallEffect
<1>2. PendingMarked'
  BY DEF CallEffect, IInv, PendingMarked, Known
<1>3. EpochsCounted'
  <2>1. \A d \in DOMAIN tracked' : tracked'[d].epoch <= counter'
    BY EntryType DEF CallEffect, IInv, EpochsCounted, TypeOK, Entries
  <2>2. ASSUME NEW r \in Requests, Asked(r)'
        PROVE  r.epoch <= counter'
    <3>1. PICK q \in Requests : Asked(q) /\ q.epoch = r.epoch
      BY <2>2, OldAsked DEF CallEffect, IInv
    <3>2. q.epoch <= counter /\ q.epoch \in Nat /\ counter \in Nat
      BY <3>1 DEF IInv, EpochsCounted, TypeOK, Requests
    <3> QED BY <3>1, <3>2 DEF CallEffect
  <2> QED BY <2>1, <2>2 DEF EpochsCounted
<1>4. Current'
  <2> SUFFICES ASSUME NEW r \in Requests, Asked(r)', Known(r.channel)',
                      tracked'[r.channel].epoch = r.epoch
               PROVE  r.fresh
    BY DEF Current
  <2>1. PICK q \in Requests : /\ Asked(q) /\ q.channel = r.channel
                              /\ q.epoch = r.epoch /\ (r.channel # c => q = r)
    BY OldAsked DEF CallEffect, IInv
  <2>2. q.epoch <= counter /\ q.epoch \in Nat /\ counter \in Nat
    BY <2>1 DEF IInv, EpochsCounted, TypeOK, Requests
  <2>3. r.channel # c
    BY <2>1, <2>2 DEF CallEffect, Known
  <2> QED BY <2>1, <2>3 DEF CallEffect, IInv, Current, Known
<1> QED BY <1>1, <1>2, <1>3, <1>4 DEF IInv

LEMMA CallInductive ==
    ASSUME IInv, CallStep
    PROVE  IInv'
<1> PICK c \in Channels :
       \/ \E stream \in Streams, pending \in BOOLEAN :
             AddChannel(c, stream, pending)
       \/ RemoveChannel(c)
       \/ StreamDown(c)
  BY DEF CallStep
<1>0. TypeOK /\ TypeOK'
  BY CallType DEF IInv
<1>1. ASSUME NEW stream \in Streams, NEW pending \in BOOLEAN,
             AddChannel(c, stream, pending)
      PROVE  CallEffect(c)
  <2> DEFINE entry == Added(c, stream, pending)
  <2>1. AddEffect(c, stream, pending)
    BY <1>1, AddSteps
  <2>2. /\ entry \in Entries /\ tracked' = Put(c, entry)
        /\ entry.epoch = counter + 1
        /\ Known(c) =>
              /\ entry.check = tracked[c].check /\ entry.seq = tracked[c].seq
              /\ tracked[c].pending => entry.pending
        /\ ~Known(c) => entry.check = NoCheck
    BY <1>0, <2>1, AddedType DEF AddEffect
  <2> HIDE DEF entry
  <2>3. /\ DOMAIN tracked' = DOMAIN tracked \cup {c}
        /\ tracked'[c] = entry
        /\ \A d \in DOMAIN tracked : d # c => tracked'[d] = tracked[d]
    BY <1>0, <2>2, PutType, Zenon
  <2> QED BY <2>1, <2>2, <2>3 DEF AddEffect, CallEffect
<1>2. ASSUME RemoveChannel(c)
      PROVE  CallEffect(c)
  BY <1>2 DEF RemoveChannel, CallEffect
<1>3. ASSUME StreamDown(c)
      PROVE  CallEffect(c)
  <2> DEFINE entry == [tracked[c] EXCEPT !.stream = Offline, !.pending = FALSE,
                                         !.check = NoCheck, !.epoch = counter + 1]
  <2>1. counter + 1 \in Nat \ {0} /\ tracked[c] \in Entries
    BY <1>0, <1>3, EntryType DEF StreamDown, Known, TypeOK
  <2>2. /\ entry \in Entries /\ entry.epoch = counter + 1
        /\ entry.check = NoCheck
    BY <2>1 DEF Entries, Streams
  <2>3. tracked' = Put(c, entry)
    BY <1>3 DEF StreamDown
  <2> HIDE DEF entry
  <2>4. /\ DOMAIN tracked' = DOMAIN tracked \cup {c}
        /\ tracked'[c] = entry
        /\ \A d \in DOMAIN tracked : d # c => tracked'[d] = tracked[d]
    BY <1>0, <2>2, <2>3, PutType, Zenon
  <2> QED BY <1>3, <2>2, <2>4 DEF StreamDown, CallEffect
<1> QED BY <1>0, <1>1, <1>2, <1>3, CallInvariant

-----------------------------------------------------------------------------
(* Requests and answers: no epoch changes.                                 *)

LEMMA EpochsKept ==
    ASSUME IInv, counter' = counter, DOMAIN tracked' = DOMAIN tracked,
           \A c \in DOMAIN tracked : tracked'[c].epoch = tracked[c].epoch,
           \A r \in Requests : Asked(r)' =>
              Asked(r) \/ \E c \in DOMAIN tracked : r = RequestFor(c)
    PROVE  EpochsCounted' /\ Current'
<1>1. \A c \in DOMAIN tracked : /\ RequestFor(c).epoch = tracked[c].epoch
                                /\ RequestFor(c).fresh
  BY DEF RequestFor
<1>2. EpochsCounted'
  BY <1>1, Zenon DEF IInv, EpochsCounted
<1>3. Current'
  BY <1>1, Zenon DEF IInv, Current, Known
<1> QED BY <1>2, <1>3

LEMMA ApplyFields ==
    ASSUME TypeOK, NEW goroutines \in [Checks -> Goroutines],
           NEW r \in Requests, NEW stream \in Streams,
           Apply(goroutines, r, stream)
    PROVE  /\ DOMAIN tracked' = DOMAIN tracked
           /\ \A c \in DOMAIN tracked :
                 /\ tracked'[c].epoch = tracked[c].epoch
                 /\ \/ tracked'[c] = tracked[c]
                    \/ /\ c = r.channel /\ tracked[c].epoch = r.epoch
                       /\ tracked'[c].check = NoCheck
           /\ \A j \in Checks :
                 /\ check'[j].at = goroutines[j].at
                 /\ check'[j].seq = goroutines[j].seq
                 /\ check'[j].request = goroutines[j].request
                 /\ check'[j].cancelled =>
                       \/ goroutines[j].cancelled
                       \/ /\ Known(r.channel) /\ tracked[r.channel].check = j
                          /\ tracked'[r.channel].check = NoCheck
<1>1. CASE Known(r.channel) /\ tracked[r.channel].epoch = r.epoch
  <2> DEFINE old == tracked[r.channel]
             entry == [old EXCEPT !.stream = stream, !.pending = FALSE,
                                  !.check = NoCheck]
  <2>1. r.channel \in Channels /\ r.channel \in DOMAIN tracked /\ old \in Entries
    BY <1>1, EntryType DEF Known, Requests
  <2>2. entry \in Entries /\ entry.epoch = old.epoch /\ entry.check = NoCheck
    BY <2>1 DEF Entries
  <2>3. tracked' = Put(r.channel, entry)
    BY <1>1 DEF Apply
  <2>4. \A j \in Checks :
           check'[j] = IF j = old.check THEN [goroutines[j] EXCEPT !.cancelled = TRUE]
                                        ELSE goroutines[j]
    BY <1>1 DEF Apply
  <2> HIDE DEF entry
  <2>5. /\ DOMAIN tracked' = DOMAIN tracked \cup {r.channel}
        /\ tracked'[r.channel] = entry
        /\ \A d \in DOMAIN tracked : d # r.channel => tracked'[d] = tracked[d]
    BY <2>1, <2>2, <2>3, PutType, Zenon
  <2>6. \A j \in Checks :
           /\ check'[j].at = goroutines[j].at
           /\ check'[j].seq = goroutines[j].seq
           /\ check'[j].request = goroutines[j].request
           /\ check'[j].cancelled => goroutines[j].cancelled \/ old.check = j
    BY <2>4 DEF Goroutines
  <2> QED BY <1>1, <2>1, <2>2, <2>5, <2>6
<1>2. CASE ~(Known(r.channel) /\ tracked[r.channel].epoch = r.epoch)
  BY <1>2 DEF Apply
<1> QED BY <1>1, <1>2

LEMMA ApplyInvariant ==
    ASSUME IInv, TypeOK', NEW goroutines \in [Checks -> Goroutines],
           \A j \in Checks : \/ goroutines[j] = check[j]
                             \/ /\ goroutines[j].at = "free"
                                /\ check[j].at = "asking",
           NEW r \in Requests, NEW stream \in Streams,
           Apply(goroutines, r, stream),
           sync' \subseteq sync, counter' = counter
    PROVE  IInv'
<1>0. TypeOK
  BY DEF IInv
<1>1. /\ DOMAIN tracked' = DOMAIN tracked
      /\ \A c \in DOMAIN tracked :
            /\ tracked'[c].epoch = tracked[c].epoch
            /\ \/ tracked'[c] = tracked[c]
               \/ tracked'[c].check = NoCheck
  BY <1>0, ApplyFields
<1>2. \A j \in Checks :
         /\ check'[j].at = goroutines[j].at
         /\ check'[j].seq = goroutines[j].seq
         /\ check'[j].request = goroutines[j].request
         /\ check'[j].cancelled =>
               \/ goroutines[j].cancelled
               \/ /\ Known(r.channel) /\ tracked[r.channel].check = j
                  /\ tracked'[r.channel].check = NoCheck
  BY <1>0, ApplyFields
<1>3. PendingAlive'
  <2> SUFFICES ASSUME NEW d \in DOMAIN tracked', tracked'[d].check # NoCheck
               PROVE  LET k == tracked'[d].check IN
                      /\ check'[k].at \in {"asleep", "awake"}
                      /\ check'[k].request.channel = d
                      /\ check'[k].seq = tracked'[d].seq
                      /\ ~check'[k].cancelled
    BY DEF PendingAlive
  <2> DEFINE k == tracked'[d].check
  <2>1. d \in DOMAIN tracked /\ tracked'[d] = tracked[d]
    BY <1>1
  <2>2. k \in Checks
    BY <1>0, <2>1, EntryType DEF Entries
  <2>3. /\ check[k].at \in {"asleep", "awake"} /\ check[k].request.channel = d
        /\ check[k].seq = tracked[d].seq /\ ~check[k].cancelled
    BY <2>1 DEF IInv, PendingAlive
  <2>4. goroutines[k] = check[k]
    BY <2>2, <2>3
  <2>5. ~check'[k].cancelled
    <3> SUFFICES ASSUME Known(r.channel), tracked[r.channel].check = k,
                        tracked'[r.channel].check = NoCheck
                 PROVE  FALSE
      BY <1>2, <2>2, <2>3, <2>4
    <3>1. check[k].request.channel = r.channel
      BY <2>2, TrackerAssumption DEF IInv, PendingAlive, Known
    <3> QED BY <2>3, <3>1
  <2> QED BY <1>2, <2>1, <2>2, <2>3, <2>4, <2>5
<1>4. PendingMarked'
  BY <1>1 DEF IInv, PendingMarked
<1>5. \A q \in Requests : Asked(q)' => Asked(q)
  BY <1>2 DEF Asked
<1>6. EpochsCounted' /\ Current'
  BY <1>1, <1>5, EpochsKept
<1> QED BY <1>3, <1>4, <1>6 DEF IInv

LEMMA AnswerInductive ==
    ASSUME IInv, AnswerStep
    PROVE  IInv'
<1> PICK stream \in Streams :
       \/ \E r \in sync : SyncApplies(r, stream)
       \/ \E k \in Checks : CheckAnswered(k, stream)
  BY DEF AnswerStep
<1>0. TypeOK /\ TypeOK'
  BY AnswerType DEF IInv
<1>1. ASSUME NEW r \in sync, SyncApplies(r, stream)
      PROVE  IInv'
  <2>1. r \in Requests /\ check \in [Checks -> Goroutines]
    BY <1>0 DEF TypeOK
  <2>2. Apply(check, r, stream) /\ sync' \subseteq sync /\ counter' = counter
    BY <1>1 DEF SyncApplies
  <2> QED BY <1>0, <2>1, <2>2, ApplyInvariant
<1>2. ASSUME NEW k \in Checks, CheckAnswered(k, stream)
      PROVE  IInv'
  <2>1. check[k].request \in Requests /\ Free(k) \in [Checks -> Goroutines]
    BY <1>0, FreeType DEF TypeOK, Goroutines
  <2>2. /\ Apply(Free(k), check[k].request, stream)
        /\ sync' \subseteq sync /\ counter' = counter
    BY <1>2 DEF CheckAnswered, CheckOnly
  <2>3. \A j \in Checks : \/ Free(k)[j] = check[j]
                          \/ Free(k)[j].at = "free" /\ check[j].at = "asking"
    BY <1>0, <1>2, FreeType DEF CheckAnswered
  <2> QED BY <1>0, <2>1, <2>2, <2>3, ApplyInvariant
<1> QED BY <1>1, <1>2

\* A goroutine that is pending is neither free nor asking nor cancelled, and
\* each is pending for at most one channel.
LEMMA PendingFacts ==
    ASSUME IInv, NEW d \in DOMAIN tracked, tracked[d].check # NoCheck
    PROVE  LET k == tracked[d].check IN
           /\ k \in Checks /\ d \in Channels
           /\ check[k].at \in {"asleep", "awake"}
           /\ check[k].request.channel = d
           /\ check[k].seq = tracked[d].seq
           /\ ~check[k].cancelled
           /\ tracked[d].pending
BY EntryType DEF IInv, PendingAlive, PendingMarked, Entries

LEMMA OnlineInductive ==
    ASSUME IInv, NEW c \in Channels, CheckOnline(c)
    PROVE  IInv'
<1>0. TypeOK /\ TypeOK'
  BY QuietType DEF IInv, QuietStep
<1>1. /\ c \in DOMAIN tracked
      /\ counter' = counter /\ sync' = sync
  BY Zenon DEF CheckOnline, Known
<1>2. CASE tracked[c].check # NoCheck
  <2>1. tracked' = tracked /\ check' = check
    BY <1>2 DEF CheckOnline
  <2>2. EpochsCounted' /\ Current'
    BY <1>0, <1>1, <2>1, EpochsKept DEF Asked
  <2> QED BY <1>0, <2>1, <2>2 DEF IInv, PendingAlive, PendingMarked
<1>3. CASE tracked[c].check = NoCheck
  <2> DEFINE asleep(s) == [at |-> "asleep", seq |-> s, cancelled |-> FALSE,
                           request |-> [channel |-> c, epoch |-> 0, fresh |-> FALSE]]
  <2>1. PICK k \in Checks :
          /\ check[k].at = "free"
          /\ check' = [check EXCEPT ![k] = asleep(tracked[c].seq + 1)]
          /\ tracked' = Put(c, [tracked[c] EXCEPT !.seq = @ + 1, !.check = k,
                                                  !.pending = TRUE])
    BY <1>3 DEF CheckOnline
  <2> DEFINE entry == [tracked[c] EXCEPT !.seq = @ + 1, !.check = k,
                                         !.pending = TRUE]
  <2>2. tracked[c] \in Entries
    BY <1>0, <1>1, EntryType
  <2>3. tracked[c].seq + 1 \in Nat
    BY <2>2 DEF Entries
  <2>4. /\ entry \in Entries /\ entry.seq = tracked[c].seq + 1
        /\ entry.check = k /\ entry.pending /\ entry.epoch = tracked[c].epoch
    BY <2>2, <2>3 DEF Entries
  <2>5. tracked' = Put(c, entry)
    BY <2>1
  <2> HIDE DEF entry
  <2>6. /\ DOMAIN tracked' = DOMAIN tracked
        /\ tracked'[c] = entry
        /\ \A d \in DOMAIN tracked : d # c => tracked'[d] = tracked[d]
    <3>1. DOMAIN tracked' = DOMAIN tracked \cup {c}
      BY <1>0, <2>4, <2>5, PutType, Zenon
    <3>2. /\ tracked'[c] = entry
          /\ \A d \in DOMAIN tracked : d # c => tracked'[d] = tracked[d]
      BY <1>0, <2>4, <2>5, PutType, Zenon
    <3> QED BY <1>1, <3>1, <3>2
  <2>7. check'[k] = asleep(tracked[c].seq + 1)
        /\ \A j \in Checks : j # k => check'[j] = check[j]
    BY <1>0, <2>1 DEF TypeOK
  <2>8. PendingAlive'
    BY <2>1, <2>4, <2>6, <2>7, PendingFacts DEF PendingAlive
  <2>9. PendingMarked'
    BY <2>4, <2>6 DEF IInv, PendingMarked
  <2>10. \A r \in Requests : Asked(r)' => Asked(r)
    BY <1>1, <2>7 DEF Asked
  <2>11. EpochsCounted' /\ Current'
    BY <1>1, <2>4, <2>6, <2>10, EpochsKept
  <2> QED BY <1>0, <2>8, <2>9, <2>11 DEF IInv
<1> QED BY <1>2, <1>3

LEMMA AsksInductive ==
    ASSUME IInv, NEW k \in Checks, CheckAsks(k)
    PROVE  IInv'
<1> DEFINE c == check[k].request.channel
           taken == Known(c) /\ tracked[c].check # NoCheck
                             /\ tracked[c].seq = check[k].seq
<1>0. TypeOK /\ TypeOK' /\ counter' = counter /\ sync' = sync
  BY QuietType DEF IInv, QuietStep, CheckAsks, CheckOnly
<1>1. CASE taken
  <2> DEFINE entry == [tracked[c] EXCEPT !.check = NoCheck, !.pending = FALSE]
  <2>1. c \in DOMAIN tracked /\ tracked' = Put(c, entry)
    BY <1>1 DEF CheckAsks, Known
  <2>2. c \in Channels /\ entry \in Entries /\ entry.check = NoCheck
        /\ entry.epoch = tracked[c].epoch
    BY <1>0, <2>1, EntryType DEF Entries
  <2>3. /\ check'[k].at = "asking" /\ check'[k].request = RequestFor(c)
        /\ \A j \in Checks : j # k => check'[j] = check[j]
    BY <1>0, <1>1 DEF CheckAsks, TypeOK, Goroutines
  <2> HIDE DEF entry
  <2>4. /\ DOMAIN tracked' = DOMAIN tracked \cup {c}
        /\ tracked'[c] = entry
        /\ \A d \in DOMAIN tracked : d # c => tracked'[d] = tracked[d]
    BY <1>0, <2>1, <2>2, PutType, Zenon
  <2>5. DOMAIN tracked' = DOMAIN tracked
    BY <2>1, <2>4
  <2>6. PendingAlive'
    BY <2>2, <2>3, <2>4, <2>5, PendingFacts DEF PendingAlive
  <2>7. PendingMarked'
    BY <2>2, <2>4, <2>5 DEF IInv, PendingMarked
  <2>8. \A r \in Requests : Asked(r)' => Asked(r) \/ r = RequestFor(c)
    BY <1>0, <2>3 DEF Asked
  <2>9. EpochsCounted' /\ Current'
    BY <1>0, <2>1, <2>2, <2>4, <2>5, <2>8, EpochsKept
  <2> QED BY <1>0, <2>6, <2>7, <2>9 DEF IInv
<1>2. CASE ~taken
  <2>1. check[k].at = "awake" /\ check' = Free(k) /\ tracked' = tracked
    BY <1>2 DEF CheckAsks
  <2>2. \A d \in DOMAIN tracked : tracked[d].check # k \/ tracked[d].check = NoCheck
    BY <1>2, PendingFacts DEF Known
  <2>3. /\ check'[k].at = "free"
        /\ \A j \in Checks : j # k => check'[j] = check[j]
    BY <1>0, <2>1, FreeType
  <2>4. PendingAlive' /\ PendingMarked'
    BY <2>1, <2>2, <2>3, PendingFacts DEF PendingAlive, PendingMarked
  <2>5. \A r \in Requests : Asked(r)' => Asked(r)
    BY <1>0, <2>3 DEF Asked
  <2>6. EpochsCounted' /\ Current'
    BY <1>0, <2>1, <2>5, EpochsKept
  <2> QED BY <1>0, <2>4, <2>6 DEF IInv
<1> QED BY <1>1, <1>2

\* A goroutine that no channel waits for ends.
LEMMA EndInductive ==
    ASSUME IInv, TypeOK', NEW k \in Checks,
           check[k].at = "asking" \/ check[k].cancelled,
           check' = Free(k), tracked' = tracked, counter' = counter, sync' = sync
    PROVE  IInv'
<1>0. TypeOK
  BY DEF IInv
<1>1. /\ check'[k].at = "free"
      /\ \A j \in Checks : j # k => check'[j] = check[j]
  BY <1>0, FreeType
<1>2. PendingAlive' /\ PendingMarked'
  BY <1>1, PendingFacts DEF PendingAlive, PendingMarked
<1>3. \A r \in Requests : Asked(r)' => Asked(r)
  BY <1>1 DEF Asked
<1>4. EpochsCounted' /\ Current'
  BY <1>3, EpochsKept
<1> QED BY <1>2, <1>4 DEF IInv

LEMMA QuietInductive ==
    ASSUME IInv, QuietStep
    PROVE  IInv'
<1>0. TypeOK /\ TypeOK'
  BY QuietType DEF IInv
<1>1. ASSUME NEW S \in SUBSET Channels, SyncBegin(S)
      PROVE  IInv'
  <2>1. /\ tracked' = tracked /\ check' = check /\ counter' = counter
        /\ S \subseteq DOMAIN tracked /\ sync' = {RequestFor(c) : c \in S}
    BY <1>1 DEF SyncBegin
  <2>2. EpochsCounted' /\ Current'
    BY <2>1, EpochsKept DEF Asked
  <2> QED BY <1>0, <2>1, <2>2 DEF IInv, PendingAlive, PendingMarked
<1>2. ASSUME NEW S \in SUBSET sync, SyncDrops(S)
      PROVE  IInv'
  <2>1. /\ tracked' = tracked /\ check' = check /\ counter' = counter
        /\ sync' \subseteq sync
    BY <1>2 DEF SyncDrops
  <2>2. EpochsCounted' /\ Current'
    BY <2>1, EpochsKept DEF Asked
  <2> QED BY <1>0, <2>1, <2>2 DEF IInv, PendingAlive, PendingMarked
<1>3. ASSUME Close
      PROVE  IInv'
  <2>1. /\ DOMAIN tracked' = DOMAIN tracked
        /\ counter' = counter /\ sync' = sync
    BY <1>3 DEF Close
  <2>2. \A c \in DOMAIN tracked : /\ tracked'[c].check = NoCheck
                                  /\ tracked'[c].epoch = tracked[c].epoch
    BY <1>0, <1>3, EntryType DEF Close, Entries
  <2>3. \A j \in Checks : /\ check'[j].at = check[j].at
                          /\ check'[j].request = check[j].request
    BY <1>0, <1>3 DEF Close, TypeOK, Goroutines
  <2>4. \A r \in Requests : Asked(r)' => Asked(r)
    BY <2>1, <2>3 DEF Asked
  <2>5. EpochsCounted' /\ Current'
    BY <2>1, <2>2, <2>4, EpochsKept
  <2> QED BY <1>0, <2>1, <2>2, <2>5 DEF IInv, PendingAlive, PendingMarked
<1>4. ASSUME NEW k \in Checks, CheckWakes(k)
      PROVE  IInv'
  <2>1. tracked' = tracked /\ counter' = counter /\ sync' = sync
    BY <1>4 DEF CheckWakes, CheckOnly
  <2>2. /\ check'[k] = [check[k] EXCEPT !.at = "awake"]
        /\ \A j \in Checks : j # k => check'[j] = check[j]
    BY <1>0, <1>4 DEF CheckWakes, TypeOK
  <2>3. /\ check'[k].at = "awake" /\ check'[k].seq = check[k].seq
        /\ check'[k].request = check[k].request
        /\ check'[k].cancelled = check[k].cancelled
    BY <1>0, <2>2 DEF TypeOK, Goroutines
  <2>4. PendingAlive'
    <3> SUFFICES ASSUME NEW d \in DOMAIN tracked, tracked[d].check # NoCheck
                 PROVE  LET j == tracked[d].check IN
                        /\ check'[j].at \in {"asleep", "awake"}
                        /\ check'[j].request.channel = d
                        /\ check'[j].seq = tracked[d].seq
                        /\ ~check'[j].cancelled
      BY <2>1 DEF PendingAlive
    <3> DEFINE j == tracked[d].check
    <3>1. /\ j \in Checks /\ check[j].at \in {"asleep", "awake"}
          /\ check[j].request.channel = d /\ check[j].seq = tracked[d].seq
          /\ ~check[j].cancelled
      BY PendingFacts
    <3> HIDE DEF j
    <3>2. /\ check'[j].at \in {"asleep", "awake"}
          /\ check'[j].request.channel = d
          /\ check'[j].seq = tracked[d].seq
          /\ ~check'[j].cancelled
      <4>1. CASE j = k
        BY <2>3, <3>1, <4>1
      <4>2. CASE j # k
        BY <2>2, <3>1, <4>2
      <4> QED BY <4>1, <4>2
    <3> QED BY <3>2 DEF j
  <2>5. PendingAlive' /\ PendingMarked'
    BY <2>1, <2>4 DEF IInv, PendingMarked
  <2>6. \A r \in Requests : Asked(r)' => Asked(r)
    BY <2>1, <2>2, <2>3 DEF Asked
  <2>7. EpochsCounted' /\ Current'
    BY <2>1, <2>6, EpochsKept
  <2> QED BY <1>0, <2>5, <2>7 DEF IInv
<1>5. ASSUME NEW k \in Checks, CheckCancelled(k) \/ CheckFails(k)
      PROVE  IInv'
  <2>1. check[k].at = "asking" \/ check[k].cancelled
    BY <1>5 DEF CheckCancelled, CheckFails
  <2>2. check' = Free(k) /\ tracked' = tracked /\ counter' = counter /\ sync' = sync
    BY <1>5, Zenon DEF CheckCancelled, CheckFails, CheckOnly
  <2> QED BY <1>0, <2>1, <2>2, EndInductive
<1> QED BY <1>1, <1>2, <1>3, <1>4, <1>5, OnlineInductive, AsksInductive DEF QuietStep

LEMMA Inductive == IInv /\ [Next]_vars => IInv'
<1> SUFFICES ASSUME IInv, [Next]_vars PROVE IInv'
  OBVIOUS
<1>1. CASE Next
  BY <1>1, StepKinds, CallInductive, AnswerInductive, QuietInductive
<1>2. CASE UNCHANGED vars
  BY <1>2 DEF vars, IInv, TypeOK, PendingAlive, PendingMarked, EpochsCounted,
              Current, Asked, Known
<1> QED BY <1>1, <1>2

LEMMA Invariant == Spec => []IInv
BY InitInductive, Inductive, PTL DEF Spec

-----------------------------------------------------------------------------
(* The theorems.                                                           *)

\* NewTracker and every operation keep the tracker's fields in their types.
THEOREM TypeCorrect == Spec => []TypeOK
<1>1. IInv => TypeOK
  BY DEF IInv
<1> QED BY <1>1, Invariant, PTL

\* CheckOnline never ignores a report for a check that will not be made: the
\* check a channel has pending is under way, its own, and not cancelled.
THEOREM PendingCheckLives == Spec => []PendingAlive
<1>1. IInv => PendingAlive
  BY DEF IInv
<1> QED BY <1>1, Invariant, PTL

\* A channel with a check pending is marked PendingStream.
THEOREM PendingCheckMarked == Spec => []PendingMarked
<1>1. IInv => PendingMarked
  BY DEF IInv
<1> QED BY <1>1, Invariant, PTL

\* The streams of the channels that stay stay.
StreamsKept ==
    \A c \in Channels : c \in DOMAIN tracked /\ c \in DOMAIN tracked'
                            => tracked'[c].stream = tracked[c].stream

LEMMA PutStream ==
    ASSUME TypeOK, NEW c \in DOMAIN tracked, NEW entry \in Entries,
           entry.stream = tracked[c].stream, tracked' = Put(c, entry)
    PROVE  StreamsKept
<1>1. c \in Channels
  BY EntryType
<1>2. /\ tracked'[c] = entry
      /\ \A d \in DOMAIN tracked : d # c => tracked'[d] = tracked[d]
  BY <1>1, PutType, Zenon
<1> QED BY <1>2 DEF StreamsKept

LEMMA QuietStreams ==
    ASSUME TypeOK, QuietStep
    PROVE  StreamsKept
<1>1. ASSUME NEW c \in Channels, CheckOnline(c)
      PROVE  StreamsKept
  <2>1. c \in DOMAIN tracked
    BY <1>1 DEF CheckOnline, Known
  <2>2. tracked[c] \in Entries
    BY <2>1, EntryType
  <2>3. tracked[c].seq + 1 \in Nat
    BY <2>2 DEF Entries
  <2>4. CASE tracked' = tracked
    BY <2>4 DEF StreamsKept
  <2>5. ASSUME NEW k \in Checks,
               tracked' = Put(c, [tracked[c] EXCEPT !.seq = @ + 1, !.check = k,
                                                    !.pending = TRUE])
        PROVE  StreamsKept
    <3> DEFINE entry == [tracked[c] EXCEPT !.seq = @ + 1, !.check = k,
                                           !.pending = TRUE]
    <3>1. entry \in Entries /\ entry.stream = tracked[c].stream
      BY <2>2, <2>3 DEF Entries
    <3>2. tracked' = Put(c, entry)
      BY <2>5
    <3> HIDE DEF entry
    <3> QED BY <2>1, <3>1, <3>2, PutStream
  <2> QED BY <1>1, <2>4, <2>5 DEF CheckOnline
<1>2. ASSUME NEW k \in Checks, CheckAsks(k)
      PROVE  StreamsKept
  <2> DEFINE c == check[k].request.channel
             entry == [tracked[c] EXCEPT !.check = NoCheck, !.pending = FALSE]
  <2>1. CASE tracked' = tracked
    BY <2>1 DEF StreamsKept
  <2>2. CASE Known(c) /\ tracked' = Put(c, entry)
    <3>1. c \in DOMAIN tracked
      BY <2>2 DEF Known
    <3>2. entry \in Entries /\ entry.stream = tracked[c].stream
      BY <3>1, EntryType DEF Entries
    <3>3. tracked' = Put(c, entry)
      BY <2>2
    <3> HIDE DEF entry, c
    <3> QED BY <3>1, <3>2, <3>3, PutStream
  <2> QED BY <1>2, <2>1, <2>2 DEF CheckAsks
<1>3. ASSUME Close
      PROVE  StreamsKept
  BY <1>3, EntryType DEF Close, StreamsKept, Entries
<1>4. ASSUME tracked' = tracked
      PROVE  StreamsKept
  BY <1>4 DEF StreamsKept
<1> QED BY <1>1, <1>2, <1>3, <1>4
        DEF QuietStep, SyncBegin, SyncDrops, CheckWakes, CheckCancelled, CheckFails

\* The step OnlyFreshApplied speaks of.
FreshStep ==
    \A c \in Channels :
        /\ c \in DOMAIN tracked /\ c \in DOMAIN tracked'
        /\ tracked'[c].stream # tracked[c].stream
        /\ counter' = counter
        => \/ \E k \in Checks : /\ check[k].at = "asking" /\ check'[k].at = "free"
                                /\ check[k].request.channel = c
                                /\ check[k].request.fresh
           \/ \E r \in sync \ sync' : r.channel = c /\ r.fresh

LEMMA AnswerFresh ==
    ASSUME IInv, AnswerStep
    PROVE  FreshStep
<1> PICK stream \in Streams :
       \/ \E r \in sync : SyncApplies(r, stream)
       \/ \E k \in Checks : CheckAnswered(k, stream)
  BY DEF AnswerStep
<1>0. TypeOK
  BY DEF IInv
<1>1. ASSUME NEW r \in sync, SyncApplies(r, stream)
      PROVE  FreshStep
  <2>1. r \in Requests /\ check \in [Checks -> Goroutines]
    BY <1>0 DEF TypeOK
  <2>2. Apply(check, r, stream) /\ r \in sync \ sync'
    BY <1>1 DEF SyncApplies
  <2>3. \A c \in DOMAIN tracked :
           \/ tracked'[c] = tracked[c]
           \/ c = r.channel /\ tracked[c].epoch = r.epoch
    BY <1>0, <2>1, <2>2, ApplyFields
  <2>4. Asked(r)
    BY DEF Asked
  <2> QED BY <2>1, <2>2, <2>3, <2>4 DEF FreshStep, IInv, Current, Known
<1>2. ASSUME NEW k \in Checks, CheckAnswered(k, stream)
      PROVE  FreshStep
  <2> DEFINE r == check[k].request
  <2>1. r \in Requests /\ Free(k) \in [Checks -> Goroutines] /\ Free(k)[k].at = "free"
    BY <1>0, FreeType DEF TypeOK, Goroutines
  <2>2. Apply(Free(k), r, stream) /\ check[k].at = "asking"
    BY <1>2 DEF CheckAnswered
  <2>3. /\ \A c \in DOMAIN tracked :
              \/ tracked'[c] = tracked[c]
              \/ c = r.channel /\ tracked[c].epoch = r.epoch
        /\ check'[k].at = "free"
    BY <1>0, <2>1, <2>2, ApplyFields
  <2>4. Asked(r)
    BY <2>2 DEF Asked
  <2> QED BY <2>1, <2>2, <2>3, <2>4 DEF FreshStep, IInv, Current, Known
<1> QED BY <1>1, <1>2

LEMMA CallFresh ==
    ASSUME IInv, CallStep
    PROVE  FreshStep
<1> PICK c \in Channels :
       \/ \E stream \in Streams, pending \in BOOLEAN :
             AddChannel(c, stream, pending)
       \/ RemoveChannel(c)
       \/ StreamDown(c)
  BY DEF CallStep
<1>0. counter \in Nat
  BY DEF IInv, TypeOK
<1>1. ASSUME NEW stream \in Streams, NEW pending \in BOOLEAN,
             AddChannel(c, stream, pending)
      PROVE  FreshStep
  <2>1. counter' = counter + 1
    BY <1>1, AddSteps DEF AddEffect
  <2> QED BY <1>0, <2>1 DEF FreshStep
<1>2. ASSUME RemoveChannel(c)
      PROVE  FreshStep
  BY <1>2 DEF RemoveChannel, FreshStep
<1>3. ASSUME StreamDown(c)
      PROVE  FreshStep
  <2>1. counter' = counter + 1
    BY <1>3 DEF StreamDown
  <2> QED BY <1>0, <2>1 DEF FreshStep
<1> QED BY <1>1, <1>2, <1>3

LEMMA EveryStepFresh == IInv /\ [Next]_vars => FreshStep
<1> SUFFICES ASSUME IInv, [Next]_vars PROVE FreshStep
  OBVIOUS
<1>1. CASE QuietStep
  BY <1>1, QuietStreams DEF IInv, StreamsKept, FreshStep
<1>2. CASE UNCHANGED vars
  BY <1>2 DEF vars, FreshStep
<1> QED BY <1>1, <1>2, StepKinds, CallFresh, AnswerFresh

\* applyFetched never lets an answer override what happened to the channel
\* after the request: the epoch comparison lets fresh answers only through.
THEOREM AnswersFresh == Spec => OnlyFreshApplied
<1>1. IInv /\ [Next]_vars => [FreshStep]_vars
  BY EveryStepFresh
<1>2. Spec => [][FreshStep]_vars
  BY <1>1, Invariant, PTL DEF Spec
<1> QED BY <1>2 DEF OnlyFreshApplied, FreshStep
=============================================================================
