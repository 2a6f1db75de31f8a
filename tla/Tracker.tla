------------------------------ MODULE Tracker ------------------------------
(***************************************************************************)
(* internal/watch's tracker: what it takes each channel's stream for.  The *)
(* scheduler's Run goroutine adds, removes and synchronises channels; the  *)
(* PubSub dispatchers report that a stream went up, down or changed; a     *)
(* report starts a check, a goroutine that waits for onlineDelay and then  *)
(* asks Twitch.  Every request runs without the tracker's lock, and its    *)
(* answer, whatever it is, is applied only if the channel's epoch is still *)
(* the one noted when the request was made.                                *)
(***************************************************************************)
EXTENDS Naturals

CONSTANTS
    Channels,   \* channel ids
    Shows,      \* what a stream may be
    Offline,    \* no stream
    Checks,     \* pool of check goroutines (bound: those not yet gone)
    NoCheck,    \* pendingCancel = nil
    MaxEvents   \* bound: calls from outside in one behaviour

ASSUME TrackerAssumption ==
    /\ Offline \notin Shows
    /\ NoCheck \notin Checks
    /\ MaxEvents \in Nat

VARIABLES
    tracked,    \* t.channels, a partial function
    counter,    \* t.epochCounter
    check,      \* the check goroutines with their local variables
    sync,       \* SyncChannels: the answers it has yet to apply
    closed,     \* Close was called
    owed,       \* history: channels whose last report no request follows yet
    events      \* calls from outside so far

vars == <<tracked, counter, check, sync, closed, owed, events>>

Streams == Shows \cup {Offline}

\* check is the goroutine whose cancel function is pendingCancel.
Entries == [stream : Streams, pending : BOOLEAN, epoch : Nat \ {0}, seq : Nat,
            check : Checks \cup {NoCheck}]

\* A request under way: the epoch noted when it was made, and, as history,
\* whether the channel has been added, removed or gone offline since.
Requests == [channel : Channels, epoch : Nat, fresh : BOOLEAN]

Goroutines == [at : {"free", "asleep", "awake", "asking"}, seq : Nat,
               cancelled : BOOLEAN, request : Requests]

TypeOK ==
    /\ \E D \in SUBSET Channels : tracked \in [D -> Entries]
    /\ counter \in Nat
    /\ check \in [Checks -> Goroutines]
    /\ sync \subseteq Requests
    /\ closed \in BOOLEAN
    /\ owed \subseteq DOMAIN tracked
    /\ events \in 0..MaxEvents

Init ==
    /\ tracked = [c \in {} |-> 0]
    /\ counter = 0
    /\ \E c \in Channels :
          check = [k \in Checks |->
              [at |-> "free", seq |-> 0, cancelled |-> FALSE,
               request |-> [channel |-> c, epoch |-> 0, fresh |-> FALSE]]]
    /\ sync = {}
    /\ closed = FALSE
    /\ owed = {}
    /\ events = 0

Event == events < MaxEvents /\ events' = events + 1

Known(c) == c \in DOMAIN tracked

-----------------------------------------------------------------------------
(* What the operations share.                                              *)

\* A request for channel c.
RequestFor(c) == [channel |-> c, epoch |-> tracked[c].epoch, fresh |-> TRUE]

\* History: the answers to the requests of channel c have become stale.
Stale(r, c) == [r EXCEPT !.fresh = r.fresh /\ r.channel # c]

\* pendingCancel, when there is one; the requests of c become stale with it.
CancelledStale(c) ==
    [k \in Checks |->
        [check[k] EXCEPT !.cancelled = check[k].cancelled \/ tracked[c].check = k,
                         !.request = Stale(check[k].request, c)]]

\* Only the history: the requests of channel c become stale.
MadeStale(c) ==
    [k \in Checks |->
        [check[k] EXCEPT !.request = Stale(check[k].request, c)]]

Put(c, entry) ==
    [d \in DOMAIN tracked \cup {c} |-> IF d = c THEN entry ELSE tracked[d]]

\* Mutant: an answer is applied whatever happened meanwhile.
ApplyAny(goroutines, r, stream) ==
    IF Known(r.channel)
      THEN LET old == tracked[r.channel] IN
           /\ tracked' = Put(r.channel, [old EXCEPT !.stream = stream,
                                                    !.pending = FALSE,
                                                    !.check = NoCheck])
           /\ check' = [k \in Checks |->
                 IF k = old.check THEN [goroutines[k] EXCEPT !.cancelled = TRUE]
                                  ELSE goroutines[k]]
      ELSE UNCHANGED tracked /\ check' = goroutines

\* Mutant: the check is cancelled and stays noted.
ApplyNoted(goroutines, r, stream) ==
    IF Known(r.channel) /\ tracked[r.channel].epoch = r.epoch
      THEN LET old == tracked[r.channel] IN
           /\ tracked' = Put(r.channel, [old EXCEPT !.stream = stream])
           /\ check' = [k \in Checks |->
                 IF k = old.check THEN [goroutines[k] EXCEPT !.cancelled = TRUE]
                                  ELSE goroutines[k]]
      ELSE UNCHANGED tracked /\ check' = goroutines

\* applyFetched.  The check that is pending by now, if any, is cancelled: it
\* is taken for the one that led to this answer.
Apply(goroutines, r, stream) ==
    IF Known(r.channel) /\ tracked[r.channel].epoch = r.epoch
      THEN LET old == tracked[r.channel] IN
           /\ tracked' = Put(r.channel, [old EXCEPT !.stream = stream,
                                                    !.pending = FALSE,
                                                    !.check = NoCheck])
           /\ check' = [k \in Checks |->
                 IF k = old.check THEN [goroutines[k] EXCEPT !.cancelled = TRUE]
                                  ELSE goroutines[k]]
      ELSE UNCHANGED tracked /\ check' = goroutines

Free(k) == [check EXCEPT ![k].at = "free", ![k].cancelled = FALSE]

-----------------------------------------------------------------------------
(* The Run goroutine: one operation at a time.                             *)

\* AddChannel: a channel that comes without a stream keeps the one it has.
AddChannel(c, stream, pending) ==
    /\ Event /\ ~closed /\ sync = {}
    /\ counter' = counter + 1
    /\ tracked' = Put(c,
          IF Known(c)
            THEN [tracked[c] EXCEPT !.stream = IF stream = Offline THEN @
                                                               ELSE stream,
                                    !.pending = @ \/ pending,
                                    !.epoch = counter + 1]
            ELSE [stream |-> stream, pending |-> pending, epoch |-> counter + 1,
                  seq |-> 0, check |-> NoCheck])
    /\ check' = MadeStale(c)
    /\ UNCHANGED <<sync, closed, owed>>

RemoveChannel(c) ==
    /\ Event /\ ~closed /\ sync = {}
    /\ Known(c)
    /\ tracked' = [d \in DOMAIN tracked \ {c} |-> tracked[d]]
    /\ check' = CancelledStale(c)
    /\ owed' = owed \ {c}
    /\ UNCHANGED <<counter, sync, closed>>

\* SyncChannels collects the epochs, asks for all channels, and then applies
\* the answers one by one; channels whose answer it could not read are left.
SyncBegin(S) ==
    /\ Event /\ ~closed /\ sync = {}
    /\ S # {} /\ S \subseteq DOMAIN tracked
    /\ sync' = {RequestFor(c) : c \in S}
    /\ owed' = owed \ S
    /\ UNCHANGED <<tracked, counter, check, closed>>

SyncApplies(r, stream) ==
    /\ r \in sync
    /\ sync' = sync \ {r}
    /\ Apply(check, r, stream)
    /\ UNCHANGED <<counter, closed, owed, events>>

\* The batch failed, or an answer of it is skipped.
SyncDrops(S) ==
    /\ S # {} /\ S \subseteq sync
    /\ Event
    /\ sync' = sync \ S
    /\ UNCHANGED <<tracked, counter, check, closed, owed>>

\* Close, once nobody calls the tracker any more.
Close ==
    /\ Event /\ ~closed /\ sync = {}
    /\ closed' = TRUE
    /\ tracked' = [c \in DOMAIN tracked |->
          IF tracked[c].check = NoCheck THEN tracked[c]
          ELSE [tracked[c] EXCEPT !.check = NoCheck, !.pending = FALSE]]
    /\ check' = [k \in Checks |->
          IF check[k].at = "free" THEN check[k]
                                  ELSE [check[k] EXCEPT !.cancelled = TRUE]]
    /\ owed' = {}
    /\ UNCHANGED <<counter, sync>>
-----------------------------------------------------------------------------
(* The dispatchers.                                                        *)

\* CheckOnline, for a stream-up, for a stream update, and for a viewer count
\* of a channel that is offline: nothing to do while a check is pending.
CheckOnline(c) ==
    /\ Event /\ ~closed
    /\ Known(c)
    /\ owed' = owed \cup {c}
    /\ IF tracked[c].check # NoCheck
         THEN UNCHANGED <<tracked, check>>
         ELSE \E k \in Checks :
                /\ check[k].at = "free"
                /\ check' = [check EXCEPT ![k] =
                      [at |-> "asleep", seq |-> tracked[c].seq + 1,
                       cancelled |-> FALSE,
                       request |-> [channel |-> c, epoch |-> 0,
                                    fresh |-> FALSE]]]
                /\ tracked' = Put(c, [tracked[c] EXCEPT !.seq = @ + 1,
                                                        !.check = k,
                                                        !.pending = TRUE])
    /\ UNCHANGED <<counter, sync, closed>>

\* Mutant: the check is cancelled and stays noted.
StreamDownNoted(c) ==
    /\ Event /\ ~closed
    /\ Known(c)
    /\ counter' = counter + 1
    /\ tracked' = Put(c, [tracked[c] EXCEPT !.stream = Offline,
                                            !.pending = FALSE,
                                            !.epoch = counter + 1])
    /\ check' = CancelledStale(c)
    /\ sync' = {Stale(r, c) : r \in sync}
    /\ owed' = owed \ {c}
    /\ UNCHANGED closed

\* setOffline
StreamDown(c) ==
    /\ Event /\ ~closed
    /\ Known(c)
    /\ counter' = counter + 1
    /\ tracked' = Put(c, [tracked[c] EXCEPT !.stream = Offline,
                                            !.pending = FALSE,
                                            !.check = NoCheck,
                                            !.epoch = counter + 1])
    /\ check' = CancelledStale(c)
    /\ sync' = {Stale(r, c) : r \in sync}
    /\ owed' = owed \ {c}
    /\ UNCHANGED closed

-----------------------------------------------------------------------------
(* A check.                                                                *)

CheckOnly == UNCHANGED <<counter, sync, closed, events>>

\* onlineDelay is over; sleep may say so even when it was cancelled just now.
CheckWakes(k) ==
    /\ check[k].at = "asleep"
    /\ check' = [check EXCEPT ![k].at = "awake"]
    /\ UNCHANGED <<tracked, owed>>
    /\ CheckOnly

CheckCancelled(k) ==
    /\ check[k].at = "asleep" /\ check[k].cancelled
    /\ check' = Free(k)
    /\ UNCHANGED <<tracked, owed>>
    /\ CheckOnly

\* The check gives up unless the pending check has its number.
CheckAsks(k) ==
    LET c == check[k].request.channel IN
    /\ check[k].at = "awake"
    /\ IF Known(c) /\ tracked[c].check # NoCheck /\ tracked[c].seq = check[k].seq
         THEN /\ tracked' = Put(c, [tracked[c] EXCEPT !.check = NoCheck,
                                                      !.pending = FALSE])
              /\ check' = [check EXCEPT ![k].at = "asking",
                                        ![k].request = RequestFor(c)]
              /\ owed' = owed \ {c}
         ELSE check' = Free(k) /\ UNCHANGED <<tracked, owed>>
    /\ CheckOnly

CheckAnswered(k, stream) ==
    /\ check[k].at = "asking"
    /\ Apply(Free(k), check[k].request, stream)
    /\ UNCHANGED owed
    /\ CheckOnly

\* The request fails; after Close, because its context is done.
CheckFails(k) ==
    /\ check[k].at = "asking"
    /\ IF closed THEN UNCHANGED events ELSE Event
    /\ check' = Free(k)
    /\ UNCHANGED <<tracked, counter, sync, closed, owed>>

CheckStep(k) ==
    \/ CheckWakes(k) \/ CheckCancelled(k) \/ CheckAsks(k)
    \/ \E stream \in Streams : CheckAnswered(k, stream)
    \/ CheckFails(k)

Next ==
    \/ \E c \in Channels :
          \/ \E stream \in Streams, pending \in BOOLEAN :
                AddChannel(c, stream, pending)
          \/ RemoveChannel(c) \/ CheckOnline(c) \/ StreamDown(c)
    \/ \E S \in SUBSET Channels : SyncBegin(S)
    \/ \E r \in sync, stream \in Streams : SyncApplies(r, stream)
    \/ \E S \in SUBSET sync : SyncDrops(S)
    \/ Close
    \/ \E k \in Checks : CheckStep(k)

Spec == Init /\ [][Next]_vars

\* The delay ends and a request returns (it has the HTTP client's timeout).
FairSpec ==
    /\ Spec
    /\ \A k \in Checks : WF_vars(CheckStep(k))
    /\ WF_vars(\E r \in sync, stream \in Streams : SyncApplies(r, stream))

-----------------------------------------------------------------------------
(* Properties.                                                             *)

\* Behind every pending check stands a goroutine that will see to it: it is
\* this channel's, it has the number the channel knows, and nobody cancelled it.
\* Otherwise CheckOnline would ignore the channel's reports from then on.
PendingAlive ==
    \A c \in DOMAIN tracked :
        LET k == tracked[c].check IN
        k # NoCheck => /\ check[k].at \in {"asleep", "awake"}
                       /\ check[k].request.channel = c
                       /\ check[k].seq = tracked[c].seq
                       /\ ~check[k].cancelled

\* A channel with a check pending is marked so: the scheduler's clean-up takes
\* a channel without a stream and without the mark for offline.
PendingMarked ==
    \A c \in DOMAIN tracked : tracked[c].check # NoCheck => tracked[c].pending

\* An answer changes a channel only if the channel was neither added, removed
\* nor reported offline since the request: an old answer overrides neither a
\* stream-down nor a channel that was added again, whichever of the checks and
\* synchronisations under way it belongs to.
OnlyFreshApplied ==
    [][\A c \in Channels :
          /\ c \in DOMAIN tracked /\ c \in DOMAIN tracked'
          /\ tracked'[c].stream # tracked[c].stream
          /\ counter' = counter
          => \/ \E k \in Checks : /\ check[k].at = "asking" /\ check'[k].at = "free"
                                  /\ check[k].request.channel = c
                                  /\ check[k].request.fresh
             \/ \E r \in sync \ sync' : r.channel = c /\ r.fresh]_vars

\* A check does not stay pending for ever: while one is, further reports of
\* the channel are ignored (CheckOnline returns at once), so a mark left
\* behind would make the channel deaf.
CheckEnds ==
    \A c \in Channels :
        (Known(c) /\ tracked[c].check # NoCheck)
            ~> (~Known(c) \/ tracked[c].check = NoCheck)

\* Claimed by tracker_events_test.go: a stream update starts a delayed
\* synchronisation again.  A report is followed by a request made after it,
\* unless the channel goes offline or away.
ReportFollowed == \A c \in Channels : c \in owed ~> c \notin owed
=============================================================================
