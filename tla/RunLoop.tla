------------------------------ MODULE RunLoop ------------------------------
(***************************************************************************)
(* The control skeleton of internal/scheduler: the Run loop, the state it  *)
(* dispatches on, the one-slot wake-up channel, the retry after an error,  *)
(* the maintenance goroutine and the other goroutines that ask for a       *)
(* state.  What the handlers do to channels and games is left to module    *)
(* Scheduler, which implements this one; here a handler is the interval    *)
(* between its dispatch and its outcome, and any other goroutine may run   *)
(* inside that interval.                                                   *)
(*                                                                         *)
(* ChangeState writes s.state under s.mu and signals the channel after the *)
(* unlock, so for the goroutines that are not Run these are two steps.     *)
(* Run itself is the only receiver, so its own two steps are one.          *)
(***************************************************************************)
EXTENDS Naturals

CONSTANTS
    Clients,      \* goroutines that call ChangeState from outside Run:
                  \* PubSub dispatchers, tracker callbacks, the watch loop
    Requestable,  \* the states those goroutines ask for
    Fallible,     \* the handlers that may return an error
    Triggers,     \* TRUE: campaigns bring maintenance triggers
    Maint,        \* pool of maintenance goroutines (bound: one live, the
                  \* others cancelled and not yet gone)
    NoMaint       \* s.maintenanceCancel = nil

ASSUME RunLoopAssumption ==
    /\ Requestable \subseteq {"InventoryFetch", "ChannelSwitch"}
    /\ Fallible \subseteq {"InventoryFetch", "ChannelsFetch"}
    /\ Triggers \in BOOLEAN
    /\ NoMaint \notin Maint

VARIABLES
    state,      \* s.state
    token,      \* s.stateChanged holds its one element
    run,        \* where the Run goroutine is
    at,         \* the state Run dispatched on last
    failing,    \* s.lastRuntimeError # nil
    loaded,     \* s.inventoryInitialized
    maint,      \* where each maintenance goroutine is
    live,       \* the maintenance goroutine whose context is not cancelled
    client,     \* where each outside goroutine is
    watcher,    \* the watchLoop goroutine that Run starts and joins
    cancelled   \* Run's context is done

vars == <<state, token, run, at, failing, loaded, maint, live, client,
          watcher, cancelled>>

States == {"Idle", "InventoryFetch", "GamesUpdate", "ChannelsCleanup",
           "ChannelsFetch", "ChannelSwitch", "Exit"}

\* States Run rests in; the others belong to a handler that must follow.
Resting == {"Idle", "ChannelSwitch"}

RunAt == {"start", "top", "handling", "backoff", "wait", "join", "stopped"}
MaintAt == {"free", "asleep", "trigger", "reload", "triggered", "reloaded"}

\* Types; Run dispatches on every state but Exit, which ends it.
TypeOK ==
    /\ state \in States
    /\ token \in BOOLEAN
    /\ run \in RunAt
    /\ at \in States \ {"Exit"}
    /\ failing \in BOOLEAN
    /\ loaded \in BOOLEAN
    /\ maint \in [Maint -> MaintAt]
    /\ live \in Maint \cup {NoMaint}
    /\ client \in [Clients -> {"idle", "signal"}]
    /\ watcher \in {"none", "running", "exited"}
    /\ cancelled \in BOOLEAN

Init ==
    /\ state = "Idle"
    /\ token = FALSE
    /\ run = "start"
    /\ at = "Idle"
    /\ failing = FALSE
    /\ loaded = FALSE
    /\ maint = [m \in Maint |-> "free"]
    /\ live = NoMaint
    /\ client = [c \in Clients |-> "idle"]
    /\ watcher = "none"
    /\ cancelled = FALSE

-----------------------------------------------------------------------------
(* The two ways to move the state.                                         *)

\* ChangeState: a request replaces whatever is there, except Exit.
Requested(s) == IF state = "Exit" THEN "Exit" ELSE s

\* advanceState: a handler moves on only if nobody asked for another state.
Advanced(from, to) == IF state = from THEN to ELSE state

-----------------------------------------------------------------------------
(* The Run goroutine.                                                      *)

RunOnly == UNCHANGED <<maint, client, cancelled>>

\* The deferred function's first half: cancel both contexts, drain the slot.
Return ==
    /\ run' = "join"
    /\ live' = NoMaint
    /\ token' = FALSE

Start ==
    /\ run = "start"
    /\ watcher' = "running"
    /\ state' = Requested("InventoryFetch")
    /\ token' = TRUE
    /\ run' = "top"
    /\ UNCHANGED <<at, failing, loaded, live>>
    /\ RunOnly

Dispatch ==
    /\ run = "top"
    /\ ~cancelled
    /\ state # "Exit"
    /\ at' = state
    /\ run' = "handling"
    /\ UNCHANGED <<state, token, failing, loaded, live, watcher>>
    /\ RunOnly

\* ctx.Err() at the top of the loop: Exit is set, dispatched and returned.
ExitLoop ==
    /\ run = "top"
    /\ cancelled
    /\ state' = "Exit"
    /\ Return
    /\ UNCHANGED <<at, failing, loaded, watcher>>
    /\ RunOnly

\* Mutant: advanceState does not signal.
MoveOnSilently(to) ==
    /\ state' = Advanced(at, to)
    /\ run' = "wait"
    /\ UNCHANGED <<token, at, watcher>>

\* Go to waitForStateChange with the state moved on and the slot filled.
MoveOn(to) ==
    /\ state' = Advanced(at, to)
    /\ token' = TRUE
    /\ run' = "wait"
    /\ UNCHANGED <<at, watcher>>

HandleIdle ==
    /\ run = "handling" /\ at = "Idle"
    /\ run' = "wait"
    /\ UNCHANGED <<state, token, at, failing, loaded, live, watcher>>
    /\ RunOnly

\* restartMaintenance: cancel the live goroutine and start another.
RestartMaintenance ==
    \E m \in Maint :
        /\ maint[m] = "free"
        /\ live' = m
        /\ maint' = [maint EXCEPT ![m] = "asleep"]

HandleInventoryFetch ==
    /\ run = "handling" /\ at = "InventoryFetch"
    /\ loaded' = TRUE
    /\ failing' = FALSE
    /\ RestartMaintenance
    /\ MoveOn("GamesUpdate")
    /\ UNCHANGED <<client, cancelled>>

HandleGamesUpdate ==
    /\ run = "handling" /\ at = "GamesUpdate"
    /\ failing' = FALSE
    /\ MoveOn("ChannelsCleanup")
    /\ UNCHANGED <<loaded, live>>
    /\ RunOnly

\* to is Idle when no game is wanted, ChannelsFetch otherwise.
HandleChannelsCleanup(to) ==
    /\ run = "handling" /\ at = "ChannelsCleanup"
    /\ MoveOn(to)
    /\ UNCHANGED <<failing, loaded, live>>
    /\ RunOnly

HandleChannelsFetch ==
    /\ run = "handling" /\ at = "ChannelsFetch"
    /\ failing' = FALSE
    /\ MoveOn("ChannelSwitch")
    /\ UNCHANGED <<loaded, live>>
    /\ RunOnly

\* Mutant: the slot is drained when the handler is done.
SwitchToChannelDraining ==
    /\ run = "handling" /\ at = "ChannelSwitch"
    /\ run' = "wait"
    /\ token' = FALSE
    /\ UNCHANGED <<state, at, failing, loaded, live, watcher>>
    /\ RunOnly

\* handleChannelSwitch found a channel to watch: the state stays.
SwitchToChannel ==
    /\ run = "handling" /\ at = "ChannelSwitch"
    /\ run' = "wait"
    /\ UNCHANGED <<state, token, at, failing, loaded, live, watcher>>
    /\ RunOnly

\* handleChannelSwitch found none.
SwitchToIdle ==
    /\ run = "handling" /\ at = "ChannelSwitch"
    /\ MoveOn("Idle")
    /\ UNCHANGED <<failing, loaded, live>>
    /\ RunOnly

\* A handler returns an error.  The first inventory fetch has no snapshot to
\* fall back on and ends Run; its error may also come after the snapshot was
\* stored (ensureUserTopics), and then it is retried like any other.
HandlerError ==
    /\ run = "handling" /\ at \in Fallible
    /\ loaded' \in IF at = "InventoryFetch" THEN {loaded, TRUE} ELSE {loaded}
    /\ IF at = "InventoryFetch" /\ ~loaded'
         THEN Return /\ UNCHANGED failing
         ELSE /\ run' = "backoff"
              /\ failing' = TRUE
              /\ UNCHANGED <<token, live>>
    /\ UNCHANGED <<state, at, watcher>>
    /\ RunOnly

\* The pause is over and the failed state is requested again: a ChangeState,
\* not an advanceState.
Retry ==
    /\ run = "backoff"
    /\ ~cancelled
    /\ state' = Requested(at)
    /\ token' = TRUE
    /\ run' = "wait"
    /\ UNCHANGED <<at, failing, loaded, live, watcher>>
    /\ RunOnly

BackoffCancelled ==
    /\ run = "backoff"
    /\ cancelled
    /\ Return
    /\ UNCHANGED <<state, at, failing, loaded, watcher>>
    /\ RunOnly

Wake ==
    /\ run = "wait"
    /\ token
    /\ token' = FALSE
    /\ run' = "top"
    /\ UNCHANGED <<state, at, failing, loaded, live, watcher>>
    /\ RunOnly

\* Mutant: the context is looked at only after a wake-up.
WaitCancelledAwake ==
    /\ run = "wait"
    /\ cancelled
    /\ token
    /\ state' = "Exit"
    /\ run' = "top"
    /\ UNCHANGED <<token, at, failing, loaded, live, watcher>>
    /\ RunOnly

WaitCancelled ==
    /\ run = "wait"
    /\ cancelled
    /\ state' = "Exit"
    /\ token' = TRUE
    /\ run' = "top"
    /\ UNCHANGED <<at, failing, loaded, live, watcher>>
    /\ RunOnly

\* The deferred function's second half: wg.Wait, then the sockets are closed.
Join ==
    /\ run = "join"
    /\ watcher # "running"
    /\ \A m \in Maint : maint[m] = "free"
    /\ run' = "stopped"
    /\ UNCHANGED <<state, token, at, failing, loaded, live, watcher>>
    /\ RunOnly

RunStep ==
    \/ Start \/ Dispatch \/ ExitLoop
    \/ HandleIdle \/ HandleInventoryFetch \/ HandleGamesUpdate
    \/ \E to \in {"Idle", "ChannelsFetch"} : HandleChannelsCleanup(to)
    \/ HandleChannelsFetch \/ SwitchToChannel \/ SwitchToIdle
    \/ HandlerError \/ Retry \/ BackoffCancelled
    \/ Wake \/ WaitCancelled \/ Join

-----------------------------------------------------------------------------
(* The maintenance goroutine: it sleeps to the next trigger or to the      *)
(* reload, looks at its context once more, and asks for a state.  After    *)
(* the reload it ends; only the next inventory fetch starts another.       *)

MaintOnly == UNCHANGED <<run, at, failing, loaded, live, client, watcher,
                         cancelled>>

Cancelled(m) == cancelled \/ live # m

MaintWake(m, why) ==
    /\ maint[m] = "asleep"
    /\ ~Cancelled(m)
    /\ why = "trigger" => Triggers
    /\ maint' = [maint EXCEPT ![m] = why]
    /\ UNCHANGED <<state, token>>
    /\ MaintOnly

MaintRequest(m) ==
    /\ \/ /\ maint[m] = "trigger"
          /\ state' = Requested("ChannelsCleanup")
          /\ maint' = [maint EXCEPT ![m] = "triggered"]
       \/ /\ maint[m] = "reload"
          /\ state' = Requested("InventoryFetch")
          /\ maint' = [maint EXCEPT ![m] = "reloaded"]
    /\ UNCHANGED token
    /\ MaintOnly

MaintSignal(m) ==
    /\ \/ /\ maint[m] = "triggered"
          /\ maint' = [maint EXCEPT ![m] = "asleep"]
       \/ /\ maint[m] = "reloaded"
          /\ maint' = [maint EXCEPT ![m] = "free"]
    /\ token' = TRUE
    /\ UNCHANGED state
    /\ MaintOnly

MaintStop(m) ==
    /\ maint[m] = "asleep"
    /\ Cancelled(m)
    /\ maint' = [maint EXCEPT ![m] = "free"]
    /\ UNCHANGED <<state, token>>
    /\ MaintOnly

MaintStep(m) == MaintRequest(m) \/ MaintSignal(m) \/ MaintStop(m)

-----------------------------------------------------------------------------
(* Everyone else.                                                          *)

ClientOnly == UNCHANGED <<run, at, failing, loaded, maint, live, watcher,
                          cancelled>>

\* ChangeState called by an event, a channel callback or the watch loop.
Request(c, s) ==
    /\ client[c] = "idle"
    /\ state' = Requested(s)
    /\ client' = [client EXCEPT ![c] = "signal"]
    /\ UNCHANGED token
    /\ ClientOnly

Signal(c) ==
    /\ client[c] = "signal"
    /\ token' = TRUE
    /\ client' = [client EXCEPT ![c] = "idle"]
    /\ UNCHANGED state
    /\ ClientOnly

\* watchLoop sees its context done; Run's deferred cancelWatch does it too.
WatchExit ==
    /\ watcher = "running"
    /\ cancelled \/ run = "join"
    /\ watcher' = "exited"
    /\ UNCHANGED <<state, token, run, at, failing, loaded, maint, live,
                   client, cancelled>>

Cancel ==
    /\ ~cancelled
    /\ cancelled' = TRUE
    /\ UNCHANGED <<state, token, run, at, failing, loaded, maint, live,
                   client, watcher>>

Next ==
    \/ RunStep
    \/ \E m \in Maint : \/ MaintStep(m)
                        \/ \E why \in {"trigger", "reload"} : MaintWake(m, why)
    \/ \E c \in Clients : \/ Signal(c)
                          \/ \E s \in Requestable : Request(c, s)
    \/ WatchExit
    \/ Cancel

Spec == Init /\ [][Next]_vars

\* Goroutines that can run do run, and the network calls in a handler return
\* (every one of them has a context and a client timeout).
Fairness ==
    /\ WF_vars(RunStep)
    /\ \A m \in Maint : WF_vars(MaintStep(m))
    /\ \A c \in Clients : WF_vars(Signal(c))
    /\ WF_vars(WatchExit)

FairSpec == Spec /\ Fairness

-----------------------------------------------------------------------------
(* Properties.                                                             *)

\* Somebody has written the state and has yet to fill the slot.
SignalDue == \/ \E c \in Clients : client[c] = "signal"
             \/ \E m \in Maint : maint[m] \in {"triggered", "reloaded"}

\* No wake-up is lost: when Run sleeps on an empty slot and no signal is on
\* its way, the state is the one Run handled last, and it is a state that
\* waits for an event.  The slot holds one element and drops the others
\* (signalStateChange's default branch), ChangeState signals after the
\* unlock, and clearStateChange drains; none of that may strand a request.
NoLostWakeup ==
    run = "wait" /\ ~token /\ ~SignalDue => state = at /\ at \in Resting

\* Once Run has returned from its deferred function, no goroutine it started
\* is alive, even one cancelled between its last look at the context and its
\* request.
JoinedBeforeStop ==
    run = "stopped" => /\ watcher = "exited"
                       /\ \A m \in Maint : maint[m] = "free"

\* Cancelling Run's context always ends it, wherever Run is: in a handler, in
\* the pause after an error, or asleep on the slot.
ShutdownTerminates == cancelled ~> run = "stopped"

\* Something that restarts the pipeline: a request, an error, a timer.
Disturbance ==
    \/ \E c \in Clients, s \in Requestable : Request(c, s)
    \/ HandlerError
    \/ \E m \in Maint, why \in {"trigger", "reload"} : MaintWake(m, why)

\* When the disturbances stop, the pipeline InventoryFetch -> GamesUpdate ->
\* ChannelsCleanup -> ChannelsFetch runs through to a state that waits: no
\* handler is left undispatched because its predecessor's signal went astray.
PipelineSettles ==
    <>[][~Disturbance]_vars =>
        <>[](run = "stopped" \/ (run = "wait" /\ state \in Resting))
=============================================================================
