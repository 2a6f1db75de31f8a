--------------------------- MODULE RunLoop_proofs ---------------------------
(***************************************************************************)
(* Proofs about RunLoop, for any number of clients and maintenance         *)
(* goroutines: its types, that no wake-up is lost, and that Run joins every *)
(* goroutine it started.  IInv is the inductive invariant they share.      *)
(***************************************************************************)
EXTENDS RunLoop, TLAPS

\* What Run has not seen yet is announced: the slot is full, or the goroutine
\* that wrote the state is about to fill it.
Announced == token \/ SignalDue

\* From a dispatch to the next wake-up, only a request changes the state.
StateHandled ==
    run \in {"handling", "backoff", "wait"} /\ ~Announced => state = at

\* Run goes to sleep unannounced only from a handler whose state rests.
RestsAtRest == run = "wait" /\ ~Announced => at \in Resting

\* The deferred function: the maintenance context is cancelled first, and the
\* watch loop, once started, is there to be joined.
JoinOrder ==
    /\ run = "start" => watcher = "none"
    /\ run # "start" => watcher # "none"
    /\ run \in {"join", "stopped"} => live = NoMaint

IInv == TypeOK /\ StateHandled /\ RestsAtRest /\ JoinOrder /\ JoinedBeforeStop

-----------------------------------------------------------------------------
(* Types.                                                                  *)

\* The initial state is well typed.
LEMMA TypeInit == Init => TypeOK
BY DEF Init, TypeOK, States, RunAt, MaintAt

\* So is the state after any step of Run: the handlers' outcomes, through
\* ChangeState and advanceState, stay within the states.
LEMMA RunStepType == TypeOK /\ RunStep => TypeOK'
<1> SUFFICES ASSUME TypeOK, RunStep PROVE TypeOK'
  OBVIOUS
<1> USE RunLoopAssumption DEF TypeOK, RunAt, MaintAt, RunOnly
<1>1. CASE Start
  BY <1>1 DEF Start, Requested, States
<1>2. CASE Dispatch
  BY <1>2 DEF Dispatch, States
<1>3. CASE ExitLoop
  BY <1>3 DEF ExitLoop, Return, States
<1>4. CASE HandleIdle
  BY <1>4 DEF HandleIdle
<1>5. CASE HandleInventoryFetch
  <2>1. state' \in States
    BY <1>5 DEF HandleInventoryFetch, MoveOn, Advanced, States
  <2>2. maint' \in [Maint -> MaintAt] /\ live' \in Maint
    BY <1>5 DEF HandleInventoryFetch, RestartMaintenance
  <2> QED
    BY <1>5, <2>1, <2>2 DEF HandleInventoryFetch, MoveOn
<1>6. CASE HandleGamesUpdate
  BY <1>6 DEF HandleGamesUpdate, MoveOn, Advanced, States
<1>7. ASSUME NEW to \in {"Idle", "ChannelsFetch"}, HandleChannelsCleanup(to)
      PROVE  TypeOK'
  BY <1>7 DEF HandleChannelsCleanup, MoveOn, Advanced, States
<1>8. CASE HandleChannelsFetch
  BY <1>8 DEF HandleChannelsFetch, MoveOn, Advanced, States
<1>9. CASE SwitchToChannel
  BY <1>9 DEF SwitchToChannel
<1>10. CASE SwitchToIdle
  BY <1>10 DEF SwitchToIdle, MoveOn, Advanced, States
<1>11. CASE HandlerError
  BY <1>11 DEF HandlerError, Return
<1>12. CASE Retry
  BY <1>12 DEF Retry, Requested, States
<1>13. CASE BackoffCancelled
  BY <1>13 DEF BackoffCancelled, Return
<1>14. CASE Wake
  BY <1>14 DEF Wake
<1>15. CASE WaitCancelled
  BY <1>15 DEF WaitCancelled, States
<1>16. CASE Join
  BY <1>16 DEF Join
<1> QED
  BY <1>1, <1>2, <1>3, <1>4, <1>5, <1>6, <1>7, <1>8, <1>9, <1>10, <1>11,
     <1>12, <1>13, <1>14, <1>15, <1>16 DEF RunStep

\* A step of a maintenance goroutine, a client or the watch loop, and the
\* cancellation, keep the types as well.
LEMMA OtherStepType ==
    ASSUME TypeOK, Next, ~RunStep
    PROVE  TypeOK'
<1> USE RunLoopAssumption DEF TypeOK, MaintAt, MaintOnly, ClientOnly
<1>1. ASSUME NEW m \in Maint, MaintRequest(m) PROVE TypeOK'
  BY <1>1 DEF MaintRequest, Requested, States
<1>2. ASSUME NEW m \in Maint, MaintSignal(m) PROVE TypeOK'
  BY <1>2 DEF MaintSignal
<1>3. ASSUME NEW m \in Maint, MaintStop(m) PROVE TypeOK'
  BY <1>3 DEF MaintStop
<1>4. ASSUME NEW m \in Maint, NEW why \in {"trigger", "reload"},
             MaintWake(m, why)
      PROVE  TypeOK'
  BY <1>4 DEF MaintWake
<1>5. ASSUME NEW c \in Clients, NEW s \in Requestable, Request(c, s)
      PROVE  TypeOK'
  BY <1>5 DEF Request, Requested, States
<1>6. ASSUME NEW c \in Clients, Signal(c) PROVE TypeOK'
  BY <1>6 DEF Signal
<1>7. CASE WatchExit
  BY <1>7 DEF WatchExit
<1>8. CASE Cancel
  BY <1>8 DEF Cancel
<1> QED
  BY <1>1, <1>2, <1>3, <1>4, <1>5, <1>6, <1>7, <1>8 DEF Next, MaintStep

\* Type correctness: whatever the interleaving, every variable keeps its type
\* and Run dispatches on a state that has a handler.
THEOREM TypeCorrect == Spec => []TypeOK
<1>1. Init => TypeOK
  BY TypeInit
<1>2. TypeOK /\ [Next]_vars => TypeOK'
  <2>1. TypeOK /\ Next => TypeOK'
    BY RunStepType, OtherStepType
  <2>2. TypeOK /\ UNCHANGED vars => TypeOK'
    BY DEF TypeOK, vars
  <2> QED
    BY <2>1, <2>2
<1> QED
  BY <1>1, <1>2, PTL DEF Spec

-----------------------------------------------------------------------------
(* No wake-up is lost.                                                     *)

\* What the two requests-and-signals conjuncts of IInv say together.
Awake == StateHandled /\ RestsAtRest

\* A step of Run announces what it changes itself, or leaves the state alone;
\* it never takes back what others have announced except by waking up.
LEMMA RunStepAwake ==
    ASSUME TypeOK, Awake, RunStep
    PROVE  Awake'
<1> USE DEF Awake, StateHandled, RestsAtRest, Announced, Resting
<1>1. RunOnly => (SignalDue' <=> SignalDue)
  BY DEF RunOnly, SignalDue
<1>2. CASE Start \/ ExitLoop \/ WaitCancelled
  BY <1>2 DEF Start, ExitLoop, Return, WaitCancelled
<1>3. CASE Dispatch
  BY <1>3 DEF Dispatch
<1>4. CASE HandleIdle \/ SwitchToChannel
  BY <1>1, <1>4 DEF HandleIdle, SwitchToChannel
<1>5. ASSUME NEW to, MoveOn(to) PROVE Awake'
  BY <1>5 DEF MoveOn
<1>6. CASE HandlerError
  BY <1>1, <1>6 DEF HandlerError, Return
<1>7. CASE Retry \/ Wake
  BY <1>7 DEF Retry, Wake
<1>8. CASE BackoffCancelled \/ Join
  BY <1>8 DEF BackoffCancelled, Return, Join
<1> QED
  BY <1>2, <1>3, <1>4, <1>5, <1>6, <1>7, <1>8
     DEF RunStep, HandleInventoryFetch, HandleGamesUpdate,
         HandleChannelsCleanup, HandleChannelsFetch, SwitchToIdle

\* The other goroutines announce before or in the step that fills the slot.
LEMMA OtherStepAwake ==
    ASSUME TypeOK, Awake, Next, ~RunStep
    PROVE  Awake'
<1> USE DEF TypeOK, Awake, StateHandled, RestsAtRest, Announced, SignalDue,
            MaintOnly, ClientOnly
<1>1. ASSUME NEW m \in Maint, MaintRequest(m) PROVE Awake'
  BY <1>1 DEF MaintRequest
<1>2. ASSUME NEW m \in Maint, MaintSignal(m) PROVE Awake'
  BY <1>2 DEF MaintSignal
<1>3. ASSUME NEW m \in Maint, MaintStop(m) PROVE Awake'
  BY <1>3 DEF MaintStop
<1>4. ASSUME NEW m \in Maint, NEW why \in {"trigger", "reload"},
             MaintWake(m, why)
      PROVE  Awake'
  BY <1>4 DEF MaintWake
<1>5. ASSUME NEW c \in Clients, NEW s \in Requestable, Request(c, s)
      PROVE  Awake'
  BY <1>5 DEF Request
<1>6. ASSUME NEW c \in Clients, Signal(c) PROVE Awake'
  BY <1>6 DEF Signal
<1>7. CASE WatchExit \/ Cancel
  BY <1>7 DEF WatchExit, Cancel
<1> QED
  BY <1>1, <1>2, <1>3, <1>4, <1>5, <1>6, <1>7 DEF Next, MaintStep

-----------------------------------------------------------------------------
(* Shutdown.                                                               *)

\* The order in which the deferred function ends what Run started.
Shutdown == JoinOrder /\ JoinedBeforeStop

\* Only Join reaches "stopped", and nothing is started after Return.
LEMMA RunStepShutdown ==
    ASSUME TypeOK, Shutdown, RunStep
    PROVE  Shutdown'
<1> USE DEF TypeOK, Shutdown, JoinOrder, JoinedBeforeStop, RunOnly
<1>1. CASE Start
  BY <1>1 DEF Start
<1>2. CASE Dispatch
  BY <1>2 DEF Dispatch
<1>3. CASE ExitLoop \/ BackoffCancelled
  BY <1>3 DEF ExitLoop, BackoffCancelled, Return
<1>4. CASE HandleIdle \/ SwitchToChannel
  BY <1>4 DEF HandleIdle, SwitchToChannel
<1>5. ASSUME NEW to, MoveOn(to), run # "start" PROVE Shutdown'
  BY <1>5 DEF MoveOn
<1>6. CASE HandlerError
  BY <1>6 DEF HandlerError, Return
<1>7. CASE Retry \/ Wake \/ WaitCancelled
  BY <1>7 DEF Retry, Wake, WaitCancelled
<1>8. CASE Join
  BY <1>8 DEF Join
<1> QED
  BY <1>1, <1>2, <1>3, <1>4, <1>5, <1>6, <1>7, <1>8
     DEF RunStep, HandleInventoryFetch, HandleGamesUpdate,
         HandleChannelsCleanup, HandleChannelsFetch, SwitchToIdle

\* A maintenance goroutine that is gone cannot act again.
LEMMA OtherStepShutdown ==
    ASSUME TypeOK, Shutdown, Next, ~RunStep
    PROVE  Shutdown'
<1> USE DEF TypeOK, Shutdown, JoinOrder, JoinedBeforeStop, MaintOnly,
            ClientOnly
<1>1. ASSUME NEW m \in Maint, MaintStep(m) PROVE Shutdown'
  BY <1>1 DEF MaintStep, MaintRequest, MaintSignal, MaintStop
<1>2. ASSUME NEW m \in Maint, NEW why \in {"trigger", "reload"},
             MaintWake(m, why)
      PROVE  Shutdown'
  BY <1>2 DEF MaintWake
<1>3. ASSUME NEW c \in Clients,
             Signal(c) \/ \E s \in Requestable : Request(c, s)
      PROVE  Shutdown'
  BY <1>3 DEF Signal, Request
<1>4. CASE WatchExit \/ Cancel
  BY <1>4 DEF WatchExit, Cancel
<1> QED
  BY <1>1, <1>2, <1>3, <1>4 DEF Next

-----------------------------------------------------------------------------
(* The inductive invariant and what follows from it.                       *)

LEMMA Inductive == Spec => []IInv
<1>1. Init => IInv
  <2>1. Init => Awake /\ Shutdown
    BY DEF Init, Awake, StateHandled, RestsAtRest, Shutdown, JoinOrder,
           JoinedBeforeStop
  <2> QED
    BY <2>1, TypeInit DEF IInv, Awake, Shutdown
<1>2. IInv /\ [Next]_vars => IInv'
  <2>1. IInv /\ Next => IInv'
    BY RunStepType, OtherStepType, RunStepAwake, OtherStepAwake,
       RunStepShutdown, OtherStepShutdown DEF IInv, Awake, Shutdown
  <2>2. IInv /\ UNCHANGED vars => IInv'
    BY DEF IInv, TypeOK, StateHandled, RestsAtRest, Announced, SignalDue,
           JoinOrder, JoinedBeforeStop, vars
  <2> QED
    BY <2>1, <2>2
<1> QED
  BY <1>1, <1>2, PTL DEF Spec

\* No wake-up is lost: with the one-slot channel whose sender drops what does
\* not fit, and requests written under the lock but signalled after it, Run
\* never sleeps on a state it has not handled.
THEOREM WakeupNotLost == Spec => []NoLostWakeup
<1>1. IInv => NoLostWakeup
  BY DEF IInv, StateHandled, RestsAtRest, Announced, NoLostWakeup
<1> QED
  BY <1>1, Inductive, PTL

\* Run returns only after the watch loop and every maintenance goroutine it
\* ever started are gone.
THEOREM Joined == Spec => []JoinedBeforeStop
<1>1. IInv => JoinedBeforeStop
  BY DEF IInv
<1> QED
  BY <1>1, Inductive, PTL
=============================================================================
