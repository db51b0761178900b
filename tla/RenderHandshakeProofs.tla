------------------------ MODULE RenderHandshakeProofs ------------------------
(* Proofs about RenderHandshake, for every set of clients and every bound. *)
EXTENDS RenderHandshake, TLAPS

\* The invariant holds when the tasks start: nothing asked, nothing owed.
LEMMA InitIInv == Init => IInv
  <1> SUFFICES ASSUME Init PROVE IInv
    OBVIOUS
  <1> USE TasksAssumption DEF Init
  <1>1. TypeOK
    BY DEF TypeOK, Tasks, RenderPcs, ClientPcs
  <1>2. MutexInv /\ GenerationInv
    BY DEF MutexInv, Holding, GenerationInv
  <1>3. WaiterInv /\ WakeupOwed /\ NoLostRequest
    BY DEF WaiterInv, InSync, WakeupOwed, NoLostRequest
  <1>4. AskInv
    BY DEF AskInv
  <1> QED
    BY <1>1, <1>2, <1>3, <1>4 DEF IInv

\* Every step of the render task and of any client keeps the invariant.
LEMMA NextIInv == IInv /\ [Next]_vars => IInv'
  <1> SUFFICES ASSUME IInv, [Next]_vars PROVE IInv'
    OBVIOUS
  <1> USE TasksAssumption
      DEF IInv, TypeOK, Tasks, RenderPcs, ClientPcs, GatePcs, MutexInv, Holding, GenerationInv,
          WaiterInv, InSync, Bumping, WakeupOwed, WillClearWaiter, NoLostRequest, AskInv,
          OnItsWay, RenderStep, RenderFrame, ClientStep, ClientFrame, syncVars, requestVars,
          renderData, panelVars, gateVars
  <1>1. CASE TakeNotification
    BY <1>1 DEF TakeNotification
  <1>2. CASE MarkInProgress
    BY <1>2 DEF MarkInProgress
  <1>3. CASE LoadTarget
    BY <1>3 DEF LoadTarget
  <1>4. CASE LockForRender
    BY <1>4 DEF LockForRender
  <1>5. CASE RequestFromRender
    BY <1>5 DEF RequestFromRender
  <1>6. CASE FinishRender
    BY <1>6 DEF FinishRender
  <1>7. CASE ClearWaiter
    BY <1>7 DEF ClearWaiter
  <1>8. CASE WakeWaiter
    BY <1>8 DEF WakeWaiter
  <1>9. CASE StoreCompleted
    BY <1>9 DEF StoreCompleted
  <1>10. CASE UnmarkInProgress
    BY <1>10 DEF UnmarkInProgress
  <1>11. CASE UnlockAfterRender
    BY <1>11 DEF UnlockAfterRender
  <1>12. ASSUME NEW c \in Clients, Lock(c) PROVE IInv'
    BY <1>12 DEF Lock, OwnStep
  <1>13. ASSUME NEW c \in Clients, Write(c) PROVE IInv'
    BY <1>13 DEF Write, OwnStep
  <1>14. ASSUME NEW c \in Clients, Unlock(c) PROVE IInv'
    BY <1>14 DEF Unlock, OwnStep
  <1>15. ASSUME NEW c \in Clients, RequestDeferred(c) PROVE IInv'
    BY <1>15 DEF RequestDeferred, OwnStep, Cover
  <1>16. ASSUME NEW c \in Clients, RequestImmediate(c) PROVE IInv'
    BY <1>16 DEF RequestImmediate, OwnStep, Cover
  <1>17. ASSUME NEW c \in Clients, RequestAndWait(c) PROVE IInv'
    BY <1>17 DEF RequestAndWait, OwnStep, Cover
  <1>18. ASSUME NEW c \in Clients, BumpGeneration(c) PROVE IInv'
    BY <1>18 DEF BumpGeneration
  <1>19. ASSUME NEW c \in Clients, NotifyRenderTask(c) PROVE IInv'
    BY <1>19 DEF NotifyRenderTask
  <1>20. ASSUME NEW c \in Clients, ReturnRendered(c) PROVE IInv'
    BY <1>20 DEF ReturnRendered
  <1>21. CASE DrainDeferred
    BY <1>21 DEF DrainDeferred, OwnStep
  <1>22. CASE GateReadUpdate
    <2>1. CASE requestedUpdate
      BY <1>22, <2>1 DEF GateReadUpdate, GateStep
    <2>2. CASE ~requestedUpdate
      BY <1>22, <2>2 DEF GateReadUpdate, GateStep
    <2> QED
      BY <2>1, <2>2
  <1>23. CASE GateReadInProgress
    BY <1>23 DEF GateReadInProgress, GateStep
  <1>24. CASE GateReadRequested
    BY <1>24 DEF GateReadRequested, GateStep
  <1>25. CASE GateReadCompleted
    BY <1>25 DEF GateReadCompleted, GateStep
  <1>26. CASE UNCHANGED vars
    BY <1>26 DEF vars
  <1> QED
    BY <1>1, <1>2, <1>3, <1>4, <1>5, <1>6, <1>7, <1>8, <1>9, <1>10, <1>11, <1>12, <1>13, <1>14, <1>15, <1>16, <1>17, <1>18, <1>19, <1>20, <1>21, <1>22, <1>23, <1>24, <1>25, <1>26
    DEF Next, RenderNext, ClientNext, InCall, IdleGate

\* The inductive invariant holds in every reachable state.
THEOREM Invariance == Spec => []IInv
  <1> QED
    BY InitIInv, NextIInv, PTL DEF Spec

-----------------------------------------------------------------------------
\* Every variable keeps its type (the state behind ActivityManager.h:51-81).
THEOREM TypeCorrect == Spec => []TypeOK
  <1>1. IInv => TypeOK
    BY DEF IInv
  <1> QED
    BY <1>1, Invariance, PTL

\* No lost wake-up: whoever sleeps in requestUpdateAndWait() is owed one by the
\* render task, whatever the interleaving and however many tasks call.
THEOREM NoLostWakeup == Spec => []WakeupOwed
  <1>1. IInv => WakeupOwed
    BY DEF IInv
  <1> QED
    BY <1>1, Invariance, PTL

\* No lost request: coalescing notifications never forgets a generation that
\* the render task has not sampled (notifyRenderTask(), renderTaskLoop()).
THEOREM RequestsSurvive == Spec => []NoLostRequest
  <1>1. IInv => NoLostRequest
    BY DEF IInv
  <1> QED
    BY <1>1, Invariance, PTL

\* canEnterReaderIdlePowerSaving() says yes only when all that the main task
\* asked for is painted, although it reads four words one after the other.
THEOREM IdleGateCorrect == Spec => IdleGateSound
  <1>1. IInv /\ [Next]_vars => [idle' /\ ~idle => asked'[Main] <= painted']_vars
    <2> SUFFICES ASSUME IInv, Next, idle', ~idle PROVE asked'[Main] <= painted'
      BY DEF vars
    <2>1. GateReadCompleted
      BY DEF Next, RenderNext, TakeNotification, MarkInProgress, LoadTarget, LockForRender,
             RequestFromRender, FinishRender, ClearWaiter, WakeWaiter, StoreCompleted,
             UnmarkInProgress, UnlockAfterRender, ClientNext, Lock, Write, Unlock,
             RequestDeferred, RequestImmediate, RequestAndWait, InCall, BumpGeneration,
             NotifyRenderTask, ReturnRendered, DrainDeferred, IdleGate, GateReadUpdate,
             GateReadInProgress, GateReadRequested, OwnStep, RenderStep,
             RenderFrame, GateStep, gateVars
    <2>2. pc[Main] = "gate4" /\ gateGeneration = completedRenderGeneration
      BY <2>1 DEF GateReadCompleted, GateStep, ClientStep
    <2>3. ~ OnItsWay(gateGeneration)
      BY <2>2 DEF IInv, TypeOK, GenerationInv, OnItsWay
    <2>4. asked[Main] <= painted
      BY <2>2, <2>3, TasksAssumption DEF IInv, TypeOK, AskInv, Bumping, GatePcs
    <2> QED
      BY <2>1, <2>4 DEF GateReadCompleted, GateStep, ClientStep, ClientFrame, panelVars
  <1> QED
    BY <1>1, Invariance, PTL DEF Spec, IdleGateSound

\* requestUpdateAndWait() returns Rendered only when the panel shows at least
\* what its caller had written when it called.
THEOREM SyncIsCurrent == Spec => SyncShowsCallerState
  <1>1. IInv /\ [Next]_vars
         => [\A c \in Clients : pc[c] = "wait" /\ pc'[c] = "run" => asked[c] <= painted]_vars
    <2> SUFFICES ASSUME IInv, Next, NEW c \in Clients, pc[c] = "wait", pc'[c] = "run"
                 PROVE  asked[c] <= painted
      BY DEF vars
    <2>1. c \in notified
      BY TasksAssumption
      DEF Next, RenderNext, TakeNotification, MarkInProgress, LoadTarget, LockForRender,
          RequestFromRender, FinishRender, ClearWaiter, WakeWaiter, StoreCompleted,
          UnmarkInProgress, UnlockAfterRender, ClientNext, Lock, Write, Unlock,
          RequestDeferred, RequestImmediate, RequestAndWait, InCall, BumpGeneration,
          NotifyRenderTask, ReturnRendered, DrainDeferred, IdleGate, GateReadUpdate,
          GateReadInProgress, GateReadRequested, GateReadCompleted, GateStep, ClientStep,
          OwnStep, RenderStep, RenderFrame, IInv, TypeOK
    <2> QED
      BY <2>1 DEF IInv, WaiterInv
  <1> QED
    BY <1>1, Invariance, PTL DEF Spec, SyncShowsCallerState

\* completedRenderGeneration is monotone and never ahead of the requests.
THEOREM CompletionOrdered == Spec => CompletionMonotone
  <1>1. IInv /\ IInv' /\ [Next]_vars
         => [/\ completedRenderGeneration' >= completedRenderGeneration
             /\ completedRenderGeneration' <= requestedRenderGeneration']_vars
    <2> SUFFICES ASSUME IInv, IInv', Next
                 PROVE  /\ completedRenderGeneration' >= completedRenderGeneration
                        /\ completedRenderGeneration' <= requestedRenderGeneration'
      BY DEF vars
    <2>1. completedRenderGeneration' \in {completedRenderGeneration, target}
      BY DEF Next, RenderNext, TakeNotification, MarkInProgress, LoadTarget, LockForRender,
             RequestFromRender, FinishRender, ClearWaiter, WakeWaiter, StoreCompleted,
             UnmarkInProgress, UnlockAfterRender, ClientNext, Lock, Write, Unlock,
             RequestDeferred, RequestImmediate, RequestAndWait, InCall, BumpGeneration,
             NotifyRenderTask, ReturnRendered, DrainDeferred, IdleGate, GateReadUpdate,
             GateReadInProgress, GateReadRequested, GateReadCompleted, GateStep, ClientStep,
             OwnStep, ClientFrame, RenderStep, RenderFrame, renderData
    <2> QED
      BY <2>1 DEF IInv, TypeOK, GenerationInv
  <1> QED
    BY <1>1, Invariance, PTL DEF Spec, CompletionMonotone

-----------------------------------------------------------------------------
\* The safety half of the refinement: every behaviour of the handshake is one
\* of the abstract panel, so no paint is torn or older than its start.
THEOREM PanelRefinement ==
  Spec => Panel!ScreenInit /\ [][Panel!ScreenNext]_(Panel!screenVars)
  <1>1. Init => Panel!ScreenInit
    BY DEF Init, Panel!ScreenInit
  <1>2. IInv /\ [Next]_vars => [Panel!ScreenNext]_(Panel!screenVars)
    <2> SUFFICES ASSUME IInv, [Next]_vars
                 PROVE  Panel!ScreenNext \/ UNCHANGED Panel!screenVars
      OBVIOUS
    <2> USE DEF Panel!ScreenNext, Panel!screenVars, panelVars, RenderStep, RenderFrame, ClientStep,
            ClientFrame, OwnStep, Cover, GateStep
    <2>1. CASE FinishRender
      BY <2>1 DEF FinishRender, IInv, MutexInv, Panel!Paint
    <2>2. ASSUME NEW c \in Clients, Write(c) PROVE Panel!ScreenNext
      BY <2>2 DEF Write, Panel!Write
    <2>3. ASSUME NEW c \in Clients,
                 RequestDeferred(c) \/ RequestImmediate(c) \/ RequestAndWait(c)
          PROVE  Panel!ScreenNext
      BY <2>3 DEF RequestDeferred, RequestImmediate, RequestAndWait, Panel!Ask
    <2>4. CASE RenderNext /\ ~FinishRender
      BY <2>4 DEF RenderNext, TakeNotification, MarkInProgress, LoadTarget, LockForRender,
                  RequestFromRender, ClearWaiter, WakeWaiter, StoreCompleted,
                  UnmarkInProgress, UnlockAfterRender
    <2>5. ASSUME NEW c \in Clients, Lock(c) \/ Unlock(c) \/ InCall(c)
          PROVE  UNCHANGED Panel!screenVars
      BY <2>5 DEF Lock, Unlock, InCall, BumpGeneration, NotifyRenderTask, ReturnRendered
    <2>6. CASE DrainDeferred \/ IdleGate
      BY <2>6 DEF DrainDeferred, IdleGate, GateReadUpdate, GateReadInProgress,
                  GateReadRequested, GateReadCompleted
    <2>7. CASE UNCHANGED vars
      BY <2>7 DEF vars
    <2> QED
      BY <2>1, <2>2, <2>3, <2>4, <2>5, <2>6, <2>7 DEF Next, ClientNext
  <1> QED
    BY <1>1, <1>2, Invariance, PTL DEF Spec

=============================================================================
