--------------------------- MODULE RenderHandshake ---------------------------
(***************************************************************************)
(* The render task of ActivityManager and the tasks that ask it to paint:  *)
(* direct-to-task notifications, the rendering mutex, the request and      *)
(* completion generations, requestUpdateAndWait() and the test that lets   *)
(* the main loop drop to the idle clock.  Every step below is one atomic   *)
(* access of the code: the two tasks share one core and have the same      *)
(* priority, so a tick may switch tasks between any two of them.           *)
(*                                                                         *)
(* A task notification value is only ever taken with pdTRUE (clear), so    *)
(* the model keeps whether it is non-zero, not how large it is.            *)
(***************************************************************************)
EXTENDS Naturals, FiniteSets

CONSTANTS
  Clients,      \* tasks other than the render task that call the manager
  Main,         \* the Arduino loop task, the one client of the firmware
  RenderTask,   \* renderTaskHandle
  NoTask,       \* nullptr for a TaskHandle_t
  MaxContent,   \* bound: writes to the state that render() reads
  MaxRequests   \* bound: generations handed out

ASSUME TasksAssumption ==
  /\ Main \in Clients
  /\ RenderTask \notin Clients
  /\ NoTask \notin Clients \cup {RenderTask}

ASSUME BoundsAssumption == MaxContent \in Nat /\ MaxRequests \in Nat

VARIABLES
  renderingMutex,             \* task that holds the mutex, or NoTask
  notified,                   \* tasks whose notification value is non-zero
  waitingTaskHandle,          \* task registered by requestUpdateAndWait()
  requestedUpdate,            \* deferred request, drained by loop()
  requestedRenderGeneration,
  completedRenderGeneration,
  renderInProgress,
  renderPc,                   \* next step of renderTaskLoop()
  target,                     \* its local targetGeneration
  waiter,                     \* its local waiter
  pc,                         \* per client, the call it is in
  gateGeneration,             \* requested generation read by the idle test
  idle,                       \* last answer of the idle test, while it stands
  content, painted, asked,    \* the panel, see Screen
  drawing                     \* version render() is drawing

syncVars    == <<renderingMutex, notified, waitingTaskHandle>>
requestVars == <<requestedUpdate, requestedRenderGeneration>>
renderData  == <<completedRenderGeneration, renderInProgress, target, waiter>>
gateVars    == <<gateGeneration, idle>>
panelVars   == <<painted, drawing>>
vars == <<syncVars, requestVars, renderPc, renderData, pc, gateVars, panelVars, content, asked>>

Tasks == Clients \cup {RenderTask}

RenderPcs == {"take", "mark", "load", "lock", "draw", "clear", "wake",
              "complete", "unmark", "unlock"}
GatePcs   == {"gate2", "gate3", "gate4"}
ClientPcs == {"run", "bump", "notify", "syncBump", "syncNotify", "wait"} \cup GatePcs

Init ==
  /\ renderingMutex = NoTask
  /\ notified = {}
  /\ waitingTaskHandle = NoTask
  /\ requestedUpdate = FALSE
  /\ requestedRenderGeneration = 0
  /\ completedRenderGeneration = 0
  /\ renderInProgress = FALSE
  /\ renderPc = "take"
  /\ target = 0
  /\ waiter = NoTask
  /\ pc = [c \in Clients |-> "run"]
  /\ gateGeneration = 0
  /\ idle = FALSE
  /\ content = 0
  /\ painted = 0
  /\ asked = [c \in Clients |-> 0]
  /\ drawing = 0

\* Generations already promised: handed out, about to be, or deferred.
Promised ==
  requestedRenderGeneration + Cardinality({c \in Clients : pc[c] \in {"bump", "syncBump"}})
                            + (IF requestedUpdate THEN 1 ELSE 0)

-----------------------------------------------------------------------------
(* The render task: ActivityManager::renderTaskLoop().                     *)

\* What no step of the render task writes.
RenderFrame == UNCHANGED <<requestedRenderGeneration, pc, gateVars, content, asked>>

RenderStep(from, to) == renderPc = from /\ renderPc' = to /\ RenderFrame

\* ulTaskNotifyTake(pdTRUE, portMAX_DELAY)
TakeNotification ==
  /\ RenderStep("take", "mark")
  /\ RenderTask \in notified
  /\ notified' = notified \ {RenderTask}
  /\ UNCHANGED <<renderingMutex, waitingTaskHandle, requestedUpdate, renderData, panelVars>>

MarkInProgress ==
  /\ RenderStep("mark", "load")
  /\ renderInProgress' = TRUE
  /\ UNCHANGED <<syncVars, requestedUpdate, completedRenderGeneration, target, waiter, panelVars>>

LoadTarget ==
  /\ RenderStep("load", "lock")
  /\ target' = requestedRenderGeneration
  /\ UNCHANGED <<syncVars, requestedUpdate, completedRenderGeneration, renderInProgress, waiter,
                 panelVars>>

\* RenderLock lock; render() starts to read what it draws
LockForRender ==
  /\ RenderStep("lock", "draw")
  /\ renderingMutex = NoTask
  /\ renderingMutex' = RenderTask
  /\ drawing' = content
  /\ UNCHANGED <<notified, waitingTaskHandle, requestedUpdate, renderData, painted>>

\* render() may ask for another pass of its own (requestUpdate() in
\* HomeActivity::render and EpubReaderActivity::render)
RequestFromRender ==
  /\ RenderStep("draw", "draw")
  /\ ~requestedUpdate
  /\ Promised < MaxRequests
  /\ requestedUpdate' = TRUE
  /\ UNCHANGED <<syncVars, renderData, panelVars>>

FinishRender ==
  /\ RenderStep("draw", "clear")
  /\ painted' = drawing
  /\ UNCHANGED <<syncVars, requestedUpdate, renderData, drawing>>

\* Mutant: waitingTaskHandle is cleared before it is copied.
ClearWaiterTooEarly ==
  /\ RenderStep("clear", "wake")
  /\ waiter' = NoTask
  /\ waitingTaskHandle' = NoTask
  /\ UNCHANGED <<renderingMutex, notified, requestedUpdate, completedRenderGeneration,
                 renderInProgress, target, panelVars>>

\* the critical section that takes the waiter out of waitingTaskHandle
ClearWaiter ==
  /\ RenderStep("clear", "wake")
  /\ waiter' = waitingTaskHandle
  /\ waitingTaskHandle' = NoTask
  /\ UNCHANGED <<renderingMutex, notified, requestedUpdate, completedRenderGeneration,
                 renderInProgress, target, panelVars>>

\* Mutant: renderTaskHandle is notified, waiter or not.
WakeItself ==
  /\ RenderStep("wake", "complete")
  /\ notified' = notified \cup {RenderTask}
  /\ waiter' = NoTask
  /\ UNCHANGED <<renderingMutex, waitingTaskHandle, requestedUpdate, completedRenderGeneration,
                 renderInProgress, target, panelVars>>

WakeWaiter ==
  /\ RenderStep("wake", "complete")
  /\ notified' = notified \cup ({waiter} \ {NoTask})
  /\ waiter' = NoTask
  /\ UNCHANGED <<renderingMutex, waitingTaskHandle, requestedUpdate, completedRenderGeneration,
                 renderInProgress, target, panelVars>>

StoreCompleted ==
  /\ RenderStep("complete", "unmark")
  /\ completedRenderGeneration' = target
  /\ UNCHANGED <<syncVars, requestedUpdate, renderInProgress, target, waiter, panelVars>>

UnmarkInProgress ==
  /\ RenderStep("unmark", "unlock")
  /\ renderInProgress' = FALSE
  /\ UNCHANGED <<syncVars, requestedUpdate, completedRenderGeneration, target, waiter, panelVars>>

\* Mutant: notifications that arrived during the paint are cleared with it.
UnlockAndForget ==
  /\ RenderStep("unlock", "take")
  /\ renderingMutex' = NoTask
  /\ notified' = notified \ {RenderTask}
  /\ UNCHANGED <<waitingTaskHandle, requestedUpdate, renderData, panelVars>>

\* ~RenderLock() at the end of the loop body
UnlockAfterRender ==
  /\ RenderStep("unlock", "take")
  /\ renderingMutex' = NoTask
  /\ UNCHANGED <<notified, waitingTaskHandle, requestedUpdate, renderData, panelVars>>

RenderNext ==
  \/ TakeNotification \/ MarkInProgress \/ LoadTarget \/ LockForRender
  \/ RequestFromRender \/ FinishRender \/ ClearWaiter \/ WakeWaiter
  \/ StoreCompleted \/ UnmarkInProgress \/ UnlockAfterRender

-----------------------------------------------------------------------------
(* A client task.                                                          *)

\* What no step of a client writes.
ClientFrame == UNCHANGED <<renderPc, renderData, panelVars>>

ClientStep(c, from, to) == pc[c] = from /\ pc' = [pc EXCEPT ![c] = to] /\ ClientFrame

\* A step of c outside any call; when c is Main the last answer of the idle
\* test no longer stands.
OwnStep(c, to) ==
  /\ ClientStep(c, "run", to)
  /\ idle' = (idle /\ c # Main)
  /\ UNCHANGED gateGeneration

\* RenderLock::RenderLock()
Lock(c) ==
  /\ OwnStep(c, "run")
  /\ renderingMutex = NoTask
  /\ content < MaxContent
  /\ renderingMutex' = c
  /\ UNCHANGED <<notified, waitingTaskHandle, requestVars, content, asked>>

\* Mutant: the state that render() reads is written without the lock.
WriteUnlocked(c) ==
  /\ OwnStep(c, "run")
  /\ content < MaxContent
  /\ content' = content + 1
  /\ UNCHANGED <<syncVars, requestVars, asked>>

\* a write to state that render() reads, under the lock
Write(c) ==
  /\ OwnStep(c, "run")
  /\ renderingMutex = c
  /\ content < MaxContent
  /\ content' = content + 1
  /\ UNCHANGED <<syncVars, requestVars, asked>>

\* RenderLock::unlock() and ~RenderLock()
Unlock(c) ==
  /\ OwnStep(c, "run")
  /\ renderingMutex = c
  /\ renderingMutex' = NoTask
  /\ UNCHANGED <<notified, waitingTaskHandle, requestVars, content, asked>>

\* A request covers what has been written when it is made.
Cover(c) == asked' = [asked EXCEPT ![c] = content] /\ UNCHANGED content

\* requestUpdate(): the flag, to be drained at the end of loop()
RequestDeferred(c) ==
  /\ OwnStep(c, "run")
  /\ requestedUpdate \/ Promised < MaxRequests
  /\ requestedUpdate' = TRUE
  /\ Cover(c)
  /\ UNCHANGED <<syncVars, requestedRenderGeneration>>

\* requestUpdate(true)
RequestImmediate(c) ==
  /\ OwnStep(c, "bump")
  /\ Promised < MaxRequests
  /\ Cover(c)
  /\ UNCHANGED <<syncVars, requestVars>>

\* requestUpdateAndWait() past its three rejections: the caller is not the
\* render task, nobody else waits, and the caller does not hold the lock
RequestAndWait(c) ==
  /\ OwnStep(c, "syncBump")
  /\ Promised < MaxRequests
  /\ waitingTaskHandle = NoTask
  /\ renderingMutex # c
  /\ waitingTaskHandle' = c
  /\ Cover(c)
  /\ UNCHANGED <<renderingMutex, notified, requestVars>>

\* Mutant: the flag is cleared and nobody is notified.
DrainSilently ==
  /\ OwnStep(Main, "run")
  /\ renderingMutex # Main
  /\ requestedUpdate
  /\ requestedUpdate' = FALSE
  /\ UNCHANGED <<syncVars, requestedRenderGeneration, content, asked>>

\* if (requestedUpdate.exchange(false)) notifyRenderTask(), main loop only
DrainDeferred ==
  /\ OwnStep(Main, "bump")
  /\ renderingMutex # Main
  /\ requestedUpdate
  /\ requestedUpdate' = FALSE
  /\ UNCHANGED <<syncVars, requestedRenderGeneration, content, asked>>

\* Mutant: the notification is sent without a new generation.
KeepGeneration(c) ==
  /\ ClientStep(c, "bump", "notify") \/ ClientStep(c, "syncBump", "syncNotify")
  /\ UNCHANGED <<syncVars, requestVars, gateVars, content, asked>>

\* notifyRenderTask(): the generation first ...
BumpGeneration(c) ==
  /\ ClientStep(c, "bump", "notify") \/ ClientStep(c, "syncBump", "syncNotify")
  /\ requestedRenderGeneration' = requestedRenderGeneration + 1
  /\ UNCHANGED <<syncVars, requestedUpdate, gateVars, content, asked>>

\* ... then the notification
NotifyRenderTask(c) ==
  /\ ClientStep(c, "notify", "run") \/ ClientStep(c, "syncNotify", "wait")
  /\ notified' = notified \cup {RenderTask}
  /\ UNCHANGED <<renderingMutex, waitingTaskHandle, requestVars, gateVars, content, asked>>

\* ulTaskNotifyTake() in requestUpdateAndWait(), which then returns Rendered
ReturnRendered(c) ==
  /\ ClientStep(c, "wait", "run")
  /\ c \in notified
  /\ notified' = notified \ {c}
  /\ UNCHANGED <<renderingMutex, waitingTaskHandle, requestVars, gateVars, content, asked>>

-----------------------------------------------------------------------------
(* canEnterReaderIdlePowerSaving(): four loads, in this order, with the    *)
(* render task free to run between them.                                   *)

GateStep(from, to) ==
  ClientStep(Main, from, to) /\ UNCHANGED <<syncVars, requestVars, content, asked>>

GateReadUpdate ==
  /\ renderingMutex # Main
  /\ GateStep("run", IF requestedUpdate THEN "run" ELSE "gate2")
  /\ idle' = FALSE
  /\ UNCHANGED gateGeneration

GateReadInProgress ==
  /\ GateStep("gate2", IF renderInProgress THEN "run" ELSE "gate3")
  /\ UNCHANGED gateVars

GateReadRequested ==
  /\ GateStep("gate3", "gate4")
  /\ gateGeneration' = requestedRenderGeneration
  /\ UNCHANGED idle

GateReadCompleted ==
  /\ GateStep("gate4", "run")
  /\ idle' = (gateGeneration = completedRenderGeneration)
  /\ gateGeneration' = 0

IdleGate == GateReadUpdate \/ GateReadInProgress \/ GateReadRequested \/ GateReadCompleted

InCall(c) == BumpGeneration(c) \/ NotifyRenderTask(c) \/ ReturnRendered(c)

ClientNext(c) ==
  \/ Lock(c) \/ Write(c) \/ Unlock(c)
  \/ RequestDeferred(c) \/ RequestImmediate(c) \/ RequestAndWait(c)
  \/ InCall(c)

Next == RenderNext \/ (\E c \in Clients : ClientNext(c)) \/ DrainDeferred \/ IdleGate

(***************************************************************************)
(* Fairness.  The scheduler keeps running every ready task (equal          *)
(* priorities, time slicing), a scope that took the lock ends, and the     *)
(* main loop comes back to its drain and finishes the idle test it began.  *)
(* Taking a mutex that others also take needs strong fairness: FreeRTOS    *)
(* makes the blocked render task ready on every give, and the main loop    *)
(* sleeps without the lock in every iteration.                             *)
(***************************************************************************)
Fairness ==
  /\ WF_vars(RenderNext /\ renderPc' # renderPc)
  /\ SF_vars(LockForRender)
  /\ \A c \in Clients : WF_vars(InCall(c)) /\ WF_vars(Unlock(c))
  /\ SF_vars(DrainDeferred)
  /\ WF_vars(IdleGate /\ pc[Main] \in GatePcs)

Spec     == Init /\ [][Next]_vars
FairSpec == Spec /\ Fairness

-----------------------------------------------------------------------------
(* Properties.                                                             *)

\* The type of every variable of the model.
TypeOK ==
  /\ renderingMutex \in Tasks \cup {NoTask}
  /\ notified \subseteq Tasks
  /\ waitingTaskHandle \in Clients \cup {NoTask}
  /\ requestedUpdate \in BOOLEAN
  /\ requestedRenderGeneration \in Nat
  /\ completedRenderGeneration \in Nat
  /\ renderInProgress \in BOOLEAN
  /\ renderPc \in RenderPcs
  /\ target \in Nat
  /\ waiter \in Clients \cup {NoTask}
  /\ pc \in [Clients -> ClientPcs]
  /\ gateGeneration \in Nat
  /\ idle \in BOOLEAN
  /\ content \in Nat
  /\ painted \in Nat
  /\ drawing \in Nat
  /\ asked \in [Clients -> Nat]

\* The render task is on its way to the critical section that looks for a
\* waiter, or will be, because a notification is waiting for it.
WillClearWaiter ==
  RenderTask \in notified \/ renderPc \in {"mark", "load", "lock", "draw", "clear"}

\* A task blocked in requestUpdateAndWait() is always owed a wake-up: it is
\* already there, or the render task holds it, or the render task will find
\* the task registered.  A lost wake-up would hang the main loop for good.
WakeupOwed ==
  \A c \in Clients : pc[c] = "wait" =>
    \/ c \in notified
    \/ waiter = c
    \/ waitingTaskHandle = c /\ WillClearWaiter

\* A generation that was handed out and not yet sampled by the render task is
\* never forgotten: the render task is notified or between waking and
\* sampling, or the requester is about to notify it.
NoLostRequest ==
  requestedRenderGeneration > target =>
    \/ RenderTask \in notified
    \/ renderPc \in {"mark", "load"}
    \/ \E c \in Clients : pc[c] \in {"notify", "syncNotify"}

\* canEnterReaderIdlePowerSaving() answers yes only when everything the main
\* task asked for is on the panel, although its four loads are not atomic.
IdleGateSound == [][idle' /\ ~idle => asked'[Main] <= painted']_vars

\* Under the documented lock discipline requestUpdateAndWait() returns
\* Rendered only when the panel shows what the caller had written, even when
\* the wake-up comes from a render that was under way before the call.
SyncShowsCallerState ==
  [][\A c \in Clients : pc[c] = "wait" /\ pc'[c] = "run" => asked[c] <= painted]_vars

\* completedRenderGeneration never runs backwards nor past the requests, so
\* equality with requestedRenderGeneration means that no request is open.
CompletionMonotone ==
  [][/\ completedRenderGeneration' >= completedRenderGeneration
     /\ completedRenderGeneration' <= requestedRenderGeneration']_vars

\* requestUpdateAndWait() always returns.
SyncReturns == \A c \in Clients : pc[c] = "wait" ~> pc[c] = "run"

\* The abstract panel: a paint is never torn or old, and every version that
\* was asked for reaches the panel.
Panel == INSTANCE Screen
PanelSpec == Panel!ScreenSpec

-----------------------------------------------------------------------------
(* The inductive invariant behind the safety properties.                   *)

InSync(c) == pc[c] \in {"syncBump", "syncNotify", "wait"}
Bumping(c) == pc[c] \in {"bump", "syncBump"}
Holding == renderPc \in {"draw", "clear", "wake", "complete", "unmark", "unlock"}

MutexInv ==
  /\ Holding <=> renderingMutex = RenderTask
  /\ renderPc = "draw" => drawing = content
  /\ Holding /\ renderPc # "draw" => painted = content
  /\ painted <= content
  /\ \A c \in Clients : asked[c] <= content

GenerationInv ==
  /\ completedRenderGeneration <= target
  /\ target <= requestedRenderGeneration
  /\ gateGeneration <= requestedRenderGeneration
  /\ renderPc \in {"take", "mark", "load", "unmark", "unlock"}
       => completedRenderGeneration = target

WaiterInv ==
  /\ waiter # NoTask => renderPc = "wake" /\ waiter # waitingTaskHandle
  /\ \A c \in Clients :
       /\ c \in {waitingTaskHandle, waiter} => InSync(c) /\ c \notin notified
       /\ c \in notified => InSync(c)
       /\ InSync(c) => c \in {waitingTaskHandle, waiter} \/ c \in notified
       /\ c \in notified \/ c = waiter => asked[c] <= painted

\* The generation g, sampled or newer, is on its way to the panel.
OnItsWay(g) ==
  \/ g > target
  \/ renderPc \in {"lock", "draw"} /\ completedRenderGeneration < g

AskInv ==
  asked[Main] > painted =>
    \/ requestedUpdate /\ pc[Main] \notin GatePcs
    \/ Bumping(Main)
    \/ OnItsWay(IF pc[Main] = "gate4" THEN gateGeneration ELSE requestedRenderGeneration)

IInv == TypeOK /\ MutexInv /\ GenerationInv /\ WaiterInv /\ WakeupOwed /\ NoLostRequest /\ AskInv

=============================================================================
