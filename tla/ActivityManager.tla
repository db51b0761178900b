--------------------------- MODULE ActivityManager ---------------------------
(***************************************************************************)
(* Navigation in ActivityManager: the current activity, the stack below    *)
(* it, the one pending action, result handlers, the alert that a render    *)
(* may raise, and setup()/loop() of main.cpp that drive it, against the    *)
(* render task that dereferences currentActivity.  RenderHandshake has the *)
(* wake-up protocol in detail; here one render is three steps.             *)
(*                                                                         *)
(* Activities are slots: make_unique takes a free one, and it is free      *)
(* again when its unique_ptr is gone.  A result handler is the child it    *)
(* was registered for.                                                     *)
(***************************************************************************)
EXTENDS Naturals, Sequences, SequencesExt

CONSTANTS
  Activities,       \* slots for live activities; bounds how many live at once
  NoActivity,       \* nullptr
  NavPerCallback    \* bound: navigation calls in one callback

ASSUME ActivitiesAssumption == NoActivity \notin Activities
ASSUME NavAssumption == NavPerCallback \in Nat

VARIABLES
  currentActivity, pendingActivity, pendingAction, stackActivities,
  resultHandler,    \* per activity, the child whose result it handles
  life,             \* "free", "built" by make_unique, "entered" after onEnter()
  renderingMutex,   \* "none", "main" or "render"
  requestedUpdate,  \* deferred request of a repaint
  renderNotified,   \* the render task has a notification
  renderPc,         \* "take", "lock", "draw"
  drawn,            \* activity whose render() runs
  mainPc,           \* where setup()/loop() is
  returnTo,         \* where main goes on when onEnter() returns
  mainBlocked,      \* main sleeps in requestUpdateAndWait()
  navs,             \* navigation calls made by the running callback
  hasPendingAlert,
  boot,             \* how this boot resumes
  sleeping,         \* the SleepActivity, once deep sleep is committed to
  revealed          \* parent uncovered by a pop, current and not painted since

navVars  == <<pendingActivity, pendingAction>>
treeVars == <<currentActivity, stackActivities>>
lockVars == <<renderingMutex, requestedUpdate, renderNotified, mainBlocked>>
mainVars == <<mainPc, returnTo, navs, boot, sleeping>>
vars == <<treeVars, navVars, resultHandler, life, lockVars, renderPc, drawn, mainVars,
          hasPendingAlert, revealed>>

Boots     == {"silent", "quick", "splash"}
Callbacks == {"onEnter", "loop", "handler"}
MainPcs   == Callbacks \cup {"setup", "route", "bootWait", "booted", "poll", "pending", "pop",
                             "swap", "goHome", "tail", "drain", "asleep"}
Actions   == {"None", "Push", "Pop", "Replace"}

Init ==
  /\ currentActivity = NoActivity
  /\ pendingActivity = NoActivity
  /\ pendingAction = "None"
  /\ stackActivities = <<>>
  /\ resultHandler = [a \in Activities |-> NoActivity]
  /\ life = [a \in Activities |-> "free"]
  /\ renderingMutex = "none"
  /\ requestedUpdate = FALSE
  /\ renderNotified = FALSE
  /\ renderPc = "take"
  /\ drawn = NoActivity
  /\ mainPc = "setup"
  /\ returnTo = "route"
  /\ mainBlocked = FALSE
  /\ navs = 0
  /\ hasPendingAlert = FALSE
  /\ boot \in Boots
  /\ sleeping = NoActivity
  /\ revealed = NoActivity

-----------------------------------------------------------------------------
(* The render task, as long as the chip is powered.                        *)

RenderStep(from, to) ==
  /\ mainPc # "asleep"
  /\ renderPc = from
  /\ renderPc' = to
  /\ UNCHANGED <<treeVars, navVars, resultHandler, life, mainVars, requestedUpdate>>

RenderTake ==
  /\ RenderStep("take", "lock")
  /\ renderNotified
  /\ renderNotified' = FALSE
  /\ UNCHANGED <<renderingMutex, mainBlocked, drawn, hasPendingAlert, revealed>>

\* RenderLock lock; if (currentActivity) currentActivity->render(...)
RenderBegin ==
  /\ RenderStep("lock", "draw")
  /\ renderingMutex = "none"
  /\ renderingMutex' = "render"
  /\ drawn' = currentActivity
  /\ UNCHANGED <<renderNotified, mainBlocked, hasPendingAlert, revealed>>

\* EpubReaderActivity::render() raises the low-memory alert
RaiseAlert ==
  /\ RenderStep("draw", "draw")
  /\ drawn # NoActivity
  /\ ~hasPendingAlert
  /\ hasPendingAlert' = TRUE
  /\ UNCHANGED <<renderingMutex, renderNotified, mainBlocked, drawn, revealed>>

\* Mutant: the notification goes to renderTaskHandle and not to the waiter.
RenderEndWakesItself ==
  /\ RenderStep("draw", "take")
  /\ revealed' = IF drawn = revealed THEN NoActivity ELSE revealed
  /\ drawn' = NoActivity
  /\ renderNotified' = (renderNotified \/ mainBlocked)
  /\ renderingMutex' = "none"
  /\ UNCHANGED <<mainBlocked, hasPendingAlert>>

\* the paint is over: wake a waiting main task, drop the lock
RenderEnd ==
  /\ RenderStep("draw", "take")
  /\ revealed' = IF drawn = revealed THEN NoActivity ELSE revealed
  /\ drawn' = NoActivity
  /\ mainBlocked' = FALSE
  /\ renderingMutex' = "none"
  /\ UNCHANGED <<renderNotified, hasPendingAlert>>

RenderNext == RenderTake \/ RenderBegin \/ RaiseAlert \/ RenderEnd

-----------------------------------------------------------------------------
(* The main task.                                                          *)

MainStep(from, to) ==
  /\ ~mainBlocked
  /\ mainPc = from
  /\ mainPc' = to
  /\ UNCHANGED <<renderPc, drawn, boot>>

\* What a step leaves alone that neither navigates nor builds or destroys.
StayPut == UNCHANGED <<treeVars, navVars, resultHandler, life, navs, sleeping, revealed>>

Advance(from, to) ==
  /\ MainStep(from, to)
  /\ StayPut
  /\ UNCHANGED <<lockVars, returnTo, hasPendingAlert>>

Free(n) == life[n] = "free"

Destroyed(S) == [a \in Activities |-> IF a \in S THEN "free" ELSE life[a]]
Forgotten(S) == [a \in Activities |-> IF a \in S THEN NoActivity ELSE resultHandler[a]]

(* Calls that make an activity the pending one.                            *)

\* pendingActivity = std::move(n): one it displaces is destroyed
Pend(n, action) ==
  /\ Free(n)
  /\ life' = [Destroyed({pendingActivity}) EXCEPT ![n] = "built"]
  /\ pendingActivity' = n
  /\ pendingAction' = action

\* replaceActivity() while an activity is current
PendReplace(n) == Pend(n, "Replace")

PendPush(n) == Pend(n, "Push")

\* replaceActivity() while none is current: no lock is taken
EnterAtOnce(n, next) ==
  /\ Free(n)
  /\ currentActivity = NoActivity
  /\ currentActivity' = n
  /\ life' = [life EXCEPT ![n] = "built"]
  /\ returnTo' = next
  /\ UNCHANGED <<stackActivities, navVars, resultHandler, lockVars, navs, hasPendingAlert,
                 sleeping, revealed>>

(* Calls an activity may make in a callback.                               *)

\* BootActivity (current while returnTo is "route") and SleepActivity draw by
\* themselves and call nothing of the manager.
InCallback ==
  /\ mainPc \in Callbacks
  /\ currentActivity # sleeping
  /\ returnTo # "route"
  /\ MainStep(mainPc, mainPc)
  /\ UNCHANGED <<treeVars, renderingMutex, returnTo, hasPendingAlert, sleeping, revealed>>

Navigate ==
  /\ InCallback
  /\ navs < NavPerCallback
  /\ navs' = navs + 1
  /\ UNCHANGED <<requestedUpdate, renderNotified, mainBlocked>>

StartActivityForResult(n) ==
  /\ Navigate
  /\ PendPush(n)
  /\ resultHandler' = [resultHandler EXCEPT ![currentActivity] = n]

ReplaceActivity(n) ==
  /\ Navigate
  /\ PendReplace(n)
  /\ UNCHANGED resultHandler

\* popActivity()
Finish ==
  /\ Navigate
  /\ life' = Destroyed({pendingActivity})
  /\ pendingActivity' = NoActivity
  /\ pendingAction' = "Pop"
  /\ UNCHANGED resultHandler

Request ==
  /\ InCallback
  /\ UNCHANGED <<resultHandler, life, navVars, navs>>

RequestDeferred ==
  /\ Request
  /\ requestedUpdate' = TRUE
  /\ UNCHANGED <<renderNotified, mainBlocked>>

RequestImmediate ==
  /\ Request
  /\ renderNotified' = TRUE
  /\ UNCHANGED <<requestedUpdate, mainBlocked>>

\* Mutant: main goes to sleep without notifying the render task.
WaitWithoutNotify ==
  /\ Request
  /\ mainBlocked' = TRUE
  /\ UNCHANGED <<requestedUpdate, renderNotified>>

RequestAndWait ==
  /\ Request
  /\ renderNotified' = TRUE
  /\ mainBlocked' = TRUE
  /\ UNCHANGED requestedUpdate

ActivityCall ==
  \/ \E n \in Activities : StartActivityForResult(n) \/ ReplaceActivity(n)
  \/ Finish \/ RequestDeferred \/ RequestImmediate \/ RequestAndWait

(* The callbacks end.                                                      *)

CallbackEnds(from, to) ==
  /\ MainStep(from, to)
  /\ navs' = 0
  /\ UNCHANGED <<treeVars, navVars, resultHandler, renderingMutex, renderNotified, mainBlocked,
                 returnTo, hasPendingAlert, sleeping, revealed>>

ReturnFromOnEnter ==
  /\ CallbackEnds("onEnter", returnTo)
  /\ life' = [life EXCEPT ![currentActivity] = "entered"]
  /\ UNCHANGED requestedUpdate

ReturnFromLoop ==
  /\ CallbackEnds("loop", "pending")
  /\ UNCHANGED <<life, requestedUpdate>>

\* the handler is done: repaint the uncovered parent unless it navigates on
ReturnFromHandler ==
  /\ CallbackEnds("handler", "pending")
  /\ requestedUpdate' = (requestedUpdate \/ pendingAction = "None")
  /\ UNCHANGED life

CallbackReturns == ReturnFromOnEnter \/ ReturnFromLoop \/ ReturnFromHandler

-----------------------------------------------------------------------------
(* setup(): the boot screen, the routing block, the first paint.           *)

\* goToBoot() for a splash, or for a quick resume whose frame file is missing
GoToBoot(n) ==
  /\ MainStep("setup", "onEnter")
  /\ boot # "silent"
  /\ EnterAtOnce(n, "route")

SkipBootScreen == boot # "splash" /\ Advance("setup", "route")

\* the routing block, behind a boot screen or with no activity at all
RouteBehindBootScreen(n) ==
  /\ MainStep("route", "bootWait")
  /\ currentActivity # NoActivity
  /\ PendReplace(n)
  /\ UNCHANGED <<treeVars, resultHandler, lockVars, returnTo, navs, hasPendingAlert, sleeping,
                 revealed>>

RouteAtOnce(n) == MainStep("route", "onEnter") /\ EnterAtOnce(n, "bootWait")

\* a silent restart ends with requestUpdateAndWait()
WaitForFirstPaint ==
  /\ MainStep("bootWait", "booted")
  /\ boot = "silent"
  /\ renderNotified' = TRUE
  /\ mainBlocked' = TRUE
  /\ StayPut
  /\ UNCHANGED <<renderingMutex, requestedUpdate, returnTo, hasPendingAlert>>

BootDone == boot # "silent" /\ Advance("bootWait", "booted")

\* The power button is ignored for two seconds after setup().
FirstLoop == Advance("booted", "loop")

Setup ==
  \/ \E n \in Activities : GoToBoot(n) \/ RouteBehindBootScreen(n) \/ RouteAtOnce(n)
  \/ SkipBootScreen \/ WaitForFirstPaint \/ BootDone \/ FirstLoop

-----------------------------------------------------------------------------
(* loop() of main.cpp before activityManager.loop().  One press of the     *)
(* power button is one action, so the iteration after it takes none.       *)

GlobalPower(n) ==
  /\ MainStep("poll", "loop")
  /\ PendPush(n) \/ PendReplace(n)
  /\ UNCHANGED <<treeVars, resultHandler, lockVars, returnTo, navs, hasPendingAlert, sleeping,
                 revealed>>

\* enterDeepSleep(): goToSleep() replaces and runs loop() itself
EnterDeepSleep(n) ==
  /\ MainStep("poll", "loop")
  /\ PendReplace(n)
  /\ sleeping' = n
  /\ UNCHANGED <<treeVars, resultHandler, lockVars, returnTo, navs, hasPendingAlert, revealed>>

UsbChanged ==
  /\ MainStep("poll", "loop")
  /\ requestedUpdate' = TRUE
  /\ StayPut
  /\ UNCHANGED <<renderingMutex, renderNotified, mainBlocked, returnTo, hasPendingAlert>>

NothingToPoll == Advance("poll", "loop")

Poll ==
  \/ \E n \in Activities : GlobalPower(n) \/ EnterDeepSleep(n)
  \/ UsbChanged \/ NothingToPoll

-----------------------------------------------------------------------------
(* The pending loop of ActivityManager::loop() and what follows it.        *)

\* Mutant: the pending loop does not take the lock.
ProcessPendingUnlocked ==
  /\ MainStep("pending", IF pendingAction = "Pop" THEN "pop" ELSE "swap")
  /\ pendingAction = "Pop" \/ (pendingAction # "None" /\ pendingActivity # NoActivity)
  /\ renderingMutex' = "main"
  /\ StayPut
  /\ UNCHANGED <<requestedUpdate, renderNotified, mainBlocked, returnTo, hasPendingAlert>>

\* RenderLock lock; an action with no activity to enter would spin here
LockForPending ==
  /\ MainStep("pending", IF pendingAction = "Pop" THEN "pop" ELSE "swap")
  /\ pendingAction = "Pop" \/ (pendingAction # "None" /\ pendingActivity # NoActivity)
  /\ renderingMutex = "none"
  /\ renderingMutex' = "main"
  /\ StayPut
  /\ UNCHANGED <<requestedUpdate, renderNotified, mainBlocked, returnTo, hasPendingAlert>>

\* What the bodies under the lock share: they end by dropping it.
UnderLock(from, to) ==
  /\ MainStep(from, to)
  /\ renderingMutex' = "none"
  /\ UNCHANGED <<renderNotified, mainBlocked, navs, sleeping, hasPendingAlert>>

PopLast ==
  /\ UnderLock("pop", "goHome")
  /\ stackActivities = <<>>
  /\ life' = Destroyed({currentActivity})
  /\ resultHandler' = Forgotten({currentActivity})
  /\ currentActivity' = NoActivity
  /\ pendingAction' = "None"
  /\ revealed' = NoActivity
  /\ UNCHANGED <<stackActivities, pendingActivity, requestedUpdate, returnTo>>

GoHome(n) == MainStep("goHome", "onEnter") /\ EnterAtOnce(n, "pending")

\* Mutant: the parent's handler is copied, not moved out.
PopKeepsHandler ==
  LET parent  == Last(stackActivities)
      handled == resultHandler[parent] # NoActivity
  IN
  /\ stackActivities # <<>>
  /\ UnderLock("pop", IF handled THEN "handler" ELSE "pending")
  /\ life' = Destroyed({currentActivity})
  /\ resultHandler' = Forgotten({currentActivity})
  /\ currentActivity' = parent
  /\ stackActivities' = Front(stackActivities)
  /\ pendingAction' = "None"
  /\ requestedUpdate' = (requestedUpdate \/ ~handled)
  /\ revealed' = parent
  /\ UNCHANGED <<pendingActivity, returnTo>>

\* Mutant: the parent stays on the stack.
PopKeepsStack ==
  LET parent  == Last(stackActivities)
      handled == resultHandler[parent] # NoActivity
  IN
  /\ stackActivities # <<>>
  /\ UnderLock("pop", IF handled THEN "handler" ELSE "pending")
  /\ life' = Destroyed({currentActivity})
  /\ resultHandler' = Forgotten({currentActivity, parent})
  /\ currentActivity' = parent
  /\ stackActivities' = stackActivities
  /\ pendingAction' = "None"
  /\ requestedUpdate' = (requestedUpdate \/ ~handled)
  /\ revealed' = parent
  /\ UNCHANGED <<pendingActivity, returnTo>>

\* Mutant: no repaint is queued for a parent without a handler.
PopWithoutRepaint ==
  LET parent  == Last(stackActivities)
      handled == resultHandler[parent] # NoActivity
  IN
  /\ stackActivities # <<>>
  /\ UnderLock("pop", IF handled THEN "handler" ELSE "pending")
  /\ life' = Destroyed({currentActivity})
  /\ resultHandler' = Forgotten({currentActivity, parent})
  /\ currentActivity' = parent
  /\ stackActivities' = Front(stackActivities)
  /\ pendingAction' = "None"
  /\ requestedUpdate' = requestedUpdate
  /\ revealed' = parent
  /\ UNCHANGED <<pendingActivity, returnTo>>

\* Back to the parent: its handler runs after the lock, or a repaint is queued.
PopToParent ==
  LET parent  == Last(stackActivities)
      handled == resultHandler[parent] # NoActivity
  IN
  /\ stackActivities # <<>>
  /\ UnderLock("pop", IF handled THEN "handler" ELSE "pending")
  /\ life' = Destroyed({currentActivity})
  /\ resultHandler' = Forgotten({currentActivity, parent})
  /\ currentActivity' = parent
  /\ stackActivities' = Front(stackActivities)
  /\ pendingAction' = "None"
  /\ requestedUpdate' = (requestedUpdate \/ ~handled)
  /\ revealed' = parent
  /\ UNCHANGED <<pendingActivity, returnTo>>

EnterPending ==
  /\ UnderLock("swap", "onEnter")
  /\ currentActivity' = pendingActivity
  /\ pendingActivity' = NoActivity
  /\ pendingAction' = "None"
  /\ returnTo' = "pending"
  /\ revealed' = NoActivity
  /\ UNCHANGED requestedUpdate

SwapReplace ==
  LET gone == {currentActivity} \cup Range(stackActivities) IN
  /\ EnterPending
  /\ pendingAction = "Replace"
  /\ life' = Destroyed(gone)
  /\ resultHandler' = Forgotten(gone)
  /\ stackActivities' = <<>>

SwapPush ==
  /\ EnterPending
  /\ pendingAction = "Push"
  /\ stackActivities' = Append(stackActivities, currentActivity)
  /\ UNCHANGED <<life, resultHandler>>

\* Mutant: the loop goes on for a pending pop only.
PendingDoneUnlessPop == pendingAction # "Pop" /\ Advance("pending", "tail")

PendingDone == pendingAction = "None" /\ Advance("pending", "tail")

\* pushActivity(AlertActivity), when a slot is free (bound)
RaisePendingAlert(n) ==
  /\ MainStep("tail", "drain")
  /\ hasPendingAlert
  /\ pendingAction = "None"
  /\ hasPendingAlert' = FALSE
  /\ PendPush(n)
  /\ UNCHANGED <<treeVars, resultHandler, lockVars, returnTo, navs, sleeping, revealed>>

NoAlert ==
  /\ ~hasPendingAlert \/ pendingAction # "None" \/ (\A n \in Activities : ~Free(n))
  /\ Advance("tail", "drain")

\* requestedUpdate.exchange(false), notifyRenderTask(); in goToSleep() the chip stops next
Drain ==
  /\ MainStep("drain", IF sleeping = NoActivity THEN "poll" ELSE "asleep")
  /\ requestedUpdate' = FALSE
  /\ renderNotified' = (renderNotified \/ requestedUpdate)
  /\ StayPut
  /\ UNCHANGED <<renderingMutex, mainBlocked, returnTo, hasPendingAlert>>

ManagerLoop ==
  \/ LockForPending \/ PopLast \/ PopToParent \/ SwapReplace \/ SwapPush \/ PendingDone
  \/ \E n \in Activities : GoHome(n) \/ RaisePendingAlert(n)
  \/ NoAlert \/ Drain

-----------------------------------------------------------------------------
(* Resets: everything above is in RAM.                                     *)

Reset ==
  /\ currentActivity' = NoActivity /\ pendingActivity' = NoActivity
  /\ pendingAction' = "None" /\ stackActivities' = <<>>
  /\ resultHandler' = [a \in Activities |-> NoActivity]
  /\ life' = [a \in Activities |-> "free"]
  /\ renderingMutex' = "none" /\ requestedUpdate' = FALSE /\ renderNotified' = FALSE
  /\ renderPc' = "take" /\ drawn' = NoActivity
  /\ mainPc' = "setup" /\ returnTo' = "route" /\ mainBlocked' = FALSE /\ navs' = 0
  /\ hasPendingAlert' = FALSE /\ sleeping' = NoActivity /\ revealed' = NoActivity

\* silentRestart() in the onExit() of an activity; a no-op on the way to sleep
SilentRestart ==
  /\ mainPc \in {"pop", "swap"}
  /\ sleeping = NoActivity
  /\ Reset
  /\ boot' = "silent"

\* wake-up from deep sleep is a full chip reset
WakeUp ==
  /\ mainPc = "asleep"
  /\ Reset
  /\ boot' \in Boots

Next ==
  \/ RenderNext \/ ActivityCall \/ CallbackReturns \/ Setup \/ Poll \/ ManagerLoop
  \/ SilentRestart \/ WakeUp

Spec == Init /\ [][Next]_vars

\* The scheduler runs both tasks, the mutex is handed over in FIFO order, and a
\* callback returns after finitely many calls, however often it waits for a paint.
Fairness ==
  /\ WF_vars(RenderTake) /\ SF_vars(RenderBegin) /\ WF_vars(RenderEnd)
  /\ SF_vars(CallbackReturns) /\ WF_vars(Setup) /\ WF_vars(Poll)
  /\ WF_vars(ManagerLoop)

FairSpec == Spec /\ Fairness

-----------------------------------------------------------------------------
(* Properties.                                                             *)

MaybeActivity == Activities \cup {NoActivity}

TreeTypes ==
  /\ currentActivity \in MaybeActivity
  /\ pendingActivity \in MaybeActivity
  /\ pendingAction \in Actions
  /\ stackActivities \in Seq(Activities)
  /\ resultHandler \in [Activities -> MaybeActivity]
  /\ life \in [Activities -> {"free", "built", "entered"}]

TaskTypes ==
  /\ drawn \in MaybeActivity /\ sleeping \in MaybeActivity /\ revealed \in MaybeActivity
  /\ renderingMutex \in {"none", "main", "render"}
  /\ requestedUpdate \in BOOLEAN /\ renderNotified \in BOOLEAN
  /\ renderPc \in {"take", "lock", "draw"}
  /\ mainPc \in MainPcs /\ returnTo \in {"route", "bootWait", "pending"}
  /\ mainBlocked \in BOOLEAN /\ hasPendingAlert \in BOOLEAN
  /\ navs \in 0..NavPerCallback
  /\ boot \in Boots

TypeOK == TreeTypes /\ TaskTypes

\* The render task never draws an activity that was destroyed under it or that
\* is no longer the current one ("avoid a TOCTOU race where the main task
\* deletes the activity", renderTaskLoop).
DrawnStaysAlive ==
  drawn # NoActivity => drawn = currentActivity /\ life[drawn] # "free"

Stacked == {stackActivities[i] : i \in 1..Len(stackActivities)}

\* Every activity built and not yet destroyed has exactly one owner among the
\* three unique_ptr homes, and nothing in them has been destroyed: no leak,
\* no double owner, no dangling pointer after any sequence of navigation.
OneOwner ==
  /\ \A a \in Activities :
       life[a] # "free" <=> a \in {currentActivity, pendingActivity} \cup Stacked
  /\ currentActivity # NoActivity => currentActivity # pendingActivity
  /\ {currentActivity, pendingActivity} \cap Stacked = {}
  /\ \A i, j \in 1..Len(stackActivities) : i < j => stackActivities[i] # stackActivities[j]

\* A push or replace is pending exactly when there is an activity to enter;
\* otherwise the pending loop would spin on it for ever, holding no lock and
\* never returning to the main loop.
PendingMatches == pendingAction \in {"Push", "Replace"} <=> pendingActivity # NoActivity

\* No activity gets loop() or a child's result before its onEnter() is over,
\* nor is one put on the stack.
EnteredFirst ==
  /\ mainPc \in {"loop", "handler"} => life[currentActivity] = "entered"
  /\ \A a \in Stacked : life[a] = "entered"

\* The activity right above the i-th of the stack.
Above(i) == IF i = Len(stackActivities) THEN currentActivity ELSE stackActivities[i + 1]

\* A stored result handler is for the activity right above its owner: alerts
\* and power-button screens pushed on top of an activity never make it
\* receive a result it did not ask for.
HandlerMatchesChild ==
  \A i \in 1..Len(stackActivities) :
    resultHandler[stackActivities[i]] \in
      {NoActivity, Above(i)}

\* main sleeps on a paint only while nobody it waits for needs the mutex it
\* holds, and a blocked main always has a paint on its way.
WaitIsServed ==
  mainBlocked => renderingMutex # "main" /\ (renderNotified \/ renderPc # "take")

\* The strengthening that makes the invariants above inductive.

\* Who holds the mutex, and what the holder is doing.
LockInv ==
  /\ renderingMutex = "main" <=> mainPc \in {"pop", "swap"}
  /\ renderingMutex = "render" <=> renderPc = "draw"
  /\ mainBlocked => mainPc \in Callbacks \cup {"booted"}

DrawInv == drawn # NoActivity => renderPc = "draw" /\ drawn = currentActivity

\* Where there is no current activity, and what is pending under the lock.
WhereInv ==
  /\ currentActivity = NoActivity => mainPc \in {"setup", "route", "goHome"}
  /\ mainPc \in {"setup", "goHome"} => currentActivity = NoActivity
  /\ currentActivity = NoActivity => stackActivities = <<>> /\ pendingAction = "None"
  /\ mainPc = "tail" => pendingAction = "None"
  /\ mainPc = "pop" => pendingAction = "Pop"
  /\ mainPc = "swap" => pendingAction \in {"Push", "Replace"}

EnteredInv ==
  /\ currentActivity # NoActivity /\ mainPc # "onEnter" => life[currentActivity] = "entered"
  /\ \A a \in Stacked : life[a] = "entered"

\* A handler waits for the pending push it came with or for the activity above
\* its owner; or its owner is about to be destroyed.
HandlerInv ==
  /\ \A a \in Activities : resultHandler[a] # NoActivity =>
       \/ a = currentActivity /\ pendingAction \in {"Pop", "Replace"}
       \/ a = currentActivity /\ pendingAction = "Push" /\ pendingActivity = resultHandler[a]
       \/ \E i \in 1..Len(stackActivities) :
            stackActivities[i] = a /\ resultHandler[a] = Above(i)
  /\ mainPc \in {"drain", "poll"} => resultHandler[currentActivity] = NoActivity

\* The task control of the invariant, and its trees of activities.
ControlInv == LockInv /\ DrawInv /\ PendingMatches /\ WhereInv /\ WaitIsServed
TreeInv    == OneOwner /\ EnteredInv /\ HandlerInv

IInv == TypeOK /\ ControlInv /\ TreeInv

\* requestUpdateAndWait() comes back: an activity never freezes the main loop.
SyncReturns == mainBlocked ~> ~mainBlocked

\* A navigation that was asked for is carried out or displaced by a later one,
\* or the device sleeps first; it is not left pending.
PendingHandled ==
  \A n \in Activities : pendingActivity = n ~> pendingActivity # n \/ mainPc = "asleep"

\* A parent that a pop uncovers is painted, unless it is left again or the
\* device sleeps first: the child's last frame does not stay on the panel.
RevealedRepainted == \A a \in Activities : revealed = a ~> revealed # a \/ mainPc = "asleep"

\* "Should never happen in practice" (pushActivity(), popActivity()): a push or
\* a pop finds no activity still pending that it would destroy.
NoPendingDropped ==
  [][pendingAction' \in {"Push", "Pop"} /\ pendingActivity # NoActivity
       => life'[pendingActivity] # "free"]_vars

=============================================================================
