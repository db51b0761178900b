------------------------ MODULE ActivityManagerProofs ------------------------
(***************************************************************************)
(* Proofs about ActivityManager, for any number of activities and any      *)
(* number of navigation calls in a callback.                               *)
(***************************************************************************)
EXTENDS ActivityManager, SequenceTheorems, TLAPS

USE ActivitiesAssumption, NavAssumption

\* The stack as its indices see it, for the three ways it changes.
LEMMA StackFacts ==
  ASSUME NEW S, NEW s \in Seq(S)
  PROVE  /\ Len(s) \in Nat
         /\ \A i \in 1..Len(s) : s[i] \in S
         /\ s # <<>> => /\ Len(s) >= 1
                        /\ Last(s) = s[Len(s)] /\ Last(s) \in S
                        /\ Front(s) \in Seq(S)
                        /\ Len(Front(s)) = Len(s) - 1
                        /\ \A i \in 1..(Len(s) - 1) : Front(s)[i] = s[i]
         /\ \A e \in S : /\ Append(s, e) \in Seq(S)
                         /\ Len(Append(s, e)) = Len(s) + 1
                         /\ Append(s, e)[Len(s) + 1] = e
                         /\ \A i \in 1..Len(s) : Append(s, e)[i] = s[i]
         /\ Range(s) = {s[i] : i \in 1..Len(s)}
<1>1. Len(s) \in Nat /\ \A i \in 1..Len(s) : s[i] \in S
  OBVIOUS
<1>2. ASSUME s # <<>>
      PROVE  /\ Len(s) >= 1
             /\ Last(s) = s[Len(s)] /\ Last(s) \in S
             /\ Front(s) \in Seq(S)
             /\ Len(Front(s)) = Len(s) - 1
             /\ \A i \in 1..(Len(s) - 1) : Front(s)[i] = s[i]
  <2>1. Len(s) >= 1
    BY <1>2
  <2> DEFINE n == Len(s) - 1
             f == SubSeq(s, 1, n)
  <2>2. n \in Int /\ 0 <= n /\ \A i \in 1..n : s[i] \in S
    BY <1>1, <2>1
  <2>3. f \in Seq(S) /\ Len(f) = (IF 1 <= n THEN n - 1 + 1 ELSE 0)
                     /\ \A i \in 1..(n - 1 + 1) : f[i] = s[1 + i - 1]
    <3> HIDE DEF n
    <3> QED
      BY <2>2, SubSeqProperties
  <2>4. Front(s) = f
    BY DEF Front
  <2>5. f \in Seq(S) /\ Len(f) = n /\ \A i \in 1..n : f[i] = s[i]
    <3> HIDE DEF n, f
    <3> QED
      BY <2>2, <2>3
  <2> QED
    <3> HIDE DEF f
    <3> QED
      BY <1>1, <2>1, <2>4, <2>5 DEF Last
<1>3. \A e \in S : /\ Append(s, e) \in Seq(S)
                   /\ Len(Append(s, e)) = Len(s) + 1
                   /\ Append(s, e)[Len(s) + 1] = e
                   /\ \A i \in 1..Len(s) : Append(s, e)[i] = s[i]
  OBVIOUS
<1>4. Range(s) = {s[i] : i \in 1..Len(s)}
  BY DEF Range
<1> QED BY <1>1, <1>2, <1>3, <1>4

\* The same, of the stack of activities.
LEMMA ParentFacts ==
  ASSUME TypeOK, stackActivities # <<>>
  PROVE  /\ Last(stackActivities) \in Activities
         /\ Last(stackActivities) = stackActivities[Len(stackActivities)]
         /\ Len(stackActivities) \in Nat /\ Len(stackActivities) >= 1
         /\ Front(stackActivities) \in Seq(Activities)
         /\ Len(Front(stackActivities)) = Len(stackActivities) - 1
         /\ \A i \in 1..(Len(stackActivities) - 1) :
              Front(stackActivities)[i] = stackActivities[i]
  <1>1. stackActivities \in Seq(Activities)
    BY DEF TypeOK, TreeTypes
  <1> QED
    BY <1>1, StackFacts

\* The chip starts with the invariant: no activity, no owner, no lock.
LEMMA InitIInv == Init => IInv
  <1> SUFFICES ASSUME Init PROVE IInv
    OBVIOUS
  <1> USE DEF Init
  <1>1. TypeOK
    <2>1. stackActivities \in Seq(Activities)
      OBVIOUS
    <2>2. navs \in 0..NavPerCallback
      OBVIOUS
    <2> QED
      BY <2>1, <2>2 DEF TypeOK, TreeTypes, TaskTypes, MaybeActivity, MainPcs, Callbacks, Actions, Boots
  <1>2. Stacked = {} /\ Len(stackActivities) = 0
    BY DEF Stacked
  <1>3. OneOwner
    BY <1>2 DEF OneOwner
  <1>4. LockInv /\ DrawInv /\ PendingMatches /\ WhereInv /\ EnteredInv /\ HandlerInv /\ WaitIsServed
    BY <1>2 DEF LockInv, DrawInv, PendingMatches, WhereInv, EnteredInv, HandlerInv, WaitIsServed,
                Callbacks
  <1> QED
    BY <1>1, <1>3, <1>4 DEF IInv, ControlInv, TreeInv

\* Every step keeps the control part: who holds the mutex, what is drawn, what is
\* pending, and that a blocked main task is served.
LEMMA NextControl == IInv /\ [Next]_vars => ControlInv'
  <1> SUFFICES ASSUME IInv, [Next]_vars PROVE ControlInv'
    OBVIOUS
  <1> USE DEF IInv, ControlInv, TypeOK, TreeTypes, TaskTypes, MaybeActivity, MainPcs, Callbacks, Actions, LockInv, DrawInv,
        PendingMatches, WhereInv, WaitIsServed, navVars, treeVars, lockVars, mainVars, MainStep,
        StayPut, Free
  <1>1. CASE RenderTake
    BY <1>1 DEF RenderTake, RenderStep
  <1>2. CASE RenderBegin
    BY <1>2 DEF RenderBegin, RenderStep
  <1>3. CASE RaiseAlert
    BY <1>3 DEF RaiseAlert, RenderStep
  <1>4. CASE RenderEnd
    BY <1>4 DEF RenderEnd, RenderStep
  <1>5. ASSUME NEW n \in Activities, StartActivityForResult(n) PROVE ControlInv'
    BY <1>5 DEF StartActivityForResult, Navigate, InCallback, PendPush, Pend
  <1>6. ASSUME NEW n \in Activities, ReplaceActivity(n) PROVE ControlInv'
    BY <1>6 DEF ReplaceActivity, Navigate, InCallback, PendReplace, Pend
  <1>7. CASE Finish
    BY <1>7 DEF Finish, Navigate, InCallback
  <1>8. CASE RequestDeferred
    BY <1>8 DEF RequestDeferred, Request, InCallback
  <1>9. CASE RequestImmediate
    BY <1>9 DEF RequestImmediate, Request, InCallback
  <1>10. CASE RequestAndWait
    BY <1>10 DEF RequestAndWait, Request, InCallback
  <1>11. CASE ReturnFromOnEnter
    BY <1>11 DEF ReturnFromOnEnter, CallbackEnds
  <1>12. CASE ReturnFromLoop
    BY <1>12 DEF ReturnFromLoop, CallbackEnds
  <1>13. CASE ReturnFromHandler
    BY <1>13 DEF ReturnFromHandler, CallbackEnds
  <1>14. ASSUME NEW n \in Activities, GoToBoot(n) PROVE ControlInv'
    BY <1>14 DEF GoToBoot, EnterAtOnce
  <1>15. CASE SkipBootScreen
    BY <1>15 DEF SkipBootScreen, Advance
  <1>16. ASSUME NEW n \in Activities, RouteBehindBootScreen(n) PROVE ControlInv'
    BY <1>16 DEF RouteBehindBootScreen, PendReplace, Pend
  <1>17. ASSUME NEW n \in Activities, RouteAtOnce(n) PROVE ControlInv'
    BY <1>17 DEF RouteAtOnce, EnterAtOnce
  <1>18. CASE WaitForFirstPaint
    BY <1>18 DEF WaitForFirstPaint
  <1>19. CASE BootDone
    BY <1>19 DEF BootDone, Advance
  <1>20. CASE FirstLoop
    BY <1>20 DEF FirstLoop, Advance
  <1>21. ASSUME NEW n \in Activities, GlobalPower(n) PROVE ControlInv'
    BY <1>21 DEF GlobalPower, PendPush, PendReplace, Pend
  <1>22. ASSUME NEW n \in Activities, EnterDeepSleep(n) PROVE ControlInv'
    BY <1>22 DEF EnterDeepSleep, PendReplace, Pend
  <1>23. CASE UsbChanged
    BY <1>23 DEF UsbChanged
  <1>24. CASE NothingToPoll
    BY <1>24 DEF NothingToPoll, Advance
  <1>25. CASE LockForPending
    BY <1>25 DEF LockForPending
  <1>26. CASE PopLast
    BY <1>26 DEF PopLast, UnderLock
  <1>27. CASE PopToParent
    BY ParentFacts, <1>27 DEF PopToParent, UnderLock
  <1>28. CASE SwapReplace
    BY <1>28 DEF SwapReplace, UnderLock, EnterPending
  <1>29. CASE SwapPush
    BY <1>29 DEF SwapPush, UnderLock, EnterPending
  <1>30. CASE PendingDone
    BY <1>30 DEF PendingDone, Advance
  <1>31. ASSUME NEW n \in Activities, GoHome(n) PROVE ControlInv'
    BY <1>31 DEF GoHome, EnterAtOnce
  <1>32. ASSUME NEW n \in Activities, RaisePendingAlert(n) PROVE ControlInv'
    BY <1>32 DEF RaisePendingAlert, PendPush, Pend
  <1>33. CASE NoAlert
    BY <1>33 DEF NoAlert, Advance
  <1>34. CASE Drain
    BY <1>34 DEF Drain
  <1>35. CASE SilentRestart
    BY <1>35 DEF SilentRestart, Reset
  <1>36. CASE WakeUp
    BY <1>36 DEF WakeUp, Reset
  <1>37. CASE UNCHANGED vars
    BY <1>37 DEF vars
  <1> QED
    BY <1>1, <1>2, <1>3, <1>4, <1>5, <1>6, <1>7, <1>8, <1>9, <1>10, <1>11, <1>12,
       <1>13, <1>14, <1>15, <1>16, <1>17, <1>18, <1>19, <1>20, <1>21, <1>22, <1>23, <1>24,
       <1>25, <1>26, <1>27, <1>28, <1>29, <1>30, <1>31, <1>32, <1>33, <1>34, <1>35, <1>36,
       <1>37
       DEF Next, RenderNext, ActivityCall, CallbackReturns, Setup, Poll, ManagerLoop

\* Every step keeps the types of the variables that hold activities.
LEMMA NextTreeTypes == IInv /\ [Next]_vars => TreeTypes'
  <1> SUFFICES ASSUME IInv, [Next]_vars PROVE TreeTypes'
    OBVIOUS
  <1> USE DEF IInv, TypeOK, TreeTypes, MaybeActivity, Actions, navVars, treeVars, MainStep, StayPut, Free,
        Destroyed, Forgotten
  <1>1. CASE RenderTake
    BY <1>1 DEF RenderTake, RenderStep
  <1>2. CASE RenderBegin
    BY <1>2 DEF RenderBegin, RenderStep
  <1>3. CASE RaiseAlert
    BY <1>3 DEF RaiseAlert, RenderStep
  <1>4. CASE RenderEnd
    BY <1>4 DEF RenderEnd, RenderStep
  <1>5. ASSUME NEW n \in Activities, StartActivityForResult(n) PROVE TreeTypes'
    BY <1>5 DEF StartActivityForResult, Navigate, InCallback, PendPush, Pend
  <1>6. ASSUME NEW n \in Activities, ReplaceActivity(n) PROVE TreeTypes'
    BY <1>6 DEF ReplaceActivity, Navigate, InCallback, PendReplace, Pend
  <1>7. CASE Finish
    BY <1>7 DEF Finish, Navigate, InCallback
  <1>8. CASE RequestDeferred
    BY <1>8 DEF RequestDeferred, Request, InCallback
  <1>9. CASE RequestImmediate
    BY <1>9 DEF RequestImmediate, Request, InCallback
  <1>10. CASE RequestAndWait
    BY <1>10 DEF RequestAndWait, Request, InCallback
  <1>11. CASE ReturnFromOnEnter
    BY <1>11 DEF ReturnFromOnEnter, CallbackEnds
  <1>12. CASE ReturnFromLoop
    BY <1>12 DEF ReturnFromLoop, CallbackEnds
  <1>13. CASE ReturnFromHandler
    BY <1>13 DEF ReturnFromHandler, CallbackEnds
  <1>14. ASSUME NEW n \in Activities, GoToBoot(n) PROVE TreeTypes'
    BY <1>14 DEF GoToBoot, EnterAtOnce
  <1>15. CASE SkipBootScreen
    BY <1>15 DEF SkipBootScreen, Advance
  <1>16. ASSUME NEW n \in Activities, RouteBehindBootScreen(n) PROVE TreeTypes'
    BY <1>16 DEF RouteBehindBootScreen, PendReplace, Pend
  <1>17. ASSUME NEW n \in Activities, RouteAtOnce(n) PROVE TreeTypes'
    BY <1>17 DEF RouteAtOnce, EnterAtOnce
  <1>18. CASE WaitForFirstPaint
    BY <1>18 DEF WaitForFirstPaint
  <1>19. CASE BootDone
    BY <1>19 DEF BootDone, Advance
  <1>20. CASE FirstLoop
    BY <1>20 DEF FirstLoop, Advance
  <1>21. ASSUME NEW n \in Activities, GlobalPower(n) PROVE TreeTypes'
    <2>1. CASE PendPush(n)
      BY <1>21, <2>1 DEF GlobalPower, PendPush, Pend
    <2>2. CASE PendReplace(n)
      BY <1>21, <2>2 DEF GlobalPower, PendReplace, Pend
    <2> QED
      BY <1>21, <2>1, <2>2 DEF GlobalPower
  <1>22. ASSUME NEW n \in Activities, EnterDeepSleep(n) PROVE TreeTypes'
    BY <1>22 DEF EnterDeepSleep, PendReplace, Pend
  <1>23. CASE UsbChanged
    BY <1>23 DEF UsbChanged
  <1>24. CASE NothingToPoll
    BY <1>24 DEF NothingToPoll, Advance
  <1>25. CASE LockForPending
    BY <1>25 DEF LockForPending
  <1>26. CASE PopLast
    BY <1>26 DEF PopLast, UnderLock
  <1>27. CASE PopToParent
    BY ParentFacts, <1>27 DEF PopToParent, UnderLock
  <1>28. CASE SwapReplace
    BY <1>28 DEF SwapReplace, UnderLock, EnterPending
  <1>29. CASE SwapPush
    <2>1. currentActivity \in Activities
      BY <1>29 DEF SwapPush, UnderLock, EnterPending, ControlInv, WhereInv
    <2>2. stackActivities' \in Seq(Activities)
      BY <1>29, <2>1 DEF SwapPush, UnderLock, EnterPending
    <2> QED
      BY <1>29, <2>2 DEF SwapPush, UnderLock, EnterPending
  <1>30. CASE PendingDone
    BY <1>30 DEF PendingDone, Advance
  <1>31. ASSUME NEW n \in Activities, GoHome(n) PROVE TreeTypes'
    BY <1>31 DEF GoHome, EnterAtOnce
  <1>32. ASSUME NEW n \in Activities, RaisePendingAlert(n) PROVE TreeTypes'
    BY <1>32 DEF RaisePendingAlert, PendPush, Pend
  <1>33. CASE NoAlert
    BY <1>33 DEF NoAlert, Advance
  <1>34. CASE Drain
    BY <1>34 DEF Drain
  <1>35. CASE SilentRestart
    BY <1>35 DEF SilentRestart, Reset
  <1>36. CASE WakeUp
    BY <1>36 DEF WakeUp, Reset
  <1>37. CASE UNCHANGED vars
    BY <1>37 DEF vars
  <1> QED
    BY <1>1, <1>2, <1>3, <1>4, <1>5, <1>6, <1>7, <1>8, <1>9, <1>10, <1>11, <1>12,
       <1>13, <1>14, <1>15, <1>16, <1>17, <1>18, <1>19, <1>20, <1>21, <1>22, <1>23, <1>24,
       <1>25, <1>26, <1>27, <1>28, <1>29, <1>30, <1>31, <1>32, <1>33, <1>34, <1>35, <1>36,
       <1>37
       DEF Next, RenderNext, ActivityCall, CallbackReturns, Setup, Poll, ManagerLoop

\* Every step keeps the types of the variables of the two tasks.
LEMMA NextTaskTypes == IInv /\ [Next]_vars => TaskTypes'
  <1> SUFFICES ASSUME IInv, [Next]_vars PROVE TaskTypes'
    OBVIOUS
  <1> USE DEF IInv, TypeOK, TreeTypes, TaskTypes, MaybeActivity, MainPcs, Callbacks, Boots, lockVars, treeVars,
        mainVars, MainStep, StayPut
  <1>1. CASE RenderTake
    <2>1. renderNotified' \in BOOLEAN
      BY <1>1 DEF RenderTake, RenderStep
    <2> QED
      BY <1>1, <2>1 DEF RenderTake, RenderStep
  <1>2. CASE RenderBegin
    BY <1>2 DEF RenderBegin, RenderStep
  <1>3. CASE RaiseAlert
    BY <1>3 DEF RaiseAlert, RenderStep
  <1>4. CASE RenderEnd
    BY <1>4 DEF RenderEnd, RenderStep
  <1>5. ASSUME NEW n \in Activities, StartActivityForResult(n) PROVE TaskTypes'
    BY <1>5 DEF StartActivityForResult, Navigate, InCallback, PendPush, Pend
  <1>6. ASSUME NEW n \in Activities, ReplaceActivity(n) PROVE TaskTypes'
    BY <1>6 DEF ReplaceActivity, Navigate, InCallback, PendReplace, Pend
  <1>7. CASE Finish
    BY <1>7 DEF Finish, Navigate, InCallback
  <1>8. CASE RequestDeferred
    BY <1>8 DEF RequestDeferred, Request, InCallback
  <1>9. CASE RequestImmediate
    BY <1>9 DEF RequestImmediate, Request, InCallback
  <1>10. CASE RequestAndWait
    BY <1>10 DEF RequestAndWait, Request, InCallback
  <1>11. CASE ReturnFromOnEnter
    BY <1>11 DEF ReturnFromOnEnter, CallbackEnds
  <1>12. CASE ReturnFromLoop
    BY <1>12 DEF ReturnFromLoop, CallbackEnds
  <1>13. CASE ReturnFromHandler
    BY <1>13 DEF ReturnFromHandler, CallbackEnds
  <1>14. ASSUME NEW n \in Activities, GoToBoot(n) PROVE TaskTypes'
    BY <1>14 DEF GoToBoot, EnterAtOnce
  <1>15. CASE SkipBootScreen
    BY <1>15 DEF SkipBootScreen, Advance
  <1>16. ASSUME NEW n \in Activities, RouteBehindBootScreen(n) PROVE TaskTypes'
    BY <1>16 DEF RouteBehindBootScreen, PendReplace, Pend
  <1>17. ASSUME NEW n \in Activities, RouteAtOnce(n) PROVE TaskTypes'
    BY <1>17 DEF RouteAtOnce, EnterAtOnce
  <1>18. CASE WaitForFirstPaint
    BY <1>18 DEF WaitForFirstPaint
  <1>19. CASE BootDone
    BY <1>19 DEF BootDone, Advance
  <1>20. CASE FirstLoop
    BY <1>20 DEF FirstLoop, Advance
  <1>21. ASSUME NEW n \in Activities, GlobalPower(n) PROVE TaskTypes'
    <2>1. CASE PendPush(n)
      BY <1>21, <2>1 DEF GlobalPower, PendPush
    <2>2. CASE PendReplace(n)
      BY <1>21, <2>2 DEF GlobalPower, PendReplace
    <2> QED
      BY <1>21, <2>1, <2>2 DEF GlobalPower
  <1>22. ASSUME NEW n \in Activities, EnterDeepSleep(n) PROVE TaskTypes'
    BY <1>22 DEF EnterDeepSleep, PendReplace, Pend
  <1>23. CASE UsbChanged
    BY <1>23 DEF UsbChanged
  <1>24. CASE NothingToPoll
    BY <1>24 DEF NothingToPoll, Advance
  <1>25. CASE LockForPending
    BY <1>25 DEF LockForPending
  <1>26. CASE PopLast
    BY <1>26 DEF PopLast, UnderLock
  <1>27. CASE PopToParent
    BY ParentFacts, <1>27 DEF PopToParent, UnderLock
  <1>28. CASE SwapReplace
    BY <1>28 DEF SwapReplace, UnderLock, EnterPending
  <1>29. CASE SwapPush
    BY <1>29 DEF SwapPush, UnderLock, EnterPending
  <1>30. CASE PendingDone
    BY <1>30 DEF PendingDone, Advance
  <1>31. ASSUME NEW n \in Activities, GoHome(n) PROVE TaskTypes'
    BY <1>31 DEF GoHome, EnterAtOnce
  <1>32. ASSUME NEW n \in Activities, RaisePendingAlert(n) PROVE TaskTypes'
    BY <1>32 DEF RaisePendingAlert, PendPush, Pend
  <1>33. CASE NoAlert
    BY <1>33 DEF NoAlert, Advance
  <1>34. CASE Drain
    BY <1>34 DEF Drain
  <1>35. CASE SilentRestart
    <2>1. boot' \in Boots
      BY <1>35 DEF SilentRestart, Reset
    <2>2. navs' \in 0..NavPerCallback
      BY <1>35 DEF SilentRestart, Reset
    <2>3. renderNotified' \in BOOLEAN /\ requestedUpdate' \in BOOLEAN /\ mainBlocked' \in BOOLEAN
          /\ hasPendingAlert' \in BOOLEAN
      BY <1>35 DEF SilentRestart, Reset
    <2> QED
      BY <1>35, <2>1, <2>2, <2>3 DEF SilentRestart, Reset
  <1>36. CASE WakeUp
    <2>1. boot' \in Boots
      BY <1>36 DEF WakeUp, Reset
    <2>2. navs' \in 0..NavPerCallback
      BY <1>36 DEF WakeUp, Reset
    <2>3. renderNotified' \in BOOLEAN /\ requestedUpdate' \in BOOLEAN /\ mainBlocked' \in BOOLEAN
          /\ hasPendingAlert' \in BOOLEAN
      BY <1>36 DEF WakeUp, Reset
    <2> QED
      BY <1>36, <2>1, <2>2, <2>3 DEF WakeUp, Reset
  <1>37. CASE UNCHANGED vars
    BY <1>37 DEF vars
  <1> QED
    BY <1>1, <1>2, <1>3, <1>4, <1>5, <1>6, <1>7, <1>8, <1>9, <1>10, <1>11, <1>12,
       <1>13, <1>14, <1>15, <1>16, <1>17, <1>18, <1>19, <1>20, <1>21, <1>22, <1>23, <1>24,
       <1>25, <1>26, <1>27, <1>28, <1>29, <1>30, <1>31, <1>32, <1>33, <1>34, <1>35, <1>36,
       <1>37
       DEF Next, RenderNext, ActivityCall, CallbackReturns, Setup, Poll, ManagerLoop

\* What pops, pushes and replaces do to the set of stacked activities.
LEMMA StackedAfterPop ==
  ASSUME TypeOK, OneOwner, PopToParent
  PROVE  /\ Last(stackActivities) \in Activities
         /\ Last(stackActivities) \in Stacked
         /\ Last(stackActivities) \notin Stacked'
         /\ Stacked = Stacked' \cup {Last(stackActivities)}
  <1> DEFINE p == Last(stackActivities)
             k == Len(stackActivities)
  <1>1. /\ k \in Nat /\ k >= 1 /\ p \in Activities /\ p = stackActivities[k]
        /\ stackActivities' \in Seq(Activities) /\ Len(stackActivities') = k - 1
        /\ \A i \in 1..(k - 1) : stackActivities'[i] = stackActivities[i]
    BY ParentFacts DEF PopToParent
  <1>2. Stacked = {stackActivities[i] : i \in 1..k}
    BY DEF Stacked
  <1>3. Stacked' = {stackActivities[i] : i \in 1..(k - 1)}
    <2>1. Stacked' = {stackActivities'[i] : i \in 1..Len(stackActivities')}
      BY DEF Stacked
    <2> HIDE DEF p, k
    <2> QED
      BY <1>1, <2>1
  <1>4. \A i \in 1..(k - 1) : stackActivities[i] # stackActivities[k]
    BY <1>1 DEF OneOwner
  <1> HIDE DEF p, k
  <1>5. p \in Stacked /\ p \notin Stacked' /\ Stacked = Stacked' \cup {p}
    BY <1>1, <1>2, <1>3, <1>4
  <1> QED
    BY <1>1, <1>5 DEF p

\* A push adds the current activity, and nothing else, to the owners of the stack.
LEMMA StackedAfterPush ==
  ASSUME TypeOK, currentActivity \in Activities, SwapPush
  PROVE  Stacked' = Stacked \cup {currentActivity}
  <1> DEFINE k == Len(stackActivities)
  <1>1. /\ k \in Nat /\ Len(stackActivities') = k + 1
        /\ stackActivities'[k + 1] = currentActivity
        /\ \A i \in 1..k : stackActivities'[i] = stackActivities[i]
    BY StackFacts DEF SwapPush, TypeOK, TreeTypes
  <1>2. Stacked = {stackActivities[i] : i \in 1..k}
    BY DEF Stacked
  <1>3. Stacked' = {stackActivities'[i] : i \in 1..(k + 1)}
    BY <1>1 DEF Stacked
  <1> HIDE DEF k
  <1> QED
    BY <1>1, <1>2, <1>3

\* A replace clears the stack, whose owners are the range of the sequence.
LEMMA StackedAfterReplace ==
  ASSUME TypeOK, SwapReplace
  PROVE  Stacked' = {} /\ Stacked = Range(stackActivities)
  <1>1. Len(stackActivities') = 0
    BY DEF SwapReplace
  <1>2. Stacked' = {stackActivities'[i] : i \in 1..0}
    BY <1>1 DEF Stacked
  <1>3. Stacked = Range(stackActivities)
    BY StackFacts DEF Stacked, TypeOK, TreeTypes
  <1> QED
    BY <1>2, <1>3

\* A step that touches no activity, and the ten ways in which a step does.
Quiet == UNCHANGED <<treeVars, navVars, resultHandler, life>>

\* Every step either touches no activity or is one of the navigation steps.
LEMMA TreeCalls ==
  ASSUME [Next]_vars
  PROVE  \/ Quiet
         \/ \E n \in Activities : \/ StartActivityForResult(n) \/ ReplaceActivity(n)
                                 \/ RouteBehindBootScreen(n) \/ GlobalPower(n)
                                 \/ EnterDeepSleep(n) \/ RaisePendingAlert(n)
         \/ Finish
         \/ ReturnFromOnEnter
         \/ \E n \in Activities, next \in {"route", "bootWait", "pending"} :
              EnterAtOnce(n, next) /\ mainPc' = "onEnter"
         \/ PopLast \/ PopToParent \/ SwapReplace \/ SwapPush
         \/ Reset
  <1>1. CASE RenderNext
    BY <1>1 DEF RenderNext, RenderTake, RenderBegin, RaiseAlert, RenderEnd, RenderStep, Quiet
  <1>2. CASE ActivityCall
    BY <1>2 DEF ActivityCall, RequestDeferred, RequestImmediate, RequestAndWait, Request,
                InCallback, Quiet, treeVars
  <1>3. CASE CallbackReturns
    BY <1>3 DEF CallbackReturns, ReturnFromLoop, ReturnFromHandler, CallbackEnds, Quiet
  <1>4. CASE Setup
    BY <1>4 DEF Setup, GoToBoot, RouteAtOnce, SkipBootScreen, WaitForFirstPaint, BootDone,
                FirstLoop, Advance, StayPut, MainStep, Quiet
  <1>5. CASE Poll
    BY <1>5 DEF Poll, UsbChanged, NothingToPoll, Advance, StayPut, Quiet
  <1>6. CASE ManagerLoop
    BY <1>6 DEF ManagerLoop, LockForPending, PendingDone, GoHome, NoAlert, Drain, Advance,
                StayPut, MainStep, Quiet
  <1>7. CASE SilentRestart \/ WakeUp
    BY <1>7 DEF SilentRestart, WakeUp
  <1>8. CASE UNCHANGED vars
    BY <1>8 DEF vars, Quiet
  <1> QED
    BY <1>1, <1>2, <1>3, <1>4, <1>5, <1>6, <1>7, <1>8 DEF Next

\* The pending activity changes in one way only.
LEMMA TreeSteps ==
  ASSUME [Next]_vars
  PROVE  \/ Quiet
         \/ \E n \in Activities, action \in {"Push", "Replace"} : Pend(n, action) /\ UNCHANGED treeVars
         \/ Finish
         \/ ReturnFromOnEnter
         \/ \E n \in Activities, next \in {"route", "bootWait", "pending"} :
              EnterAtOnce(n, next) /\ mainPc' = "onEnter"
         \/ PopLast \/ PopToParent \/ SwapReplace \/ SwapPush
         \/ Reset
  BY TreeCalls DEF StartActivityForResult, ReplaceActivity, Navigate, InCallback,
       RouteBehindBootScreen, GlobalPower, EnterDeepSleep, RaisePendingAlert, PendPush,
       PendReplace, treeVars

\* No step leaks an activity, gives it a second owner or leaves a dangling one.
LEMMA NextOneOwner == IInv /\ [Next]_vars => OneOwner'
  <1> SUFFICES ASSUME IInv, [Next]_vars PROVE OneOwner'
    OBVIOUS
  <1> USE DEF IInv, TypeOK, TreeTypes, MaybeActivity, TreeInv, ControlInv, OneOwner, treeVars,
        navVars, Free, Destroyed
  <1>q. ASSUME UNCHANGED stackActivities PROVE Stacked' = Stacked
    BY <1>q DEF Stacked
  <1>1. CASE Quiet
    BY <1>1, <1>q DEF Quiet
  <1>2. ASSUME NEW n \in Activities, NEW action \in {"Push", "Replace"},
               Pend(n, action), UNCHANGED treeVars
        PROVE  OneOwner'
    BY <1>2, <1>q DEF Pend
  <1>3. CASE Finish
    <2>1. NoActivity \notin Stacked
      BY StackFacts DEF Stacked
    <2> QED
      BY <1>3, <1>q, <2>1 DEF Finish, Navigate, InCallback
  <1>4. CASE ReturnFromOnEnter
    BY <1>4, <1>q DEF ReturnFromOnEnter, CallbackEnds, WhereInv, MainStep
  <1>5. ASSUME NEW n \in Activities, NEW next \in {"route", "bootWait", "pending"},
               EnterAtOnce(n, next)
        PROVE  OneOwner'
    BY <1>5, <1>q DEF EnterAtOnce, WhereInv
  <1>6. CASE PopLast
    BY <1>6, <1>q DEF PopLast, UnderLock, WhereInv, PendingMatches, MainStep
  <1>7. CASE PopToParent
    <2> DEFINE p == Last(stackActivities)
    <2>1. /\ p \in Activities /\ p \in Stacked /\ p \notin Stacked' /\ Stacked = Stacked' \cup {p}
          /\ currentActivity' = p /\ pendingActivity' = NoActivity
          /\ pendingActivity = NoActivity
          /\ life' = Destroyed({currentActivity})
      BY <1>7, StackedAfterPop DEF PopToParent, UnderLock, MainStep, WhereInv, PendingMatches
    <2>2. \A i, j \in 1..Len(stackActivities') : i < j => stackActivities'[i] # stackActivities'[j]
      BY <1>7, ParentFacts DEF PopToParent
    <2> HIDE DEF p
    <2>3. \A a \in Activities :
            life'[a] # "free" <=> a \in {currentActivity', pendingActivity'} \cup Stacked'
      BY <2>1
    <2>4. NoActivity \notin Stacked
      BY StackFacts DEF Stacked
    <2> QED
      BY <2>1, <2>2, <2>3, <2>4
  <1>8. CASE SwapReplace
    <2>1. /\ Stacked' = {} /\ Stacked = Range(stackActivities) /\ Len(stackActivities') = 0
          /\ pendingActivity \in Activities /\ currentActivity' = pendingActivity
          /\ pendingActivity' = NoActivity
          /\ life' = Destroyed({currentActivity} \cup Range(stackActivities))
      BY <1>8, StackedAfterReplace DEF SwapReplace, EnterPending, PendingMatches
    <2> QED
      BY <2>1
  <1>9. CASE SwapPush
    <2>1. currentActivity \in Activities /\ pendingActivity \in Activities
      BY <1>9 DEF SwapPush, EnterPending, UnderLock, MainStep, WhereInv, PendingMatches
    <2>2. /\ Stacked' = Stacked \cup {currentActivity}
          /\ currentActivity' = pendingActivity /\ pendingActivity' = NoActivity
          /\ life' = life
      BY <1>9, <2>1, StackedAfterPush DEF SwapPush, EnterPending
    <2>3. \A i, j \in 1..Len(stackActivities') : i < j => stackActivities'[i] # stackActivities'[j]
      <3>1. /\ Len(stackActivities) \in Nat /\ Len(stackActivities') = Len(stackActivities) + 1
            /\ stackActivities'[Len(stackActivities) + 1] = currentActivity
            /\ \A i \in 1..Len(stackActivities) : stackActivities'[i] = stackActivities[i]
        BY <1>9, <2>1, StackFacts DEF SwapPush
      <3>2. \A i \in 1..Len(stackActivities) : stackActivities[i] # currentActivity
        BY DEF Stacked
      <3> QED
        BY <3>1, <3>2
    <2>4. NoActivity \notin Stacked
      BY StackFacts DEF Stacked
    <2> QED
      BY <2>1, <2>2, <2>3, <2>4
  <1>10. CASE Reset
    <2>1. Stacked' = {} /\ Len(stackActivities') = 0
      BY <1>10 DEF Reset, Stacked
    <2> QED
      BY <1>10, <2>1 DEF Reset
  <1> QED
    BY <1>1, <1>2, <1>3, <1>4, <1>5, <1>6, <1>7, <1>8, <1>9, <1>10, TreeSteps

\* Only its return ends onEnter().
LEMMA OnEnterReturns ==
  [Next]_vars /\ mainPc = "onEnter" => mainPc' = "onEnter" \/ ReturnFromOnEnter
  <1> SUFFICES ASSUME [Next]_vars, mainPc = "onEnter", ~ReturnFromOnEnter
               PROVE  mainPc' = "onEnter"
    OBVIOUS
  <1>1. CASE RenderNext
    BY <1>1 DEF RenderNext, RenderTake, RenderBegin, RaiseAlert, RenderEnd, RenderStep, mainVars
  <1>2. CASE ActivityCall
    BY <1>2 DEF ActivityCall, StartActivityForResult, ReplaceActivity, Finish, RequestDeferred,
                RequestImmediate, RequestAndWait, Request, Navigate, InCallback, MainStep
  <1>3. ~CallbackReturns
    BY DEF CallbackReturns, ReturnFromLoop, ReturnFromHandler, CallbackEnds, MainStep
  <1>4. ~Setup
    BY DEF Setup, GoToBoot, RouteBehindBootScreen, RouteAtOnce, SkipBootScreen,
           WaitForFirstPaint, BootDone, FirstLoop, Advance, MainStep
  <1>5. ~Poll
    BY DEF Poll, GlobalPower, EnterDeepSleep, UsbChanged, NothingToPoll, Advance, MainStep
  <1>6. ~ManagerLoop
    BY DEF ManagerLoop, LockForPending, PopLast, PopToParent, SwapReplace, SwapPush, EnterPending,
           UnderLock, PendingDone, GoHome, RaisePendingAlert, NoAlert, Drain, Advance, MainStep
  <1>7. ~(SilentRestart \/ WakeUp)
    BY DEF SilentRestart, WakeUp
  <1>8. CASE UNCHANGED vars
    BY <1>8 DEF vars, mainVars
  <1> QED
    BY <1>1, <1>2, <1>3, <1>4, <1>5, <1>6, <1>7, <1>8 DEF Next

\* Every step keeps that activities are entered before anything else reaches them.
LEMMA NextEntered == IInv /\ [Next]_vars => EnteredInv'
  <1> SUFFICES ASSUME IInv, [Next]_vars PROVE EnteredInv'
    OBVIOUS
  <1> USE OnEnterReturns DEF IInv, TypeOK, TreeTypes, MaybeActivity, TreeInv, ControlInv, OneOwner,
        EnteredInv, treeVars, navVars, Free, Destroyed
  <1>q. ASSUME UNCHANGED stackActivities PROVE Stacked' = Stacked
    BY <1>q DEF Stacked
  <1>s. Stacked \subseteq Activities /\ (stackActivities = <<>> => Stacked = {})
    BY StackFacts DEF Stacked
  <1>4. CASE ReturnFromOnEnter
    BY <1>4, <1>q, <1>s DEF ReturnFromOnEnter, CallbackEnds, WhereInv, MainStep
  <1>1. CASE Quiet
    BY <1>1, <1>4, <1>q DEF Quiet
  <1>2. ASSUME NEW n \in Activities, NEW action \in {"Push", "Replace"},
               Pend(n, action), UNCHANGED treeVars
        PROVE  EnteredInv'
    BY <1>2, <1>4, <1>q, <1>s DEF Pend
  <1>3. CASE Finish
    BY <1>3, <1>4, <1>q, <1>s DEF Finish, Navigate, InCallback
  <1>5. ASSUME NEW n \in Activities, NEW next \in {"route", "bootWait", "pending"},
               EnterAtOnce(n, next), mainPc' = "onEnter"
        PROVE  EnteredInv'
    BY <1>5, <1>q, <1>s DEF EnterAtOnce, WhereInv
  <1>6. CASE PopLast
    BY <1>6, <1>q, <1>s DEF PopLast
  <1>7. CASE PopToParent
    <2> DEFINE p == Last(stackActivities)
    <2>1. /\ p \in Activities /\ p \in Stacked /\ Stacked = Stacked' \cup {p}
          /\ currentActivity' = p /\ life' = Destroyed({currentActivity})
      BY <1>7, StackedAfterPop DEF PopToParent
    <2> HIDE DEF p
    <2> QED
      BY <2>1, <1>s
  <1>8. CASE SwapReplace
    BY <1>8, StackedAfterReplace DEF SwapReplace, EnterPending, UnderLock, MainStep
  <1>9. CASE SwapPush
    <2>1. mainPc = "swap" /\ mainPc' = "onEnter" /\ life' = life
      BY <1>9 DEF SwapPush, EnterPending, UnderLock, MainStep
    <2>2. currentActivity \in Activities
      BY <2>1 DEF WhereInv
    <2>3. Stacked' = Stacked \cup {currentActivity}
      BY <1>9, <2>2, StackedAfterPush
    <2> QED
      BY <2>1, <2>2, <2>3
  <1>10. CASE Reset
    BY <1>10 DEF Reset, Stacked
  <1> QED
    BY <1>1, <1>2, <1>3, <1>4, <1>5, <1>6, <1>7, <1>8, <1>9, <1>10, TreeSteps

\* Where nothing is pending the current activity waits for no result.
LEMMA IdleHasNoHandler ==
  ASSUME IInv, pendingAction = "None", currentActivity \in Activities
  PROVE  resultHandler[currentActivity] = NoActivity
  <1>1. \A i \in 1..Len(stackActivities) : stackActivities[i] # currentActivity
    BY DEF IInv, TreeInv, OneOwner, Stacked
  <1> QED
    BY <1>1 DEF IInv, TreeInv, HandlerInv

\* Steps that leave the stack and the current activity alone.
LEMMA HandlerFrame ==
  ASSUME IInv, UNCHANGED treeVars,
         \A a \in Activities :
           \/ resultHandler'[a] \in {NoActivity, resultHandler[a]} /\ a # currentActivity
           \/ a = currentActivity /\ \/ resultHandler'[a] = NoActivity
                                     \/ pendingAction' \in {"Pop", "Replace"}
                                     \/ pendingAction' = "Push" /\ pendingActivity' = resultHandler'[a],
         mainPc' \in {"drain", "poll"} => resultHandler'[currentActivity] = NoActivity
  PROVE  HandlerInv'
  <1>1. \A i \in 1..Len(stackActivities) : Above(i)' = Above(i)
    BY DEF Above, treeVars
  <1>2. \A a \in Activities : a # currentActivity /\ resultHandler[a] # NoActivity =>
          \E i \in 1..Len(stackActivities) : stackActivities[i] = a /\ resultHandler[a] = Above(i)
    BY DEF IInv, TreeInv, HandlerInv
  <1> QED
    BY <1>1, <1>2 DEF HandlerInv, treeVars

\* Without a current activity no handler is registered.
LEMMA HandlersEmpty ==
  ASSUME IInv, stackActivities = <<>>
  PROVE  \A a \in Activities : a # currentActivity => resultHandler[a] = NoActivity
  <1>1. 1..Len(stackActivities) = {}
    OBVIOUS
  <1> QED
    BY <1>1 DEF IInv, TreeInv, HandlerInv

\* The drain and the poll are only reached from the tail of loop().
LEMMA DrainAfterTail ==
  [Next]_vars /\ mainPc' \in {"drain", "poll"} /\ ~ReturnFromOnEnter => mainPc \in {"tail", "drain", "poll"}
  <1> SUFFICES ASSUME [Next]_vars, mainPc' \in {"drain", "poll"}, ~ReturnFromOnEnter,
                      mainPc \notin {"tail", "drain", "poll"}
               PROVE  FALSE
    OBVIOUS
  <1>1. ~RenderNext
    BY DEF RenderNext, RenderTake, RenderBegin, RaiseAlert, RenderEnd, RenderStep, mainVars
  <1>2. ~ActivityCall
    BY DEF ActivityCall, StartActivityForResult, ReplaceActivity, Finish, RequestDeferred,
           RequestImmediate, RequestAndWait, Request, Navigate, InCallback, MainStep
  <1>3. ~(ReturnFromLoop \/ ReturnFromHandler)
    BY DEF ReturnFromLoop, ReturnFromHandler, CallbackEnds, MainStep
  <1>4. ~Setup
    BY DEF Setup, GoToBoot, RouteBehindBootScreen, RouteAtOnce, SkipBootScreen,
           WaitForFirstPaint, BootDone, FirstLoop, Advance, MainStep
  <1>5. ~Poll
    BY DEF Poll, GlobalPower, EnterDeepSleep, UsbChanged, NothingToPoll, Advance, MainStep
  <1>6. ~ManagerLoop
    BY DEF ManagerLoop, LockForPending, PopLast, PopToParent, SwapReplace, SwapPush, EnterPending,
           UnderLock, PendingDone, GoHome, RaisePendingAlert, NoAlert, Drain, Advance, MainStep
  <1>7. ~(SilentRestart \/ WakeUp)
    BY DEF SilentRestart, WakeUp, Reset
  <1>8. ~UNCHANGED vars
    BY DEF vars, mainVars
  <1> QED
    BY <1>1, <1>2, <1>3, <1>4, <1>5, <1>6, <1>7, <1>8 DEF Next, CallbackReturns

\* Every step keeps each stored handler with the child it was registered for.
LEMMA NextHandler == IInv /\ [Next]_vars => HandlerInv'
  <1> SUFFICES ASSUME IInv, [Next]_vars PROVE HandlerInv'
    OBVIOUS
  <1> USE DEF treeVars, navVars, MainStep
  <1>t. /\ resultHandler \in [Activities -> Activities \cup {NoActivity}]
        /\ currentActivity \in Activities \cup {NoActivity}
    BY DEF IInv, TypeOK, TreeTypes, MaybeActivity
  <1>c. \A a \in Activities : a = currentActivity /\ resultHandler[a] # NoActivity =>
          \/ pendingAction \in {"Pop", "Replace"}
          \/ pendingAction = "Push" /\ pendingActivity = resultHandler[a]
    <2>1. \A i \in 1..Len(stackActivities) : stackActivities[i] # currentActivity
      BY DEF IInv, TreeInv, OneOwner, Stacked
    <2> QED
      BY <2>1 DEF IInv, TreeInv, HandlerInv
  <1>1. CASE Quiet /\ mainPc' \notin {"drain", "poll"}
    BY <1>1, <1>c, HandlerFrame DEF Quiet
  <1>2. CASE Quiet /\ ~ReturnFromOnEnter /\ mainPc' \in {"drain", "poll"}
    <2>1. resultHandler[currentActivity] = NoActivity
      <3>1. mainPc \in {"tail", "drain", "poll"}
        BY <1>2, DrainAfterTail
      <3>2. CASE mainPc \in {"drain", "poll"}
        BY <3>2 DEF IInv, TreeInv, HandlerInv
      <3>3. CASE mainPc = "tail"
        <4>1. pendingAction = "None" /\ currentActivity \in Activities
          BY <3>3, <1>t DEF IInv, ControlInv, WhereInv
        <4> QED
          BY <4>1, IdleHasNoHandler
      <3> QED
        BY <3>1, <3>2, <3>3
    <2> QED
      BY <1>2, <2>1, <1>c, HandlerFrame DEF Quiet
  <1>3. ASSUME NEW n \in Activities, StartActivityForResult(n) PROVE HandlerInv'
    BY <1>3, <1>t, HandlerFrame DEF StartActivityForResult, Navigate, InCallback, PendPush, Pend,
                                    Callbacks
  <1>4. ASSUME NEW n \in Activities, ReplaceActivity(n) PROVE HandlerInv'
    BY <1>4, <1>t, HandlerFrame DEF ReplaceActivity, Navigate, InCallback, PendReplace, Pend,
                                    Callbacks
  <1>5. CASE Finish
    BY <1>5, <1>t, HandlerFrame DEF Finish, Navigate, InCallback, Callbacks
  <1>6. ASSUME NEW n \in Activities, RouteBehindBootScreen(n) \/ EnterDeepSleep(n)
        PROVE  HandlerInv'
    BY <1>6, <1>t, HandlerFrame DEF RouteBehindBootScreen, EnterDeepSleep, PendReplace, Pend
  <1>7. ASSUME NEW n \in Activities, GlobalPower(n) PROVE HandlerInv'
    <2>1. mainPc = "poll" /\ mainPc' = "loop" /\ UNCHANGED <<treeVars, resultHandler>>
      BY <1>7 DEF GlobalPower
    <2>2. resultHandler[currentActivity] = NoActivity
      BY <2>1 DEF IInv, TreeInv, HandlerInv
    <2> QED
      BY <2>1, <2>2, <1>t, HandlerFrame
  <1>8. ASSUME NEW n \in Activities, RaisePendingAlert(n) PROVE HandlerInv'
    <2>1. mainPc = "tail" /\ UNCHANGED <<treeVars, resultHandler>>
      BY <1>8 DEF RaisePendingAlert
    <2>2. pendingAction = "None" /\ currentActivity \in Activities
      BY <2>1, <1>t DEF IInv, ControlInv, WhereInv
    <2>3. resultHandler[currentActivity] = NoActivity
      BY <2>2, IdleHasNoHandler
    <2> QED
      BY <2>1, <2>3, <1>t, HandlerFrame
  <1>9. CASE ReturnFromOnEnter
    BY <1>9, <1>c, HandlerFrame DEF ReturnFromOnEnter, CallbackEnds, IInv, TypeOK, TaskTypes
  <1>10. ASSUME NEW n \in Activities, NEW next \in {"route", "bootWait", "pending"},
                EnterAtOnce(n, next), mainPc' = "onEnter"
         PROVE  HandlerInv'
    <2>1. stackActivities = <<>> /\ currentActivity = NoActivity
      BY <1>10 DEF EnterAtOnce, IInv, ControlInv, WhereInv
    <2>2. \A a \in Activities : resultHandler'[a] = NoActivity
      BY <1>10, <2>1, HandlersEmpty DEF EnterAtOnce
    <2> QED
      BY <1>10, <2>2 DEF HandlerInv
  <1>11. CASE PopLast
    <2>1. \A a \in Activities : resultHandler'[a] = NoActivity
      BY <1>11, HandlersEmpty DEF PopLast, Forgotten
    <2> QED
      BY <1>11, <2>1 DEF HandlerInv, PopLast, UnderLock
  <1>12. CASE PopToParent
    <2> DEFINE p == Last(stackActivities)
               k == Len(stackActivities)
    <2>1. /\ k \in Nat /\ k >= 1 /\ p \in Activities /\ p = stackActivities[k]
          /\ Len(stackActivities') = k - 1
          /\ \A i \in 1..(k - 1) : stackActivities'[i] = stackActivities[i]
      BY <1>12, ParentFacts DEF PopToParent, IInv
    <2>2. /\ currentActivity' = p
          /\ resultHandler' = Forgotten({currentActivity, p})
          /\ mainPc' \notin {"drain", "poll"}
      BY <1>12 DEF PopToParent, UnderLock
    <2>3. \A i \in 1..(k - 1) : Above(i)' = Above(i)
      BY <2>1, <2>2 DEF Above
    <2>4. ASSUME NEW a \in Activities, resultHandler'[a] # NoActivity
          PROVE  \E i \in 1..Len(stackActivities') :
                   stackActivities'[i] = a /\ resultHandler'[a] = Above(i)'
      <3>1. a # currentActivity /\ a # p /\ resultHandler'[a] = resultHandler[a]
        BY <2>2, <2>4 DEF Forgotten
      <3>2. PICK i \in 1..k : stackActivities[i] = a /\ resultHandler[a] = Above(i)
        BY <3>1, <2>4 DEF IInv, TreeInv, HandlerInv
      <3>3. i \in 1..(k - 1)
        BY <3>1, <3>2, <2>1
      <3> QED
        BY <3>1, <3>2, <3>3, <2>1, <2>3
    <2> QED
      BY <2>2, <2>4 DEF HandlerInv
  <1>13. CASE SwapReplace
    <2>1. Stacked = Range(stackActivities)
      BY <1>13, StackedAfterReplace DEF IInv
    <2>2. \A a \in Activities : resultHandler'[a] = NoActivity
      <3>1. \A a \in Activities : resultHandler[a] # NoActivity => a = currentActivity \/ a \in Stacked
        BY DEF IInv, TreeInv, HandlerInv, Stacked
      <3> QED
        BY <1>13, <2>1, <3>1 DEF SwapReplace, Forgotten
    <2> QED
      BY <1>13, <2>2 DEF HandlerInv, SwapReplace, EnterPending, UnderLock
  <1>14. CASE SwapPush
    <2>k. PICK k \in Nat : k = Len(stackActivities)
      BY StackFacts DEF IInv, TypeOK, TreeTypes
    <2>1. /\ mainPc = "swap" /\ mainPc' = "onEnter" /\ pendingAction = "Push"
          /\ currentActivity' = pendingActivity /\ resultHandler' = resultHandler
      BY <1>14 DEF SwapPush, EnterPending, UnderLock
    <2>2. currentActivity \in Activities
      BY <2>1, <1>t DEF IInv, ControlInv, WhereInv
    <2>3. /\ k \in Nat /\ Len(stackActivities') = k + 1
          /\ stackActivities'[k + 1] = currentActivity
          /\ \A i \in 1..k : stackActivities'[i] = stackActivities[i]
      BY <1>14, <2>k, <2>2, StackFacts DEF SwapPush, IInv, TypeOK, TreeTypes
    <2>4. Above(k + 1)' = pendingActivity
      BY <2>k, <2>1, <2>3 DEF Above
    <2>5. \A i \in 1..k : Above(i)' = Above(i)
      BY <2>k, <2>1, <2>3 DEF Above
    <2>6. ASSUME NEW a \in Activities, resultHandler[a] # NoActivity
          PROVE  \E i \in 1..Len(stackActivities') :
                   stackActivities'[i] = a /\ resultHandler[a] = Above(i)'
      <3>1. CASE a = currentActivity
        <4>1. pendingActivity = resultHandler[a]
          BY <3>1, <2>1, <2>6, <1>c
        <4>2. k + 1 \in 1..Len(stackActivities')
          BY <2>3
        <4> QED
          BY <3>1, <4>1, <4>2, <2>3, <2>4
      <3>2. CASE a # currentActivity
        <4>1. PICK i \in 1..k : stackActivities[i] = a /\ resultHandler[a] = Above(i)
          BY <2>k, <3>2, <2>6 DEF IInv, TreeInv, HandlerInv
        <4> QED
          BY <4>1, <2>3, <2>5
      <3> QED
        BY <3>1, <3>2
    <2> QED
      BY <2>1, <2>6 DEF HandlerInv
  <1>15. CASE Reset
    BY <1>15 DEF Reset, HandlerInv
  <1> QED
    BY <1>1, <1>2, <1>3, <1>4, <1>5, <1>6, <1>7, <1>8, <1>9, <1>10, <1>11, <1>12, <1>13, <1>14,
       <1>15, TreeCalls

\* The invariant is inductive: its parts together are kept by every step.
LEMMA NextIInv == IInv /\ [Next]_vars => IInv'
  BY NextControl, NextTreeTypes, NextTaskTypes, NextOneOwner, NextEntered, NextHandler
     DEF IInv, TypeOK, TreeInv

\* The inductive invariant holds of every behaviour of the program.
THEOREM Invariance == Spec => []IInv
  <1>1. Init => IInv
    BY InitIInv
  <1>2. IInv /\ [Next]_vars => IInv'
    BY NextIInv
  <1> QED
    BY <1>1, <1>2, PTL DEF Spec

\* Every variable keeps its type.
THEOREM TypeCorrect == Spec => []TypeOK
  <1>1. IInv => TypeOK
    BY DEF IInv
  <1> QED
    BY <1>1, Invariance, PTL

\* The render task never draws a destroyed activity or one that is not current.
THEOREM DrawingIsSafe == Spec => []DrawnStaysAlive
  <1>1. IInv => DrawnStaysAlive
    BY DEF IInv, ControlInv, DrawInv, TreeInv, OneOwner, TypeOK, TreeTypes, MaybeActivity,
           DrawnStaysAlive
  <1> QED
    BY <1>1, Invariance, PTL

\* Every live activity has one owner; no pointer dangles and none is leaked.
THEOREM Ownership == Spec => []OneOwner
  <1>1. IInv => OneOwner
    BY DEF IInv, TreeInv
  <1> QED
    BY <1>1, Invariance, PTL

\* The pending loop never spins on an action without its activity.
THEOREM NoSpin == Spec => []PendingMatches
  <1>1. IInv => PendingMatches
    BY DEF IInv, ControlInv
  <1> QED
    BY <1>1, Invariance, PTL

\* loop(), result handlers and the stack see entered activities only.
THEOREM EnterFirst == Spec => []EnteredFirst
  <1>1. IInv => EnteredFirst
    <2> SUFFICES ASSUME IInv PROVE EnteredFirst
      OBVIOUS
    <2>1. mainPc \in {"loop", "handler"} => currentActivity # NoActivity /\ mainPc # "onEnter"
      BY DEF IInv, ControlInv, WhereInv
    <2> QED
      BY <2>1 DEF IInv, TreeInv, EnteredInv, EnteredFirst
  <1> QED
    BY <1>1, Invariance, PTL

\* A result handler only ever waits for the activity right above its owner.
THEOREM ResultsReachStarter == Spec => []HandlerMatchesChild
  <1>1. IInv => HandlerMatchesChild
    <2> SUFFICES ASSUME IInv, NEW i \in 1..Len(stackActivities),
                        resultHandler[stackActivities[i]] # NoActivity
                 PROVE  resultHandler[stackActivities[i]] = Above(i)
      BY DEF HandlerMatchesChild
    <2> DEFINE a == stackActivities[i]
    <2>1. /\ a \in Activities /\ a # currentActivity
          /\ \A j \in 1..Len(stackActivities) : stackActivities[j] = a => j = i
      <3>1. /\ Len(stackActivities) \in Nat
            /\ \A j \in 1..Len(stackActivities) : stackActivities[j] \in Activities
        BY StackFacts DEF IInv, TypeOK, TreeTypes
      <3>2. a \in Stacked
        BY DEF Stacked
      <3> QED
        BY <3>1, <3>2 DEF IInv, TreeInv, OneOwner
    <2> HIDE DEF a
    <2>2. PICK j \in 1..Len(stackActivities) :
            stackActivities[j] = a /\ resultHandler[a] = Above(j)
      BY <2>1 DEF IInv, TreeInv, HandlerInv, a
    <2> QED
      BY <2>1, <2>2 DEF a
  <1> QED
    BY <1>1, Invariance, PTL

\* A blocked main task holds no mutex, and a paint that wakes it is on its way.
THEOREM BlockedIsServed == Spec => []WaitIsServed
  <1>1. IInv => WaitIsServed
    BY DEF IInv, ControlInv
  <1> QED
    BY <1>1, Invariance, PTL

=============================================================================
