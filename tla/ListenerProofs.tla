--------------------------- MODULE ListenerProofs ---------------------------
(***************************************************************************)
(* Proof, for any number of threads and any number of calls, that a thread *)
(* is never left asleep over a call in its queue.  A step is looked at     *)
(* from the one sleeping thread t it might harm: it is either a step of t  *)
(* itself, or of another thread u that posts a call to t, or of another    *)
(* thread that does something else.                                        *)
(***************************************************************************)
EXTENDS Listener, TLAPS

(* Every variable keeps its type under every step of the threads.          *)
LEMMA TypeStep == TypeOK /\ [Next]_vars => TypeOK'
<1> SUFFICES ASSUME TypeOK, [Next]_vars PROVE TypeOK'
  OBVIOUS
<1> USE DEF TypeOK, Modes, Steps, PollSteps, WaitSteps, SendSteps, Goto, SetStatus,
            EndPost, EndListen, status, queue, backend, sender
<1>0. ASSUME NEW t \in Threads, Receive(t) 
      PROVE head' \in [Threads -> Nat] /\ tail' \in [Threads -> Nat] /\ published' \in [Threads -> SUBSET Nat]
  BY <1>0 DEF Receive, Receivable
<1>1. ASSUME NEW t \in Threads, HandleCalls(t) PROVE TypeOK'
  <2>1. CASE Receive(t) /\ SetStatus(t, "pending", 0) /\ Goto(t, "handle")
    BY <1>0, <1>1, <2>1 DEF HandleCalls
  <2>2. CASE Goto(t, "work") /\ UNCHANGED <<queue, status>>
    BY <1>1, <2>2 DEF HandleCalls
  <2> QED
    BY <1>1, <2>1, <2>2 DEF HandleCalls
<1>2. ASSUME NEW t \in Threads, HandleNext(t) PROVE TypeOK'
  BY <1>0, <1>2 DEF HandleNext
<1>3. ASSUME NEW t \in Threads, Publish(t) PROVE TypeOK'
  BY <1>3 DEF Publish
<1>4. ASSUME NEW t \in Threads, NotifyLoad(t) PROVE TypeOK'
  <2>1. CASE \E step \in {"notify", "signal"} : Goto(t, step) /\ UNCHANGED sender
    BY <1>4, <2>1 DEF NotifyLoad
  <2>2. CASE Goto(t, "work") /\ EndPost(t)
    BY <1>4, <2>2 DEF NotifyLoad
  <2> QED
    BY <1>4, <2>1, <2>2 DEF NotifyLoad
<1>5. ASSUME NEW t \in Threads, Notify(t) PROVE TypeOK'
  BY <1>5 DEF Notify
<1>6. ASSUME NEW t \in Threads, Signal(t) PROVE TypeOK'
  BY <1>6 DEF Signal
<1>7. ASSUME NEW t \in Threads, Listen(t) PROVE TypeOK'
  BY <1>7 DEF Listen
<1>8. ASSUME NEW t \in Threads, Clean(t) PROVE TypeOK'
  BY <1>8 DEF Clean
<1>9. ASSUME NEW t \in Threads, Polling(t) PROVE TypeOK'
  BY <1>9 DEF Polling, Posture
<1>10. ASSUME NEW t \in Threads, RestPoll(t) PROVE TypeOK'
  BY <1>10 DEF RestPoll, Restful
<1>11. ASSUME NEW t \in Threads, EpollNotified(t) PROVE TypeOK'
  BY <1>11 DEF EpollNotified
<1>12. ASSUME NEW t \in Threads, EpollEmpty(t) PROVE TypeOK'
  BY <1>12 DEF EpollEmpty
<1>13. ASSUME NEW t \in Threads, PollRunning(t) PROVE TypeOK'
  BY <1>13 DEF PollRunning
<1>14. ASSUME NEW t \in Threads, PollUnlock(t) PROVE TypeOK'
  BY <1>14 DEF PollUnlock
<1>15. ASSUME NEW t \in Threads, Waiting(t) PROVE TypeOK'
  BY <1>15 DEF Waiting, Posture
<1>16. ASSUME NEW t \in Threads, RestWait(t) PROVE TypeOK'
  BY <1>16 DEF RestWait
<1>17. ASSUME NEW t \in Threads, Futex(t) PROVE TypeOK'
  BY <1>17 DEF Futex
<1>18. ASSUME NEW t \in Threads, WaitRunning(t) PROVE TypeOK'
  BY <1>18 DEF WaitRunning
<1>19. ASSUME NEW t \in Threads, EpollReturn(t) PROVE TypeOK'
  BY <1>19 DEF EpollReturn
<1>20. ASSUME NEW t \in Threads, Timeout(t) PROVE TypeOK'
  BY <1>20 DEF Timeout
<1>21. ASSUME NEW t \in Threads, NEW d \in Threads, Call(t, d) PROVE TypeOK'
  BY <1>21 DEF Call
<1>22. CASE UNCHANGED vars
  BY <1>22 DEF vars
<1> QED
  BY <1>1, <1>2, <1>3, <1>4, <1>5, <1>6, <1>7, <1>8, <1>9, <1>10, <1>11,
     <1>12, <1>13, <1>14, <1>15, <1>16, <1>17, <1>18, <1>19, <1>20, <1>21,
     <1>22 DEF Next, Run, Handle, Send, Poll, Wait, Environment

(* The status word says what the thread x is about to do.                  *)
LEMMA AnnouncedStep ==
    ASSUME NEW x \in Threads, TypeOK, Announced(x), [Next]_vars
    PROVE  Announced(x)'
<1> USE DEF TypeOK, Goto, SetStatus, EndPost, EndListen, status, queue,
            backend, sender, Announced
<1>1. ASSUME NEW t \in Threads, HandleCalls(t) PROVE Announced(x)'
  BY <1>1 DEF HandleCalls, Receive
<1>2. ASSUME NEW t \in Threads, HandleNext(t) PROVE Announced(x)'
  BY <1>2 DEF HandleNext, Receive
<1>3. ASSUME NEW t \in Threads, Publish(t) PROVE Announced(x)'
  BY <1>3 DEF Publish
<1>4. ASSUME NEW t \in Threads, NotifyLoad(t) PROVE Announced(x)'
  BY <1>4 DEF NotifyLoad
<1>5. ASSUME NEW t \in Threads, Notify(t) PROVE Announced(x)'
  BY <1>5 DEF Notify
<1>6. ASSUME NEW t \in Threads, Signal(t) PROVE Announced(x)'
  BY <1>6 DEF Signal
<1>7. ASSUME NEW t \in Threads, Listen(t) PROVE Announced(x)'
  BY <1>7 DEF Listen
<1>8. ASSUME NEW t \in Threads, Clean(t) PROVE Announced(x)'
  BY <1>8 DEF Clean
<1>9. ASSUME NEW t \in Threads, Polling(t) PROVE Announced(x)'
  BY <1>9 DEF Polling, Posture
<1>10. ASSUME NEW t \in Threads, RestPoll(t) PROVE Announced(x)'
  BY <1>10 DEF RestPoll, Restful
<1>11. ASSUME NEW t \in Threads, EpollNotified(t) PROVE Announced(x)'
  BY <1>11 DEF EpollNotified
<1>12. ASSUME NEW t \in Threads, EpollEmpty(t) PROVE Announced(x)'
  BY <1>12 DEF EpollEmpty
<1>13. ASSUME NEW t \in Threads, PollRunning(t) PROVE Announced(x)'
  BY <1>13 DEF PollRunning
<1>14. ASSUME NEW t \in Threads, PollUnlock(t) PROVE Announced(x)'
  BY <1>14 DEF PollUnlock
<1>15. ASSUME NEW t \in Threads, Waiting(t) PROVE Announced(x)'
  BY <1>15 DEF Waiting, Posture
<1>16. ASSUME NEW t \in Threads, RestWait(t) PROVE Announced(x)'
  BY <1>16 DEF RestWait
<1>17. ASSUME NEW t \in Threads, Futex(t) PROVE Announced(x)'
  BY <1>17 DEF Futex
<1>18. ASSUME NEW t \in Threads, WaitRunning(t) PROVE Announced(x)'
  BY <1>18 DEF WaitRunning
<1>19. ASSUME NEW t \in Threads, EpollReturn(t) PROVE Announced(x)'
  BY <1>19 DEF EpollReturn
<1>20. ASSUME NEW t \in Threads, Timeout(t) PROVE Announced(x)'
  BY <1>20 DEF Timeout
<1>21. ASSUME NEW t \in Threads, NEW d \in Threads, Call(t, d) PROVE Announced(x)'
  BY <1>21 DEF Call
<1>22. CASE UNCHANGED vars
  BY <1>22 DEF vars
<1> QED
  BY <1>1, <1>2, <1>3, <1>4, <1>5, <1>6, <1>7, <1>8, <1>9, <1>10, <1>11,
     <1>12, <1>13, <1>14, <1>15, <1>16, <1>17, <1>18, <1>19, <1>20, <1>21,
     <1>22 DEF Next, Run, Handle, Send, Poll, Wait, Environment

(* poll_lock is held by x exactly while x polls: it is taken when it was   *)
(* free and only its holder gives it back.                                 *)
LEMMA LockStep ==
    ASSUME NEW x \in Threads, TypeOK, \A y \in Threads : LockHeld(y), [Next]_vars
    PROVE  LockHeld(x)'
<1> USE ListenerAssumption DEF TypeOK, Goto, SetStatus, EndPost, EndListen, status, queue,
            backend, sender, LockHeld, PollSteps
<1>1. ASSUME NEW t \in Threads, HandleCalls(t) PROVE LockHeld(x)'
  BY <1>1 DEF HandleCalls, Receive
<1>2. ASSUME NEW t \in Threads, HandleNext(t) PROVE LockHeld(x)'
  BY <1>2 DEF HandleNext, Receive
<1>3. ASSUME NEW t \in Threads, Publish(t) PROVE LockHeld(x)'
  BY <1>3 DEF Publish
<1>4. ASSUME NEW t \in Threads, NotifyLoad(t) PROVE LockHeld(x)'
  BY <1>4 DEF NotifyLoad
<1>5. ASSUME NEW t \in Threads, Notify(t) PROVE LockHeld(x)'
  BY <1>5 DEF Notify
<1>6. ASSUME NEW t \in Threads, Signal(t) PROVE LockHeld(x)'
  BY <1>6 DEF Signal
<1>7. ASSUME NEW t \in Threads, Listen(t) PROVE LockHeld(x)'
  BY <1>7 DEF Listen
<1>8. ASSUME NEW t \in Threads, Clean(t) PROVE LockHeld(x)'
  BY <1>8 DEF Clean
<1>9. ASSUME NEW t \in Threads, Polling(t) PROVE LockHeld(x)'
  BY <1>9 DEF Polling, Posture
<1>10. ASSUME NEW t \in Threads, RestPoll(t) PROVE LockHeld(x)'
  BY <1>10 DEF RestPoll, Restful
<1>11. ASSUME NEW t \in Threads, EpollNotified(t) PROVE LockHeld(x)'
  BY <1>11 DEF EpollNotified
<1>12. ASSUME NEW t \in Threads, EpollEmpty(t) PROVE LockHeld(x)'
  BY <1>12 DEF EpollEmpty
<1>13. ASSUME NEW t \in Threads, PollRunning(t) PROVE LockHeld(x)'
  BY <1>13 DEF PollRunning
<1>14. ASSUME NEW t \in Threads, PollUnlock(t) PROVE LockHeld(x)'
  BY <1>14 DEF PollUnlock
<1>15. ASSUME NEW t \in Threads, Waiting(t) PROVE LockHeld(x)'
  BY <1>15 DEF Waiting, Posture
<1>16. ASSUME NEW t \in Threads, RestWait(t) PROVE LockHeld(x)'
  BY <1>16 DEF RestWait
<1>17. ASSUME NEW t \in Threads, Futex(t) PROVE LockHeld(x)'
  BY <1>17 DEF Futex
<1>18. ASSUME NEW t \in Threads, WaitRunning(t) PROVE LockHeld(x)'
  BY <1>18 DEF WaitRunning
<1>19. ASSUME NEW t \in Threads, EpollReturn(t) PROVE LockHeld(x)'
  BY <1>19 DEF EpollReturn
<1>20. ASSUME NEW t \in Threads, Timeout(t) PROVE LockHeld(x)'
  BY <1>20 DEF Timeout
<1>21. ASSUME NEW t \in Threads, NEW d \in Threads, Call(t, d) PROVE LockHeld(x)'
  BY <1>21 DEF Call
<1>22. CASE UNCHANGED vars
  BY <1>22 DEF vars
<1> QED
  BY <1>1, <1>2, <1>3, <1>4, <1>5, <1>6, <1>7, <1>8, <1>9, <1>10, <1>11,
     <1>12, <1>13, <1>14, <1>15, <1>16, <1>17, <1>18, <1>19, <1>20, <1>21,
     <1>22 DEF Next, Run, Handle, Send, Poll, Wait, Environment

(* A poller stays due for a wake-up: a thread that has its stamp goes on to *)
(* write to the eventfd, whose counter only another poller could clean.    *)
LEMMA PollerStep ==
    ASSUME NEW x \in Threads, TypeOK, PollerWakes(x), Announced(x), \A y \in Threads : LockHeld(y), [Next]_vars
    PROVE  PollerWakes(x)'
<1> USE DEF TypeOK, Goto, SetStatus, EndPost, EndListen, status, queue,
            backend, sender, PollerWakes, InFlight, Announced, LockHeld,
            PollSteps
<1>1. ASSUME NEW t \in Threads, HandleCalls(t) PROVE PollerWakes(x)'
  BY <1>1 DEF HandleCalls, Receive
<1>2. ASSUME NEW t \in Threads, HandleNext(t) PROVE PollerWakes(x)'
  BY <1>2 DEF HandleNext, Receive
<1>3. ASSUME NEW t \in Threads, Publish(t) PROVE PollerWakes(x)'
  BY <1>3 DEF Publish
<1>4. ASSUME NEW t \in Threads, NotifyLoad(t) PROVE PollerWakes(x)'
  BY <1>4 DEF NotifyLoad
<1>5. ASSUME NEW t \in Threads, Notify(t) PROVE PollerWakes(x)'
  BY <1>5 DEF Notify
<1>6. ASSUME NEW t \in Threads, Signal(t) PROVE PollerWakes(x)'
  BY <1>6 DEF Signal
<1>7. ASSUME NEW t \in Threads, Listen(t) PROVE PollerWakes(x)'
  BY <1>7 DEF Listen
<1>8. ASSUME NEW t \in Threads, Clean(t) PROVE PollerWakes(x)'
  BY <1>8 DEF Clean
<1>9. ASSUME NEW t \in Threads, Polling(t) PROVE PollerWakes(x)'
  BY <1>9 DEF Polling, Posture
<1>10. ASSUME NEW t \in Threads, RestPoll(t) PROVE PollerWakes(x)'
  BY <1>10 DEF RestPoll, Restful
<1>11. ASSUME NEW t \in Threads, EpollNotified(t) PROVE PollerWakes(x)'
  BY <1>11 DEF EpollNotified
<1>12. ASSUME NEW t \in Threads, EpollEmpty(t) PROVE PollerWakes(x)'
  BY <1>12 DEF EpollEmpty
<1>13. ASSUME NEW t \in Threads, PollRunning(t) PROVE PollerWakes(x)'
  BY <1>13 DEF PollRunning
<1>14. ASSUME NEW t \in Threads, PollUnlock(t) PROVE PollerWakes(x)'
  BY <1>14 DEF PollUnlock
<1>15. ASSUME NEW t \in Threads, Waiting(t) PROVE PollerWakes(x)'
  BY <1>15 DEF Waiting, Posture
<1>16. ASSUME NEW t \in Threads, RestWait(t) PROVE PollerWakes(x)'
  BY <1>16 DEF RestWait
<1>17. ASSUME NEW t \in Threads, Futex(t) PROVE PollerWakes(x)'
  BY <1>17 DEF Futex
<1>18. ASSUME NEW t \in Threads, WaitRunning(t) PROVE PollerWakes(x)'
  BY <1>18 DEF WaitRunning
<1>19. ASSUME NEW t \in Threads, EpollReturn(t) PROVE PollerWakes(x)'
  BY <1>19 DEF EpollReturn
<1>20. ASSUME NEW t \in Threads, Timeout(t) PROVE PollerWakes(x)'
  BY <1>20 DEF Timeout
<1>21. ASSUME NEW t \in Threads, NEW d \in Threads, Call(t, d) PROVE PollerWakes(x)'
  BY <1>21 DEF Call
<1>22. CASE UNCHANGED vars
  BY <1>22 DEF vars
<1> QED
  BY <1>1, <1>2, <1>3, <1>4, <1>5, <1>6, <1>7, <1>8, <1>9, <1>10, <1>11,
     <1>12, <1>13, <1>14, <1>15, <1>16, <1>17, <1>18, <1>19, <1>20, <1>21,
     <1>22 DEF Next, Run, Handle, Send, Poll, Wait, Environment

(* A waiter stays due for a wake-up: a thread that has its stamp goes on to *)
(* signal the futex.                                                       *)
LEMMA WaiterStep ==
    ASSUME NEW x \in Threads, TypeOK, WaiterWakes(x), Announced(x), [Next]_vars
    PROVE  WaiterWakes(x)'
<1> USE DEF TypeOK, Goto, SetStatus, EndPost, EndListen, status, queue,
            backend, sender, WaiterWakes, InFlight, Announced
<1>1. ASSUME NEW t \in Threads, HandleCalls(t) PROVE WaiterWakes(x)'
  BY <1>1 DEF HandleCalls, Receive
<1>2. ASSUME NEW t \in Threads, HandleNext(t) PROVE WaiterWakes(x)'
  BY <1>2 DEF HandleNext, Receive
<1>3. ASSUME NEW t \in Threads, Publish(t) PROVE WaiterWakes(x)'
  BY <1>3 DEF Publish
<1>4. ASSUME NEW t \in Threads, NotifyLoad(t) PROVE WaiterWakes(x)'
  BY <1>4 DEF NotifyLoad
<1>5. ASSUME NEW t \in Threads, Notify(t) PROVE WaiterWakes(x)'
  BY <1>5 DEF Notify
<1>6. ASSUME NEW t \in Threads, Signal(t) PROVE WaiterWakes(x)'
  BY <1>6 DEF Signal
<1>7. ASSUME NEW t \in Threads, Listen(t) PROVE WaiterWakes(x)'
  BY <1>7 DEF Listen
<1>8. ASSUME NEW t \in Threads, Clean(t) PROVE WaiterWakes(x)'
  BY <1>8 DEF Clean
<1>9. ASSUME NEW t \in Threads, Polling(t) PROVE WaiterWakes(x)'
  BY <1>9 DEF Polling, Posture
<1>10. ASSUME NEW t \in Threads, RestPoll(t) PROVE WaiterWakes(x)'
  BY <1>10 DEF RestPoll, Restful
<1>11. ASSUME NEW t \in Threads, EpollNotified(t) PROVE WaiterWakes(x)'
  BY <1>11 DEF EpollNotified
<1>12. ASSUME NEW t \in Threads, EpollEmpty(t) PROVE WaiterWakes(x)'
  BY <1>12 DEF EpollEmpty
<1>13. ASSUME NEW t \in Threads, PollRunning(t) PROVE WaiterWakes(x)'
  BY <1>13 DEF PollRunning
<1>14. ASSUME NEW t \in Threads, PollUnlock(t) PROVE WaiterWakes(x)'
  BY <1>14 DEF PollUnlock
<1>15. ASSUME NEW t \in Threads, Waiting(t) PROVE WaiterWakes(x)'
  BY <1>15 DEF Waiting, Posture
<1>16. ASSUME NEW t \in Threads, RestWait(t) PROVE WaiterWakes(x)'
  BY <1>16 DEF RestWait
<1>17. ASSUME NEW t \in Threads, Futex(t) PROVE WaiterWakes(x)'
  BY <1>17 DEF Futex
<1>18. ASSUME NEW t \in Threads, WaitRunning(t) PROVE WaiterWakes(x)'
  BY <1>18 DEF WaitRunning
<1>19. ASSUME NEW t \in Threads, EpollReturn(t) PROVE WaiterWakes(x)'
  BY <1>19 DEF EpollReturn
<1>20. ASSUME NEW t \in Threads, Timeout(t) PROVE WaiterWakes(x)'
  BY <1>20 DEF Timeout
<1>21. ASSUME NEW t \in Threads, NEW d \in Threads, Call(t, d) PROVE WaiterWakes(x)'
  BY <1>21 DEF Call
<1>22. CASE UNCHANGED vars
  BY <1>22 DEF vars
<1> QED
  BY <1>1, <1>2, <1>3, <1>4, <1>5, <1>6, <1>7, <1>8, <1>9, <1>10, <1>11,
     <1>12, <1>13, <1>14, <1>15, <1>16, <1>17, <1>18, <1>19, <1>20, <1>21,
     <1>22 DEF Next, Run, Handle, Send, Poll, Wait, Environment

(* The initial state: nobody sleeps and all queues are empty.              *)
LEMMA InitInv == Init => ListenInv
<1> SUFFICES ASSUME Init PROVE ListenInv
  OBVIOUS
<1>1. TypeOK
  BY DEF Init, TypeOK, Modes, Steps, PollSteps, WaitSteps, SendSteps
<1>2. ASSUME NEW x \in Threads PROVE LockHeld(x)
  BY <1>2, ListenerAssumption DEF Init, LockHeld, PollSteps
<1>3. ASSUME NEW x \in Threads PROVE Announced(x) /\ PollerWakes(x) /\ WaiterWakes(x)
  BY <1>3 DEF Init, Announced, PollerWakes, WaiterWakes
<1> QED
  BY <1>1, <1>2, <1>3 DEF ListenInv, NoLostWakeup

(* No step of any thread invalidates the invariant.                        *)
LEMMA NextInv == ListenInv /\ [Next]_vars => ListenInv'
<1> SUFFICES ASSUME ListenInv, [Next]_vars PROVE ListenInv'
  OBVIOUS
<1>1. TypeOK'
  BY TypeStep DEF ListenInv
<1>2. ASSUME NEW x \in Threads PROVE (Announced(x) /\ LockHeld(x))'
  BY <1>2, AnnouncedStep, LockStep DEF ListenInv
<1>3. ASSUME NEW x \in Threads PROVE (PollerWakes(x) /\ WaiterWakes(x))'
  BY <1>3, PollerStep, WaiterStep DEF ListenInv, NoLostWakeup
<1> QED
  BY <1>1, <1>2, <1>3 DEF ListenInv, NoLostWakeup

(* The inductive invariant of the sleep and wake-up protocol holds for any *)
(* number of threads and calls.                                            *)
THEOREM ListenInvariant == Spec => []ListenInv
BY InitInv, NextInv, PTL DEF Spec

(* A thread never sleeps over a call that nobody is going to wake it for.  *)
THEOREM ListenNoLostWakeup == Spec => []NoLostWakeup
<1>1. ListenInv => NoLostWakeup
  BY DEF ListenInv
<1> QED
  BY <1>1, ListenInvariant, PTL
=============================================================================
