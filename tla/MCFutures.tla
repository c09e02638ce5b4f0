------------------------------ MODULE MCFutures ------------------------------
(***************************************************************************)
(* An instance for TLC of the ways to have work done elsewhere: calls that *)
(* threads post to each other, a future with several waiters and one with  *)
(* a single waiter.  A behaviour is one of the three, the others rest.     *)
(***************************************************************************)
EXTENDS AsyncCalls, FutureParams, TLC

CONSTANTS t1, t2, w1, w2
TwoThreads == {t1, t2}
TwoWaiters == {w1, w2}
OneTimed == {w2}

VARIABLES
    part,                                                   \* the part that moves
    result, cancel, running, lock, set, fiber, used, queued, pc, res, entry,
    tpc, taken, value, calls, cpc, freed, crashed,          \* the shared future
    mem, wbuf, tbuf, timed, uqueued, upc, ures, utpc, ucall, ufreed    \* the unique one

Shared == INSTANCE Future
Unique == INSTANCE UniqueFuture WITH
    queued <- uqueued, pc <- upc, res <- ures, tpc <- utpc, call <- ucall, freed <- ufreed

callVars == <<status, head, tail, published, cur, stack>>
sharedVars == <<result, cancel, running, lock, set, fiber, used, queued, pc, res, entry,
                tpc, taken, value, calls, cpc, freed, crashed>>
uniqueVars == <<mem, wbuf, tbuf, timed, uqueued, upc, ures, utpc, ucall, ufreed>>
allVars == <<part, callVars, sharedVars, uniqueVars>>

InitParts ==
    /\ part \in {"calls", "shared", "unique"} /\ Init /\ Shared!Init /\ Unique!Init
    /\ part # "unique" => ~timed /\ ~mem.signal
NextCalls == part = "calls" /\ Next /\ UNCHANGED <<part, sharedVars, uniqueVars>>
NextShared == part = "shared" /\ Shared!Next /\ UNCHANGED <<part, callVars, uniqueVars>>
NextUnique == part = "unique" /\ Unique!Next /\ UNCHANGED <<part, callVars, sharedVars>>
NextPart == NextCalls \/ NextShared \/ NextUnique

Calls(A) == part = "calls" /\ A /\ UNCHANGED <<part, sharedVars, uniqueVars>>
Future(A) == part = "shared" /\ ~crashed /\ A /\ UNCHANGED <<part, callVars, uniqueVars>>

(* The fairness of AsyncCalls and of Future, each if it is what moves.     *)
FairParts ==
    /\ InitParts /\ [][NextPart]_allVars
    /\ \A t \in Threads : WF_allVars(Calls(Run(t)))
    /\ WF_allVars(Future(Shared!Execute)) /\ SF_allVars(Future(Shared!TaskLock))
    /\ WF_allVars(Future(Shared!CancelLock \/ Shared!CancelUnlock))
    /\ \A w \in Waiters :
        /\ WF_allVars(Future(Shared!WaitStep(w)))
        /\ SF_allVars(Future(Shared!Lock(w))) /\ SF_allVars(Future(Shared!Deliver(w)))

(* mm_future_wait, _timedwait, _start, _cancel and _destroy, see Future;   *)
(* mm_future_unique_wait and _destroy, see UniqueFuture.                   *)
FutureInv == Shared!FutureInv /\ Unique!UniqueInv
NoNullFiber == Shared!NoNullFiber
WaitersReturn == Shared!WaitersReturn
=============================================================================
