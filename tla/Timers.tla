------------------------------- MODULE Timers -------------------------------
(***************************************************************************)
(* The timers of a thread: the two-tier queue of timeq.c, the cached clock *)
(* of timepiece.c that times are taken from, and the code of event.c that  *)
(* arms, disarms and fires timers around an event poll.                    *)
(*                                                                         *)
(* Entries wait in one of three places.  The front end fe is sorted.  The  *)
(* buckets of t1 hold the values from t1_start on, t1_width to a bucket.   *)
(* The list t2 holds the values from t2_start on, in no order.  getmin is  *)
(* taken round by round: its jumps to "restart" are steps.                 *)
(***************************************************************************)
EXTENDS Integers, SequencesExt

CONSTANTS
    Timers,     \* the event timers, one queue entry each
    Timeouts,   \* timeouts that timers are armed with
    MaxTime,    \* bound: the system clock stops here
    ClockCount, \* MM_TIMEPIECE_COUNT, readings from one clock call
    ClockDelta  \* mm_timepiece_delta, in the unit of the system clock

VARIABLES
    q,      \* struct mm_timeq
    value,  \* value of each entry, TimevalMax when it is not armed
    index,  \* where each entry is, a bucket of t1 or one of the marks below
    time,   \* the system's monotonic clock
    clock,  \* struct mm_timepiece of the context
    pc,     \* the step of mm_event_listen
    timer,  \* its timer variable, the result of getmin
    timeout \* how long the poll may sleep

vars == <<q, value, index, time, clock, pc, timer, timeout>>

None == "none"
TimevalMin == -1
TimevalMax == MaxTime + Max(Timeouts) + 1
INDEX_NO == -1
INDEX_T2 == -2
INDEX_FE == -3
WidthMin == 1       \* MM_TIMEQ_T1_WIDTH_MIN
CountMin == 4       \* MM_TIMEQ_T1_COUNT_MIN
MaxTimeout == Max(Timeouts)

(***************************************************************************)
(* The time queue.                                                         *)
(***************************************************************************)

(* mm_timeq_prepare *)
EmptyQueue ==
    [fe |-> <<>>, t1 |-> <<>>, t1_start |-> TimevalMin, t1_width |-> 0, t1_index |-> 0,
     t2 |-> <<>>, t2_start |-> TimevalMin, t2_min |-> TimevalMax, t2_max |-> TimevalMin, t2_num |-> 0]

t1_count(s) == Len(s.t1)

(* mm_timeq_insert_fe: after the last entry with no greater value          *)
InsertFe(s, val, e) ==
    LET before == {i \in 1 .. Len(s.fe) : val[s.fe[i]] <= val[e]}
        at == Max(before \cup {0})
    IN [s EXCEPT !.fe = InsertAt(@, at + 1, e)]

InsertFeAll(s, val, es) == FoldLeft(LAMBDA acc, e : InsertFe(acc, val, e), s, es)

(* mm_timeq_insert_t1: bucket i is at i + 1 of the sequence t1             *)
Bucket(s, v) == s.t1_index + (v - s.t1_start) \div s.t1_width
InsertT1(s, val, e) == [s EXCEPT !.t1[Bucket(s, val[e]) + 1] = Append(@, e)]

(* mm_timeq_insert_t2 *)
InsertT2(s, val, e) ==
    [s EXCEPT !.t2 = Append(@, e), !.t2_num = @ + 1,
              !.t2_min = IF @ > val[e] THEN val[e] ELSE @,
              !.t2_max = IF @ < val[e] THEN val[e] ELSE @]

(* mm_timeq_insert: the index of the entry, and the entry put there        *)
PlaceIndex(s, v) ==
    IF s.t2_start <= v THEN INDEX_T2 ELSE IF s.t1_start <= v THEN Bucket(s, v) ELSE INDEX_FE

Insert(s, val, e) ==
    LET i == PlaceIndex(s, val[e]) IN
    IF i = INDEX_T2 THEN InsertT2(s, val, e)
    ELSE IF i = INDEX_FE THEN InsertFe(s, val, e) ELSE InsertT1(s, val, e)

(* mm_timeq_delete: t2_min and t2_max stay as they are                     *)
Without(l, e) == SelectSeq(l, LAMBDA x : x # e)
Delete(s, e) ==
    CASE index[e] = INDEX_FE -> [s EXCEPT !.fe = Without(@, e)]
      [] index[e] = INDEX_T2 -> [s EXCEPT !.t2 = Without(@, e), !.t2_num = @ - 1]
      [] OTHER -> [s EXCEPT !.t1[index[e] + 1] = Without(@, e)]

(* mm_timeq_entry_queued, mm_event_timer_armed *)
Armed(e) == index[e] # INDEX_NO

(***************************************************************************)
(* mm_timeq_getmin.                                                        *)
(***************************************************************************)

(* The empty buckets in front are skipped.                                 *)
SkipKeepStart(s) ==
    LET full == {i \in s.t1_index + 1 .. t1_count(s) : s.t1[i] # <<>>}
    IN [s EXCEPT !.t1_index = IF full = {} THEN t1_count(s) ELSE Min(full) - 1]

Skip(s) ==
    LET full == {i \in s.t1_index + 1 .. t1_count(s) : s.t1[i] # <<>>}
        to == IF full = {} THEN t1_count(s) ELSE Min(full) - 1
    IN [s EXCEPT !.t1_index = to, !.t1_start = @ + (to - s.t1_index) * s.t1_width]

(* A round starts with an empty front end.                                 *)
Bucketed(s) == q.fe = <<>> /\ s.t1_index < t1_count(s)
Spent(s) == q.fe = <<>> /\ s.t1_index = t1_count(s)

Return(s, e) == q' = s /\ timer' = e /\ UNCHANGED index

GetFront == q.fe # <<>> /\ Return(q, q.fe[1])

(* A bucket with one entry gives it; another one goes to the front end.    *)
GetBucket ==
    LET s == Skip(q) IN
    /\ Bucketed(s)
    /\ Len(s.t1[s.t1_index + 1]) = 1
    /\ Return(s, s.t1[s.t1_index + 1][1])

EraseBucket ==
    LET s == Skip(q)
        b == s.t1_index
        es == s.t1[b + 1]
        erased == [s EXCEPT !.t1[b + 1] = <<>>, !.t1_index = b + 1, !.t1_start = @ + s.t1_width]
    IN /\ Bucketed(s)
       /\ Len(es) > 1
       /\ q' = InsertFeAll(erased, value, es)
       /\ index' = [e \in Timers |-> IF index[e] = b THEN INDEX_FE ELSE index[e]]
       /\ UNCHANGED timer

GetLast ==
    LET s == Skip(q) IN
    /\ Spent(s) /\ s.t2_num = 1
    /\ Return(s, s.t2[1])

GetNone ==
    LET s == Skip(q) IN
    /\ Spent(s) /\ s.t2_num < 1
    /\ Return(s, None)

(* All that t2 holds is spread over new buckets, as far as they reach.     *)
SpreadWidth(s) ==
    LET w == (s.t2_max - s.t2_min) \div s.t2_num
    IN IF w < WidthMin THEN WidthMin ELSE w

SpreadCount(s) ==
    LET n == (s.t2_max - s.t2_min) \div SpreadWidth(s)
    IN IF n < CountMin THEN CountMin ELSE n

Buckets(s) ==
    IF t1_count(s) < SpreadCount(s) THEN [i \in 1 .. SpreadCount(s) |-> <<>>] ELSE s.t1

Spread(s) ==
    LET width == SpreadWidth(s)
        count == SpreadCount(s)
        base == [s EXCEPT !.t1 = Buckets(s), !.t1_width = width, !.t1_start = s.t2_min,
                          !.t1_index = Len(Buckets(s)) - count,
                          !.t2_start = s.t2_min + width * count,
                          !.t2_min = TimevalMax, !.t2_max = TimevalMin, !.t2_num = 0, !.t2 = <<>>]
    IN FoldLeft(LAMBDA acc, e : Insert(acc, value, e), base, s.t2)

SpreadT2 ==
    LET s == Skip(q)
        to == Spread(s)
    IN /\ Spent(s) /\ s.t2_num > 1
       /\ q' = to
       /\ index' = [e \in Timers |-> IF index[e] = INDEX_T2 THEN PlaceIndex(to, value[e]) ELSE index[e]]
       /\ UNCHANGED timer

(* One round of getmin, which ends at "ret" or starts another round.       *)
GetminReturn(at, ret) ==
    /\ pc = at
    /\ GetFront \/ GetBucket \/ GetLast \/ GetNone
    /\ pc' = ret
    /\ UNCHANGED <<value, time, clock, timeout>>

GetminRestart(at) ==
    /\ pc = at
    /\ EraseBucket \/ SpreadT2
    /\ UNCHANGED <<value, time, clock, pc, timeout>>

(***************************************************************************)
(* The clock: mm_timepiece_gettime and its slow path.                      *)
(***************************************************************************)

gettime_slow(c) ==
    IF c.stamp + ClockDelta <= time
    THEN [value |-> time, count |-> ClockCount, stamp |-> time]
    ELSE [c EXCEPT !.count = ClockCount]

gettime(c) == IF c.count > 0 THEN [c EXCEPT !.count = @ - 1] ELSE gettime_slow(c)

Tick ==
    /\ time < MaxTime
    /\ time' = time + 1
    /\ UNCHANGED <<q, value, index, clock, pc, timer, timeout>>

(***************************************************************************)
(* Arming, disarming and the event loop.                                   *)
(***************************************************************************)

(* mm_event_arm_timer *)
Arm(e, t) ==
    LET c == gettime(clock)
        v == c.value + t
        s == IF Armed(e) THEN Delete(q, e) ELSE q
        val == [value EXCEPT ![e] = v]
    IN /\ pc = "run"
       /\ clock' = c
       /\ value' = val
       /\ q' = Insert(s, val, e)
       /\ index' = [index EXCEPT ![e] = PlaceIndex(s, v)]
       /\ UNCHANGED <<time, pc, timer, timeout>>

(* mm_event_disarm_timer *)
Disarm(e) ==
    /\ pc = "run"
    /\ Armed(e)
    /\ q' = Delete(q, e)
    /\ index' = [index EXCEPT ![e] = INDEX_NO]
    /\ value' = [value EXCEPT ![e] = TimevalMax]
    /\ UNCHANGED <<time, clock, pc, timer, timeout>>

(* mm_event_listen: getmin, mm_event_check_timer, mm_timepiece_reset       *)
Listen ==
    /\ pc = "run"
    /\ pc' = "getmin"
    /\ UNCHANGED <<q, value, index, time, clock, timer, timeout>>

check_timer(c) ==
    IF value[timer] <= c.value THEN 0 ELSE Min({MaxTimeout, value[timer] - c.value})

Check ==
    /\ pc = "check"
    /\ \/ timeout' = 0 /\ clock' = clock      \* no wait asked for, or urgent changes
       \/ LET c == IF timer = None THEN clock ELSE gettime(clock) IN
          /\ timeout' = IF timer = None THEN MaxTimeout ELSE check_timer(c)
          /\ clock' = [c EXCEPT !.count = 0]
    /\ pc' = "poll"
    /\ UNCHANGED <<q, value, index, time, timer>>

(* The poll lasts while Tick goes on; then the timers are looked at.       *)
Polled ==
    /\ pc = "poll"
    /\ clock' = IF timer = None THEN clock ELSE gettime(clock)
    /\ pc' = IF timer = None THEN "run" ELSE "fire"
    /\ timeout' = 0
    /\ UNCHANGED <<q, value, index, time, timer>>

(* mm_event_fire_timers: the action of the timer is to run again           *)
Fire ==
    /\ pc = "fire"
    /\ timer # None /\ value[timer] <= clock.value
    /\ q' = Delete(q, timer)
    /\ index' = [index EXCEPT ![timer] = INDEX_NO]
    /\ value' = [value EXCEPT ![timer] = TimevalMax]
    /\ pc' = "next" /\ timer' = None
    /\ UNCHANGED <<time, clock, timeout>>

FireEnd ==
    /\ pc = "fire"
    /\ ~(timer # None /\ value[timer] <= clock.value)
    /\ pc' = "run" /\ timer' = None /\ timeout' = 0
    /\ UNCHANGED <<q, value, index, time, clock>>

Init ==
    /\ q = EmptyQueue
    /\ value = [e \in Timers |-> TimevalMax]
    /\ index = [e \in Timers |-> INDEX_NO]
    /\ time = 0
    /\ clock = [value |-> 0, count |-> 0, stamp |-> 0]
    /\ pc = "run" /\ timer = None /\ timeout = 0

Next ==
    \/ \E e \in Timers, t \in Timeouts : Arm(e, t)
    \/ \E e \in Timers : Disarm(e)
    \/ Tick \/ Listen \/ Check \/ Polled \/ Fire \/ FireEnd
    \/ GetminReturn("getmin", "check") \/ GetminRestart("getmin")
    \/ GetminReturn("next", "fire") \/ GetminRestart("next")

Spec == Init /\ [][Next]_vars

(***************************************************************************)
(* Properties.                                                             *)
(***************************************************************************)

ArmedSet == {e \in Timers : Armed(e)}

(* The timer that mm_timeq_getmin returns is the earliest of all that are  *)
(* armed, whatever tiers they went through, and none is returned only if   *)
(* none is armed.  So timers are fired in the order of their times and     *)
(* never before them, and a poll never sleeps past the earliest timer.     *)
EarliestFirst ==
    /\ pc \in {"check", "poll", "fire"} =>
         IF timer = None THEN ArmedSet = {}
         ELSE Armed(timer) /\ \A e \in ArmedSet : value[timer] <= value[e]
    /\ pc = "poll" => \A e \in ArmedSet : timeout = 0 \/ clock.value + timeout <= value[e]
    /\ clock.value <= time

=============================================================================
