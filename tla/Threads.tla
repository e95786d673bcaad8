------------------------------- MODULE Threads -------------------------------
(***************************************************************************)
(* The concurrency floor of the body (body/enclosure.c): a fixed table of  *)
(* thread slots, a round-robin scheduler preempted by the timer, a futex   *)
(* wait queue with absolute deadlines, and slots that are reclaimed.       *)
(*                                                                         *)
(* There is one CPU, and the kernel runs with interrupts off: a system     *)
(* call runs from its entry to the point where some thread is back in ring *)
(* 3, or to the idle loop, in one step.  The timer arrives in ring 3 or in *)
(* the idle loop.  Between its system calls a thread computes, which is no *)
(* step here; what it does to memory appears where the kernel reads it:    *)
(* the word of a thread id, and the timespec of a timed wait.  A futex     *)
(* word's value only decides whether a wait blocks, and a wait that does   *)
(* not block changes nothing.                                              *)
(***************************************************************************)
EXTENDS Naturals, FiniteSets

CONSTANTS
  NSlots,          \* SCHED_MAX_THREADS
  SyncWords,       \* futex words of locks and semaphores
  TidWords,        \* words that hold a thread's id until it ends
  Timespecs,       \* timespecs in the memory of the program
  RealTimespecs,   \* those used with CLOCK_REALTIME
  Base,            \* serve_rt_base_ns: the epoch at tick 0
  Delays,          \* how far ahead a deadline is laid
  MayShare,        \* whether two waits may be given one timespec
  Horizon,         \* bound on the clock
  MaxTid,          \* bound on the threads ever created
  None

ASSUME SlotsAssumption == NSlots \in Nat \ {0}
ASSUME TimeAssumption == Base \in Nat /\ Horizon \in Nat /\ Delays \subseteq Nat
ASSUME MemoryAssumption ==
  /\ RealTimespecs \subseteq Timespecs
  /\ SyncWords \cap TidWords = {}
  /\ None \notin Nat \cup SyncWords \cup TidWords \cup Timespecs
  /\ None \notin [p : Timespecs, old : Nat]
ASSUME BoundsAssumption == MaxTid \in Nat /\ MayShare \in BOOLEAN

Slots == 0 .. NSlots - 1
Words == SyncWords \cup TidWords

(* struct thread.  kctx is where the thread stands in the kernel; frame is *)
(* what the futex entry keeps on the thread's kernel stack: the timespec   *)
(* it converted and what it held before.  due is history: the deadline the *)
(* caller of the latest wait asked for.                                    *)
Thread ==
  [state    : {"FREE", "RUNNABLE", "RUNNING", "BLOCKED", "ZOMBIE"},
   tid      : Nat,
   ctid     : TidWords \cup {None},
   wait     : Words \cup {None},
   deadline : Nat \cup {None},
   result   : {"woken", "ETIMEDOUT"},
   kctx     : {"ring3", "new", "timer", "futex", "exit"},
   frame    : [p : Timespecs, old : Nat] \cup {None},
   due      : Nat \cup {None}]

VARIABLES
  thr,      \* g_threads
  cur,      \* g_cur
  nextTid,  \* g_next_tid
  word,     \* the words that hold thread ids
  now,      \* sched_now_ns, in ticks
  ts,       \* the timespecs, in ticks of their clock
  laid,     \* history: the deadline the program laid in each timespec
  counted   \* history: waiters that a wake counted and that have not returned

vars == <<thr, cur, nextTid, word, now, ts, laid, counted>>

-----------------------------------------------------------------------------
(* The table *)

Put(T, s, t) == [r \in Slots |-> IF r = s THEN t ELSE T[r]]

Runnable(T) == {s \in Slots : T[s].state = "RUNNABLE"}

(* How far s lies behind c in the ring; c itself comes last. *)
Turn(c, s) == IF s > c THEN s - c ELSE s + NSlots - c

(* Mutant: the scan always starts at slot 0. *)
LowestSlot(T, c) == CHOOSE s \in Runnable(T) : \A r \in Runnable(T) : s <= r

PickNext(T, c) ==
  CHOOSE s \in Runnable(T) : \A r \in Runnable(T) : Turn(c, s) <= Turn(c, r)

Waiters(T, w) == {s \in Slots : T[s].state = "BLOCKED" /\ T[s].wait = w}

(* The first nr waiters in table order. *)
FirstWaiters(T, w, nr) ==
  {s \in Waiters(T, w) : Cardinality({r \in Waiters(T, w) : r < s}) < nr}

(* The waits of the slots in X end, each with the answer r. *)
EndWaits(T, X, r) ==
  [s \in Slots |-> IF s \in X
                     THEN [T[s] EXCEPT !.state = "RUNNABLE", !.result = r,
                                       !.wait = None, !.deadline = None]
                     ELSE T[s]]

(* Mutant: the scan stops one waiter late. *)
WakeOneMore(T, w, nr) == EndWaits(T, FirstWaiters(T, w, nr + 1), "woken")

Wake(T, w, nr) == EndWaits(T, FirstWaiters(T, w, nr), "woken")

PastDeadline(T, time) ==
  {s \in Slots : T[s].state = "BLOCKED" /\ T[s].deadline # None /\ T[s].deadline <= time}

(* Mutant: the deadline is compared with the tick to come. *)
ExpireEarly(T, time) == EndWaits(T, PastDeadline(T, time + 1), "ETIMEDOUT")

(* Mutant: the scan leaves out slot 0, as the allocator's does. *)
ExpireChildren(T, time) == EndWaits(T, PastDeadline(T, time) \ {0}, "ETIMEDOUT")

Expire(T, time) == EndWaits(T, PastDeadline(T, time), "ETIMEDOUT")

-----------------------------------------------------------------------------
(* Switching.  Here T is the table, M the timespecs and C the counted      *)
(* waiters as the system call or the tick has left them.                   *)

(* n runs again where it stood.  A thread that stood in its futex wait     *)
(* returns from it: sched_futex forgets the word, serve_request puts the   *)
(* caller's timespec back.                                                 *)
Resume(T, M, C, n) ==
  /\ cur' = n
  /\ thr' = Put(T, n, [T[n] EXCEPT !.state = "RUNNING", !.kctx = "ring3",
                                   !.wait = None, !.frame = None])
  /\ ts' = IF T[n].frame = None THEN M ELSE [M EXCEPT ![T[n].frame.p] = T[n].frame.old]
  /\ counted' = C \ {n}

(* The current thread cannot go on (sched_block, sched_thread_exit): it    *)
(* goes on after all if its wait has ended, else the next runnable thread  *)
(* does, else the CPU idles.                                               *)
Dispatch(T, M, C) ==
  \/ T[cur].state = "RUNNABLE" /\ Resume(T, M, C, cur)
  \/ T[cur].state # "RUNNABLE" /\ Runnable(T) # {} /\ Resume(T, M, C, PickNext(T, cur))
  \/ Runnable(T) = {} /\ thr' = T /\ ts' = M /\ counted' = C /\ UNCHANGED cur

InRing3 == thr[cur].state = "RUNNING"

NextTick == IF now < Horizon THEN now + 1 ELSE now

(* Mutant: the idle loop is left to the interrupt, which never switches in *)
(* ring 0.                                                                 *)
TickIdlesOn ==
  LET T == Expire(thr, NextTick) IN
  /\ now' = NextTick
  /\ IF InRing3 /\ Runnable(T) # {}
       THEN Resume(Put(T, cur, [T[cur] EXCEPT !.state = "RUNNABLE", !.kctx = "timer"]),
                   ts, counted, PickNext(T, cur))
       ELSE thr' = T /\ UNCHANGED <<cur, ts, counted>>
  /\ UNCHANGED <<nextTid, word, laid>>

(* The timer.  It expires deadlines; in ring 3 it gives the turn to the    *)
(* next runnable thread, in the idle loop whoever waits there looks again. *)
Tick ==
  LET T == Expire(thr, NextTick) IN
  /\ now' = NextTick
  /\ \/ /\ InRing3 /\ Runnable(T) # {}
        /\ Resume(Put(T, cur, [T[cur] EXCEPT !.state = "RUNNABLE", !.kctx = "timer"]),
                  ts, counted, PickNext(T, cur))
     \/ InRing3 /\ Runnable(T) = {} /\ thr' = T /\ UNCHANGED <<cur, ts, counted>>
     \/ ~InRing3 /\ Dispatch(T, ts, counted)
  /\ UNCHANGED <<nextTid, word, laid>>

-----------------------------------------------------------------------------
(* System calls of the running thread *)

(* Mutant: a thread that waits is taken for one that is gone. *)
VacantOrBlocked ==
  {s \in Slots \ {0, cur} : thr[s].state \in {"FREE", "ZOMBIE", "BLOCKED"}}

(* sched_alloc: the first slot after main's that is free, or was left by a *)
(* finished thread.                                                        *)
Vacant == {s \in Slots \ {0, cur} : thr[s].state \in {"FREE", "ZOMBIE"}}

(* Mutant: the word's address is kept as zero where there is none. *)
Clone3Zeroed(c) ==
  /\ InRing3 /\ nextTid <= MaxTid /\ Vacant # {}
  /\ word[c] = 0
  /\ LET s == CHOOSE v \in Vacant : \A r \in Vacant : v <= r IN
       thr' = Put(thr, s, [state |-> "RUNNABLE", tid |-> nextTid, ctid |-> 0,
                           wait |-> None, deadline |-> None, result |-> "woken",
                           kctx |-> "new", frame |-> None, due |-> None])
  /\ nextTid' = nextTid + 1
  /\ word' = [word EXCEPT ![c] = nextTid]
  /\ UNCHANGED <<cur, now, ts, laid, counted>>

(* A new thread in a vacant slot, every field set anew, its id in the word *)
(* c the program keeps for it, which no live thread uses.  (A full table   *)
(* answers EAGAIN.)                                                        *)
Clone3(c) ==
  /\ InRing3 /\ nextTid <= MaxTid /\ Vacant # {}
  /\ word[c] = 0
  /\ LET s == CHOOSE v \in Vacant : \A r \in Vacant : v <= r IN
       thr' = Put(thr, s, [state |-> "RUNNABLE", tid |-> nextTid, ctid |-> c,
                           wait |-> None, deadline |-> None, result |-> "woken",
                           kctx |-> "new", frame |-> None, due |-> None])
  /\ nextTid' = nextTid + 1
  /\ word' = [word EXCEPT ![c] = nextTid]
  /\ UNCHANGED <<cur, now, ts, laid, counted>>

FutexWake(w, nr) ==
  /\ InRing3
  /\ thr' = Wake(thr, w, nr)
  /\ counted' = counted \cup FirstWaiters(thr, w, nr)
  /\ UNCHANGED <<cur, nextTid, word, now, ts, laid>>

(* The current thread blocks on w; its wait may end before it has left.    *)
Block(w, deadline, frame, due, M) ==
  LET blocked == [thr[cur] EXCEPT !.state = "BLOCKED", !.kctx = "futex", !.wait = w,
                                  !.deadline = deadline, !.result = "woken",
                                  !.frame = frame, !.due = due] IN
  Dispatch(Expire(Put(thr, cur, blocked), now), M, counted)

(* What a program waits on: a lock or semaphore, or, to join it, the word  *)
(* of another thread that has not ended; a thread is joined once.          *)
MayWaitOn(w) ==
  w \in TidWords => word[w] # 0 /\ thr[cur].ctid # w /\ Waiters(thr, w) = {}

FutexWait(w) ==
  /\ InRing3 /\ MayWaitOn(w)
  /\ Block(w, None, None, None, ts)
  /\ UNCHANGED <<nextTid, word, now, laid>>

(* FUTEX_WAIT_BITSET with the absolute deadline in timespec p, which the   *)
(* program has just laid (fresh) or laid for an earlier wait.  A REALTIME  *)
(* deadline is converted in place to the scheduler's clock for the time of *)
(* the call.                                                               *)
InUse(p) == \E s \in Slots : thr[s].kctx = "futex" /\ thr[s].frame # None /\ thr[s].frame.p = p

FromEpoch(dl) == IF dl > Base THEN dl - Base ELSE 0

TimedWait(w, p, fresh, d) ==
  LET due   == IF fresh THEN now + d ELSE laid[p]
      given == IF ~fresh THEN ts[p] ELSE IF p \in RealTimespecs THEN Base + due ELSE due
  IN
  /\ InRing3 /\ MayWaitOn(w)
  /\ IF fresh THEN ~InUse(p) /\ due <= Horizon ELSE laid[p] # None
  /\ InUse(p) => MayShare
  /\ laid' = [laid EXCEPT ![p] = due]
  /\ IF p \in RealTimespecs
       THEN Block(w, FromEpoch(given), [p |-> p, old |-> given], due,
                  [ts EXCEPT ![p] = FromEpoch(given)])
       ELSE Block(w, given, None, due, [ts EXCEPT ![p] = given])
  /\ UNCHANGED <<nextTid, word, now>>

(* SYS_exit: clear the thread's word, wake the one that joins it, become a *)
(* zombie, and leave for good.                                             *)
ThreadExit ==
  LET c     == thr[cur].ctid
      woken == IF c = None THEN {} ELSE FirstWaiters(thr, c, 1)
      T     == IF c = None THEN thr ELSE Wake(thr, c, 1)
  IN
  /\ InRing3
  /\ word' = IF c = None THEN word ELSE [word EXCEPT ![c] = 0]
  /\ Dispatch(Put(T, cur, [T[cur] EXCEPT !.state = "ZOMBIE", !.kctx = "exit"]),
              ts, counted \cup woken)
  /\ UNCHANGED <<nextTid, now, laid>>

-----------------------------------------------------------------------------
FreeSlot == [state |-> "FREE", tid |-> 0, ctid |-> None, wait |-> None, deadline |-> None,
             result |-> "woken", kctx |-> "exit", frame |-> None, due |-> None]

Init ==
  /\ thr = [s \in Slots |-> IF s = 0 THEN [FreeSlot EXCEPT !.state = "RUNNING", !.tid = 1,
                                                           !.kctx = "ring3"]
                                     ELSE FreeSlot]
  /\ cur = 0 /\ nextTid = 2
  /\ word = [c \in TidWords |-> 0]
  /\ now = 0
  /\ ts = [p \in Timespecs |-> 0] /\ laid = [p \in Timespecs |-> None]
  /\ counted = {}

Next ==
  \/ Tick
  \/ \E c \in TidWords : Clone3(c)
  \/ \E w \in Words, nr \in {1, NSlots} : FutexWake(w, nr)
  \/ \E w \in Words : FutexWait(w)
  \/ \E w \in Words, p \in Timespecs, fresh \in BOOLEAN, d \in Delays : TimedWait(w, p, fresh, d)
  \/ ThreadExit

Spec == Init /\ [][Next]_vars

(* The timer keeps coming (a tick that arrives during a system call is     *)
(* taken when it returns).                                                 *)
FairSpec == Spec /\ WF_vars(Tick)

-----------------------------------------------------------------------------
(* Properties *)

(* Every field of the table, the clock and the program's words keeps its   *)
(* type through reclaimed slots and abandoned waits (struct thread).       *)
TypeOK ==
  /\ thr \in [Slots -> Thread]
  /\ cur \in Slots /\ nextTid \in Nat /\ now \in Nat
  /\ word \in [TidWords -> Nat]
  /\ ts \in [Timespecs -> Nat] /\ laid \in [Timespecs -> Nat \cup {None}]
  /\ counted \subseteq Slots

(* One thread has the CPU, and the idle loop is entered or stayed in only  *)
(* while nobody is runnable (sched_block, sched_thread_exit): a thread     *)
(* that a tick or a wake made runnable is never left to a halted CPU.      *)
NeverIdlesOverWork ==
  /\ \A s \in Slots \ {cur} : thr[s].state # "RUNNING"
  /\ ~InRing3 => Runnable(thr) = {}

(* What FUTEX_WAKE counted, it woke, and nobody else (sched_futex_wake,    *)
(* sched_expire_deadlines): a counted waiter will answer its caller 0,     *)
(* whatever deadline passes before it runs, and a wait that ends uncounted *)
(* answers ETIMEDOUT.                                                      *)
WakesAreAnswered ==
  \A s \in Slots :
    /\ s \in counted => thr[s].state = "RUNNABLE" /\ thr[s].kctx = "futex"
    /\ thr[s].state = "RUNNABLE" /\ thr[s].kctx = "futex" =>
         (s \in counted <=> thr[s].result = "woken")

(* A join can always end (sched_thread_exit, sched_alloc): a thread that   *)
(* waits for another's word to be cleared waits for a live thread that     *)
(* will clear it, however slots are reclaimed.                             *)
JoinsAreOwed ==
  \A s \in Slots :
    thr[s].state = "BLOCKED" /\ thr[s].wait \in TidWords =>
      \E u \in Slots \ {s} : /\ thr[u].state \notin {"FREE", "ZOMBIE"}
                             /\ thr[u].ctid = thr[s].wait
                             /\ word[thr[s].wait] = thr[u].tid

(* A timed wait answers ETIMEDOUT only once the deadline its caller laid   *)
(* has passed on the caller's clock (serve_request's conversion,           *)
(* sched_expire_deadlines).                                                *)
TimesOutOnItsDeadline ==
  \A s \in Slots : thr[s].result = "ETIMEDOUT" => thr[s].due # None /\ thr[s].due <= now

(* Round robin (sched_pick_next): a runnable thread gets its turn,         *)
(* whatever the others do.                                                 *)
RunnableGetsItsTurn ==
  \A s \in Slots : thr[s].state = "RUNNABLE" ~> thr[s].state = "RUNNING"

(* A wait with a deadline ends (sched_expire_deadlines), also in the idle  *)
(* loop and for the main thread.                                           *)
TimedWaitsEnd ==
  \A s \in Slots : (thr[s].state = "BLOCKED" /\ thr[s].deadline # None) ~> InRing3 /\ cur = s
=============================================================================
